-------------------------- MODULE StreamPredictor --------------------------
(***************************************************************************)
(* The streaming side of the CPU predictor,                                *)
(* vllm/model_executor/openvino_predictor.py (submit_streaming,            *)
(* _stream_worker_loop, shutdown).                                         *)
(*                                                                         *)
(* The caller (the scheduler's thread) appends requests to a queue and     *)
(* wakes a worker; the worker (one thread of a ThreadPoolExecutor) pulls   *)
(* chunks, runs the model outside the lock and stores each score.  Every   *)
(* action below is one critical section of _stream_lock, or one step that  *)
(* the code takes outside the lock and that the other thread can observe.  *)
(***************************************************************************)
EXTENDS Lists

CONSTANTS
    Req,            \* the requests (a sequence group and its request_id)
    ChunkSize,      \* _stream_chunk_size
    SpawnMayFail,   \* executor.submit may raise
    ForwardMayFail  \* tokenizer or compiled_model may raise on a chunk

ASSUME ConstAssumption ==
    /\ ChunkSize \in Nat \ {0}
    /\ SpawnMayFail \in BOOLEAN
    /\ ForwardMayFail \in BOOLEAN

VARIABLES
    queue,     \* _stream_queue
    inFlight,  \* _stream_in_flight
    active,    \* _stream_worker_active
    up,        \* _executor is not None
    tasks,     \* worker loops handed to the executor and not yet started
    caller,    \* where the caller is in submit_streaming
    worker,    \* where the worker thread is in _stream_worker_loop
    chunk,     \* the pulled requests the worker has not yet released
    landing,   \* the request released but whose score is not yet stored
    score      \* aux_model_score of each request, by who computed it

lockVars == <<queue, inFlight, active>>
workerVars == <<worker, chunk, landing>>
vars == <<queue, inFlight, active, up, tasks, caller, worker, chunk, landing,
          score>>

TypeOK ==
    /\ queue \in Seq(Req)
    /\ inFlight \in SUBSET Req
    /\ active \in BOOLEAN
    /\ up \in BOOLEAN
    /\ tasks \in Nat
    /\ caller \in {"idle", "spawn"}
    /\ worker \in {"off", "pull", "forward", "apply", "land"}
    /\ chunk \in Seq(Req)
    /\ landing \in SUBSET Req
    /\ score \in [Req -> {"none", "cpu", "gpu"}]

Init ==
    /\ queue = <<>>
    /\ inFlight = {}
    /\ active = FALSE
    /\ up = TRUE
    /\ tasks = 0
    /\ caller = "idle"
    /\ worker = "off"
    /\ chunk = <<>>
    /\ landing = {}
    /\ score = [r \in Req |-> "none"]

----------------------------------------------------------------------------
(* The caller *)

\* Mutants of Enqueue: without the dedup, and without a look at the flag.
EnqueueAgain(batch) ==
    /\ caller = "idle"
    /\ up
    /\ queue' = queue \o batch
    /\ inFlight' = inFlight \union ToSet(batch)
    /\ active' = TRUE
    /\ caller' = IF active THEN "idle" ELSE "spawn"
    /\ UNCHANGED <<up, tasks, workerVars, score>>

EnqueueAndAlwaysSpawn(batch) ==
    /\ caller = "idle"
    /\ up
    /\ \E new \in Filtered(batch, Req \ inFlight) : queue' = queue \o new
    /\ inFlight' = inFlight \union ToSet(batch)
    /\ active' = TRUE
    /\ caller' = "spawn"
    /\ UNCHANGED <<up, tasks, workerVars, score>>

\* submit_streaming, its critical section: enqueue the requests that are not
\* yet in flight, and claim the right to start a worker when there is work and
\* none is active.
Enqueue(batch) ==
    /\ caller = "idle"
    /\ up
    /\ \E new \in Filtered(batch, Req \ inFlight) :
          LET wake == queue \o new # <<>> /\ ~active
          IN /\ queue' = queue \o new
             /\ active' = (active \/ wake)
             /\ caller' = IF wake THEN "spawn" ELSE "idle"
    /\ inFlight' = inFlight \union ToSet(batch)
    /\ UNCHANGED <<up, tasks, workerVars, score>>

\* submit_streaming, outside the lock: hand the worker loop to the executor.
Spawn ==
    /\ caller = "spawn"
    /\ tasks' = tasks + 1
    /\ caller' = "idle"
    /\ UNCHANGED <<lockVars, up, workerVars, score>>

\* submit_streaming, its except branch: executor.submit raised.
SpawnFails ==
    /\ SpawnMayFail
    /\ caller = "spawn"
    /\ active' = FALSE
    /\ caller' = "idle"
    /\ UNCHANGED <<queue, inFlight, up, tasks, workerVars, score>>

\* Mutant of Shutdown: the dedup set is left as it is.
ShutdownKeepsInFlight ==
    /\ caller = "idle"
    /\ up
    /\ up' = FALSE
    /\ queue' = <<>>
    /\ active' = FALSE
    /\ UNCHANGED <<inFlight, tasks, caller, workerVars, score>>

\* shutdown: the executor takes no more loops (those it has still run), and
\* the streaming state is cleared under the lock.
Shutdown ==
    /\ caller = "idle"
    /\ up
    /\ up' = FALSE
    /\ queue' = <<>>
    /\ inFlight' = {}
    /\ active' = FALSE
    /\ UNCHANGED <<tasks, caller, workerVars, score>>

----------------------------------------------------------------------------
(* The worker thread.  The executor has one thread (max_workers=1), so a   *)
(* loop starts only when the previous one has returned.                    *)

StartLoop ==
    /\ worker = "off"
    /\ tasks > 0
    /\ tasks' = tasks - 1
    /\ worker' = "pull"
    /\ UNCHANGED <<lockVars, up, caller, chunk, landing, score>>

\* Mutant of Exit: the loop returns without lowering the flag.
ExitKeepsFlag ==
    /\ worker = "pull"
    /\ queue = <<>>
    /\ worker' = "off"
    /\ UNCHANGED <<lockVars, up, tasks, caller, chunk, landing, score>>

\* An empty queue ends the loop, in the critical section that saw it empty.
Exit ==
    /\ worker = "pull"
    /\ queue = <<>>
    /\ active' = FALSE
    /\ worker' = "off"
    /\ UNCHANGED <<queue, inFlight, up, tasks, caller, chunk, landing, score>>

PullSize == IF Len(queue) < ChunkSize THEN Len(queue) ELSE ChunkSize

Pull ==
    /\ worker = "pull"
    /\ queue # <<>>
    /\ chunk' = SubSeq(queue, 1, PullSize)
    /\ queue' = SubSeq(queue, PullSize + 1, Len(queue))
    /\ worker' = "forward"
    /\ UNCHANGED <<inFlight, active, up, tasks, caller, landing, score>>

Forward ==
    /\ worker = "forward"
    /\ worker' = "apply"
    /\ UNCHANGED <<lockVars, up, tasks, caller, chunk, landing, score>>

\* Mutants of ForwardFails: the chunk stays in the dedup set; the failed
\* requests get a placeholder for a score.
ForwardFailsWithoutRelease ==
    /\ ForwardMayFail
    /\ worker = "forward"
    /\ chunk' = <<>>
    /\ worker' = "pull"
    /\ UNCHANGED <<lockVars, up, tasks, caller, landing, score>>

ForwardFailsWithPlaceholder ==
    /\ ForwardMayFail
    /\ worker = "forward"
    /\ inFlight' = inFlight \ ToSet(chunk)
    /\ score' = [r \in Req |-> IF r \in ToSet(chunk) THEN "nan" ELSE score[r]]
    /\ chunk' = <<>>
    /\ worker' = "pull"
    /\ UNCHANGED <<queue, active, up, tasks, caller, landing>>

\* The chunk failed: its requests are released unscored, the loop goes on.
ForwardFails ==
    /\ ForwardMayFail
    /\ worker = "forward"
    /\ inFlight' = inFlight \ ToSet(chunk)
    /\ chunk' = <<>>
    /\ worker' = "pull"
    /\ UNCHANGED <<queue, active, up, tasks, caller, landing, score>>

\* Under the lock the next request of the chunk leaves _stream_in_flight ...
Release ==
    /\ worker = "apply"
    /\ chunk # <<>>
    /\ inFlight' = inFlight \ {Head(chunk)}
    /\ landing' = {Head(chunk)}
    /\ chunk' = Tail(chunk)
    /\ worker' = "land"
    /\ UNCHANGED <<queue, active, up, tasks, caller, score>>

\* ... and only afterwards, outside the lock, its score is stored.
Land ==
    /\ worker = "land"
    /\ score' = [r \in Req |-> IF r \in landing THEN "cpu" ELSE score[r]]
    /\ landing' = {}
    /\ worker' = IF chunk = <<>> THEN "pull" ELSE "apply"
    /\ UNCHANGED <<lockVars, up, tasks, caller, chunk>>

WorkerNext ==
    StartLoop \/ Exit \/ Pull \/ Forward \/ ForwardFails \/ Release \/ Land

Next ==
    \/ \E batch \in Batches(Req) : Enqueue(batch)
    \/ Spawn
    \/ SpawnFails
    \/ Shutdown
    \/ WorkerNext

Spec == Init /\ [][Next]_vars

----------------------------------------------------------------------------
(* Correctness *)

\* The worker loops that run, are queued in the executor or are about to be
\* handed to it.
Loops == tasks + (IF worker = "off" THEN 0 ELSE 1)
               + (IF caller = "spawn" THEN 1 ELSE 0)

\* While the predictor is up, _stream_in_flight is exactly what is queued or
\* pulled and not yet released: the dedup set neither leaks a request (which
\* could then never be submitted again) nor forgets one (which would be
\* computed twice).
InFlightExact == up => inFlight = ToSet(queue) \union ToSet(chunk)

\* Dedup works: no request is in the queue twice, nor in the queue and in the
\* worker's hands at once, however often the scheduler submits it.
NoDuplicateWork == IsInjective(chunk \o queue)

\* _stream_worker_active speaks of one loop: a raised flag always stands for a
\* loop that will clear it; and as long as no spawn fails there is never a
\* second loop, whose exit would clear a flag that is not its own.
OneLoop ==
    /\ active => Loops >= 1
    /\ ~SpawnMayFail => Loops <= 1 /\ (up /\ Loops = 1 => active)

\* No lost wake-up: whenever a request is queued, a loop will look at the
\* queue again.  The loop decides to exit and the caller decides not to start
\* another one in two critical sections that can come in either order.
NoLostWakeup == ~SpawnMayFail /\ queue # <<>> => Loops >= 1

\* shutdown is final although it does not wait: a worker inside the model goes
\* on to release and land its chunk, and neither set is ever refilled.
ShutdownIsFinal == ~up => queue = <<>> /\ inFlight = {} /\ ~active

\* What the predictor owes a score: the requests it has queued, pulled, or
\* released and not yet scored.
Owed == ToSet(queue) \union ToSet(chunk) \union landing

Service == INSTANCE ScoreService WITH
               owed <- Owed, open <- up, MayFail <- ForwardMayFail

\* Queue, chunks and worker implement the contract of a score predictor: no
\* score for a request that was not accepted, none accepted and then silently
\* forgotten.
ImplementsScoreService == Service!Spec
=============================================================================
