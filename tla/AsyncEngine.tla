---------------------------- MODULE AsyncEngine ----------------------------
(***************************************************************************)
(* The asynchronous front end, vllm/engine/async_llm_engine.py: the calls  *)
(* of generate(), the RequestTracker and its streams, and the background   *)
(* loop with its failures.                                                 *)
(*                                                                         *)
(* Everything here runs on one event loop, so a step of the model is what  *)
(* one task does between two awaits at which it can really be suspended:   *)
(* the tokenizer in add_request, the model in step_async, an empty stream, *)
(* and new_requests_event.  The LLMEngine underneath is the set of its     *)
(* unfinished requests; with a gated schedule type only those the          *)
(* predictor has scored can be scheduled (DualScheduler has the details).  *)
(***************************************************************************)
EXTENDS Naturals, FiniteSets, Sequences, Functions

CONSTANTS
    Call,         \* calls of generate()
    RequestId,    \* request ids
    Assignments,  \* the ways in which clients may have chosen the ids
    Refusable,    \* calls whose request LLMEngine.add_request may refuse
    Gated,        \* the schedule type withholds unscored requests
    StepMayFail,  \* a step of the engine may raise or time out
    MaxOutputs    \* bound: outputs a request produces at most

ASSUME EngineAssumption ==
    /\ Assignments \subseteq [Call -> RequestId]
    /\ Refusable \subseteq Call
    /\ Gated \in BOOLEAN
    /\ StepMayFail \in BOOLEAN
    /\ MaxOutputs \in Nat \ {0}

VARIABLES
    idOf,      \* the id of each call; it does not change
    reliable,  \* no step will fail; it does not change
    client,    \* where each call is in generate()
    newQ,      \* RequestTracker._new_requests: the calls' streams, in order
    finQ,      \* RequestTracker._finished_requests, as a set of ids
    streams,   \* RequestTracker._request_streams: the call an id belongs to
    event,     \* RequestTracker.new_requests_event is set
    box,       \* AsyncStream._queue of each call
    closed,    \* AsyncStream._finished of each call
    loop,      \* where the background task is; "none" if it is not running
    progress,  \* has_requests_in_progress
    batch,     \* the calls the current step computes
    callback,  \* the done callback of a failed task has not run yet
    errored,   \* _errored_with is not None
    engine,    \* unfinished requests of the LLMEngine
    scored,    \* those with an aux_model_score
    made       \* outputs produced for each request

given == <<idOf, reliable>>
trackerVars == <<newQ, finQ, streams, event>>
streamVars == <<box, closed>>
loopVars == <<loop, progress, batch, callback, errored>>
engineVars == <<engine, scored, made>>
vars == <<client, trackerVars, streamVars, loopVars, engineVars>>

Items == {"output", "final", "error", "stop"}

TypeOK ==
    /\ idOf \in Assignments
    /\ reliable \in BOOLEAN
    /\ client \in [Call -> {"none", "encoding", "listening", "ended"}]
    /\ newQ \in Seq(Call)
    /\ finQ \subseteq RequestId
    /\ DOMAIN streams \subseteq RequestId
    /\ \A id \in DOMAIN streams : streams[id] \in Call
    /\ event \in BOOLEAN
    /\ box \in [Call -> Seq(Items)]
    /\ closed \in [Call -> BOOLEAN]
    /\ loop \in {"none", "top", "waiting", "step", "executing"}
    /\ progress \in BOOLEAN
    /\ batch \subseteq Call
    /\ callback \in BOOLEAN
    /\ errored \in BOOLEAN
    /\ engine \subseteq Call
    /\ scored \subseteq Call
    /\ made \in [Call -> 0 .. MaxOutputs]

NoStreams == [id \in {} |-> CHOOSE c \in Call : TRUE]

Init ==
    /\ idOf \in Assignments
    /\ reliable \in {TRUE, ~StepMayFail}
    /\ client = [c \in Call |-> "none"]
    /\ newQ = <<>>
    /\ finQ = {}
    /\ streams = NoStreams
    /\ event = FALSE
    /\ box = [c \in Call |-> <<>>]
    /\ closed = [c \in Call |-> FALSE]
    /\ loop = "none"
    /\ progress = FALSE
    /\ batch = {}
    /\ callback = FALSE
    /\ errored = FALSE
    /\ engine = {}
    /\ scored = {}
    /\ made = [c \in Call |-> 0]

Running == loop # "none"
Registered(c) == idOf[c] \in DOMAIN streams

----------------------------------------------------------------------------
(* AsyncStream and RequestTracker *)

\* Mutant of Put: it does not look whether the stream is finished.
PutAlways(b, C, item) ==
    [c \in Call |-> IF c \in C THEN Append(b[c], item) ELSE b[c]]

\* AsyncStream.put, for a set of streams: a finished stream ignores it.
Put(b, C, item) ==
    [c \in Call |-> IF c \in C /\ ~closed[c] THEN Append(b[c], item) ELSE b[c]]

\* Mutant of Finish: an end the consumer does not know.
FinishWithNone(b, C) == Put(b, C, "none")

\* AsyncStream.finish, for those of the streams that are not finished yet.
Finish(b, C) == Put(b, C, "stop")
Close(C) == [c \in Call |-> closed[c] \/ c \in C]

\* Mutant of AbortRequest: the stream is unregistered on the spot.
AbortRequestAndPop(id) ==
    LET C == {streams[i] : i \in DOMAIN streams \intersect {id}}
    IN /\ finQ' = finQ \union {id}
       /\ box' = Finish(box, C)
       /\ closed' = Close(C)
       /\ streams' = [i \in DOMAIN streams \ {id} |-> streams[i]]
       /\ UNCHANGED <<newQ, event>>

\* RequestTracker.abort_request: the id is queued for the engine, and the
\* stream registered under it, if any, is finished.
AbortRequest(id) ==
    LET C == {streams[i] : i \in DOMAIN streams \intersect {id}}
    IN /\ finQ' = finQ \union {id}
       /\ box' = Finish(box, C)
       /\ closed' = Close(C)
       /\ UNCHANGED <<newQ, streams, event>>

----------------------------------------------------------------------------
(* A call of generate() *)

\* add_request up to the tokenizer: a loop that is not running is started,
\* with a tracker of its own, unless an error is on record.
Generate(c) ==
    /\ client[c] = "none"
    /\ IF Running
       THEN /\ client' = [client EXCEPT ![c] = "encoding"]
            /\ UNCHANGED <<trackerVars, streamVars, loopVars>>
       ELSE IF errored
       THEN /\ client' = [client EXCEPT ![c] = "ended"]
            /\ AbortRequest(idOf[c])
            /\ UNCHANGED loopVars
       ELSE /\ client' = [client EXCEPT ![c] = "encoding"]
            /\ newQ' = <<>>
            /\ finQ' = {}
            /\ streams' = NoStreams
            /\ event' = FALSE
            /\ loop' = "top"
            /\ progress' = FALSE
            /\ UNCHANGED <<streamVars, batch, callback, errored>>
    /\ UNCHANGED engineVars

\* Mutant of Submit: the loop is not woken.
SubmitSilently(c) ==
    /\ client[c] = "encoding"
    /\ ~Registered(c)
    /\ client' = [client EXCEPT ![c] = "listening"]
    /\ newQ' = Append(newQ, c)
    /\ UNCHANGED <<finQ, streams, event, streamVars, loopVars, engineVars>>

\* The tokenizer is done: RequestTracker.add_request.
Submit(c) ==
    /\ client[c] = "encoding"
    /\ ~Registered(c)
    /\ client' = [client EXCEPT ![c] = "listening"]
    /\ newQ' = Append(newQ, c)
    /\ event' = TRUE
    /\ UNCHANGED <<finQ, streams, streamVars, loopVars, engineVars>>

\* RequestTracker.add_request raises KeyError: the id is taken.  generate()
\* aborts that id before it re-raises.
SubmitRefused(c) ==
    /\ client[c] = "encoding"
    /\ Registered(c)
    /\ client' = [client EXCEPT ![c] = "ended"]
    /\ AbortRequest(idOf[c])
    /\ UNCHANGED <<loopVars, engineVars>>

\* The consumer takes the next item; an error is re-raised through generate(),
\* which aborts the request.
Receive(c) ==
    /\ client[c] = "listening"
    /\ box[c] # <<>>
    /\ LET item == Head(box[c])
           rest == [box EXCEPT ![c] = Tail(@)]
           C == {streams[i] : i \in DOMAIN streams \intersect {idOf[c]}}
       IN /\ client' = IF item \in {"stop", "error"}
                       THEN [client EXCEPT ![c] = "ended"] ELSE client
          /\ IF item = "error"
             THEN /\ finQ' = finQ \union {idOf[c]}
                  /\ box' = Finish(rest, C)
                  /\ closed' = Close(C)
             ELSE /\ box' = rest
                  /\ UNCHANGED <<finQ, closed>>
    /\ UNCHANGED <<newQ, streams, event, loopVars, engineVars>>

\* The client goes away: CancelledError inside generate().
Cancel(c) ==
    /\ client[c] \in {"encoding", "listening"}
    /\ client' = [client EXCEPT ![c] = "ended"]
    /\ AbortRequest(idOf[c])
    /\ UNCHANGED <<loopVars, engineVars>>

\* abort() from elsewhere; the call goes on listening.  (Bound: an abort that
\* is already queued is not repeated, it would change nothing.)
Abort(c) ==
    /\ Running
    /\ client[c] \in {"encoding", "listening"}
    /\ idOf[c] \notin finQ
    /\ AbortRequest(idOf[c])
    /\ UNCHANGED <<client, loopVars, engineVars>>

----------------------------------------------------------------------------
(* The background loop *)

\* run_engine_loop: with requests in progress it steps at once; otherwise
\* wait_for_new_requests looks for new ones before it waits for the event.
NextIteration ==
    /\ loop = "top"
    /\ loop' = IF progress \/ newQ # <<>> THEN "step" ELSE "waiting"
    /\ event' = (event /\ (progress \/ newQ = <<>>))
    /\ UNCHANGED <<client, newQ, finQ, streams, streamVars, progress, batch,
                   callback, errored, engineVars>>

GotNewRequests ==
    /\ loop = "waiting"
    /\ event
    /\ event' = FALSE
    /\ loop' = "step"
    /\ UNCHANGED <<client, newQ, finQ, streams, streamVars, progress, batch,
                   callback, errored, engineVars>>

Eligible(E) == IF Gated THEN E \intersect scored ELSE E

\* abort_seq_group: of every aborted id, one group leaves the engine.
OnePerId(E, ids) ==
    {G \in SUBSET {c \in E : idOf[c] \in ids} : \A id \in ids :
        Cardinality({c \in G : idOf[c] = id}) =
            IF \E c \in E : idOf[c] = id THEN 1 ELSE 0}

\* engine_step up to the model: drain the tracker, add, abort, schedule.
\* A step with nothing to schedule has no output and returns False.
EngineStep ==
    /\ loop = "step"
    /\ LET taken == {newQ[i] : i \in DOMAIN newQ}
           stillborn == {c \in taken : idOf[c] \in finQ}
           adopted == taken \ stillborn
           ids == {idOf[c] : c \in adopted}
           Latest(id) == newQ[CHOOSE i \in DOMAIN newQ :
                               /\ idOf[newQ[i]] = id
                               /\ \A j \in DOMAIN newQ :
                                     idOf[newQ[j]] = id => j <= i]
       IN \E refused \in SUBSET (adopted \intersect Refusable) :
          LET errors == {Latest(idOf[c]) : c \in refused}
              added == engine \union (adopted \ refused)
          IN /\ streams' = [id \in (DOMAIN streams \ finQ) \union ids |->
                               IF id \in ids THEN Latest(id) ELSE streams[id]]
             /\ newQ' = <<>>
             /\ finQ' = {idOf[c] : c \in refused}
             /\ box' = Finish(Put(box, errors, "error"), stillborn \union errors)
             /\ closed' = Close(stillborn \union errors)
             /\ \E gone \in OnePerId(added, finQ) : engine' = added \ gone
             /\ batch' \in SUBSET Eligible(engine')
             /\ batch' = {} => Eligible(engine') = {}
             /\ loop' = IF batch' = {} THEN "top" ELSE "executing"
             /\ progress' = (batch' # {} /\ progress)
    /\ UNCHANGED <<client, event, callback, errored, scored, made>>

\* What the step has brought to its end, and what of it the engine has done
\* before anything is delivered: a finished request has left it.
Ends == {last \in SUBSET batch : \A c \in batch : made[c] + 1 = MaxOutputs => c \in last}

Computed(last) ==
    /\ engine' = engine \ last
    /\ made' = [c \in Call |-> IF c \in batch \ last THEN made[c] + 1 ELSE made[c]]
    /\ batch' = {}

\* process_request_output for the requests in C: the outputs go to the streams,
\* and a finished request is aborted in the tracker.
Deliver(C, last) ==
    LET To(D) == {streams[idOf[c]] : c \in D}
        final == C \intersect last
    IN /\ box' = Finish(Put(Put(box, To(C \ last), "output"), To(final), "final"), To(final))
       /\ closed' = Close(To(final))
       /\ finQ' = finQ \union {idOf[c] : c \in final}
       /\ UNCHANGED <<newQ, streams, event>>

\* engine_step after the model.
EngineStepReturns ==
    /\ loop = "executing"
    /\ \A c \in batch : Registered(c)
    /\ \E last \in Ends : Computed(last) /\ Deliver(batch, last)
    /\ progress' = TRUE
    /\ loop' = "top"
    /\ UNCHANGED <<client, callback, errored, scored>>

\* process_request_output raises KeyError: an output has no stream.  Those
\* before it are delivered, those behind it are lost.
OutputWithoutStream ==
    /\ loop = "executing"
    /\ \E c \in batch : ~Registered(c)
    /\ \E last \in Ends, C \in SUBSET {c \in batch : Registered(c)} :
          Computed(last) /\ Deliver(C, last)
    /\ loop' = "none"
    /\ callback' = TRUE
    /\ UNCHANGED <<client, progress, errored, scored>>

\* The step raises (the task ends, its done callback is scheduled) or times
\* out (the error is recorded at once as well).
StepFails ==
    /\ ~reliable
    /\ loop = "executing"
    /\ loop' = "none"
    /\ batch' = {}
    /\ callback' = TRUE
    /\ errored' \in {errored, TRUE}
    /\ UNCHANGED <<client, trackerVars, streamVars, progress, engineVars>>

\* Mutant of ErrorCallback: the error is recorded and not propagated.
ErrorCallbackRecordsOnly ==
    /\ callback
    /\ callback' = FALSE
    /\ errored' = TRUE
    /\ UNCHANGED <<client, trackerVars, streamVars, loop, progress, batch,
                   engineVars>>

\* _raise_exception_on_finish: record the error, propagate it to the streams
\* of the tracker that is current by then.
ErrorCallback ==
    /\ callback
    /\ callback' = FALSE
    /\ errored' = TRUE
    /\ box' = Finish(Put(box, Range(streams), "error"), Range(streams))
    /\ closed' = Close(Range(streams))
    /\ finQ' = finQ \union DOMAIN streams
    /\ UNCHANGED <<client, newQ, streams, event, loop, progress, batch,
                   engineVars>>

\* The predictor's worker thread stores a score.
Score(c) ==
    /\ c \in engine
    /\ c \notin scored
    /\ scored' = scored \union {c}
    /\ UNCHANGED <<client, trackerVars, streamVars, loopVars, engine, made>>

LoopStep ==
    \/ NextIteration \/ GotNewRequests \/ EngineStep \/ EngineStepReturns
    \/ OutputWithoutStream \/ StepFails \/ ErrorCallback

ClientStep(c) == Submit(c) \/ SubmitRefused(c) \/ Receive(c)

Next ==
    /\ \/ \E c \in Call :
             Generate(c) \/ ClientStep(c) \/ Cancel(c) \/ Abort(c) \/ Score(c)
       \/ LoopStep
    /\ UNCHANGED given

Spec == Init /\ [][Next]_<<given, vars>>

\* The event loop runs every task that can run, the model returns, and the
\* predictor scores what it was given.
Fairness ==
    /\ WF_vars(LoopStep)
    /\ \A c \in Call : WF_vars(ClientStep(c)) /\ WF_vars(Score(c))

FairSpec == Spec /\ Fairness

----------------------------------------------------------------------------
(* Correctness *)

IdsDiffer == \A c, d \in Call : c # d => idOf[c] # idOf[d]

\* No request runs for nobody and no stream outlives its request, although
\* calls may be cancelled, aborted or ended while the model runs: a registered
\* stream belongs to a request in the engine or to one that is about to be
\* dropped, a request in the engine has its stream, and so has whatever a step
\* computes, so that process_request_output never meets an unknown id.
StreamsMatchEngine ==
    IdsDiffer /\ reliable /\ Running =>
        /\ \A id \in DOMAIN streams : streams[id] \in engine \/ id \in finQ
        /\ \A c \in engine : Registered(c) /\ streams[idOf[c]] = c
        /\ loop = "executing" => \A c \in batch : Registered(c)

\* What a consumer sees is a run of outputs with at most one end, and nothing
\* after the end: a stream that is finished is not written again.
StreamsEndOnce ==
    \A c \in Call :
        /\ \A i \in DOMAIN box[c] : box[c][i] = "stop" => i = Len(box[c])
        /\ \A i \in DOMAIN box[c] :
              box[c][i] \in {"final", "error"} => i + 1 \in DOMAIN box[c]
        /\ client[c] = "listening" /\ closed[c] => box[c] # <<>>

\* Once a failure has been dealt with and no loop runs, no registered stream
\* is left open: its consumer is not kept waiting by an engine that is gone.
DeadEngineClosesStreams ==
    errored /\ ~callback /\ ~Running =>
        \A id \in DOMAIN streams : closed[streams[id]]

\* Every call of generate() comes to its end.
EveryCallEnds ==
    IdsDiffer /\ reliable =>
        \A c \in Call : (client[c] = "listening") ~> (client[c] = "ended")

\* engine_step returns True if there are in-progress requests: a loop that
\* goes to sleep has left none in the engine.
SleepsOnlyWhenIdle ==
    loop = "waiting" /\ ~event => engine = {}
=============================================================================
