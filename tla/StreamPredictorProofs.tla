------------------------ MODULE StreamPredictorProofs ------------------------
(* What holds of the streaming predictor for every set of requests, every   *)
(* chunk size and every choice of failures.                                 *)
EXTENDS StreamPredictor, ListLemmas

\* The program counters agree with the data: only a worker with a chunk has
\* one, only a landing worker has a request to land, only a caller that
\* raised the flag of a live predictor is about to start a worker.
PcShape ==
    /\ worker \in {"off", "pull"} => chunk = <<>>
    /\ worker \in {"forward", "apply"} => chunk # <<>>
    /\ worker # "land" => landing = {}
    /\ worker = "land" => \E r \in Req : landing = {r}
    /\ caller = "spawn" => up

\* Work in the queue keeps the flag raised unless a spawn has failed.
QueueKeepsFlag == ~SpawnMayFail /\ queue # <<>> => active

\* The inductive invariant.
IInv ==
    /\ TypeOK
    /\ PcShape
    /\ ShutdownIsFinal
    /\ InFlightExact
    /\ NoDuplicateWork
    /\ QueueKeepsFlag
    /\ OneLoop

------------------------------------------------------------------------------

\* A list of requests is a sequence of them.
LEMMA BatchIsSeq == \A batch \in Batches(Req) : batch \in Seq(Req)
BY IsASeq DEF Batches

LEMMA TypeInit == Init => TypeOK
<1> SUFFICES ASSUME Init
             PROVE  TypeOK
  OBVIOUS
<1>1. <<>> \in Seq(Req)
  BY EmptySeq
<1>2. QED BY <1>1 DEF Init, TypeOK

\* A queue and a chunk stay sequences of requests through every append ...
LEMMA EnqueueKeepsType ==
    ASSUME TypeOK, NEW batch \in Seq(Req), Enqueue(batch)
    PROVE  TypeOK'
<1>1. PICK new \in Filtered(batch, Req \ inFlight) : queue' = queue \o new
  BY DEF Enqueue
<1>2. ToSet(batch) \subseteq Req
  BY ElementOfSeq, LenProperties DEF ToSet
<1>3. queue' \in Seq(Req)
  BY <1>1, FilteredFacts, ConcatProperties DEF TypeOK
<1>4. active' \in BOOLEAN /\ caller' \in {"idle", "spawn"}
  BY Zenon DEF Enqueue, TypeOK
<1>5. QED BY <1>2, <1>3, <1>4 DEF Enqueue, TypeOK, workerVars

\* ... and every cut.
LEMMA StepKeepsType ==
    ASSUME TypeOK, Spawn \/ SpawnFails \/ Shutdown \/ WorkerNext
    PROVE  TypeOK'
<1>1. CASE Spawn
  BY <1>1 DEF Spawn, TypeOK, lockVars, workerVars
<1>2. CASE SpawnFails
  BY <1>2 DEF SpawnFails, TypeOK, workerVars
<1>3. CASE Shutdown
  <2>1. queue' \in Seq(Req)
    BY <1>3, EmptySeq DEF Shutdown
  <2>2. QED BY <1>3, <2>1 DEF Shutdown, TypeOK, workerVars
<1>4. CASE StartLoop
  BY <1>4 DEF StartLoop, TypeOK, lockVars
<1>5. CASE Exit
  BY <1>5 DEF Exit, TypeOK
<1>6. CASE Pull
  <2>1. PullSize \in 0 .. Len(queue)
    BY ConstAssumption, LenProperties DEF PullSize, TypeOK
  <2>2. chunk' \in Seq(Req) /\ queue' \in Seq(Req)
    BY <1>6, <2>1, CutInTwo DEF Pull, TypeOK
  <2>3. QED BY <1>6, <2>2 DEF Pull, TypeOK
<1>7. CASE Forward
  BY <1>7 DEF Forward, TypeOK, lockVars
<1>8. CASE ForwardFails
  BY <1>8 DEF ForwardFails, TypeOK
<1>9. CASE Release
  BY <1>9, HeadTailElems DEF Release, TypeOK
<1>10. CASE Land
  BY <1>10 DEF Land, TypeOK, lockVars
<1>11. QED
  BY <1>1, <1>2, <1>3, <1>4, <1>5, <1>6, <1>7, <1>8, <1>9, <1>10 DEF WorkerNext

\* The variables keep their types.
THEOREM TypeCorrect == Spec => []TypeOK
<1>1. TypeOK /\ [Next]_vars => TypeOK'
  <2>1. TypeOK /\ UNCHANGED vars => TypeOK'
    BY DEF vars, TypeOK
  <2>2. QED BY <2>1, BatchIsSeq, EnqueueKeepsType, StepKeepsType DEF Next
<1>2. QED BY TypeInit, <1>1, PTL DEF Spec

------------------------------------------------------------------------------

\* The bookkeeping of submit_streaming and _stream_worker_loop is inductive.
LEMMA IInvInit == Init => IInv
<1> SUFFICES ASSUME Init
             PROVE  IInv
  OBVIOUS
<1>1. TypeOK
  BY TypeInit
<1>2. PcShape /\ ShutdownIsFinal /\ QueueKeepsFlag
  BY DEF Init, PcShape, ShutdownIsFinal, QueueKeepsFlag
<1>3. InFlightExact
  BY DEF Init, InFlightExact, ToSet
<1>4. NoDuplicateWork
  BY DEF Init, NoDuplicateWork, IsInjective
<1>5. OneLoop
  BY DEF Init, OneLoop, Loops
<1>6. QED BY <1>1, <1>2, <1>3, <1>4, <1>5 DEF IInv

\* Appending what the dedup set lets through keeps the dedup set exact.
LEMMA EnqueueKeepsIInv ==
    ASSUME IInv, TypeOK', NEW batch \in Seq(Req), Enqueue(batch)
    PROVE  IInv'
<1> USE DEF IInv
<1>1. PICK new \in Filtered(batch, Req \ inFlight) :
         LET wake == queue \o new # <<>> /\ ~active
         IN /\ queue' = queue \o new
            /\ active' = (active \/ wake)
            /\ caller' = IF wake THEN "spawn" ELSE "idle"
  BY DEF Enqueue
<1>2. /\ caller = "idle" /\ up
      /\ inFlight' = inFlight \union ToSet(batch)
      /\ up' = up /\ tasks' = tasks
      /\ worker' = worker /\ chunk' = chunk /\ landing' = landing
  BY DEF Enqueue, workerVars
<1>4. /\ new \in Seq(Req) /\ IsInjective(new)
      /\ ToSet(new) = ToSet(batch) \intersect (Req \ inFlight)
  BY FilteredFacts
<1>5. ToSet(batch) \subseteq Req
  BY ElementOfSeq, LenProperties DEF ToSet
<1>6. queue \in Seq(Req) /\ chunk \in Seq(Req) /\ active \in BOOLEAN
      /\ tasks \in Nat
  BY DEF TypeOK
<1>7. inFlight = ToSet(queue) \union ToSet(chunk)
  BY <1>2 DEF InFlightExact
<1>8. InFlightExact'
  <2>1. ToSet(queue') = ToSet(queue) \union ToSet(new)
    BY <1>1, <1>4, <1>6, ConcatElems
  <2>2. QED BY <1>2, <1>4, <1>5, <1>7, <2>1 DEF InFlightExact
<1>9. NoDuplicateWork'
  <2>1. ToSet(chunk \o queue) = inFlight
    BY <1>6, <1>7, ConcatElems
  <2>2. chunk \o queue \in Seq(Req)
    BY <1>6, ConcatProperties
  <2>3. ToSet(chunk \o queue) \intersect ToSet(new) = {}
    BY <1>4, <2>1
  <2>4. IsInjective((chunk \o queue) \o new)
    BY <1>4, <2>2, <2>3, ConcatInjective DEF NoDuplicateWork
  <2>5. (chunk \o queue) \o new = chunk \o (queue \o new)
    BY <1>4, <1>6, ConcatAssociative
  <2>6. QED BY <1>1, <1>2, <2>4, <2>5 DEF NoDuplicateWork
<1>10. CASE active
  <2>1. active' /\ caller' = "idle"
    BY <1>1, <1>10
  <2>2. QED
    BY <1>2, <1>6, <1>8, <1>9, <1>10, <2>1
    DEF PcShape, ShutdownIsFinal, QueueKeepsFlag, OneLoop, Loops
<1>11. CASE ~active /\ queue' # <<>>
  <2>1. active' /\ caller' = "spawn"
    BY <1>1, <1>11
  <2>2. OneLoop'
    BY <1>2, <1>6, <1>11, <2>1, ConstAssumption DEF OneLoop, Loops
  <2>3. QED
    BY <1>2, <1>6, <1>8, <1>9, <1>11, <2>1, <2>2
    DEF PcShape, ShutdownIsFinal, QueueKeepsFlag
<1>12. CASE ~active /\ queue' = <<>>
  <2>1. active' = active /\ caller' = "idle"
    BY <1>1, <1>6, <1>12
  <2>2. QED
    BY <1>2, <1>6, <1>8, <1>9, <1>12, <2>1
    DEF PcShape, ShutdownIsFinal, QueueKeepsFlag, OneLoop, Loops
<1>13. QED BY <1>6, <1>10, <1>11, <1>12

\* Cutting a chunk off the queue moves requests, it loses and adds none.
LEMMA PullKeepsIInv ==
    ASSUME IInv, TypeOK', Pull
    PROVE  IInv'
<1> USE DEF IInv
<1>1. queue \in Seq(Req) /\ chunk = <<>> /\ Len(queue) \in Nat /\ Len(queue) > 0
  BY LenProperties DEF Pull, TypeOK, PcShape
<1>2. PullSize \in 1 .. Len(queue)
  BY <1>1, ConstAssumption DEF PullSize
<1>3. /\ chunk' \in Seq(Req) /\ queue' \in Seq(Req)
      /\ queue = chunk' \o queue'
  BY <1>1, <1>2, CutInTwo DEF Pull
<1>4. chunk \o queue = queue
  BY <1>1, ConcatEmptySeq
<1>5. NoDuplicateWork'
  BY <1>3, <1>4 DEF NoDuplicateWork
<1>6. InFlightExact'
  <2>1. ToSet(queue) = ToSet(chunk') \union ToSet(queue')
    BY <1>3, ConcatElems
  <2>2. ToSet(chunk) = {}
    BY <1>1 DEF ToSet
  <2>3. QED BY <2>1, <2>2 DEF InFlightExact, Pull
<1>7. Len(chunk') = PullSize
  BY <1>1, <1>2, SubSeqProperties, ElementOfSeq DEF Pull
<1>8. chunk' # <<>>
  BY <1>2, <1>7
<1>9. PcShape' /\ ShutdownIsFinal' /\ QueueKeepsFlag'
  BY <1>1, <1>8 DEF Pull, PcShape, ShutdownIsFinal, QueueKeepsFlag
<1>10. OneLoop'
  BY DEF Pull, OneLoop, Loops
<1>11. QED BY <1>5, <1>6, <1>9, <1>10

\* Releasing one request, or a failed chunk, shrinks the dedup set by
\* exactly what the worker lets go.
LEMMA ReleaseKeepsIInv ==
    ASSUME IInv, TypeOK', Release \/ ForwardFails
    PROVE  IInv'
<1> USE DEF IInv
<1>1. queue \in Seq(Req) /\ chunk \in Seq(Req) /\ chunk # <<>>
  BY DEF Release, ForwardFails, TypeOK, PcShape
<1>2. /\ IsInjective(chunk) /\ IsInjective(queue)
      /\ ToSet(chunk) \intersect ToSet(queue) = {}
  BY <1>1, ConcatInjective DEF NoDuplicateWork
<1>3. CASE Release
  <2>1. /\ chunk' = Tail(chunk) /\ chunk' \in Seq(Req)
        /\ ToSet(chunk) = {Head(chunk)} \union ToSet(chunk')
        /\ IsInjective(chunk') /\ Head(chunk) \notin ToSet(chunk')
    BY <1>1, <1>2, <1>3, HeadTailElems DEF Release
  <2>2. NoDuplicateWork'
    <3>1. ToSet(chunk') \intersect ToSet(queue) = {}
      BY <1>2, <2>1
    <3>2. IsInjective(chunk' \o queue)
      BY <1>1, <1>2, <2>1, <3>1, ConcatInjective
    <3>3. QED BY <1>3, <3>2 DEF NoDuplicateWork, Release
  <2>3. InFlightExact'
    BY <1>2, <1>3, <2>1 DEF InFlightExact, Release
  <2>4. PcShape' /\ ShutdownIsFinal' /\ QueueKeepsFlag'
    <3>1. Head(chunk) \in Req
      BY <1>1, HeadTailElems
    <3>2. QED
      BY <1>3, <3>1 DEF Release, PcShape, ShutdownIsFinal, QueueKeepsFlag
  <2>5. OneLoop'
    BY <1>3 DEF Release, OneLoop, Loops
  <2>6. QED BY <2>2, <2>3, <2>4, <2>5
<1>4. CASE ForwardFails
  <2>1. chunk' = <<>> /\ queue' = queue
    BY <1>4 DEF ForwardFails
  <2>2. NoDuplicateWork'
    BY <1>1, <1>2, <2>1, ConcatEmptySeq DEF NoDuplicateWork
  <2>3. ToSet(chunk') = {}
    BY <2>1 DEF ToSet
  <2>4. InFlightExact'
    BY <1>2, <1>4, <2>1, <2>3 DEF InFlightExact, ForwardFails
  <2>5. PcShape' /\ ShutdownIsFinal' /\ QueueKeepsFlag'
    BY <1>4 DEF ForwardFails, PcShape, ShutdownIsFinal, QueueKeepsFlag
  <2>6. OneLoop'
    BY <1>4 DEF ForwardFails, OneLoop, Loops
  <2>7. QED BY <2>2, <2>4, <2>5, <2>6
<1>5. QED BY <1>3, <1>4

\* A shutdown empties both sets at once, whatever the worker holds.
LEMMA ShutdownKeepsIInv ==
    ASSUME IInv, TypeOK', Shutdown
    PROVE  IInv'
<1> USE DEF IInv
<1>1. PcShape' /\ ShutdownIsFinal' /\ QueueKeepsFlag' /\ InFlightExact'
  BY DEF Shutdown, workerVars, PcShape, ShutdownIsFinal, QueueKeepsFlag,
         InFlightExact
<1>2. NoDuplicateWork'
  <2>1. queue \in Seq(Req) /\ chunk \in Seq(Req)
    BY DEF TypeOK
  <2>2. IsInjective(chunk)
    BY <2>1, ConcatInjective DEF NoDuplicateWork
  <2>3. chunk' \o queue' = chunk
    BY <2>1, ConcatEmptySeq DEF Shutdown, workerVars
  <2>4. QED BY <2>2, <2>3 DEF NoDuplicateWork
<1>3. OneLoop'
  BY DEF Shutdown, workerVars, OneLoop, Loops
<1>4. QED BY <1>1, <1>2, <1>3

\* The remaining steps move neither queue, chunk nor dedup set.
LEMMA ControlKeepsIInv ==
    ASSUME IInv, TypeOK',
           \/ Spawn \/ SpawnFails \/ StartLoop \/ Exit \/ Forward \/ Land
           \/ UNCHANGED vars
    PROVE  IInv'
<1> USE DEF IInv
<1>1. queue' = queue /\ chunk' = chunk /\ inFlight' = inFlight /\ up' = up
  BY DEF Spawn, SpawnFails, StartLoop, Exit, Forward, Land, vars, lockVars,
         workerVars
<1>2. InFlightExact' /\ NoDuplicateWork'
  BY <1>1 DEF InFlightExact, NoDuplicateWork
<1>3. tasks \in Nat /\ active \in BOOLEAN
  BY DEF TypeOK
<1>4. PcShape' /\ ShutdownIsFinal' /\ QueueKeepsFlag' /\ OneLoop'
  <2>1. CASE Spawn
    BY <1>3, <2>1 DEF Spawn, lockVars, workerVars, PcShape, ShutdownIsFinal,
                      QueueKeepsFlag, OneLoop, Loops
  <2>2. CASE SpawnFails
    BY <1>3, <2>2 DEF SpawnFails, workerVars, PcShape, ShutdownIsFinal,
                      QueueKeepsFlag, OneLoop
  <2>3. CASE StartLoop
    BY <1>3, <2>3 DEF StartLoop, lockVars, PcShape, ShutdownIsFinal,
                      QueueKeepsFlag, OneLoop, Loops
  <2>4. CASE Exit
    BY <1>3, <2>4 DEF Exit, PcShape, ShutdownIsFinal, QueueKeepsFlag, OneLoop,
                      Loops
  <2>5. CASE Forward
    BY <1>3, <2>5 DEF Forward, lockVars, PcShape, ShutdownIsFinal,
                      QueueKeepsFlag, OneLoop, Loops
  <2>6. CASE Land
    BY <1>3, <2>6 DEF Land, lockVars, PcShape, ShutdownIsFinal, QueueKeepsFlag,
                      OneLoop, Loops
  <2>7. CASE UNCHANGED vars
    BY <2>7 DEF vars, PcShape, ShutdownIsFinal, QueueKeepsFlag, OneLoop, Loops
  <2>8. QED BY <2>1, <2>2, <2>3, <2>4, <2>5, <2>6, <2>7
<1>5. QED BY <1>2, <1>4

\* The steps that take no batch keep the invariant.
LEMMA StepKeepsIInv ==
    ASSUME IInv, TypeOK', Spawn \/ SpawnFails \/ Shutdown \/ WorkerNext
    PROVE  IInv'
BY PullKeepsIInv, ReleaseKeepsIInv, ShutdownKeepsIInv, ControlKeepsIInv DEF WorkerNext

\* IInv holds in every state of the predictor.
THEOREM IInvInvariant == Spec => []IInv
<1>1. TypeOK' /\ IInv /\ [Next]_vars => IInv'
  BY BatchIsSeq, EnqueueKeepsIInv, StepKeepsIInv, ControlKeepsIInv DEF Next
<1>2. QED BY IInvInit, TypeCorrect, <1>1, PTL DEF Spec

\* _stream_in_flight is exact: it neither leaks nor forgets a request.
THEOREM InFlightIsExact == Spec => []InFlightExact
<1>1. IInv => InFlightExact
  BY DEF IInv
<1>2. QED BY <1>1, IInvInvariant, PTL

\* No request is given to the model twice at a time.
THEOREM WorkIsNotDuplicated == Spec => []NoDuplicateWork
<1>1. IInv => NoDuplicateWork
  BY DEF IInv
<1>2. QED BY <1>1, IInvInvariant, PTL

\* The worker flag stands for one worker loop.
THEOREM AtMostOneLoop == Spec => []OneLoop
<1>1. IInv => OneLoop
  BY DEF IInv
<1>2. QED BY <1>1, IInvInvariant, PTL

\* As long as the executor accepts the worker loop, queued work is never left
\* without one.
THEOREM WakeupIsNotLost == Spec => []NoLostWakeup
<1>1. IInv => NoLostWakeup
  BY DEF IInv, QueueKeepsFlag, OneLoop, NoLostWakeup
<1>2. QED BY <1>1, IInvInvariant, PTL

\* Nothing refills the queue or the dedup set after a shutdown.
THEOREM ShutdownStaysFinal == Spec => []ShutdownIsFinal
<1>1. IInv => ShutdownIsFinal
  BY DEF IInv
<1>2. QED BY <1>1, IInvInvariant, PTL

------------------------------------------------------------------------------

\* Every step of the predictor is a step of the contract, or none.
LEMMA StepImplements ==
    ASSUME IInv, [Next]_vars
    PROVE  [Service!Next]_(Service!vars)
<1> USE DEF IInv
<1>1. queue \in Seq(Req) /\ chunk \in Seq(Req) /\ landing \in SUBSET Req
  BY DEF TypeOK
<1>2. ASSUME NEW batch \in Batches(Req), Enqueue(batch)
      PROVE  Service!Accept
  <2>1. PICK new \in Filtered(batch, Req \ inFlight) : queue' = queue \o new
    BY <1>2 DEF Enqueue
  <2>2. batch \in Seq(Req)
    BY IsASeq DEF Batches
  <2>3. new \in Seq(Req)
    BY <2>2, FilteredFacts
  <2>4. ToSet(new) \in SUBSET Req
    BY <2>3, ElementOfSeq, LenProperties DEF ToSet
  <2>5. ToSet(queue') = ToSet(queue) \union ToSet(new)
    BY <1>1, <2>1, <2>3, ConcatElems
  <2>6. Owed' = Owed \union ToSet(new) /\ score' = score /\ up /\ up' = up
    BY <1>2, <2>5 DEF Owed, Enqueue, workerVars
  <2>7. QED BY <2>4, <2>6 DEF Service!Accept
<1>3. CASE Pull
  <2>1. PullSize \in 0 .. Len(queue) /\ chunk = <<>>
    BY <1>1, <1>3, ConstAssumption, LenProperties DEF PullSize, Pull, PcShape
  <2>2. /\ chunk' \in Seq(Req) /\ queue' \in Seq(Req)
        /\ queue = chunk' \o queue'
    BY <1>1, <1>3, <2>1, CutInTwo DEF Pull
  <2>3. ToSet(queue) = ToSet(chunk') \union ToSet(queue')
    BY <2>2, ConcatElems
  <2>4. ToSet(chunk) = {}
    BY <2>1 DEF ToSet
  <2>5. Owed' = Owed /\ score' = score /\ up' = up
    BY <1>3, <2>3, <2>4 DEF Owed, Pull
  <2>6. QED BY <2>5 DEF Service!vars
<1>4. CASE Release
  <2>1. ToSet(chunk) = {Head(chunk)} \union ToSet(chunk') /\ landing = {}
    BY <1>1, <1>4, HeadTailElems DEF Release, PcShape
  <2>2. Owed' = Owed /\ score' = score /\ up' = up
    BY <1>4, <2>1 DEF Owed, Release
  <2>3. QED BY <2>2 DEF Service!vars
<1>5. CASE Land
  <2>1. PICK r \in Req : landing = {r}
    BY <1>5 DEF Land, PcShape
  <2>2. score' = [score EXCEPT ![r] = "cpu"]
    BY <1>5, <2>1 DEF Land, TypeOK
  <2>3. /\ landing' = {}
        /\ queue' = queue /\ chunk' = chunk /\ up' = up
    BY <1>5 DEF Land, lockVars
  <2>4. r \in Owed
    BY <2>1 DEF Owed
  <2>5. Owed' \in {Owed, Owed \ {r}}
    <3>1. CASE r \in ToSet(queue) \union ToSet(chunk)
      BY <2>1, <2>3, <3>1 DEF Owed
    <3>2. CASE r \notin ToSet(queue) \union ToSet(chunk)
      BY <2>1, <2>3, <3>2 DEF Owed
    <3>3. QED BY <3>1, <3>2
  <2>6. Service!Answer
    BY <2>2, <2>3, <2>4, <2>5 DEF Service!Answer
  <2>7. QED BY <2>6 DEF Service!Next
<1>6. CASE ForwardFails
  <2>1. /\ queue' = queue /\ landing' = landing /\ score' = score
        /\ chunk' = <<>> /\ up' = up /\ ForwardMayFail
    BY <1>6 DEF ForwardFails
  <2>2. ToSet(chunk') = {}
    BY <2>1 DEF ToSet
  <2>3. Owed' \in SUBSET Owed
    BY <2>1, <2>2 DEF Owed
  <2>4. Service!Drop
    BY <2>1, <2>3 DEF Service!Drop
  <2>5. QED BY <2>4 DEF Service!Next
<1>7. CASE Shutdown
  <2>1. /\ chunk' = chunk /\ landing' = landing /\ score' = score
        /\ queue' = <<>> /\ up' = FALSE
    BY <1>7 DEF Shutdown, workerVars
  <2>2. ToSet(queue') = {}
    BY <2>1 DEF ToSet
  <2>3. Owed' \in SUBSET Owed
    BY <2>1, <2>2 DEF Owed
  <2>4. Service!Close
    BY <2>1, <2>3 DEF Service!Close
  <2>5. QED BY <2>4 DEF Service!Next
<1>8. CASE Spawn \/ SpawnFails \/ StartLoop \/ Exit \/ Forward \/ UNCHANGED vars
  <2>1. Owed' = Owed /\ score' = score /\ up' = up
    BY <1>8 DEF Spawn, SpawnFails, StartLoop, Exit, Forward, vars, lockVars,
                workerVars, Owed
  <2>2. QED BY <2>1 DEF Service!vars
<1>9. QED
  BY <1>2, <1>3, <1>4, <1>5, <1>6, <1>7, <1>8
  DEF Next, WorkerNext, Service!Next

\* The streaming predictor implements the contract ScoreService.
THEOREM StreamImplementsService == Spec => ImplementsScoreService
<1>1. Init => Service!Init
  BY DEF Init, Service!Init, Owed, ToSet
<1>2. IInv /\ [Next]_vars => [Service!Next]_(Service!vars)
  BY StepImplements
<1>3. QED
  BY <1>1, <1>2, IInvInvariant, PTL DEF Spec, Service!Spec, ImplementsScoreService
==============================================================================
