-------------------------- MODULE DualScheduleProofs --------------------------
(* Both halves of a tick of the dual scheduler.                               *)
(*                                                                            *)
(* The scoring: what holds for every set of requests, every chunk size and    *)
(* every choice of failures.                                                  *)
(*                                                                            *)
(* The general schedule: it keeps the block manager's pools exact, and its    *)
(* guesses suffice, and the blocks hold the tokens of those who read them     *)
(* when the model runs, for every number of groups, sequences and blocks, any *)
(* block size, watermark and budget, in models without a sliding window, for  *)
(* requests that are greedy, sampled several times or use beam search.        *)
EXTENDS DualScheduler, GeneralSchedule, BlockLemmas, StreamPredictorProofs

-----------------------------------------------------------------------------
(* The scoring of the requests                                               *)


CpuStages == {"filter", "pending", "route", "spawning", "refilter"}
HandStages == {"filter", "pending", "route", "refilter", "gpu", "store"}

\* The requests the tick is about to give to a predictor.
InHand == IF tick \in HandStages THEN ToSet(todo) \union ToSet(picked) ELSE {}

\* A request that has its score or is owed it by the CPU predictor.
Covered(r) == ~Unscored(r) \/ r \in inFlight \union landing

\* The stages agree with the lists.
TickShape ==
    /\ tick \in {"pending", "route", "gpu", "store"} => todo # <<>>
    /\ tick \in {"idle", "route", "spawning", "gpu", "store", "schedule"} => picked = <<>>

\* The CPU predictor has nothing before the warm-up is over.
ColdCpu == warm => inFlight = {} /\ tick \notin CpuStages

\* Nothing the filter has picked comes back to the CPU predictor before the
\* tick has routed it.
PickedOffCpu ==
    tick \in {"filter", "pending"} => ToSet(picked) \intersect inFlight = {}

GateIsScored == tick = "gate" => \A r \in ToSet(picked) : ~Unscored(r)

\* From its first read to its last the tick knows of every waiting request
\* that nobody else will score.
Accounted ==
    ~ForwardMayFail /\ tick \notin {"idle", "dead"} =>
        \A r \in ToSet(waiting) : Covered(r) \/ r \in InHand

\* The inductive invariant.
DInv ==
    /\ DualTypeOK
    /\ IInv
    /\ TickShape
    /\ ColdCpu
    /\ PickedOffCpu
    /\ NoDoubleDispatch
    /\ GateIsScored
    /\ SchedulableIsScored
    /\ Accounted
LEMMA DInvInit == DualInit => DInv
<1> SUFFICES ASSUME DualInit
             PROVE  DInv
  OBVIOUS
<1>1. TypeOK /\ IInv
  BY TypeInit, IInvInit DEF DualInit
<1>2. <<>> \in Seq(Req) /\ ToSet(<<>>) = {}
  BY EmptyElems
<1>3. DualTypeOK
  BY <1>1, <1>2, WarmupAssumption DEF DualInit, DualTypeOK, Stages
<1>4. TickShape /\ PickedOffCpu /\ NoDoubleDispatch /\ GateIsScored /\ Accounted
  BY DEF DualInit, TickShape, PickedOffCpu, NoDoubleDispatch, GateIsScored, Accounted
<1>5. ColdCpu /\ SchedulableIsScored
  BY DEF DualInit, Init, ColdCpu, SchedulableIsScored, CpuStages
<1>6. QED BY <1>1, <1>3, <1>4, <1>5 DEF DInv

\* A stage of the tick that leaves the queues and the dedup set alone and
\* takes no score away: it remains to look at where the tick goes and with
\* which lists.
LEMMA StageStep ==
    ASSUME DInv, TypeOK', IInv', UNCHANGED queueVars, inFlight' = inFlight,
           \A r \in Req : ~Unscored(r) => ~Unscored(r)',
           tick' \in Stages, todo' \in Seq(Req), picked' \in Seq(Req),
           TickShape', PickedOffCpu', NoDoubleDispatch', GateIsScored', Accounted',
           warm => tick' \notin CpuStages,
           tick' = "schedule" => \A r \in ToSet(todo') : ~Unscored(r)'
    PROVE  DInv'
<1>1. DualTypeOK'
  BY DEF DInv, DualTypeOK, queueVars
<1>2. ColdCpu'
  BY DEF DInv, ColdCpu, queueVars
<1>3. SchedulableIsScored'
  BY DEF DInv, DualTypeOK, SchedulableIsScored, queueVars
<1>4. QED BY <1>1, <1>2, <1>3 DEF DInv

\* The predictor's state stands still.
LEMMA Still ==
    ASSUME DInv, UNCHANGED vars
    PROVE  /\ TypeOK' /\ IInv' /\ inFlight' = inFlight /\ landing' = landing
           /\ score' = score
<1>1. TypeOK'
  BY DEF DInv, DualTypeOK, vars, TypeOK
<1>2. QED BY <1>1, ControlKeepsIInv DEF DInv, vars

\* On the way to the gate everything is covered.
LEMMA ToGate ==
    ASSUME DInv, TypeOK', IInv', UNCHANGED queueVars, inFlight' = inFlight,
           \A r \in Req : ~Unscored(r) => ~Unscored(r)',
           Pass("gate", waiting, "schedule"),
           ~ForwardMayFail => \A r \in ToSet(waiting) : Covered(r)'
    PROVE  DInv'
<1>1. waiting \in Seq(Req) /\ <<>> \in Seq(Req) /\ ToSet(<<>>) = {}
  BY EmptyElems DEF DInv, DualTypeOK
<1>2. /\ picked' = <<>> /\ todo' \in {waiting, <<>>}
      /\ tick' \in {"gate", "schedule"}
      /\ tick' = "schedule" => todo' = <<>>
  BY DEF Pass, Goto
<1>3. Accounted'
  BY <1>2 DEF Accounted, queueVars
<1>4. TickShape' /\ PickedOffCpu' /\ NoDoubleDispatch' /\ GateIsScored'
  BY <1>1, <1>2 DEF TickShape, PickedOffCpu, NoDoubleDispatch, GateIsScored
<1>5. tick' \in Stages /\ tick' \notin CpuStages
  BY <1>2 DEF Stages, CpuStages
<1>6. QED BY <1>1, <1>2, <1>3, <1>4, <1>5, StageStep
------------------------------------------------------------------------------
(* The stages of the tick *)

\* A tick begins: the first pass has all waiting requests in hand.
LEMMA BeginKeepsDInv ==
    ASSUME DInv, WarmupTick \/ DualTick
    PROVE  DInv'
<1>1. waiting \in Seq(Req) /\ <<>> \in Seq(Req) /\ ToSet(<<>>) = {}
  BY EmptyElems DEF DInv, DualTypeOK
<1>2. ToSet(waiting) \subseteq Req
  BY <1>1, ElementOfSeq, LenProperties DEF ToSet
<1>3. UNCHANGED vars /\ UNCHANGED queueVars
  BY DEF WarmupTick, DualTick
<1>4. /\ TypeOK' /\ IInv' /\ inFlight' = inFlight /\ landing' = landing
      /\ score' = score
  BY <1>3, Still
<1>5. CASE WarmupTick
  <2>1. PICK unscored \in Filtered(waiting, {r \in Req : Unscored(r)}) :
           IF unscored # <<>> THEN Goto("gpu", unscored, <<>>)
                          ELSE Pass("gate", waiting, "schedule")
    BY <1>5 DEF WarmupTick
  <2>2. unscored \in Seq(Req) /\ ToSet(unscored) = ToSet(waiting) \intersect {r \in Req : Unscored(r)}
    BY <1>1, FilteredFacts
  <2>3. warm /\ inFlight = {}
    BY <1>5 DEF WarmupTick, DInv, ColdCpu
  <2>4. CASE unscored = <<>>
    <3>1. \A r \in ToSet(waiting) : Covered(r)'
      BY <1>1, <1>2, <1>4, <2>2, <2>4 DEF Covered, Unscored
    <3>2. QED BY <1>3, <1>4, <2>1, <2>4, <3>1, ToGate DEF Unscored
  <2>5. CASE unscored # <<>>
    <3>1. tick' = "gpu" /\ todo' = unscored /\ picked' = <<>>
      BY <2>1, <2>5 DEF Goto
    <3>2. Accounted'
      BY <1>2, <1>3, <1>4, <2>2, <3>1
      DEF Accounted, Covered, Unscored, InHand, HandStages, queueVars
    <3>3. TickShape' /\ PickedOffCpu' /\ NoDoubleDispatch' /\ GateIsScored'
      BY <1>4, <2>3, <2>5, <3>1 DEF TickShape, PickedOffCpu, NoDoubleDispatch, GateIsScored
    <3>4. tick' \in Stages /\ tick' \notin CpuStages
      BY <3>1 DEF Stages, CpuStages
    <3>5. QED
      BY <1>1, <1>3, <1>4, <2>2, <3>1, <3>2, <3>3, <3>4, StageStep DEF Unscored
  <2>6. QED BY <2>4, <2>5
<1>6. CASE DualTick
  <2>1. /\ picked' = <<>> /\ todo' = waiting
        /\ tick' = IF waiting # <<>> THEN "filter" ELSE "schedule"
        /\ ~warm
    BY <1>6 DEF DualTick, Pass, Goto
  <2>2. Accounted'
    BY <1>1, <1>3, <2>1 DEF Accounted, InHand, HandStages, queueVars
  <2>3. TickShape' /\ PickedOffCpu' /\ NoDoubleDispatch' /\ GateIsScored'
    BY <1>1, <2>1 DEF TickShape, PickedOffCpu, NoDoubleDispatch, GateIsScored
  <2>4. tick' \in Stages
    BY <2>1 DEF Stages
  <2>5. tick' = "schedule" => \A r \in ToSet(todo') : ~Unscored(r)'
    BY <1>1, <2>1
  <2>6. QED
    BY <1>1, <1>3, <1>4, <2>1, <2>2, <2>3, <2>4, <2>5, StageStep DEF Unscored
<1>7. QED BY <1>5, <1>6

\* The filter lets go of a request only when it is scored or in flight.
LEMMA FilterKeepsDInv ==
    ASSUME DInv, ReadScore \/ ReadPending \/ EndFilter
    PROVE  DInv'
<1>1. /\ waiting \in Seq(Req) /\ todo \in Seq(Req) /\ picked \in Seq(Req)
      /\ <<>> \in Seq(Req) /\ ToSet(<<>>) = {}
  BY EmptyElems DEF DInv, DualTypeOK
<1>2. UNCHANGED vars /\ UNCHANGED queueVars /\ tick \in {"filter", "pending"} /\ ~warm
  BY DEF ReadScore, ReadPending, EndFilter, DInv, ColdCpu, CpuStages
<1>3. /\ TypeOK' /\ IInv' /\ inFlight' = inFlight /\ landing' = landing
      /\ score' = score
  BY <1>2, Still
<1>4. ToSet(picked) \intersect inFlight = {}
  BY <1>2 DEF DInv, PickedOffCpu
<1>5. ~ForwardMayFail =>
         \A r \in ToSet(waiting) : Covered(r) \/ r \in ToSet(todo) \union ToSet(picked)
  BY <1>2 DEF DInv, Accounted, InHand, HandStages
<1>6. CASE ReadScore \/ ReadPending
  <2>1. todo # <<>>
    BY <1>6 DEF ReadScore, ReadPending, DInv, TickShape
  <2>2. /\ Head(todo) \in Req /\ Tail(todo) \in Seq(Req)
        /\ ToSet(todo) = {Head(todo)} \union ToSet(Tail(todo))
    BY <1>1, <2>1, HeadTailElems
  <2>3. /\ Append(picked, Head(todo)) \in Seq(Req)
        /\ ToSet(Append(picked, Head(todo))) = ToSet(picked) \union {Head(todo)}
    BY <1>1, <2>2, AppendElems
  <2>4. /\ tick' \in {"filter", "pending"}
        /\ tick' = "pending" => todo' = todo
        /\ todo' \in Seq(Req) /\ picked' \in Seq(Req)
        /\ ToSet(picked') \intersect inFlight = {}
        /\ \A r \in ToSet(todo) \union ToSet(picked) :
              ~Unscored(r) \/ r \in inFlight \/ r \in ToSet(todo') \union ToSet(picked')
    BY <1>1, <1>4, <1>6, <2>2, <2>3 DEF ReadScore, ReadPending, Goto
  <2>5. Accounted'
    BY <1>2, <1>3, <1>5, <2>4
    DEF Accounted, Covered, Unscored, InHand, HandStages, queueVars
  <2>6. TickShape' /\ PickedOffCpu' /\ NoDoubleDispatch' /\ GateIsScored'
    BY <1>3, <2>1, <2>4 DEF TickShape, PickedOffCpu, NoDoubleDispatch, GateIsScored
  <2>7. tick' \in Stages /\ tick' # "schedule"
    BY <2>4 DEF Stages
  <2>8. QED BY <1>2, <1>3, <2>4, <2>5, <2>6, <2>7, StageStep DEF Unscored
<1>7. CASE EndFilter
  <2>1. tick = "filter" /\ todo = <<>>
    BY <1>7 DEF EndFilter
  <2>2. CASE picked = <<>>
    <3>1. ~ForwardMayFail => \A r \in ToSet(waiting) : Covered(r)'
      BY <1>1, <1>3, <1>5, <2>1, <2>2 DEF Covered, Unscored
    <3>2. QED BY <1>2, <1>3, <1>7, <2>2, <3>1, ToGate DEF EndFilter, Unscored
  <2>3. CASE picked # <<>>
    <3>1. tick' = "route" /\ todo' = picked /\ picked' = <<>>
      BY <1>7, <2>3 DEF EndFilter, Goto
    <3>2. Accounted'
      BY <1>1, <1>2, <1>3, <1>5, <2>1, <3>1
      DEF Accounted, Covered, Unscored, InHand, HandStages, queueVars
    <3>3. TickShape' /\ PickedOffCpu' /\ NoDoubleDispatch' /\ GateIsScored'
      BY <1>1, <1>3, <1>4, <2>3, <3>1
      DEF TickShape, PickedOffCpu, NoDoubleDispatch, GateIsScored
    <3>4. tick' \in Stages /\ tick' # "schedule"
      BY <3>1 DEF Stages
    <3>5. QED BY <1>1, <1>2, <1>3, <3>1, <3>2, <3>3, <3>4, StageStep DEF Unscored
  <2>4. QED BY <2>2, <2>3
<1>8. QED BY <1>6, <1>7
\* submit_streaming takes the whole batch into the dedup set.
LEMMA RouteToCpuKeepsDInv ==
    ASSUME DInv, RouteToCpu
    PROVE  DInv'
<1>1. /\ todo \in Seq(Req) /\ waiting \in Seq(Req) /\ <<>> \in Seq(Req)
      /\ ToSet(<<>>) = {}
  BY EmptyElems DEF DInv, DualTypeOK
<1>2. /\ tick = "route" /\ Enqueue(todo) /\ UNCHANGED queueVars
      /\ tick' = "spawning" /\ todo' = <<>> /\ picked' = <<>>
  BY DEF RouteToCpu, Goto
<1>3. TypeOK' /\ IInv'
  BY <1>1, <1>2, EnqueueKeepsType, EnqueueKeepsIInv DEF DInv, DualTypeOK
<1>4. /\ inFlight' = inFlight \union ToSet(todo) /\ score' = score
      /\ landing' = landing
  BY <1>2 DEF Enqueue, workerVars
<1>5. DualTypeOK'
  BY <1>1, <1>2, <1>3 DEF DInv, DualTypeOK, queueVars, Stages
<1>6. picked = <<>> /\ ~warm
  BY <1>2 DEF DInv, TickShape, ColdCpu, CpuStages
<1>7. Accounted'
  BY <1>1, <1>2, <1>4, <1>6
  DEF DInv, Accounted, Covered, Unscored, InHand, HandStages, queueVars
<1>8. TickShape' /\ ColdCpu' /\ PickedOffCpu' /\ NoDoubleDispatch' /\ GateIsScored'
  BY <1>2, <1>6 DEF TickShape, ColdCpu, PickedOffCpu, NoDoubleDispatch, GateIsScored,
                    queueVars
<1>9. SchedulableIsScored'
  BY <1>2, <1>4 DEF DInv, SchedulableIsScored, Unscored, queueVars
<1>10. QED BY <1>3, <1>5, <1>7, <1>8, <1>9 DEF DInv

LEMMA SpawnReturnsKeepsDInv ==
    ASSUME DInv, SpawnReturns
    PROVE  DInv'
<1>1. UNCHANGED vars /\ UNCHANGED queueVars /\ tick = "spawning"
  BY DEF SpawnReturns
<1>2. /\ TypeOK' /\ IInv' /\ inFlight' = inFlight /\ landing' = landing
      /\ score' = score
  BY <1>1, Still
<1>3. ~ForwardMayFail => \A r \in ToSet(waiting) : Covered(r)'
  BY <1>1, <1>2 DEF DInv, Accounted, InHand, HandStages, Covered, Unscored
<1>4. QED BY <1>1, <1>2, <1>3, ToGate DEF SpawnReturns, Unscored

\* On the way to the GPU predictor a request drops out only when it is scored.
LEMMA RefilterKeepsDInv ==
    ASSUME DInv, RouteToGpu \/ Refilter \/ EndRefilter \/ GpuForward
    PROVE  DInv'
<1>1. /\ waiting \in Seq(Req) /\ todo \in Seq(Req) /\ picked \in Seq(Req)
      /\ <<>> \in Seq(Req) /\ ToSet(<<>>) = {}
  BY EmptyElems DEF DInv, DualTypeOK
<1>2. UNCHANGED vars /\ UNCHANGED queueVars /\ tick \in {"route", "refilter", "gpu"}
  BY DEF RouteToGpu, Refilter, EndRefilter, GpuForward
<1>3. /\ TypeOK' /\ IInv' /\ inFlight' = inFlight /\ landing' = landing
      /\ score' = score
  BY <1>2, Still
<1>4. (ToSet(todo) \union ToSet(picked)) \intersect inFlight = {}
  BY <1>2 DEF DInv, NoDoubleDispatch
<1>5. ~ForwardMayFail =>
         \A r \in ToSet(waiting) : Covered(r) \/ r \in ToSet(todo) \union ToSet(picked)
  BY <1>2 DEF DInv, Accounted, InHand, HandStages
<1>6. warm => tick = "gpu"
  BY <1>2 DEF DInv, ColdCpu, CpuStages
<1>7. CASE EndRefilter /\ picked = <<>>
  <2>1. todo = <<>>
    BY <1>7 DEF EndRefilter
  <2>2. ~ForwardMayFail => \A r \in ToSet(waiting) : Covered(r)'
    BY <1>1, <1>3, <1>5, <1>7, <2>1 DEF Covered, Unscored
  <2>3. QED BY <1>2, <1>3, <1>7, <2>2, ToGate DEF EndRefilter, Unscored
<1>8. CASE Refilter
  <2>1. todo # <<>> /\ tick = "refilter"
    BY <1>8 DEF Refilter
  <2>2. /\ Head(todo) \in Req /\ Tail(todo) \in Seq(Req)
        /\ ToSet(todo) = {Head(todo)} \union ToSet(Tail(todo))
    BY <1>1, <2>1, HeadTailElems
  <2>3. /\ Append(picked, Head(todo)) \in Seq(Req)
        /\ ToSet(Append(picked, Head(todo))) = ToSet(picked) \union {Head(todo)}
    BY <1>1, <2>2, AppendElems
  <2>4. /\ tick' = "refilter"
        /\ todo' \in Seq(Req) /\ picked' \in Seq(Req)
        /\ (ToSet(todo') \union ToSet(picked')) \intersect inFlight = {}
        /\ \A r \in ToSet(todo) \union ToSet(picked) :
              ~Unscored(r) \/ r \in ToSet(todo') \union ToSet(picked')
    BY <1>1, <1>4, <1>8, <2>2, <2>3 DEF Refilter, Goto
  <2>5. Accounted'
    BY <1>2, <1>3, <1>5, <2>4
    DEF Accounted, Covered, Unscored, InHand, HandStages, queueVars
  <2>6. TickShape' /\ PickedOffCpu' /\ NoDoubleDispatch' /\ GateIsScored'
    BY <1>3, <2>4 DEF TickShape, PickedOffCpu, NoDoubleDispatch, GateIsScored
  <2>7. tick' \in Stages /\ tick' # "schedule" /\ ~warm
    BY <1>6, <2>1, <2>4 DEF Stages
  <2>8. QED BY <1>2, <1>3, <2>4, <2>5, <2>6, <2>7, StageStep DEF Unscored
<1>9. CASE RouteToGpu \/ GpuForward \/ (EndRefilter /\ picked # <<>>)
  <2>1. /\ tick' \in {"refilter", "gpu", "store"}
        /\ tick' = "refilter" => tick = "route"
        /\ tick' \in {"gpu", "store"} => todo' # <<>>
        /\ todo' \in Seq(Req) /\ picked' = <<>>
        /\ ToSet(todo') = ToSet(todo) \union ToSet(picked)
    BY <1>1, <1>2, <1>9
    DEF RouteToGpu, EndRefilter, GpuForward, Goto, DInv, TickShape
  <2>2. Accounted'
    BY <1>1, <1>2, <1>3, <1>5, <2>1
    DEF Accounted, Covered, Unscored, InHand, HandStages, queueVars
  <2>3. TickShape' /\ PickedOffCpu' /\ NoDoubleDispatch' /\ GateIsScored'
    BY <1>1, <1>3, <1>4, <2>1
    DEF TickShape, PickedOffCpu, NoDoubleDispatch, GateIsScored
  <2>4. tick' \in Stages /\ tick' # "schedule" /\ (warm => tick' \notin CpuStages)
    BY <1>6, <2>1 DEF Stages, CpuStages
  <2>5. QED BY <1>1, <1>2, <1>3, <2>1, <2>2, <2>3, <2>4, StageStep DEF Unscored
<1>10. QED BY <1>7, <1>8, <1>9

\* The GPU predictor stores the scores of its batch one after the other.
LEMMA GpuStoreKeepsDInv ==
    ASSUME DInv, GpuStore
    PROVE  DInv'
<1>1. /\ waiting \in Seq(Req) /\ todo \in Seq(Req) /\ picked = <<>> /\ todo # <<>>
      /\ <<>> \in Seq(Req) /\ ToSet(<<>>) = {} /\ tick = "store"
  BY EmptyElems DEF GpuStore, DInv, DualTypeOK, TickShape
<1>2. /\ Head(todo) \in Req /\ Tail(todo) \in Seq(Req)
      /\ ToSet(todo) = {Head(todo)} \union ToSet(Tail(todo))
  BY <1>1, HeadTailElems
<1>3. UNCHANGED queueVars /\ UNCHANGED <<lockVars, up, tasks, caller, workerVars>>
  BY DEF GpuStore
<1>4. inFlight' = inFlight /\ landing' = landing
  BY <1>3 DEF lockVars, workerVars
<1>5. TypeOK'
  BY <1>2, <1>3 DEF GpuStore, DInv, DualTypeOK, TypeOK, lockVars, workerVars
<1>6. IInv'
  <2>1. IInv /\ queue' = queue /\ inFlight' = inFlight /\ active' = active
        /\ up' = up /\ tasks' = tasks /\ caller' = caller /\ worker' = worker
        /\ chunk' = chunk /\ landing' = landing
    BY <1>3 DEF DInv, lockVars, workerVars
  <2>2. PcShape' /\ ShutdownIsFinal' /\ InFlightExact' /\ NoDuplicateWork'
    BY <2>1 DEF IInv, PcShape, ShutdownIsFinal, InFlightExact, NoDuplicateWork
  <2>3. QueueKeepsFlag' /\ OneLoop'
    BY <2>1 DEF IInv, QueueKeepsFlag, OneLoop, Loops
  <2>4. QED BY <1>5, <2>2, <2>3 DEF IInv
<1>7. /\ \A r \in Req : ~Unscored(r) => ~Unscored(r)'
      /\ \A r \in Req : r = Head(todo) => ~Unscored(r)'
  BY <1>2 DEF GpuStore, Unscored, DInv, DualTypeOK, TypeOK
<1>8. ToSet(waiting) \subseteq Req
  BY <1>1, ElementOfSeq, LenProperties DEF ToSet
<1>9. ~ForwardMayFail =>
         \A r \in ToSet(waiting) : Covered(r)' \/ r \in ToSet(Tail(todo))
  <2>1. \A r \in Req : Covered(r) => Covered(r)'
    BY <1>4, <1>7 DEF Covered
  <2>2. \A r \in Req : r = Head(todo) => Covered(r)'
    BY <1>7 DEF Covered
  <2>3. ~ForwardMayFail => \A r \in ToSet(waiting) : Covered(r) \/ r \in ToSet(todo)
    BY <1>1 DEF DInv, Accounted, InHand, HandStages
  <2>4. QED BY <1>2, <1>8, <2>1, <2>2, <2>3
<1>10. CASE Tail(todo) = <<>>
  BY <1>1, <1>3, <1>4, <1>5, <1>6, <1>7, <1>9, <1>10, ToGate DEF GpuStore
<1>11. CASE Tail(todo) # <<>>
  <2>1. tick' = "store" /\ todo' = Tail(todo) /\ picked' = <<>>
    BY <1>11 DEF GpuStore, Goto
  <2>2. Accounted'
    BY <1>3, <1>9, <2>1 DEF Accounted, InHand, HandStages, queueVars
  <2>3. ToSet(todo') \intersect inFlight' = {}
    BY <1>1, <1>2, <1>4, <2>1 DEF DInv, NoDoubleDispatch
  <2>4. TickShape' /\ PickedOffCpu' /\ NoDoubleDispatch' /\ GateIsScored'
    BY <1>1, <1>11, <2>1, <2>3
    DEF TickShape, PickedOffCpu, NoDoubleDispatch, GateIsScored
  <2>5. tick' \in Stages /\ tick' # "schedule" /\ tick' \notin CpuStages
    BY <2>1 DEF Stages, CpuStages
  <2>6. QED
    BY <1>1, <1>2, <1>3, <1>4, <1>5, <1>6, <1>7, <2>1, <2>2, <2>4, <2>5, StageStep
<1>12. QED BY <1>10, <1>11
\* AUXLLM's assertion ends the tick with nothing in hand.
LEMMA AssertFailsKeepsDInv ==
    ASSUME DInv, GpuAssertFails
    PROVE  DInv'
<1>1. UNCHANGED vars /\ UNCHANGED queueVars /\ <<>> \in Seq(Req)
      /\ tick' = "dead" /\ todo' = <<>> /\ picked' = <<>>
  BY EmptyElems DEF GpuAssertFails, Goto
<1>2. /\ TypeOK' /\ IInv' /\ inFlight' = inFlight /\ score' = score
  BY <1>1, Still
<1>3. TickShape' /\ PickedOffCpu' /\ NoDoubleDispatch' /\ GateIsScored' /\ Accounted'
  BY <1>1 DEF TickShape, PickedOffCpu, NoDoubleDispatch, GateIsScored, Accounted
<1>4. tick' \in Stages /\ tick' # "schedule" /\ tick' \notin CpuStages
  BY <1>1 DEF Stages, CpuStages
<1>5. QED BY <1>1, <1>2, <1>3, <1>4, StageStep DEF Unscored

\* The gate offers what is scored; what it withholds is covered.
LEMMA GateKeepsDInv ==
    ASSUME DInv, Gate \/ EndGate
    PROVE  DInv'
<1>1. /\ todo \in Seq(Req) /\ picked \in Seq(Req) /\ <<>> \in Seq(Req)
      /\ tick = "gate"
  BY EmptyElems DEF Gate, EndGate, DInv, DualTypeOK
<1>2. UNCHANGED vars /\ UNCHANGED queueVars
  BY DEF Gate, EndGate
<1>3. /\ TypeOK' /\ IInv' /\ inFlight' = inFlight /\ landing' = landing
      /\ score' = score
  BY <1>2, Still
<1>4. \A r \in ToSet(picked) : ~Unscored(r)
  BY <1>1 DEF DInv, GateIsScored
<1>5. ~ForwardMayFail => \A r \in ToSet(waiting) : Covered(r)
  BY <1>1 DEF DInv, Accounted, InHand, HandStages
<1>6. Accounted'
  BY <1>2, <1>3, <1>5 DEF Accounted, Covered, Unscored, queueVars
<1>7. CASE Gate
  <2>1. todo # <<>>
    BY <1>7 DEF Gate
  <2>2. Head(todo) \in Req /\ Tail(todo) \in Seq(Req)
    BY <1>1, <2>1, HeadTailElems
  <2>3. /\ Append(picked, Head(todo)) \in Seq(Req)
        /\ ToSet(Append(picked, Head(todo))) = ToSet(picked) \union {Head(todo)}
    BY <1>1, <2>2, AppendElems
  <2>4. /\ tick' = "gate" /\ todo' \in Seq(Req) /\ picked' \in Seq(Req)
        /\ \A r \in ToSet(picked') : ~Unscored(r)
    BY <1>1, <1>4, <1>7, <2>2, <2>3 DEF Gate, Goto
  <2>5. TickShape' /\ PickedOffCpu' /\ NoDoubleDispatch' /\ GateIsScored'
    BY <1>3, <2>4 DEF TickShape, PickedOffCpu, NoDoubleDispatch, GateIsScored, Unscored
  <2>6. tick' \in Stages /\ tick' # "schedule" /\ tick' \notin CpuStages
    BY <2>4 DEF Stages, CpuStages
  <2>7. QED BY <1>2, <1>3, <1>6, <2>4, <2>5, <2>6, StageStep DEF Unscored
<1>8. CASE EndGate
  <2>1. tick' = "schedule" /\ todo' = picked /\ picked' = <<>>
    BY <1>8 DEF EndGate, Goto
  <2>2. TickShape' /\ PickedOffCpu' /\ NoDoubleDispatch' /\ GateIsScored'
    BY <2>1 DEF TickShape, PickedOffCpu, NoDoubleDispatch, GateIsScored
  <2>3. tick' \in Stages /\ tick' \notin CpuStages
    BY <2>1 DEF Stages, CpuStages
  <2>4. \A r \in ToSet(todo') : ~Unscored(r)'
    BY <1>3, <1>4, <2>1 DEF Unscored
  <2>5. QED BY <1>1, <1>2, <1>3, <1>6, <2>1, <2>2, <2>3, <2>4, StageStep DEF Unscored
<1>9. QED BY <1>7, <1>8

\* Only what was offered starts to run.
LEMMA ScheduleKeepsDInv ==
    ASSUME DInv, Schedule
    PROVE  DInv'
<1>1. /\ waiting \in Seq(Req) /\ todo \in Seq(Req) /\ <<>> \in Seq(Req)
      /\ tick = "schedule"
  BY EmptyElems DEF Schedule, DInv, DualTypeOK
<1>2. PICK S \in SUBSET ToSet(todo) :
         waiting' \in Filtered(waiting, Req \ S) /\ running' = running \union S
  BY DEF Schedule
<1>3. /\ UNCHANGED vars /\ tick' = "idle" /\ todo' = <<>> /\ picked' = <<>>
      /\ UNCHANGED <<arrived, started, warm>>
  BY DEF Schedule, Goto
<1>4. TypeOK' /\ IInv' /\ inFlight' = inFlight /\ score' = score
  BY <1>3, Still
<1>5. ToSet(todo) \subseteq Req
  BY <1>1, ElementOfSeq, LenProperties DEF ToSet
<1>6. waiting' \in Seq(Req)
  BY <1>1, <1>2, FilteredFacts
<1>7. DualTypeOK'
  BY <1>1, <1>2, <1>3, <1>4, <1>5, <1>6 DEF DInv, DualTypeOK, Stages
<1>8. /\ TickShape' /\ ColdCpu' /\ PickedOffCpu' /\ NoDoubleDispatch' /\ GateIsScored'
      /\ Accounted'
  BY <1>3, <1>4 DEF DInv, TickShape, ColdCpu, CpuStages, PickedOffCpu, NoDoubleDispatch,
                    GateIsScored, Accounted
<1>9. SchedulableIsScored'
  BY <1>1, <1>2, <1>3, <1>4 DEF DInv, SchedulableIsScored, Unscored
<1>10. QED BY <1>4, <1>7, <1>8, <1>9 DEF DInv

------------------------------------------------------------------------------
(* Outside the tick *)

\* Requests come and go between ticks only; the end of the warm-up may come at
\* any time.
LEMMA EnvironmentKeepsDInv ==
    ASSUME DInv,
           \/ \E r \in Req : AddSeqGroup(r) \/ AbortSeqGroup(r) \/ Finish(r)
           \/ WarmupEnds
    PROVE  DInv'
<1>1. waiting \in Seq(Req) /\ running \in SUBSET Req /\ arrived \in SUBSET Req
      /\ started \in BOOLEAN
  BY DEF DInv, DualTypeOK
<1>2. /\ UNCHANGED vars /\ tick' = tick /\ todo' = todo /\ picked' = picked
  BY DEF AddSeqGroup, AbortSeqGroup, Finish, WarmupEnds
<1>3. /\ TypeOK' /\ IInv' /\ inFlight' = inFlight /\ landing' = landing
      /\ score' = score
  BY <1>2, Still
<1> DEFINE Frame == /\ waiting' \in Seq(Req) /\ running' \subseteq running
                    /\ arrived' \in SUBSET Req /\ started' \in BOOLEAN
                    /\ warm' \in {warm, FALSE}
                    /\ waiting' = waiting \/ tick = "idle"
<1>4. Frame
  <2>1. ASSUME NEW r \in Req, AddSeqGroup(r) PROVE Frame
    BY <1>1, <2>1, AppendElems, WarmupAssumption DEF AddSeqGroup
  <2>2. ASSUME NEW r \in Req, AbortSeqGroup(r) PROVE Frame
    BY <1>1, <2>2, FilteredFacts DEF AbortSeqGroup
  <2>3. ASSUME NEW r \in Req, Finish(r) PROVE Frame
    BY <1>1, <2>3 DEF Finish
  <2>4. CASE WarmupEnds
    BY <1>1, <2>4 DEF WarmupEnds
  <2>5. QED BY <2>1, <2>2, <2>3, <2>4
<1>5. DualTypeOK'
  BY <1>1, <1>2, <1>3, <1>4 DEF DInv, DualTypeOK
<1>6. /\ TickShape' /\ PickedOffCpu' /\ NoDoubleDispatch' /\ GateIsScored'
  BY <1>2, <1>3
  DEF DInv, TickShape, PickedOffCpu, NoDoubleDispatch, GateIsScored, Unscored
<1>7. ColdCpu'
  BY <1>2, <1>3, <1>4 DEF DInv, ColdCpu
<1>8. SchedulableIsScored'
  BY <1>2, <1>3, <1>4 DEF DInv, SchedulableIsScored, Unscored
<1>9. Accounted'
  BY <1>2, <1>3, <1>4 DEF DInv, Accounted, Covered, Unscored, InHand
<1>10. QED BY <1>3, <1>5, <1>6, <1>7, <1>8, <1>9 DEF DInv

\* The worker only takes requests out of the dedup set, and those it takes
\* out without a failure it scores.
LEMMA PredictorKeepsDInv ==
    ASSUME DInv, PredictorStep
    PROVE  DInv'
<1>1. TypeOK /\ IInv /\ UNCHANGED schedVars /\ (Spawn \/ SpawnFails \/ WorkerNext)
  BY DEF PredictorStep, DInv, DualTypeOK
<1>2. TypeOK' /\ IInv'
  BY <1>1, StepKeepsType, StepKeepsIInv
<1>3. /\ inFlight' \subseteq inFlight
      /\ \A r \in Req : ~Unscored(r) => ~Unscored(r)'
      /\ ~ForwardMayFail => \A r \in Req : Covered(r) => Covered(r)'
  <2>1. CASE Spawn \/ SpawnFails \/ StartLoop \/ Exit \/ Pull \/ Forward
    BY <2>1 DEF Spawn, SpawnFails, StartLoop, Exit, Pull, Forward, lockVars, workerVars,
                Covered, Unscored
  <2>2. CASE ForwardFails
    BY <2>2 DEF ForwardFails, Unscored
  <2>3. CASE Release
    BY <1>1, <2>3 DEF Release, Covered, Unscored, IInv, PcShape
  <2>4. CASE Land
    BY <1>1, <2>4 DEF Land, lockVars, Covered, Unscored, TypeOK
  <2>5. QED BY <1>1, <2>1, <2>2, <2>3, <2>4 DEF WorkerNext
<1>4. DualTypeOK'
  BY <1>1, <1>2 DEF DInv, DualTypeOK, schedVars
<1>5. ToSet(waiting) \subseteq Req /\ ToSet(picked) \subseteq Req /\ ToSet(todo) \subseteq Req
  BY ElementOfSeq, LenProperties DEF DInv, DualTypeOK, ToSet
<1>6. /\ TickShape' /\ ColdCpu' /\ PickedOffCpu' /\ NoDoubleDispatch'
  BY <1>1, <1>3 DEF DInv, TickShape, ColdCpu, PickedOffCpu, NoDoubleDispatch, schedVars
<1>7. GateIsScored' /\ SchedulableIsScored'
  BY <1>1, <1>3, <1>5 DEF DInv, DualTypeOK, GateIsScored, SchedulableIsScored, schedVars
<1>8. Accounted'
  BY <1>1, <1>3, <1>5 DEF DInv, Accounted, InHand, schedVars
<1>9. QED BY <1>2, <1>4, <1>6, <1>7, <1>8 DEF DInv

------------------------------------------------------------------------------

\* DInv holds in every state of the dual scheduler.
THEOREM DInvInvariant == DualSpec => []DInv
<1>1. ASSUME DInv, UNCHANGED dualVars
      PROVE  DInv'
  <2>1. UNCHANGED vars /\ UNCHANGED schedVars
    BY <1>1 DEF dualVars
  <2>2. TypeOK' /\ IInv' /\ inFlight' = inFlight /\ landing' = landing /\ score' = score
    BY <1>1, <2>1, Still
  <2>3. DualTypeOK' /\ TickShape' /\ ColdCpu' /\ PickedOffCpu' /\ NoDoubleDispatch'
    BY <1>1, <2>1, <2>2 DEF DInv, DualTypeOK, TickShape, ColdCpu, PickedOffCpu,
                            NoDoubleDispatch, schedVars
  <2>4. GateIsScored' /\ SchedulableIsScored' /\ Accounted'
    BY <1>1, <2>1, <2>2 DEF DInv, GateIsScored, SchedulableIsScored, Accounted, Covered,
                            Unscored, InHand, schedVars
  <2>5. QED BY <2>2, <2>3, <2>4 DEF DInv
<1>2. DInv /\ [DualNext]_dualVars => DInv'
  BY <1>1, BeginKeepsDInv, FilterKeepsDInv, RouteToCpuKeepsDInv, SpawnReturnsKeepsDInv,
     RefilterKeepsDInv, GpuStoreKeepsDInv, AssertFailsKeepsDInv, GateKeepsDInv,
     ScheduleKeepsDInv, EnvironmentKeepsDInv, PredictorKeepsDInv
  DEF DualNext, TickStep
<1>3. QED BY DInvInit, <1>2, PTL DEF DualSpec

\* The variables of the scheduler keep their types.
THEOREM DualTypeCorrect == DualSpec => []DualTypeOK
<1>1. DInv => DualTypeOK
  BY DEF DInv
<1>2. QED BY <1>1, DInvInvariant, PTL

\* Only scored requests are offered to the sort, and only they run.
THEOREM ScoredBeforeScheduled == DualSpec => []SchedulableIsScored
<1>1. DInv => SchedulableIsScored
  BY DEF DInv
<1>2. QED BY <1>1, DInvInvariant, PTL

\* What the tick is about to route or to compute on the GPU is not in the CPU
\* predictor's hands, although the filter reads without the lock.
THEOREM NeverDispatchedTwice == DualSpec => []NoDoubleDispatch
<1>1. DInv => NoDoubleDispatch
  BY DEF DInv
<1>2. QED BY <1>1, DInvInvariant, PTL

\* A waiting request that is not offered is owed a score.
THEOREM NobodyForgotten == DualSpec => []NothingForgotten
<1>1. DInv => NothingForgotten
  BY DEF DInv, Accounted, Covered, InHand, HandStages, NothingForgotten
<1>2. QED BY <1>1, DInvInvariant, PTL

-----------------------------------------------------------------------------
(* The general schedule                                                      *)


NoWindow == Window = 0

\* Where the schedule can take all GPU blocks back, they are enough for the
\* watermark and one slot of every sequence of a batch.
LargeEnough == Watermark + MaxSeqs <= Cardinality(GpuBlocks)

\* No request asks for more sequences than a batch may have.
NoneTooWide == \A k \in Kinds : k.bestOf <= MaxSeqs

-----------------------------------------------------------------------------
\* The sum of f over the groups G, as the number of pairs below it: a sum that
\* needs no recursion.
Units(f, G) == UNION {{g} \X (1 .. f[g]) : g \in G}
Total(f, G) == Cardinality(Units(f, G))

\* The pairs below one group.
LEMMA Column ==
    ASSUME NEW g, NEW n \in Nat
    PROVE  IsFiniteSet({g} \X (1 .. n)) /\ Cardinality({g} \X (1 .. n)) = n
<1> DEFINE A == {g}
           B == 1 .. n
<1>1. IsFiniteSet(A) /\ Cardinality(A) = 1
  BY FS_Singleton
<1>2. IsFiniteSet(B) /\ Cardinality(B) = n
  BY FS_Interval
<1> HIDE DEF A, B
<1>3. IsFiniteSet(A \X B) /\ Cardinality(A \X B) = Cardinality(A) * Cardinality(B)
  BY <1>1, <1>2, FS_Product, Zenon
<1> QED
  BY <1>1, <1>2, <1>3 DEF A, B

LEMMA TotalFacts ==
    ASSUME NEW f \in [Groups -> Nat], NEW G \in SUBSET Groups
    PROVE  /\ IsFiniteSet(Units(f, G)) /\ Total(f, G) \in Nat
           /\ Total(f, {}) = 0
<1>1. IsFiniteSet(G)
  BY GroupsAssumption, FS_Subset
<1>2. ASSUME NEW g \in G PROVE IsFiniteSet({g} \X (1 .. f[g]))
  BY Column
<1>3. IsFiniteSet({{g} \X (1 .. f[g]) : g \in G})
  <2> DEFINE A(g) == {g} \X (1 .. f[g])
             B == {A(g) : g \in G}
             h == [g \in G |-> A(g)]
  <2> HIDE DEF A
  <2>1. h \in Surjection(G, B)
    BY DEF Surjection
  <2> HIDE DEF B, h
  <2>2. IsFiniteSet(B)
    BY <1>1, <2>1, FS_Surjection
  <2> QED
    BY <2>2 DEF B, A
<1>4. IsFiniteSet(Units(f, G))
  BY <1>2, <1>3, FS_UNION DEF Units
<1>5. Units(f, {}) = {}
  BY DEF Units
<1> QED
  BY <1>4, <1>5, FS_CardinalityType, FS_EmptySet DEF Total

\* A group more adds what it counts.
LEMMA TotalAdd ==
    ASSUME NEW f \in [Groups -> Nat], NEW G \in SUBSET Groups, NEW g \in Groups \ G
    PROVE  Total(f, G \cup {g}) = Total(f, G) + f[g]
<1> DEFINE A == Units(f, G)
           B == {g} \X (1 .. f[g])
<1>1. Units(f, G \cup {g}) = A \cup B
  BY DEF Units
<1>2. A \cap B = {}
  BY DEF Units
<1>3. IsFiniteSet(A)
  BY TotalFacts
<1>5. IsFiniteSet(B)
  BY Column
<1>6. Cardinality(B) = f[g]
  BY Column
<1> HIDE DEF A, B
<1>7. Cardinality(A \cup B) = Cardinality(A) + Cardinality(B)
  BY <1>2, <1>3, <1>5, DisjointUnion
<1> QED
  BY <1>1, <1>6, <1>7 DEF A, Total

LEMMA TotalRemove ==
    ASSUME NEW f \in [Groups -> Nat], NEW G \in SUBSET Groups, NEW g \in G
    PROVE  Total(f, G) = Total(f, G \ {g}) + f[g]
<1>1. G = (G \ {g}) \cup {g} /\ g \in Groups \ (G \ {g}) /\ G \ {g} \in SUBSET Groups
  OBVIOUS
<1>2. Total(f, (G \ {g}) \cup {g}) = Total(f, G \ {g}) + f[g]
  BY <1>1, TotalAdd
<1> QED
  BY <1>1, <1>2

\* The sum only depends on what the groups count.
LEMMA TotalSame ==
    ASSUME NEW f, NEW h, NEW G, \A g \in G : f[g] = h[g]
    PROVE  Total(f, G) = Total(h, G)
<1>1. Units(f, G) = Units(h, G)
  BY DEF Units
<1> QED
  BY <1>1 DEF Total

LEMMA TotalUnion ==
    ASSUME NEW f \in [Groups -> Nat], NEW G \in SUBSET Groups, NEW H \in SUBSET Groups,
           G \cap H = {}
    PROVE  Total(f, G \cup H) = Total(f, G) + Total(f, H)
<1> DEFINE A == Units(f, G)
           B == Units(f, H)
<1>1. Units(f, G \cup H) = A \cup B /\ A \cap B = {}
  BY DEF Units
<1>2. IsFiniteSet(A) /\ IsFiniteSet(B)
  BY TotalFacts
<1> HIDE DEF A, B
<1>3. Cardinality(A \cup B) = Cardinality(A) + Cardinality(B)
  BY <1>1, <1>2, DisjointUnion
<1> QED
  BY <1>1, <1>3 DEF A, B, Total

\* No group counts more than all of them.
LEMMA TotalCovers ==
    ASSUME NEW f \in [Groups -> Nat], NEW G \in SUBSET Groups, NEW g \in G
    PROVE  f[g] <= Total(f, G)
<1>1. Total(f, G) = Total(f, G \ {g}) + f[g] /\ f[g] \in Nat
  BY TotalRemove
<1>2. G \ {g} \in SUBSET Groups
  OBVIOUS
<1>3. Total(f, G \ {g}) \in Nat
  BY <1>2, TotalFacts
<1> QED
  BY <1>1, <1>3

-----------------------------------------------------------------------------
\* The elements of a list without repetition after one is put in or taken out.
LEMMA Appended ==
    ASSUME NEW S, NEW p \in Seq(S), NEW x \in S
    PROVE  /\ Append(p, x) \in Seq(S) /\ Append(p, x) # <<>>
           /\ Range(Append(p, x)) = Range(p) \cup {x}
           /\ IsInjective(p) /\ x \notin Range(p) => IsInjective(Append(p, x))
<1> DEFINE q == Append(p, x)
<1>1. /\ q \in Seq(S) /\ q # <<>> /\ Len(q) = Len(p) + 1 /\ Len(p) \in Nat
      /\ \A i \in 1 .. Len(p) : q[i] = p[i]
      /\ q[Len(p) + 1] = x
      /\ DOMAIN q = 1 .. Len(p) + 1 /\ DOMAIN p = 1 .. Len(p)
  BY AppendProperties, LenProperties
<1> HIDE DEF q
<1>2. \A i \in 1 .. Len(p) : i \in DOMAIN p /\ i \in DOMAIN q
  BY <1>1
<1>3. Range(q) = Range(p) \cup {x}
  <2>1. Range(q) \subseteq Range(p) \cup {x}
    BY <1>1, <1>2 DEF Range
  <2>2. Range(p) \subseteq Range(q)
    BY <1>1, <1>2 DEF Range
  <2>3. x \in Range(q)
    BY <1>1 DEF Range
  <2> QED
    BY <2>1, <2>2, <2>3
<1>4. IsInjective(p) /\ x \notin Range(p) => IsInjective(q)
  BY <1>1 DEF IsInjective, Range
<1> QED
  BY <1>1, <1>3, <1>4 DEF q

LEMMA Beheaded ==
    ASSUME NEW S, NEW p \in Seq(S), p # <<>>, IsInjective(p)
    PROVE  /\ Head(p) \in S /\ Head(p) \in Range(p)
           /\ Tail(p) \in Seq(S) /\ IsInjective(Tail(p))
           /\ Range(Tail(p)) = Range(p) \ {Head(p)}
           /\ Len(p) \in Nat /\ Len(p) >= 1 /\ Head(p) = p[1] /\ DOMAIN p = 1 .. Len(p)
           /\ DOMAIN Tail(p) = 1 .. Len(p) - 1
           /\ \A i \in DOMAIN Tail(p) : i + 1 \in DOMAIN p /\ Tail(p)[i] = p[i + 1]
<1> DEFINE q == Tail(p)
<1>1. /\ Head(p) \in S /\ Head(p) = p[1]
      /\ q \in Seq(S) /\ Len(q) = Len(p) - 1 /\ \A i \in 1 .. Len(q) : q[i] = p[i + 1]
      /\ Len(p) \in Nat /\ Len(p) >= 1
      /\ DOMAIN q = 1 .. Len(p) - 1 /\ DOMAIN p = 1 .. Len(p)
  BY HeadTailProperties, LenProperties, EmptySeq
<1> HIDE DEF q
<1>2. \A i \in DOMAIN q : i + 1 \in DOMAIN p /\ q[i] = p[i + 1]
  BY <1>1
<1>3. IsInjective(q)
  BY <1>1, <1>2 DEF IsInjective
<1>4. Range(q) = Range(p) \ {p[1]}
  <2>1. Range(q) \subseteq Range(p) \ {p[1]}
    BY <1>1, <1>2 DEF IsInjective, Range
  <2>2. ASSUME NEW y \in Range(p), y # p[1] PROVE y \in Range(q)
    <3>1. PICK i \in DOMAIN p : y = p[i]
      BY DEF Range
    <3>2. i - 1 \in DOMAIN q /\ q[i - 1] = y
      BY <1>1, <2>2, <3>1
    <3> QED
      BY <3>2 DEF Range
  <2> QED
    BY <2>1, <2>2
<1>5. p[1] \in Range(p)
  BY <1>1 DEF Range
<1> QED
  BY <1>1, <1>2, <1>3, <1>4, <1>5 DEF q

LEMMA Shortened ==
    ASSUME NEW S, NEW p \in Seq(S), p # <<>>, IsInjective(p)
    PROVE  LET q == SubSeq(p, 1, Len(p) - 1) IN
           /\ p[Len(p)] \in S /\ p[Len(p)] \in Range(p)
           /\ q \in Seq(S) /\ IsInjective(q)
           /\ Range(q) = Range(p) \ {p[Len(p)]}
           /\ \A i \in DOMAIN q : i \in DOMAIN p /\ i \in Nat /\ q[i] = p[i]
<1> DEFINE q == SubSeq(p, 1, Len(p) - 1)
           n == Len(p)
<1>1. n \in Nat /\ n >= 1 /\ DOMAIN p = 1 .. n /\ \A i \in 1 .. n : p[i] \in S
  BY LenProperties, EmptySeq, ElementOfSeq
<1>2. /\ q \in Seq(S) /\ Len(q) = n - 1 /\ \A i \in 1 .. n - 1 : q[i] = p[i]
  <2>1. 1 \in Int /\ n - 1 \in Int /\ \A i \in 1 .. n - 1 : p[i] \in S
    BY <1>1
  <2>2. /\ q \in Seq(S) /\ Len(q) = (IF 1 <= n - 1 THEN n - 1 - 1 + 1 ELSE 0)
        /\ \A i \in 1 .. n - 1 - 1 + 1 : q[i] = p[1 + i - 1]
    BY <2>1, SubSeqProperties
  <2> HIDE DEF q, n
  <2> QED
    BY <1>1, <2>2
<1>3. DOMAIN q = 1 .. n - 1
  BY <1>2, LenProperties
<1> HIDE DEF q, n
<1>4. \A i \in DOMAIN q : i \in DOMAIN p /\ i \in Nat /\ q[i] = p[i]
  BY <1>1, <1>2, <1>3
<1>5. IsInjective(q)
  BY <1>4 DEF IsInjective
<1>6. Range(q) = Range(p) \ {p[n]}
  <2>1. Range(q) \subseteq Range(p) \ {p[n]}
    <3>1. ASSUME NEW i \in DOMAIN q PROVE q[i] \in Range(p) /\ q[i] # p[n]
      <4>1. i \in DOMAIN p /\ n \in DOMAIN p /\ i # n /\ q[i] = p[i]
        BY <1>1, <1>3, <1>4
      <4> QED
        BY <4>1 DEF IsInjective, Range
    <3> QED
      BY <3>1 DEF Range
  <2>2. ASSUME NEW y \in Range(p), y # p[n] PROVE y \in Range(q)
    <3>1. PICK i \in DOMAIN p : y = p[i]
      BY DEF Range
    <3>2. i \in DOMAIN q /\ q[i] = y
      BY <1>1, <1>2, <1>3, <2>2, <3>1
    <3> QED
      BY <3>2 DEF Range
  <2> QED
    BY <2>1, <2>2
<1>7. p[n] \in S /\ p[n] \in Range(p)
  BY <1>1 DEF Range
<1> QED
  BY <1>2, <1>4, <1>5, <1>6, <1>7 DEF q, n

-----------------------------------------------------------------------------
\* The free blocks a selected group will take until it executes, and those of
\* them that are blocks it asks for as a whole.
Takes(g) ==
    CASE phase[g] = "waiting" -> LogicalBlocks(g)
      [] phase[g] = "swapped" -> Cardinality(Tabled(live[g])) + Cardinality(live[g])
      [] OTHER                -> Cardinality(live[g])
Wants(g) ==
    CASE phase[g] = "waiting" -> LogicalBlocks(g)
      [] phase[g] = "swapped" -> Cardinality(Tabled(live[g]))
      [] OTHER                -> 0

Taking == [g \in Groups |-> Takes(g)]
Wanting == [g \in Groups |-> Wants(g)]

Charged == Range(pinned) \ uncharged

-----------------------------------------------------------------------------
\* The invariant of one group: what its phase says of its sequences, where
\* their tables are and how long they are.
GroupInv(g) ==
    /\ Cardinality(live[g]) <= kind[g].bestOf
    /\ phase[g] = "idle" <=> live[g] = {}
    /\ phase[g] # "idle" => tokens[g] >= 1
    /\ left[g] <= tokens[g]
    /\ left[g] > 0 => Cardinality(live[g]) = 1 /\ ended[g] = 0
    /\ phase[g] = "idle" => ended[g] = 0
    /\ phase[g] = "waiting" => left[g] > 0 /\ \A s \in live[g] : table[s] = <<>>
    /\ phase[g] = "swapped" => \A s \in live[g] : table[s] \in Seq(CpuBlocks)
    /\ phase[g] \notin {"idle", "waiting"} => \A s \in live[g] :
          Len(table[s]) \in {BlocksFor(tokens[g] - 1), BlocksFor(tokens[g])}
    /\ phase[g] \notin {"idle", "waiting", "swapped"} => \A s \in live[g] :
          table[s] \in Seq(GpuBlocks)
    /\ \A s \in live[g] :
          phase[g] = "executing" \/ (phase[g] = "appending" /\ s \notin pending)
             => Len(table[s]) = BlocksFor(tokens[g])
    /\ phase[g] = "appending" => pending \subseteq live[g]

\* Pools and tables, and whose they are.
BaseInv ==
    /\ GroupsTypeOK(Phases)
    /\ left \in [Groups -> 0 .. MaxLen]
    /\ pending \subseteq Seqs
    /\ ManagerInv
    /\ \A g, h \in Groups : g # h => live[g] \cap live[h] = {}
    /\ \A g, h \in Groups : g # h => Tabled(live[g]) \cap Tabled(live[h]) = {}
    /\ \A s \in Fresh : table[s] = <<>>
    /\ \A g \in Groups : GroupInv(g)

Reasons == {"no", "OutOfMemory", "AssertionError", "DoubleFree", "NoSwapSpace",
            "NotOneToken", "UnboundLocalError"}
Steps == {"between", "select", "reserve", "swap_in", "swap_in_only", "proactive",
           "execute", "worker", "model", "process"}

TickTypes ==
    /\ raised \in Reasons /\ stage \in Steps
    /\ pinned \in Seq(Groups) /\ rest \in Seq(Groups)
    /\ take \in [Groups -> Nat]
    /\ budget \in [tokens : 0 .. TokenBudget, seqs : 0 .. MaxSeqs]
    /\ need \in Int
    /\ uncharged \subseteq Groups

CacheTypes ==
    /\ swapOut \subseteq GpuBlocks \X CpuBlocks
    /\ swapIn \subseteq CpuBlocks \X GpuBlocks
    /\ copies \subseteq GpuBlocks \X GpuBlocks
    /\ kv \in [Blocks -> {Nobody} \cup (Groups \X (Nat \ {0}))]

\* What each stage of a tick knows of its groups.
PinnedInv ==
    /\ IsInjective(pinned)
    /\ \A g \in Range(pinned) : phase[g] \in {"waiting", "ready", "swapped", "returned"}
    /\ stage \in {"proactive", "execute"} => \A g \in Range(pinned) : phase[g] # "swapped"
    /\ stage = "reserve" => Range(pinned) \cap Range(rest) = {}
    /\ stage = "reserve" => In("ready") \subseteq Range(pinned) \cup Range(rest)
    /\ \A i, j \in DOMAIN pinned :
          i < j /\ pinned[i] \in uncharged => pinned[j] \in uncharged
    /\ \A g \in Range(pinned) \cap uncharged : phase[g] = "returned"

PhasesInv ==
    /\ In("returned") \subseteq Range(pinned)
    /\ uncharged \subseteq Range(pinned) \cup In("appending") \cup In("executing")
    /\ \A g, h \in In("appending") : g = h
    /\ pending = {} <=> In("appending") = {}
    /\ stage # "execute" => pending = {}
    /\ stage \in {"between", "select", "reserve"} => In("returned") = {}
    /\ stage \notin {"execute", "worker", "model", "process"} => In("executing") = {}

StageInv ==
    /\ stage \notin {"proactive", "execute", "worker", "model", "process"} => uncharged = {}
    /\ stage \in {"between", "worker", "model", "process"} =>
          pinned = <<>> /\ need = 0 /\ budget = NoCharge
    /\ stage = "select" /\ pinned = <<>> => budget = NoCharge
    /\ stage \in {"swap_in", "proactive"} /\ pinned = <<>> /\ NoneTooWide => rest = <<>>

\* How the guesses of a tick relate to the free blocks: from below, so that the
\* selected groups find what they take, and from above, so that nothing is
\* needed any more when everybody has given his blocks back.
RoomInv ==
    /\ stage = "select" => Total(Taking, Charged) <= need
    /\ stage = "select" => need <= Total(Wanting, Charged) + budget.seqs
    /\ stage = "reserve" =>
          need <= Total(Wanting, Charged) + MaxSeqs - Cardinality(FreeGpu) + Watermark
    /\ stage \in {"reserve", "swap_in", "swap_in_only", "proactive"} =>
          Total(Taking, Charged) <= need + Cardinality(FreeGpu) - Watermark
    /\ stage \in {"swap_in", "swap_in_only", "proactive"} => need <= 0
    /\ stage = "proactive" => Total(Taking, uncharged) <= Cardinality(Lent)
    /\ stage = "proactive" /\ uncharged # {} => need <= -2

ExecuteInv ==
    stage = "execute" =>
        /\ Cardinality(pending) <= Cardinality(FreeGpu)
        /\ Charged # {} =>
              Total(Taking, Charged) + Cardinality(pending) <= Cardinality(FreeGpu) - Watermark
        /\ Cardinality(Lent) <= Watermark + 2 =>
              Total(Taking, Range(pinned)) + Cardinality(pending) <= Cardinality(FreeGpu)

Checks ==
    /\ raised \notin {"DoubleFree", "OutOfMemory"}
    /\ raised = "AssertionError" /\ LargeEnough => Cardinality(Lent) > Watermark + 2
    /\ NoneTooWide => raised # "UnboundLocalError"
    /\ raised # "no" => stage \notin {"select", "model"}

TickInv == PinnedInv /\ PhasesInv /\ StageInv /\ RoomInv /\ ExecuteInv

CoreInv == BaseInv /\ TickTypes /\ Checks /\ (raised = "no" => TickInv)

GeneralInv == CoreInv /\ CacheTypes

-----------------------------------------------------------------------------
\* The facts about one group that the steps start from.
LEMMA GroupFacts ==
    ASSUME BaseInv, NEW g \in Groups
    PROVE  /\ GroupInv(g) /\ ManagerInv
           /\ live[g] \in SUBSET Seqs /\ IsFiniteSet(live[g])
           /\ Cardinality(live[g]) \in Nat
           /\ Cardinality(live[g]) = 0 <=> live[g] = {}
           /\ tokens[g] \in Nat /\ tokens[g] <= MaxLen /\ MaxLen \in Nat
           /\ left[g] \in Nat /\ left[g] <= MaxLen /\ ended[g] \in Nat
           /\ kind[g] \in Kinds /\ kind[g].bestOf \in Nat \ {0} /\ kind[g].beam \in BOOLEAN
           /\ phase[g] \in Phases
           /\ Cardinality(Tabled(live[g])) \in Nat
           /\ LogicalBlocks(g) \in Nat /\ LogicalBlocks(g) = BlocksFor(tokens[g])
<1>1. /\ GroupInv(g) /\ live[g] \in SUBSET Seqs /\ tokens[g] \in 0 .. MaxLen
      /\ left[g] \in 0 .. MaxLen /\ ended[g] \in Nat
      /\ kind[g] \in Kinds /\ phase[g] \in Phases /\ ManagerInv
  BY DEF BaseInv, GroupsTypeOK
<1>2. IsFiniteSet(live[g])
  BY <1>1, DevicesAssumption, FS_Subset
<1>3. kind[g].bestOf \in Nat \ {0} /\ kind[g].beam \in BOOLEAN
  BY <1>1, GroupsAssumption
<1>4. MaxLen \in Nat
  BY GroupsAssumption
<1>5. tokens[g] \in Nat /\ tokens[g] <= MaxLen /\ left[g] \in Nat /\ left[g] <= MaxLen
  BY <1>1, <1>4
<1>6. LogicalBlocks(g) \in Nat /\ LogicalBlocks(g) = BlocksFor(tokens[g])
  BY <1>5, BlocksForStep DEF LogicalBlocks
<1>7. Cardinality(Tabled(live[g])) \in Nat
  BY <1>1, TabledFinite
<1>8. Cardinality(live[g]) \in Nat /\ (Cardinality(live[g]) = 0 <=> live[g] = {})
  BY <1>2, FS_CardinalityType, FS_EmptySet
<1> QED
  BY <1>1, <1>2, <1>3, <1>4, <1>5, <1>6, <1>7, <1>8

LEMMA TakingTypes ==
    ASSUME BaseInv
    PROVE  /\ Taking \in [Groups -> Nat] /\ Wanting \in [Groups -> Nat]
           /\ \A g \in Groups : /\ Taking[g] = Takes(g) /\ Takes(g) \in Nat
                                /\ Wanting[g] = Wants(g) /\ Wants(g) \in Nat
<1>1. ASSUME NEW g \in Groups PROVE Takes(g) \in Nat /\ Wants(g) \in Nat
  <2>1. /\ LogicalBlocks(g) \in Nat /\ Cardinality(live[g]) \in Nat
        /\ Cardinality(Tabled(live[g])) \in Nat
    BY GroupFacts
  <2> QED
    BY <2>1 DEF Takes, Wants
<1> QED
  BY <1>1 DEF Taking, Wanting

\* A group whose phase, tokens, sequences and tables stay takes what it took.
LEMMA TakesSame ==
    ASSUME BaseInv, NEW h \in Groups,
           phase'[h] = phase[h], tokens'[h] = tokens[h], live'[h] = live[h],
           \A s \in live[h] : table'[s] = table[s]
    PROVE  /\ Takes(h)' = Takes(h) /\ Wants(h)' = Wants(h)
           /\ Tabled(live[h])' = Tabled(live[h])
<1>1. Tabled(live[h])' = Tabled(live[h])
  BY DEF Tabled
<1>2. LogicalBlocks(h)' = LogicalBlocks(h)
  BY DEF LogicalBlocks, BlocksFor
<1> QED
  BY <1>1, <1>2 DEF Takes, Wants

\* How the sums change with what one group takes.
LEMMA Sums ==
    ASSUME BaseInv, NEW g \in Groups, Takes(g)' \in Nat,
           \A h \in Groups \ {g} : Takes(h)' = Takes(h) /\ Wants(h)' = Wants(h)
    PROVE  \A C \in SUBSET Groups :
              /\ Total(Taking, C) \in Nat /\ Total(Taking', C) \in Nat
              /\ Total(Taking, C \ {g}) \in Nat
              /\ g \notin C => /\ Total(Taking', C) = Total(Taking, C)
                               /\ Total(Wanting', C) = Total(Wanting, C)
              /\ g \in C => /\ Total(Taking, C) = Total(Taking, C \ {g}) + Takes(g)
                            /\ Total(Taking', C) = Total(Taking, C \ {g}) + Takes(g)'
                            /\ Total(Taking', C \ {g}) = Total(Taking, C \ {g})
<1> DEFINE f == Taking
           n == Taking'
<1>1. f \in [Groups -> Nat] /\ \A h \in Groups : f[h] = Takes(h)
  BY TakingTypes
<1>2. /\ n \in [Groups -> Nat] /\ n[g] = Takes(g)'
      /\ \A h \in Groups \ {g} : n[h] = f[h]
  BY <1>1, TakingTypes DEF Taking
<1>3. \A h \in Groups \ {g} : Wanting'[h] = Wanting[h]
  BY DEF Wanting
<1> HIDE DEF f, n
<1> SUFFICES ASSUME NEW C \in SUBSET Groups
             PROVE  /\ Total(f, C) \in Nat /\ Total(n, C) \in Nat
                    /\ Total(f, C \ {g}) \in Nat
                    /\ g \notin C => /\ Total(n, C) = Total(f, C)
                                     /\ Total(Wanting', C) = Total(Wanting, C)
                    /\ g \in C => /\ Total(f, C) = Total(f, C \ {g}) + Takes(g)
                                  /\ Total(n, C) = Total(f, C \ {g}) + Takes(g)'
                                  /\ Total(n, C \ {g}) = Total(f, C \ {g})
  BY DEF f, n
<1>4. C \ {g} \in SUBSET Groups
  OBVIOUS
<1>5. Total(f, C) \in Nat /\ Total(n, C) \in Nat /\ Total(f, C \ {g}) \in Nat
  BY <1>1, <1>2, <1>4, TotalFacts
<1>6. Total(n, C \ {g}) = Total(f, C \ {g}) /\ Total(Wanting', C \ {g}) = Total(Wanting, C \ {g})
  BY <1>2, <1>3, TotalSame
<1>7. CASE g \notin C
  <2>1. C \ {g} = C
    BY <1>7
  <2> QED
    BY <1>5, <1>6, <1>7, <2>1
<1>8. CASE g \in C
  <2>1. Total(f, C) = Total(f, C \ {g}) + f[g]
    BY <1>1, <1>8, TotalRemove
  <2>2. Total(n, C) = Total(n, C \ {g}) + n[g]
    BY <1>2, <1>8, TotalRemove
  <2> QED
    BY <1>1, <1>2, <1>5, <1>6, <1>8, <2>1, <2>2
<1> QED
  BY <1>7, <1>8

-----------------------------------------------------------------------------
\* A step that leaves groups, tables and counts as they are keeps all of this.
LEMMA SameKeepsBase ==
    ASSUME BaseInv, UNCHANGED <<table, ref, free, groupVars, left, pending>>
    PROVE  /\ BaseInv' /\ Taking' = Taking /\ Wanting' = Wanting /\ FreeGpu' = FreeGpu
           /\ phase' = phase /\ live' = live /\ pending' = pending
<1>1. ManagerInv'
  BY DEF BaseInv, ManagerInv, PoolExact, RefCountsExact, FreeListExact, Holders
<1>2. (GroupsTypeOK(Phases) /\ left \in [Groups -> 0 .. MaxLen] /\ pending \subseteq Seqs)'
  BY DEF BaseInv, GroupsTypeOK, groupVars
<1>3. (\A g, h \in Groups : g # h => live[g] \cap live[h] = {})'
  BY DEF BaseInv, groupVars
<1>4. (\A g, h \in Groups : g # h => Tabled(live[g]) \cap Tabled(live[h]) = {})'
  <2>1. \A g \in Groups : Tabled(live[g])' = Tabled(live[g])
    BY DEF groupVars, Tabled
  <2>2. \A g, h \in Groups : g # h => Tabled(live[g]) \cap Tabled(live[h]) = {}
    BY DEF BaseInv
  <2> QED
    BY <2>1, <2>2
<1>5. (\A s \in Fresh : table[s] = <<>>)'
  BY DEF BaseInv, groupVars, Fresh
<1>6. (\A g \in Groups : GroupInv(g))'
  <2>1. /\ phase' = phase /\ kind' = kind /\ live' = live /\ tokens' = tokens /\ ended' = ended
        /\ table' = table /\ left' = left /\ pending' = pending
    BY DEF groupVars
  <2>2. \A g \in Groups : GroupInv(g)
    BY DEF BaseInv
  <2> QED
    BY <2>1, <2>2 DEF GroupInv, BlocksFor
<1>7. Taking' = Taking /\ Wanting' = Wanting
  BY TakesSame DEF Taking, Wanting, groupVars
<1> QED
  BY <1>1, <1>2, <1>3, <1>4, <1>5, <1>6, <1>7 DEF BaseInv, FreeGpu, groupVars

\* A step that concerns the group g: it changes no other group, g's sequences
\* were g's or nobody's, and they get free blocks or blocks that g held.
Concerns(g) ==
    /\ GroupsTypeOK(Phases)' /\ left' \in [Groups -> 0 .. MaxLen] /\ pending' \subseteq Seqs
    /\ \A h \in Groups \ {g} :
          /\ phase'[h] = phase[h] /\ tokens'[h] = tokens[h] /\ live'[h] = live[h]
          /\ ended'[h] = ended[h] /\ kind'[h] = kind[h] /\ left'[h] = left[h]
          /\ phase[h] = "appending" => pending' = pending
    /\ live'[g] \subseteq live[g] \cup Fresh
    /\ \A s \in Seqs \ (live[g] \cup live'[g]) : table'[s] = table[s]
    /\ \A s \in live[g] \ live'[g] : table'[s] = <<>>
    /\ \A s \in live'[g] : \A b \in Range(table'[s]) :
          b \in free \/ \E p \in live[g] : b \in Range(table[p])

\* The other groups keep their invariant, and take what they took.
LEMMA ConcernsKeepsOthers ==
    ASSUME NoWindow, BaseInv, NEW g \in Groups, Concerns(g), NEW h \in Groups \ {g}
    PROVE  /\ GroupInv(h)' /\ Takes(h)' = Takes(h) /\ Wants(h)' = Wants(h)
           /\ Tabled(live[h])' = Tabled(live[h]) /\ live'[h] = live[h]
           /\ live'[h] \cap live'[g] = {}
           /\ Tabled(live[h])' \cap Tabled(live[g])' = {}
           /\ \A s \in live[h] : table'[s] = table[s]
<1>1. /\ live[g] \cap live[h] = {} /\ live'[g] \cap live[h] = {}
      /\ live[g] \subseteq Seqs /\ live[h] \subseteq Seqs /\ live'[h] = live[h]
  <2>1. live[g] \cap live[h] = {}
    BY DEF BaseInv
  <2>2. live[g] \subseteq Seqs /\ live[h] \subseteq Seqs
    BY GroupFacts
  <2>3. Fresh \cap live[h] = {}
    BY DEF Fresh
  <2>4. live'[g] \subseteq live[g] \cup Fresh /\ live'[h] = live[h]
    BY DEF Concerns
  <2> QED
    BY <2>1, <2>2, <2>3, <2>4
<1>2. \A s \in live[h] : table'[s] = table[s]
  BY <1>1 DEF Concerns
<1>3. /\ phase'[h] = phase[h] /\ tokens'[h] = tokens[h] /\ live'[h] = live[h]
      /\ ended'[h] = ended[h] /\ kind'[h] = kind[h] /\ left'[h] = left[h]
      /\ phase[h] = "appending" => pending' = pending
  BY DEF Concerns
<1>4. Takes(h)' = Takes(h) /\ Wants(h)' = Wants(h) /\ Tabled(live[h])' = Tabled(live[h])
  BY <1>2, <1>3, TakesSame
<1>5. GroupInv(h)'
  <2>1. GroupInv(h)
    BY GroupFacts
  <2> QED
    BY <1>2, <1>3, <2>1 DEF GroupInv, BlocksFor
<1>6. ASSUME NEW b \in Tabled(live[h]), b \in Tabled(live[g])' PROVE FALSE
  <2>1. PICK s \in live[h] : b \in Range(table[s])
    BY DEF Tabled
  <2>2. PICK q \in live'[g] : b \in Range(table'[q])
    BY <1>6 DEF Tabled
  <2>3. b \in free \/ \E p \in live[g] : b \in Range(table[p])
    BY <2>2 DEF Concerns
  <2>4. b \notin Tabled(live[g])
    BY <1>6 DEF BaseInv
  <2>5. b \in free
    BY <2>3, <2>4 DEF Tabled
  <2>6. s \in HoldersIn(table, b) /\ b \in Blocks
    BY <1>1, <2>1, RangeOfSeq DEF HoldersIn, BaseInv, ManagerInv
  <2> QED
    BY <2>5, <2>6, FreeIsUnheld DEF BaseInv, NoWindow
<1> QED
  BY <1>1, <1>2, <1>4, <1>5, <1>6

LEMMA ConcernsKeepsBase ==
    ASSUME NoWindow, BaseInv, NEW g \in Groups, Concerns(g), ManagerInv', GroupInv(g)'
    PROVE  BaseInv'
<1>1. \A h, k \in Groups : h # k => live[h] \cap live[k] = {}
  BY DEF BaseInv
<1>2. (\A h, k \in Groups : h # k => live[h] \cap live[k] = {})'
  BY <1>1, ConcernsKeepsOthers
<1>3. (\A h, k \in Groups : h # k => Tabled(live[h]) \cap Tabled(live[k]) = {})'
  <2> SUFFICES ASSUME NEW h \in Groups, NEW k \in Groups, h # k
               PROVE  Tabled(live[h])' \cap Tabled(live[k])' = {}
    OBVIOUS
  <2>1. CASE h = g
    BY <2>1, ConcernsKeepsOthers
  <2>2. CASE k = g
    BY <2>2, ConcernsKeepsOthers
  <2>3. CASE h # g /\ k # g
    <3>1. Tabled(live[h])' = Tabled(live[h]) /\ Tabled(live[k])' = Tabled(live[k])
      BY <2>3, ConcernsKeepsOthers
    <3>2. Tabled(live[h]) \cap Tabled(live[k]) = {}
      BY DEF BaseInv
    <3> QED
      BY <3>1, <3>2
  <2> QED
    BY <2>1, <2>2, <2>3
<1>4. ASSUME NEW s \in Fresh' PROVE table'[s] = <<>>
  <2>1. s \in Seqs /\ \A h \in Groups : s \notin live'[h]
    BY DEF Fresh
  <2>2. CASE s \in live[g]
    BY <2>1, <2>2 DEF Concerns
  <2>3. CASE s \notin live[g]
    <3>1. \A h \in Groups \ {g} : live'[h] = live[h]
      BY DEF Concerns
    <3>2. s \in Fresh
      BY <2>1, <2>3, <3>1 DEF Fresh
    <3> QED
      BY <2>1, <2>3, <3>2 DEF Concerns, BaseInv
  <2> QED
    BY <2>2, <2>3
<1>5. (\A s \in Fresh : table[s] = <<>>)'
  BY <1>4
<1>6. (\A h \in Groups : GroupInv(h))'
  BY ConcernsKeepsOthers
<1>7. (GroupsTypeOK(Phases) /\ left \in [Groups -> 0 .. MaxLen] /\ pending \subseteq Seqs)'
  BY DEF Concerns
<1> QED
  BY <1>2, <1>3, <1>5, <1>6, <1>7 DEF BaseInv

\* What SetPhase leaves: every group has the sequences and tokens it had.
LEMMA SetPhaseFacts ==
    ASSUME BaseInv, NEW g \in Groups, NEW p \in Phases, SetPhase(g, p)
    PROVE  /\ GroupsTypeOK(Phases)' /\ phase'[g] = p
           /\ tokens' = tokens /\ live' = live /\ ended' = ended /\ kind' = kind
           /\ \A h \in Groups \ {g} : phase'[h] = phase[h]
           /\ LogicalBlocks(g)' = LogicalBlocks(g)
           /\ \A q : q # p => In(q)' = In(q) \ {g}
           /\ In(p)' = In(p) \cup {g}
<1>1. phase \in [Groups -> Phases]
  BY DEF BaseInv, GroupsTypeOK
<1>2. /\ tokens' = tokens /\ live' = live /\ ended' = ended /\ kind' = kind
      /\ phase' = [phase EXCEPT ![g] = p]
  BY DEF SetPhase
<1>3. GroupsTypeOK(Phases)'
  BY <1>1, <1>2 DEF BaseInv, GroupsTypeOK
<1>4. LogicalBlocks(g)' = LogicalBlocks(g)
  BY <1>2 DEF LogicalBlocks, BlocksFor
<1> QED
  BY <1>1, <1>2, <1>3, <1>4 DEF In

-----------------------------------------------------------------------------
\* A group is swapped out: all the blocks it held are free, and no others.
LEMMA SwapOutKeepsBase ==
    ASSUME NoWindow, BaseInv, NEW g \in Groups, phase[g] = "ready",
           CanSwapOut(live[g]), SwapOut(live[g]), SetPhase(g, "swapped"),
           UNCHANGED <<left, pending>>
    PROVE  /\ BaseInv' /\ raised' = raised
           /\ \A s \in live[g] : /\ Len(table'[s]) = Len(table[s])
                                 /\ table[s] \in Seq(GpuBlocks) /\ table'[s] \in Seq(CpuBlocks)
           /\ \A h \in Groups \ {g} : Takes(h)' = Takes(h) /\ Wants(h)' = Wants(h)
           /\ Takes(g)' \in Nat
           /\ Cardinality(FreeGpu') = Cardinality(FreeGpu) + Cardinality(Tabled(live[g]))
<1>1. /\ GroupInv(g) /\ ManagerInv /\ live[g] \subseteq Seqs /\ Window = 0
      /\ \A s \in live[g] : table[s] \in Seq(GpuBlocks)
  BY GroupFacts DEF GroupInv, NoWindow
<1>2. Movable(live[g], FreeCpu) /\ Move(live[g], FreeCpu)
  BY <1>1 DEF Movable, CanSwapOut, SwapOut
<1>3. /\ ManagerInv' /\ raised' = raised
      /\ \A s \in live[g] : Len(table'[s]) = Len(table[s]) /\ table'[s] \in Seq(FreeCpu)
      /\ \A s \in Seqs \ live[g] : table'[s] = table[s]
  BY <1>1, <1>2, MoveExact
<1>4. \A s \in live[g] : /\ table'[s] \in Seq(CpuBlocks)
                         /\ Range(table'[s]) \subseteq free
  <2>1. FreeCpu \subseteq CpuBlocks /\ FreeCpu \subseteq free
    BY DEF FreeCpu
  <2> QED
    BY <1>3, <2>1, SeqMonotonic, RangeOfSeq
<1>5. /\ GroupsTypeOK(Phases)' /\ phase'[g] = "swapped"
      /\ tokens' = tokens /\ live' = live /\ ended' = ended /\ kind' = kind
      /\ \A h \in Groups \ {g} : phase'[h] = phase[h]
  BY SetPhaseFacts DEF Phases
<1>6. Concerns(g)
  BY <1>3, <1>4, <1>5 DEF Concerns, BaseInv
<1>7. GroupInv(g)'
  BY <1>1, <1>3, <1>4, <1>5 DEF GroupInv, BlocksFor
<1>8. BaseInv'
  BY <1>3, <1>6, <1>7, ConcernsKeepsBase
<1>9. Cardinality(FreeGpu') = Cardinality(FreeGpu) + Cardinality(Tabled(live[g]))
  <2> DEFINE T == Tabled(live[g])
  <2>1. /\ \A b \in Blocks : b \in free <=> HoldersIn(table, b) = {}
        /\ \A b \in Blocks : b \in free' <=> HoldersIn(table', b) = {}
    BY <1>1, <1>3, HoldersAreTables DEF ManagerInv, PoolExact, FreeListExact
  <2>2. T \subseteq GpuBlocks
    BY <1>1, RangeOfSeq DEF Tabled
  <2>3. \A b \in GpuBlocks : \A s \in live[g] : b \notin Range(table'[s])
    BY <1>4, RangeOfSeq, DevicesAssumption
  <2>4. ASSUME NEW b \in GpuBlocks
        PROVE  HoldersIn(table', b) = {} <=> HoldersIn(table, b) = {} \/ b \in T
    <3>1. CASE b \in T
      <4>1. PICK p \in live[g] : b \in Range(table[p])
        BY <3>1 DEF Tabled
      <4>2. ASSUME NEW q \in Seqs, b \in Range(table'[q]) PROVE FALSE
        <5>1. q \notin live[g] /\ b \in Range(table[q])
          BY <1>3, <2>3, <4>2
        <5>2. ASSUME NEW h \in Groups, q \in live[h] PROVE FALSE
          <6>1. h # g /\ b \in Tabled(live[h])
            BY <5>1, <5>2 DEF Tabled
          <6>2. Tabled(live[h]) \cap Tabled(live[g]) = {}
            BY <6>1 DEF BaseInv
          <6> QED
            BY <3>1, <6>1, <6>2
        <5>3. table[q] = <<>>
          BY <5>2 DEF BaseInv, Fresh
        <5> QED
          BY <5>1, <5>3 DEF Range
      <4> QED
        BY <3>1, <4>2 DEF HoldersIn
    <3>2. CASE b \notin T
      <4>1. \A s \in live[g] : b \notin Range(table[s])
        BY <3>2 DEF Tabled
      <4>2. HoldersIn(table', b) = HoldersIn(table, b)
        BY <1>3, <2>3, <4>1 DEF HoldersIn
      <4> QED
        BY <3>2, <4>2
    <3> QED
      BY <3>1, <3>2
  <2>5. FreeGpu' = FreeGpu \cup T
    BY <2>1, <2>2, <2>4 DEF FreeGpu, Blocks
  <2>6. FreeGpu \cap T = {}
    <3>1. ASSUME NEW b \in T, b \in free PROVE FALSE
      <4>1. PICK p \in live[g] : b \in Range(table[p])
        BY DEF Tabled
      <4> QED
        BY <1>1, <2>1, <2>2, <3>1, <4>1 DEF HoldersIn, Blocks
    <3> QED
      BY <3>1 DEF FreeGpu
  <2>7. IsFiniteSet(FreeGpu) /\ IsFiniteSet(T)
    BY <1>1, FreePools, TabledFinite
  <2> HIDE DEF T
  <2>8. Cardinality(FreeGpu \cup T) = Cardinality(FreeGpu) + Cardinality(T)
    BY <2>6, <2>7, DisjointUnion
  <2> QED
    BY <2>5, <2>8 DEF T
<1>10. \A h \in Groups \ {g} : Takes(h)' = Takes(h) /\ Wants(h)' = Wants(h)
  BY <1>6, ConcernsKeepsOthers
<1>11. Takes(g)' \in Nat
  <2>1. Tabled(live[g])' \in SUBSET Blocks
    BY <1>1, <1>3, <1>5, RangeOfSeq DEF Tabled, ManagerInv
  <2>2. IsFiniteSet(Blocks)
    BY DevicesAssumption, FS_Union DEF Blocks
  <2>3. Cardinality(Tabled(live[g])') \in Nat
    BY <2>1, <2>2, FS_Subset, FS_CardinalityType
  <2>4. Cardinality(live'[g]) \in Nat
    BY <1>5, GroupFacts
  <2> QED
    BY <1>5, <2>3, <2>4 DEF Takes
<1> QED
  BY <1>1, <1>3, <1>4, <1>8, <1>9, <1>10, <1>11

\* A group is swapped in where its blocks find room.
LEMMA SwapInKeepsBase ==
    ASSUME NoWindow, BaseInv, NEW g \in Groups, phase[g] = "swapped",
           Cardinality(Tabled(live[g])) <= Cardinality(FreeGpu),
           SwapIn(live[g]), SetPhase(g, "returned"), UNCHANGED <<left, pending>>
    PROVE  /\ BaseInv' /\ raised' = raised
           /\ \A s \in live[g] : /\ Len(table'[s]) = Len(table[s])
                                 /\ table[s] \in Seq(CpuBlocks) /\ table'[s] \in Seq(GpuBlocks)
           /\ \A h \in Groups \ {g} : Takes(h)' = Takes(h) /\ Wants(h)' = Wants(h)
           /\ Takes(g) = Cardinality(Tabled(live[g])) + Cardinality(live[g])
           /\ Takes(g)' = Cardinality(live[g])
           /\ Cardinality(FreeGpu') >= Cardinality(FreeGpu) - Cardinality(Tabled(live[g]))
<1>1. /\ GroupInv(g) /\ ManagerInv /\ live[g] \subseteq Seqs /\ Window = 0
      /\ \A s \in live[g] : table[s] \in Seq(CpuBlocks)
  BY GroupFacts DEF GroupInv, NoWindow
<1>2. Movable(live[g], FreeGpu) /\ Move(live[g], FreeGpu)
  BY <1>1 DEF Movable, SwapIn
<1>3. /\ ManagerInv' /\ raised' = raised
      /\ \A s \in live[g] : Len(table'[s]) = Len(table[s]) /\ table'[s] \in Seq(FreeGpu)
      /\ \A s \in Seqs \ live[g] : table'[s] = table[s]
      /\ Cardinality(FreeGpu') >= Cardinality(FreeGpu) - Cardinality(Tabled(live[g]))
  BY <1>1, <1>2, MoveExact
<1>4. \A s \in live[g] : /\ table'[s] \in Seq(GpuBlocks)
                         /\ Range(table'[s]) \subseteq free
  <2>1. FreeGpu \subseteq GpuBlocks /\ FreeGpu \subseteq free
    BY DEF FreeGpu
  <2> QED
    BY <1>3, <2>1, SeqMonotonic, RangeOfSeq
<1>5. /\ GroupsTypeOK(Phases)' /\ phase'[g] = "returned"
      /\ tokens' = tokens /\ live' = live /\ ended' = ended /\ kind' = kind
      /\ \A h \in Groups \ {g} : phase'[h] = phase[h]
  BY SetPhaseFacts DEF Phases
<1>6. Concerns(g)
  BY <1>3, <1>4, <1>5 DEF Concerns, BaseInv
<1>7. GroupInv(g)'
  BY <1>1, <1>3, <1>4, <1>5 DEF GroupInv, BlocksFor
<1>8. BaseInv'
  BY <1>3, <1>6, <1>7, ConcernsKeepsBase
<1>9. \A h \in Groups \ {g} : Takes(h)' = Takes(h) /\ Wants(h)' = Wants(h)
  BY <1>6, ConcernsKeepsOthers
<1>10. /\ Takes(g) = Cardinality(Tabled(live[g])) + Cardinality(live[g])
       /\ Takes(g)' = Cardinality(live[g])
  BY <1>5 DEF Takes
<1> QED
  BY <1>1, <1>3, <1>4, <1>8, <1>9, <1>10

\* A prompt gets its blocks where can_allocate has found them.
LEMMA AllocateKeepsBase ==
    ASSUME NoWindow, BaseInv, NEW g \in Groups, phase[g] = "waiting",
           LogicalBlocks(g) <= Cardinality(FreeGpu),
           Allocate(live[g], LogicalBlocks(g), NumSeqs(g)),
           SetPhase(g, "executing"), UNCHANGED <<left, pending>>
    PROVE  /\ BaseInv' /\ raised' = raised
           /\ \A h \in Groups \ {g} : Takes(h)' = Takes(h) /\ Wants(h)' = Wants(h)
           /\ Takes(g) = LogicalBlocks(g) /\ Takes(g)' = Cardinality(live[g])
           /\ Cardinality(FreeGpu') >= Cardinality(FreeGpu) - LogicalBlocks(g)
<1> DEFINE n == LogicalBlocks(g)
<1>1. /\ GroupInv(g) /\ ManagerInv /\ live[g] \subseteq Seqs /\ Window = 0
      /\ live[g] # {} /\ ended[g] = 0 /\ Cardinality(live[g]) = 1
      /\ \A s \in live[g] : table[s] = <<>>
      /\ tokens[g] \in Nat /\ tokens[g] >= 1
  BY GroupFacts DEF GroupInv, NoWindow
<1>2. n \in Nat \ {0} /\ n = BlocksFor(tokens[g])
  BY <1>1, BlocksForStep DEF LogicalBlocks
<1>3. Allocatable(live[g], n, NumSeqs(g))
  BY <1>1, <1>2 DEF Allocatable, NumSeqs
<1>4. /\ ManagerInv' /\ raised' = raised
      /\ \A s \in live[g] : /\ table'[s] \in Seq(GpuBlocks) /\ Len(table'[s]) = n
                            /\ Range(table'[s]) \subseteq FreeGpu
      /\ \A s \in Seqs \ live[g] : table'[s] = table[s]
  BY <1>1, <1>3, AllocateExact
<1>5. /\ GroupsTypeOK(Phases)' /\ phase'[g] = "executing"
      /\ tokens' = tokens /\ live' = live /\ ended' = ended /\ kind' = kind
      /\ \A h \in Groups \ {g} : phase'[h] = phase[h]
  BY SetPhaseFacts DEF Phases
<1>6. Concerns(g)
  BY <1>1, <1>4, <1>5, FreePools DEF Concerns, BaseInv
<1>7. GroupInv(g)'
  <2>1. BlocksFor(tokens[g])' = n
    BY <1>2, <1>5 DEF BlocksFor
  <2> HIDE DEF n
  <2> QED
    BY <1>1, <1>4, <1>5, <2>1 DEF GroupInv
<1>8. BaseInv'
  BY <1>4, <1>6, <1>7, ConcernsKeepsBase
<1>9. \A h \in Groups \ {g} : Takes(h)' = Takes(h) /\ Wants(h)' = Wants(h)
  BY <1>6, ConcernsKeepsOthers
<1>10. Takes(g) = n /\ Takes(g)' = Cardinality(live[g])
  BY <1>5 DEF Takes
<1>11. Cardinality(FreeGpu') >= Cardinality(FreeGpu) - n
  <2>1. PICK s : live[g] = {s}
    BY <1>1, GroupFacts, FS_Singleton
  <2> DEFINE t == table'[s]
             R == Range(t)
             F == FreeGpu
             N == FreeGpu'
  <2>2. /\ t \in Seq(GpuBlocks) /\ Len(t) = n /\ R \subseteq F /\ s \in Seqs
        /\ \A q \in Seqs \ {s} : table'[q] = table[q]
    BY <1>1, <1>4, <2>1
  <2>3. IsFiniteSet(R) /\ Cardinality(R) <= n
    <3>1. DOMAIN t = 1 .. n
      BY <2>2, LenProperties
    <3>2. t \in Surjection(1 .. n, R)
      BY <2>2, <3>1, LenProperties, Fun_RangeProperties DEF Surjection, Range
    <3>3. IsFiniteSet(1 .. n) /\ Cardinality(1 .. n) = n
      BY <1>2, FS_Interval
    <3> HIDE DEF t, n, R
    <3> QED
      BY <3>2, <3>3, FS_Surjection
  <2>4. F \ R \subseteq N
    <3>1. /\ \A b \in Blocks : b \in free <=> HoldersIn(table, b) = {}
          /\ \A b \in Blocks : b \in free' <=> HoldersIn(table', b) = {}
      BY <1>1, <1>4, HoldersAreTables DEF ManagerInv, PoolExact, FreeListExact
    <3>2. ASSUME NEW b \in F \ R PROVE HoldersIn(table', b) = {}
      <4>1. HoldersIn(table, b) = {}
        BY <3>1 DEF FreeGpu, Blocks
      <4> QED
        BY <2>2, <4>1 DEF HoldersIn
    <3> QED
      BY <3>1, <3>2 DEF FreeGpu, Blocks
  <2>5. IsFiniteSet(F) /\ IsFiniteSet(N)
    <3>1. F \in SUBSET GpuBlocks /\ N \in SUBSET GpuBlocks
      BY DEF FreeGpu
    <3> QED
      BY <3>1, DevicesAssumption, FS_Subset
  <2> HIDE DEF t, R, F, N, n
  <2>6. /\ Cardinality(F \ R) = Cardinality(F) - Cardinality(F \cap R)
        /\ F \cap R = R
    BY <2>2, <2>5, FS_Difference
  <2>7. Cardinality(F \ R) <= Cardinality(N)
    BY <2>4, <2>5, FS_Subset
  <2>8. Cardinality(R) \in Nat /\ Cardinality(F) \in Nat /\ Cardinality(N) \in Nat /\ n \in Nat
    BY <1>2, <2>3, <2>5, FS_CardinalityType
  <2>9. Cardinality(N) >= Cardinality(F) - n
    BY <2>3, <2>6, <2>7, <2>8
  <2> QED
    BY <2>9 DEF F, N
<1> QED
  BY <1>4, <1>8, <1>9, <1>10, <1>11

\* A group is appended to: its sequences wait for their slots.
LEMMA StartAppendKeepsBase ==
    ASSUME NoWindow, BaseInv, NEW g \in Groups, phase[g] \in {"ready", "returned"},
           In("appending") = {}, SetPhase(g, "appending"), pending' = live[g],
           UNCHANGED <<table, ref, free, left>>
    PROVE  /\ BaseInv' /\ FreeGpu' = FreeGpu
           /\ \A h \in Groups \ {g} : Takes(h)' = Takes(h) /\ Wants(h)' = Wants(h)
           /\ Takes(g) = Cardinality(live[g]) /\ Takes(g)' = Cardinality(live[g])
<1>1. GroupInv(g) /\ ManagerInv /\ live[g] \subseteq Seqs
  BY GroupFacts
<1>2. ManagerInv'
  BY <1>1 DEF ManagerInv, PoolExact, RefCountsExact, FreeListExact, Holders
<1>3. /\ GroupsTypeOK(Phases)' /\ phase'[g] = "appending"
      /\ tokens' = tokens /\ live' = live /\ ended' = ended /\ kind' = kind
      /\ \A h \in Groups \ {g} : phase'[h] = phase[h]
  BY SetPhaseFacts DEF Phases
<1>4. \A h \in Groups : phase[h] # "appending"
  BY DEF In
<1>5. Concerns(g)
  BY <1>1, <1>3, <1>4 DEF Concerns, BaseInv
<1>6. GroupInv(g)'
  BY <1>1, <1>3 DEF GroupInv, BlocksFor
<1>7. BaseInv'
  BY <1>2, <1>5, <1>6, ConcernsKeepsBase
<1>8. \A h \in Groups \ {g} : Takes(h)' = Takes(h) /\ Wants(h)' = Wants(h)
  BY <1>5, ConcernsKeepsOthers
<1>9. Takes(g) = Cardinality(live[g]) /\ Takes(g)' = Cardinality(live[g])
  BY <1>3 DEF Takes
<1> QED
  BY <1>7, <1>8, <1>9 DEF FreeGpu

\* A sequence that waits for its slot can be appended to.
LEMMA AppendableFacts ==
    ASSUME NoWindow, BaseInv, NEW g \in In("appending"), NEW s \in pending,
           Cardinality(pending) <= Cardinality(FreeGpu)
    PROVE  Appendable(s, LogicalBlocks(g))
<1> DEFINE n == LogicalBlocks(g)
<1>1. g \in Groups /\ phase[g] = "appending"
  BY DEF In
<1>2. /\ GroupInv(g) /\ pending \subseteq live[g] /\ pending \in SUBSET Seqs
      /\ s \in live[g] /\ s \in Seqs /\ tokens[g] \in Nat /\ tokens[g] >= 1
      /\ Window = 0 /\ ManagerInv
  BY <1>1, GroupFacts DEF GroupInv, NoWindow
<1>3. n \in Nat \ {0} /\ n = BlocksFor(tokens[g])
  BY <1>2, BlocksForStep DEF LogicalBlocks
<1>4. BlocksFor(tokens[g] - 1) \in {n - 1, n}
  <2>1. tokens[g] - 1 \in Nat /\ (tokens[g] - 1) + 1 = tokens[g]
    BY <1>2
  <2> QED
    BY <1>3, <2>1, BlocksForStep
<1>5. Cardinality(pending) \in Nat /\ Cardinality(pending) >= 1
  <2>1. IsFiniteSet(pending)
    BY <1>2, DevicesAssumption, FS_Subset
  <2> QED
    BY <2>1, FS_CardinalityType, FS_EmptySet
<1>6. FreeGpu # {}
  BY <1>2, <1>5, FreePools, FS_EmptySet
<1>7. table[s] \in Seq(GpuBlocks) /\ Len(table[s]) \in {n - 1, n}
  <2> HIDE DEF n
  <2> QED
    BY <1>1, <1>2, <1>3, <1>4 DEF GroupInv
<1> QED
  BY <1>2, <1>3, <1>6, <1>7 DEF Appendable

\* A sequence gets the slot of its newest token.
LEMMA AppendSlotKeepsBase ==
    ASSUME NoWindow, BaseInv, NEW g \in In("appending"), NEW s \in pending,
           \A h, k \in In("appending") : h = k,
           Cardinality(pending) <= Cardinality(FreeGpu),
           AppendSlots(s, LogicalBlocks(g)),
           IF pending = {s} THEN SetPhase(g, "executing") ELSE UNCHANGED groupVars,
           pending' = pending \ {s}, left' = left
    PROVE  /\ BaseInv' /\ raised' = raised
           /\ \A h \in Groups : Takes(h)' = Takes(h)
           /\ table[s] \in Seq(GpuBlocks) /\ table'[s] \in Seq(GpuBlocks)
           /\ Cardinality(FreeGpu') >= Cardinality(FreeGpu) - 1
           /\ Cardinality(pending') = Cardinality(pending) - 1 /\ Cardinality(pending) \in Nat
<1> DEFINE n == LogicalBlocks(g)
<1>1. /\ g \in Groups /\ phase[g] = "appending"
      /\ \A h \in Groups \ {g} : phase[h] # "appending"
  BY DEF In
<1>2. /\ GroupInv(g) /\ live[g] \in SUBSET Seqs /\ pending \subseteq live[g]
      /\ s \in live[g] /\ s \in Seqs /\ tokens[g] \in Nat /\ tokens[g] >= 1
      /\ Window = 0 /\ ManagerInv /\ live[g] # {}
  BY <1>1, GroupFacts DEF GroupInv, NoWindow
<1>3. n \in Nat \ {0} /\ n = BlocksFor(tokens[g])
  BY <1>2, BlocksForStep DEF LogicalBlocks
<1>4. /\ Cardinality(pending) \in Nat
      /\ Cardinality(pending') = Cardinality(pending) - 1
  <2>1. IsFiniteSet(pending)
    BY <1>2, DevicesAssumption, FS_Subset
  <2> QED
    BY <2>1, FS_CardinalityType, FS_EmptySet, FS_RemoveElement
<1>5. Appendable(s, n) /\ table[s] \in Seq(GpuBlocks)
  <2>1. Appendable(s, n)
    BY AppendableFacts
  <2> QED
    BY <2>1 DEF Appendable
<1>6. /\ ManagerInv' /\ raised' = raised
      /\ table'[s] \in Seq(GpuBlocks) /\ Len(table'[s]) = n
      /\ Range(table'[s]) \subseteq Range(table[s]) \cup FreeGpu
      /\ \A q \in Seqs \ {s} : table'[q] = table[q]
      /\ Cardinality(FreeGpu') >= Cardinality(FreeGpu) - 1
  BY <1>2, <1>5, AppendSlotsExact
<1>7. /\ GroupsTypeOK(Phases)' /\ phase'[g] \in {"appending", "executing"}
      /\ pending = {s} <=> phase'[g] = "executing"
      /\ tokens' = tokens /\ live' = live /\ ended' = ended /\ kind' = kind
      /\ \A h \in Groups \ {g} : phase'[h] = phase[h]
  <2>1. CASE pending = {s}
    BY <1>1, <2>1, SetPhaseFacts DEF Phases
  <2>2. CASE pending # {s}
    BY <1>1, <2>2 DEF groupVars, BaseInv, GroupsTypeOK
  <2> QED
    BY <2>1, <2>2
<1>8. Concerns(g)
  <2>1. \A q \in live[g] : \A b \in Range(table'[q]) :
           b \in free \/ \E p \in live[g] : b \in Range(table[p])
    BY <1>2, <1>6, FreePools
  <2> QED
    BY <1>1, <1>2, <1>6, <1>7, <2>1 DEF Concerns, BaseInv
<1>9. GroupInv(g)'
  <2>1. BlocksFor(tokens[g])' = n /\ BlocksFor(tokens[g] - 1)' = BlocksFor(tokens[g] - 1)
    BY <1>3, <1>7 DEF BlocksFor
  <2>2. /\ \A q \in live[g] : table[q] \in Seq(GpuBlocks)
        /\ \A q \in live[g] : Len(table[q]) \in {BlocksFor(tokens[g] - 1), n}
        /\ \A q \in live[g] \ pending : Len(table[q]) = n
    BY <1>1, <1>2, <1>3 DEF GroupInv
  <2> HIDE DEF n
  <2>3. /\ \A q \in live[g] : table'[q] \in Seq(GpuBlocks)
        /\ \A q \in live[g] : Len(table'[q]) \in {BlocksFor(tokens[g] - 1), n}
        /\ \A q \in live[g] : q \notin pending' => Len(table'[q]) = n
    BY <1>2, <1>6, <2>2
  <2>4. phase'[g] = "executing" => pending' = {}
    BY <1>7
  <2>5. /\ Cardinality(live[g]) <= kind[g].bestOf /\ left[g] <= tokens[g]
        /\ left[g] > 0 => Cardinality(live[g]) = 1 /\ ended[g] = 0
    BY <1>2 DEF GroupInv
  <2> QED
    BY <1>2, <1>7, <2>1, <2>3, <2>4, <2>5 DEF GroupInv
<1>10. BaseInv'
  BY <1>1, <1>6, <1>8, <1>9, ConcernsKeepsBase
<1>11. \A h \in Groups : Takes(h)' = Takes(h)
  <2>1. \A h \in Groups \ {g} : Takes(h)' = Takes(h)
    BY <1>1, <1>8, ConcernsKeepsOthers
  <2>2. Takes(g)' = Cardinality(live[g]) /\ Takes(g) = Cardinality(live[g])
    <3>1. phase'[g] # "waiting" /\ phase'[g] # "swapped" /\ live'[g] = live[g]
      BY <1>7
    <3> QED
      BY <1>1, <3>1 DEF Takes
  <2> QED
    BY <2>1, <2>2
<1> QED
  BY <1>4, <1>5, <1>6, <1>10, <1>11

-----------------------------------------------------------------------------
\* A request arrives: one fresh sequence, which has no table.
LEMMA ArriveKeepsBase ==
    ASSUME NoWindow, BaseInv, NEW g \in Groups, Arrive(g),
           left' = [left EXCEPT ![g] = tokens'[g]], pending' = pending
    PROVE  /\ BaseInv' /\ Concerns(g) /\ raised' = raised /\ phase[g] = "idle"
           /\ phase' = [phase EXCEPT ![g] = "waiting"]
<1>1. PICK s \in Fresh, n \in PromptLens, k \in Kinds :
         /\ live' = [live EXCEPT ![g] = {s}]
         /\ tokens' = [tokens EXCEPT ![g] = n]
         /\ kind' = [kind EXCEPT ![g] = k]
  BY DEF Arrive
<1>2. /\ phase' = [phase EXCEPT ![g] = "waiting"] /\ ended' = ended
      /\ table' = table /\ ref' = ref /\ free' = free /\ raised' = raised
      /\ phase[g] = "idle"
  BY DEF Arrive, blockVars
<1>3. s \in Seqs /\ n \in 1 .. MaxLen /\ table[s] = <<>>
  BY GroupsAssumption DEF BaseInv, Fresh
<1>4. /\ phase'[g] = "waiting" /\ live'[g] = {s} /\ tokens'[g] = n /\ kind'[g] = k
      /\ ended'[g] = 0 /\ left'[g] = n /\ live[g] = {}
  BY <1>1, <1>2, GroupFacts DEF BaseInv, GroupsTypeOK, GroupInv
<1>5. GroupsTypeOK(Phases)'
  BY <1>1, <1>2, <1>3, GroupsAssumption DEF BaseInv, GroupsTypeOK, Phases
<1>6. Concerns(g)
  <2>1. \A q \in live'[g] : Range(table'[q]) = {}
    BY <1>2, <1>3, <1>4 DEF Range
  <2>2. \A h \in Groups \ {g} :
          /\ phase'[h] = phase[h] /\ tokens'[h] = tokens[h] /\ live'[h] = live[h]
          /\ ended'[h] = ended[h] /\ kind'[h] = kind[h] /\ left'[h] = left[h]
    BY <1>1, <1>2 DEF BaseInv, GroupsTypeOK
  <2>3. left' \in [Groups -> 0 .. MaxLen]
    BY <1>3, <1>4 DEF BaseInv
  <2> QED
    BY <1>2, <1>4, <1>5, <2>1, <2>2, <2>3 DEF Concerns, BaseInv
<1>7. GroupInv(g)'
  <2>1. k.bestOf \in Nat /\ k.bestOf >= 1
    BY GroupsAssumption
  <2>2. Cardinality(live'[g]) = 1
    BY <1>4, FS_Singleton
  <2> QED
    BY <1>2, <1>3, <1>4, <2>1, <2>2 DEF GroupInv
<1>8. ManagerInv'
  BY <1>2 DEF BaseInv, ManagerInv, PoolExact, RefCountsExact, FreeListExact, Holders
<1> QED
  BY <1>2, <1>6, <1>7, <1>8, ConcernsKeepsBase

\* A group that goes leaves no table behind.
LEMMA LeaveKeepsBase ==
    ASSUME NoWindow, BaseInv, NEW g \in Groups, Leave(g),
           left' = [left EXCEPT ![g] = 0], pending' = pending
    PROVE  /\ BaseInv' /\ Concerns(g) /\ raised' = raised
           /\ phase' = [phase EXCEPT ![g] = "idle"]
<1>1. /\ ManagerInv' /\ raised' = raised
      /\ \A s \in Seqs : table'[s] = IF s \in live[g] THEN <<>> ELSE table[s]
  BY GroupFacts, FreeExact DEF Leave, NoWindow
<1>2. live[g] \subseteq Seqs
  BY GroupFacts
<1>3. AnyKind \in Kinds
  BY GroupsAssumption DEF AnyKind
<1>4. GroupsTypeOK(Phases)' /\ left' \in [Groups -> 0 .. MaxLen]
  BY <1>3, GroupsAssumption DEF Leave, Retire, BaseInv, GroupsTypeOK, Phases
<1>5. /\ phase'[g] = "idle" /\ live'[g] = {} /\ ended'[g] = 0 /\ kind'[g] = AnyKind
      /\ tokens'[g] = 0 /\ left'[g] = 0
      /\ \A h \in Groups \ {g} :
          /\ phase'[h] = phase[h] /\ tokens'[h] = tokens[h] /\ live'[h] = live[h]
          /\ ended'[h] = ended[h] /\ kind'[h] = kind[h] /\ left'[h] = left[h]
  BY DEF Leave, Retire, BaseInv, GroupsTypeOK
<1>6. Concerns(g)
  BY <1>1, <1>2, <1>4, <1>5 DEF Concerns, BaseInv
<1>7. GroupInv(g)'
  <2>1. AnyKind.bestOf \in Nat
    BY <1>3, GroupsAssumption
  <2>2. Cardinality(live'[g]) = 0
    BY <1>5, FS_EmptySet
  <2> QED
    BY <1>5, <2>1, <2>2 DEF GroupInv
<1>8. phase' = [phase EXCEPT ![g] = "idle"]
  BY DEF Leave, Retire
<1> QED
  BY <1>1, <1>6, <1>7, <1>8, ConcernsKeepsBase

\* A prompt that is not computed to its end waits for its next chunk.
LEMMA ChunkKeepsBase ==
    ASSUME NoWindow, BaseInv, NEW g \in Groups, phase[g] = "executing",
           left[g] > Chunk(g), Chunk(g) \in Nat, SetPhase(g, "ready"),
           left' = [left EXCEPT ![g] = IF left[g] > Chunk(g) THEN left[g] - Chunk(g) ELSE 0],
           UNCHANGED <<table, ref, free, pending>>
    PROVE  BaseInv' /\ Concerns(g)
<1>1. /\ GroupInv(g) /\ ManagerInv /\ live[g] \subseteq Seqs
      /\ left[g] \in Nat /\ left[g] <= MaxLen /\ MaxLen \in Nat /\ tokens[g] \in Nat
  BY GroupFacts
<1>2. ManagerInv'
  BY <1>1 DEF ManagerInv, PoolExact, RefCountsExact, FreeListExact, Holders
<1>3. /\ GroupsTypeOK(Phases)' /\ phase'[g] = "ready"
      /\ tokens' = tokens /\ live' = live /\ ended' = ended /\ kind' = kind
      /\ \A h \in Groups \ {g} : phase'[h] = phase[h]
  BY SetPhaseFacts DEF Phases
<1>4. /\ left' \in [Groups -> 0 .. MaxLen] /\ left'[g] <= left[g]
      /\ \A h \in Groups \ {g} : left'[h] = left[h]
  BY <1>1 DEF BaseInv
<1>5. Concerns(g)
  BY <1>1, <1>3, <1>4 DEF Concerns, BaseInv
<1>6. GroupInv(g)'
  <2>1. left'[g] <= tokens[g] /\ left[g] > 0
    BY <1>1, <1>4 DEF GroupInv
  <2> QED
    BY <1>1, <1>3, <2>1 DEF GroupInv, BlocksFor
<1> QED
  BY <1>2, <1>5, <1>6, ConcernsKeepsBase

\* The output processor: children get the tables of their parents, what stops
\* is freed, and no group has more sequences than it may.
LEMMA SampleKeepsBase ==
    ASSUME NoWindow, BaseInv, NEW g \in Groups, phase[g] = "executing",
           SampleAndStop(g, left[g] > 0), pending' = pending,
           left' = [left EXCEPT ![g] = 0]
    PROVE  /\ BaseInv' /\ Concerns(g) /\ raised' = raised
           /\ \A s \in live'[g] : \E p \in live[g] : table'[s] = table[p]
           /\ live'[g] # {} => tokens'[g] = tokens[g] + 1
           /\ phase' \in {[phase EXCEPT ![g] = p] : p \in {"idle", "ready"}}
<1> DEFINE first == left[g] > 0
<1>1. PICK children \in SUBSET Fresh, stopped \in SUBSET live[g] :
         /\ Sampled(g, first, children, stopped)
         /\ \E parentOf \in [children -> live[g]] : ForkAndFree(parentOf, stopped)
         /\ LET heirs == children \cup (live[g] \ stopped)
            IN  /\ live' = [live EXCEPT ![g] = heirs]
                /\ tokens' = [tokens EXCEPT ![g] = IF heirs = {} THEN 0 ELSE @ + 1]
                /\ phase' = [phase EXCEPT ![g] =
                      IF heirs = {} THEN "idle" ELSE "ready"]
                /\ kind' = [kind EXCEPT ![g] = IF heirs = {} THEN AnyKind ELSE @]
  BY DEF SampleAndStop
<1> DEFINE kept == live[g] \ stopped
           heirs == children \cup kept
<1>2. /\ GroupInv(g) /\ live[g] \subseteq Seqs /\ IsFiniteSet(live[g]) /\ live[g] # {}
      /\ Cardinality(live[g]) \in Nat /\ Cardinality(live[g]) <= kind[g].bestOf
      /\ tokens[g] \in Nat /\ tokens[g] <= MaxLen /\ MaxLen \in Nat /\ left[g] \in Nat
      /\ kind[g] \in Kinds /\ kind[g].bestOf \in Nat \ {0} /\ ended[g] \in Nat
      /\ first => Cardinality(live[g]) = 1
      /\ Window = 0 /\ ManagerInv
  BY GroupFacts DEF GroupInv, NoWindow
<1>3. /\ children \subseteq Seqs /\ IsFiniteSet(children) /\ IsFiniteSet(kept)
      /\ children \cap live[g] = {} /\ children \cap kept = {}
      /\ \A c \in children : table[c] = <<>>
      /\ IsFiniteSet(stopped)
  <2>1. children \subseteq Seqs /\ children \cap live[g] = {}
    BY <1>1 DEF Fresh
  <2>2. \A c \in children : table[c] = <<>>
    BY <1>1 DEF BaseInv
  <2> QED
    BY <1>2, <2>1, <2>2, DevicesAssumption, FS_Subset
<1>4. /\ IsFiniteSet(heirs)
      /\ Cardinality(heirs) = Cardinality(children) + Cardinality(kept)
      /\ Cardinality(children) \in Nat /\ Cardinality(kept) \in Nat
      /\ Cardinality(heirs) = 0 <=> heirs = {}
      /\ Cardinality(stopped) \in Nat /\ Cardinality(kept) <= Cardinality(live[g])
  BY <1>2, <1>3, DisjointUnion, FS_EmptySet, FS_CardinalityType, FS_Subset
<1>5. /\ tokens[g] >= MaxLen => heirs = {}
      /\ Cardinality(heirs) <= kind[g].bestOf
      /\ \E e \in Nat : /\ ended' = [ended EXCEPT ![g] = e]
                        /\ heirs = {} => e = 0
  <2> DEFINE extra == IF first THEN kind[g].bestOf - 1 ELSE 0
             e == IF Cardinality(heirs) = 0 THEN 0
                  ELSE IF kind[g].beam THEN ended[g]
                  ELSE ended[g] + extra - Cardinality(children) + Cardinality(stopped)
  <2>1. /\ IF kind[g].beam THEN Cardinality(heirs) <= kind[g].bestOf
                           ELSE Cardinality(children) <= extra
        /\ tokens[g] >= MaxLen => Cardinality(heirs) = 0
        /\ ended' = [ended EXCEPT ![g] = e]
    BY <1>1, <1>4 DEF Sampled
  <2>2. extra \in Nat /\ (first => extra = kind[g].bestOf - 1) /\ (~first => extra = 0)
    BY <1>2
  <2> HIDE DEF extra, heirs, kept, first
  <2>3. e \in Nat /\ (heirs = {} => e = 0)
    BY <1>2, <1>4, <2>1, <2>2
  <2>4. Cardinality(heirs) <= kind[g].bestOf
    BY <1>2, <1>4, <2>1, <2>2
  <2> HIDE DEF e
  <2> QED
    BY <1>4, <2>1, <2>3, <2>4
<1>6. PICK e \in Nat : ended' = [ended EXCEPT ![g] = e] /\ (heirs = {} => e = 0)
  BY <1>5
<1>7. PICK parentOf \in [children -> live[g]] : ForkAndFree(parentOf, stopped)
  BY <1>1
<1>8. /\ ManagerInv' /\ raised' = raised
      /\ \A c \in children : table'[c] = table[parentOf[c]] /\ parentOf[c] \in live[g]
      /\ \A s \in stopped : table'[s] = <<>>
      /\ \A s \in Seqs \ (children \cup stopped) : table'[s] = table[s]
  <2>1. Forkable(parentOf, stopped)
    BY <1>2, <1>3, <1>7 DEF Forkable
  <2>2. /\ ManagerInv' /\ raised' = raised
        /\ \A s \in Seqs : table'[s] = CASE s \in children -> table[parentOf[s]]
                                         [] s \in stopped -> <<>>
                                         [] OTHER -> table[s]
    BY <1>2, <1>7, <2>1, ForkAndFreeExact
  <2> QED
    BY <1>2, <1>3, <1>7, <2>2
<1> HIDE DEF heirs, first
<1>9. /\ live' = [live EXCEPT ![g] = heirs]
      /\ tokens' = [tokens EXCEPT ![g] = IF heirs = {} THEN 0 ELSE @ + 1]
      /\ phase' = [phase EXCEPT ![g] = IF heirs = {} THEN "idle" ELSE "ready"]
      /\ kind' = [kind EXCEPT ![g] = IF heirs = {} THEN AnyKind ELSE @]
  BY <1>1 DEF heirs
<1>10. heirs \subseteq Seqs /\ heirs \subseteq live[g] \cup Fresh
       /\ live[g] \ heirs = stopped
  BY <1>1, <1>2, <1>3 DEF heirs
<1>11. /\ live'[g] = heirs /\ ended'[g] = e /\ left'[g] = 0
       /\ tokens'[g] = (IF heirs = {} THEN 0 ELSE tokens[g] + 1)
       /\ phase'[g] = (IF heirs = {} THEN "idle" ELSE "ready")
       /\ kind'[g] = (IF heirs = {} THEN AnyKind ELSE kind[g])
       /\ \A h \in Groups \ {g} :
          /\ phase'[h] = phase[h] /\ tokens'[h] = tokens[h] /\ live'[h] = live[h]
          /\ ended'[h] = ended[h] /\ kind'[h] = kind[h] /\ left'[h] = left[h]
  BY <1>6, <1>9 DEF BaseInv, GroupsTypeOK
<1>12. GroupsTypeOK(Phases)' /\ left' \in [Groups -> 0 .. MaxLen]
  <2>1. (IF heirs = {} THEN 0 ELSE tokens[g] + 1) \in 0 .. MaxLen
    BY <1>2, <1>5
  <2>2. (IF heirs = {} THEN AnyKind ELSE kind[g]) \in Kinds
    BY <1>2 DEF AnyKind
  <2>3. (IF heirs = {} THEN "idle" ELSE "ready") \in Phases
    BY DEF Phases
  <2>4. 0 \in 0 .. MaxLen
    BY <1>2
  <2> QED
    BY <1>6, <1>9, <1>10, <2>1, <2>2, <2>3, <2>4 DEF BaseInv, GroupsTypeOK
<1>13. \A s \in heirs : \E p \in live[g] : table'[s] = table[p]
  <2>1. \A s \in kept : s \in Seqs \ (children \cup stopped) /\ s \in live[g]
    BY <1>2, <1>3
  <2> QED
    BY <1>8, <2>1 DEF heirs
<1>14. Concerns(g)
  <2>1. \A s \in heirs : \A b \in Range(table'[s]) :
           \E p \in live[g] : b \in Range(table[p])
    BY <1>13
  <2>2. \A s \in Seqs \ (live[g] \cup heirs) : table'[s] = table[s]
    BY <1>1, <1>8 DEF heirs
  <2>3. \A s \in live[g] \ heirs : table'[s] = <<>>
    BY <1>8, <1>10
  <2> QED
    BY <1>10, <1>11, <1>12, <2>1, <2>2, <2>3 DEF Concerns, BaseInv
<1>15. GroupInv(g)'
  <2>1. CASE heirs = {}
    <3>1. AnyKind \in Kinds
      BY GroupsAssumption DEF AnyKind
    <3>2. AnyKind.bestOf \in Nat /\ Cardinality(heirs) = 0
      BY <1>4, <2>1, <3>1, GroupsAssumption DEF heirs
    <3> QED
      BY <1>6, <1>11, <2>1, <3>2 DEF GroupInv
  <2>2. CASE heirs # {}
    <3>1. \A s \in live[g] : /\ Len(table[s]) = BlocksFor(tokens[g])
                            /\ table[s] \in Seq(GpuBlocks)
      BY <1>2 DEF GroupInv
    <3>2. \A s \in heirs : /\ Len(table'[s]) = BlocksFor(tokens[g])
                            /\ table'[s] \in Seq(GpuBlocks)
      BY <1>13, <3>1
    <3>3. tokens'[g] = tokens[g] + 1 /\ tokens'[g] - 1 = tokens[g] /\ tokens'[g] >= 1
      BY <1>2, <1>11, <2>2
    <3>4. BlocksFor(tokens[g] - 1)' = BlocksFor(tokens[g])
      BY <3>3 DEF BlocksFor
    <3>5. Cardinality(live'[g]) <= kind'[g].bestOf
      BY <1>5, <1>11, <2>2 DEF heirs
    <3>6. phase'[g] = "ready" /\ live'[g] = heirs /\ left'[g] = 0
      BY <1>11, <2>2
    <3>7. left'[g] <= tokens'[g] /\ ~(left'[g] > 0)
      BY <1>2, <3>3, <3>6
    <3> QED
      BY <2>2, <3>2, <3>3, <3>4, <3>5, <3>6, <3>7 DEF GroupInv
  <2> QED
    BY <2>1, <2>2
<1> QED
  BY <1>8, <1>9, <1>11, <1>13, <1>14, <1>15, ConcernsKeepsBase

-----------------------------------------------------------------------------
(* The steps of the tick.                                                     *)
LEMMA NobodyPinned == Range(<<>>) = {}
BY DEF Range

\* Outside selection and execution nothing is pinned, charged or appended to.
LEMMA QuietTick ==
    ASSUME stage' \in {"between", "worker", "model", "process"},
           pinned' = <<>>, need' = 0, budget' = NoCharge, pending' = {},
           In("appending")' = {}, In("returned")' = {},
           stage' = "between" => In("executing")' = {},
           uncharged' \subseteq In("executing")'
    PROVE  TickInv'
<1>1. Range(pinned') = {} /\ DOMAIN pinned' = {}
  BY NobodyPinned
<1>2. PinnedInv'
  BY <1>1 DEF PinnedInv, IsInjective
<1>3. PhasesInv'
  BY <1>1 DEF PhasesInv
<1>4. StageInv'
  BY DEF StageInv
<1>5. RoomInv'
  BY DEF RoomInv
<1>6. ExecuteInv'
  BY DEF ExecuteInv
<1> QED
  BY <1>2, <1>3, <1>4, <1>5, <1>6 DEF TickInv

\* And so it is found there.
LEMMA QuietFacts ==
    ASSUME CoreInv, raised = "no", stage \in {"between", "worker", "model", "process"}
    PROVE  /\ pinned = <<>> /\ need = 0 /\ budget = NoCharge /\ pending = {}
           /\ In("appending") = {} /\ In("returned") = {}
           /\ uncharged \subseteq In("executing")
           /\ stage = "between" => uncharged = {} /\ In("executing") = {}
<1>1. /\ pinned = <<>> /\ need = 0 /\ budget = NoCharge
      /\ stage = "between" => uncharged = {}
  BY DEF CoreInv, TickInv, StageInv
<1>2. Range(pinned) = {}
  BY <1>1, NobodyPinned
<1> QED
  BY <1>1, <1>2 DEF CoreInv, TickInv, PhasesInv

LEMMA NoneRaised ==
    ASSUME raised' = "no"
    PROVE  Checks'
BY DEF Checks

LEMMA AddRequestStep ==
    ASSUME NoWindow, CoreInv, NEW g \in Groups, AddRequest(g)
    PROVE  CoreInv'
<1>1. /\ raised = "no" /\ stage = "between" /\ Arrive(g) /\ BaseInv /\ TickTypes
      /\ left' = [left EXCEPT ![g] = tokens'[g]]
      /\ UNCHANGED <<stage, pinned, rest, take, budget, need, uncharged, pending>>
  BY DEF AddRequest, CoreInv, tickVars
<1>2. /\ BaseInv' /\ raised' = raised /\ phase[g] = "idle"
      /\ phase' = [phase EXCEPT ![g] = "waiting"]
  BY <1>1, ArriveKeepsBase
<1>3. TickTypes'
  BY <1>1, <1>2 DEF TickTypes
<1>4. \A q \in {"appending", "returned", "executing"} : In(q)' = In(q)
  BY <1>1, <1>2 DEF In, BaseInv, GroupsTypeOK
<1>5. TickInv'
  BY <1>1, <1>4, QuietFacts, QuietTick
<1> QED
  BY <1>1, <1>2, <1>3, <1>5, NoneRaised DEF CoreInv

LEMMA AbortRequestStep ==
    ASSUME NoWindow, CoreInv, NEW g \in Groups, AbortRequest(g)
    PROVE  CoreInv'
<1>1. /\ raised = "no" /\ stage = "between" /\ Leave(g) /\ BaseInv /\ TickTypes
      /\ left' = [left EXCEPT ![g] = 0]
      /\ UNCHANGED <<stage, pinned, rest, take, budget, need, uncharged, pending>>
  BY DEF AbortRequest, CoreInv, tickVars
<1>2. /\ BaseInv' /\ raised' = raised
      /\ phase' = [phase EXCEPT ![g] = "idle"]
  BY <1>1, LeaveKeepsBase
<1>3. TickTypes'
  BY <1>1, <1>2 DEF TickTypes
<1>4. \A q \in {"appending", "returned", "executing"} : In(q)' = In(q) \ {g}
  BY <1>1, <1>2 DEF In, BaseInv, GroupsTypeOK
<1>5. TickInv'
  BY <1>1, <1>4, QuietFacts, QuietTick
<1> QED
  BY <1>1, <1>2, <1>3, <1>5, NoneRaised DEF CoreInv

LEMMA ProcessOutputStep ==
    ASSUME NoWindow, CoreInv, NEW g \in Groups, ProcessOutput(g)
    PROVE  CoreInv'
<1>1. /\ raised = "no" /\ stage = "process" /\ phase[g] = "executing" /\ BaseInv /\ TickTypes
      /\ IF left[g] > Chunk(g)
         THEN SetPhase(g, "ready") /\ UNCHANGED <<blockVars, kv>>
         ELSE SampleAndStop(g, left[g] > 0)
      /\ left' = [left EXCEPT ![g] = IF left[g] > Chunk(g) THEN left[g] - Chunk(g) ELSE 0]
      /\ take' = [take EXCEPT ![g] = 0] /\ uncharged' = uncharged \ {g}
      /\ stage' = (IF In("executing") = {g} THEN "between" ELSE "process")
      /\ UNCHANGED <<pinned, rest, budget, need, pending>>
  BY DEF ProcessOutput, CoreInv
<1>2. Chunk(g) \in Nat
  BY <1>1 DEF Chunk, TickTypes
<1>3. /\ BaseInv' /\ raised' = raised
      /\ phase' \in {[phase EXCEPT ![g] = p] : p \in {"idle", "ready"}}
  <2>1. CASE left[g] > Chunk(g)
    <3>1. SetPhase(g, "ready") /\ UNCHANGED <<table, ref, free, raised>>
      BY <1>1, <2>1 DEF blockVars
    <3>2. BaseInv'
      BY <1>1, <1>2, <2>1, <3>1, ChunkKeepsBase
    <3> QED
      BY <3>1, <3>2 DEF SetPhase
  <2>2. CASE ~(left[g] > Chunk(g))
    <3>1. SampleAndStop(g, left[g] > 0) /\ left' = [left EXCEPT ![g] = 0]
      BY <1>1, <2>2
    <3> QED
      BY <1>1, <3>1, SampleKeepsBase
  <2> QED
    BY <2>1, <2>2
<1>4. TickTypes'
  BY <1>1, <1>3 DEF TickTypes, Steps
<1>5. \A q \in {"appending", "returned", "executing"} : In(q)' = In(q) \ {g}
  BY <1>1, <1>3 DEF In, BaseInv, GroupsTypeOK
<1>6. TickInv'
  <2>1. /\ uncharged \subseteq In("executing") /\ pinned = <<>> /\ need = 0
        /\ budget = NoCharge /\ pending = {} /\ In("appending") = {} /\ In("returned") = {}
    BY <1>1, QuietFacts
  <2>2. stage' \in {"between", "process"} /\ (stage' = "between" => In("executing") = {g})
    BY <1>1
  <2> QED
    BY <1>1, <1>5, <2>1, <2>2, QuietTick
<1> QED
  BY <1>1, <1>3, <1>4, <1>6, NoneRaised DEF CoreInv

LEMMA EndExecuteStep ==
    ASSUME NoWindow, CoreInv, EndExecute
    PROVE  CoreInv'
<1>1. /\ raised = "no" /\ stage = "execute" /\ pending = {} /\ pinned = <<>>
      /\ stage' = "worker" /\ need' = 0 /\ budget' = NoCharge
      /\ UNCHANGED <<table, ref, free, raised, groupVars, left, pinned, rest, take,
                     uncharged, pending>>
      /\ BaseInv /\ TickTypes /\ PhasesInv
  BY DEF EndExecute, CoreInv, TickInv, blockVars
<1>2. BaseInv' /\ phase' = phase
  BY <1>1, SameKeepsBase
<1>3. TickTypes'
  BY <1>1, BudgetAssumption DEF TickTypes, Steps, NoCharge
<1>4. /\ In("appending") = {} /\ In("returned") = {} /\ uncharged \subseteq In("executing")
      /\ \A q : In(q)' = In(q)
  BY <1>1, <1>2, NobodyPinned DEF PhasesInv, In
<1>5. TickInv'
  BY <1>1, <1>4, QuietTick
<1> QED
  BY <1>1, <1>2, <1>3, <1>5, NoneRaised DEF CoreInv

LEMMA CacheSwapStep ==
    ASSUME NoWindow, CoreInv, CacheSwap
    PROVE  CoreInv'
<1>1. /\ raised = "no" /\ stage = "worker" /\ stage' = "model" /\ BaseInv /\ TickTypes
      /\ UNCHANGED <<table, ref, free, raised, groupVars, left, pinned, rest, take, budget,
                     need, uncharged, pending>>
  BY DEF CacheSwap, CoreInv, blockVars
<1>2. BaseInv' /\ phase' = phase
  BY <1>1, SameKeepsBase
<1>3. TickTypes'
  BY <1>1 DEF TickTypes, Steps
<1>4. \A q : In(q)' = In(q)
  BY <1>2 DEF In
<1>5. TickInv'
  BY <1>1, <1>4, QuietFacts, QuietTick
<1> QED
  BY <1>1, <1>2, <1>3, <1>5, NoneRaised DEF CoreInv

LEMMA ModelStep ==
    ASSUME NoWindow, CoreInv, Model
    PROVE  CoreInv'
<1>1. /\ stage = "model" /\ rest' = <<>> /\ BaseInv /\ TickTypes
      /\ stage' = (IF In("executing") = {} THEN "between" ELSE "process")
      /\ UNCHANGED <<table, ref, free, raised, groupVars, left, pinned, take, budget,
                     need, uncharged, pending>>
  BY DEF Model, CoreInv, blockVars
<1>2. raised = "no"
  BY <1>1 DEF CoreInv, Checks
<1>3. BaseInv' /\ phase' = phase
  BY <1>1, SameKeepsBase
<1>4. TickTypes'
  BY <1>1, EmptySeq DEF TickTypes, Steps
<1>5. \A q : In(q)' = In(q)
  BY <1>3 DEF In
<1>6. TickInv'
  <2>1. stage' \in {"between", "process"} /\ (stage' = "between" => In("executing") = {})
    BY <1>1
  <2> QED
    BY <1>1, <1>2, <1>5, <2>1, QuietFacts, QuietTick
<1> QED
  BY <1>1, <1>2, <1>3, <1>4, <1>6, NoneRaised DEF CoreInv

\* An exception leaves everything as it is.
LEMMA RaiseStep ==
    ASSUME CoreInv, raised = "no", stage \notin {"select", "model"}, NEW why,
           Raise(why),
           why \in {"AssertionError", "NoSwapSpace", "NotOneToken", "UnboundLocalError"},
           why = "AssertionError" /\ LargeEnough => Cardinality(Lent) > Watermark + 2,
           why = "UnboundLocalError" => ~NoneTooWide,
           UNCHANGED <<groupVars, left, pending, uncharged, stage>>, TickTypes'
    PROVE  CoreInv'
<1>1. UNCHANGED <<table, ref, free, groupVars, left, pending>> /\ raised' = why
  BY DEF Raise
<1>2. BaseInv' /\ live' = live
  BY <1>1, SameKeepsBase DEF CoreInv
<1>3. Lent' = Lent
  BY <1>2 DEF Lent
<1>4. Checks'
  BY <1>1, <1>3 DEF Checks
<1> QED
  BY <1>1, <1>2, <1>4 DEF CoreInv

LEMMA BeginTickStep ==
    ASSUME NoWindow, CoreInv, BeginTick
    PROVE  CoreInv'
<1>1. /\ raised = "no" /\ stage = "between" /\ stage' = "select" /\ BaseInv /\ TickTypes
      /\ UNCHANGED <<table, ref, free, raised, groupVars, left, pinned, rest, take, budget,
                     need, uncharged, pending>>
  BY DEF BeginTick, CoreInv, blockVars
<1>2. BaseInv' /\ phase' = phase /\ Taking' = Taking /\ Wanting' = Wanting
  BY <1>1, SameKeepsBase
<1>3. TickTypes'
  BY <1>1 DEF TickTypes, Steps
<1>4. /\ pinned' = <<>> /\ need' = 0 /\ budget' = NoCharge /\ pending' = {}
      /\ In("appending") = {} /\ In("returned") = {} /\ uncharged' = {}
      /\ In("executing") = {} /\ \A q : In(q)' = In(q)
  BY <1>1, <1>2, QuietFacts DEF In
<1>5. Range(pinned') = {} /\ DOMAIN pinned' = {} /\ Charged' = {}
  BY <1>4, NobodyPinned DEF Charged
<1>6. PinnedInv'
  BY <1>1, <1>5 DEF PinnedInv, IsInjective
<1>7. PhasesInv'
  BY <1>1, <1>4, <1>5 DEF PhasesInv
<1>8. StageInv'
  BY <1>1, <1>4 DEF StageInv
<1>9. RoomInv'
  <2>1. Taking \in [Groups -> Nat] /\ Wanting \in [Groups -> Nat]
    BY <1>1, TakingTypes
  <2>2. Total(Taking, {}) = 0 /\ Total(Wanting, {}) = 0
    BY <2>1, TotalFacts
  <2>3. budget'.seqs = 0
    BY <1>4 DEF NoCharge
  <2> QED
    BY <1>1, <1>2, <1>4, <1>5, <2>2, <2>3 DEF RoomInv
<1>10. ExecuteInv'
  BY <1>1 DEF ExecuteInv
<1> QED
  BY <1>1, <1>2, <1>3, <1>6, <1>7, <1>8, <1>9, <1>10, NoneRaised DEF CoreInv, TickInv

\* What a group is charged for covers what it takes.
LEMMA RequiredFacts ==
    ASSUME BaseInv, NEW g \in Groups, phase[g] \in {"waiting", "ready", "swapped"}
    PROVE  /\ Takes(g) <= Required(g) /\ Required(g) <= Wants(g) + MaxRunningSeqs(g)
           /\ Required(g) \in Nat /\ MaxRunningSeqs(g) \in Nat
           /\ Cardinality(live[g]) <= MaxRunningSeqs(g)
           /\ MaxRunningSeqs(g) <= kind[g].bestOf
           /\ Uncomputed(g) \in Nat /\ Uncomputed(g) >= 1
           /\ left[g] > 0 => Cardinality(live[g]) = 1
           /\ left[g] = 0 => Uncomputed(g) = Cardinality(live[g])
<1>1. /\ GroupInv(g) /\ Cardinality(live[g]) \in Nat
      /\ (Cardinality(live[g]) = 0 <=> live[g] = {})
      /\ kind[g].bestOf \in Nat \ {0} /\ left[g] \in Nat
      /\ LogicalBlocks(g) \in Nat /\ Cardinality(Tabled(live[g])) \in Nat
  BY GroupFacts
<1>2. Cardinality(live[g]) >= 1 /\ Cardinality(live[g]) <= kind[g].bestOf
  BY <1>1 DEF GroupInv
<1>3. /\ MaxRunningSeqs(g) \in Nat /\ Cardinality(live[g]) <= MaxRunningSeqs(g)
      /\ MaxRunningSeqs(g) <= kind[g].bestOf
  BY <1>1, <1>2 DEF MaxRunningSeqs
<1>4. /\ Takes(g) <= Required(g) /\ Required(g) <= Wants(g) + MaxRunningSeqs(g)
      /\ Required(g) \in Nat
  <2>1. CASE phase[g] = "waiting"
    BY <1>1, <1>3, <2>1 DEF Takes, Required, Wants
  <2>2. CASE phase[g] = "ready"
    BY <1>1, <1>3, <2>2 DEF Takes, Required, Wants
  <2>3. CASE phase[g] = "swapped"
    BY <1>1, <1>3, <2>3 DEF Takes, Required, Wants
  <2> QED
    BY <2>1, <2>2, <2>3
<1>5. /\ Uncomputed(g) \in Nat /\ Uncomputed(g) >= 1
      /\ left[g] = 0 => Uncomputed(g) = Cardinality(live[g])
  BY <1>1, <1>2 DEF Uncomputed
<1>6. left[g] > 0 => Cardinality(live[g]) = 1
  BY <1>1 DEF GroupInv
<1> QED
  BY <1>3, <1>4, <1>5, <1>6

\* In selection and reservation every group that can be ranked waits, is
\* running or is swapped out.
LEMMA SettledPhases ==
    ASSUME CoreInv, raised = "no", stage \in {"between", "select", "reserve"},
           NEW g \in Groups, phase[g] # "idle"
    PROVE  phase[g] \in {"waiting", "ready", "swapped"}
<1>1. /\ In("appending") = {} /\ In("executing") = {} /\ In("returned") = {}
  BY DEF CoreInv, TickInv, PhasesInv
<1>2. phase[g] \in Phases
  BY GroupFacts DEF CoreInv
<1> QED
  BY <1>1, <1>2 DEF In, Phases

LEMMA SelectStep ==
    ASSUME NoWindow, CoreInv, NEW g \in Groups, Select(g)
    PROVE  CoreInv'
<1>1. /\ stage = "select" /\ g \in Unselected /\ Fits(g) /\ BaseInv /\ TickTypes
      /\ pinned' = Append(pinned, g)
      /\ take' = [take EXCEPT ![g] = NewTokens(g)]
      /\ budget' = [tokens |-> budget.tokens + NewTokens(g),
                    seqs |-> budget.seqs + MaxRunningSeqs(g)]
      /\ need' = need + Required(g)
      /\ UNCHANGED <<table, ref, free, raised, groupVars, left, stage, rest, uncharged, pending>>
  BY DEF Select, CoreInv, blockVars
<1>2. raised = "no" /\ TickInv
  BY <1>1 DEF CoreInv, Checks
<1>3. /\ BaseInv' /\ phase' = phase /\ Taking' = Taking /\ Wanting' = Wanting
      /\ \A q : In(q)' = In(q)
  BY <1>1, SameKeepsBase DEF In
<1>4. g \notin Range(pinned) /\ phase[g] \in {"waiting", "ready", "swapped"}
  BY <1>1, <1>2, SettledPhases DEF Unselected
<1>5. /\ pinned' \in Seq(Groups) /\ pinned' # <<>>
      /\ Range(pinned') = Range(pinned) \cup {g} /\ IsInjective(pinned')
  BY <1>1, <1>2, <1>4, Appended DEF TickTypes, TickInv, PinnedInv
<1>6. uncharged = {} /\ uncharged' = {} /\ Charged = Range(pinned)
      /\ Charged' = Range(pinned) \cup {g} /\ Range(pinned) \subseteq Groups
  BY <1>1, <1>2, <1>5, RangeOfSeq DEF TickInv, StageInv, Charged, TickTypes
<1>7. /\ Takes(g) <= Required(g) /\ Required(g) <= Wants(g) + MaxRunningSeqs(g)
      /\ Required(g) \in Nat /\ MaxRunningSeqs(g) \in Nat /\ Uncomputed(g) \in Nat
  BY <1>1, <1>4, RequiredFacts
<1>8. budget.tokens \in Nat /\ budget.seqs \in Nat /\ need \in Int /\ TokenBudget \in Nat
  BY <1>1, BudgetAssumption DEF TickTypes
<1>9. /\ NewTokens(g) \in Nat /\ NewTokens(g) > 0
      /\ budget.tokens + NewTokens(g) <= TokenBudget
      /\ budget.seqs + MaxRunningSeqs(g) <= MaxSeqs
  BY <1>1, <1>7, <1>8 DEF Fits, NewTokens
<1>10. TickTypes'
  <2>1. budget' \in [tokens : 0 .. TokenBudget, seqs : 0 .. MaxSeqs]
    <3>1. /\ budget.tokens + NewTokens(g) \in 0 .. TokenBudget
          /\ budget.seqs + MaxRunningSeqs(g) \in 0 .. MaxSeqs
      BY <1>7, <1>8, <1>9, BudgetAssumption
    <3>2. budget' = [tokens |-> budget.tokens + NewTokens(g),
                     seqs |-> budget.seqs + MaxRunningSeqs(g)]
      BY <1>1
    <3> QED
      BY <3>1, <3>2
  <2>2. take' \in [Groups -> Nat] /\ need' \in Int
    <3>1. take' = [take EXCEPT ![g] = NewTokens(g)] /\ need' = need + Required(g)
      BY <1>1
    <3>2. take \in [Groups -> Nat] /\ need \in Int
      BY <1>1 DEF TickTypes
    <3> QED
      BY <3>1, <3>2, <1>7, <1>9
  <2>3. raised' \in Reasons /\ stage' \in Steps /\ rest' \in Seq(Groups)
        /\ uncharged' \subseteq Groups
    BY <1>1 DEF TickTypes
  <2> QED
    BY <1>5, <2>1, <2>2, <2>3 DEF TickTypes
<1>11. PinnedInv'
  BY <1>1, <1>2, <1>3, <1>4, <1>5, <1>6 DEF PinnedInv, TickInv
<1>12. PhasesInv'
  BY <1>1, <1>2, <1>3, <1>5 DEF PhasesInv, TickInv
<1>13. StageInv'
  BY <1>1, <1>5, <1>6 DEF StageInv
<1>14. RoomInv'
  <2>1. Taking \in [Groups -> Nat] /\ Wanting \in [Groups -> Nat]
        /\ Taking[g] = Takes(g) /\ Wanting[g] = Wants(g)
        /\ Takes(g) \in Nat /\ Wants(g) \in Nat
    BY <1>1, TakingTypes
  <2> DEFINE C == Range(pinned)
  <2>2. /\ Total(Taking, C \cup {g}) = Total(Taking, C) + Takes(g)
        /\ Total(Wanting, C \cup {g}) = Total(Wanting, C) + Wants(g)
        /\ Total(Taking, C) \in Nat /\ Total(Wanting, C) \in Nat
    BY <1>4, <1>6, <2>1, TotalAdd, TotalFacts
  <2>3. Total(Taking, C) <= need /\ need <= Total(Wanting, C) + budget.seqs
    BY <1>1, <1>2, <1>6 DEF TickInv, RoomInv
  <2>4. /\ stage' = "select" /\ need' = need + Required(g)
        /\ budget'.seqs = budget.seqs + MaxRunningSeqs(g)
        /\ Taking' = Taking /\ Wanting' = Wanting /\ Charged' = C \cup {g}
    BY <1>1, <1>3, <1>6
  <2> HIDE DEF C
  <2>5. /\ Total(Taking, C \cup {g}) <= need'
        /\ need' <= Total(Wanting, C \cup {g}) + budget'.seqs
    BY <1>7, <1>8, <2>1, <2>2, <2>3, <2>4
  <2> QED
    BY <2>4, <2>5 DEF RoomInv
<1>15. ExecuteInv'
  BY <1>1 DEF ExecuteInv
<1> QED
  BY <1>1, <1>2, <1>3, <1>10, <1>11, <1>12, <1>13, <1>14, <1>15, NoneRaised DEF CoreInv, TickInv

\* A group that would be the first to be selected fits, if it is not too wide.
LEMMA FirstFits ==
    ASSUME BaseInv, TickTypes, budget = NoCharge, NEW g \in Groups, ~TooWide(g),
           phase[g] \in {"waiting", "ready", "swapped"}
    PROVE  Fits(g)
<1>1. /\ MaxRunningSeqs(g) \in Nat /\ MaxRunningSeqs(g) <= kind[g].bestOf
      /\ Cardinality(live[g]) <= MaxRunningSeqs(g)
      /\ Uncomputed(g) \in Nat /\ Uncomputed(g) >= 1
      /\ left[g] > 0 => Cardinality(live[g]) = 1
      /\ left[g] = 0 => Uncomputed(g) = Cardinality(live[g])
  BY RequiredFacts
<1>2. /\ Cardinality(live[g]) \in Nat /\ left[g] \in Nat
  BY GroupFacts
<1>3. budget.tokens = 0 /\ budget.seqs = 0
  BY DEF NoCharge
<1>4. TokenBudget \in Nat /\ MaxSeqs \in Nat /\ MaxSeqs >= 1 /\ TokenBudget >= MaxSeqs
  BY BudgetAssumption
<1>5. MaxRunningSeqs(g) <= MaxSeqs
  BY <1>1, <1>4 DEF TooWide
<1>6. /\ NewTokens(g) \in Nat /\ NewTokens(g) > 0 /\ NewTokens(g) <= TokenBudget
  <2>1. CASE Cardinality(live[g]) = 1 /\ Uncomputed(g) > TokenBudget
    BY <1>3, <1>4, <2>1 DEF NewTokens
  <2>2. CASE ~(Cardinality(live[g]) = 1 /\ Uncomputed(g) > TokenBudget)
    <3>1. NewTokens(g) = Uncomputed(g)
      BY <1>3, <1>4, <2>2 DEF NewTokens
    <3>2. Uncomputed(g) <= TokenBudget
      BY <1>1, <1>2, <1>4, <1>5, <2>2
    <3> QED
      BY <1>1, <3>1, <3>2
  <2> QED
    BY <2>1, <2>2
<1> QED
  BY <1>1, <1>2, <1>3, <1>4, <1>5, <1>6 DEF Fits

\* Nothing is left over unless something was selected, or the head of the order
\* is wider than a batch.
LEMMA FirstIsSelected ==
    ASSUME CoreInv, EndSelect, pinned = <<>>
    PROVE  \/ rest' = <<>>
           \/ TooWide(rest[1])' /\ ~NoneTooWide
<1>1. /\ stage = "select" /\ raised = "no" /\ BaseInv /\ TickTypes /\ TickInv
  BY DEF EndSelect, CoreInv, Checks
<1>2. PICK R \in SUBSET Unselected :
         \E r \in [1 .. Cardinality(R) -> R] : (R # {} => ~Fits(r[1])) /\ rest' = r
  BY DEF EndSelect
<1>3. R \in SUBSET Groups
  BY DEF Unselected
<1>4. IsFiniteSet(R) /\ Cardinality(R) \in Nat /\ (Cardinality(R) = 0 <=> R = {})
  BY <1>3, GroupsAssumption, FS_Subset, FS_CardinalityType, FS_EmptySet
<1>5. rest' \in [1 .. Cardinality(R) -> R] /\ (R # {} => ~Fits(rest'[1]))
  BY <1>2
<1>6. budget = NoCharge
  BY <1>1 DEF TickInv, StageInv
<1>7. ASSUME R # {} PROVE TooWide(rest[1])' /\ ~NoneTooWide
  <2>1. 1 \in 1 .. Cardinality(R)
    BY <1>4, <1>7
  <2> DEFINE g == rest'[1]
  <2>2. g \in R
    BY <1>5, <2>1
  <2>3. g \in Groups /\ phase[g] # "idle" /\ ~Fits(g)
    BY <1>5, <1>7, <2>2 DEF Unselected
  <2>4. TooWide(rest[1])' <=> TooWide(g)
    BY DEF EndSelect, groupVars, TooWide, MaxRunningSeqs, NumSeqs
  <2> HIDE DEF g
  <2>5. phase[g] \in {"waiting", "ready", "swapped"}
    BY <1>1, <2>3, SettledPhases
  <2>6. TooWide(g)
    BY <1>1, <1>6, <2>3, <2>5, FirstFits
  <2>7. /\ MaxRunningSeqs(g) \in Nat /\ MaxRunningSeqs(g) <= kind[g].bestOf
        /\ kind[g] \in Kinds /\ kind[g].bestOf \in Nat /\ MaxSeqs \in Nat
    BY <1>1, <2>3, <2>5, RequiredFacts, GroupFacts, BudgetAssumption
  <2>8. ~(kind[g].bestOf <= MaxSeqs)
    BY <2>6, <2>7 DEF TooWide
  <2> QED
    BY <2>4, <2>6, <2>7, <2>8 DEF NoneTooWide
<1>8. ASSUME R = {} PROVE rest' = <<>>
  <2>1. rest' \in Seq(Groups)
    BY <1>3, <1>4, <1>5, SeqDef
  <2>2. Len(rest') = 0
    BY <1>4, <1>5, <1>8, <2>1, LenProperties
  <2> QED
    BY <2>1, <2>2, EmptySeq
<1> QED
  BY <1>7, <1>8

LEMMA EndSelectStep ==
    ASSUME NoWindow, CoreInv, EndSelect
    PROVE  CoreInv'
<1>1. /\ stage = "select" /\ BaseInv /\ TickTypes
      /\ need' = need - Cardinality(FreeGpu) + Watermark
      /\ stage' = (IF need' > 0 THEN "reserve" ELSE "swap_in")
      /\ UNCHANGED <<table, ref, free, raised, groupVars, left, pinned, take, budget,
                     uncharged, pending>>
  BY DEF EndSelect, CoreInv, blockVars
<1>2. raised = "no" /\ TickInv
  BY <1>1 DEF CoreInv, Checks
<1>3. /\ BaseInv' /\ phase' = phase /\ Taking' = Taking /\ Wanting' = Wanting
      /\ FreeGpu' = FreeGpu /\ \A q : In(q)' = In(q)
  BY <1>1, SameKeepsBase DEF In
<1>4. PICK R \in SUBSET Unselected :
         /\ \A g \in Unselected \ R : phase[g] = "waiting"
         /\ \E r \in [1 .. Cardinality(R) -> R] :
              /\ Range(r) = R
              /\ R # {} => ~Fits(r[1])
              /\ rest' = r
  BY DEF EndSelect
<1>5. R \in SUBSET Groups /\ IsFiniteSet(R) /\ Cardinality(R) \in Nat
      /\ (Cardinality(R) = 0 <=> R = {}) /\ R \cap Range(pinned) = {}
  <2>1. R \in SUBSET Groups /\ R \cap Range(pinned) = {}
    BY <1>4 DEF Unselected
  <2>2. IsFiniteSet(R)
    BY <2>1, GroupsAssumption, FS_Subset
  <2> QED
    BY <2>1, <2>2, FS_CardinalityType, FS_EmptySet
<1>6. rest' \in [1 .. Cardinality(R) -> R] /\ Range(rest') = R /\ (R # {} => ~Fits(rest'[1]))
  BY <1>4
<1>7. rest' \in Seq(Groups)
  BY <1>5, <1>6, SeqDef
<1>8. uncharged = {} /\ Charged' = Charged /\ Charged = Range(pinned)
      /\ Range(pinned) \subseteq Groups
  BY <1>1, <1>2, RangeOfSeq DEF TickInv, StageInv, Charged, TickTypes
<1>9. Cardinality(FreeGpu) \in Nat /\ Watermark \in Nat /\ need \in Int /\ MaxSeqs \in Nat
  BY <1>1, FreePools, WindowAssumption, BudgetAssumption DEF TickTypes, BaseInv
<1>10. TickTypes'
  <2>1. need' \in Int
    BY <1>1, <1>9
  <2>2. stage' \in Steps
    BY <1>1 DEF Steps
  <2> QED
    BY <1>1, <1>7, <2>1, <2>2 DEF TickTypes
<1>11. PinnedInv'
  <2>1. In("ready") \subseteq Range(pinned) \cup R
    BY <1>4 DEF In, Unselected
  <2> QED
    BY <1>1, <1>2, <1>3, <1>5, <1>6, <2>1 DEF PinnedInv, TickInv
<1>12. PhasesInv'
  BY <1>1, <1>2, <1>3 DEF PhasesInv, TickInv
<1>13. StageInv'
  <2>1. ASSUME pinned = <<>>, NoneTooWide PROVE rest' = <<>>
    BY <2>1, FirstIsSelected
  <2> QED
    BY <1>1, <1>8, <2>1 DEF StageInv
<1>14. RoomInv'
  <2> DEFINE C == Range(pinned)
             T == Total(Taking, C)
             V == Total(Wanting, C)
             F == Cardinality(FreeGpu)
  <2>1. T \in Nat /\ V \in Nat
    BY <1>1, <1>8, TakingTypes, TotalFacts
  <2>2. T <= need /\ need <= V + budget.seqs
    BY <1>1, <1>2, <1>8 DEF TickInv, RoomInv
  <2>3. budget.seqs \in Nat /\ budget.seqs <= MaxSeqs
    <3>1. budget \in [tokens : 0 .. TokenBudget, seqs : 0 .. MaxSeqs]
      BY <1>1 DEF TickTypes
    <3> QED
      BY <1>9, <3>1
  <2>4. need' = need - F + Watermark
    BY <1>1
  <2> HIDE DEF T, V, F
  <2>5. F \in Nat
    BY <1>9 DEF F
  <2>6. T <= need' + F - Watermark /\ need' <= V + MaxSeqs - F + Watermark
    BY <1>9, <2>1, <2>2, <2>3, <2>4, <2>5
  <2>7. /\ Total(Taking', Charged') = T /\ Total(Wanting', Charged') = V
        /\ Cardinality(FreeGpu') = F
    BY <1>3, <1>8 DEF T, V, F
  <2>8. stage' = "swap_in" => need' <= 0
    <3>1. need' \in Int
      BY <1>9, <2>4, <2>5
    <3>2. stage' = (IF need' > 0 THEN "reserve" ELSE "swap_in")
      BY <1>1
    <3> QED
      BY <3>1, <3>2
  <2>9. stage' \in {"reserve", "swap_in"}
    BY <1>1
  <2> QED
    BY <2>6, <2>7, <2>8, <2>9 DEF RoomInv
<1>15. ExecuteInv'
  BY <1>1 DEF ExecuteInv
<1> QED
  BY <1>1, <1>2, <1>3, <1>10, <1>11, <1>12, <1>13, <1>14, <1>15, NoneRaised DEF CoreInv, TickInv

-----------------------------------------------------------------------------
(* reserve_free_blocks.                                                       *)

\* What reservation starts from.
LEMMA ReserveFacts ==
    ASSUME CoreInv, Reserving
    PROVE  /\ BaseInv /\ TickTypes /\ TickInv /\ raised = "no" /\ stage = "reserve"
           /\ uncharged = {} /\ Charged = Range(pinned) /\ Range(pinned) \in SUBSET Groups
           /\ pending = {} /\ In("appending") = {} /\ In("returned") = {}
           /\ In("executing") = {}
           /\ Cardinality(FreeGpu) \in Nat /\ Watermark \in Nat /\ need \in Int
           /\ MaxSeqs \in Nat
           /\ need <= Total(Wanting, Range(pinned)) + MaxSeqs - Cardinality(FreeGpu) + Watermark
           /\ Total(Taking, Range(pinned)) <= need + Cardinality(FreeGpu) - Watermark
           /\ Total(Wanting, Range(pinned)) \in Nat
           /\ Taking \in [Groups -> Nat] /\ Wanting \in [Groups -> Nat]
<1>1. BaseInv /\ TickTypes /\ TickInv /\ raised = "no" /\ stage = "reserve"
  BY DEF CoreInv, Reserving
<1>2. uncharged = {} /\ Charged = Range(pinned)
  BY <1>1 DEF TickInv, StageInv, Charged
<1>3. Range(pinned) \in SUBSET Groups
  BY <1>1, RangeOfSeq DEF TickTypes
<1>4. pending = {} /\ In("appending") = {} /\ In("returned") = {} /\ In("executing") = {}
  BY <1>1 DEF TickInv, PhasesInv
<1>5. /\ need <= Total(Wanting, Range(pinned)) + MaxSeqs - Cardinality(FreeGpu) + Watermark
      /\ Total(Taking, Range(pinned)) <= need + Cardinality(FreeGpu) - Watermark
  BY <1>1, <1>2 DEF TickInv, RoomInv
<1>6. Cardinality(FreeGpu) \in Nat /\ Watermark \in Nat /\ need \in Int /\ MaxSeqs \in Nat
  BY <1>1, FreePools, WindowAssumption, BudgetAssumption DEF TickTypes, BaseInv
<1>7. Taking \in [Groups -> Nat] /\ Wanting \in [Groups -> Nat]
  BY <1>1, TakingTypes
<1>8. Total(Wanting, Range(pinned)) \in Nat
  BY <1>3, <1>7, TotalFacts
<1> QED
  BY <1>1, <1>2, <1>3, <1>4, <1>5, <1>6, <1>7, <1>8

\* What a step of the reservation has to establish about its numbers.
LEMMA ReserveRoom ==
    ASSUME stage' = "reserve",
           need' <= Total(Wanting', Charged') + MaxSeqs - Cardinality(FreeGpu') + Watermark,
           Total(Taking', Charged') <= need' + Cardinality(FreeGpu') - Watermark
    PROVE  RoomInv' /\ ExecuteInv'
BY DEF RoomInv, ExecuteInv

LEMMA PreemptVictimStep ==
    ASSUME NoWindow, CoreInv, PreemptVictim
    PROVE  CoreInv'
<1>1. Reserving /\ need > 0
      /\ UNCHANGED <<left, stage, pinned, rest, take, budget, uncharged, pending>>
  BY DEF PreemptVictim
<1>2. PICK i \in Victims : /\ need' = need - Cardinality(Tabled(live[rest[i]]))
                           /\ SwapGroupOut(rest[i])
  BY DEF PreemptVictim
<1> DEFINE C == Range(pinned)
<1>3. /\ BaseInv /\ TickTypes /\ TickInv /\ raised = "no" /\ stage = "reserve"
      /\ uncharged = {} /\ Charged = C /\ C \in SUBSET Groups
      /\ pending = {} /\ In("appending") = {} /\ In("returned") = {} /\ In("executing") = {}
      /\ Cardinality(FreeGpu) \in Nat /\ Watermark \in Nat /\ need \in Int /\ MaxSeqs \in Nat
      /\ need <= Total(Wanting, C) + MaxSeqs - Cardinality(FreeGpu) + Watermark
      /\ Total(Taking, C) <= need + Cardinality(FreeGpu) - Watermark
      /\ Total(Wanting, C) \in Nat /\ Taking \in [Groups -> Nat]
  BY <1>1, ReserveFacts
<1>a. PICK g \in Groups : g = rest[i] /\ phase[g] = "ready" /\ g \in Range(rest)
  <2>1. i \in DOMAIN rest /\ phase[rest[i]] = "ready"
    BY DEF Victims
  <2>2. rest[i] \in Range(rest)
    BY <2>1 DEF Range
  <2> QED
    BY <1>3, <2>1, <2>2, RangeOfSeq DEF TickTypes
<1>4. g \in Groups /\ phase[g] = "ready" /\ g \in Range(rest)
  BY <1>a
<1> DEFINE held == Cardinality(Tabled(live[g]))
<1>5. g \notin C /\ g \in Range(rest)
  BY <1>3, <1>4 DEF TickInv, PinnedInv
<1>6. held \in Nat /\ need' = need - held /\ SwapGroupOut(g)
  BY <1>2, <1>3, <1>a, GroupFacts
<1>7. need' \in Int
  BY <1>3, <1>6
<1>8. CASE ~CanSwapOut(live[g])
  <2>1. Raise("NoSwapSpace") /\ UNCHANGED groupVars
    BY <1>6, <1>8 DEF SwapGroupOut
  <2>2. raised' = "NoSwapSpace"
    BY <2>1 DEF Raise
  <2>3. TickTypes'
    BY <1>1, <1>3, <1>7, <2>2 DEF TickTypes, Reasons
  <2> QED
    BY <1>1, <1>3, <2>1, <2>3, RaiseStep
<1>9. CASE CanSwapOut(live[g])
  <2>1. SwapOut(live[g]) /\ SetPhase(g, "swapped")
    BY <1>6, <1>9 DEF SwapGroupOut
  <2>2. /\ BaseInv' /\ raised' = raised
        /\ \A h \in Groups \ {g} : Takes(h)' = Takes(h) /\ Wants(h)' = Wants(h)
        /\ Takes(g)' \in Nat
        /\ Cardinality(FreeGpu') = Cardinality(FreeGpu) + held
    <3>1. BaseInv /\ g \in Groups /\ phase[g] = "ready" /\ UNCHANGED <<left, pending>>
      BY <1>1, <1>3, <1>4
    <3> HIDE DEF held
    <3>2. /\ BaseInv' /\ raised' = raised
          /\ \A h \in Groups \ {g} : Takes(h)' = Takes(h) /\ Wants(h)' = Wants(h)
          /\ Takes(g)' \in Nat
          /\ Cardinality(FreeGpu') = Cardinality(FreeGpu) + Cardinality(Tabled(live[g]))
      BY <1>9, <2>1, <3>1, SwapOutKeepsBase
    <3> QED
      BY <3>2 DEF held
  <2>3. /\ phase'[g] = "swapped" /\ \A h \in Groups \ {g} : phase'[h] = phase[h]
        /\ \A q : q # "swapped" => In(q)' = In(q) \ {g}
    BY <1>3, <1>4, <2>1, SetPhaseFacts DEF Phases
  <2>4. Total(Taking', C) = Total(Taking, C) /\ Total(Wanting', C) = Total(Wanting, C)
    <3>1. BaseInv /\ g \in Groups /\ C \in SUBSET Groups /\ g \notin C
      BY <1>3, <1>4, <1>5
    <3>2. /\ \A h \in Groups \ {g} : Takes(h)' = Takes(h) /\ Wants(h)' = Wants(h)
          /\ Takes(g)' \in Nat
      BY <2>2
    <3> HIDE DEF C
    <3> QED
      BY <3>1, <3>2, Sums
  <2>5. TickTypes'
    BY <1>1, <1>3, <1>7, <2>2 DEF TickTypes
  <2>6. PinnedInv'
    BY <1>1, <1>3, <1>4, <1>5, <2>3 DEF PinnedInv, TickInv
  <2>7. PhasesInv'
    BY <1>1, <1>3, <2>3 DEF PhasesInv
  <2>8. StageInv'
    BY <1>1, <1>3 DEF StageInv, TickInv
  <2>9. RoomInv' /\ ExecuteInv'
    <3> DEFINE T == Total(Taking, C)
               V == Total(Wanting, C)
               F == Cardinality(FreeGpu)
    <3>1. T \in Nat
      BY <1>3, TotalFacts
    <3>2. /\ need <= V + MaxSeqs - F + Watermark /\ T <= need + F - Watermark
          /\ V \in Nat /\ F \in Nat /\ held \in Nat /\ need' = need - held
          /\ Watermark \in Nat /\ need \in Int /\ MaxSeqs \in Nat
      BY <1>3, <1>6
    <3> HIDE DEF T, V, F, held
    <3>3. /\ need' <= V + MaxSeqs - (F + held) + Watermark
          /\ T <= need' + (F + held) - Watermark
      BY <3>1, <3>2
    <3>4. /\ Total(Wanting', Charged') = V /\ Total(Taking', Charged') = T
          /\ Cardinality(FreeGpu') = F + held /\ stage' = "reserve"
      BY <1>1, <1>3, <2>2, <2>4 DEF Charged, T, V, F
    <3> QED
      BY <3>3, <3>4, ReserveRoom
  <2> QED
    BY <1>3, <2>2, <2>5, <2>6, <2>7, <2>8, <2>9, NoneRaised DEF CoreInv, TickInv
<1> QED
  BY <1>8, <1>9

LEMMA PutBackStep ==
    ASSUME NoWindow, CoreInv, PutBack
    PROVE  CoreInv'
<1> DEFINE C == Range(pinned)
<1>a. Reserving /\ pinned # <<>>
  BY DEF PutBack
<1>b. PICK g \in Groups : g = pinned[Len(pinned)]
  BY <1>a, ReserveFacts, Shortened DEF TickTypes, TickInv, PinnedInv
<1> DEFINE held == Cardinality(Tabled(live[g]))
           seqs == Cardinality(live[g])
           given == IF phase[g] = "waiting" THEN LogicalBlocks(g) ELSE held + seqs
<1>1. /\ Reserving /\ need > 0 /\ pinned # <<>>
      /\ need' = need - given
      /\ IF phase[g] = "ready" THEN SwapGroupOut(g)
         ELSE UNCHANGED <<blockVars, groupVars, swapOut>>
      /\ take' = [take EXCEPT ![g] = 0]
      /\ rest' = Append(rest, g)
      /\ pinned' = SubSeq(pinned, 1, Len(pinned) - 1)
      /\ UNCHANGED <<left, stage, budget, uncharged, pending>>
  BY <1>b DEF PutBack
<1>2. /\ BaseInv /\ TickTypes /\ TickInv /\ raised = "no" /\ stage = "reserve"
      /\ uncharged = {} /\ Charged = C /\ C \in SUBSET Groups
      /\ pending = {} /\ In("appending") = {} /\ In("returned") = {} /\ In("executing") = {}
      /\ Cardinality(FreeGpu) \in Nat /\ Watermark \in Nat /\ need \in Int /\ MaxSeqs \in Nat
      /\ need <= Total(Wanting, C) + MaxSeqs - Cardinality(FreeGpu) + Watermark
      /\ Total(Taking, C) <= need + Cardinality(FreeGpu) - Watermark
      /\ Total(Wanting, C) \in Nat /\ Taking \in [Groups -> Nat] /\ Wanting \in [Groups -> Nat]
  BY <1>1, ReserveFacts
<1>3. /\ g \in Groups /\ g \in C /\ pinned' \in Seq(Groups) /\ IsInjective(pinned')
      /\ Range(pinned') = C \ {g}
      /\ \A i \in DOMAIN pinned' : i \in DOMAIN pinned /\ i \in Nat /\ pinned'[i] = pinned[i]
  BY <1>1, <1>2, <1>b, Shortened DEF TickTypes, TickInv, PinnedInv
<1>4. phase[g] \in {"waiting", "ready", "swapped"}
  <2>1. phase[g] \in {"waiting", "ready", "swapped", "returned"}
    BY <1>2, <1>3 DEF TickInv, PinnedInv
  <2> QED
    BY <1>2, <1>3, <2>1 DEF In
<1>5. rest' \in Seq(Groups) /\ Range(rest') = Range(rest) \cup {g}
  <2>1. rest \in Seq(Groups) /\ g \in Groups /\ rest' = Append(rest, g)
    BY <1>1, <1>2, <1>3 DEF TickTypes
  <2> QED
    BY <2>1, Appended
<1>6. held \in Nat /\ seqs \in Nat /\ LogicalBlocks(g) \in Nat
  BY <1>2, <1>3, GroupFacts
<1>7. given \in Nat /\ need' \in Int
  <2>1. given \in Nat
    BY <1>6
  <2>2. need' = need - given /\ need \in Int
    BY <1>1, <1>2
  <2> HIDE DEF given
  <2> QED
    BY <2>1, <2>2
<1>8. /\ Total(Taking, C) = Total(Taking, C \ {g}) + Takes(g)
      /\ Total(Wanting, C) = Total(Wanting, C \ {g}) + Wants(g)
      /\ Total(Taking, C \ {g}) \in Nat /\ Total(Wanting, C \ {g}) \in Nat
      /\ Takes(g) \in Nat /\ Wants(g) \in Nat
  <2>1. /\ Taking[g] = Takes(g) /\ Wanting[g] = Wants(g) /\ Takes(g) \in Nat /\ Wants(g) \in Nat
        /\ C \ {g} \in SUBSET Groups
    BY <1>2, <1>3, TakingTypes
  <2>2. /\ Taking \in [Groups -> Nat] /\ Wanting \in [Groups -> Nat]
        /\ C \in SUBSET Groups /\ g \in C
    BY <1>2, <1>3
  <2> HIDE DEF C
  <2>3. /\ Total(Taking, C) = Total(Taking, C \ {g}) + Taking[g]
        /\ Total(Wanting, C) = Total(Wanting, C \ {g}) + Wanting[g]
    BY <2>2, TotalRemove
  <2>4. Total(Taking, C \ {g}) \in Nat /\ Total(Wanting, C \ {g}) \in Nat
    BY <2>1, <2>2, TotalFacts
  <2> QED
    BY <2>1, <2>3, <2>4
\* Putting a group back that is not running leaves the blocks alone.
<1>9. CASE phase[g] # "ready"
  <2>1. UNCHANGED <<table, ref, free, raised, groupVars, left, pending>>
    BY <1>1, <1>9 DEF blockVars
  <2>2. /\ BaseInv' /\ phase' = phase /\ Taking' = Taking /\ Wanting' = Wanting
        /\ FreeGpu' = FreeGpu /\ \A q : In(q)' = In(q)
    BY <1>2, <2>1, SameKeepsBase DEF In
  <2>3. TickTypes'
    BY <1>1, <1>2, <1>3, <1>5, <1>7, <2>1 DEF TickTypes
  <2>4. PinnedInv'
    <3>1. In("ready")' \subseteq Range(pinned') \cup Range(rest')
      BY <1>2, <1>3, <1>5, <2>2 DEF TickInv, PinnedInv
    <3>2. Range(pinned') \cap Range(rest') = {}
      BY <1>2, <1>3, <1>5 DEF TickInv, PinnedInv
    <3>3. \A h \in Range(pinned') : phase'[h] \in {"waiting", "ready", "swapped", "returned"}
      BY <1>2, <1>3, <2>2 DEF TickInv, PinnedInv
    <3> QED
      BY <1>1, <1>2, <1>3, <3>1, <3>2, <3>3 DEF PinnedInv
  <2>5. PhasesInv'
    BY <1>1, <1>2, <2>2 DEF PhasesInv
  <2>6. StageInv'
    BY <1>1, <1>2 DEF StageInv, TickInv
  <2>7. RoomInv' /\ ExecuteInv'
    <3> DEFINE T == Total(Taking, C \ {g})
               V == Total(Wanting, C \ {g})
               F == Cardinality(FreeGpu)
    <3>1. /\ T + Takes(g) <= need + F - Watermark
          /\ need <= V + Wants(g) + MaxSeqs - F + Watermark
          /\ Takes(g) = given /\ Wants(g) <= given /\ Wants(g) \in Nat
          /\ T \in Nat /\ V \in Nat
      BY <1>2, <1>4, <1>6, <1>8, <1>9 DEF Takes, Wants
    <3>2. /\ need' = need - given /\ given \in Nat /\ F \in Nat /\ need \in Int
          /\ Watermark \in Nat /\ MaxSeqs \in Nat
      BY <1>1, <1>2, <1>7
    <3> HIDE DEF T, V, F, given
    <3>3. need' <= V + MaxSeqs - F + Watermark /\ T <= need' + F - Watermark
      BY <3>1, <3>2
    <3>4. /\ Total(Wanting', Charged') = V /\ Total(Taking', Charged') = T
          /\ Cardinality(FreeGpu') = F /\ stage' = "reserve"
      BY <1>1, <1>2, <1>3, <2>2 DEF Charged, T, V, F
    <3> QED
      BY <3>3, <3>4, ReserveRoom
  <2> QED
    BY <1>2, <2>1, <2>2, <2>3, <2>4, <2>5, <2>6, <2>7, NoneRaised DEF CoreInv, TickInv
<1>10. CASE phase[g] = "ready" /\ ~CanSwapOut(live[g])
  <2>1. Raise("NoSwapSpace") /\ UNCHANGED groupVars
    BY <1>1, <1>10 DEF SwapGroupOut
  <2>2. raised' = "NoSwapSpace"
    BY <2>1 DEF Raise
  <2>3. TickTypes'
    BY <1>1, <1>2, <1>3, <1>5, <1>7, <2>2 DEF TickTypes, Reasons
  <2> QED
    BY <1>1, <1>2, <2>1, <2>3, RaiseStep
<1>11. CASE phase[g] = "ready" /\ CanSwapOut(live[g])
  <2>1. SwapOut(live[g]) /\ SetPhase(g, "swapped")
    BY <1>1, <1>11 DEF SwapGroupOut
  <2>2. /\ BaseInv' /\ raised' = raised
        /\ \A h \in Groups \ {g} : Takes(h)' = Takes(h) /\ Wants(h)' = Wants(h)
        /\ Takes(g)' \in Nat
        /\ Cardinality(FreeGpu') = Cardinality(FreeGpu) + held
    <3>1. BaseInv /\ g \in Groups /\ UNCHANGED <<left, pending>>
      BY <1>1, <1>2, <1>3
    <3> HIDE DEF held
    <3>2. /\ BaseInv' /\ raised' = raised
          /\ \A h \in Groups \ {g} : Takes(h)' = Takes(h) /\ Wants(h)' = Wants(h)
          /\ Takes(g)' \in Nat
          /\ Cardinality(FreeGpu') = Cardinality(FreeGpu) + Cardinality(Tabled(live[g]))
      BY <1>11, <2>1, <3>1, SwapOutKeepsBase
    <3> QED
      BY <3>2 DEF held
  <2>3. /\ phase'[g] = "swapped" /\ \A h \in Groups \ {g} : phase'[h] = phase[h]
        /\ \A q : q # "swapped" => In(q)' = In(q) \ {g}
    BY <1>2, <1>3, <2>1, SetPhaseFacts DEF Phases
  <2>4. /\ Total(Taking', C \ {g}) = Total(Taking, C \ {g})
        /\ Total(Wanting', C \ {g}) = Total(Wanting, C \ {g})
    <3>1. C \ {g} \in SUBSET Groups /\ g \notin C \ {g}
      BY <1>2
    <3>2. /\ BaseInv /\ g \in Groups /\ Takes(g)' \in Nat
          /\ \A h \in Groups \ {g} : Takes(h)' = Takes(h) /\ Wants(h)' = Wants(h)
      BY <1>2, <1>3, <2>2
    <3> HIDE DEF C
    <3> QED
      BY <3>1, <3>2, Sums
  <2>5. TickTypes'
    BY <1>1, <1>2, <1>3, <1>5, <1>7, <2>2 DEF TickTypes
  <2>6. PinnedInv'
    <3>1. In("ready")' \subseteq Range(pinned') \cup Range(rest')
      <4>1. In("ready")' = In("ready") \ {g}
        BY <2>3
      <4>2. In("ready") \subseteq C \cup Range(rest)
        BY <1>2 DEF TickInv, PinnedInv
      <4> QED
        BY <1>3, <1>5, <4>1, <4>2
    <3>2. Range(pinned') \cap Range(rest') = {}
      BY <1>2, <1>3, <1>5 DEF TickInv, PinnedInv
    <3>3. \A h \in Range(pinned') : phase'[h] \in {"waiting", "ready", "swapped", "returned"}
      BY <1>2, <1>3, <2>3 DEF TickInv, PinnedInv
    <3> QED
      BY <1>1, <1>2, <1>3, <3>1, <3>2, <3>3 DEF PinnedInv
  <2>7. PhasesInv'
    BY <1>1, <1>2, <2>3 DEF PhasesInv
  <2>8. StageInv'
    BY <1>1, <1>2 DEF StageInv, TickInv
  <2>9. RoomInv' /\ ExecuteInv'
    <3> DEFINE T == Total(Taking, C \ {g})
               V == Total(Wanting, C \ {g})
               F == Cardinality(FreeGpu)
    <3>1. /\ T + Takes(g) <= need + F - Watermark
          /\ need <= V + Wants(g) + MaxSeqs - F + Watermark
          /\ Takes(g) = seqs /\ Wants(g) = 0 /\ need' = need - (held + seqs)
          /\ T \in Nat /\ V \in Nat
      BY <1>1, <1>2, <1>8, <1>11 DEF Takes, Wants
    <3>2. /\ held \in Nat /\ seqs \in Nat /\ F \in Nat /\ need \in Int
          /\ Watermark \in Nat /\ MaxSeqs \in Nat
      BY <1>2, <1>6
    <3> HIDE DEF T, V, F, held, seqs
    <3>3. /\ need' <= V + MaxSeqs - (F + held) + Watermark
          /\ T <= need' + (F + held) - Watermark
      BY <3>1, <3>2
    <3>4. /\ Total(Wanting', Charged') = V /\ Total(Taking', Charged') = T
          /\ Cardinality(FreeGpu') = F + held /\ stage' = "reserve"
      BY <1>1, <1>2, <1>3, <2>2, <2>4 DEF Charged, T, V, F
    <3> QED
      BY <3>3, <3>4, ReserveRoom
  <2> QED
    BY <1>2, <2>2, <2>5, <2>6, <2>7, <2>8, <2>9, NoneRaised DEF CoreInv, TickInv
<1> QED
  BY <1>9, <1>10, <1>11

\* When all selected groups are put back and no other group is running, every
\* GPU block is free.
LEMMA AllGivenBack ==
    ASSUME NoWindow, CoreInv, Reserving, Victims = {}, pinned = <<>>
    PROVE  FreeGpu = GpuBlocks
<1>1. /\ BaseInv /\ TickTypes /\ TickInv /\ raised = "no" /\ stage = "reserve"
      /\ In("appending") = {} /\ In("returned") = {} /\ In("executing") = {}
  BY ReserveFacts
<1>2. In("ready") = {}
  <2>1. In("ready") \subseteq Range(rest)
    BY <1>1, NobodyPinned DEF TickInv, PinnedInv
  <2>2. ASSUME NEW g \in In("ready") PROVE FALSE
    <3>1. PICK i \in DOMAIN rest : rest[i] = g
      BY <2>1 DEF Range
    <3> QED
      BY <2>2, <3>1 DEF Victims, In
  <2> QED
    BY <2>2
<1>3. ASSUME NEW s \in Seqs, NEW b \in GpuBlocks PROVE b \notin Range(table[s])
  <2>1. CASE s \in Fresh
    BY <1>1, <2>1, NobodyPinned DEF BaseInv
  <2>2. CASE s \notin Fresh
    <3>1. PICK g \in Groups : s \in live[g]
      BY <2>2 DEF Fresh
    <3>2. GroupInv(g) /\ phase[g] \in Phases
      BY <1>1, GroupFacts
    <3>3. phase[g] \in {"waiting", "swapped"}
      BY <1>1, <1>2, <3>1, <3>2 DEF In, Phases, GroupInv
    <3>4. CASE phase[g] = "waiting"
      BY <3>1, <3>2, <3>4, NobodyPinned DEF GroupInv
    <3>5. CASE phase[g] = "swapped"
      <4>1. Range(table[s]) \subseteq CpuBlocks
        BY <3>1, <3>2, <3>5, RangeOfSeq DEF GroupInv
      <4> QED
        BY <4>1, DevicesAssumption
    <3> QED
      BY <3>3, <3>4, <3>5
  <2> QED
    BY <2>1, <2>2
<1>4. ASSUME NEW b \in GpuBlocks PROVE b \in free
  <2>1. HoldersIn(table, b) = {} /\ b \in Blocks
    BY <1>3 DEF HoldersIn, Blocks
  <2> QED
    BY <1>1, <2>1, FreeIsUnheld DEF BaseInv, NoWindow
<1> QED
  BY <1>4 DEF FreeGpu

LEMMA EndReserveStep ==
    ASSUME NoWindow, CoreInv, EndReserve
    PROVE  CoreInv'
<1>1. /\ Reserving
      /\ UNCHANGED <<groupVars, left, pinned, rest, take, budget, need, uncharged, pending>>
      /\ \/ /\ need <= 0
            /\ stage' = "swap_in_only"
            /\ UNCHANGED <<table, ref, free, raised>>
         \/ /\ need > 0 /\ Victims = {} /\ pinned = <<>>
            /\ Raise("AssertionError")
            /\ UNCHANGED stage
  BY DEF EndReserve, blockVars
<1>2. /\ BaseInv /\ TickTypes /\ TickInv /\ raised = "no" /\ stage = "reserve"
      /\ uncharged = {} /\ Charged = Range(pinned)
      /\ Cardinality(FreeGpu) \in Nat /\ Watermark \in Nat /\ need \in Int /\ MaxSeqs \in Nat
      /\ need <= Total(Wanting, Range(pinned)) + MaxSeqs - Cardinality(FreeGpu) + Watermark
      /\ Total(Taking, Range(pinned)) <= need + Cardinality(FreeGpu) - Watermark
      /\ Wanting \in [Groups -> Nat]
  BY <1>1, ReserveFacts
<1>3. CASE need <= 0 /\ stage' = "swap_in_only" /\ UNCHANGED <<table, ref, free, raised>>
  <2>1. /\ BaseInv' /\ phase' = phase /\ Taking' = Taking /\ FreeGpu' = FreeGpu
        /\ \A q : In(q)' = In(q)
    BY <1>1, <1>2, <1>3, SameKeepsBase DEF In
  <2>2. TickTypes'
    BY <1>1, <1>2, <1>3 DEF TickTypes, Steps
  <2>3. PinnedInv'
    BY <1>1, <1>2, <1>3, <2>1 DEF TickInv, PinnedInv
  <2>4. PhasesInv'
    BY <1>1, <1>2, <1>3, <2>1 DEF TickInv, PhasesInv
  <2>5. StageInv'
    BY <1>1, <1>2, <1>3 DEF StageInv
  <2>6. Charged' = Charged
    BY <1>1 DEF Charged
  <2>7. RoomInv'
    BY <1>1, <1>2, <1>3, <2>1, <2>6 DEF RoomInv
  <2>8. ExecuteInv'
    BY <1>3 DEF ExecuteInv
  <2> QED
    BY <1>2, <1>3, <2>1, <2>2, <2>3, <2>4, <2>5, <2>7, <2>8, NoneRaised DEF CoreInv, TickInv
<1>4. CASE /\ need > 0 /\ Victims = {} /\ pinned = <<>>
           /\ Raise("AssertionError") /\ UNCHANGED stage
  <2>1. ~LargeEnough
    <3>1. FreeGpu = GpuBlocks
      BY <1>1, <1>4, AllGivenBack
    <3>2. Total(Wanting, Range(pinned)) = 0
      BY <1>2, <1>4, NobodyPinned, TotalFacts
    <3>3. need <= MaxSeqs - Cardinality(GpuBlocks) + Watermark /\ Cardinality(GpuBlocks) \in Nat
      BY <1>2, <3>1, <3>2
    <3> QED
      BY <1>2, <1>4, <3>3 DEF LargeEnough
  <2>2. TickTypes'
    <3>1. raised' = "AssertionError"
      BY <1>4 DEF Raise
    <3> QED
      BY <1>1, <1>2, <1>4, <3>1 DEF TickTypes, Reasons
  <2> QED
    BY <1>1, <1>2, <1>4, <2>1, <2>2, RaiseStep
<1> QED
  BY <1>1, <1>3, <1>4

-----------------------------------------------------------------------------
(* Swapping in.                                                               *)

LEMMA FreeCount ==
    Cardinality(FreeGpu') \in Nat /\ Cardinality(FreeGpu') <= Cardinality(GpuBlocks)
<1>1. FreeGpu' \in SUBSET GpuBlocks
  BY DEF FreeGpu
<1>2. IsFiniteSet(GpuBlocks)
  BY DevicesAssumption
<1>3. IsFiniteSet(FreeGpu') /\ Cardinality(FreeGpu') <= Cardinality(GpuBlocks)
  BY <1>1, <1>2, FS_Subset
<1> QED
  BY <1>3, FS_CardinalityType

\* What the swap-ins of selected groups start from.
LEMMA SwappingInFacts ==
    ASSUME CoreInv, SwappingIn
    PROVE  /\ BaseInv /\ TickTypes /\ TickInv /\ raised = "no"
           /\ uncharged = {} /\ Charged = Range(pinned) /\ Range(pinned) \in SUBSET Groups
           /\ pending = {} /\ In("appending") = {} /\ In("executing") = {}
           /\ Cardinality(FreeGpu) \in Nat /\ Watermark \in Nat /\ need \in Int /\ need <= 0
           /\ Total(Taking, Range(pinned)) <= need + Cardinality(FreeGpu) - Watermark
           /\ Total(Taking, Range(pinned)) \in Nat /\ Taking \in [Groups -> Nat]
<1>1. BaseInv /\ TickTypes /\ TickInv /\ raised = "no" /\ stage \in {"swap_in", "swap_in_only"}
  BY DEF CoreInv, SwappingIn
<1>2. uncharged = {} /\ Charged = Range(pinned)
  BY <1>1 DEF TickInv, StageInv, Charged
<1>3. Range(pinned) \in SUBSET Groups
  BY <1>1, RangeOfSeq DEF TickTypes
<1>4. pending = {} /\ In("appending") = {} /\ In("executing") = {}
  BY <1>1 DEF TickInv, PhasesInv
<1>5. /\ need <= 0
      /\ Total(Taking, Range(pinned)) <= need + Cardinality(FreeGpu) - Watermark
  BY <1>1, <1>2 DEF TickInv, RoomInv
<1>6. Cardinality(FreeGpu) \in Nat /\ Watermark \in Nat /\ need \in Int
  BY <1>1, FreePools, WindowAssumption DEF TickTypes, BaseInv
<1>7. Taking \in [Groups -> Nat]
  BY <1>1, TakingTypes
<1>8. Total(Taking, Range(pinned)) \in Nat
  BY <1>3, <1>7, TotalFacts
<1> QED
  BY <1>1, <1>2, <1>3, <1>4, <1>5, <1>6, <1>7, <1>8

LEMMA SwapInPinnedStep ==
    ASSUME NoWindow, CoreInv, SwapInPinned
    PROVE  CoreInv'
<1> DEFINE C == Range(pinned)
<1>1. /\ SwappingIn
      /\ UNCHANGED <<left, stage, pinned, rest, take, budget, need, uncharged, pending>>
  BY DEF SwapInPinned
<1>2. /\ BaseInv /\ TickTypes /\ TickInv /\ raised = "no"
      /\ uncharged = {} /\ Charged = C /\ C \in SUBSET Groups
      /\ pending = {} /\ In("appending") = {} /\ In("executing") = {}
      /\ Cardinality(FreeGpu) \in Nat /\ Watermark \in Nat /\ need \in Int /\ need <= 0
      /\ Total(Taking, C) <= need + Cardinality(FreeGpu) - Watermark
      /\ Total(Taking, C) \in Nat /\ Taking \in [Groups -> Nat]
      /\ stage \in {"swap_in", "swap_in_only"}
  BY <1>1, SwappingInFacts DEF SwappingIn
<1>3. PICK g \in C : phase[g] = "swapped" /\ SwapGroupIn(g)
  <2>1. PICK i \in Returning : SwapGroupIn(pinned[i])
    BY DEF SwapInPinned
  <2>2. i \in DOMAIN pinned /\ phase[pinned[i]] = "swapped" /\ pinned[i] \in C
    BY DEF Returning, Range
  <2> QED
    BY <2>1, <2>2
<1> DEFINE held == Cardinality(Tabled(live[g]))
           n == Cardinality(live[g])
<1>4. /\ g \in Groups /\ held \in Nat /\ n \in Nat
      /\ SwapIn(live[g]) /\ SetPhase(g, "returned")
  BY <1>2, <1>3, GroupFacts DEF SwapGroupIn
<1>5. Takes(g) = held + n /\ Takes(g) <= Total(Taking, C)
  <2>1. Taking[g] <= Total(Taking, C)
    BY <1>2, <1>3, TotalCovers
  <2>2. Taking[g] = Takes(g)
    BY <1>2, <1>4, TakingTypes
  <2> QED
    BY <1>3, <2>1, <2>2 DEF Takes
<1>6. held <= Cardinality(FreeGpu)
  <2> DEFINE T == Total(Taking, C)
             F == Cardinality(FreeGpu)
             t == Takes(g)
  <2>1. /\ t = held + n /\ t <= T /\ T \in Nat /\ F \in Nat /\ Watermark \in Nat
        /\ need \in Int /\ need <= 0 /\ T <= need + F - Watermark
        /\ held \in Nat /\ n \in Nat
    BY <1>2, <1>4, <1>5
  <2> HIDE DEF T, F, t, held, n
  <2>2. held <= F
    BY <2>1
  <2> QED
    BY <2>2 DEF F
<1>7. /\ BaseInv' /\ raised' = raised
      /\ \A h \in Groups \ {g} : Takes(h)' = Takes(h) /\ Wants(h)' = Wants(h)
      /\ Takes(g)' = Cardinality(live[g])
      /\ Cardinality(FreeGpu') >= Cardinality(FreeGpu) - Cardinality(Tabled(live[g]))
  <2>1. BaseInv /\ g \in Groups /\ phase[g] = "swapped" /\ UNCHANGED <<left, pending>>
    BY <1>1, <1>2, <1>3, <1>4
  <2> QED
    BY <1>4, <1>6, <2>1, SwapInKeepsBase
<1>8. /\ phase'[g] = "returned" /\ \A h \in Groups \ {g} : phase'[h] = phase[h]
      /\ \A q : q # "returned" => In(q)' = In(q) \ {g}
      /\ In("returned")' = In("returned") \cup {g}
  BY <1>2, <1>4, SetPhaseFacts DEF Phases
<1>9. TickTypes'
  BY <1>1, <1>2, <1>7 DEF TickTypes
<1>10. PinnedInv'
  BY <1>1, <1>2, <1>3, <1>8 DEF PinnedInv, TickInv
<1>11. PhasesInv'
  BY <1>1, <1>2, <1>3, <1>8 DEF PhasesInv, TickInv
<1>12. StageInv'
  BY <1>1, <1>2 DEF StageInv, TickInv
<1>13. RoomInv'
  <2> DEFINE T == Total(Taking, C \ {g})
             F == Cardinality(FreeGpu)
             G == Cardinality(FreeGpu')
  <2>1. /\ Total(Taking, C) = T + Takes(g) /\ Total(Taking', C) = T + Takes(g)' /\ T \in Nat
    <3>1. BaseInv /\ g \in Groups /\ C \in SUBSET Groups /\ g \in C /\ Takes(g)' \in Nat
      BY <1>2, <1>3, <1>4, <1>7
    <3>2. \A h \in Groups \ {g} : Takes(h)' = Takes(h) /\ Wants(h)' = Wants(h)
      BY <1>7
    <3> HIDE DEF C
    <3> QED
      BY <3>1, <3>2, Sums
  <2>2. T + (held + n) <= need + F - Watermark /\ G >= F - held
    BY <1>2, <1>5, <1>7, <2>1
  <2>3. G \in Nat
    BY FreeCount
  <2>4. F \in Nat /\ Watermark \in Nat /\ need \in Int /\ held \in Nat /\ n \in Nat
    BY <1>2, <1>4
  <2> HIDE DEF T, F, G, held, n
  <2>5. T + n <= need + G - Watermark
    BY <2>1, <2>2, <2>3, <2>4
  <2>6. Total(Taking', Charged') = T + n
    BY <1>1, <1>2, <1>7, <2>1 DEF Charged, n
  <2>7. /\ need' = need /\ need <= 0 /\ stage' \in {"swap_in", "swap_in_only"}
        /\ Cardinality(FreeGpu') = G
    BY <1>1, <1>2 DEF G
  <2> QED
    BY <2>5, <2>6, <2>7 DEF RoomInv
<1>14. ExecuteInv'
  BY <1>1, <1>2 DEF ExecuteInv
<1> QED
  BY <1>2, <1>7, <1>9, <1>10, <1>11, <1>12, <1>13, <1>14, NoneRaised DEF CoreInv, TickInv

LEMMA EndSwapInStep ==
    ASSUME NoWindow, CoreInv, EndSwapIn
    PROVE  CoreInv'
<1> DEFINE C == Range(pinned)
<1>1. /\ SwappingIn /\ Returning = {}
      /\ stage' = (IF stage = "swap_in" THEN "proactive" ELSE "execute")
      /\ UNCHANGED <<table, ref, free, raised, groupVars, left, pinned, rest, take, budget,
                     need, uncharged, pending>>
  BY DEF EndSwapIn, blockVars
<1>2. /\ BaseInv /\ TickTypes /\ TickInv /\ raised = "no"
      /\ uncharged = {} /\ Charged = C /\ C \in SUBSET Groups
      /\ pending = {} /\ In("appending") = {} /\ In("executing") = {}
      /\ Cardinality(FreeGpu) \in Nat /\ Watermark \in Nat /\ need \in Int /\ need <= 0
      /\ Total(Taking, C) <= need + Cardinality(FreeGpu) - Watermark
      /\ Total(Taking, C) \in Nat /\ Taking \in [Groups -> Nat]
      /\ stage \in {"swap_in", "swap_in_only"}
  BY <1>1, SwappingInFacts DEF SwappingIn
<1>3. /\ BaseInv' /\ phase' = phase /\ live' = live /\ Taking' = Taking /\ FreeGpu' = FreeGpu
      /\ \A q : In(q)' = In(q)
  BY <1>1, <1>2, SameKeepsBase DEF In
<1>4. TickTypes'
  BY <1>1, <1>2 DEF TickTypes, Steps
<1>5. \A g \in C : phase[g] # "swapped"
  BY <1>1 DEF Returning, Range
<1>6. PinnedInv'
  BY <1>1, <1>2, <1>3, <1>5 DEF PinnedInv, TickInv
<1>7. PhasesInv'
  BY <1>1, <1>2, <1>3 DEF PhasesInv, TickInv
<1>8. StageInv'
  BY <1>1, <1>2 DEF StageInv, TickInv
<1>9. Charged' = C /\ Range(pinned') = C /\ uncharged' = {}
  BY <1>1, <1>2 DEF Charged
<1>10. Lent' = {} /\ Cardinality({}) = 0
  BY <1>9, FS_EmptySet DEF Lent
<1>11. RoomInv'
  <2>1. Total(Taking, {}) = 0
    BY <1>2, TotalFacts
  <2>2. stage' \in {"proactive", "execute"}
    BY <1>1
  <2> QED
    BY <1>1, <1>2, <1>3, <1>9, <1>10, <2>1, <2>2 DEF RoomInv
<1>12. ExecuteInv'
  <2> DEFINE T == Total(Taking, C)
             F == Cardinality(FreeGpu)
  <2>1. /\ T <= need + F - Watermark /\ need \in Int /\ need <= 0 /\ F \in Nat
        /\ T \in Nat /\ Watermark \in Nat
    BY <1>2
  <2>2. /\ Total(Taking', Charged') = T /\ Total(Taking', Range(pinned')) = T
        /\ Cardinality(FreeGpu') = F /\ Cardinality(pending') = 0
    BY <1>1, <1>2, <1>3, <1>9, FS_EmptySet
  <2> HIDE DEF T, F
  <2> QED
    BY <2>1, <2>2 DEF ExecuteInv
<1> QED
  BY <1>1, <1>2, <1>3, <1>4, <1>6, <1>7, <1>8, <1>11, <1>12, NoneRaised DEF CoreInv, TickInv

\* What a group of the rest that is swapped in has to do with the selected ones.
LEMMA ProactiveFacts ==
    ASSUME CoreInv, raised = "no", stage = "proactive"
    PROVE  /\ BaseInv /\ TickTypes /\ TickInv
           /\ uncharged \subseteq Range(pinned) /\ Range(pinned) \in SUBSET Groups
           /\ Range(pinned) = Charged \cup uncharged /\ Charged \cap uncharged = {}
           /\ Charged \in SUBSET Groups /\ uncharged \in SUBSET Groups
           /\ \A g \in Range(pinned) : phase[g] # "swapped"
           /\ pending = {} /\ In("appending") = {} /\ In("executing") = {}
           /\ Cardinality(FreeGpu) \in Nat /\ Watermark \in Nat /\ need \in Int /\ need <= 0
           /\ Total(Taking, Charged) <= need + Cardinality(FreeGpu) - Watermark
           /\ Total(Taking, uncharged) <= Cardinality(Lent)
           /\ uncharged # {} => need <= -2
           /\ Total(Taking, Charged) \in Nat /\ Total(Taking, uncharged) \in Nat
           /\ Taking \in [Groups -> Nat]
           /\ IsFiniteSet(Lent) /\ Cardinality(Lent) \in Nat
<1>1. BaseInv /\ TickTypes /\ TickInv
  BY DEF CoreInv
<1>2. pending = {} /\ In("appending") = {} /\ In("executing") = {}
  BY <1>1 DEF TickInv, PhasesInv
<1>3. Range(pinned) \in SUBSET Groups /\ uncharged \subseteq Range(pinned)
  BY <1>1, <1>2, RangeOfSeq DEF TickTypes, TickInv, PhasesInv
<1>4. /\ Range(pinned) = Charged \cup uncharged /\ Charged \cap uncharged = {}
      /\ Charged \in SUBSET Groups /\ uncharged \in SUBSET Groups
  BY <1>3 DEF Charged
<1>5. /\ need <= 0 /\ (uncharged # {} => need <= -2)
      /\ Total(Taking, Charged) <= need + Cardinality(FreeGpu) - Watermark
      /\ Total(Taking, uncharged) <= Cardinality(Lent)
  BY <1>1 DEF TickInv, RoomInv
<1>6. Cardinality(FreeGpu) \in Nat /\ Watermark \in Nat /\ need \in Int
  BY <1>1, FreePools, WindowAssumption DEF TickTypes, BaseInv
<1>7. Taking \in [Groups -> Nat]
  BY <1>1, TakingTypes
<1>8. Total(Taking, Charged) \in Nat /\ Total(Taking, uncharged) \in Nat
  BY <1>4, <1>7, TotalFacts
<1>9. \A g \in Range(pinned) : phase[g] # "swapped"
  BY <1>1 DEF TickInv, PinnedInv
<1>10. IsFiniteSet(Lent) /\ Cardinality(Lent) \in Nat
  <2>1. Lent \in SUBSET Seqs
    BY <1>1, <1>4 DEF Lent, BaseInv, GroupsTypeOK
  <2>2. IsFiniteSet(Lent)
    BY <2>1, DevicesAssumption, FS_Subset
  <2> QED
    BY <2>2, FS_CardinalityType
<1> QED
  BY <1>1, <1>2, <1>3, <1>4, <1>5, <1>6, <1>7, <1>8, <1>9, <1>10

LEMMA SwapInMoreStep ==
    ASSUME NoWindow, CoreInv, SwapInMore
    PROVE  CoreInv'
<1>1. /\ raised = "no" /\ stage = "proactive"
      /\ UNCHANGED <<left, stage, rest, budget, pending>>
  BY DEF SwapInMore
<1>2. PICK i \in Candidates :
         LET g == rest[i]
         IN  /\ Room(g)
             /\ IF pinned = <<>>
                THEN /\ Raise("UnboundLocalError")
                     /\ UNCHANGED <<groupVars, pinned, take, need, uncharged, swapIn>>
                ELSE /\ SwapGroupIn(g)
                     /\ need' = need + Cardinality(Tabled(live[g]))
                     /\ pinned' = Append(pinned, g)
                     /\ take' = [take EXCEPT ![g] = Uncomputed(g)]
                     /\ uncharged' = uncharged \cup {g}
  BY DEF SwapInMore
<1>3. /\ BaseInv /\ TickTypes /\ TickInv
      /\ uncharged \subseteq Range(pinned) /\ Range(pinned) \in SUBSET Groups
      /\ Charged \in SUBSET Groups /\ uncharged \in SUBSET Groups
      /\ \A g \in Range(pinned) : phase[g] # "swapped"
      /\ pending = {} /\ In("appending") = {} /\ In("executing") = {}
  BY <1>1, ProactiveFacts
<1>4. PICK g \in Groups : g = rest[i] /\ phase[g] = "swapped" /\ rest # <<>>
  <2>1. i \in DOMAIN rest /\ phase[rest[i]] = "swapped"
    BY DEF Candidates
  <2>2. rest[i] \in Range(rest)
    BY <2>1 DEF Range
  <2>3. rest[i] \in Groups
    BY <1>3, <2>2, RangeOfSeq DEF TickTypes
  <2> QED
    BY <2>1, <2>2, <2>3, NobodyPinned
<1>5. CASE pinned = <<>>
  <2>1. Raise("UnboundLocalError") /\ UNCHANGED <<groupVars, pinned, take, need, uncharged>>
    BY <1>2, <1>5
  <2>2. ~NoneTooWide
    BY <1>1, <1>3, <1>4, <1>5 DEF TickInv, StageInv
  <2>3. TickTypes'
    <3>1. raised' = "UnboundLocalError"
      BY <2>1 DEF Raise
    <3> QED
      BY <1>1, <1>3, <2>1, <3>1 DEF TickTypes, Reasons
  <2> QED
    BY <1>1, <2>1, <2>2, <2>3, RaiseStep
<1>6. CASE pinned # <<>>
  <2> DEFINE held == Cardinality(Tabled(live[g]))
             n == Cardinality(live[g])
             F == Cardinality(FreeGpu)
             G == Cardinality(FreeGpu')
  <2>1. /\ Room(g) /\ SwapIn(live[g]) /\ SetPhase(g, "returned")
        /\ need' = need + held /\ pinned' = Append(pinned, g)
        /\ take' = [take EXCEPT ![g] = Uncomputed(g)]
        /\ uncharged' = uncharged \cup {g}
    BY <1>2, <1>4, <1>6 DEF SwapGroupIn
  <2>2. /\ held \in Nat /\ n \in Nat /\ n >= 1 /\ Uncomputed(g) \in Nat
    <3>1. /\ GroupInv(g) /\ held \in Nat /\ n \in Nat /\ (n = 0 <=> live[g] = {})
          /\ left[g] \in Nat
      BY <1>3, <1>4, GroupFacts
    <3>2. n # 0
      BY <1>4, <3>1 DEF GroupInv
    <3> QED
      BY <3>1, <3>2 DEF Uncomputed
  <2>3. /\ F \in Nat /\ G \in Nat /\ Watermark \in Nat /\ need \in Int
    BY <1>1, ProactiveFacts, FreeCount
  <2>4. /\ F - (held + n) >= Watermark /\ need + held + n < 0
    BY <2>1 DEF Room, CanSwapIn
  <2>5. held <= F /\ need' \in Int /\ need' <= -2
    <3>1. need' = need + held
      BY <2>1
    <3> HIDE DEF held, n, F, G
    <3> QED
      BY <2>2, <2>3, <2>4, <3>1
  <2>6. /\ BaseInv' /\ raised' = raised
        /\ \A h \in Groups \ {g} : Takes(h)' = Takes(h) /\ Wants(h)' = Wants(h)
        /\ Takes(g)' = n
        /\ G >= F - held
    <3>1. BaseInv /\ g \in Groups /\ phase[g] = "swapped" /\ UNCHANGED <<left, pending>>
      BY <1>1, <1>3, <1>4
    <3> QED
      BY <2>1, <2>5, <3>1, SwapInKeepsBase
  <2>7. /\ phase'[g] = "returned" /\ \A h \in Groups \ {g} : phase'[h] = phase[h]
        /\ \A q : q # "returned" => In(q)' = In(q) \ {g}
        /\ In("returned")' = In("returned") \cup {g} /\ live' = live
    BY <1>3, <2>1, SetPhaseFacts DEF Phases
  <2>8. g \notin Range(pinned) /\ g \notin Charged /\ g \notin uncharged
    BY <1>3, <1>4 DEF Charged
  <2>9. /\ pinned' \in Seq(Groups) /\ pinned' # <<>>
        /\ Range(pinned') = Range(pinned) \cup {g} /\ IsInjective(pinned')
    BY <1>3, <2>1, <2>8, Appended DEF TickTypes, TickInv, PinnedInv
  <2>10. Charged' = Charged
    BY <2>1, <2>8, <2>9 DEF Charged
  <2>11. TickTypes'
    <3>1. take' \in [Groups -> Nat] /\ uncharged' \subseteq Groups
      BY <1>3, <2>1, <2>2 DEF TickTypes
    <3>2. /\ raised' \in Reasons /\ stage' \in Steps /\ rest' \in Seq(Groups)
          /\ budget' \in [tokens : 0 .. TokenBudget, seqs : 0 .. MaxSeqs]
      BY <1>1, <1>3, <2>6 DEF TickTypes
    <3> QED
      BY <2>5, <2>9, <3>1, <3>2 DEF TickTypes
  <2>12. PinnedInv'
    <3>1. \A h \in Range(pinned') : phase'[h] \in {"waiting", "ready", "returned"}
      BY <1>1, <1>3, <2>7, <2>9 DEF TickInv, PinnedInv
    <3>2. \A h \in Range(pinned') \cap uncharged' : phase'[h] = "returned"
      BY <1>3, <2>1, <2>7, <2>9 DEF TickInv, PinnedInv
    <3>3. ASSUME NEW j \in DOMAIN pinned', NEW k \in DOMAIN pinned',
                 j < k, pinned'[j] \in uncharged'
          PROVE  pinned'[k] \in uncharged'
      <4>1. /\ pinned \in Seq(Groups) /\ DOMAIN pinned' = 1 .. Len(pinned) + 1
            /\ DOMAIN pinned = 1 .. Len(pinned) /\ Len(pinned) \in Nat
            /\ \A m \in 1 .. Len(pinned) : pinned'[m] = pinned[m]
            /\ pinned'[Len(pinned) + 1] = g
        BY <1>3, <2>1, AppendProperties, LenProperties DEF TickTypes
      <4>2. CASE k = Len(pinned) + 1
        BY <2>1, <4>1, <4>2
      <4>3. CASE k # Len(pinned) + 1
        <5>1. /\ j \in DOMAIN pinned /\ k \in DOMAIN pinned
              /\ pinned'[j] = pinned[j] /\ pinned'[k] = pinned[k]
          BY <3>3, <4>1, <4>3
        <5>2. pinned[j] # g
          BY <2>8, <5>1 DEF Range
        <5>3. pinned[k] \in uncharged
          BY <1>3, <2>1, <3>3, <5>1, <5>2 DEF TickInv, PinnedInv
        <5> QED
          BY <2>1, <5>1, <5>3
      <4> QED
        BY <4>2, <4>3
    <3> QED
      BY <1>1, <2>9, <3>1, <3>2, <3>3 DEF PinnedInv
  <2>13. PhasesInv'
    <3>1. pending' = {} /\ In("appending")' = {} /\ In("executing")' = {}
      BY <1>1, <1>3, <2>7
    <3>2. In("returned")' \subseteq Range(pinned')
      BY <1>3, <2>7, <2>9 DEF TickInv, PhasesInv
    <3>3. uncharged' \subseteq Range(pinned')
      BY <1>3, <2>1, <2>9
    <3> QED
      BY <1>1, <3>1, <3>2, <3>3 DEF PhasesInv
  <2>14. StageInv'
    BY <1>1, <2>9 DEF StageInv
  <2>15. RoomInv'
    <3> DEFINE T == Total(Taking, Charged)
               U == Total(Taking, uncharged)
               L == Cardinality(Lent)
    <3>1. /\ T <= need + F - Watermark /\ U <= L
          /\ T \in Nat /\ U \in Nat /\ L \in Nat /\ IsFiniteSet(Lent)
      BY <1>1, ProactiveFacts
    <3>2. Total(Taking', Charged) = T /\ Total(Taking', uncharged \cup {g}) = U + n
      <4> DEFINE D == uncharged \cup {g}
                 E == Charged
      <4>1. /\ BaseInv /\ g \in Groups /\ Takes(g)' \in Nat
            /\ E \in SUBSET Groups /\ D \in SUBSET Groups /\ g \notin E /\ g \in D
        BY <1>3, <2>2, <2>6, <2>8
      <4>2. \A h \in Groups \ {g} : Takes(h)' = Takes(h) /\ Wants(h)' = Wants(h)
        BY <2>6
      <4>3. D \ {g} = uncharged
        BY <2>8
      <4> HIDE DEF D, E
      <4>4. /\ Total(Taking', E) = Total(Taking, E)
            /\ Total(Taking', D) = Total(Taking, D \ {g}) + Takes(g)'
        BY <4>1, <4>2, Sums
      <4> QED
        BY <2>6, <4>3, <4>4 DEF D, E
    <3>3. Cardinality(Lent') = L + n
      <4>1. Lent' = Lent \cup live[g]
        BY <2>1, <2>7 DEF Lent
      <4>2. Lent \cap live[g] = {}
        BY <1>3, <2>8 DEF Lent, BaseInv
      <4>3. IsFiniteSet(live[g])
        BY <1>3, GroupFacts
      <4>4. Cardinality(Lent \cup live[g]) = Cardinality(Lent) + Cardinality(live[g])
        BY <3>1, <4>2, <4>3, DisjointUnion
      <4> QED
        BY <4>1, <4>4
    <3>4. need' = need + held
      BY <2>1
    <3>5. /\ stage' = "proactive" /\ Charged' = Charged /\ uncharged' = uncharged \cup {g}
      BY <1>1, <2>1, <2>10
    <3> HIDE DEF T, U, L, held, n
    <3>6. T <= need' + G - Watermark /\ U + n <= L + n /\ need' <= 0
      <4> HIDE DEF F, G
      <4> QED
        BY <2>2, <2>3, <2>5, <2>6, <3>1, <3>4
    <3> QED
      BY <2>5, <3>2, <3>3, <3>5, <3>6 DEF RoomInv
  <2>16. ExecuteInv'
    BY <1>1 DEF ExecuteInv
  <2> QED
    BY <1>1, <2>6, <2>11, <2>12, <2>13, <2>14, <2>15, <2>16, NoneRaised DEF CoreInv, TickInv
<1> QED
  BY <1>5, <1>6

LEMMA EndProactiveStep ==
    ASSUME NoWindow, CoreInv, EndProactive
    PROVE  CoreInv'
<1>1. /\ raised = "no" /\ stage = "proactive" /\ stage' = "execute"
      /\ UNCHANGED <<table, ref, free, raised, groupVars, left, pinned, rest, take, budget,
                     need, uncharged, pending>>
  BY DEF EndProactive, blockVars
<1>2. /\ BaseInv /\ TickTypes /\ TickInv
      /\ uncharged \subseteq Range(pinned)
      /\ Range(pinned) = Charged \cup uncharged /\ Charged \cap uncharged = {}
      /\ Charged \in SUBSET Groups /\ uncharged \in SUBSET Groups
      /\ pending = {} /\ Taking \in [Groups -> Nat]
  BY <1>1, ProactiveFacts
<1>3. /\ BaseInv' /\ phase' = phase /\ live' = live /\ Taking' = Taking /\ FreeGpu' = FreeGpu
      /\ \A q : In(q)' = In(q)
  BY <1>1, <1>2, SameKeepsBase DEF In
<1>4. TickTypes'
  BY <1>1, <1>2 DEF TickTypes, Steps
<1>5. PinnedInv'
  BY <1>1, <1>2, <1>3 DEF PinnedInv, TickInv
<1>6. PhasesInv'
  BY <1>1, <1>2, <1>3 DEF PhasesInv, TickInv
<1>7. StageInv'
  BY <1>1, <1>2 DEF StageInv, TickInv
<1>8. RoomInv'
  BY <1>1 DEF RoomInv
<1>9. ExecuteInv'
  <2> DEFINE T == Total(Taking, Charged)
             U == Total(Taking, uncharged)
             F == Cardinality(FreeGpu)
             L == Cardinality(Lent)
  <2>1. /\ T <= need + F - Watermark /\ U <= L /\ (uncharged # {} => need <= -2)
        /\ T \in Nat /\ U \in Nat /\ L \in Nat /\ F \in Nat /\ Watermark \in Nat
        /\ need \in Int /\ need <= 0
    BY <1>1, ProactiveFacts
  <2>2. Total(Taking, Range(pinned)) = T + U
    BY <1>2, TotalUnion
  <2>3. uncharged = {} => U = 0
    BY <1>2, TotalFacts
  <2>4. /\ Total(Taking', Charged') = T /\ Total(Taking', Range(pinned')) = T + U
        /\ Cardinality(FreeGpu') = F /\ Cardinality(pending') = 0 /\ Cardinality(Lent') = L
    BY <1>1, <1>2, <1>3, <2>2, FS_EmptySet DEF Charged, Lent
  <2> HIDE DEF T, U, F, L
  <2>5. T <= F - Watermark /\ (L <= Watermark + 2 => T + U <= F)
    <3>1. CASE uncharged = {}
      BY <2>1, <2>3, <3>1
    <3>2. CASE uncharged # {}
      BY <2>1, <3>2
    <3> QED
      BY <3>1, <3>2
  <2>6. 0 <= F /\ T + 0 = T /\ T + U + 0 = T + U
    BY <2>1
  <2> QED
    BY <2>4, <2>5, <2>6 DEF ExecuteInv
<1> QED
  BY <1>1, <1>2, <1>3, <1>4, <1>5, <1>6, <1>7, <1>8, <1>9, NoneRaised DEF CoreInv, TickInv

-----------------------------------------------------------------------------
(* Execution.                                                                 *)

\* What the execution of the groups starts from.
LEMMA ExecuteFacts ==
    ASSUME CoreInv, raised = "no", stage = "execute"
    PROVE  /\ BaseInv /\ TickTypes /\ TickInv
           /\ pinned \in Seq(Groups) /\ IsInjective(pinned)
           /\ Range(pinned) \in SUBSET Groups /\ Charged \in SUBSET Groups
           /\ Cardinality(FreeGpu) \in Nat /\ Watermark \in Nat
           /\ IsFiniteSet(pending) /\ Cardinality(pending) \in Nat
           /\ Cardinality(pending) <= Cardinality(FreeGpu)
           /\ Charged # {} => Total(Taking, Charged) + Cardinality(pending)
                                <= Cardinality(FreeGpu) - Watermark
           /\ Cardinality(Lent) <= Watermark + 2 =>
                Total(Taking, Range(pinned)) + Cardinality(pending) <= Cardinality(FreeGpu)
           /\ Taking \in [Groups -> Nat] /\ Cardinality(Lent) \in Nat
<1>1. BaseInv /\ TickTypes /\ TickInv
  BY DEF CoreInv
<1>2. pinned \in Seq(Groups) /\ IsInjective(pinned)
  BY <1>1 DEF TickTypes, TickInv, PinnedInv
<1>3. Range(pinned) \in SUBSET Groups /\ Charged \in SUBSET Groups
  BY <1>2, RangeOfSeq DEF Charged
<1>4. Cardinality(FreeGpu) \in Nat /\ Watermark \in Nat
  BY <1>1, FreePools, WindowAssumption DEF BaseInv
<1>5. Taking \in [Groups -> Nat]
  BY <1>1, TakingTypes
<1>6. IsFiniteSet(pending) /\ Cardinality(pending) \in Nat
  <2>1. pending \in SUBSET Seqs /\ IsFiniteSet(Seqs)
    BY <1>1, DevicesAssumption DEF BaseInv
  <2> QED
    BY <2>1, FS_Subset, FS_CardinalityType
<1>7. /\ Cardinality(pending) <= Cardinality(FreeGpu)
      /\ Charged # {} => Total(Taking, Charged) + Cardinality(pending)
                           <= Cardinality(FreeGpu) - Watermark
      /\ Cardinality(Lent) <= Watermark + 2 =>
           Total(Taking, Range(pinned)) + Cardinality(pending) <= Cardinality(FreeGpu)
  BY <1>1 DEF TickInv, ExecuteInv
<1>8. Cardinality(Lent) \in Nat
  <2>1. Lent \in SUBSET Seqs
    BY <1>1 DEF Lent, BaseInv, GroupsTypeOK, TickTypes
  <2>2. IsFiniteSet(Lent)
    BY <2>1, DevicesAssumption, FS_Subset
  <2> QED
    BY <2>2, FS_CardinalityType
<1> QED
  BY <1>1, <1>2, <1>3, <1>4, <1>5, <1>6, <1>7, <1>8

\* Executing the first group keeps the order of the groups behind it.
LEMMA ShiftPinned ==
    ASSUME CoreInv, raised = "no", stage = "execute", pinned # <<>>,
           NEW g \in Groups, g = Head(pinned), pinned' = Tail(pinned),
           \A h \in Groups \ {g} : phase'[h] = phase[h],
           stage' = stage, uncharged' = uncharged
    PROVE  /\ pinned' \in Seq(Groups) /\ g \in Range(pinned)
           /\ Range(pinned') = Range(pinned) \ {g} /\ Charged' = Charged \ {g}
           /\ PinnedInv'
           /\ g \in uncharged => Charged = {}
<1>1. BaseInv /\ TickTypes /\ PinnedInv /\ pinned \in Seq(Groups) /\ IsInjective(pinned)
  BY ExecuteFacts DEF TickInv
<1>2. /\ Head(pinned) \in Range(pinned)
      /\ Tail(pinned) \in Seq(Groups) /\ IsInjective(Tail(pinned))
      /\ Range(Tail(pinned)) = Range(pinned) \ {Head(pinned)}
      /\ Len(pinned) \in Nat /\ Len(pinned) >= 1 /\ Head(pinned) = pinned[1]
      /\ DOMAIN pinned = 1 .. Len(pinned)
      /\ DOMAIN Tail(pinned) = 1 .. Len(pinned) - 1
      /\ \A i \in DOMAIN Tail(pinned) : i + 1 \in DOMAIN pinned /\ Tail(pinned)[i] = pinned[i + 1]
  BY <1>1, Beheaded
<1>3. Range(pinned') = Range(pinned) \ {g} /\ g \in Range(pinned)
  BY <1>2
<1>4. Charged' = Charged \ {g}
  BY <1>3 DEF Charged
<1>5. \A h \in Range(pinned') : h \in Range(pinned) /\ phase'[h] = phase[h]
  BY <1>1, <1>3, RangeOfSeq
<1>6. ASSUME NEW i \in DOMAIN pinned', NEW j \in DOMAIN pinned', i < j, pinned'[i] \in uncharged'
      PROVE  pinned'[j] \in uncharged'
  <2>1. /\ i + 1 \in DOMAIN pinned /\ j + 1 \in DOMAIN pinned /\ i + 1 < j + 1
        /\ pinned'[i] = pinned[i + 1] /\ pinned'[j] = pinned[j + 1]
    BY <1>2, <1>6
  <2> QED
    BY <1>1, <1>6, <2>1 DEF PinnedInv
<1>7. PinnedInv'
  <2>1. /\ \A h \in Range(pinned') : phase'[h] \in {"waiting", "ready", "swapped", "returned"}
        /\ \A h \in Range(pinned') : phase'[h] # "swapped"
        /\ \A h \in Range(pinned') \cap uncharged' : phase'[h] = "returned"
    BY <1>1, <1>5 DEF PinnedInv
  <2>2. IsInjective(pinned')
    BY <1>2
  <2> QED
    BY <1>6, <2>1, <2>2 DEF PinnedInv
<1>8. ASSUME g \in uncharged PROVE Charged = {}
  <2>1. ASSUME NEW j \in DOMAIN pinned PROVE pinned[j] \in uncharged
    <3>1. CASE j = 1
      BY <1>2, <1>8, <3>1
    <3>2. CASE j # 1
      <4>1. 1 \in DOMAIN pinned /\ 1 < j /\ pinned[1] \in uncharged
        BY <1>2, <1>8, <3>2
      <4> QED
        BY <1>1, <4>1 DEF PinnedInv
    <3> QED
      BY <3>1, <3>2
  <2> QED
    BY <2>1 DEF Charged, Range
<1> QED
  BY <1>2, <1>3, <1>4, <1>7, <1>8

LEMMA StartPromptStep ==
    ASSUME NoWindow, CoreInv, StartPrompt
    PROVE  CoreInv'
<1>1. /\ raised = "no" /\ stage = "execute" /\ pending = {} /\ pinned # <<>>
      /\ pinned' = Tail(pinned)
      /\ UNCHANGED <<left, stage, rest, take, budget, need, uncharged, pending>>
  BY DEF StartPrompt, Starting
<1>2. /\ BaseInv /\ TickTypes /\ TickInv
      /\ pinned \in Seq(Groups) /\ IsInjective(pinned)
      /\ Range(pinned) \in SUBSET Groups /\ Charged \in SUBSET Groups
      /\ Taking \in [Groups -> Nat]
  BY <1>1, ExecuteFacts
<1>3. PICK g \in Groups : g = Head(pinned) /\ g \in Range(pinned)
  BY <1>1, <1>2, Beheaded
<1> DEFINE n == LogicalBlocks(g)
           F == Cardinality(FreeGpu)
           G == Cardinality(FreeGpu')
           R == Range(pinned)
           C == Charged
<1>4. /\ phase[g] = "waiting"
      /\ IF CanAllocate(n) = "OK"
         THEN Allocate(live[g], n, NumSeqs(g)) /\ SetPhase(g, "executing")
         ELSE Raise("AssertionError") /\ UNCHANGED groupVars
  BY <1>3 DEF StartPrompt
<1>5. g \in C
  BY <1>2, <1>3, <1>4 DEF TickInv, PinnedInv, Charged
<1>6. /\ Taking[g] = n /\ n \in Nat /\ F \in Nat /\ G \in Nat /\ Watermark \in Nat
      /\ F <= Cardinality(GpuBlocks) /\ Cardinality(GpuBlocks) \in Nat
      /\ Cardinality(pending) = 0
  <2>1. Taking[g] = n /\ n \in Nat
    BY <1>2, <1>4, TakingTypes, GroupFacts DEF Takes
  <2>2. FreeGpu \in SUBSET GpuBlocks /\ IsFiniteSet(GpuBlocks)
    BY DevicesAssumption DEF FreeGpu
  <2>3. F \in Nat /\ F <= Cardinality(GpuBlocks) /\ Cardinality(GpuBlocks) \in Nat
    BY <2>2, FS_Subset, FS_CardinalityType
  <2> QED
    BY <1>1, <2>1, <2>3, FreeCount, WindowAssumption, FS_EmptySet
<1>7. /\ Total(Taking, C) <= F - Watermark
      /\ Total(Taking, C) = Total(Taking, C \ {g}) + n
      /\ Total(Taking, R) = Total(Taking, R \ {g}) + n
      /\ Total(Taking, C \ {g}) \in Nat /\ Total(Taking, R \ {g}) \in Nat
      /\ Cardinality(Lent) <= Watermark + 2 => Total(Taking, R) <= F
  <2>1. /\ Charged # {} => Total(Taking, Charged) + Cardinality(pending) <= F - Watermark
        /\ Cardinality(Lent) <= Watermark + 2 =>
             Total(Taking, Range(pinned)) + Cardinality(pending) <= F
    BY <1>1, ExecuteFacts
  <2>2. C # {} /\ C \in SUBSET Groups /\ R \in SUBSET Groups /\ g \in R
    BY <1>2, <1>3, <1>5
  <2>3. /\ C # {} => Total(Taking, C) + 0 <= F - Watermark
        /\ Cardinality(Lent) <= Watermark + 2 => Total(Taking, R) + 0 <= F
    BY <1>6, <2>1
  <2> HIDE DEF C, R, F, n
  <2>4. /\ Total(Taking, C) = Total(Taking, C \ {g}) + Taking[g]
        /\ Total(Taking, R) = Total(Taking, R \ {g}) + Taking[g]
    BY <1>2, <1>5, <2>2, TotalRemove
  <2>5. /\ Total(Taking, C \ {g}) \in Nat /\ Total(Taking, R \ {g}) \in Nat
        /\ Total(Taking, C) \in Nat /\ Total(Taking, R) \in Nat
    BY <1>2, <2>2, TotalFacts
  <2> QED
    BY <1>6, <2>2, <2>3, <2>4, <2>5
<1>8. CanAllocate(n) = "OK" /\ n <= F
  <2> DEFINE T == Total(Taking, C \ {g})
             A == Cardinality(GpuBlocks)
  <2>1. T + n <= F - Watermark /\ T \in Nat
    BY <1>7
  <2>2. InWindow(n) = n
    BY DEF InWindow, NoWindow
  <2>3. n \in Nat /\ F \in Nat /\ A \in Nat /\ F <= A /\ Watermark \in Nat
    BY <1>6
  <2>4. CanAllocate(n) = CASE A - n < Watermark -> "NEVER"
                           [] F - n >= Watermark -> "OK"
                           [] OTHER -> "LATER"
    BY <2>2 DEF CanAllocate
  <2> HIDE DEF T, n, F, A
  <2> QED
    BY <2>1, <2>3, <2>4
<1>9. Allocate(live[g], n, NumSeqs(g)) /\ SetPhase(g, "executing")
  BY <1>4, <1>8
<1>10. /\ BaseInv' /\ raised' = raised
       /\ \A h \in Groups \ {g} : Takes(h)' = Takes(h) /\ Wants(h)' = Wants(h)
       /\ Takes(g)' = Cardinality(live[g]) /\ G >= F - n
  <2>1. BaseInv /\ phase[g] = "waiting" /\ UNCHANGED <<left, pending>>
    BY <1>1, <1>2, <1>4
  <2> QED
    BY <1>8, <1>9, <2>1, AllocateKeepsBase
<1>11. /\ phase'[g] = "executing" /\ \A h \in Groups \ {g} : phase'[h] = phase[h]
       /\ \A q : q # "executing" => In(q)' = In(q) \ {g}
       /\ In("executing")' = In("executing") \cup {g} /\ live' = live
  BY <1>2, <1>9, SetPhaseFacts DEF Phases
<1>12. /\ pinned' \in Seq(Groups) /\ Range(pinned') = R \ {g} /\ Charged' = C \ {g}
       /\ PinnedInv'
  BY <1>1, <1>3, <1>11, ShiftPinned
<1>13. TickTypes'
  BY <1>1, <1>2, <1>10, <1>12 DEF TickTypes
<1>14. PhasesInv'
  <2>1. /\ In("returned") \subseteq R
        /\ uncharged \subseteq R \cup In("appending") \cup In("executing")
        /\ In("appending") = {}
    BY <1>1, <1>2 DEF TickInv, PhasesInv
  <2>2. In("returned")' \subseteq Range(pinned') /\ In("appending")' = {}
    BY <1>11, <1>12, <2>1
  <2>3. uncharged' \subseteq Range(pinned') \cup In("appending")' \cup In("executing")'
    BY <1>1, <1>11, <1>12, <2>1
  <2> QED
    BY <1>1, <2>2, <2>3 DEF PhasesInv
<1>15. StageInv'
  BY <1>1 DEF StageInv
<1>16. RoomInv'
  BY <1>1 DEF RoomInv
<1>17. ExecuteInv'
  <2> DEFINE T == Total(Taking, C \ {g})
             U == Total(Taking, R \ {g})
             L == Cardinality(Lent)
  <2>1. Total(Taking', C \ {g}) = T /\ Total(Taking', R \ {g}) = U
    <3>1. \A h \in Groups \ {g} : Taking'[h] = Taking[h]
      BY <1>10 DEF Taking
    <3>2. C \ {g} \subseteq Groups \ {g} /\ R \ {g} \subseteq Groups \ {g}
      BY <1>2
    <3> QED
      BY <3>1, <3>2, TotalSame
  <2>2. /\ T + n <= F - Watermark /\ (L <= Watermark + 2 => U + n <= F)
        /\ T \in Nat /\ U \in Nat
    BY <1>7
  <2>3. n \in Nat /\ F \in Nat /\ G \in Nat /\ G >= F - n /\ Watermark \in Nat
    BY <1>6, <1>10
  <2>4. Lent' = Lent
    BY <1>1, <1>11 DEF Lent
  <2>5. /\ Total(Taking', Charged') = T /\ Total(Taking', Range(pinned')) = U
        /\ Cardinality(FreeGpu') = G /\ Cardinality(pending') = 0 /\ Cardinality(Lent') = L
    BY <1>1, <1>6, <1>12, <2>1, <2>4
  <2> HIDE DEF T, U, L, n, F, G
  <2>6. /\ 0 <= G /\ T + 0 <= G - Watermark /\ (L <= Watermark + 2 => U + 0 <= G)
    BY <2>2, <2>3
  <2> QED
    BY <2>5, <2>6 DEF ExecuteInv
<1> QED
  BY <1>1, <1>10, <1>12, <1>13, <1>14, <1>15, <1>16, <1>17, NoneRaised DEF CoreInv, TickInv

LEMMA ContinueStep ==
    ASSUME NoWindow, CoreInv, Continue
    PROVE  CoreInv'
<1>1. /\ raised = "no" /\ stage = "execute" /\ pending = {} /\ pinned # <<>>
      /\ pinned' = Tail(pinned)
      /\ UNCHANGED <<left, stage, rest, take, budget, need, uncharged>>
  BY DEF Continue, Starting
<1>2. /\ BaseInv /\ TickTypes /\ TickInv
      /\ pinned \in Seq(Groups) /\ IsInjective(pinned)
      /\ Range(pinned) \in SUBSET Groups /\ Charged \in SUBSET Groups
      /\ Taking \in [Groups -> Nat] /\ Cardinality(Lent) \in Nat
  BY <1>1, ExecuteFacts
<1>3. PICK g \in Groups : g = Head(pinned) /\ g \in Range(pinned)
  BY <1>1, <1>2, Beheaded
<1> DEFINE n == Cardinality(live[g])
           F == Cardinality(FreeGpu)
           L == Cardinality(Lent)
           R == Range(pinned)
           C == Charged
<1>4. /\ phase[g] \in {"ready", "returned"}
      /\ \/ /\ CanAppendSlots(live[g])
            /\ SetPhase(g, "appending") /\ pending' = live[g]
            /\ UNCHANGED blockVars
         \/ /\ ~CanAppendSlots(live[g]) \/ ManyTokens(g)
            /\ Raise(IF CanAppendSlots(live[g]) THEN "NotOneToken" ELSE "AssertionError")
            /\ UNCHANGED <<groupVars, pending>>
  BY <1>3 DEF Continue
<1>5. /\ Taking[g] = n /\ n \in Nat /\ F \in Nat /\ Watermark \in Nat
      /\ Cardinality(pending) = 0 /\ live[g] # {}
  <2>1. Taking[g] = n /\ n \in Nat
    BY <1>2, <1>4, TakingTypes, GroupFacts DEF Takes
  <2>2. F \in Nat
    BY <1>1, ExecuteFacts
  <2>3. live[g] # {}
    BY <1>2, <1>4, GroupFacts DEF GroupInv
  <2> QED
    BY <1>1, <2>1, <2>2, <2>3, WindowAssumption, FS_EmptySet
<1>6. /\ C # {} => Total(Taking, C) <= F - Watermark
      /\ L <= Watermark + 2 => Total(Taking, R) <= F
      /\ g \in C => Total(Taking, C) = Total(Taking, C \ {g}) + n
      /\ Total(Taking, R) = Total(Taking, R \ {g}) + n
      /\ Total(Taking, C \ {g}) \in Nat /\ Total(Taking, R \ {g}) \in Nat
  <2>1. /\ Charged # {} => Total(Taking, Charged) + Cardinality(pending) <= F - Watermark
        /\ L <= Watermark + 2 => Total(Taking, Range(pinned)) + Cardinality(pending) <= F
    BY <1>1, ExecuteFacts
  <2>2. C \in SUBSET Groups /\ R \in SUBSET Groups /\ g \in R
    BY <1>2, <1>3
  <2>3. /\ C # {} => Total(Taking, C) + 0 <= F - Watermark
        /\ L <= Watermark + 2 => Total(Taking, R) + 0 <= F
    BY <1>5, <2>1
  <2> HIDE DEF C, R, F, n, L
  <2>4. /\ g \in C => Total(Taking, C) = Total(Taking, C \ {g}) + Taking[g]
        /\ Total(Taking, R) = Total(Taking, R \ {g}) + Taking[g]
    BY <1>2, <2>2, TotalRemove
  <2>5. /\ Total(Taking, C \ {g}) \in Nat /\ Total(Taking, R \ {g}) \in Nat
        /\ Total(Taking, C) \in Nat /\ Total(Taking, R) \in Nat
    BY <1>2, <2>2, TotalFacts
  <2> QED
    BY <1>5, <2>3, <2>4, <2>5
\* Without room there must be too many groups that nobody was charged for.
<1>7. CASE /\ ~CanAppendSlots(live[g]) \/ ManyTokens(g)
           /\ Raise(IF CanAppendSlots(live[g]) THEN "NotOneToken" ELSE "AssertionError")
           /\ UNCHANGED <<groupVars, pending>>
  <2>1. ~CanAppendSlots(live[g]) => L > Watermark + 2
    <3>1. SUFFICES ASSUME ~(n <= F), L <= Watermark + 2 PROVE FALSE
      BY <1>2, <1>5 DEF CanAppendSlots
    <3> DEFINE U == Total(Taking, R \ {g})
    <3>2. U + n <= F /\ U \in Nat
      BY <1>6, <3>1
    <3> HIDE DEF U, n, F, L
    <3> QED
      BY <1>5, <3>1, <3>2
  <2>2. pinned' \in Seq(Groups)
    BY <1>1, <1>2, Beheaded
  <2>3. PICK why \in {"NotOneToken", "AssertionError"} :
           /\ Raise(why)
           /\ why = "AssertionError" => ~CanAppendSlots(live[g])
    BY <1>7
  <2>4. TickTypes'
    <3>1. raised' \in Reasons
      BY <2>3 DEF Raise, Reasons
    <3> QED
      BY <1>1, <1>2, <2>2, <3>1 DEF TickTypes
  <2>5. /\ why \in {"AssertionError", "NoSwapSpace", "NotOneToken", "UnboundLocalError"}
        /\ why = "AssertionError" /\ LargeEnough => Cardinality(Lent) > Watermark + 2
        /\ why = "UnboundLocalError" => ~NoneTooWide
    BY <2>1, <2>3
  <2> QED
    BY <1>1, <1>7, <2>3, <2>4, <2>5, RaiseStep
<1>8. CASE /\ CanAppendSlots(live[g])
           /\ SetPhase(g, "appending") /\ pending' = live[g]
           /\ UNCHANGED blockVars
  <2>1. UNCHANGED <<table, ref, free, raised>> /\ In("appending") = {}
    BY <1>1, <1>2, <1>8 DEF blockVars, TickInv, PhasesInv
  <2>2. /\ BaseInv' /\ FreeGpu' = FreeGpu
        /\ \A h \in Groups \ {g} : Takes(h)' = Takes(h) /\ Wants(h)' = Wants(h)
    BY <1>1, <1>2, <1>4, <1>8, <2>1, StartAppendKeepsBase
  <2>3. /\ phase'[g] = "appending" /\ \A h \in Groups \ {g} : phase'[h] = phase[h]
        /\ \A q : q # "appending" => In(q)' = In(q) \ {g}
        /\ In("appending")' = In("appending") \cup {g} /\ live' = live
    BY <1>2, <1>8, SetPhaseFacts DEF Phases
  <2>4. /\ pinned' \in Seq(Groups) /\ Range(pinned') = R \ {g} /\ Charged' = C \ {g}
        /\ PinnedInv' /\ (g \in uncharged => Charged = {})
    BY <1>1, <1>3, <2>3, ShiftPinned
  <2>5. TickTypes'
    BY <1>1, <1>2, <2>1, <2>4 DEF TickTypes
  <2>6. PhasesInv'
    <3>1. /\ In("returned") \subseteq R
          /\ uncharged \subseteq R \cup In("appending") \cup In("executing")
      BY <1>2 DEF TickInv, PhasesInv
    <3>2. In("returned")' \subseteq Range(pinned') /\ In("appending")' = {g}
      BY <2>1, <2>3, <2>4, <3>1
    <3>3. uncharged' \subseteq Range(pinned') \cup In("appending")' \cup In("executing")'
      BY <1>1, <2>1, <2>3, <2>4, <3>1
    <3>4. pending' # {}
      BY <1>5, <1>8
    <3> QED
      BY <1>1, <3>2, <3>3, <3>4 DEF PhasesInv
  <2>7. StageInv'
    BY <1>1 DEF StageInv
  <2>8. RoomInv'
    BY <1>1 DEF RoomInv
  <2>9. ExecuteInv'
    <3> DEFINE T == Total(Taking, C \ {g})
               U == Total(Taking, R \ {g})
    <3>1. Total(Taking', C \ {g}) = T /\ Total(Taking', R \ {g}) = U
      <4>1. \A h \in Groups \ {g} : Taking'[h] = Taking[h]
        BY <2>2 DEF Taking
      <4>2. C \ {g} \subseteq Groups \ {g} /\ R \ {g} \subseteq Groups \ {g}
        BY <1>2
      <4> QED
        BY <4>1, <4>2, TotalSame
    <3>2. n <= F
      BY <1>8 DEF CanAppendSlots
    <3>3. C \ {g} # {} => g \in C
      BY <1>3, <2>4 DEF Charged
    <3>4. /\ C \ {g} # {} => T + n <= F - Watermark
          /\ L <= Watermark + 2 => U + n <= F
      BY <1>6, <3>3
    <3>5. Lent' = Lent
      BY <1>1, <2>3 DEF Lent
    <3>6. /\ Charged' = C \ {g}
          /\ Total(Taking', Charged') = T /\ Total(Taking', Range(pinned')) = U
          /\ Cardinality(FreeGpu') = F /\ Cardinality(pending') = n /\ Cardinality(Lent') = L
      BY <1>8, <2>2, <2>4, <3>1, <3>5
    <3> HIDE DEF T, U, n, F, L
    <3> QED
      BY <3>2, <3>4, <3>6 DEF ExecuteInv
  <2> QED
    BY <1>1, <2>1, <2>2, <2>4, <2>5, <2>6, <2>7, <2>8, <2>9, NoneRaised DEF CoreInv, TickInv
<1> QED
  BY <1>4, <1>7, <1>8

LEMMA AppendSlotStep ==
    ASSUME NoWindow, CoreInv, NEW s \in Seqs, AppendSlot(s)
    PROVE  CoreInv'
<1>1. /\ raised = "no" /\ s \in pending /\ pending' = pending \ {s}
      /\ UNCHANGED <<left, stage, pinned, rest, take, budget, need, uncharged>>
  BY DEF AppendSlot
<1>2. PICK g \in In("appending") :
         /\ AppendSlots(s, LogicalBlocks(g))
         /\ IF pending = {s} THEN SetPhase(g, "executing") ELSE UNCHANGED groupVars
  BY DEF AppendSlot
<1>3. stage = "execute"
  BY <1>1 DEF CoreInv, TickInv, PhasesInv
<1>4. /\ BaseInv /\ TickTypes /\ TickInv
      /\ Range(pinned) \in SUBSET Groups /\ Charged \in SUBSET Groups
      /\ Taking \in [Groups -> Nat]
  BY <1>1, <1>3, ExecuteFacts
<1>5. /\ g \in Groups /\ phase[g] = "appending" /\ g \notin Range(pinned)
      /\ \A h, k \in In("appending") : h = k
  BY <1>2, <1>4 DEF TickInv, PinnedInv, PhasesInv, In
<1> DEFINE p == Cardinality(pending)
           q == Cardinality(pending')
           F == Cardinality(FreeGpu)
           G == Cardinality(FreeGpu')
           T == Total(Taking, Charged)
           U == Total(Taking, Range(pinned))
           L == Cardinality(Lent)
<1>6. /\ p <= F /\ (Charged # {} => T + p <= F - Watermark)
      /\ (L <= Watermark + 2 => U + p <= F) /\ F \in Nat /\ Watermark \in Nat
  BY <1>1, <1>3, ExecuteFacts
<1>7. /\ BaseInv' /\ raised' = raised
      /\ \A h \in Groups : Takes(h)' = Takes(h)
      /\ G >= F - 1 /\ q = p - 1 /\ p \in Nat
  BY <1>1, <1>2, <1>4, <1>5, <1>6, AppendSlotKeepsBase
<1>8. /\ live' = live /\ \A h \in Groups \ {g} : phase'[h] = phase[h]
      /\ In("returned")' = In("returned") /\ In("executing") \subseteq In("executing")'
      /\ In("appending")' \cup In("executing")' = In("appending") \cup In("executing")
      /\ In("appending")' = {} <=> pending = {s}
      /\ In("appending")' \subseteq In("appending")
  <2>1. CASE pending = {s}
    <3>1. SetPhase(g, "executing")
      BY <1>2, <2>1
    <3>2. /\ phase'[g] = "executing" /\ \A h \in Groups \ {g} : phase'[h] = phase[h]
          /\ \A r : r # "executing" => In(r)' = In(r) \ {g}
          /\ In("executing")' = In("executing") \cup {g} /\ live' = live
      BY <1>4, <1>5, <3>1, SetPhaseFacts DEF Phases
    <3>3. In("returned") \ {g} = In("returned") /\ In("appending") \ {g} = {}
      BY <1>2, <1>5 DEF In
    <3> QED
      BY <1>2, <2>1, <3>2, <3>3
  <2>2. CASE pending # {s}
    <3>1. phase' = phase /\ live' = live
      BY <1>2, <2>2 DEF groupVars
    <3>2. \A r : In(r)' = In(r)
      BY <3>1 DEF In
    <3>3. In("appending") # {}
      BY <1>2
    <3> QED
      BY <2>2, <3>1, <3>2, <3>3
  <2> QED
    BY <2>1, <2>2
<1>9. TickTypes'
  BY <1>1, <1>4, <1>7 DEF TickTypes
<1>10. PinnedInv'
  <2>1. \A h \in Range(pinned) : phase'[h] = phase[h]
    BY <1>4, <1>5, <1>8
  <2> QED
    BY <1>1, <1>3, <1>4, <2>1 DEF PinnedInv, TickInv
<1>11. PhasesInv'
  <2>1. pending' = {} <=> pending = {s}
    BY <1>1
  <2>2. /\ In("returned") \subseteq Range(pinned)
        /\ uncharged \subseteq Range(pinned) \cup In("appending") \cup In("executing")
    BY <1>4 DEF TickInv, PhasesInv
  <2>3. \A h, k \in In("appending")' : h = k
    BY <1>5, <1>8
  <2>4. uncharged' \subseteq Range(pinned') \cup In("appending")' \cup In("executing")'
    BY <1>1, <1>8, <2>2
  <2>5. In("returned")' \subseteq Range(pinned')
    BY <1>1, <1>8, <2>2
  <2>6. pending' = {} <=> In("appending")' = {}
    BY <1>8, <2>1
  <2> QED
    BY <1>1, <1>3, <2>3, <2>4, <2>5, <2>6 DEF PhasesInv
<1>12. StageInv'
  BY <1>1, <1>3 DEF StageInv
<1>13. RoomInv'
  BY <1>1, <1>3 DEF RoomInv
<1>14. ExecuteInv'
  <2>1. Taking' = Taking /\ Charged' = Charged /\ Lent' = Lent
    BY <1>1, <1>7, <1>8 DEF Taking, Charged, Lent
  <2>2. T \in Nat /\ U \in Nat /\ G \in Nat
    BY <1>4, TotalFacts, FreeCount
  <2>3. /\ Total(Taking', Charged') = T /\ Total(Taking', Range(pinned')) = U
        /\ Cardinality(FreeGpu') = G /\ Cardinality(pending') = q /\ Cardinality(Lent') = L
    BY <1>1, <2>1
  <2> HIDE DEF T, U, p, q, F, G, L
  <2>4. /\ q <= G /\ (Charged # {} => T + q <= G - Watermark)
        /\ (L <= Watermark + 2 => U + q <= G)
    BY <1>6, <1>7, <2>2
  <2> QED
    BY <2>1, <2>3, <2>4 DEF ExecuteInv
<1> QED
  BY <1>1, <1>4, <1>7, <1>9, <1>10, <1>11, <1>12, <1>13, <1>14, NoneRaised DEF CoreInv, TickInv

-----------------------------------------------------------------------------
(* The worker's copies and the contents of the blocks.                        *)

Contents == {Nobody} \cup (Groups \X (Nat \ {0}))

\* A swap pairs blocks of the devices it moves between.
LEMMA WhereTypes ==
    ASSUME NEW A, NEW B, NEW g,
           \A s \in live[g] : /\ Len(table'[s]) = Len(table[s])
                              /\ table[s] \in Seq(A) /\ table'[s] \in Seq(B)
    PROVE  Where(g) \subseteq A \X B
<1>1. ASSUME NEW s \in live[g], NEW i \in DOMAIN table[s]
      PROVE  table[s][i] \in A /\ table'[s][i] \in B
  <2>1. /\ DOMAIN table[s] = 1 .. Len(table[s]) /\ Len(table'[s]) = Len(table[s])
        /\ table[s] \in Seq(A) /\ table'[s] \in Seq(B)
    BY LenProperties
  <2> QED
    BY <2>1, ElementOfSeq
<1> QED
  BY <1>1 DEF Where

LEMMA OutTypes ==
    ASSUME NoWindow, BaseInv, CacheTypes, NEW g \in Groups, phase[g] = "ready",
           SwapGroupOut(g), UNCHANGED <<left, pending>>
    PROVE  swapOut' \subseteq GpuBlocks \X CpuBlocks
<1>1. CASE CanSwapOut(live[g])
  <2>1. SwapOut(live[g]) /\ SetPhase(g, "swapped") /\ swapOut' = swapOut \cup Where(g)
    BY <1>1 DEF SwapGroupOut
  <2>2. \A s \in live[g] : /\ Len(table'[s]) = Len(table[s])
                           /\ table[s] \in Seq(GpuBlocks) /\ table'[s] \in Seq(CpuBlocks)
    BY <1>1, <2>1, SwapOutKeepsBase
  <2>3. Where(g) \subseteq GpuBlocks \X CpuBlocks
    BY <2>2, WhereTypes
  <2> QED
    BY <2>1, <2>3 DEF CacheTypes
<1>2. CASE ~CanSwapOut(live[g])
  BY <1>2 DEF SwapGroupOut, CacheTypes
<1> QED
  BY <1>1, <1>2

LEMMA InTypes ==
    ASSUME NoWindow, BaseInv, CacheTypes, NEW g \in Groups, phase[g] = "swapped",
           SwapGroupIn(g), UNCHANGED <<left, pending>>, raised' # "OutOfMemory"
    PROVE  swapIn' \subseteq CpuBlocks \X GpuBlocks
<1>1. SwapIn(live[g]) /\ SetPhase(g, "returned") /\ swapIn' = swapIn \cup Where(g)
  BY DEF SwapGroupIn
<1>2. Cardinality(Tabled(live[g])) <= Cardinality(FreeGpu)
  <2>1. ~(Cardinality(Tabled(live[g])) > Cardinality(FreeGpu))
    BY <1>1 DEF SwapIn, Move, Raise
  <2>2. Cardinality(Tabled(live[g])) \in Nat /\ Cardinality(FreeGpu) \in Nat
    BY GroupFacts, FreePools DEF BaseInv
  <2> QED
    BY <2>1, <2>2
<1>3. \A s \in live[g] : /\ Len(table'[s]) = Len(table[s])
                         /\ table[s] \in Seq(CpuBlocks) /\ table'[s] \in Seq(GpuBlocks)
  BY <1>1, <1>2, SwapInKeepsBase
<1>4. Where(g) \subseteq CpuBlocks \X GpuBlocks
  BY <1>3, WhereTypes
<1> QED
  BY <1>1, <1>4 DEF CacheTypes

LEMMA ForgetTypes ==
    ASSUME NEW g, kv \in [Blocks -> Contents], Forget(g)
    PROVE  kv' \in [Blocks -> Contents]
BY DEF Forget, Contents

LEMMA AfterTypes ==
    ASSUME NEW pairs \in SUBSET (Blocks \X Blocks), NEW contents \in [Blocks -> Contents]
    PROVE  After(pairs, contents) \in [Blocks -> Contents]
<1>1. ASSUME NEW b \in Blocks, \E p \in pairs : p[2] = b
      PROVE  contents[(CHOOSE p \in pairs : p[2] = b)[1]] \in Contents
  <2> DEFINE q == CHOOSE p \in pairs : p[2] = b
  <2>1. q \in pairs
    BY <1>1
  <2> HIDE DEF q
  <2>2. q[1] \in Blocks
    BY <2>1
  <2> QED
    BY <2>2 DEF q
<1> QED
  BY <1>1 DEF After

\* What the model writes is a group's, at a place of its tables.
LEMMA ModelTypes ==
    ASSUME BaseInv, CacheTypes, Model
    PROVE  kv' \in [Blocks -> Contents]
<1> DEFINE written == UNION {UNION {{<<table[s][i], <<g, i>>>> : i \in Writes(g)} :
                                       s \in live[g]} : g \in In("executing")}
<1>1. kv' = [b \in Blocks |->
                CASE b \in free                  -> Nobody
                  [] \E w \in written : w[1] = b -> (CHOOSE w \in written : w[1] = b)[2]
                  [] OTHER                       -> kv[b]]
  BY DEF Model
<1>2. ASSUME NEW g \in In("executing"), NEW i \in Writes(g)
      PROVE  g \in Groups /\ i \in Nat \ {0}
  <2>1. /\ g \in Groups /\ tokens[g] \in Nat /\ left[g] \in Nat
        /\ left[g] <= tokens[g] /\ tokens[g] >= 1
    BY GroupFacts DEF GroupInv, In
  <2>2. Computed(g) \in Nat
    BY <2>1 DEF Computed
  <2>3. Computed(g) \div BlockSize \in Nat
    BY <2>2, GroupsAssumption
  <2> DEFINE a == Computed(g) \div BlockSize
             z == BlocksFor(Computed(g) + Chunk(g))
  <2>4. i \in a + 1 .. z /\ a \in Nat
    BY <2>3 DEF Writes
  <2> HIDE DEF a, z
  <2>5. i \in Int /\ a + 1 <= i
    BY <2>4
  <2> QED
    BY <2>1, <2>4, <2>5
<1>3. \A w \in written : w[2] \in Contents
  BY <1>2 DEF Contents
<1> HIDE DEF written
<1>4. ASSUME NEW b \in Blocks, \E w \in written : w[1] = b
      PROVE  (CHOOSE w \in written : w[1] = b)[2] \in Contents
  <2> DEFINE v == CHOOSE w \in written : w[1] = b
  <2>1. v \in written
    BY <1>4
  <2> HIDE DEF v
  <2> QED
    BY <1>3, <2>1 DEF v
<1>5. Nobody \in Contents /\ kv \in [Blocks -> Contents]
  BY DEF Contents, CacheTypes
<1> QED
  BY <1>1, <1>4, <1>5

LEMMA CopiedTypes ==
    ASSUME NEW s, table[s] \in Seq(GpuBlocks), table'[s] \in Seq(GpuBlocks)
    PROVE  Copied(s) \subseteq GpuBlocks \X GpuBlocks
<1> DEFINE n == Len(table[s])
<1>1. CASE Len(table'[s]) = n /\ n > 0
  <2>1. n \in 1 .. n /\ n \in 1 .. Len(table'[s])
    BY <1>1, LenProperties
  <2>2. table[s][n] \in GpuBlocks /\ table'[s][n] \in GpuBlocks
    BY <2>1, ElementOfSeq
  <2> QED
    BY <2>2 DEF Copied
<1>2. CASE ~(Len(table'[s]) = n /\ n > 0)
  BY <1>2 DEF Copied
<1> QED
  BY <1>1, <1>2

\* Every step keeps the types of the copies and of the blocks' contents.
LEMMA CacheStep ==
    ASSUME NoWindow, CoreInv, CacheTypes, CoreInv', GeneralNext
    PROVE  CacheTypes'
<1> USE DEF Contents
<1>1. BaseInv /\ TickTypes /\ raised' # "OutOfMemory" /\ kv \in [Blocks -> Contents]
  BY DEF CoreInv, Checks, CacheTypes
<1>2. ASSUME UNCHANGED cacheVars PROVE CacheTypes'
  BY <1>2 DEF cacheVars, CacheTypes
<1>3. ASSUME NEW g \in Groups, AddRequest(g) PROVE CacheTypes'
  BY <1>2, <1>3 DEF AddRequest
<1>4. ASSUME NEW g \in Groups, AbortRequest(g) PROVE CacheTypes'
  <2>1. Forget(g) /\ UNCHANGED <<swapOut, swapIn, copies>>
    BY <1>4 DEF AbortRequest
  <2> QED
    BY <1>1, <2>1, ForgetTypes DEF CacheTypes
<1>5. ASSUME NEW g \in Groups, Select(g) PROVE CacheTypes'
  BY <1>2, <1>5 DEF Select
<1>6. ASSUME NEW g \in Groups, ProcessOutput(g) PROVE CacheTypes'
  <2>1. (kv' = kv \/ Forget(g)) /\ UNCHANGED <<swapOut, swapIn, copies>>
    BY <1>6 DEF ProcessOutput
  <2> QED
    BY <1>1, <2>1, ForgetTypes DEF CacheTypes
<1>7. CASE BeginTick \/ EndSelect \/ EndReserve \/ EndSwapIn \/ EndProactive \/ EndExecute
  BY <1>2, <1>7 DEF BeginTick, EndSelect, EndReserve, EndSwapIn, EndProactive, EndExecute
<1>8. CASE StartPrompt \/ Continue
  BY <1>2, <1>8 DEF StartPrompt, Continue
<1>9. CASE PreemptVictim
  <2>1. PICK i \in Victims : SwapGroupOut(rest[i])
    BY <1>9 DEF PreemptVictim
  <2>2. i \in DOMAIN rest /\ phase[rest[i]] = "ready" /\ rest \in Seq(Groups)
    BY <1>1 DEF Victims, TickTypes
  <2>3. PICK g \in Groups : g = rest[i]
    BY <2>2, RangeOfSeq DEF Range
  <2>4. UNCHANGED <<left, pending, swapIn, copies, kv>>
    BY <1>9 DEF PreemptVictim
  <2>5. swapOut' \subseteq GpuBlocks \X CpuBlocks
    BY <1>1, <2>1, <2>2, <2>3, <2>4, OutTypes
  <2> QED
    BY <2>4, <2>5 DEF CacheTypes
<1>10. CASE PutBack
  <2>1. PICK g \in Groups : g = pinned[Len(pinned)]
    BY <1>10, ReserveFacts, Shortened DEF PutBack, TickTypes, TickInv, PinnedInv
  <2>2. /\ UNCHANGED <<left, pending, swapIn, copies, kv>>
        /\ IF phase[g] = "ready" THEN SwapGroupOut(g) ELSE UNCHANGED swapOut
    BY <1>10, <2>1 DEF PutBack
  <2>3. swapOut' \subseteq GpuBlocks \X CpuBlocks
    BY <1>1, <2>2, OutTypes DEF CacheTypes
  <2> QED
    BY <2>2, <2>3 DEF CacheTypes
<1>11. CASE SwapInPinned
  <2>1. PICK i \in Returning : SwapGroupIn(pinned[i])
    BY <1>11 DEF SwapInPinned
  <2>2. i \in DOMAIN pinned /\ phase[pinned[i]] = "swapped" /\ pinned \in Seq(Groups)
    BY <1>1 DEF Returning, TickTypes
  <2>3. PICK g \in Groups : g = pinned[i]
    BY <2>2, RangeOfSeq DEF Range
  <2>4. UNCHANGED <<left, pending, swapOut, copies, kv>>
    BY <1>11 DEF SwapInPinned
  <2>5. swapIn' \subseteq CpuBlocks \X GpuBlocks
    BY <1>1, <2>1, <2>2, <2>3, <2>4, InTypes
  <2> QED
    BY <2>4, <2>5 DEF CacheTypes
<1>12. CASE SwapInMore
  <2>1. UNCHANGED <<left, pending, swapOut, copies, kv>>
    BY <1>12 DEF SwapInMore
  <2>2. PICK i \in Candidates : SwapGroupIn(rest[i]) \/ UNCHANGED swapIn
    BY <1>12 DEF SwapInMore
  <2>3. i \in DOMAIN rest /\ phase[rest[i]] = "swapped" /\ rest \in Seq(Groups)
    BY <1>1 DEF Candidates, TickTypes
  <2>4. PICK g \in Groups : g = rest[i]
    BY <2>3, RangeOfSeq DEF Range
  <2>5. CASE SwapGroupIn(rest[i])
    <3>1. swapIn' \subseteq CpuBlocks \X GpuBlocks
      BY <1>1, <2>1, <2>3, <2>4, <2>5, InTypes
    <3> QED
      BY <2>1, <3>1 DEF CacheTypes
  <2>6. CASE UNCHANGED swapIn
    BY <2>1, <2>6 DEF CacheTypes
  <2> QED
    BY <2>2, <2>5, <2>6
<1>13. ASSUME NEW s \in Seqs, AppendSlot(s) PROVE CacheTypes'
  <2>1. /\ raised = "no" /\ s \in pending /\ pending' = pending \ {s}
        /\ copies' = copies \cup Copied(s)
        /\ UNCHANGED <<left, swapOut, swapIn, kv>>
    BY <1>13 DEF AppendSlot
  <2>2. PICK g \in In("appending") :
           /\ AppendSlots(s, LogicalBlocks(g))
           /\ IF pending = {s} THEN SetPhase(g, "executing") ELSE UNCHANGED groupVars
    BY <1>13 DEF AppendSlot
  <2>3. stage = "execute" /\ \A h, k \in In("appending") : h = k
    BY <2>1 DEF CoreInv, TickInv, PhasesInv
  <2>4. Cardinality(pending) <= Cardinality(FreeGpu)
    BY <2>1, <2>3, ExecuteFacts
  <2>5. table[s] \in Seq(GpuBlocks) /\ table'[s] \in Seq(GpuBlocks)
    BY <1>1, <2>1, <2>2, <2>3, <2>4, AppendSlotKeepsBase
  <2>6. Copied(s) \subseteq GpuBlocks \X GpuBlocks
    BY <2>5, CopiedTypes
  <2> QED
    BY <2>1, <2>6 DEF CacheTypes
<1>14. CASE CacheSwap
  <2>1. /\ kv' = After(copies, After(swapIn, After(swapOut, kv)))
        /\ swapOut' = {} /\ swapIn' = {} /\ copies' = {}
    BY <1>14 DEF CacheSwap
  <2>2. /\ swapOut \in SUBSET (Blocks \X Blocks) /\ swapIn \in SUBSET (Blocks \X Blocks)
        /\ copies \in SUBSET (Blocks \X Blocks)
    BY DEF CacheTypes, Blocks
  <2>3. After(swapOut, kv) \in [Blocks -> Contents]
    BY <1>1, <2>2, AfterTypes
  <2>4. After(swapIn, After(swapOut, kv)) \in [Blocks -> Contents]
    BY <2>2, <2>3, AfterTypes
  <2>5. kv' \in [Blocks -> Contents]
    BY <2>1, <2>2, <2>4, AfterTypes
  <2> QED
    BY <2>1, <2>5 DEF CacheTypes
<1>15. CASE Model
  <2>1. kv' \in [Blocks -> Contents]
    BY <1>1, <1>15, ModelTypes
  <2>2. UNCHANGED <<swapOut, swapIn, copies>>
    BY <1>15 DEF Model
  <2> QED
    BY <2>1, <2>2 DEF CacheTypes
<1> QED
  BY <1>3, <1>4, <1>5, <1>6, <1>7, <1>8, <1>9, <1>10, <1>11, <1>12, <1>13, <1>14, <1>15
  DEF GeneralNext

-----------------------------------------------------------------------------
(* The theorems.                                                              *)
LEMMA GeneralStart ==
    ASSUME NoWindow, GeneralInit
    PROVE  GeneralInv
<1>1. /\ BlockInit /\ GroupsInit /\ left = [g \in Groups |-> 0]
      /\ stage = "between" /\ pinned = <<>> /\ rest = <<>> /\ take = [g \in Groups |-> 0]
      /\ budget = NoCharge /\ need = 0 /\ uncharged = {} /\ pending = {}
      /\ swapOut = {} /\ swapIn = {} /\ copies = {} /\ kv = [b \in Blocks |-> Nobody]
  BY DEF GeneralInit
<1>2. ManagerInv
  <2>1. /\ table = [s \in Seqs |-> <<>>] /\ ref = [b \in Blocks |-> 0] /\ free = Blocks
    BY <1>1 DEF BlockInit
  <2>2. \A b \in Blocks : Holders(b) = {}
    BY <2>1, NobodyPinned DEF Holders, InUse, NoWindow
  <2>3. PoolExact
    BY <2>1, <2>2, FS_EmptySet DEF PoolExact, RefCountsExact, FreeListExact
  <2>4. <<>> \in Seq(Blocks) /\ IsInjective(<<>>)
    BY DEF IsInjective
  <2> QED
    BY <2>1, <2>3, <2>4 DEF ManagerInv
<1>3. GroupsTypeOK(Phases) /\ MaxLen \in Nat /\ AnyKind \in Kinds
  <2>1. AnyKind \in Kinds /\ MaxLen \in Nat
    BY GroupsAssumption DEF AnyKind
  <2> QED
    BY <1>1, <2>1 DEF GroupsInit, GroupsTypeOK, Phases
<1>4. \A g \in Groups : /\ live[g] = {} /\ phase[g] = "idle" /\ tokens[g] = 0 /\ left[g] = 0
                        /\ ended[g] = 0 /\ Tabled(live[g]) = {} /\ kind[g].bestOf \in Nat \ {0}
  BY <1>1, <1>3, GroupsAssumption DEF GroupsInit, Tabled
<1>5. \A g \in Groups : GroupInv(g)
  <2>1. Cardinality({}) = 0
    BY FS_EmptySet
  <2> SUFFICES ASSUME NEW g \in Groups PROVE GroupInv(g)
    OBVIOUS
  <2>2. /\ live[g] = {} /\ phase[g] = "idle" /\ tokens[g] = 0 /\ left[g] = 0
        /\ ended[g] = 0 /\ kind[g].bestOf \in Nat \ {0}
    BY <1>4
  <2> QED
    BY <2>1, <2>2 DEF GroupInv
<1>6. BaseInv
  <2>1. left \in [Groups -> 0 .. MaxLen] /\ pending \subseteq Seqs
    BY <1>1, <1>3
  <2>2. \A s \in Seqs : table[s] = <<>>
    BY <1>1 DEF BlockInit
  <2>3. \A g, h \in Groups : live[g] \cap live[h] = {} /\ Tabled(live[g]) \cap Tabled(live[h]) = {}
    BY <1>4
  <2> QED
    BY <1>2, <1>3, <1>5, <2>1, <2>2, <2>3 DEF BaseInv, Fresh
<1>7. TickTypes /\ CacheTypes
  BY <1>1, EmptySeq, BudgetAssumption
  DEF BlockInit, TickTypes, CacheTypes, Reasons, Steps, NoCharge
<1>8. Range(pinned) = {} /\ DOMAIN pinned = {} /\ \A q : q # "idle" => In(q) = {}
  BY <1>1, <1>4, NobodyPinned DEF In
<1>9. TickInv
  BY <1>1, <1>8 DEF TickInv, PinnedInv, PhasesInv, StageInv, RoomInv, ExecuteInv, IsInjective
<1>10. Checks
  BY <1>1 DEF BlockInit, Checks
<1> QED
  BY <1>6, <1>7, <1>9, <1>10 DEF GeneralInv, CoreInv

LEMMA GeneralStep ==
    ASSUME NoWindow, GeneralInv, [GeneralNext]_generalVars
    PROVE  GeneralInv'
<1>1. CoreInv /\ CacheTypes
  BY DEF GeneralInv
<1>2. CASE GeneralNext
  <2>1. CoreInv'
    <3>1. ASSUME NEW g \in Groups,
                 AddRequest(g) \/ AbortRequest(g) \/ Select(g) \/ ProcessOutput(g)
          PROVE  CoreInv'
      BY <1>1, <3>1, AddRequestStep, AbortRequestStep, SelectStep, ProcessOutputStep
    <3>2. CASE BeginTick \/ EndSelect
      BY <1>1, <3>2, BeginTickStep, EndSelectStep
    <3>3. CASE PreemptVictim \/ PutBack \/ EndReserve
      BY <1>1, <3>3, PreemptVictimStep, PutBackStep, EndReserveStep
    <3>4. CASE SwapInPinned \/ EndSwapIn \/ SwapInMore \/ EndProactive
      BY <1>1, <3>4, SwapInPinnedStep, EndSwapInStep, SwapInMoreStep, EndProactiveStep
    <3>5. CASE StartPrompt \/ Continue \/ EndExecute
      BY <1>1, <3>5, StartPromptStep, ContinueStep, EndExecuteStep
    <3>6. ASSUME NEW s \in Seqs, AppendSlot(s) PROVE CoreInv'
      BY <1>1, <3>6, AppendSlotStep
    <3>7. CASE CacheSwap \/ Model
      BY <1>1, <3>7, CacheSwapStep, ModelStep
    <3> QED
      BY <1>2, <3>1, <3>2, <3>3, <3>4, <3>5, <3>6, <3>7 DEF GeneralNext
  <2>2. CacheTypes'
    BY <1>1, <1>2, <2>1, CacheStep
  <2> QED
    BY <2>1, <2>2 DEF GeneralInv
<1>3. CASE UNCHANGED generalVars
  <2>1. /\ UNCHANGED <<table, ref, free, raised, groupVars, left, stage, pinned, rest, take,
                       budget, need, uncharged, pending>>
        /\ UNCHANGED <<swapOut, swapIn, copies, kv>>
    BY <1>3 DEF generalVars, blockVars, tickVars, cacheVars
  <2>2. /\ BaseInv' /\ Taking' = Taking /\ Wanting' = Wanting /\ FreeGpu' = FreeGpu
        /\ phase' = phase /\ live' = live
    BY <1>1, <2>1, SameKeepsBase DEF CoreInv
  <2>3. /\ \A q : In(q)' = In(q)
        /\ Lent' = Lent /\ Charged' = Charged
    BY <2>1, <2>2 DEF In, Lent, Charged
  <2>4. TickTypes' /\ CacheTypes' /\ Checks'
    BY <1>1, <2>1, <2>3 DEF CoreInv, TickTypes, CacheTypes, Checks
  <2>5. raised = "no" => (PinnedInv /\ PhasesInv /\ StageInv)'
    BY <1>1, <2>1, <2>2, <2>3 DEF CoreInv, TickInv, PinnedInv, PhasesInv, StageInv
  <2>6. raised = "no" => (RoomInv /\ ExecuteInv)'
    BY <1>1, <2>1, <2>2, <2>3 DEF CoreInv, TickInv, RoomInv, ExecuteInv
  <2> QED
    BY <2>1, <2>2, <2>4, <2>5, <2>6 DEF GeneralInv, CoreInv, TickInv
<1> QED
  BY <1>2, <1>3

\* The inductive invariant of the ranked schedule and its tick: the groups and
\* their tables agree, every stage knows where its groups are, and what the
\* selected groups still take fits into the blocks that are free, or that the
\* reservation has yet to free.
THEOREM GeneralInvariant ==
    ASSUME NoWindow
    PROVE  GeneralSpec => []GeneralInv
<1>1. GeneralInit => GeneralInv
  BY GeneralStart
<1>2. GeneralInv /\ [GeneralNext]_generalVars => GeneralInv'
  BY GeneralStep
<1> QED
  BY <1>1, <1>2, PTL DEF GeneralSpec

\* Every variable of _general_schedule keeps its type: the budget never passes
\* max_num_batched_tokens and max_num_seqs in the selection, swaps are pairs of
\* blocks of the two devices.
THEOREM GeneralTypes ==
    ASSUME NoWindow
    PROVE  GeneralSpec => []GeneralTypeOK
<1>1. GeneralInv => GeneralTypeOK
  <2> SUFFICES ASSUME GeneralInv PROVE GeneralTypeOK
    OBVIOUS
  <2>1. BaseInv /\ TickTypes /\ CacheTypes /\ ManagerInv
    BY DEF GeneralInv, CoreInv, BaseInv
  <2>2. table \in [Seqs -> Seq(Blocks)] /\ ref \in [Blocks -> Nat] /\ free \subseteq Blocks
    BY <2>1 DEF ManagerInv
  <2> QED
    BY <2>1, <2>2 DEF GeneralTypeOK, BaseInv, TickTypes, CacheTypes, Reasons, Steps
<1> QED
  BY <1>1, GeneralInvariant, PTL

\* Through the swaps, forks, copies on write and releases of the ranked
\* schedule every reference count and the free lists stay exact.
THEOREM GeneralPools ==
    ASSUME NoWindow
    PROVE  GeneralSpec => []PoolExact
<1>1. GeneralInv => PoolExact
  BY DEF GeneralInv, CoreInv, BaseInv, ManagerInv
<1> QED
  BY <1>1, GeneralInvariant, PTL

\* The assertions of reserve_free_blocks and of the three branches that execute
\* a group hold, when the GPU has blocks for the watermark and a slot of every
\* sequence of a batch, as long as no more sequences are swapped in uncharged
\* than the watermark leaves room for.  No block is freed twice.
THEOREM GeneralAsserts ==
    ASSUME NoWindow, LargeEnough
    PROVE  GeneralSpec => []TickAsserts
<1>1. GeneralInv => TickAsserts
  BY DEF GeneralInv, CoreInv, Checks, TickAsserts
<1> QED
  BY <1>1, GeneralInvariant, PTL

\* Swap-ins that nobody checks and the appends behind them never run out of
\* blocks, and no group is swapped in before one was selected, when no request
\* asks for more sequences than a batch may have.
THEOREM GeneralEstimates ==
    ASSUME NoWindow, NoneTooWide
    PROVE  GeneralSpec => []EstimatesSuffice
<1>1. GeneralInv => EstimatesSuffice
  BY DEF GeneralInv, CoreInv, Checks, EstimatesSuffice
<1> QED
  BY <1>1, GeneralInvariant, PTL

-----------------------------------------------------------------------------
(* What the blocks hold.  Within a tick the swaps and copies are only noted;  *)
(* the worker carries them out at its end.                                    *)

\* What a block will hold when the worker has carried out what is noted.
Later == After(copies, After(swapIn, After(swapOut, kv)))

\* The tokens of a group that are computed, with those of the tick that is over
\* for the model but not yet for the group.
Done(g) == IF stage = "process" /\ phase[g] = "executing"
           THEN Computed(g) + Chunk(g) ELSE Computed(g)

OneSource(pairs) == \A p, q \in pairs : p[2] = q[2] => p = q

\* No two pairs that are noted have one target, and while the tick may still
\* give blocks of a device away, the targets on that device are in use.
PairsInv ==
    /\ stage \in {"between", "select", "model", "process"} => swapOut = {}
    /\ stage \in {"between", "select", "reserve", "model", "process"} => swapIn = {}
    /\ stage \notin {"execute", "worker"} => copies = {}
    /\ OneSource(swapOut) /\ OneSource(swapIn) /\ OneSource(copies)
    /\ stage = "reserve" => \A p \in swapOut : p[2] \notin free
    /\ \A p \in swapIn : p[2] \notin free
    /\ \A p \in copies : ref[p[2]] = 1

\* A group is given tokens only while a tick has selected it, and never more
\* than its prompt has left.
Chosen == Range(pinned) \cup In("appending") \cup In("executing")
TakeInv ==
    \A g \in Groups :
        /\ left[g] > 0 => take[g] <= left[g]
        /\ take[g] # 0 => g \in Chosen

\* The sequences of a group share a block only at one place.
Aligned ==
    \A g \in Groups : \A s, q \in live[g] :
        \A i \in DOMAIN table[s], j \in DOMAIN table[q] : table[s][i] = table[q][j] => i = j

\* The blocks that the computed tokens fill hold them, or will.
Held ==
    \A g \in Groups : \A s \in live[g] : \A i \in 1 .. BlocksFor(Done(g)) :
        i \in DOMAIN table[s] /\ Later[table[s][i]] = <<g, i>>

KVInv == PairsInv /\ TakeInv /\ Aligned /\ Held

Addable(P, W) ==
    /\ OneSource(P) /\ OneSource(W)
    /\ \A w \in W : w[2] \in Blocks /\ \A p \in P : p[2] # w[2]
Adds(P, W, c) ==
    /\ \A w \in W : After(P \cup W, c)[w[2]] = c[w[1]]
    /\ \A b \in Blocks : (\A w \in W : w[2] # b) => After(P \cup W, c)[b] = After(P, c)[b]
    /\ \A b \in Blocks : (\A p \in P : p[2] # b) => After(P, c)[b] = c[b]

\* Pairs that are added to others move what they say, and nothing else.
LEMMA AddedPairs ==
    ASSUME NEW P, NEW W, NEW c, Addable(P, W)
    PROVE  OneSource(P \cup W) /\ Adds(P, W, c)
<1> USE DEF Addable
<1>1. OneSource(P \cup W)
  BY DEF OneSource
<1>2. ASSUME NEW w \in W PROVE After(P \cup W, c)[w[2]] = c[w[1]]
  <2> DEFINE q == CHOOSE p \in P \cup W : p[2] = w[2]
  <2>1. q \in P \cup W /\ q[2] = w[2]
    OBVIOUS
  <2>2. q = w
    BY <1>1, <2>1 DEF OneSource
  <2>3. After(P \cup W, c)[w[2]] = c[q[1]]
    BY DEF After
  <2> QED
    BY <2>2, <2>3
<1>3. ASSUME NEW b \in Blocks, \A w \in W : w[2] # b
      PROVE  After(P \cup W, c)[b] = After(P, c)[b]
  <2>1. CASE \E p \in P : p[2] = b
    <3> DEFINE q == CHOOSE p \in P \cup W : p[2] = b
               r == CHOOSE p \in P : p[2] = b
    <3>1. q \in P \cup W /\ q[2] = b /\ r \in P /\ r[2] = b
      BY <2>1
    <3>2. q = r
      BY <1>1, <3>1 DEF OneSource
    <3>3. After(P \cup W, c)[b] = c[q[1]] /\ After(P, c)[b] = c[r[1]]
      BY <2>1 DEF After
    <3> QED
      BY <3>2, <3>3
  <2>2. CASE ~ \E p \in P : p[2] = b
    <3>1. ~ \E p \in P \cup W : p[2] = b
      BY <1>3, <2>2
    <3> QED
      BY <2>2, <3>1 DEF After
  <2> QED
    BY <2>1, <2>2
<1>4. \A b \in Blocks : (\A p \in P : p[2] # b) => After(P, c)[b] = c[b]
  BY DEF After
<1> QED
  BY <1>1, <1>2, <1>3, <1>4 DEF Adds

\* Without pairs nothing moves.
LEMMA NoPairs ==
    /\ OneSource({})
    /\ \A P, c : After({}, After(P, c)) = After(P, c)
    /\ \A c \in [Blocks -> Contents] : After({}, c) = c
BY DEF OneSource, After

LEMMA NothingNoted ==
    ASSUME swapOut = {}, swapIn = {}, copies = {}, CacheTypes
    PROVE  Later = kv
BY NoPairs DEF Later, CacheTypes, Contents

\* A step that changes no count of computed tokens, and notes the pairs W: every
\* block of a table that gives way to another is to be copied to it, and nothing
\* that is in use changes.
Carries(W) ==
    /\ live' = live /\ \A g \in Groups : Done(g)' = Done(g)
    /\ \A b \in Blocks \ free : Later'[b] = Later[b]
    /\ \A w \in W : Later'[w[2]] = Later[w[1]]
    /\ \A g \in Groups : \A s \in live[g] : \A i \in DOMAIN table[s] :
          /\ i \in DOMAIN table'[s]
          /\ \/ table'[s][i] = table[s][i]
             \/ <<table[s][i], table'[s][i]>> \in W

\* Such a step keeps what the blocks hold.
LEMMA HeldKept ==
    ASSUME NoWindow, BaseInv, Held, NEW W, Carries(W)
    PROVE  Held'
<1> USE DEF Carries
<1> SUFFICES ASSUME NEW g \in Groups, NEW s \in live[g], NEW i \in 1 .. BlocksFor(Done(g))
             PROVE  i \in DOMAIN table'[s] /\ Later'[table'[s][i]] = <<g, i>>
  <2>1. \A g \in Groups : BlocksFor(Done(g))' = BlocksFor(Done(g))
    BY DEF BlocksFor
  <2> QED
    BY <2>1 DEF Held
<1>1. i \in DOMAIN table[s] /\ Later[table[s][i]] = <<g, i>>
  BY DEF Held
<1>2. table[s][i] \in Blocks \ free
  <2>1. ManagerInv /\ Window = 0 /\ s \in Seqs
    BY DEF BaseInv, NoWindow, GroupsTypeOK
  <2>2. table[s][i] \in Range(table[s]) /\ table[s] \in Seq(Blocks)
    BY <1>1, <2>1 DEF Range, ManagerInv
  <2>3. table[s][i] \in Blocks
    BY <2>2, RangeOfSeq
  <2> QED
    BY <2>1, <2>2, <2>3, InTables
<1>3. CASE table'[s][i] = table[s][i]
  BY <1>1, <1>2, <1>3
<1>4. CASE <<table[s][i], table'[s][i]>> \in W
  <2> DEFINE a == table[s][i]
             b == table'[s][i]
  <2>1. Later'[b] = Later[a]
    BY <1>4
  <2> QED
    BY <1>1, <2>1
<1> QED
  BY <1>1, <1>3, <1>4

\* A step of the tick that touches no block and no group's tokens.
LEMMA QuietKeeps ==
    ASSUME NoWindow, BaseInv, KVInv,
           UNCHANGED <<table, ref, free, tokens, live, left, kv, swapOut, swapIn, copies>>,
           stage # "process", stage' # "process", PairsInv', TakeInv'
    PROVE  KVInv'
<1>1. Later' = Later
  BY DEF Later, After
<1>2. \A g \in Groups : Done(g)' = Done(g)
  BY DEF Done, Computed
<1>3. Held'
  <2>1. Carries({})
    BY <1>1, <1>2 DEF Carries
  <2> QED
    BY <2>1, HeldKept DEF KVInv
<1>4. Aligned'
  BY DEF KVInv, Aligned
<1> QED
  BY <1>3, <1>4 DEF KVInv

\* The worker does what is noted: what the blocks will hold they hold.
LEMMA CacheSwapKeeps ==
    ASSUME NoWindow, GeneralInv, KVInv, CacheSwap, GeneralInv'
    PROVE  KVInv'
<1>1. /\ BaseInv /\ CacheTypes' /\ stage = "worker" /\ stage' = "model"
      /\ kv' = Later /\ swapOut' = {} /\ swapIn' = {} /\ copies' = {}
      /\ UNCHANGED <<table, ref, free, phase, tokens, live, left, pinned, take>>
  BY DEF GeneralInv, CoreInv, CacheSwap, Later, blockVars, groupVars
<1>2. Later' = Later
  <2>1. Later' = After({}, After({}, After({}, kv')))
    BY <1>1 DEF Later
  <2>2. kv' \in [Blocks -> Contents]
    BY <1>1 DEF CacheTypes, Contents
  <2> QED
    BY <1>1, <2>1, <2>2, NoPairs
<1>3. \A g \in Groups : Done(g)' = Done(g)
  BY <1>1 DEF Done, Computed
<1>4. Held'
  <2>1. Carries({})
    BY <1>1, <1>2, <1>3 DEF Carries
  <2> QED
    BY <1>1, <2>1, HeldKept DEF KVInv
<1>5. PairsInv'
  BY <1>1, NoPairs DEF PairsInv
<1>6. TakeInv' /\ Aligned'
  BY <1>1 DEF KVInv, TakeInv, Chosen, Aligned, In
<1> QED
  BY <1>4, <1>5, <1>6 DEF KVInv

-----------------------------------------------------------------------------
\* A group that is moved: its blocks go to free ones, one to one, and the pairs
\* that are noted say which.
LEMMA MovedTables ==
    ASSUME NoWindow, BaseInv, Aligned, raised = "no", NEW g \in Groups, NEW there,
           Movable(live[g], there), Move(live[g], there), live' = live
    PROVE  /\ ManagerInv' /\ Aligned' /\ OneSource(Where(g))
           /\ \A s \in Seqs \ live[g] : table'[s] = table[s]
           /\ \A w \in Where(g) : /\ w[2] \in there /\ w[2] \in free /\ w[2] \in Blocks
                                  /\ \E s \in live[g] : /\ s \in Seqs /\ w[1] \in Range(table[s])
                                                        /\ w[2] \in Range(table'[s])
           /\ \A h \in Groups : \A s \in live[h] : \A i \in DOMAIN table[s] :
                 /\ i \in DOMAIN table'[s]
                 /\ \/ table'[s][i] = table[s][i]
                    \/ <<table[s][i], table'[s][i]>> \in Where(g)
<1>1. /\ Window = 0 /\ ManagerInv /\ \A h \in Groups : live[h] \subseteq Seqs
      /\ \A h \in Groups : h # g => live[h] \cap live[g] = {}
  BY DEF NoWindow, BaseInv, GroupsTypeOK
<1>2. there \subseteq free /\ there \subseteq Blocks
  BY <1>1, FreePools DEF Movable
<1>3. ManagerInv' /\ \A s \in Seqs \ live[g] : table'[s] = table[s]
  BY <1>1, MoveExact
<1>4. /\ \A s \in live[g] : DOMAIN table'[s] = DOMAIN table[s]
      /\ \A s, q \in live[g] : \A i \in DOMAIN table[s], j \in DOMAIN table[q] :
            /\ table'[s][i] \in there
            /\ table'[s][i] = table'[q][j] <=> table[s][i] = table[q][j]
  BY <1>1, MoveMaps
<1>5. Aligned'
  <2> SUFFICES ASSUME NEW h \in Groups, NEW s \in live[h], NEW q \in live[h],
                      NEW i \in DOMAIN table'[s], NEW j \in DOMAIN table'[q],
                      table'[s][i] = table'[q][j]
               PROVE  i = j
    BY DEF Aligned
  <2>1. CASE h = g
    BY <1>4, <2>1 DEF Aligned
  <2>2. CASE h # g
    <3>1. table'[s] = table[s] /\ table'[q] = table[q]
      BY <1>1, <1>3, <2>2
    <3> QED
      BY <3>1 DEF Aligned
  <2> QED
    BY <2>1, <2>2
<1>6. ASSUME NEW w \in Where(g)
      PROVE  \E s \in live[g] : \E i \in DOMAIN table[s] :
                w = <<table[s][i], table'[s][i]>>
  BY DEF Where
<1>7. OneSource(Where(g))
  <2> SUFFICES ASSUME NEW w \in Where(g), NEW v \in Where(g), w[2] = v[2]
               PROVE  w = v
    BY DEF OneSource
  <2>1. PICK s \in live[g] : \E i \in DOMAIN table[s] : w = <<table[s][i], table'[s][i]>>
    BY <1>6
  <2>2. PICK i \in DOMAIN table[s] : w = <<table[s][i], table'[s][i]>>
    BY <2>1
  <2>3. PICK q \in live[g] : \E j \in DOMAIN table[q] : v = <<table[q][j], table'[q][j]>>
    BY <1>6
  <2>4. PICK j \in DOMAIN table[q] : v = <<table[q][j], table'[q][j]>>
    BY <2>3
  <2>5. table[s][i] = table[q][j]
    BY <1>4, <2>2, <2>4
  <2> QED
    BY <2>2, <2>4, <2>5
<1>8. ASSUME NEW w \in Where(g)
      PROVE  /\ w[2] \in there /\ w[2] \in free /\ w[2] \in Blocks
             /\ \E s \in live[g] : /\ s \in Seqs /\ w[1] \in Range(table[s])
                                   /\ w[2] \in Range(table'[s])
  <2>1. PICK s \in live[g] : \E i \in DOMAIN table[s] : w = <<table[s][i], table'[s][i]>>
    BY <1>6
  <2>2. PICK i \in DOMAIN table[s] : w = <<table[s][i], table'[s][i]>>
    BY <2>1
  <2>3. table[s][i] \in Range(table[s]) /\ table'[s][i] \in Range(table'[s])
    BY <1>4 DEF Range
  <2> QED
    BY <1>1, <1>2, <1>4, <2>2, <2>3
<1>9. ASSUME NEW h \in Groups, NEW s \in live[h], NEW i \in DOMAIN table[s]
      PROVE  /\ i \in DOMAIN table'[s]
             /\ \/ table'[s][i] = table[s][i]
                \/ <<table[s][i], table'[s][i]>> \in Where(g)
  <2>1. CASE h = g
    BY <1>4, <2>1 DEF Where
  <2>2. CASE h # g
    BY <1>1, <1>3, <2>2
  <2> QED
    BY <2>1, <2>2
<1> QED
  BY <1>3, <1>5, <1>7, <1>8, <1>9

\* A group is swapped out: the CPU blocks it gets will hold what its GPU blocks
\* hold, for nothing was noted for them yet.
LEMMA OutKeeps ==
    ASSUME NoWindow, GeneralInv, KVInv, Reserving, NEW g \in Groups, phase[g] = "ready",
           SwapGroupOut(g), raised' = "no", TakeInv',
           UNCHANGED <<left, stage, swapIn, copies, kv>>
    PROVE  KVInv'
<1>1. /\ raised = "no" /\ stage = "reserve" /\ BaseInv /\ CacheTypes
      /\ PairsInv /\ Aligned /\ Held
  BY DEF GeneralInv, CoreInv, Reserving, KVInv
<1>2. /\ CanSwapOut(live[g]) /\ SwapOut(live[g]) /\ SetPhase(g, "swapped")
      /\ swapOut' = swapOut \cup Where(g)
  BY <1>1 DEF SwapGroupOut, Raise
<1>3. /\ live' = live /\ tokens' = tokens /\ \A s \in live[g] : table[s] \in Seq(GpuBlocks)
      /\ live[g] \subseteq Seqs /\ ManagerInv /\ Window = 0
  BY <1>1, <1>2, GroupFacts DEF SetPhase, GroupInv, NoWindow
<1>4. Movable(live[g], FreeCpu) /\ Move(live[g], FreeCpu)
  BY <1>2, <1>3 DEF Movable, CanSwapOut, SwapOut
<1>5. /\ ManagerInv' /\ Aligned' /\ OneSource(Where(g))
      /\ \A s \in Seqs \ live[g] : table'[s] = table[s]
      /\ \A w \in Where(g) : /\ w[2] \in FreeCpu /\ w[2] \in free /\ w[2] \in Blocks
                             /\ \E s \in live[g] : /\ s \in Seqs /\ w[1] \in Range(table[s])
                                                   /\ w[2] \in Range(table'[s])
      /\ \A h \in Groups : \A s \in live[h] : \A i \in DOMAIN table[s] :
            /\ i \in DOMAIN table'[s]
            /\ \/ table'[s][i] = table[s][i]
               \/ <<table[s][i], table'[s][i]>> \in Where(g)
  BY <1>1, <1>3, <1>4, MovedTables
<1> DEFINE W == Where(g)
<1>6. /\ swapIn = {} /\ copies = {} /\ OneSource(swapOut)
      /\ \A p \in swapOut : p[2] \in CpuBlocks /\ p[2] \in Blocks /\ p[2] \notin free
  BY <1>1 DEF PairsInv, CacheTypes, Blocks
<1>7. \A w \in W : w[1] \in GpuBlocks
  BY <1>3, <1>5, RangeOfSeq
<1> HIDE DEF W
<1>8. /\ OneSource(swapOut \cup W)
      /\ \A w \in W : After(swapOut \cup W, kv)[w[2]] = kv[w[1]]
      /\ \A b \in Blocks : (\A w \in W : w[2] # b) =>
                              After(swapOut \cup W, kv)[b] = After(swapOut, kv)[b]
      /\ \A b \in Blocks : (\A p \in swapOut : p[2] # b) => After(swapOut, kv)[b] = kv[b]
  <2>1. Addable(swapOut, W)
    BY <1>5, <1>6 DEF W, Addable
  <2>2. OneSource(swapOut \cup W) /\ Adds(swapOut, W, kv)
    BY <2>1, AddedPairs
  <2> QED
    BY <2>2 DEF Adds
<1>9. Later = After(swapOut, kv) /\ Later' = After(swapOut \cup W, kv)
  <2>1. Later = After({}, After({}, After(swapOut, kv)))
    BY <1>6 DEF Later
  <2>2. Later' = After({}, After({}, After(swapOut \cup W, kv)))
    BY <1>2, <1>6 DEF Later, W
  <2> QED
    BY <2>1, <2>2, NoPairs
<1>10. \A b \in Blocks \ free : Later'[b] = Later[b]
  BY <1>5, <1>8, <1>9 DEF W
<1>11. ASSUME NEW w \in W PROVE Later'[w[2]] = Later[w[1]]
  <2>1. w[1] \in Blocks /\ \A p \in swapOut : p[2] # w[1]
    BY <1>6, <1>7, DevicesAssumption DEF Blocks
  <2> QED
    BY <1>8, <1>9, <2>1
<1>12. Held'
  <2>1. \A h \in Groups : Done(h)' = Done(h)
    BY <1>1, <1>3 DEF Done, Computed
  <2>2. Carries(W)
    BY <1>3, <1>5, <1>10, <1>11, <2>1 DEF Carries, W
  <2> QED
    BY <1>1, <2>2, HeldKept
<1>13. PairsInv'
  <2>1. ASSUME NEW p \in swapOut' PROVE p[2] \notin free'
    <3>1. CASE p \in swapOut
      <4>1. PICK s \in Seqs : p[2] \in Range(table[s])
        BY <1>3, <1>6, <3>1, InTables
      <4>2. s \notin live[g]
        <5>1. \A b \in Range(table[s]) : s \in live[g] => b \in GpuBlocks
          BY <1>3, RangeOfSeq
        <5> QED
          BY <1>6, <3>1, <4>1, <5>1, DevicesAssumption
      <4>3. p[2] \in Range(table'[s])
        BY <1>5, <4>1, <4>2
      <4> QED
        BY <1>3, <1>5, <1>6, <3>1, <4>3, InTables
    <3>2. CASE p \in W
      BY <1>3, <1>5, <3>2, InTables DEF W
    <3> QED
      BY <1>2, <3>1, <3>2 DEF W
  <2>2. OneSource(swapOut') /\ OneSource(swapIn') /\ OneSource(copies')
    BY <1>1, <1>2, <1>8 DEF PairsInv, W
  <2>3. stage' = "reserve" /\ swapIn' = {} /\ copies' = {}
    BY <1>1, <1>6
  <2> QED
    BY <2>1, <2>2, <2>3 DEF PairsInv
<1> QED
  BY <1>5, <1>12, <1>13 DEF KVInv

\* A group is swapped in: the GPU blocks it gets will hold what its CPU blocks
\* will hold when the groups that leave have been copied out.
LEMMA InKeeps ==
    ASSUME NoWindow, GeneralInv, KVInv, raised = "no",
           stage \in {"swap_in", "swap_in_only", "proactive"},
           NEW g \in Groups, phase[g] = "swapped",
           SwapGroupIn(g), raised' = "no", TakeInv',
           UNCHANGED <<left, stage, swapOut, copies, kv>>
    PROVE  KVInv'
<1>1. BaseInv /\ CacheTypes /\ PairsInv /\ Aligned /\ Held
  BY DEF GeneralInv, CoreInv, KVInv
<1>2. SwapIn(live[g]) /\ SetPhase(g, "returned") /\ swapIn' = swapIn \cup Where(g)
  BY DEF SwapGroupIn
<1>3. /\ live' = live /\ tokens' = tokens /\ \A s \in live[g] : table[s] \in Seq(CpuBlocks)
      /\ live[g] \subseteq Seqs /\ ManagerInv /\ Window = 0
      /\ Cardinality(Tabled(live[g])) \in Nat
  BY <1>1, <1>2, GroupFacts DEF SetPhase, GroupInv, NoWindow
<1>4. Movable(live[g], FreeGpu) /\ Move(live[g], FreeGpu)
  <2>1. ~(Cardinality(Tabled(live[g])) > Cardinality(FreeGpu))
    BY <1>2 DEF SwapIn, Move, Raise
  <2>2. Cardinality(FreeGpu) \in Nat
    BY <1>3, FreePools
  <2>3. Cardinality(Tabled(live[g])) <= Cardinality(FreeGpu)
    BY <1>3, <2>1, <2>2
  <2> QED
    BY <1>2, <1>3, <2>3 DEF Movable, SwapIn
<1>5. /\ ManagerInv' /\ Aligned' /\ OneSource(Where(g))
      /\ \A s \in Seqs \ live[g] : table'[s] = table[s]
      /\ \A w \in Where(g) : /\ w[2] \in FreeGpu /\ w[2] \in free /\ w[2] \in Blocks
                             /\ \E s \in live[g] : /\ s \in Seqs /\ w[1] \in Range(table[s])
                                                   /\ w[2] \in Range(table'[s])
      /\ \A h \in Groups : \A s \in live[h] : \A i \in DOMAIN table[s] :
            /\ i \in DOMAIN table'[s]
            /\ \/ table'[s][i] = table[s][i]
               \/ <<table[s][i], table'[s][i]>> \in Where(g)
  BY <1>1, <1>3, <1>4, MovedTables
<1> DEFINE W == Where(g)
           c == After(swapOut, kv)
<1>6. /\ copies = {} /\ OneSource(swapIn)
      /\ \A p \in swapIn : p[2] \in GpuBlocks /\ p[2] \in Blocks /\ p[2] \notin free
  BY <1>1 DEF PairsInv, CacheTypes, Blocks
<1>7. \A w \in W : w[1] \in CpuBlocks
  BY <1>3, <1>5, RangeOfSeq
<1>8. Later = After(swapIn, c) /\ Later' = After(swapIn \cup W, c)
  <2>1. Later = After({}, After(swapIn, c))
    BY <1>6 DEF Later
  <2>2. Later' = After({}, After(swapIn \cup W, c))
    BY <1>2, <1>6 DEF Later
  <2> QED
    BY <2>1, <2>2, NoPairs
<1> HIDE DEF W, c
<1>9. /\ OneSource(swapIn \cup W)
      /\ \A w \in W : After(swapIn \cup W, c)[w[2]] = c[w[1]]
      /\ \A b \in Blocks : (\A w \in W : w[2] # b) =>
                              After(swapIn \cup W, c)[b] = After(swapIn, c)[b]
      /\ \A b \in Blocks : (\A p \in swapIn : p[2] # b) => After(swapIn, c)[b] = c[b]
  <2>1. Addable(swapIn, W)
    BY <1>5, <1>6 DEF W, Addable
  <2>2. OneSource(swapIn \cup W) /\ Adds(swapIn, W, c)
    BY <2>1, AddedPairs
  <2> QED
    BY <2>2 DEF Adds
<1>10. \A b \in Blocks \ free : Later'[b] = Later[b]
  BY <1>5, <1>8, <1>9 DEF W
<1>11. ASSUME NEW w \in W PROVE Later'[w[2]] = Later[w[1]]
  <2>1. w[1] \in Blocks /\ \A p \in swapIn : p[2] # w[1]
    BY <1>6, <1>7, DevicesAssumption DEF Blocks
  <2> QED
    BY <1>8, <1>9, <2>1
<1>12. Held'
  <2>1. \A h \in Groups : Done(h)' = Done(h)
    BY <1>3 DEF Done, Computed
  <2>2. Carries(W)
    BY <1>3, <1>5, <1>10, <1>11, <2>1 DEF Carries, W
  <2> QED
    BY <1>1, <2>2, HeldKept
<1>13. PairsInv'
  <2>1. ASSUME NEW p \in swapIn' PROVE p[2] \notin free'
    <3>1. CASE p \in swapIn
      <4>1. PICK s \in Seqs : p[2] \in Range(table[s])
        BY <1>3, <1>6, <3>1, InTables
      <4>2. s \notin live[g]
        <5>1. \A b \in Range(table[s]) : s \in live[g] => b \in CpuBlocks
          BY <1>3, RangeOfSeq
        <5> QED
          BY <1>6, <3>1, <4>1, <5>1, DevicesAssumption
      <4>3. p[2] \in Range(table'[s])
        BY <1>5, <4>1, <4>2
      <4> QED
        BY <1>3, <1>5, <1>6, <3>1, <4>3, InTables
    <3>2. CASE p \in W
      BY <1>3, <1>5, <3>2, InTables DEF W
    <3> QED
      BY <1>2, <3>1, <3>2 DEF W
  <2>2. OneSource(swapOut') /\ OneSource(swapIn') /\ OneSource(copies')
    BY <1>1, <1>2, <1>9 DEF PairsInv, W
  <2>3. stage' \in {"swap_in", "swap_in_only", "proactive"} /\ copies' = {}
    BY <1>6
  <2> QED
    BY <2>1, <2>2, <2>3 DEF PairsInv
<1> QED
  BY <1>5, <1>12, <1>13 DEF KVInv

-----------------------------------------------------------------------------
\* The steps of a tick that only select groups, or move on.
LEMMA TakeKept ==
    ASSUME TakeInv, UNCHANGED <<left, take>>, Chosen \subseteq Chosen'
    PROVE  TakeInv'
BY DEF TakeInv

LEMMA PhaseSame ==
    ASSUME UNCHANGED groupVars
    PROVE  /\ UNCHANGED <<phase, tokens, live>>
           /\ \A q : In(q)' = In(q)
BY DEF groupVars, In

LEMMA MoveOnKeeps ==
    ASSUME NoWindow, GeneralInv, KVInv, raised = "no",
           BeginTick \/ EndSelect \/ EndReserve \/ EndSwapIn \/ EndProactive \/ EndExecute,
           raised' = "no"
    PROVE  KVInv'
<1>1. /\ UNCHANGED <<groupVars, left, pinned, take, kv, swapOut, swapIn, copies>>
      /\ UNCHANGED <<table, ref, free>>
  BY DEF BeginTick, EndSelect, EndReserve, EndSwapIn, EndProactive, EndExecute, blockVars,
         cacheVars, Raise
<1>2. \/ stage = "between" /\ stage' = "select"
      \/ stage = "select" /\ stage' \in {"reserve", "swap_in"}
      \/ stage = "reserve" /\ stage' = "swap_in_only"
      \/ stage \in {"swap_in", "swap_in_only"} /\ stage' \in {"proactive", "execute"}
      \/ stage = "proactive" /\ stage' = "execute"
      \/ stage = "execute" /\ stage' = "worker"
  <2>1. CASE BeginTick
    BY <2>1 DEF BeginTick
  <2>2. CASE EndSelect
    BY <2>2 DEF EndSelect
  <2>3. CASE EndReserve
    BY <2>3 DEF EndReserve, Reserving, Raise
  <2>4. CASE EndSwapIn
    BY <2>4 DEF EndSwapIn, SwappingIn
  <2>5. CASE EndProactive \/ EndExecute
    BY <2>5 DEF EndProactive, EndExecute
  <2> QED
    BY <2>1, <2>2, <2>3, <2>4, <2>5
<1>3. UNCHANGED <<tokens, live>> /\ Chosen' = Chosen
  BY <1>1, PhaseSame DEF Chosen
<1>4. TakeInv'
  BY <1>1, <1>3, TakeKept DEF KVInv
<1>5. PairsInv'
  BY <1>1, <1>2 DEF KVInv, PairsInv
<1> QED
  BY <1>1, <1>2, <1>3, <1>4, <1>5, QuietKeeps DEF GeneralInv, CoreInv

LEMMA SelectKeeps ==
    ASSUME NoWindow, GeneralInv, KVInv, raised = "no", NEW g \in Groups, Select(g)
    PROVE  KVInv'
<1>1. /\ stage = "select" /\ stage' = "select" /\ g \in Unselected
      /\ pinned' = Append(pinned, g) /\ take' = [take EXCEPT ![g] = NewTokens(g)]
      /\ UNCHANGED <<groupVars, left, kv, swapOut, swapIn, copies>>
      /\ UNCHANGED <<table, ref, free>>
      /\ BaseInv /\ TickTypes
  BY DEF Select, blockVars, cacheVars, GeneralInv, CoreInv
<1>2. UNCHANGED <<tokens, live>> /\ Chosen' = Chosen \cup {g}
  <2>1. Range(pinned') = Range(pinned) \cup {g}
    BY <1>1, Appended DEF TickTypes
  <2> QED
    BY <1>1, <2>1, PhaseSame DEF Chosen
<1>3. left[g] > 0 => NewTokens(g) <= left[g]
  <2>1. budget.tokens \in Nat /\ left[g] \in Nat /\ TokenBudget \in Nat
    BY <1>1, BudgetAssumption, GroupFacts DEF TickTypes
  <2> QED
    BY <2>1 DEF NewTokens, Uncomputed
<1>4. TakeInv'
  BY <1>1, <1>2, <1>3 DEF KVInv, TakeInv, TickTypes
<1>5. PairsInv'
  BY <1>1 DEF KVInv, PairsInv
<1> QED
  BY <1>1, <1>2, <1>4, <1>5, QuietKeeps

LEMMA ContinueKeeps ==
    ASSUME NoWindow, GeneralInv, KVInv, Continue, raised' = "no"
    PROVE  KVInv'
<1>1. /\ BaseInv /\ TickTypes /\ PinnedInv /\ raised = "no"
      /\ stage = "execute" /\ stage' = "execute" /\ pinned # <<>> /\ pinned' = Tail(pinned)
      /\ UNCHANGED <<left, take, kv, swapOut, swapIn, copies>>
  BY DEF Continue, Starting, cacheVars, GeneralInv, CoreInv, TickInv
<1>2. PICK g \in Groups : /\ g = Head(pinned) /\ phase[g] \in {"ready", "returned"}
                          /\ Range(pinned') = Range(pinned) \ {g}
  BY <1>1, Beheaded DEF Continue, TickTypes, PinnedInv
<1>3. SetPhase(g, "appending") /\ UNCHANGED blockVars
  BY <1>1, <1>2 DEF Continue, Raise
<1>4. UNCHANGED <<table, ref, free, tokens, live>> /\ Chosen \subseteq Chosen'
  <2>1. /\ In("appending")' = In("appending") \cup {g}
        /\ In("executing")' = In("executing") \ {g} /\ g \notin In("executing")
    BY <1>1, <1>2, <1>3, SetPhaseFacts DEF Phases, In
  <2> QED
    BY <1>2, <1>3, <2>1 DEF Chosen, SetPhase, blockVars
<1>5. TakeInv'
  BY <1>1, <1>4, TakeKept DEF KVInv
<1>6. PairsInv'
  BY <1>1, <1>4 DEF KVInv, PairsInv
<1> QED
  BY <1>1, <1>4, <1>5, <1>6, QuietKeeps

\* The steps that swap groups.
LEMMA PreemptVictimKeeps ==
    ASSUME NoWindow, GeneralInv, KVInv, PreemptVictim, raised' = "no"
    PROVE  KVInv'
<1>1. /\ Reserving /\ BaseInv /\ TickTypes
      /\ UNCHANGED <<left, stage, pinned, take, swapIn, copies, kv>>
  BY DEF PreemptVictim, GeneralInv, CoreInv
<1>2. PICK g \in Groups : phase[g] = "ready" /\ SwapGroupOut(g)
  <2>1. PICK i \in Victims : SwapGroupOut(rest[i])
    BY DEF PreemptVictim
  <2>2. i \in DOMAIN rest /\ phase[rest[i]] = "ready"
    BY DEF Victims
  <2>3. rest[i] \in Groups
    BY <1>1, <2>2, RangeOfSeq DEF Range, TickTypes
  <2> QED
    BY <2>1, <2>2, <2>3
<1>3. Chosen \subseteq Chosen'
  <2>1. SetPhase(g, "swapped")
    BY <1>1, <1>2 DEF SwapGroupOut, Raise, Reserving
  <2>2. /\ In("appending")' = In("appending") \ {g} /\ g \notin In("appending")
        /\ In("executing")' = In("executing") \ {g} /\ g \notin In("executing")
    BY <1>1, <1>2, <2>1, SetPhaseFacts DEF Phases, In
  <2> QED
    BY <1>1, <2>2 DEF Chosen
<1>4. TakeInv'
  BY <1>1, <1>3, TakeKept DEF KVInv
<1> QED
  BY <1>1, <1>2, <1>4, OutKeeps

LEMMA PutBackKeeps ==
    ASSUME NoWindow, GeneralInv, KVInv, PutBack, raised' = "no"
    PROVE  KVInv'
<1>1. /\ Reserving /\ BaseInv /\ TickTypes /\ PinnedInv /\ raised = "no" /\ stage = "reserve"
      /\ pinned # <<>> /\ pinned' = SubSeq(pinned, 1, Len(pinned) - 1)
      /\ UNCHANGED <<left, stage, swapIn, copies, kv>>
  BY DEF PutBack, Reserving, GeneralInv, CoreInv, TickInv
<1>2. PICK g \in Groups : g = pinned[Len(pinned)] /\ Range(pinned') = Range(pinned) \ {g}
  BY <1>1, Shortened DEF TickTypes, PinnedInv
<1>3. /\ IF phase[g] = "ready" THEN SwapGroupOut(g)
         ELSE UNCHANGED <<blockVars, groupVars, swapOut>>
      /\ take' = [take EXCEPT ![g] = 0]
  BY <1>2 DEF PutBack
<1>4. Chosen \ {g} \subseteq Chosen'
  <2>1. CASE phase[g] = "ready"
    <3>1. SetPhase(g, "swapped")
      BY <1>1, <1>3, <2>1 DEF SwapGroupOut, Raise
    <3>2. /\ In("appending")' = In("appending") \ {g}
          /\ In("executing")' = In("executing") \ {g}
      BY <1>1, <3>1, SetPhaseFacts DEF Phases
    <3> QED
      BY <1>2, <3>2 DEF Chosen
  <2>2. CASE phase[g] # "ready"
    BY <1>2, <1>3, <2>2, PhaseSame DEF Chosen
  <2> QED
    BY <2>1, <2>2
<1>5. TakeInv'
  <2>1. \A h \in Groups : take'[h] = (IF h = g THEN 0 ELSE take[h]) /\ left[h] \in Nat
    BY <1>1, <1>3, GroupFacts DEF TickTypes
  <2> QED
    BY <1>1, <1>4, <2>1 DEF KVInv, TakeInv
<1>6. CASE phase[g] = "ready"
  BY <1>1, <1>3, <1>5, <1>6, OutKeeps
<1>7. CASE phase[g] # "ready"
  <2>1. UNCHANGED <<table, ref, free, tokens, live, swapOut>>
    BY <1>3, <1>7 DEF blockVars, groupVars
  <2>2. PairsInv'
    BY <1>1, <2>1 DEF KVInv, PairsInv
  <2> QED
    BY <1>1, <1>5, <2>1, <2>2, QuietKeeps
<1> QED
  BY <1>6, <1>7

LEMMA SwapInKeeps ==
    ASSUME NoWindow, GeneralInv, KVInv, SwapInPinned \/ SwapInMore, raised' = "no"
    PROVE  KVInv'
<1>1. /\ BaseInv /\ TickTypes /\ raised = "no"
      /\ stage \in {"swap_in", "swap_in_only", "proactive"}
      /\ UNCHANGED <<left, stage, swapOut, copies, kv>>
  BY DEF SwapInPinned, SwapInMore, SwappingIn, GeneralInv, CoreInv
<1>2. PICK g \in Groups :
         /\ phase[g] = "swapped" /\ SwapGroupIn(g)
         /\ \/ UNCHANGED <<pinned, take>>
            \/ pinned' = Append(pinned, g) /\ take' = [take EXCEPT ![g] = Uncomputed(g)]
  <2>1. CASE SwapInPinned
    <3>1. PICK i \in Returning : SwapGroupIn(pinned[i])
      BY <2>1 DEF SwapInPinned
    <3>2. i \in DOMAIN pinned /\ phase[pinned[i]] = "swapped"
      BY DEF Returning
    <3>3. pinned[i] \in Groups
      BY <1>1, <3>2, RangeOfSeq DEF Range, TickTypes
    <3> QED
      BY <2>1, <3>1, <3>2, <3>3 DEF SwapInPinned
  <2>2. CASE SwapInMore
    <3>1. PICK i \in Candidates :
             \/ Raise("UnboundLocalError")
             \/ /\ SwapGroupIn(rest[i]) /\ pinned' = Append(pinned, rest[i])
                /\ take' = [take EXCEPT ![rest[i]] = Uncomputed(rest[i])]
      BY <2>2 DEF SwapInMore
    <3>2. i \in DOMAIN rest /\ phase[rest[i]] = "swapped"
      BY DEF Candidates
    <3>3. rest[i] \in Groups
      BY <1>1, <3>2, RangeOfSeq DEF Range, TickTypes
    <3>4. ~Raise("UnboundLocalError")
      BY DEF Raise
    <3> QED
      BY <3>1, <3>2, <3>3, <3>4
  <2> QED
    BY <2>1, <2>2
<1>3. /\ Chosen \subseteq Chosen'
      /\ pinned' = Append(pinned, g) => g \in Chosen'
  <2>1. SetPhase(g, "returned")
    BY <1>2 DEF SwapGroupIn
  <2>2. /\ In("appending")' = In("appending") \ {g} /\ g \notin In("appending")
        /\ In("executing")' = In("executing") \ {g} /\ g \notin In("executing")
    BY <1>1, <1>2, <2>1, SetPhaseFacts DEF Phases, In
  <2>3. pinned' = Append(pinned, g) => Range(pinned') = Range(pinned) \cup {g}
    BY <1>1, Appended DEF TickTypes
  <2> QED
    BY <1>2, <2>2, <2>3 DEF Chosen
<1>4. TakeInv'
  <2>1. CASE UNCHANGED <<pinned, take>>
    BY <1>1, <1>3, <2>1, TakeKept DEF KVInv
  <2>2. CASE pinned' = Append(pinned, g) /\ take' = [take EXCEPT ![g] = Uncomputed(g)]
    <3>1. left[g] \in Nat /\ (left[g] > 0 => Uncomputed(g) = left[g])
      BY <1>1, GroupFacts DEF Uncomputed
    <3>2. \A h \in Groups : take'[h] = IF h = g THEN Uncomputed(g) ELSE take[h]
      BY <1>1, <2>2 DEF TickTypes
    <3> QED
      BY <1>1, <1>3, <2>2, <3>1, <3>2 DEF KVInv, TakeInv
  <2> QED
    BY <1>2, <2>1, <2>2
<1> QED
  BY <1>1, <1>2, <1>4, InKeeps

-----------------------------------------------------------------------------
\* The counts of blocks whose holders stay stay.
LEMMA SameHolders ==
    ASSUME Window = 0, ManagerInv, ManagerInv', NEW b \in Blocks,
           \A s \in Seqs : b \in Range(table'[s]) <=> b \in Range(table[s])
    PROVE  ref'[b] = ref[b] /\ (b \in free' <=> b \in free)
<1>1. HoldersIn(table', b) = HoldersIn(table, b)
  BY DEF HoldersIn
<1>2. /\ ref[b] = Cardinality(HoldersIn(table, b))
      /\ ref'[b] = Cardinality(HoldersIn(table', b))
      /\ b \in free <=> HoldersIn(table, b) = {}
      /\ b \in free' <=> HoldersIn(table', b) = {}
  BY HoldersAreTables DEF ManagerInv, PoolExact, RefCountsExact, FreeListExact
<1> QED
  BY <1>1, <1>2

\* A prompt gets blocks that nobody used; nothing of it is computed yet.
LEMMA StartPromptKeeps ==
    ASSUME NoWindow, GeneralInv, KVInv, StartPrompt, raised' = "no"
    PROVE  KVInv'
<1>1. /\ BaseInv /\ BaseInv' /\ TickTypes /\ CacheTypes /\ PinnedInv /\ raised = "no"
      /\ stage = "execute" /\ stage' = "execute" /\ pinned # <<>> /\ pinned' = Tail(pinned)
      /\ UNCHANGED <<left, pending, take, kv, swapOut, swapIn, copies>>
      /\ PairsInv /\ TakeInv /\ Aligned /\ Held
  <2>1. raised = "no" /\ stage = "execute" /\ pending' = pending
    BY DEF StartPrompt, Starting
  <2>2. BaseInv'
    BY StartPromptStep DEF GeneralInv, CoreInv
  <2> QED
    BY <2>1, <2>2 DEF StartPrompt, Starting, cacheVars, GeneralInv, CoreInv, TickInv, KVInv
<1>2. PICK g \in Groups : g = Head(pinned) /\ Range(pinned') = Range(pinned) \ {g}
  BY <1>1, Beheaded DEF TickTypes, PinnedInv
<1> DEFINE n == LogicalBlocks(g)
<1>3. /\ phase[g] = "waiting" /\ Allocate(live[g], n, NumSeqs(g)) /\ SetPhase(g, "executing")
  BY <1>1, <1>2 DEF StartPrompt, Raise
<1>4. /\ ManagerInv /\ live[g] \subseteq Seqs /\ Window = 0
      /\ live[g] # {} /\ ended[g] = 0 /\ Cardinality(live[g]) = 1 /\ IsFiniteSet(live[g])
      /\ \A s \in live[g] : table[s] = <<>>
      /\ tokens[g] \in Nat /\ tokens[g] >= 1 /\ n = BlocksFor(tokens[g])
  BY <1>1, <1>3, GroupFacts DEF GroupInv, NoWindow
<1>5. n \in Nat \ {0} /\ n <= Cardinality(FreeGpu)
  <2>1. n \in Nat \ {0}
    BY <1>4, BlocksForStep
  <2>2. ~(Cardinality(FreeGpu) < InWindow(n))
    BY <1>1, <1>3 DEF Allocate, Raise
  <2>3. InWindow(n) = n
    BY <1>4 DEF InWindow
  <2>4. Cardinality(FreeGpu) \in Nat
    BY <1>4, FreePools
  <2> HIDE DEF n
  <2> QED
    BY <2>1, <2>2, <2>3, <2>4
<1> HIDE DEF n
<1>6. Allocatable(live[g], n, NumSeqs(g))
  BY <1>4, <1>5 DEF Allocatable, NumSeqs
<1>7. /\ ManagerInv' /\ \A s \in live[g] : Range(table'[s]) \subseteq FreeGpu
      /\ \A s \in Seqs \ live[g] : table'[s] = table[s]
  BY <1>3, <1>4, <1>6, AllocateExact
<1>8. /\ tokens' = tokens /\ live' = live
      /\ In("appending")' = In("appending") \ {g} /\ g \notin In("appending")
      /\ In("executing")' = In("executing") \cup {g}
  BY <1>1, <1>3, SetPhaseFacts DEF Phases, In
<1>9. \A h \in Groups : \A s \in live[h] : s \in Seqs /\ (h # g => s \notin live[g])
  BY <1>1 DEF BaseInv, GroupsTypeOK
<1>10. Held'
  <2>1. Later' = Later
    BY <1>1 DEF Later
  <2>2. \A h \in Groups : Done(h)' = Done(h)
    BY <1>1, <1>8 DEF Done, Computed
  <2>3. ASSUME NEW h \in Groups, NEW s \in live[h], NEW i \in DOMAIN table[s]
        PROVE  table'[s] = table[s]
    <3>1. CASE h = g
      BY <1>4, <3>1
    <3>2. CASE h # g
      BY <1>7, <1>9, <3>2
    <3> QED
      BY <3>1, <3>2
  <2>4. Carries({})
    BY <1>8, <2>1, <2>2, <2>3 DEF Carries
  <2> QED
    BY <1>1, <2>4, HeldKept
<1>11. Aligned'
  <2> SUFFICES ASSUME NEW h \in Groups, NEW s \in live[h], NEW q \in live[h],
                      NEW i \in DOMAIN table'[s], NEW j \in DOMAIN table'[q],
                      table'[s][i] = table'[q][j]
               PROVE  i = j
    BY <1>8 DEF Aligned
  <2>1. CASE h = g
    <3>1. s = q
      BY <1>4, <2>1, FS_Singleton
    <3> QED
      BY <1>7, <1>9, <3>1 DEF ManagerInv, IsInjective
  <2>2. CASE h # g
    BY <1>1, <1>7, <1>9, <2>2 DEF Aligned
  <2> QED
    BY <2>1, <2>2
<1>12. PairsInv'
  <2>1. ASSUME NEW b \in Blocks, b \notin free
        PROVE  b \notin free' /\ ref'[b] = ref[b]
    <3>1. ASSUME NEW s \in Seqs
          PROVE  b \in Range(table'[s]) <=> b \in Range(table[s])
      <4>1. CASE s \in live[g]
        BY <1>4, <1>7, <2>1, <4>1, NobodyPinned, FreePools
      <4>2. CASE s \notin live[g]
        BY <1>7, <4>2
      <4> QED
        BY <4>1, <4>2
    <3> QED
      BY <1>4, <1>7, <2>1, <3>1, SameHolders
  <2>2. /\ \A p \in swapIn : p[2] \in Blocks /\ p[2] \notin free
        /\ \A p \in copies : p[2] \in Blocks /\ ref[p[2]] = 1
    BY <1>1 DEF PairsInv, CacheTypes, Blocks
  <2>3. \A p \in copies : p[2] \notin free
    BY <1>4, <2>2, FreeIsUnheld
  <2>4. /\ \A p \in swapIn' : p[2] \notin free'
        /\ \A p \in copies' : ref'[p[2]] = 1
    BY <1>1, <2>1, <2>2, <2>3
  <2>5. OneSource(swapOut') /\ OneSource(swapIn') /\ OneSource(copies')
    BY <1>1 DEF PairsInv
  <2> QED
    BY <1>1, <2>4, <2>5 DEF PairsInv
<1>13. TakeInv'
  <2>1. Chosen \subseteq Chosen'
    BY <1>2, <1>8 DEF Chosen
  <2> QED
    BY <1>1, <2>1, TakeKept
<1> QED
  BY <1>10, <1>11, <1>12, <1>13 DEF KVInv

\* What append_slots does to one table: it gets one new block at most, in place
\* of a last block that others hold too, which is to be copied, or behind it.
LEMMA AppendedTable ==
    ASSUME NoWindow, ManagerInv, raised = "no", NEW s, NEW n,
           Appendable(s, n), AppendSlots(s, n)
    PROVE  /\ \A i \in DOMAIN table[s] :
                 /\ i \in DOMAIN table'[s]
                 /\ \/ table'[s][i] = table[s][i]
                    \/ <<table[s][i], table'[s][i]>> \in Copied(s)
           /\ \A i \in DOMAIN table'[s] :
                 table'[s][i] = AppendNew \/ (i \in DOMAIN table[s] /\ table'[s][i] = table[s][i])
           /\ \A v, w \in Copied(s) : v = w
           /\ \A w \in Copied(s) : /\ w[1] \in Range(table[s]) /\ ref[w[1]] # 1
                                   /\ w[2] = AppendNew /\ ref'[w[2]] = 1
<1>1. /\ s \in Seqs /\ n \in Nat /\ n > 0 /\ table \in [Seqs -> Seq(Blocks)]
      /\ DOMAIN table[s] = 1 .. Len(table[s]) /\ Len(table[s]) \in {n - 1, n}
      /\ table[s] \in Seq(Blocks)
  BY LenProperties DEF Appendable, ManagerInv
<1> DEFINE new == AppendNew
<1>2. /\ new \in Blocks
      /\ \/ table' = [table EXCEPT ![s] = Append(table[s], new)] /\ Len(table[s]) = n - 1
         \/ table' = table
         \/ /\ table' = [table EXCEPT ![s] = [table[s] EXCEPT ![n] = new]]
            /\ Len(table[s]) = n /\ ref[table[s][n]] # 1 /\ ref'[new] = 1
  BY AppendSlotsMaps DEF NoWindow
<1> HIDE DEF new
<1>3. CASE table' = [table EXCEPT ![s] = Append(table[s], new)] /\ Len(table[s]) = n - 1
  <2>1. /\ Len(table'[s]) = n /\ DOMAIN table'[s] = 1 .. n /\ table'[s][n] = new
        /\ \A i \in 1 .. n - 1 : table'[s][i] = table[s][i]
    <3>1. \A t \in Seq(Blocks) :
             /\ Append(t, new) \in Seq(Blocks) /\ Len(Append(t, new)) = Len(t) + 1
             /\ \A i \in 1 .. Len(t) : Append(t, new)[i] = t[i]
             /\ Append(t, new)[Len(t) + 1] = new
      BY <1>2, AppendProperties
    <3>2. table'[s] = Append(table[s], new) /\ Len(table[s]) + 1 = n /\ Len(table[s]) = n - 1
      BY <1>1, <1>3
    <3> QED
      BY <1>1, <3>1, <3>2, LenProperties
  <2>2. Copied(s) = {}
    BY <1>1, <1>3, <2>1 DEF Copied
  <2> QED
    BY <1>1, <1>3, <2>1, <2>2 DEF new
<1>4. CASE table' = table
  <2>1. Copied(s) = {}
    BY <1>4 DEF Copied
  <2> QED
    BY <1>4, <2>1
<1>5. CASE /\ table' = [table EXCEPT ![s] = [table[s] EXCEPT ![n] = new]]
           /\ Len(table[s]) = n /\ ref[table[s][n]] # 1 /\ ref'[new] = 1
  <2>1. /\ DOMAIN table'[s] = 1 .. n /\ n \in 1 .. n /\ table'[s][n] = new
        /\ \A i \in 1 .. n : i # n => table'[s][i] = table[s][i]
    BY <1>1, <1>5
  <2>2. Len(table'[s]) = n /\ table[s][n] \in Range(table[s])
    <3>1. table'[s] = [table[s] EXCEPT ![n] = new] /\ n \in 1 .. Len(table[s])
      BY <1>1, <1>5, <2>1
    <3>2. Len(table'[s]) = Len(table[s])
      BY <1>1, <1>2, <3>1, ExceptSeq
    <3>3. n \in DOMAIN table[s]
      BY <1>1, <3>1
    <3> QED
      BY <1>5, <3>2, <3>3 DEF Range
  <2>3. CASE table'[s] = table[s]
    <3>1. Copied(s) = {}
      BY <2>3 DEF Copied
    <3> QED
      BY <2>3, <3>1
  <2>4. CASE table'[s] # table[s]
    <3>1. Copied(s) = {<<table[s][n], new>>}
      BY <1>1, <1>5, <2>1, <2>2, <2>4 DEF Copied
    <3>2. \A w \in Copied(s) : w[1] = table[s][n] /\ w[2] = new
      BY <3>1
    <3>3. /\ \A v, w \in Copied(s) : v = w
          /\ \A w \in Copied(s) : /\ w[1] \in Range(table[s]) /\ ref[w[1]] # 1
                                  /\ w[2] = new /\ ref'[w[2]] = 1
      BY <1>5, <2>2, <3>1, <3>2
    <3>4. /\ \A i \in DOMAIN table[s] :
                /\ i \in DOMAIN table'[s]
                /\ \/ table'[s][i] = table[s][i]
                   \/ <<table[s][i], table'[s][i]>> \in Copied(s)
          /\ \A i \in DOMAIN table'[s] :
                \/ table'[s][i] = new
                \/ i \in DOMAIN table[s] /\ table'[s][i] = table[s][i]
      BY <1>1, <1>5, <2>1, <3>1
    <3> QED
      BY <3>3, <3>4 DEF new
  <2> QED
    BY <2>3, <2>4
<1> QED
  BY <1>2, <1>3, <1>4, <1>5

\* A sequence is appended to: when a last block is shared, its copy is noted,
\* and nobody who still uses the old one is disturbed.
LEMMA AppendSlotKeeps ==
    ASSUME NoWindow, GeneralInv, KVInv, NEW s \in Seqs, AppendSlot(s), raised' = "no"
    PROVE  KVInv'
<1>1. /\ raised = "no" /\ s \in pending /\ copies' = copies \cup Copied(s)
      /\ UNCHANGED <<left, stage, pinned, take, swapOut, swapIn, kv>>
      /\ BaseInv /\ ManagerInv /\ Window = 0 /\ CacheTypes /\ TickInv
      /\ PairsInv /\ TakeInv /\ Aligned /\ Held
  BY DEF AppendSlot, GeneralInv, CoreInv, KVInv, BaseInv, NoWindow
<1>2. PICK g \in In("appending") :
         /\ AppendSlots(s, LogicalBlocks(g))
         /\ IF pending = {s} THEN SetPhase(g, "executing") ELSE UNCHANGED groupVars
  BY DEF AppendSlot
<1>3. stage = "execute" /\ g \in Groups /\ phase[g] = "appending" /\ s \in live[g]
  BY <1>1, <1>2, GroupFacts DEF TickInv, PhasesInv, In, GroupInv
<1> DEFINE n == LogicalBlocks(g)
<1>4. Appendable(s, n) /\ AppendSlots(s, n)
  <2>1. Cardinality(pending) <= Cardinality(FreeGpu)
    BY <1>1, <1>3, ExecuteFacts DEF GeneralInv
  <2> QED
    BY <1>1, <1>2, <2>1, AppendableFacts
<1> HIDE DEF n
<1> DEFINE W == Copied(s)
           c == After(swapIn, After(swapOut, kv))
           new == AppendNew
<1>5. /\ free' \subseteq free /\ \A b \in Blocks \ free : ref[b] = 1 => ref'[b] = 1
      /\ new \in FreeGpu /\ new \in Blocks /\ new \in free
  BY <1>1, <1>4, AppendSlotsMaps DEF FreeGpu
<1>6. ManagerInv' /\ \A q \in Seqs \ {s} : table'[q] = table[q]
  BY <1>1, <1>4, AppendSlotsExact
<1>7. /\ \A i \in DOMAIN table[s] :
            /\ i \in DOMAIN table'[s]
            /\ table'[s][i] = table[s][i] \/ <<table[s][i], table'[s][i]>> \in W
      /\ \A i \in DOMAIN table'[s] :
            table'[s][i] = new \/ (i \in DOMAIN table[s] /\ table'[s][i] = table[s][i])
      /\ \A v, w \in W : v = w
      /\ \A w \in W : /\ w[1] \in Range(table[s]) /\ ref[w[1]] # 1
                      /\ w[2] = new /\ ref'[w[2]] = 1
  BY <1>1, <1>4, AppendedTable
<1> HIDE DEF W, c, new
<1>8. \A q \in Seqs : \A b \in Range(table[q]) : b \in Blocks \ free
  BY <1>1, InTables, RangeOfSeq DEF ManagerInv
<1>9. ref[new] = 0 /\ \A p \in copies : p[2] \in Blocks /\ ref[p[2]] = 1 /\ p[2] \notin free
  BY <1>1, <1>5, FreeIsUnheld DEF PairsInv, CacheTypes, Blocks
<1>10. OneSource(copies \cup W) /\ Adds(copies, W, c)
  <2>1. Addable(copies, W)
    BY <1>1, <1>5, <1>7, <1>9 DEF Addable, OneSource, PairsInv
  <2> QED
    BY <2>1, AddedPairs
<1>11. Later = After(copies, c) /\ Later' = After(copies \cup W, c)
  BY <1>1 DEF Later, W, c
<1>12. tokens' = tokens /\ live' = live /\ Chosen \subseteq Chosen'
  <2>1. CASE pending = {s}
    <3>1. SetPhase(g, "executing")
      BY <1>2, <2>1
    <3>2. /\ tokens' = tokens /\ live' = live
          /\ In("appending")' = In("appending") \ {g}
          /\ In("executing")' = In("executing") \cup {g}
      BY <1>1, <1>3, <3>1, SetPhaseFacts DEF Phases
    <3> QED
      BY <1>1, <3>2 DEF Chosen
  <2>2. CASE pending # {s}
    BY <1>1, <1>2, <2>2, PhaseSame DEF Chosen
  <2> QED
    BY <2>1, <2>2
<1>13. Held'
  <2>1. \A h \in Groups : Done(h)' = Done(h)
    BY <1>1, <1>3, <1>12 DEF Done, Computed
  <2>2. \A b \in Blocks \ free : Later'[b] = Later[b]
    <3>1. \A b \in Blocks \ free : \A w \in W : w[2] # b
      BY <1>5, <1>7
    <3>2. \A b \in Blocks :
             (\A w \in W : w[2] # b) => After(copies \cup W, c)[b] = After(copies, c)[b]
      BY <1>10 DEF Adds
    <3>3. \A b \in Blocks \ free : After(copies \cup W, c)[b] = After(copies, c)[b]
      BY <3>1, <3>2
    <3> QED
      BY <1>11, <3>3
  <2>3. ASSUME NEW w \in W PROVE Later'[w[2]] = Later[w[1]]
    <3>1. w[1] \in Blocks /\ \A p \in copies : p[2] # w[1]
      BY <1>7, <1>8, <1>9
    <3> QED
      BY <1>10, <1>11, <3>1 DEF Adds
  <2>4. ASSUME NEW h \in Groups, NEW q \in live[h], NEW i \in DOMAIN table[q]
        PROVE  /\ i \in DOMAIN table'[q]
               /\ table'[q][i] = table[q][i] \/ <<table[q][i], table'[q][i]>> \in W
    <3>1. CASE q = s
      BY <1>7, <3>1
    <3>2. CASE q # s
      <4>1. q \in Seqs
        BY <1>1 DEF BaseInv, GroupsTypeOK
      <4> QED
        BY <1>6, <3>2, <4>1
    <3> QED
      BY <3>1, <3>2
  <2>5. Carries(W)
    BY <1>12, <2>1, <2>2, <2>3, <2>4 DEF Carries
  <2> QED
    BY <1>1, <2>5, HeldKept
<1>14. Aligned'
  <2> SUFFICES ASSUME NEW h \in Groups, NEW p \in live[h], NEW q \in live[h],
                      NEW i \in DOMAIN table'[p], NEW j \in DOMAIN table'[q],
                      table'[p][i] = table'[q][j]
               PROVE  i = j
    BY <1>12 DEF Aligned
  <2>1. p \in Seqs /\ q \in Seqs
    BY <1>1 DEF BaseInv, GroupsTypeOK
  <2>2. CASE p = q
    BY <1>6, <2>1, <2>2 DEF ManagerInv, IsInjective
  <2>3. CASE p # q
    <3>1. \A x \in Seqs \ {s} : \A k \in DOMAIN table'[x] :
             /\ k \in DOMAIN table[x] /\ table'[x][k] = table[x][k]
             /\ table[x][k] \in Range(table[x]) /\ table'[x][k] # new
      BY <1>5, <1>6, <1>8 DEF Range
    <3>2. i \in DOMAIN table[p] /\ table'[p][i] = table[p][i]
      BY <1>7, <2>1, <2>3, <3>1
    <3>3. j \in DOMAIN table[q] /\ table'[q][j] = table[q][j]
      BY <1>7, <2>1, <2>3, <3>1
    <3>4. table[p][i] = table[q][j]
      BY <3>2, <3>3
    <3> QED
      BY <1>1, <3>2, <3>3, <3>4 DEF Aligned
  <2> QED
    BY <2>2, <2>3
<1>15. PairsInv'
  <2>1. \A p \in swapIn : p[2] \notin free'
    BY <1>1, <1>5 DEF PairsInv
  <2>2. \A p \in copies \cup W : ref'[p[2]] = 1
    BY <1>5, <1>7, <1>9
  <2>3. OneSource(swapOut') /\ OneSource(swapIn') /\ OneSource(copies')
    BY <1>1, <1>10 DEF PairsInv, W
  <2> QED
    BY <1>1, <1>3, <2>1, <2>2, <2>3 DEF PairsInv, W
<1>16. TakeInv'
  BY <1>1, <1>12, TakeKept
<1> QED
  BY <1>13, <1>14, <1>15, <1>16 DEF KVInv

\* What is left of a tick behind the swaps: no pair is noted.
LEMMA QuietPairs ==
    ASSUME stage' \in {"between", "model", "process"},
           swapOut' = {}, swapIn' = {}, copies' = {}
    PROVE  PairsInv'
BY NoPairs DEF PairsInv

\* The blocks that the tokens of a tick fill are in the tables, and the model
\* writes those that are not full yet.
LEMMA WritesFacts ==
    ASSUME BaseInv, CacheTypes, TickTypes, TakeInv, NEW g \in Groups, phase[g] = "executing"
    PROVE  /\ Computed(g) \in Nat /\ Chunk(g) \in Nat
           /\ \A s \in live[g] :
                 1 .. BlocksFor(Computed(g) + Chunk(g)) \subseteq DOMAIN table[s]
           /\ \A i \in Writes(g) : i \in 1 .. BlocksFor(Computed(g) + Chunk(g))
           /\ \A i \in 1 .. BlocksFor(Computed(g) + Chunk(g)) :
                 i \in Writes(g) \/ i \in 1 .. BlocksFor(Computed(g))
<1>1. /\ tokens[g] \in Nat /\ tokens[g] >= 1 /\ left[g] \in Nat /\ left[g] <= tokens[g]
      /\ take[g] \in Nat /\ (left[g] > 0 => take[g] <= left[g])
      /\ \A s \in live[g] : /\ table[s] \in Seq(GpuBlocks)
                            /\ Len(table[s]) = BlocksFor(tokens[g])
  BY GroupFacts DEF GroupInv, TickTypes, TakeInv
<1>2. Computed(g) \in Nat /\ Chunk(g) \in Nat /\ Computed(g) + Chunk(g) <= tokens[g]
  BY <1>1 DEF Computed, Chunk
<1> DEFINE m == Computed(g)
           k == Computed(g) + Chunk(g)
           a == Computed(g) \div BlockSize
<1>3. /\ a \in Nat /\ a <= BlocksFor(m) /\ BlocksFor(m) \in Nat
      /\ BlocksFor(k) \in Nat /\ BlocksFor(k) <= BlocksFor(tokens[g])
      /\ Writes(g) = a + 1 .. BlocksFor(k)
  <2>1. m \in Nat /\ k \in Nat /\ tokens[g] \in Nat /\ k <= tokens[g]
    BY <1>1, <1>2
  <2>2. Writes(g) = a + 1 .. BlocksFor(k)
    BY DEF Writes
  <2>3. a = m \div BlockSize
    OBVIOUS
  <2> HIDE DEF m, k, a
  <2> QED
    BY <2>1, <2>2, <2>3, BlocksForStep, BlocksForFull, BlocksForMonotone
<1> HIDE DEF m, k, a
<1>4. \A s \in live[g] : 1 .. BlocksFor(k) \subseteq DOMAIN table[s]
  <2> TAKE s \in live[g]
  <2>1. DOMAIN table[s] = 1 .. BlocksFor(tokens[g])
    BY <1>1, LenProperties
  <2>2. BlocksFor(tokens[g]) \in Nat
    BY <1>1, BlocksForStep
  <2> QED
    BY <1>3, <2>1, <2>2
<1>5. /\ \A i \in Writes(g) : i \in 1 .. BlocksFor(k)
      /\ \A i \in 1 .. BlocksFor(k) : i \in Writes(g) \/ i \in 1 .. BlocksFor(m)
  BY <1>3
<1> QED
  BY <1>2, <1>4, <1>5 DEF m, k

\* The model fills the blocks of the groups it runs, and no others.
LEMMA ModelKeeps ==
    ASSUME NoWindow, GeneralInv, GeneralInv', KVInv, Model
    PROVE  KVInv'
<1>1. /\ BaseInv /\ ManagerInv /\ Window = 0 /\ TickTypes /\ CacheTypes /\ CacheTypes'
      /\ PairsInv /\ TakeInv /\ Aligned /\ Held /\ stage = "model"
      /\ swapOut = {} /\ swapIn = {} /\ copies = {}
      /\ swapOut' = {} /\ swapIn' = {} /\ copies' = {}
      /\ UNCHANGED <<table, free, phase, tokens, live, left, pinned, take>>
      /\ stage' = (IF In("executing") = {} THEN "between" ELSE "process")
  <2>1. /\ BaseInv /\ TickTypes /\ CacheTypes /\ CacheTypes' /\ stage = "model"
        /\ PairsInv /\ TakeInv /\ Aligned /\ Held
    BY DEF Model, GeneralInv, CoreInv, KVInv
  <2>2. swapOut = {} /\ swapIn = {} /\ copies = {}
    BY <2>1 DEF PairsInv
  <2> QED
    BY <2>1, <2>2 DEF Model, BaseInv, NoWindow, blockVars, groupVars
<1>2. Later = kv /\ Later' = kv'
  <2>1. Later = After({}, After({}, After({}, kv))) /\ Later' = After({}, After({}, After({}, kv')))
    BY <1>1 DEF Later
  <2>2. kv \in [Blocks -> Contents] /\ kv' \in [Blocks -> Contents]
    BY <1>1 DEF CacheTypes, Contents
  <2> QED
    BY <2>1, <2>2, NoPairs
<1> DEFINE written == UNION {UNION {{<<table[s][i], <<g, i>>>> : i \in Writes(g)} :
                                       s \in live[g]} : g \in In("executing")}
<1>3. kv' = [b \in Blocks |->
                CASE b \in free                  -> Nobody
                  [] \E w \in written : w[1] = b -> (CHOOSE w \in written : w[1] = b)[2]
                  [] OTHER                       -> kv[b]]
  BY DEF Model
<1>4. ASSUME NEW w \in written
      PROVE  \E h \in Groups : /\ phase[h] = "executing"
                               /\ \E q \in live[h] : \E j \in DOMAIN table[q] :
                                     w = <<table[q][j], <<h, j>>>>
  <2>1. PICK h \in In("executing") : \E q \in live[h] : \E j \in Writes(h) :
                                        w = <<table[q][j], <<h, j>>>>
    OBVIOUS
  <2>2. h \in Groups /\ phase[h] = "executing"
    BY DEF In
  <2>3. \A q \in live[h] : \A j \in Writes(h) : j \in DOMAIN table[q]
    BY <1>1, <2>2, WritesFacts
  <2> QED
    BY <2>1, <2>2, <2>3
<1>5. ASSUME NEW g \in Groups, phase[g] = "executing", NEW s \in live[g], NEW i \in Writes(g)
      PROVE  \E w \in written : w[1] = table[s][i]
  <2>1. <<table[s][i], <<g, i>>>> \in written
    BY <1>5 DEF In
  <2> QED
    BY <2>1
<1> HIDE DEF written
<1>6. ASSUME NEW g \in Groups, NEW s \in live[g], NEW i \in DOMAIN table[s],
             NEW w \in written, w[1] = table[s][i]
      PROVE  w[2] = <<g, i>>
  <2>1. PICK h \in Groups : /\ phase[h] = "executing"
                            /\ \E q \in live[h] : \E j \in DOMAIN table[q] :
                                  w = <<table[q][j], <<h, j>>>>
    BY <1>4
  <2>2. PICK q \in live[h] : \E j \in DOMAIN table[q] : w = <<table[q][j], <<h, j>>>>
    BY <2>1
  <2>3. PICK j \in DOMAIN table[q] : w = <<table[q][j], <<h, j>>>>
    BY <2>2
  <2>4. table[q][j] = table[s][i]
    BY <1>6, <2>3
  <2>5. h = g
    <3>1. table[q][j] \in Tabled(live[h]) /\ table[s][i] \in Tabled(live[g])
      BY DEF Tabled, Range
    <3>2. h # g => Tabled(live[h]) \cap Tabled(live[g]) = {}
      BY <1>1 DEF BaseInv
    <3> QED
      BY <2>4, <3>1, <3>2
  <2>6. j = i
    BY <1>1, <2>4, <2>5 DEF Aligned
  <2> QED
    BY <2>3, <2>5, <2>6
<1>7. ASSUME NEW g \in Groups, NEW s \in live[g], NEW i \in DOMAIN table[s]
      PROVE  \/ kv'[table[s][i]] = <<g, i>>
             \/ /\ kv'[table[s][i]] = kv[table[s][i]]
                /\ ~ \E w \in written : w[1] = table[s][i]
  <2> DEFINE b == table[s][i]
  <2>1. b \in Blocks /\ b \notin free
    <3>1. s \in Seqs /\ b \in Range(table[s])
      BY <1>1 DEF BaseInv, GroupsTypeOK, Range
    <3> QED
      BY <1>1, <3>1, InTables, RangeOfSeq DEF ManagerInv
  <2>2. CASE \E w \in written : w[1] = b
    <3> DEFINE v == CHOOSE w \in written : w[1] = b
    <3>1. v \in written /\ v[1] = b
      BY <2>2
    <3>2. kv'[b] = v[2]
      BY <1>3, <2>1, <2>2
    <3> HIDE DEF v
    <3> QED
      BY <1>6, <3>1, <3>2
  <2>3. CASE ~ \E w \in written : w[1] = b
    BY <1>3, <2>1, <2>3
  <2> QED
    BY <2>2, <2>3
<1>8. Held'
  <2> SUFFICES ASSUME NEW g \in Groups, NEW s \in live[g],
                      NEW i \in 1 .. BlocksFor(Done(g)')
               PROVE  i \in DOMAIN table[s] /\ kv'[table[s][i]] = <<g, i>>
    <3>1. \A g : BlocksFor(Done(g))' = BlocksFor(Done(g)')
      BY DEF BlocksFor
    <3> QED
      BY <1>1, <1>2, <3>1 DEF Held
  <2>1. Done(g) = Computed(g)
    BY <1>1 DEF Done
  <2>2. \A j \in 1 .. BlocksFor(Computed(g)) :
           j \in DOMAIN table[s] /\ kv[table[s][j]] = <<g, j>>
    BY <1>1, <1>2, <2>1 DEF Held
  <2>3. CASE phase[g] = "executing"
    <3>1. Done(g)' = Computed(g) + Chunk(g)
      BY <1>1, <2>3 DEF Done, Computed, Chunk, In
    <3>2. /\ i \in DOMAIN table[s]
          /\ i \in Writes(g) \/ i \in 1 .. BlocksFor(Computed(g))
      BY <1>1, <2>3, <3>1, WritesFacts
    <3>3. CASE i \in Writes(g)
      <4>1. g \in Groups /\ s \in live[g] /\ i \in DOMAIN table[s]
        BY <3>2
      <4>2. \E w \in written : w[1] = table[s][i]
        BY <1>5, <2>3, <3>3, <4>1
      <4>3. kv'[table[s][i]] = <<g, i>>
        BY <1>7, <4>1, <4>2
      <4> QED
        BY <4>1, <4>3
    <3>4. CASE i \in 1 .. BlocksFor(Computed(g))
      BY <1>7, <2>2, <3>2, <3>4
    <3> QED
      BY <3>2, <3>3, <3>4
  <2>4. CASE phase[g] # "executing"
    <3>1. Done(g)' = Computed(g)
      BY <1>1, <2>4 DEF Done, Computed
    <3> QED
      BY <1>7, <2>2, <3>1
  <2> QED
    BY <2>3, <2>4
<1>9. TakeInv' /\ Aligned'
  BY <1>1 DEF TakeInv, Chosen, Aligned, In
<1>10. PairsInv'
  BY <1>1, QuietPairs
<1> QED
  BY <1>8, <1>9, <1>10 DEF KVInv

-----------------------------------------------------------------------------
\* A step between the passes of the model that concerns one group: no block of
\* another group changes, and the group is given no tokens by it.
Apart(g) ==
    /\ {stage, stage'} \subseteq {"between", "process"}
    /\ \A h \in Groups \ {g} : take'[h] = take[h] /\ (stage' # stage => phase[h] # "executing")
    /\ take'[g] = 0
    /\ \A b \in Blocks : \A h \in Groups \ {g} : \A i : kv[b] = <<h, i>> => kv'[b] = <<h, i>>
    /\ pinned' = pinned
    /\ UNCHANGED <<swapOut, swapIn, copies>>

\* What the group itself holds behind such a step.
OwnHeld(g) ==
    \A s \in live'[g] : \A i \in 1 .. BlocksFor(Done(g)') :
        i \in DOMAIN table'[s] /\ kv'[table'[s][i]] = <<g, i>>
OwnAligned(g) ==
    \A s, q \in live'[g] : \A i \in DOMAIN table'[s], j \in DOMAIN table'[q] :
        table'[s][i] = table'[q][j] => i = j

LEMMA ApartKeeps ==
    ASSUME NoWindow, GeneralInv, GeneralInv', KVInv, NEW g \in Groups,
           Concerns(g), Apart(g), OwnHeld(g), OwnAligned(g)
    PROVE  KVInv'
<1>1. /\ BaseInv /\ ManagerInv /\ Window = 0 /\ CacheTypes /\ CacheTypes' /\ TickTypes'
      /\ PairsInv /\ TakeInv /\ Aligned /\ Held
  BY DEF GeneralInv, CoreInv, KVInv, BaseInv, NoWindow
<1>2. /\ stage \in {"between", "process"} /\ stage' \in {"between", "process"}
      /\ swapOut = {} /\ swapIn = {} /\ copies = {}
      /\ swapOut' = {} /\ swapIn' = {} /\ copies' = {}
  BY <1>1 DEF Apart, PairsInv
<1>3. Later = kv /\ Later' = kv'
  <2>1. Later = After({}, After({}, After({}, kv))) /\ Later' = After({}, After({}, After({}, kv')))
    BY <1>2 DEF Later
  <2>2. kv \in [Blocks -> Contents] /\ kv' \in [Blocks -> Contents]
    BY <1>1 DEF CacheTypes, Contents
  <2> QED
    BY <2>1, <2>2, NoPairs
<1>4. ASSUME NEW h \in Groups \ {g}
      PROVE  /\ phase'[h] = phase[h] /\ tokens'[h] = tokens[h] /\ live'[h] = live[h]
             /\ left'[h] = left[h] /\ take'[h] = take[h] /\ Done(h)' = Done(h)
             /\ \A s \in live[h] : table'[s] = table[s]
  <2>1. /\ phase'[h] = phase[h] /\ tokens'[h] = tokens[h] /\ live'[h] = live[h]
        /\ left'[h] = left[h] /\ take'[h] = take[h]
        /\ stage' # stage => phase[h] # "executing"
    BY DEF Concerns, Apart
  <2>2. \A s \in live[h] : table'[s] = table[s]
    BY <1>1, ConcernsKeepsOthers
  <2>3. Done(h)' = Done(h)
    BY <2>1 DEF Done, Computed, Chunk
  <2> QED
    BY <2>1, <2>2, <2>3
<1>5. Held'
  <2> SUFFICES ASSUME NEW h \in Groups, NEW s \in live'[h], NEW i \in 1 .. BlocksFor(Done(h)')
               PROVE  i \in DOMAIN table'[s] /\ kv'[table'[s][i]] = <<h, i>>
    <3>1. \A h : BlocksFor(Done(h))' = BlocksFor(Done(h)')
      BY DEF BlocksFor
    <3> QED
      BY <1>3, <3>1 DEF Held
  <2>1. CASE h = g
    BY <2>1 DEF OwnHeld
  <2>2. CASE h # g
    <3>1. s \in live[h] /\ table'[s] = table[s] /\ i \in 1 .. BlocksFor(Done(h))
      BY <1>4, <2>2
    <3>2. i \in DOMAIN table[s] /\ kv[table[s][i]] = <<h, i>>
      BY <1>1, <1>3, <3>1 DEF Held
    <3>3. table[s][i] \in Blocks
      <4>1. s \in Seqs
        BY <1>1, <3>1 DEF BaseInv, GroupsTypeOK
      <4>2. table[s] \in Seq(Blocks) /\ table[s][i] \in Range(table[s])
        BY <1>1, <3>2, <4>1 DEF ManagerInv, Range
      <4> QED
        BY <4>2, RangeOfSeq
    <3>4. kv'[table[s][i]] = <<h, i>>
      BY <2>2, <3>2, <3>3 DEF Apart
    <3> QED
      BY <3>1, <3>2, <3>4
  <2> QED
    BY <2>1, <2>2
<1>6. Aligned'
  <2> SUFFICES ASSUME NEW h \in Groups, NEW s \in live'[h], NEW q \in live'[h],
                      NEW i \in DOMAIN table'[s], NEW j \in DOMAIN table'[q],
                      table'[s][i] = table'[q][j]
               PROVE  i = j
    BY DEF Aligned
  <2>1. CASE h = g
    BY <2>1 DEF OwnAligned
  <2>2. CASE h # g
    <3>1. table'[s] = table[s] /\ table'[q] = table[q] /\ s \in live[h] /\ q \in live[h]
      BY <1>4, <2>2
    <3> QED
      BY <1>1, <3>1 DEF Aligned
  <2> QED
    BY <2>1, <2>2
<1>7. TakeInv'
  <2>1. ASSUME NEW h \in Groups \ {g}, h \in Chosen PROVE h \in Chosen'
    BY <1>4, <2>1 DEF Chosen, In, Apart
  <2>2. take'[g] = 0 /\ left'[g] \in Nat
    BY GroupFacts DEF Apart, Concerns
  <2>3. \A h \in Groups \ {g} : /\ left'[h] > 0 => take'[h] <= left'[h]
                                /\ take'[h] # 0 => h \in Chosen'
    BY <1>1, <1>4, <2>1 DEF TakeInv
  <2> QED
    BY <2>2, <2>3 DEF TakeInv
<1>8. PairsInv'
  BY <1>2, QuietPairs
<1> QED
  BY <1>5, <1>6, <1>7, <1>8 DEF KVInv

\* Between the ticks nobody has been given tokens.
LEMMA NobodyChosen ==
    ASSUME GeneralInv, KVInv, raised = "no", stage = "between"
    PROVE  \A g \in Groups : take[g] = 0 /\ phase[g] # "executing"
<1>1. pinned = <<>> /\ In("appending") = {} /\ In("executing") = {}
  BY QuietFacts DEF GeneralInv
<1>2. Chosen = {}
  BY <1>1, NobodyPinned DEF Chosen
<1> QED
  BY <1>1, <1>2 DEF KVInv, TakeInv, In

\* A request that arrives has nothing computed.
LEMMA AddRequestKeeps ==
    ASSUME NoWindow, GeneralInv, GeneralInv', KVInv, NEW g \in Groups, AddRequest(g)
    PROVE  KVInv'
<1>1. /\ raised = "no" /\ stage = "between" /\ stage' = "between" /\ Arrive(g)
      /\ left' = [left EXCEPT ![g] = tokens'[g]] /\ BaseInv /\ BaseInv'
      /\ UNCHANGED <<take, pinned, pending, kv, swapOut, swapIn, copies>>
  BY DEF AddRequest, tickVars, cacheVars, GeneralInv, CoreInv
<1>2. Concerns(g) /\ phase' = [phase EXCEPT ![g] = "waiting"]
  BY <1>1, ArriveKeepsBase
<1>3. phase'[g] = "waiting" /\ left'[g] = tokens'[g]
  BY <1>1, <1>2 DEF BaseInv, GroupsTypeOK
<1>4. /\ \A s \in live'[g] : table'[s] = <<>>
      /\ left'[g] > 0 /\ tokens'[g] \in Nat
  BY <1>1, <1>3, GroupsAssumption DEF BaseInv, GroupsTypeOK, GroupInv
<1>5. OwnHeld(g)
  <2>1. Done(g)' = 0
    BY <1>1, <1>3, <1>4 DEF Done, Computed
  <2>2. 1 .. BlocksFor(Done(g)') = {}
    BY <2>1, BlocksForNothing
  <2> QED
    BY <2>2 DEF OwnHeld
<1>6. OwnAligned(g)
  BY <1>4 DEF OwnAligned
<1>7. Apart(g)
  BY <1>1, NobodyChosen DEF Apart
<1> QED
  BY <1>2, <1>5, <1>6, <1>7, ApartKeeps

\* What is forgotten of one group is no other's.
LEMMA Forgotten ==
    ASSUME CacheTypes, NEW g \in Groups, Forget(g)
    PROVE  \A b \in Blocks : \A h \in Groups \ {g} : \A i :
              kv[b] = <<h, i>> => kv'[b] = <<h, i>>
<1> SUFFICES ASSUME NEW b \in Blocks, NEW h \in Groups \ {g}, NEW i, kv[b] = <<h, i>>
             PROVE  kv'[b] = kv[b]
  OBVIOUS
<1>1. kv[b][1] = h
  OBVIOUS
<1> QED
  BY <1>1 DEF Forget

\* A request that is aborted leaves nothing to hold.
LEMMA AbortRequestKeeps ==
    ASSUME NoWindow, GeneralInv, GeneralInv', KVInv, NEW g \in Groups, AbortRequest(g)
    PROVE  KVInv'
<1>1. /\ raised = "no" /\ stage = "between" /\ stage' = "between" /\ Leave(g) /\ Forget(g)
      /\ left' = [left EXCEPT ![g] = 0] /\ BaseInv /\ BaseInv' /\ CacheTypes
      /\ UNCHANGED <<take, pinned, pending, swapOut, swapIn, copies>>
  BY DEF AbortRequest, tickVars, GeneralInv, CoreInv
<1>2. Concerns(g) /\ phase' = [phase EXCEPT ![g] = "idle"]
  BY <1>1, LeaveKeepsBase
<1>3. live'[g] = {}
  BY <1>1, <1>2 DEF BaseInv, GroupsTypeOK, GroupInv
<1>4. OwnHeld(g) /\ OwnAligned(g)
  BY <1>3 DEF OwnHeld, OwnAligned
<1>5. Apart(g)
  <2>1. \A b \in Blocks : \A h \in Groups \ {g} : \A i : kv[b] = <<h, i>> => kv'[b] = <<h, i>>
    BY <1>1, Forgotten
  <2> QED
    BY <1>1, <2>1, NobodyChosen DEF Apart
<1> QED
  BY <1>2, <1>4, <1>5, ApartKeeps

\* The tokens of the pass that is over are computed for the group, and its new
\* sequences share the blocks of those they are forked from.
LEMMA ProcessOutputKeeps ==
    ASSUME NoWindow, GeneralInv, GeneralInv', KVInv, NEW g \in Groups, ProcessOutput(g)
    PROVE  KVInv'
<1>1. /\ raised = "no" /\ stage = "process" /\ phase[g] = "executing"
      /\ IF left[g] > Chunk(g)
         THEN SetPhase(g, "ready") /\ UNCHANGED <<blockVars, kv>>
         ELSE /\ SampleAndStop(g, left[g] > 0)
              /\ IF phase'[g] = "idle" THEN Forget(g) ELSE UNCHANGED kv
      /\ left' = [left EXCEPT ![g] = IF left[g] > Chunk(g) THEN left[g] - Chunk(g) ELSE 0]
      /\ take' = [take EXCEPT ![g] = 0]
      /\ stage' = (IF In("executing") = {g} THEN "between" ELSE "process")
      /\ UNCHANGED <<pinned, pending, swapOut, swapIn, copies>>
      /\ BaseInv /\ BaseInv' /\ TickTypes /\ CacheTypes
      /\ PairsInv /\ TakeInv /\ Aligned /\ Held
  BY DEF ProcessOutput, GeneralInv, CoreInv, KVInv
<1>2. /\ tokens[g] \in Nat /\ tokens[g] >= 1 /\ left[g] \in Nat /\ left[g] <= tokens[g]
      /\ take[g] \in Nat /\ (left[g] > 0 => take[g] <= left[g]) /\ Chunk(g) \in Nat
  BY <1>1, GroupFacts DEF GroupInv, TickTypes, TakeInv, Chunk
<1>3. /\ \A b \in Blocks : \A h \in Groups \ {g} : \A i : kv[b] = <<h, i>> => kv'[b] = <<h, i>>
      /\ phase'[g] # "idle" => kv' = kv
  <2>1. kv' = kv \/ (phase'[g] = "idle" /\ Forget(g))
    BY <1>1
  <2> QED
    BY <1>1, <2>1, Forgotten
<1>4. Apart(g)
  <2>1. \A h \in Groups \ {g} : take'[h] = take[h] /\ (stage' # stage => phase[h] # "executing")
    BY <1>1 DEF TickTypes, In
  <2>2. take'[g] = 0
    BY <1>1 DEF TickTypes
  <2>3. {stage, stage'} \subseteq {"between", "process"}
    BY <1>1
  <2> QED
    BY <1>1, <1>3, <2>1, <2>2, <2>3 DEF Apart
<1>5. Later = kv
  BY <1>1, NothingNoted DEF PairsInv
<1>6. Done(g) = Computed(g) + Chunk(g)
  BY <1>1 DEF Done
<1>7. /\ Concerns(g) /\ \A s \in live'[g] : \E p \in live[g] : table'[s] = table[p]
      /\ live'[g] # {} => Done(g)' = Done(g)
  <2>1. CASE left[g] > Chunk(g)
    <3>1. SetPhase(g, "ready") /\ UNCHANGED <<table, ref, free>>
      BY <1>1, <2>1 DEF blockVars
    <3>2. Concerns(g)
      BY <1>1, <1>2, <2>1, <3>1, ChunkKeepsBase
    <3>3. phase'[g] = "ready" /\ tokens' = tokens /\ live' = live
      BY <1>1, <3>1, SetPhaseFacts DEF Phases
    <3>4. left'[g] = left[g] - Chunk(g) /\ Chunk(g) = take[g]
      BY <1>1, <1>2, <2>1 DEF BaseInv, Chunk
    <3>5. Done(g)' = Done(g)
      BY <1>2, <1>6, <2>1, <3>3, <3>4 DEF Done, Computed
    <3> QED
      BY <3>1, <3>2, <3>3, <3>5
  <2>2. CASE ~(left[g] > Chunk(g))
    <3>1. SampleAndStop(g, left[g] > 0) /\ left' = [left EXCEPT ![g] = 0]
      BY <1>1, <2>2
    <3>2. /\ Concerns(g) /\ \A s \in live'[g] : \E p \in live[g] : table'[s] = table[p]
          /\ live'[g] # {} => tokens'[g] = tokens[g] + 1
          /\ phase' \in {[phase EXCEPT ![g] = p] : p \in {"idle", "ready"}}
      BY <1>1, <3>1, SampleKeepsBase
    <3>3. left'[g] = 0 /\ phase'[g] # "executing"
      BY <1>1, <3>1, <3>2 DEF BaseInv, GroupsTypeOK
    <3>4. Done(g) = tokens[g]
      BY <1>2, <1>6, <2>2 DEF Computed, Chunk
    <3>5. live'[g] # {} => Done(g)' = Done(g)
      BY <1>2, <3>2, <3>3, <3>4 DEF Done, Computed
    <3> QED
      BY <3>2, <3>5
  <2> QED
    BY <2>1, <2>2
<1>8. live'[g] # {} => phase'[g] # "idle"
  BY <1>1 DEF BaseInv, GroupInv
<1>9. OwnHeld(g)
  <2> SUFFICES ASSUME NEW s \in live'[g], NEW i \in 1 .. BlocksFor(Done(g)')
               PROVE  i \in DOMAIN table'[s] /\ kv'[table'[s][i]] = <<g, i>>
    BY DEF OwnHeld
  <2>1. PICK p \in live[g] : table'[s] = table[p]
    BY <1>7
  <2>2. i \in DOMAIN table[p] /\ kv[table[p][i]] = <<g, i>>
    BY <1>1, <1>5, <1>7 DEF Held
  <2>3. kv' = kv
    BY <1>3, <1>8
  <2> QED
    BY <2>1, <2>2, <2>3
<1>10. OwnAligned(g)
  <2> SUFFICES ASSUME NEW s \in live'[g], NEW q \in live'[g],
                      NEW i \in DOMAIN table'[s], NEW j \in DOMAIN table'[q],
                      table'[s][i] = table'[q][j]
               PROVE  i = j
    BY DEF OwnAligned
  <2>1. PICK p \in live[g] : table'[s] = table[p]
    BY <1>7
  <2>2. PICK r \in live[g] : table'[q] = table[r]
    BY <1>7
  <2> QED
    BY <1>1, <2>1, <2>2 DEF Aligned
<1> QED
  BY <1>4, <1>7, <1>9, <1>10, ApartKeeps

-----------------------------------------------------------------------------
(* The theorem.                                                               *)
LEMMA KVStart ==
    ASSUME NoWindow, GeneralInit
    PROVE  KVInv
<1>1. /\ stage = "between" /\ swapOut = {} /\ swapIn = {} /\ copies = {}
      /\ \A g \in Groups : take[g] = 0 /\ live[g] = {} /\ left[g] = 0
  BY DEF GeneralInit, GroupsInit
<1>2. PairsInv
  BY <1>1, NoPairs DEF PairsInv
<1> QED
  BY <1>1, <1>2 DEF KVInv, TakeInv, Aligned, Held

LEMMA KVStutters ==
    ASSUME KVInv, UNCHANGED generalVars
    PROVE  KVInv'
<1>1. /\ UNCHANGED <<table, ref, free, phase, tokens, live, left, stage, pinned, take>>
      /\ UNCHANGED <<swapOut, swapIn, copies, kv>>
  BY DEF generalVars, blockVars, groupVars, tickVars, cacheVars
<1>2. /\ Later' = Later /\ \A g \in Groups : Done(g)' = Done(g)
      /\ \A q : In(q)' = In(q)
  BY <1>1 DEF Later, Done, Computed, Chunk, In
<1>3. \A g \in Groups : BlocksFor(Done(g))' = BlocksFor(Done(g))
  BY <1>2 DEF BlocksFor
<1>4. PairsInv' /\ TakeInv'
  BY <1>1, <1>2 DEF KVInv, PairsInv, TakeInv, Chosen
<1>5. Aligned'
  BY <1>1 DEF KVInv, Aligned
<1>6. Held'
  <2>1. Held
    BY DEF KVInv
  <2>2. table' = table /\ live' = live /\ Later' = Later
    BY <1>1, <1>2
  <2> QED
    BY <1>3, <2>1, <2>2 DEF Held
<1> QED
  BY <1>4, <1>5, <1>6 DEF KVInv

LEMMA KVStep ==
    ASSUME NoWindow, GeneralInv, GeneralInv', raised = "no", KVInv, raised' = "no",
           GeneralNext
    PROVE  KVInv'
<1>1. ASSUME NEW g \in Groups,
             AddRequest(g) \/ AbortRequest(g) \/ Select(g) \/ ProcessOutput(g)
      PROVE  KVInv'
  BY <1>1, AddRequestKeeps, AbortRequestKeeps, SelectKeeps, ProcessOutputKeeps
<1>2. CASE BeginTick \/ EndSelect \/ EndReserve \/ EndSwapIn \/ EndProactive \/ EndExecute
  BY <1>2, MoveOnKeeps
<1>3. CASE PreemptVictim \/ PutBack
  BY <1>3, PreemptVictimKeeps, PutBackKeeps
<1>4. CASE SwapInPinned \/ SwapInMore
  BY <1>4, SwapInKeeps
<1>5. CASE StartPrompt \/ Continue
  BY <1>5, StartPromptKeeps, ContinueKeeps
<1>6. ASSUME NEW s \in Seqs, AppendSlot(s) PROVE KVInv'
  BY <1>6, AppendSlotKeeps
<1>7. CASE CacheSwap \/ Model
  BY <1>7, CacheSwapKeeps, ModelKeeps
<1> QED
  BY <1>1, <1>2, <1>3, <1>4, <1>5, <1>6, <1>7 DEF GeneralNext

\* No step follows once something is raised.
LEMMA RaisedStays ==
    ASSUME GeneralInv, GeneralNext, raised # "no"
    PROVE  FALSE
<1>1. stage \notin {"select", "model"}
  BY DEF GeneralInv, CoreInv, Checks
<1>2. ASSUME NEW g \in Groups,
             AddRequest(g) \/ AbortRequest(g) \/ Select(g) \/ ProcessOutput(g)
      PROVE  FALSE
  BY <1>1, <1>2 DEF AddRequest, AbortRequest, Select, ProcessOutput
<1>3. ~BeginTick /\ ~EndSelect /\ ~PreemptVictim /\ ~PutBack /\ ~EndReserve
  BY <1>1 DEF BeginTick, EndSelect, PreemptVictim, PutBack, EndReserve, Reserving
<1>4. ~SwapInPinned /\ ~EndSwapIn /\ ~SwapInMore /\ ~EndProactive
  BY DEF SwapInPinned, EndSwapIn, SwappingIn, SwapInMore, EndProactive
<1>5. ~StartPrompt /\ ~Continue /\ ~EndExecute /\ ~CacheSwap /\ ~Model
  BY <1>1 DEF StartPrompt, Continue, Starting, EndExecute, CacheSwap, Model
<1>6. \A s \in Seqs : ~AppendSlot(s)
  BY DEF AppendSlot
<1> QED
  BY <1>2, <1>3, <1>4, <1>5, <1>6 DEF GeneralNext

\* When the model runs, every block of a group it runs that has computed tokens
\* holds them: swaps out of blocks that others are swapped into in the same
\* tick, copies of blocks that came back in it and the reuse of freed blocks
\* lose nothing, for any number of groups, sequences and blocks.
THEOREM GeneralContents ==
    ASSUME NoWindow
    PROVE  GeneralSpec => []KVIntact
<1> DEFINE Contained == raised = "no" => KVInv
<1>1. GeneralInit => Contained
  BY KVStart
<1>2. GeneralInv /\ GeneralInv' /\ Contained /\ [GeneralNext]_generalVars => Contained'
  <2> SUFFICES ASSUME GeneralInv, GeneralInv', Contained, [GeneralNext]_generalVars,
                      raised' = "no"
               PROVE  KVInv'
    OBVIOUS
  <2>1. CASE GeneralNext
    BY <2>1, RaisedStays, KVStep
  <2>2. CASE UNCHANGED generalVars
    <3>1. raised = "no"
      BY <2>2 DEF generalVars, blockVars
    <3> QED
      BY <2>2, <3>1, KVStutters
  <2> QED
    BY <2>1, <2>2
<1>3. GeneralInv /\ Contained => KVIntact
  <2> SUFFICES ASSUME GeneralInv, Contained, stage = "model",
                      NEW g \in In("executing"), NEW s \in live[g],
                      NEW i \in 1 .. BlocksFor(Computed(g))
               PROVE  kv[table[s][i]] = <<g, i>>
    BY DEF KVIntact
  <2>1. raised = "no" /\ CacheTypes /\ g \in Groups
    BY DEF GeneralInv, CoreInv, Checks, In
  <2>2. PairsInv /\ Held
    BY <2>1 DEF KVInv
  <2>3. Later = kv
    BY <2>1, <2>2, NothingNoted DEF PairsInv
  <2>4. Done(g) = Computed(g)
    BY DEF Done
  <2> QED
    BY <2>1, <2>2, <2>3, <2>4 DEF Held
<1> HIDE DEF Contained
<1> QED
  BY <1>1, <1>2, <1>3, GeneralInvariant, PTL DEF GeneralSpec

-----------------------------------------------------------------------------
(* No tick is empty.                                                          *)

\* The head of the order is wider than a batch, or the last group that was put
\* back is larger than the GPU.
Excused == TooWide(rest[1]) \/ TooLarge(rest[Len(rest)])

\* Somebody is selected as long as somebody is left over, up to the model.
Occupied ==
    /\ stage \in {"between", "select", "process"} => rest = <<>>
    /\ stage = "reserve" =>
          rest = <<>> \/ pinned # <<>> \/ TooWide(rest[1]) \/ (Victims = {} /\ Excused)
    /\ stage \in {"swap_in", "swap_in_only", "proactive"} =>
          rest = <<>> \/ pinned # <<>> \/ Excused
    /\ stage = "execute" =>
          rest = <<>> \/ pinned # <<>> \/ In("appending") # {} \/ In("executing") # {} \/ Excused
    /\ stage \in {"worker", "model"} => rest = <<>> \/ In("executing") # {} \/ Excused

\* What is moved keeps its size.
LEMMA SizeKept ==
    ASSUME NoWindow, ManagerInv, raised = "no", NEW S \in SUBSET Seqs, NEW there,
           Movable(S, there), Move(S, there)
    PROVE  Cardinality(Tabled(S)) <= Cardinality(UNION {Range(table'[s]) : s \in S})
<1> DEFINE old == Tabled(S)
           new == UNION {Range(table'[s]) : s \in S}
           to(b, c) == \E s \in S : \E i \in DOMAIN table[s] : table[s][i] = b /\ c = table'[s][i]
           f == [b \in old |-> CHOOSE c \in new : to(b, c)]
<1>1. /\ \A s \in S : DOMAIN table'[s] = DOMAIN table[s]
      /\ \A s, q \in S : \A i \in DOMAIN table[s], j \in DOMAIN table[q] :
            /\ table'[s][i] \in there
            /\ table'[s][i] = table'[q][j] <=> table[s][i] = table[q][j]
  BY MoveMaps DEF NoWindow
<1>2. IsFiniteSet(new)
  <2>1. ManagerInv'
    BY MoveExact DEF NoWindow
  <2>2. \A s \in S : Range(table'[s]) \subseteq Blocks
    BY <2>1, RangeOfSeq DEF ManagerInv
  <2>3. IsFiniteSet(Blocks)
    BY DevicesAssumption, FS_Union DEF Blocks
  <2> QED
    BY <2>2, <2>3, FS_Subset
<1>3. ASSUME NEW b \in old PROVE f[b] \in new /\ to(b, f[b])
  <2>1. PICK s \in S : b \in Range(table[s])
    BY DEF Tabled
  <2>2. PICK i \in DOMAIN table[s] : table[s][i] = b
    BY <2>1 DEF Range
  <2>3. table'[s][i] \in new /\ to(b, table'[s][i])
    BY <1>1, <2>2 DEF Range
  <2> HIDE DEF new, to
  <2> QED
    BY <2>3
<1>4. \A b, d \in old : f[b] = f[d] => b = d
  <2> SUFFICES ASSUME NEW b \in old, NEW d \in old, f[b] = f[d] PROVE b = d
    OBVIOUS
  <2>1. to(b, f[b]) /\ to(d, f[d])
    BY <1>3
  <2> HIDE DEF f, old, new
  <2>2. PICK s \in S : \E i \in DOMAIN table[s] : table[s][i] = b /\ f[b] = table'[s][i]
    BY <2>1
  <2>3. PICK i \in DOMAIN table[s] : table[s][i] = b /\ f[b] = table'[s][i]
    BY <2>2
  <2>4. PICK q \in S : \E j \in DOMAIN table[q] : table[q][j] = d /\ f[d] = table'[q][j]
    BY <2>1
  <2>5. PICK j \in DOMAIN table[q] : table[q][j] = d /\ f[d] = table'[q][j]
    BY <2>4
  <2>6. table'[s][i] = table'[q][j] <=> table[s][i] = table[q][j]
    BY <1>1
  <2> QED
    BY <2>3, <2>5, <2>6
<1>5. f \in Injection(old, new)
  <2>1. f \in [old -> new]
    <3>1. \A b \in old : f[b] \in new
      BY <1>3
    <3> HIDE DEF old, new, to
    <3> QED
      BY <3>1
  <2> HIDE DEF f, old, new
  <2> QED
    BY <1>4, <2>1 DEF Injection, IsInjective
<1> HIDE DEF f, old, new
<1>6. Cardinality(old) <= Cardinality(new)
  BY <1>2, <1>5, FS_Injection
<1> QED
  BY <1>6 DEF old, new

\* When only one selected group is left and no other one is running, the GPU
\* blocks that are not free are that group's.
LEMMA AllButOneGivenBack ==
    ASSUME NoWindow, CoreInv, Reserving, Victims = {}, NEW g \in Groups, Range(pinned) = {g}
    PROVE  GpuBlocks \subseteq FreeGpu \cup (IF phase[g] = "ready" THEN Tabled(live[g]) ELSE {})
<1>1. /\ BaseInv /\ TickTypes /\ TickInv /\ raised = "no" /\ stage = "reserve"
      /\ In("appending") = {} /\ In("returned") = {} /\ In("executing") = {}
  BY ReserveFacts
<1>2. In("ready") \subseteq {g}
  <2>1. In("ready") \subseteq {g} \cup Range(rest)
    BY <1>1 DEF TickInv, PinnedInv
  <2>2. ASSUME NEW h \in In("ready"), h # g PROVE FALSE
    <3>1. PICK i \in DOMAIN rest : rest[i] = h
      BY <2>1, <2>2 DEF Range
    <3> QED
      BY <2>2, <3>1 DEF Victims, In
  <2> QED
    BY <2>2
<1>3. ASSUME NEW s \in Seqs, NEW b \in GpuBlocks, b \in Range(table[s])
      PROVE  phase[g] = "ready" /\ b \in Tabled(live[g])
  <2>1. s \notin Fresh
    BY <1>1, <1>3, NobodyPinned DEF BaseInv
  <2>2. PICK h \in Groups : s \in live[h]
    BY <2>1 DEF Fresh
  <2>3. GroupInv(h) /\ phase[h] \in Phases
    BY <1>1, GroupFacts
  <2>4. phase[h] \in {"waiting", "swapped", "ready"}
    BY <1>1, <2>2, <2>3 DEF In, Phases, GroupInv
  <2>5. phase[h] # "waiting"
    BY <1>3, <2>2, <2>3, NobodyPinned DEF GroupInv
  <2>6. phase[h] # "swapped"
    <3>1. phase[h] = "swapped" => Range(table[s]) \subseteq CpuBlocks
      BY <2>2, <2>3, RangeOfSeq DEF GroupInv
    <3> QED
      BY <1>3, <3>1, DevicesAssumption
  <2>7. h = g /\ phase[g] = "ready"
    BY <1>2, <2>4, <2>5, <2>6 DEF In
  <2> QED
    BY <1>3, <2>2, <2>7 DEF Tabled
<1>4. ASSUME NEW b \in GpuBlocks, ~(phase[g] = "ready" /\ b \in Tabled(live[g]))
      PROVE  b \in free
  <2>1. HoldersIn(table, b) = {} /\ b \in Blocks
    BY <1>3, <1>4 DEF HoldersIn, Blocks
  <2> QED
    BY <1>1, <2>1, FreeIsUnheld DEF BaseInv, NoWindow
<1> QED
  BY <1>4 DEF FreeGpu

\* So the last selected group is put back only when it is too large.
LEMMA OneIsTooLarge ==
    ASSUME NoWindow, CoreInv, Reserving, Victims = {}, need > 0,
           NEW g \in Groups, Range(pinned) = {g}
    PROVE  TooLarge(g)
<1>1. /\ BaseInv /\ In("returned") = {} /\ TickInv
      /\ Cardinality(FreeGpu) \in Nat /\ Watermark \in Nat /\ need \in Int /\ MaxSeqs \in Nat
      /\ need <= Total(Wanting, {g}) + MaxSeqs - Cardinality(FreeGpu) + Watermark
      /\ Wanting \in [Groups -> Nat]
  BY ReserveFacts
<1> DEFINE T == Cardinality(Tabled(live[g]))
           B == LogicalBlocks(g)
           G == Cardinality(GpuBlocks)
           F == Cardinality(FreeGpu)
           H == IF phase[g] = "ready" THEN Tabled(live[g]) ELSE {}
           h == IF phase[g] = "ready" THEN T ELSE 0
<1>2. /\ ManagerInv /\ live[g] \in SUBSET Seqs /\ T \in Nat /\ B \in Nat
      /\ phase[g] \in {"waiting", "ready", "swapped"}
  BY <1>1, GroupFacts DEF TickInv, PinnedInv, In
<1>3. Total(Wanting, {g}) = Wants(g)
  <2>1. Total(Wanting, {} \cup {g}) = Total(Wanting, {}) + Wanting[g] /\ Total(Wanting, {}) = 0
    BY <1>1, TotalAdd, TotalFacts
  <2>2. Wanting[g] = Wants(g) /\ Wanting[g] \in Nat /\ {} \cup {g} = {g}
    BY <1>1 DEF Wanting
  <2> QED
    BY <2>1, <2>2
<1>4. G \in Nat /\ G <= F + h
  <2>1. GpuBlocks \subseteq FreeGpu \cup H
    BY AllButOneGivenBack
  <2>2. IsFiniteSet(FreeGpu) /\ IsFiniteSet(GpuBlocks)
    BY <1>1, FreePools, DevicesAssumption DEF BaseInv
  <2>3. IsFiniteSet(H) /\ Cardinality(H) = h
    BY <1>2, TabledFinite, FS_EmptySet
  <2> DEFINE U == FreeGpu \cup H
             X == FreeGpu \cap H
  <2>4. IsFiniteSet(U) /\ Cardinality(U) = F + Cardinality(H) - Cardinality(X)
    <3> HIDE DEF H
    <3> QED
      BY <2>2, <2>3, FS_Union
  <2>5. Cardinality(X) \in Nat
    <3>1. X \in SUBSET FreeGpu
      OBVIOUS
    <3> HIDE DEF X
    <3> QED
      BY <2>2, <3>1, FS_Subset, FS_CardinalityType
  <2>6. G <= Cardinality(U) /\ G \in Nat /\ Cardinality(U) \in Nat
    <3> HIDE DEF U
    <3> QED
      BY <2>1, <2>2, <2>4, FS_Subset, FS_CardinalityType DEF U
  <2> DEFINE u == Cardinality(U)
             x == Cardinality(X)
  <2>7. u \in Nat /\ x \in Nat /\ F \in Nat /\ u = F + h - x /\ G <= u /\ G \in Nat /\ h \in Nat
    BY <1>1, <1>2, <2>3, <2>4, <2>5, <2>6
  <2> HIDE DEF u, x, h, F, G
  <2> QED
    BY <2>7
<1>5. need <= Wants(g) + MaxSeqs - F + Watermark
  BY <1>1, <1>3
<1>6. F \in Nat /\ G \in Nat /\ T \in Nat /\ B \in Nat
  BY <1>1, <1>2, <1>4
<1>7. CASE phase[g] = "waiting"
  <2>1. Wants(g) = B /\ Footprint(g) = B /\ G <= F
    BY <1>4, <1>6, <1>7 DEF Wants, Footprint
  <2>2. TooLarge(g) <=> B + MaxSeqs + Watermark > G
    BY <2>1 DEF TooLarge
  <2> HIDE DEF T, B, G, F
  <2> QED
    BY <1>1, <1>5, <1>6, <2>1, <2>2
<1>8. CASE phase[g] = "swapped"
  <2>1. Wants(g) = T /\ Footprint(g) = T /\ G <= F
    BY <1>4, <1>6, <1>8 DEF Wants, Footprint
  <2>2. TooLarge(g) <=> T + MaxSeqs + Watermark > G
    BY <2>1 DEF TooLarge
  <2> HIDE DEF T, B, G, F
  <2> QED
    BY <1>1, <1>5, <1>6, <2>1, <2>2
<1>9. CASE phase[g] = "ready"
  <2>1. Wants(g) = 0 /\ Footprint(g) = T /\ G <= F + T
    BY <1>4, <1>9 DEF Wants, Footprint
  <2>2. TooLarge(g) <=> T + MaxSeqs + Watermark > G
    BY <2>1 DEF TooLarge
  <2> HIDE DEF T, B, G, F
  <2> QED
    BY <1>1, <1>5, <1>6, <2>1, <2>2
<1> QED
  BY <1>2, <1>7, <1>8, <1>9

LEMMA LastIsTooLarge ==
    ASSUME NoWindow, CoreInv, PutBack, raised' = "no", pinned' = <<>>
    PROVE  Victims' = {} /\ TooLarge(rest[Len(rest)])'
<1>a. PICK g : g = pinned[Len(pinned)]
  OBVIOUS
<1>1. /\ Reserving /\ need > 0 /\ Victims = {} /\ pinned # <<>>
      /\ pinned' = SubSeq(pinned, 1, Len(pinned) - 1)
      /\ rest' = Append(rest, g) /\ left' = left /\ pending' = pending
  BY <1>a DEF PutBack
<1>2. IF phase[g] = "ready" THEN SwapGroupOut(g) ELSE UNCHANGED <<blockVars, groupVars>>
  BY <1>a DEF PutBack
<1>3. /\ pinned \in Seq(Groups) /\ IsInjective(pinned) /\ rest \in Seq(Groups)
      /\ BaseInv /\ raised = "no"
  BY <1>1, ReserveFacts DEF TickTypes, TickInv, PinnedInv
<1>4. g \in Groups /\ g \in Range(pinned) /\ Range(pinned') = Range(pinned) \ {g}
  BY <1>a, <1>1, <1>3, Shortened
<1>5. Range(pinned) = {g}
  BY <1>4, NobodyPinned
<1>6. TooLarge(g)
  BY <1>1, <1>4, <1>5, OneIsTooLarge
<1>7. /\ Len(rest') = Len(rest) + 1 /\ rest'[Len(rest')] = g /\ Len(rest) \in Nat
      /\ DOMAIN rest' = 1 .. Len(rest) + 1 /\ DOMAIN rest = 1 .. Len(rest)
      /\ \A i \in 1 .. Len(rest) : rest'[i] = rest[i]
  <2> QED
    BY <1>1, <1>3, <1>4, AppendProperties, LenProperties
<1>8. GroupInv(g) /\ ManagerInv /\ live[g] \in SUBSET Seqs
  BY <1>3, <1>4, GroupFacts
<1>9. /\ phase'[g] # "ready" /\ \A k \in Groups \ {g} : phase'[k] = phase[k]
      /\ Footprint(g) <= Footprint(g)' /\ Footprint(g) \in Nat /\ Footprint(g)' \in Nat
  <2>1. Cardinality(Tabled(live[g])) \in Nat /\ LogicalBlocks(g) \in Nat
    BY <1>3, <1>4, GroupFacts
  <2>2. CASE phase[g] # "ready"
    <3>1. UNCHANGED <<table, phase, tokens, live, ended, kind>>
      BY <1>2, <2>2 DEF blockVars, groupVars
    <3>2. Footprint(g)' = Footprint(g)
      BY <3>1 DEF Footprint, LogicalBlocks, BlocksFor, Tabled
    <3>3. Footprint(g) \in Nat
      BY <2>1 DEF Footprint
    <3> QED
      BY <2>2, <3>1, <3>2, <3>3
  <2>3. CASE phase[g] = "ready"
    <3>1. SwapGroupOut(g)
      BY <1>2, <2>3
    <3>2. CanSwapOut(live[g]) /\ SwapOut(live[g]) /\ SetPhase(g, "swapped")
      BY <3>1 DEF SwapGroupOut, Raise
    <3>3. /\ phase'[g] = "swapped" /\ live' = live
          /\ \A k \in Groups \ {g} : phase'[k] = phase[k]
      BY <1>3, <1>4, <3>2, SetPhaseFacts DEF Phases
    <3>4. Movable(live[g], FreeCpu) /\ Move(live[g], FreeCpu)
      <4>1. \A s \in live[g] : table[s] \in Seq(GpuBlocks)
        BY <1>8, <2>3 DEF GroupInv
      <4> QED
        BY <1>8, <3>2, <4>1 DEF Movable, CanSwapOut, SwapOut
    <3>5. Cardinality(Tabled(live[g])) <= Cardinality(UNION {Range(table'[s]) : s \in live[g]})
      BY <1>3, <1>8, <3>4, SizeKept
    <3>6. Tabled(live[g])' = UNION {Range(table'[s]) : s \in live[g]}
      BY <3>3 DEF Tabled
    <3>7. BaseInv'
      BY <1>1, <1>3, <1>4, <2>3, <3>2, SwapOutKeepsBase
    <3>8. Cardinality(Tabled(live[g])') \in Nat
      <4>1. ManagerInv' /\ live'[g] \in SUBSET Seqs
        BY <1>8, <3>3, <3>7 DEF BaseInv
      <4>2. Tabled(live[g])' \in SUBSET Blocks
        BY <4>1, RangeOfSeq DEF Tabled, ManagerInv
      <4>3. IsFiniteSet(Blocks)
        BY DevicesAssumption, FS_Union DEF Blocks
      <4> QED
        BY <4>2, <4>3, FS_Subset, FS_CardinalityType
    <3> QED
      BY <2>1, <2>3, <3>3, <3>5, <3>6, <3>8 DEF Footprint
  <2> QED
    BY <2>2, <2>3
<1>10. Victims' = {}
  <2> SUFFICES ASSUME NEW i \in DOMAIN rest', phase'[rest'[i]] = "ready" PROVE FALSE
    BY DEF Victims
  <2>1. i \in 1 .. Len(rest) /\ rest'[i] = rest[i] /\ rest[i] # g
    BY <1>7, <1>9
  <2>2. rest[i] \in Groups /\ i \in DOMAIN rest
    BY <1>3, <1>7, <2>1, ElementOfSeq
  <2> QED
    BY <1>1, <1>9, <2>1, <2>2 DEF Victims
<1>11. TooLarge(g)'
  <2>1. Cardinality(GpuBlocks) \in Nat /\ MaxSeqs \in Nat /\ Watermark \in Nat
    BY DevicesAssumption, FS_CardinalityType, BudgetAssumption, WindowAssumption
  <2> QED
    BY <1>6, <1>9, <2>1 DEF TooLarge
<1> QED
  BY <1>7, <1>10, <1>11 DEF TooLarge, Footprint, LogicalBlocks, BlocksFor, Tabled

\* What excuses a tick stays as long as its groups and their tables do.
LEMMA ExcusedSame ==
    ASSUME UNCHANGED <<table, groupVars, rest>>
    PROVE  /\ TooWide(rest[1])' = TooWide(rest[1]) /\ Excused' = Excused /\ Victims' = Victims
           /\ \A q : In(q)' = In(q)
BY DEF groupVars, Excused, TooWide, MaxRunningSeqs, NumSeqs, TooLarge, Footprint,
       LogicalBlocks, BlocksFor, Tabled, Victims, In

\* Every step of the tick keeps somebody.
LEMMA OccupiedStep ==
    ASSUME NoWindow, CoreInv, raised = "no" => Occupied,
           GeneralNext, raised' = "no"
    PROVE  Occupied'
<1>1. BaseInv /\ TickTypes /\ (raised = "no" => TickInv /\ Occupied)
  BY DEF CoreInv
<1>2. ASSUME NEW g \in Groups, AddRequest(g) \/ AbortRequest(g) \/ Select(g) PROVE Occupied'
  <2>1. stage \in {"between", "select"} /\ raised = "no" /\ UNCHANGED <<stage, rest>>
    BY <1>2 DEF AddRequest, AbortRequest, Select, tickVars, CoreInv, Checks
  <2> QED
    BY <1>1, <2>1 DEF Occupied
<1>3. ASSUME NEW g \in Groups, ProcessOutput(g) PROVE Occupied'
  <2>1. /\ stage = "process" /\ raised = "no" /\ stage' \in {"between", "process"}
        /\ UNCHANGED rest
    BY <1>3 DEF ProcessOutput
  <2> QED
    BY <1>1, <2>1 DEF Occupied
<1>4. CASE BeginTick
  <2>1. stage = "between" /\ raised = "no" /\ stage' = "select" /\ UNCHANGED rest
    BY <1>4 DEF BeginTick
  <2> QED
    BY <1>1, <2>1 DEF Occupied
<1>5. CASE EndSelect
  <2>1. stage' \in {"reserve", "swap_in"} /\ UNCHANGED pinned
    BY <1>5 DEF EndSelect
  <2>2. pinned = <<>> => rest' = <<>> \/ TooWide(rest[1])'
    BY <1>5, FirstIsSelected
  <2> QED
    BY <2>1, <2>2 DEF Occupied, Excused
<1>6. CASE PreemptVictim
  <2>1. /\ stage = "reserve" /\ raised = "no" /\ UNCHANGED <<stage, rest, pinned>>
        /\ Victims # {}
    BY <1>6 DEF PreemptVictim, Reserving
  <2>2. UNCHANGED <<live, ended, kind>>
    BY <1>6 DEF PreemptVictim, SwapGroupOut, SetPhase, groupVars
  <2>3. TooWide(rest[1])' = TooWide(rest[1])
    BY <2>1, <2>2 DEF TooWide, MaxRunningSeqs, NumSeqs
  <2> QED
    BY <1>1, <2>1, <2>3 DEF Occupied
<1>7. CASE PutBack
  <2>1. stage = "reserve" /\ UNCHANGED stage
    BY <1>7 DEF PutBack, Reserving
  <2>2. pinned' = <<>> => Victims' = {} /\ TooLarge(rest[Len(rest)])'
    BY <1>7, LastIsTooLarge
  <2> QED
    BY <2>1, <2>2 DEF Occupied, Excused
<1>8. CASE EndReserve
  <2>1. /\ stage = "reserve" /\ raised = "no" /\ UNCHANGED <<rest, pinned>>
        /\ stage' = "swap_in_only" /\ UNCHANGED <<table, groupVars>>
    BY <1>8 DEF EndReserve, Reserving, Raise, blockVars
  <2> QED
    BY <1>1, <2>1, ExcusedSame DEF Occupied, Excused
<1>9. CASE SwapInPinned
  <2>1. /\ stage \in {"swap_in", "swap_in_only"} /\ raised = "no"
        /\ UNCHANGED <<stage, rest, pinned>> /\ Returning # {}
    BY <1>9 DEF SwapInPinned, SwappingIn
  <2>2. pinned # <<>>
    BY <2>1 DEF Returning
  <2> QED
    BY <2>1, <2>2 DEF Occupied
<1>10. CASE EndSwapIn
  <2>1. /\ stage \in {"swap_in", "swap_in_only"} /\ raised = "no" /\ UNCHANGED <<rest, pinned>>
        /\ stage' \in {"proactive", "execute"} /\ UNCHANGED <<table, groupVars>>
    BY <1>10 DEF EndSwapIn, SwappingIn, blockVars
  <2> QED
    BY <1>1, <2>1, ExcusedSame DEF Occupied
<1>11. CASE SwapInMore
  <2>1. stage = "proactive" /\ raised = "no" /\ UNCHANGED <<stage, rest>>
    BY <1>11 DEF SwapInMore
  <2>2. PICK i \in Candidates :
           IF pinned = <<>>
           THEN Raise("UnboundLocalError") /\ UNCHANGED pinned
           ELSE pinned' = Append(pinned, rest[i])
    BY <1>11 DEF SwapInMore
  <2>3. i \in DOMAIN rest /\ rest[i] \in Groups /\ pinned \in Seq(Groups)
    BY <1>1, LenProperties DEF Candidates, TickTypes
  <2>4. pinned # <<>>
    BY <2>2 DEF Raise
  <2>5. pinned' # <<>>
    BY <2>2, <2>3, <2>4, Appended
  <2> QED
    BY <2>1, <2>5 DEF Occupied
<1>12. CASE EndProactive
  <2>1. /\ stage = "proactive" /\ raised = "no" /\ stage' = "execute" /\ UNCHANGED <<rest, pinned>>
        /\ UNCHANGED <<table, groupVars>>
    BY <1>12 DEF EndProactive, blockVars
  <2> QED
    BY <1>1, <2>1, ExcusedSame DEF Occupied
<1>13. CASE StartPrompt
  <2>1. /\ stage = "execute" /\ pinned # <<>> /\ UNCHANGED stage
        /\ SetPhase(Head(pinned), "executing") \/ Raise("AssertionError")
    BY <1>13 DEF StartPrompt, Starting
  <2>2. Head(pinned) \in Groups
    BY <1>1, <2>1, HeadTailProperties DEF TickTypes
  <2>3. SetPhase(Head(pinned), "executing")
    BY <2>1 DEF Raise
  <2>4. In("executing")' # {}
    BY <1>1, <2>2, <2>3, SetPhaseFacts DEF Phases
  <2> QED
    BY <2>1, <2>4 DEF Occupied
<1>14. CASE Continue
  <2>1. /\ stage = "execute" /\ pinned # <<>> /\ UNCHANGED stage
        /\ \/ SetPhase(Head(pinned), "appending")
           \/ Raise(IF CanAppendSlots(live[Head(pinned)]) THEN "NotOneToken" ELSE "AssertionError")
    BY <1>14 DEF Continue, Starting
  <2>2. Head(pinned) \in Groups
    BY <1>1, <2>1, HeadTailProperties DEF TickTypes
  <2>3. SetPhase(Head(pinned), "appending")
    BY <2>1 DEF Raise
  <2>4. In("appending")' # {}
    BY <1>1, <2>2, <2>3, SetPhaseFacts DEF Phases
  <2> QED
    BY <2>1, <2>4 DEF Occupied
<1>15. ASSUME NEW s \in Seqs, AppendSlot(s) PROVE Occupied'
  <2>1. PICK g \in In("appending") :
           IF pending = {s} THEN SetPhase(g, "executing") ELSE UNCHANGED groupVars
    BY <1>15 DEF AppendSlot
  <2>2. raised = "no" /\ s \in pending /\ UNCHANGED stage
    BY <1>15 DEF AppendSlot
  <2>3. stage = "execute"
    BY <1>1, <2>2 DEF TickInv, PhasesInv
  <2>4. g \in Groups
    BY DEF In
  <2>5. CASE pending = {s}
    <3>1. In("executing")' # {}
      BY <1>1, <2>1, <2>4, <2>5, SetPhaseFacts DEF Phases
    <3> QED
      BY <2>2, <2>3, <3>1 DEF Occupied
  <2>6. CASE pending # {s}
    <3>1. phase' = phase
      BY <2>1, <2>6 DEF groupVars
    <3>2. In("appending")' # {}
      BY <3>1 DEF In
    <3> QED
      BY <2>2, <2>3, <3>2 DEF Occupied
  <2> QED
    BY <2>5, <2>6
<1>16. CASE EndExecute
  <2>1. /\ stage = "execute" /\ raised = "no" /\ pending = {} /\ pinned = <<>>
        /\ stage' = "worker" /\ UNCHANGED <<table, rest, groupVars>>
    BY <1>16 DEF EndExecute, blockVars
  <2>2. In("appending") = {}
    BY <1>1, <2>1 DEF TickInv, PhasesInv
  <2> QED
    BY <1>1, <2>1, <2>2, ExcusedSame DEF Occupied
<1>17. CASE CacheSwap
  <2>1. stage = "worker" /\ raised = "no" /\ stage' = "model" /\ UNCHANGED <<table, rest, groupVars>>
    BY <1>17 DEF CacheSwap, blockVars
  <2> QED
    BY <1>1, <2>1, ExcusedSame DEF Occupied
<1>18. CASE Model
  <2>1. stage' \in {"between", "process"} /\ rest' = <<>>
    BY <1>18 DEF Model
  <2> QED
    BY <2>1 DEF Occupied
<1> QED
  BY <1>2, <1>3, <1>4, <1>5, <1>6, <1>7, <1>8, <1>9, <1>10, <1>11, <1>12, <1>13, <1>14,
     <1>15, <1>16, <1>17, <1>18 DEF GeneralNext

\* For every size of the GPU, of a batch and of a request: a tick that leaves
\* somebody out executes somebody, unless the head of the order is wider than a
\* batch or the last group to be put back leaves no room for the watermark and a
\* slot of every sequence of a batch.  The first group fits the budget, and when
\* all the others have given their blocks back, there is room for the last one.
THEOREM GeneralNeverEmpty ==
    ASSUME NoWindow
    PROVE  GeneralSpec => []NoEmptyTick
<1> DEFINE J == GeneralInv /\ (raised = "no" => Occupied)
<1>1. GeneralInit => J
  <2>1. GeneralInit => Occupied
    BY DEF GeneralInit, Occupied
  <2> QED
    BY <2>1, GeneralStart
<1>2. J /\ [GeneralNext]_generalVars => J'
  <2> SUFFICES ASSUME J, [GeneralNext]_generalVars, raised' = "no" PROVE Occupied'
    BY GeneralStep
  <2>1. CASE GeneralNext
    BY <2>1, OccupiedStep DEF GeneralInv
  <2>2. CASE UNCHANGED generalVars
    <3>1. UNCHANGED <<raised, stage, pinned, rest, table, groupVars>>
      BY <2>2 DEF generalVars, blockVars, tickVars
    <3> QED
      BY <3>1, ExcusedSame DEF Occupied
  <2> QED
    BY <2>1, <2>2
<1>3. J => NoEmptyTick
  BY DEF GeneralInv, CoreInv, Checks, Occupied, Excused, NoEmptyTick
<1> QED
  BY <1>1, <1>2, <1>3, PTL DEF GeneralSpec
=============================================================================
