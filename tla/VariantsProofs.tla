---------------------------- MODULE VariantsProofs ----------------------------
(* What holds of the schedulers that replace the dual one: of the schedule     *)
(* types with a warm-up for every set of requests, every chunk size and every  *)
(* choice of failures, and of the MLFQ baseline for every set of requests,     *)
(* every batch size and every number of levels.                                *)
EXTENDS WarmupStages, MLFQ, StreamPredictorProofs, FiniteSetTheorems

\* A request that the streaming types may rank.
Known(r) == WarmEra(r) \/ ~Unscored(r)

\* Where a tick can be, and with which lists: what passed the gate may be
\* ranked, and async-warmup ranks only when nothing of the warm-up is left.
TickFits(t, td, pk) ==
    /\ t \in Stages /\ td \in Seq(Req) /\ pk \in Seq(Req)
    /\ ToSet(td) \union ToSet(pk) \subseteq ToSet(waiting)
    /\ kind = "warmup" => t \in {"idle", "submitFuture", "schedule"}
    /\ kind # "warmup" => t # "submitFuture"
    /\ t = "idle" => td = <<>> /\ pk = <<>>
    /\ kind # "warmup" /\ t = "gate" => \A r \in ToSet(pk) : Known(r)
    /\ kind # "warmup" /\ t = "schedule" => \A r \in ToSet(td) : Known(r)
    /\ kind = "async-warmup"
       /\ (t = "gate" \/ (t = "schedule" /\ \E r \in ToSet(td) : ~WarmEra(r)))
          => \A w \in Queued : ~WarmEra(w)
    /\ Warmup => t # "dead"

\* What is queued has called, and none called after a warm-up that lasts; a
\* request in the queues has started the clock.
Eras ==
    /\ \A r \in Queued : era[r] # "none"
    /\ clock # "over" => \A r \in Req : era[r] # "post"
    /\ Warmup /\ Queued # {} => clock # "off"

RunsKnown == kind # "warmup" => \A r \in running : Known(r)

\* The inductive invariant.
WInv ==
    /\ StagesTypeOK
    /\ IsFiniteSet(running)
    /\ Eras
    /\ RunsKnown
    /\ TickFits(tick, todo, picked)

-----------------------------------------------------------------------------
(* The tick                                                                  *)

LEMMA StagesStill == ASSUME StagesTypeOK, UNCHANGED vars PROVE TypeOK'
BY DEF StagesTypeOK, TypeOK, vars

\* A tick that leaves the queues alone: it remains to see where it goes.
LEMMA TickKeeps ==
    ASSUME WInv, TypeOK', FutureTypeOK', UNCHANGED queueVars,
           \A r \in Req : ~Unscored(r) => score'[r] # "none",
           TickFits(tick', todo', picked')
    PROVE  WInv'
<1>1. UNCHANGED <<kind, clock, era, waiting, running, gone>>
  BY DEF queueVars
<1>2. tick' \in Stages /\ todo' \in Seq(Req) /\ picked' \in Seq(Req)
  BY DEF TickFits
<1>3. StagesTypeOK'
  BY <1>1, <1>2 DEF WInv, StagesTypeOK
<1>4. Queued' = Queued /\ \A r : WarmEra(r)' = WarmEra(r)
  BY <1>1 DEF Queued, WarmEra
<1>5. Eras' /\ IsFiniteSet(running')
  BY <1>1, <1>4 DEF WInv, Eras
<1>6. \A r \in Req : Known(r) => Known(r)'
  BY <1>4 DEF Known, Unscored
<1>7. ToSet(todo') \subseteq Req /\ ToSet(picked') \subseteq Req
  BY <1>2, ElementOfSeq, LenProperties DEF ToSet
<1>8. RunsKnown'
  BY <1>1, <1>6 DEF WInv, StagesTypeOK, RunsKnown
<1>9. TickFits(tick, todo, picked)'
  BY <1>1, <1>4, <1>6, <1>7 DEF TickFits
<1> QED
  BY <1>3, <1>5, <1>8, <1>9 DEF WInv

\* The same for a step that leaves the predictors alone as well.
LEMMA QuietTickKeeps ==
    ASSUME WInv, UNCHANGED <<vars, futureVars, queueVars>>,
           TickFits(tick', todo', picked')
    PROVE  WInv'
<1>1. TypeOK'
  BY StagesStill DEF WInv
<1>2. FutureTypeOK'
  BY DEF WInv, StagesTypeOK, FutureTypeOK, futureVars
<1>3. \A r \in Req : ~Unscored(r) => score'[r] # "none"
  BY DEF Unscored, vars
<1> QED
  BY <1>1, <1>2, <1>3, TickKeeps

LEMMA ListTypes ==
    ASSUME WInv
    PROVE  /\ waiting \in Seq(Req) /\ ToSet(waiting) \subseteq Req
           /\ todo \in Seq(Req) /\ ToSet(todo) \subseteq ToSet(waiting)
           /\ picked \in Seq(Req) /\ ToSet(picked) \subseteq ToSet(waiting)
           /\ <<>> \in Seq(Req) /\ ToSet(<<>>) = {}
<1>1. waiting \in Seq(Req) /\ todo \in Seq(Req) /\ picked \in Seq(Req)
  BY DEF WInv, StagesTypeOK
<1>2. ToSet(waiting) \subseteq Req
  BY <1>1, ElementOfSeq, LenProperties DEF ToSet
<1>3. ToSet(todo) \subseteq ToSet(waiting) /\ ToSet(picked) \subseteq ToSet(waiting)
  BY DEF WInv, TickFits
<1> QED
  BY <1>1, <1>2, <1>3, EmptyElems

\* While the warm-up lasts, all that waits is of it.
LEMMA WarmTickKeeps == ASSUME WInv, WarmTick PROVE WInv'
<1>1. /\ tick' = "schedule" /\ todo' = waiting /\ picked' = <<>> /\ clock = "warm"
      /\ UNCHANGED <<vars, futureVars, queueVars>>
  BY DEF WarmTick, Goto
<1>2. \A r \in ToSet(waiting) : WarmEra(r)
  BY <1>1, ListTypes DEF WInv, StagesTypeOK, Eras, Queued, WarmEra
<1>3. TickFits("schedule", waiting, <<>>)
  BY <1>2, ListTypes DEF TickFits, Known, Stages
<1> QED
  BY <1>1, <1>3, QuietTickKeeps

LEMMA PollTickKeeps == ASSUME WInv, PollTick PROVE WInv'
<1>1. /\ tick' = "submitFuture" /\ todo' = <<>> /\ picked' = <<>>
      /\ kind = "warmup" /\ PollResults /\ UNCHANGED queueVars
  BY DEF PollTick, Goto
<1>2. TickFits("submitFuture", <<>>, <<>>)
  BY <1>1, ListTypes DEF TickFits, Stages
<1>3. score \in [Req -> {"none", "cpu", "gpu"}]
  BY DEF WInv, StagesTypeOK, TypeOK
<1>4. /\ score' = [r \in Req |-> IF future = "done" /\ r \in pending
                                 THEN "cpu" ELSE score[r]]
      /\ UNCHANGED streamState
  BY <1>1 DEF PollResults
<1>5. /\ score' \in [Req -> {"none", "cpu", "gpu"}]
      /\ \A r \in Req : ~Unscored(r) => score'[r] # "none"
  BY <1>3, <1>4 DEF Unscored
<1>6. TypeOK'
  BY <1>4, <1>5 DEF WInv, StagesTypeOK, TypeOK, streamState, lockVars, workerVars
<1>7. FutureTypeOK'
  BY <1>1 DEF PollResults, WInv, StagesTypeOK, FutureTypeOK, futureVars
<1> QED
  BY <1>1, <1>2, <1>5, <1>6, <1>7, TickKeeps

LEMMA SubmitFutureKeeps == ASSUME WInv, SubmitFuture PROVE WInv'
<1>1. /\ tick' = "schedule" /\ todo' = waiting /\ picked' = <<>>
      /\ UNCHANGED <<queueVars, streamState, score>>
  BY DEF SubmitFuture, SubmitAsync, Goto
<1>2. kind = "warmup"
  BY DEF SubmitFuture, WInv, StagesTypeOK, TickFits
<1>3. TickFits("schedule", waiting, <<>>)
  BY <1>2, ListTypes DEF TickFits, Stages
<1>4. TypeOK'
  BY <1>1 DEF WInv, StagesTypeOK, TypeOK, streamState, lockVars, workerVars
<1>5. FutureTypeOK'
  <2>1. {r \in ToSet(waiting) : Unscored(r)} \in SUBSET Req
    BY ListTypes
  <2> QED
    BY <2>1 DEF SubmitFuture, SubmitAsync, WInv, StagesTypeOK, FutureTypeOK,
                futureVars
<1>6. \A r \in Req : ~Unscored(r) => score'[r] # "none"
  BY <1>1 DEF Unscored
<1> QED
  BY <1>1, <1>3, <1>4, <1>5, <1>6, TickKeeps

LEMMA BeginKeeps == ASSUME WInv, ClocklessTick \/ StreamTick PROVE WInv'
<1>1. /\ tick' \in {"schedule", "dead", "collect"}
      /\ todo' \in {<<>>, waiting} /\ picked' = <<>>
      /\ tick' = "schedule" => todo' = <<>>
      /\ tick' = "dead" => Queued # {} /\ clock = "off"
      /\ kind # "warmup"
      /\ UNCHANGED <<vars, futureVars, queueVars>>
  BY DEF ClocklessTick, StreamTick, Goto
<1>2. Warmup => tick' # "dead"
  BY <1>1 DEF WInv, Eras
<1>3. TickFits(tick', todo', picked')
  BY <1>1, <1>2, ListTypes DEF TickFits, Stages
<1> QED
  BY <1>1, <1>3, QuietTickKeeps

LEMMA CollectKeeps == ASSUME WInv, Collect \/ EndCollect PROVE WInv'
<1>1. tick = "collect" /\ UNCHANGED <<vars, futureVars, queueVars>>
  BY DEF Collect, EndCollect
<1>2. kind # "warmup"
  BY <1>1 DEF WInv, TickFits
<1>3. CASE Collect
  <2>1. /\ Head(todo) \in Req /\ Tail(todo) \in Seq(Req)
        /\ ToSet(todo) = {Head(todo)} \union ToSet(Tail(todo))
    BY <1>3, ListTypes, HeadTailElems DEF Collect
  <2>2. /\ Append(picked, Head(todo)) \in Seq(Req)
        /\ ToSet(Append(picked, Head(todo))) = ToSet(picked) \union {Head(todo)}
    BY <2>1, ListTypes, AppendElems
  <2>3. /\ tick' = "collect" /\ todo' = Tail(todo)
        /\ picked' \in {picked, Append(picked, Head(todo))}
    BY <1>3 DEF Collect, Goto
  <2>4. TickFits(tick', todo', picked')
    BY <1>2, <2>1, <2>2, <2>3, ListTypes DEF TickFits, Stages
  <2> QED
    BY <1>1, <2>4, QuietTickKeeps
<1>4. CASE EndCollect
  <2>1. tick' \in {"submit", "build"} /\ todo' = picked /\ picked' = <<>>
    BY <1>4 DEF EndCollect, Goto
  <2>2. TickFits(tick', todo', picked')
    BY <1>2, <2>1, ListTypes DEF TickFits, Stages
  <2> QED
    BY <1>1, <2>2, QuietTickKeeps
<1> QED
  BY <1>3, <1>4

LEMMA SubmitKeeps == ASSUME WInv, Submit PROVE WInv'
<1>1. /\ tick = "submit" /\ Enqueue(todo)
      /\ tick' = "spawning" /\ todo' = <<>> /\ picked' = <<>>
      /\ UNCHANGED <<futureVars, queueVars>>
  BY DEF Submit, Goto
<1>2. TypeOK'
  BY <1>1, ListTypes, EnqueueKeepsType DEF WInv, StagesTypeOK
<1>3. FutureTypeOK'
  BY <1>1 DEF WInv, StagesTypeOK, FutureTypeOK, futureVars
<1>4. \A r \in Req : ~Unscored(r) => score'[r] # "none"
  BY <1>1 DEF Enqueue, Unscored
<1>5. TickFits("spawning", <<>>, <<>>)
  BY <1>1, ListTypes DEF WInv, TickFits, Stages
<1> QED
  BY <1>1, <1>2, <1>3, <1>4, <1>5, TickKeeps

LEMMA SpawnReturnsKeeps == ASSUME WInv, SpawnReturns PROVE WInv'
<1>1. /\ tick = "spawning" /\ tick' = "build" /\ todo' = <<>> /\ picked' = <<>>
      /\ UNCHANGED <<vars, futureVars, queueVars>>
  BY DEF SpawnReturns, Goto
<1>2. TickFits("build", <<>>, <<>>)
  BY <1>1, ListTypes DEF WInv, TickFits, Stages
<1> QED
  BY <1>1, <1>2, QuietTickKeeps

\* The drain offers requests of the warm-up era only.
LEMMA DrainKeeps == ASSUME WInv, Drain PROVE WInv'
<1>1. PICK offer \in Filtered(waiting, {r \in Req : WarmEra(r)}) :
          Goto("schedule", offer, <<>>)
  BY DEF Drain
<1>2. kind = "async-warmup" /\ UNCHANGED <<vars, futureVars, queueVars>>
  BY DEF Drain
<1>3. /\ offer \in Seq(Req)
      /\ ToSet(offer) = ToSet(waiting) \intersect {r \in Req : WarmEra(r)}
  BY ListTypes, FilteredFacts
<1>4. TickFits("schedule", offer, <<>>)
  BY <1>2, <1>3, ListTypes DEF TickFits, Known, Stages
<1> QED
  BY <1>1, <1>2, <1>4, QuietTickKeeps DEF Goto

LEMMA RankedKeeps == ASSUME WInv, Ranked PROVE WInv'
<1>1. /\ tick = "build" /\ tick' = "gate" /\ todo' = waiting /\ picked' = <<>>
      /\ kind = "async-warmup" => ~WarmEraRemaining
      /\ UNCHANGED <<vars, futureVars, queueVars>>
  BY DEF Ranked, Goto
<1>2. kind # "warmup"
  BY <1>1 DEF WInv, TickFits
<1>3. TickFits("gate", waiting, <<>>)
  BY <1>1, <1>2, ListTypes DEF TickFits, WarmEraRemaining, Stages
<1> QED
  BY <1>1, <1>3, QuietTickKeeps

\* What passes the gate may be ranked.
LEMMA GateKeeps == ASSUME WInv, Gate PROVE WInv'
<1>1. /\ tick = "gate" /\ todo # <<>>
      /\ UNCHANGED <<vars, futureVars, queueVars>>
      /\ tick' = "gate" /\ todo' = Tail(todo)
      /\ picked' = IF Known(Head(todo)) THEN Append(picked, Head(todo)) ELSE picked
  BY DEF Gate, Goto, Known
<1>2. /\ Head(todo) \in Req /\ Tail(todo) \in Seq(Req)
      /\ ToSet(todo) = {Head(todo)} \union ToSet(Tail(todo))
  BY <1>1, ListTypes, HeadTailElems
<1>3. /\ Append(picked, Head(todo)) \in Seq(Req)
      /\ ToSet(Append(picked, Head(todo))) = ToSet(picked) \union {Head(todo)}
  BY <1>2, ListTypes, AppendElems
<1>4. /\ kind # "warmup"
      /\ \A r \in ToSet(picked) : Known(r)
      /\ kind = "async-warmup" => \A w \in Queued : ~WarmEra(w)
  BY <1>1 DEF WInv, TickFits
<1>5. TickFits("gate", Tail(todo), picked')
  <2>1. \A r \in ToSet(picked') : Known(r)
    BY <1>1, <1>3, <1>4
  <2>2. picked' \in Seq(Req) /\ ToSet(Tail(todo)) \union ToSet(picked') \subseteq ToSet(waiting)
    BY <1>1, <1>2, <1>3, ListTypes
  <2> QED
    BY <1>2, <1>4, <2>1, <2>2 DEF TickFits, Stages
<1> QED
  BY <1>1, <1>5, QuietTickKeeps

\* So the assertion holds of it, and of what has been running since earlier
\* ticks, whichever stage let that start.
LEMMA EndGateKeeps == ASSUME WInv, EndGate PROVE WInv'
<1>1. tick = "gate" /\ todo = <<>> /\ UNCHANGED <<vars, futureVars, queueVars>>
  BY DEF EndGate
<1>2. /\ kind # "warmup"
      /\ \A r \in ToSet(picked) \union running : Known(r)
      /\ kind = "async-warmup" => \A w \in Queued : ~WarmEra(w)
  BY <1>1 DEF WInv, TickFits, RunsKnown
<1>3. kind \in {"async-warmup", "async-merged"}
  BY <1>2, StagesAssumption DEF WInv, StagesTypeOK
<1>4. ToSet(picked) \union running \subseteq Queued
  BY ListTypes DEF Queued
<1>5. \A r \in ToSet(picked) \union running :
          ~Unscored(r) \/ (kind = "async-merged" /\ WarmEra(r))
  BY <1>2, <1>3, <1>4 DEF Known
<1>6. tick' = "schedule" /\ todo' = picked /\ picked' = <<>>
  BY <1>5 DEF EndGate, Goto
<1>7. TickFits("schedule", picked, <<>>)
  BY <1>2, ListTypes DEF TickFits, Stages
<1> QED
  BY <1>1, <1>6, <1>7, QuietTickKeeps

-----------------------------------------------------------------------------
(* What moves requests                                                       *)

LEMMA ElemsFinite == ASSUME NEW S, NEW s \in Seq(S) PROVE IsFiniteSet(ToSet(s))
<1>1. s \in Seq(ToSet(s))
  <2>1. Len(s) \in Nat /\ s \in [1 .. Len(s) -> ToSet(s)]
    BY LenProperties DEF ToSet
  <2> QED
    BY <2>1, IsASeq
<1>2. \A x \in ToSet(s) : \E n \in 1 .. Len(s) : s[n] = x
  BY LenProperties DEF ToSet
<1> QED
  BY <1>1, <1>2 DEF IsFiniteSet

\* The order in which preempted requests come back is a list of them.
LEMMA OrderFacts ==
    ASSUME NEW P, P \subseteq Req, IsFiniteSet(P), NEW back \in SetToSeqs(P)
    PROVE  back \in Seq(Req) /\ ToSet(back) \subseteq P
<1>1. Cardinality(P) \in Nat /\ back \in [1 .. Cardinality(P) -> P]
  BY FS_CardinalityType DEF SetToSeqs
<1>2. back \in [1 .. Cardinality(P) -> Req]
  BY <1>1
<1>3. back \in Seq(Req)
  BY <1>1, <1>2, IsASeq
<1> QED
  BY <1>1, <1>3 DEF ToSet

\* What the tick starts may run; what it sends back has been running.
LEMMA ScheduleFacts ==
    ASSUME WInv, Schedule
    PROVE  \E S \in SUBSET ToSet(todo), P \in SUBSET running :
              /\ running' = (running \ P) \union S
              /\ waiting' \in Seq(Req)
              /\ ToSet(waiting') \subseteq Queued
<1>1. PICK S \in SUBSET ToSet(todo), P \in SUBSET running :
          \E back \in SetToSeqs(P), rest \in Filtered(waiting, Req \ S) :
             /\ waiting' = back \o rest
             /\ running' = (running \ P) \union S
  BY DEF Schedule
<1>2. PICK back \in SetToSeqs(P), rest \in Filtered(waiting, Req \ S) :
          /\ waiting' = back \o rest
          /\ running' = (running \ P) \union S
  BY <1>1
<1>3. P \subseteq Req /\ IsFiniteSet(P)
  BY FS_Subset DEF WInv, StagesTypeOK
<1>4. back \in Seq(Req) /\ ToSet(back) \subseteq P
  BY <1>2, <1>3, OrderFacts
<1>5. rest \in Seq(Req) /\ ToSet(rest) \subseteq ToSet(waiting)
  BY ListTypes, FilteredFacts
<1>6. waiting' \in Seq(Req)
  BY <1>2, <1>4, <1>5, ConcatProperties
<1>7. ToSet(waiting') = ToSet(back) \union ToSet(rest)
  BY <1>2, <1>4, <1>5, ConcatElems
<1>8. ToSet(waiting') \subseteq Queued
  BY <1>4, <1>5, <1>7 DEF Queued
<1> QED
  BY <1>2, <1>6, <1>8

LEMMA ScheduleKeeps == ASSUME WInv, Schedule PROVE WInv'
<1>1. PICK S \in SUBSET ToSet(todo), P \in SUBSET running :
          /\ running' = (running \ P) \union S
          /\ waiting' \in Seq(Req)
          /\ ToSet(waiting') \subseteq Queued
  BY ScheduleFacts
<1>2. /\ tick = "schedule" /\ tick' = "idle" /\ todo' = <<>> /\ picked' = <<>>
      /\ UNCHANGED <<vars, futureVars, kind, clock, era, gone>>
  BY DEF Schedule, Goto
<1>3. Queued' \subseteq Queued /\ running' \subseteq Req
  BY <1>1, ListTypes DEF Queued, WInv, StagesTypeOK
<1>4. StagesTypeOK'
  <2>1. TypeOK' /\ FutureTypeOK'
    BY <1>2, StagesStill DEF WInv, StagesTypeOK, FutureTypeOK, futureVars
  <2> QED
    BY <1>1, <1>2, <1>3, <2>1, ListTypes DEF WInv, StagesTypeOK, Stages
<1>5. IsFiniteSet(running')
  <2>1. IsFiniteSet(S)
    BY ListTypes, ElemsFinite, FS_Subset
  <2>2. IsFiniteSet(running \ P)
    BY FS_Subset DEF WInv
  <2> QED
    BY <1>1, <2>1, <2>2, FS_Union
<1>6. Eras'
  BY <1>2, <1>3 DEF WInv, Eras
<1>7. RunsKnown'
  BY <1>1, <1>2 DEF WInv, TickFits, RunsKnown, Known, WarmEra, Unscored, vars
<1>8. TickFits(tick, todo, picked)'
  BY <1>2, ListTypes DEF TickFits, Stages
<1> QED
  BY <1>4, <1>5, <1>6, <1>7, <1>8 DEF WInv

\* Between ticks, and when the warm-up ends, nothing that is queued changes
\* its era, and nothing is queued that has not called.
LEMMA EnvironmentKeeps ==
    ASSUME WInv, NEW c \in {"off", "warm", "over"},
           UNCHANGED <<vars, futureVars, kind, tick, todo, picked>>,
           clock' = c, era' \in [Req -> {"none", "warm", "post"}],
           waiting' \in Seq(Req), running' \subseteq running, gone' \in SUBSET Req,
           \A r \in Queued : era'[r] = era[r],
           \A r \in Queued' \ Queued : r \in Req /\ era'[r] # "none",
           c # "over" => \A r \in Req : era'[r] # "post",
           Warmup /\ Queued' # {} => c # "off",
           tick # "idle" => ToSet(waiting) \subseteq ToSet(waiting'),
           tick # "idle" => Queued' \subseteq Queued
    PROVE  WInv'
<1>1. StagesTypeOK'
  <2>1. TypeOK' /\ FutureTypeOK'
    BY StagesStill DEF WInv, StagesTypeOK, FutureTypeOK, futureVars
  <2> QED
    BY <2>1 DEF WInv, StagesTypeOK
<1>2. IsFiniteSet(running')
  BY FS_Subset DEF WInv
<1>3. \A r \in Queued : WarmEra(r)' = WarmEra(r) /\ Known(r)' = Known(r)
  BY DEF WarmEra, Known, Unscored, vars
<1>4. Eras'
  BY DEF WInv, Eras
<1>5. RunsKnown'
  BY <1>3 DEF WInv, RunsKnown, Queued
<1>6. TickFits(tick, todo, picked)'
  <2>1. CASE tick = "idle"
    <3>1. todo = <<>> /\ picked = <<>>
      BY <2>1 DEF WInv, TickFits
    <3> QED
      BY <2>1, <3>1, ListTypes DEF WInv, TickFits
  <2>2. CASE tick # "idle"
    <3>1. ToSet(todo) \union ToSet(picked) \subseteq Queued
      BY ListTypes DEF Queued
    <3> QED
      BY <1>3, <2>2, <3>1 DEF WInv, TickFits
  <2> QED
    BY <2>1, <2>2
<1> QED
  BY <1>1, <1>2, <1>4, <1>5, <1>6 DEF WInv

LEMMA CallKeeps == ASSUME WInv, NEW r \in Req, Call(r) PROVE WInv'
<1>1. /\ era[r] = "none"
      /\ era' = [era EXCEPT ![r] = IF clock = "over" THEN "post" ELSE "warm"]
      /\ UNCHANGED <<vars, futureVars, kind, clock, waiting, running, gone, tick,
                     todo, picked>>
  BY DEF Call
<1>2. /\ era \in [Req -> {"none", "warm", "post"}]
      /\ clock \in {"off", "warm", "over"}
      /\ waiting \in Seq(Req) /\ running \subseteq Req /\ gone \in SUBSET Req
  BY DEF WInv, StagesTypeOK
<1>3. /\ era' \in [Req -> {"none", "warm", "post"}]
      /\ \A q \in Queued : era'[q] = era[q]
      /\ clock # "over" => \A q \in Req : era'[q] # "post"
  BY <1>1, <1>2, ListTypes DEF WInv, Eras, Queued
<1>4. Queued' = Queued /\ (Warmup /\ Queued # {} => clock # "off")
  BY <1>1 DEF Queued, WInv, Eras
<1> QED
  BY <1>1, <1>2, <1>3, <1>4, EnvironmentKeeps

LEMMA AddSeqGroupKeeps == ASSUME WInv, NEW r \in Req, AddSeqGroup(r) PROVE WInv'
<1>1. /\ tick = "idle" /\ era[r] # "none"
      /\ waiting' = Append(waiting, r)
      /\ clock' = IF clock = "off" /\ Warmup THEN "warm" ELSE clock
      /\ UNCHANGED <<vars, futureVars, kind, era, running, gone, tick, todo,
                     picked>>
  BY DEF AddSeqGroup
<1>2. /\ era \in [Req -> {"none", "warm", "post"}]
      /\ clock' \in {"off", "warm", "over"}
      /\ running \subseteq Req /\ gone \in SUBSET Req
  BY <1>1 DEF WInv, StagesTypeOK
<1>3. waiting' \in Seq(Req) /\ ToSet(waiting') = ToSet(waiting) \union {r}
  BY <1>1, ListTypes, AppendElems
<1>4. Queued' = Queued \union {r}
  BY <1>1, <1>3 DEF Queued
<1>5. clock' # "over" => \A q \in Req : era[q] # "post"
  BY <1>1 DEF WInv, Eras
<1>6. Warmup => clock' # "off"
  BY <1>1
<1> QED
  BY <1>1, <1>2, <1>3, <1>4, <1>5, <1>6, EnvironmentKeeps

LEMMA LeaveKeeps ==
    ASSUME WInv, NEW r \in Req, AbortSeqGroup(r) \/ Finish(r) PROVE WInv'
<1>1. /\ tick = "idle"
      /\ running' = running \ {r}
      /\ gone' = gone \union {r}
      /\ UNCHANGED <<vars, futureVars, kind, clock, era, tick, todo, picked>>
  BY DEF AbortSeqGroup, Finish
<1>2. /\ era \in [Req -> {"none", "warm", "post"}]
      /\ clock \in {"off", "warm", "over"}
      /\ gone' \in SUBSET Req
  BY <1>1 DEF WInv, StagesTypeOK
<1>3. waiting' \in Seq(Req) /\ ToSet(waiting') \subseteq ToSet(waiting)
  <2>1. CASE AbortSeqGroup(r)
    <3>1. waiting' \in Filtered(waiting, Req \ {r})
      BY <2>1 DEF AbortSeqGroup
    <3> QED
      BY <3>1, ListTypes, FilteredFacts
  <2>2. CASE Finish(r)
    BY <2>2, ListTypes DEF Finish
  <2> QED
    BY <2>1, <2>2
<1>4. Queued' \subseteq Queued
  BY <1>1, <1>3 DEF Queued
<1>5. /\ clock # "over" => \A q \in Req : era[q] # "post"
      /\ Warmup /\ Queued' # {} => clock # "off"
  BY <1>4 DEF WInv, Eras
<1> QED
  BY <1>1, <1>2, <1>3, <1>4, <1>5, EnvironmentKeeps

LEMMA WarmupEndsKeeps == ASSUME WInv, WarmupEnds PROVE WInv'
<1>1. /\ clock' = "over"
      /\ UNCHANGED <<vars, futureVars, kind, era, waiting, running, gone, tick,
                     todo, picked>>
  BY DEF WarmupEnds
<1>2. /\ era' \in [Req -> {"none", "warm", "post"}]
      /\ waiting' \in Seq(Req) /\ gone' \in SUBSET Req
  BY <1>1 DEF WInv, StagesTypeOK
<1>3. Queued' = Queued
  BY <1>1 DEF Queued
<1> QED
  BY <1>1, <1>2, <1>3, EnvironmentKeeps

-----------------------------------------------------------------------------
(* The executor's thread: scores come and stay.                              *)

LEMMA PredictorKeeps == ASSUME WInv, PredictorStep PROVE WInv'
<1>1. UNCHANGED <<kind, clock, era, waiting, running, gone, tick, todo, picked>>
  BY DEF PredictorStep, stageVars
<1>2. /\ score \in [Req -> {"none", "cpu", "gpu"}]
      /\ TypeOK /\ FutureTypeOK
  BY DEF WInv, StagesTypeOK, TypeOK
<1>3. TypeOK' /\ FutureTypeOK' /\ \A r \in Req : ~Unscored(r) => score'[r] # "none"
  <2>1. CASE StreamThread
    <3>1. /\ Spawn \/ WorkerNext
          /\ UNCHANGED futureVars
      BY <2>1 DEF StreamThread, WorkerNext
    <3>2. TypeOK'
      BY <1>2, <3>1, StepKeepsType
    <3>3. FutureTypeOK'
      BY <1>2, <3>1 DEF FutureTypeOK, futureVars
    <3>4. score' = score \/ Land
      BY <3>1 DEF Spawn, WorkerNext, StartLoop, Exit, Pull, Forward, ForwardFails,
                  Release
    <3>5. \A r \in Req : ~Unscored(r) => score'[r] # "none"
      BY <1>2, <3>4 DEF Land, Unscored
    <3> QED
      BY <3>2, <3>3, <3>5
  <2>2. CASE FutureThread
    <3>1. UNCHANGED <<pending, streamState, score>> /\ future' \in {"done", "failed"}
      BY <2>2 DEF FutureThread, BatchScored, BatchFails
    <3>2. TypeOK' /\ FutureTypeOK'
      BY <1>2, <3>1 DEF TypeOK, FutureTypeOK, streamState, lockVars, workerVars
    <3> QED
      BY <3>1, <3>2 DEF Unscored
  <2> QED
    BY <2>1, <2>2 DEF PredictorStep
<1>4. TickFits(tick', todo', picked')
  BY <1>1 DEF WInv
<1> QED
  BY <1>1, <1>3, <1>4, TickKeeps DEF queueVars

-----------------------------------------------------------------------------
(* The theorems                                                              *)

LEMMA WInvInit == ASSUME StagesInit PROVE WInv
<1>1. TypeOK
  BY TypeInit DEF StagesInit
<1>2. waiting = <<>> /\ todo = <<>> /\ picked = <<>> /\ running = {} /\ tick = "idle"
  BY DEF StagesInit
<1>3. <<>> \in Seq(Req) /\ ToSet(<<>>) = {}
  BY EmptyElems
<1>4. StagesTypeOK
  BY <1>1, <1>3 DEF StagesInit, StagesTypeOK, FutureInit, FutureTypeOK, Stages
<1>5. Queued = {} /\ IsFiniteSet(running)
  BY <1>2, <1>3, FS_EmptySet DEF Queued
<1>6. Eras /\ RunsKnown
  BY <1>2, <1>5 DEF StagesInit, Eras, RunsKnown
<1>7. TickFits(tick, todo, picked)
  BY <1>2, <1>3 DEF TickFits, Stages
<1> QED
  BY <1>4, <1>5, <1>6, <1>7 DEF WInv

LEMMA WInvStep == ASSUME WInv, [StagesNext]_allVars PROVE WInv'
<1>1. CASE UNCHANGED allVars
  <2>1. UNCHANGED <<vars, futureVars, queueVars, tick, todo, picked>>
    BY <1>1 DEF allVars, stageVars, queueVars
  <2>2. TickFits(tick', todo', picked')
    BY <2>1 DEF WInv
  <2> QED
    BY <2>1, <2>2, QuietTickKeeps
<1>2. ASSUME NEW r \in Req,
             Call(r) \/ AddSeqGroup(r) \/ AbortSeqGroup(r) \/ Finish(r)
      PROVE  WInv'
  BY <1>2, CallKeeps, AddSeqGroupKeeps, LeaveKeeps
<1>3. CASE TickStep
  BY <1>3, WarmTickKeeps, PollTickKeeps, SubmitFutureKeeps, BeginKeeps,
     CollectKeeps, SubmitKeeps, SpawnReturnsKeeps, DrainKeeps, RankedKeeps,
     GateKeeps, EndGateKeeps, ScheduleKeeps DEF TickStep
<1> QED
  BY <1>1, <1>2, <1>3, WarmupEndsKeeps, PredictorKeeps DEF StagesNext

THEOREM WInvInvariant == StagesSpec => []WInv
<1>1. StagesInit => WInv
  BY WInvInit
<1>2. WInv /\ [StagesNext]_allVars => WInv'
  BY WInvStep
<1> QED
  BY <1>1, <1>2, PTL DEF StagesSpec

\* The assertion before the sort never fails, whatever requests of the warm-up
\* are still to come and whenever scores land.
THEOREM StageAssertNeverFails == StagesSpec => []StageAssertHolds
<1>1. WInv => StageAssertHolds
  BY DEF WInv, TickFits, StageAssertHolds
<1> QED
  BY <1>1, WInvInvariant, PTL

\* Nothing from after the warm-up starts while something of it is queued.
THEOREM WarmupIsDrainedFirst == StagesSpec => DrainBeforeRanked
<1> DEFINE A == kind = "async-warmup" =>
                    \A r \in running' \ running :
                        ~WarmEra(r) => \A w \in Queued : ~WarmEra(w)
<1>1. WInv /\ [StagesNext]_allVars => [A]_allVars
  <2> SUFFICES ASSUME WInv, StagesNext, NEW r \in running' \ running, ~WarmEra(r),
                      kind = "async-warmup"
               PROVE  \A w \in Queued : ~WarmEra(w)
    OBVIOUS
  <2>1. Schedule
    <3>1. ASSUME ~Schedule PROVE running' \subseteq running
      BY <3>1 DEF StagesNext, TickStep, PredictorStep, Call, AddSeqGroup,
         AbortSeqGroup, Finish, WarmupEnds, WarmTick, PollTick, SubmitFuture,
         ClocklessTick, StreamTick, Collect, EndCollect, Submit, SpawnReturns,
         Drain, Ranked, Gate, EndGate, queueVars, stageVars
    <3> QED
      BY <3>1
  <2>2. tick = "schedule" /\ r \in ToSet(todo)
    BY <2>1, ScheduleFacts DEF Schedule
  <2> QED
    BY <2>2 DEF WInv, TickFits
<1> QED
  BY <1>1, WInvInvariant, PTL DEF StagesSpec, DrainBeforeRanked

-------------------------------------------------------------------------------
(* The multi-level feedback queue: the lists it is made of, by what the      *)
(* operations on them return                                                 *)

\* [g for g in s if g in S]: what it keeps, and in which order.
LEMMA AmongFacts ==
    ASSUME NEW s \in Seq(Group), NEW S
    PROVE  /\ Among(s, S) \in Seq(Group)
           /\ ToSet(Among(s, S)) = ToSet(s) \intersect S
           /\ IsInjective(s) => IsInjective(Among(s, S))
           /\ \A i, j \in DOMAIN Among(s, S) :
                 i < j => Before(s, Among(s, S)[i], Among(s, S)[j])
<1> DEFINE q == [i \in DOMAIN s |-> IF s[i] \in S THEN <<s[i]>> ELSE <<>>]
<1>1. DOMAIN s = 1 .. Len(s) /\ Len(s) \in Nat /\ \A i \in DOMAIN s : s[i] \in Group
  BY LenProperties, ElementOfSeq
<1>2. \A x \in Group : <<x>> \in Seq(Group) /\ DOMAIN <<x>> = 1 .. 1 /\ <<x>>[1] = x
  OBVIOUS
<1>3. <<>> \in Seq(Group) /\ DOMAIN <<>> = {}
  <2>1. <<>> \in Seq(Group) /\ Len(<<>>) = 0
    BY EmptySeq
  <2> QED
    BY <2>1, LenProperties
<1>4. q \in Seq(Seq(Group)) /\ DOMAIN q = DOMAIN s
  <2>1. q \in [1 .. Len(s) -> Seq(Group)]
    BY <1>1, <1>2, <1>3
  <2> QED
    BY <1>1, <2>1, IsASeq
<1>5. \A i \in DOMAIN s : /\ s[i] \in S => q[i] = <<s[i]>>
                          /\ s[i] \notin S => q[i] = <<>>
  OBVIOUS
<1> HIDE DEF q
<1>6. \A i \in DOMAIN s : ToSet(q[i]) = {s[i]} \intersect S
  <2>1. ToSet(<<>>) = {}
    BY <1>3 DEF ToSet
  <2>2. \A x \in Group : ToSet(<<x>>) = {x}
    <3>1. \A x \in Group : ToSet(<<x>>) = {<<x>>[i] : i \in 1 .. 1}
      BY <1>2 DEF ToSet
    <3>2. \A i : i \in 1 .. 1 <=> i = 1
      OBVIOUS
    <3> QED
      BY <1>2, <3>1, <3>2
  <2>3. ASSUME NEW i \in DOMAIN s PROVE ToSet(q[i]) = {s[i]} \intersect S
    <3>1. CASE s[i] \in S
      <4>1. q[i] = <<s[i]>> /\ s[i] \in Group
        BY <1>1, <1>5, <3>1
      <4>2. ToSet(q[i]) = {s[i]}
        BY <2>2, <4>1
      <4> QED
        BY <3>1, <4>2
    <3>2. CASE s[i] \notin S
      BY <1>5, <2>1, <3>2
    <3> QED
      BY <3>1, <3>2
  <2> QED
    BY <2>3
<1>7. Among(s, S) = FlattenSeq(q)
  BY DEF Among, q
<1> DEFINE a == Among(s, S)
<1>8. /\ a \in Seq(Group) /\ ToSet(a) = UNION {ToSet(q[i]) : i \in DOMAIN q}
      /\ OnceIn(q) => IsInjective(a)
      /\ \A i, j \in DOMAIN a : i < j => Earlier(q, a[i], a[j])
  BY <1>4, <1>7, FlattenFacts
<1>9. \A k \in DOMAIN s : \A i, j \in DOMAIN q[k] : i = j
  <2>1. \A x \in Group : \A i, j \in DOMAIN <<x>> : i = j
    BY <1>2
  <2> QED
    BY <1>1, <1>3, <1>5, <2>1
<1> HIDE DEF a
<1>10. ToSet(a) = ToSet(s) \intersect S
  <2>1. \A x : x \in ToSet(a) <=> \E i \in DOMAIN s : x \in ToSet(q[i])
    BY <1>4, <1>8
  <2>2. \A x : x \in ToSet(a) <=> \E i \in DOMAIN s : x = s[i] /\ x \in S
    BY <1>6, <2>1
  <2>3. \A x : x \in ToSet(s) <=> \E i \in DOMAIN s : x = s[i]
    BY DEF ToSet
  <2> QED
    BY <2>2, <2>3
<1>11. IsInjective(s) => IsInjective(a)
  <2>1. SUFFICES ASSUME IsInjective(s) PROVE OnceIn(q)
    BY <1>8
  <2>2. \A i \in DOMAIN q : IsInjective(q[i])
    BY <1>4, <1>9 DEF IsInjective
  <2>3. \A i, j \in DOMAIN q : i # j => s[i] # s[j]
    BY <1>4, <2>1 DEF IsInjective
  <2> QED
    BY <1>4, <1>6, <2>2, <2>3 DEF OnceIn
<1>12. ASSUME NEW i \in DOMAIN a, NEW j \in DOMAIN a, i < j PROVE Before(s, a[i], a[j])
  <2>1. Earlier(q, a[i], a[j])
    BY <1>8, <1>12
  <2>2. PICK k \in DOMAIN q, l \in DOMAIN q : k < l /\ a[i] \in ToSet(q[k]) /\ a[j] \in ToSet(q[l])
    <3>1. \A k \in DOMAIN q : ~ \E x, y \in DOMAIN q[k] : x < y
      <4>1. SUFFICES ASSUME NEW k \in DOMAIN q, NEW x \in DOMAIN q[k], NEW y \in DOMAIN q[k]
                     PROVE  ~(x < y)
        OBVIOUS
      <4>2. x = y /\ x \in Nat
        <5>1. q[k] \in Seq(Group)
          BY <1>4, ElementOfSeq, LenProperties
        <5> QED
          BY <1>4, <1>9, <5>1, LenProperties
      <4> QED
        BY <4>2
    <3> QED
      BY <2>1, <3>1 DEF Earlier
  <2>3. s[k] = a[i] /\ s[l] = a[j]
    BY <1>4, <1>6, <2>2
  <2> QED
    BY <1>4, <2>2, <2>3 DEF Before
<1> QED
  BY <1>8, <1>10, <1>11, <1>12 DEF a

\* A reversed list has the same elements.
LEMMA ReverseFacts ==
    ASSUME NEW s \in Seq(Group)
    PROVE  /\ Reverse(s) \in Seq(Group) /\ ToSet(Reverse(s)) = ToSet(s)
           /\ IsInjective(s) => IsInjective(Reverse(s))
<1> DEFINE r == Reverse(s)
<1>1. DOMAIN s = 1 .. Len(s) /\ Len(s) \in Nat /\ \A i \in 1 .. Len(s) : s[i] \in Group
  BY LenProperties, ElementOfSeq
<1>2. DOMAIN r = 1 .. Len(s) /\ \A i \in 1 .. Len(s) : r[i] = s[Len(s) - i + 1]
  BY DEF Reverse
<1>3. \A i \in 1 .. Len(s) : Len(s) - i + 1 \in 1 .. Len(s) /\ i = Len(s) - (Len(s) - i + 1) + 1
  BY <1>1
<1>4. r \in Seq(Group)
  <2>1. r \in [1 .. Len(s) -> Group]
    BY <1>1, <1>3 DEF Reverse
  <2> QED
    BY <1>1, <2>1, IsASeq
<1> HIDE DEF r
<1>5. ToSet(r) = ToSet(s)
  <2>1. \A i \in 1 .. Len(s) : r[i] \in ToSet(s)
    BY <1>1, <1>2, <1>3 DEF ToSet
  <2>2. ASSUME NEW i \in 1 .. Len(s) PROVE s[i] \in ToSet(r)
    <3> DEFINE j == Len(s) - i + 1
    <3>1. j \in 1 .. Len(s) /\ i = Len(s) - j + 1
      BY <1>3
    <3> HIDE DEF j
    <3>2. r[j] = s[i]
      BY <1>2, <3>1
    <3> QED
      BY <1>2, <3>1, <3>2 DEF ToSet
  <2> QED
    BY <1>1, <1>2, <2>1, <2>2 DEF ToSet
<1>6. ASSUME IsInjective(s) PROVE IsInjective(r)
  <2>1. ASSUME NEW i \in 1 .. Len(s), NEW j \in 1 .. Len(s), r[i] = r[j] PROVE i = j
    <3>1. s[Len(s) - i + 1] = s[Len(s) - j + 1]
      BY <1>2, <2>1
    <3>2. Len(s) - i + 1 = Len(s) - j + 1
      BY <1>1, <1>3, <1>6, <3>1 DEF IsInjective
    <3> QED
      BY <1>1, <3>2
  <2> QED
    BY <1>2, <2>1 DEF IsInjective
<1> QED
  BY <1>4, <1>5, <1>6 DEF r

\* What push_front makes of a list: the elements of s that are in S, reversed,
\* before those of t.
LEMMA PushedFacts ==
    ASSUME NEW s \in Seq(Group), NEW t \in Seq(Group), NEW S
    PROVE  /\ Reverse(Among(s, S)) \o t \in Seq(Group)
           /\ ToSet(Reverse(Among(s, S)) \o t) = (ToSet(s) \intersect S) \union ToSet(t)
           /\ IsInjective(s) /\ IsInjective(t) /\ ToSet(s) \intersect S \intersect ToSet(t) = {}
                  => IsInjective(Reverse(Among(s, S)) \o t)
<1> DEFINE a == Among(s, S)
           r == Reverse(a)
<1>1. /\ a \in Seq(Group) /\ ToSet(a) = ToSet(s) \intersect S
      /\ IsInjective(s) => IsInjective(a)
  BY AmongFacts
<1> HIDE DEF a
<1>2. r \in Seq(Group) /\ ToSet(r) = ToSet(a) /\ (IsInjective(a) => IsInjective(r))
  BY <1>1, ReverseFacts
<1> HIDE DEF r
<1>3. r \o t \in Seq(Group) /\ ToSet(r \o t) = ToSet(r) \union ToSet(t)
  BY <1>2, ConcatProperties, ConcatElems
<1>4. ASSUME IsInjective(s), IsInjective(t), ToSet(s) \intersect S \intersect ToSet(t) = {}
      PROVE  IsInjective(r \o t)
  BY <1>1, <1>2, <1>4, ConcatInjective
<1> QED
  BY <1>1, <1>2, <1>3, <1>4 DEF r, a

\* A list cut in two: what is in the first part is before what is in the second.
LEMMA CutFacts ==
    ASSUME NEW s \in Seq(Group), NEW k \in 0 .. Len(s), IsInjective(s)
    PROVE  LET a == SubSeq(s, 1, k)
               b == SubSeq(s, k + 1, Len(s))
           IN /\ a \in Seq(Group) /\ b \in Seq(Group)
              /\ IsInjective(a) /\ IsInjective(b)
              /\ ToSet(s) = ToSet(a) \union ToSet(b)
              /\ ToSet(a) \intersect ToSet(b) = {}
              /\ \A x \in ToSet(a), y \in ToSet(b) : Before(s, x, y)
              /\ \A x, y : Before(a, x, y) \/ Before(b, x, y) => Before(s, x, y)
<1> DEFINE a == SubSeq(s, 1, k)
           b == SubSeq(s, k + 1, Len(s))
<1>1. Len(s) \in Nat /\ DOMAIN s = 1 .. Len(s)
  BY LenProperties
<1>2. a \in Seq(Group) /\ b \in Seq(Group) /\ s = a \o b
  BY CutInTwo
<1>3. /\ DOMAIN a = 1 .. k /\ \A i \in 1 .. k : a[i] = s[i]
      /\ DOMAIN b = 1 .. Len(s) - k /\ \A i \in 1 .. Len(s) - k : b[i] = s[k + i]
  BY <1>1
<1> HIDE DEF a, b
<1>4. /\ IsInjective(a) /\ IsInjective(b)
      /\ ToSet(s) = ToSet(a) \union ToSet(b)
      /\ ToSet(a) \intersect ToSet(b) = {}
  <2>1. ToSet(s) = ToSet(a) \union ToSet(b)
    BY <1>2, ConcatElems
  <2>2. IsInjective(a \o b)
    BY <1>2
  <2> QED
    BY <1>2, <2>1, <2>2, ConcatInjective
<1>5. ASSUME NEW x \in ToSet(a), NEW y \in ToSet(b) PROVE Before(s, x, y)
  <2>1. PICK i \in 1 .. k : a[i] = x
    BY <1>3 DEF ToSet
  <2>2. PICK j \in 1 .. Len(s) - k : b[j] = y
    BY <1>3 DEF ToSet
  <2>3. i \in DOMAIN s /\ k + j \in DOMAIN s /\ i < k + j
    BY <1>1, <2>1, <2>2
  <2>4. s[i] = x /\ s[k + j] = y
    BY <1>3, <2>1, <2>2
  <2> QED
    BY <2>3, <2>4 DEF Before
<1>6. ASSUME NEW x, NEW y, Before(a, x, y) PROVE Before(s, x, y)
  <2>1. PICK i \in 1 .. k, j \in 1 .. k : i < j /\ a[i] = x /\ a[j] = y
    BY <1>3, <1>6 DEF Before
  <2>2. i \in DOMAIN s /\ j \in DOMAIN s /\ s[i] = x /\ s[j] = y
    BY <1>1, <1>3, <2>1
  <2> QED
    BY <2>1, <2>2 DEF Before
<1>7. ASSUME NEW x, NEW y, Before(b, x, y) PROVE Before(s, x, y)
  <2>1. PICK i \in 1 .. Len(s) - k, j \in 1 .. Len(s) - k : i < j /\ b[i] = x /\ b[j] = y
    BY <1>3, <1>7 DEF Before
  <2>2. k + i \in DOMAIN s /\ k + j \in DOMAIN s /\ k + i < k + j
    BY <1>1, <2>1
  <2>3. s[k + i] = x /\ s[k + j] = y
    BY <1>3, <2>1
  <2> QED
    BY <2>2, <2>3 DEF Before
<1> QED
  BY <1>2, <1>4, <1>5, <1>6, <1>7 DEF a, b

\* What reserve_free_blocks does to the selected groups s and the others o: it
\* splits s in those that execute and those behind them that are put back, the
\* latter only when all others are victims, and takes the victims from behind.
Evicted(s, o, e) ==
    /\ e.exec \in Seq(Group) /\ e.back \in Seq(Group)
    /\ IsInjective(e.exec) /\ IsInjective(e.back)
    /\ ToSet(s) = ToSet(e.exec) \union ToSet(e.back)
    /\ ToSet(e.exec) \intersect ToSet(e.back) = {}
    /\ \A x \in ToSet(e.exec), y \in ToSet(e.back) : Before(s, x, y)
    /\ e.victims \subseteq ToSet(o)
    /\ ToSet(e.back) # {} => e.victims = ToSet(o)
    /\ \A x \in ToSet(o) \ e.victims, y \in e.victims : Before(o, x, y)

LEMMA EvictionFacts ==
    ASSUME NEW s \in Seq(Group), NEW o \in Seq(Group), NEW e \in Evictions(s, o),
           IsInjective(s), IsInjective(o)
    PROVE  Evicted(s, o, e)
<1>1. Len(s) \in Nat /\ Len(o) \in Nat /\ DOMAIN s = 1 .. Len(s)
  BY LenProperties
<1>2. CASE \E k \in 0 .. Len(o) :
              e = [victims |-> ToSet(SubSeq(o, Len(o) - k + 1, Len(o))),
                   back |-> <<>>, exec |-> s]
  <2>1. PICK k \in 0 .. Len(o) :
              e = [victims |-> ToSet(SubSeq(o, Len(o) - k + 1, Len(o))),
                   back |-> <<>>, exec |-> s]
    BY <1>2
  <2>2. Len(o) - k \in 0 .. Len(o)
    BY <1>1
  <2> DEFINE a == SubSeq(o, 1, Len(o) - k)
             b == SubSeq(o, Len(o) - k + 1, Len(o))
  <2>3. /\ ToSet(o) = ToSet(a) \union ToSet(b)
        /\ \A x \in ToSet(a), y \in ToSet(b) : Before(o, x, y)
    BY <2>2, CutFacts
  <2>4. e.victims = ToSet(b) /\ e.back = <<>> /\ e.exec = s
    BY <2>1
  <2>5. <<>> \in Seq(Group) /\ ToSet(<<>>) = {} /\ IsInjective(<<>>)
    BY EmptyElems DEF IsInjective
  <2> HIDE DEF a, b
  <2> QED
    BY <2>3, <2>4, <2>5 DEF Evicted
<1>3. CASE \E m \in 1 .. Len(s) :
              e = [victims |-> ToSet(o), back |-> SubSeq(s, Len(s) - m + 1, Len(s)),
                   exec |-> SubSeq(s, 1, Len(s) - m)]
  <2>1. PICK m \in 1 .. Len(s) :
              e = [victims |-> ToSet(o), back |-> SubSeq(s, Len(s) - m + 1, Len(s)),
                   exec |-> SubSeq(s, 1, Len(s) - m)]
    BY <1>3
  <2>2. Len(s) - m \in 0 .. Len(s)
    BY <1>1
  <2> DEFINE a == SubSeq(s, 1, Len(s) - m)
             b == SubSeq(s, Len(s) - m + 1, Len(s))
  <2>3. /\ a \in Seq(Group) /\ b \in Seq(Group)
        /\ IsInjective(a) /\ IsInjective(b)
        /\ ToSet(s) = ToSet(a) \union ToSet(b)
        /\ ToSet(a) \intersect ToSet(b) = {}
        /\ \A x \in ToSet(a), y \in ToSet(b) : Before(s, x, y)
    BY <2>2, CutFacts
  <2>4. e.victims = ToSet(o) /\ e.back = b /\ e.exec = a
    BY <2>1
  <2> HIDE DEF a, b
  <2> QED
    BY <2>3, <2>4 DEF Evicted
<1> QED
  BY <1>2, <1>3 DEF Evictions

\* What executes is put in another order, and nobody is lost or doubled.
LEMMA ExecutedFacts ==
    ASSUME NEW s \in Seq(Group), NEW M, IsInjective(s), ToSet(s) \subseteq Unfinished
    PROVE  /\ Executed(s, M) \in Seq(Group) /\ IsInjective(Executed(s, M))
           /\ ToSet(Executed(s, M)) = ToSet(s)
<1> DEFINE A == In("waiting")
           B == In("running") \intersect M
           C == In("swapped") \intersect M
           D == In("running") \ M
           E == In("swapped") \ M
           ab == Among(s, A) \o Among(s, B)
           abc == ab \o Among(s, C)
           abcd == abc \o Among(s, D)
           all == abcd \o Among(s, E)
<1>1. /\ ToSet(s) \subseteq A \union B \union C \union D \union E
      /\ A \intersect B = {} /\ (A \union B) \intersect C = {}
      /\ (A \union B \union C) \intersect D = {}
      /\ (A \union B \union C \union D) \intersect E = {}
  <2>1. /\ In("waiting") \intersect In("running") = {}
        /\ In("waiting") \intersect In("swapped") = {}
        /\ In("running") \intersect In("swapped") = {}
    BY DEF In
  <2> QED
    BY <2>1 DEF Unfinished
<1>2. all = Executed(s, M)
  BY DEF Executed
<1> HIDE DEF A, B, C, D, E
<1>3. \A S : /\ Among(s, S) \in Seq(Group)
             /\ ToSet(Among(s, S)) = ToSet(s) \intersect S
             /\ IsInjective(Among(s, S))
  BY AmongFacts
<1>4. ab \in Seq(Group) /\ IsInjective(ab) /\ ToSet(ab) = ToSet(s) \intersect (A \union B)
  <2>1. ab \in Seq(Group) /\ ToSet(ab) = ToSet(Among(s, A)) \union ToSet(Among(s, B))
    BY <1>3, ConcatProperties, ConcatElems
  <2>2. ToSet(Among(s, A)) \intersect ToSet(Among(s, B)) = {}
    BY <1>1, <1>3
  <2>3. IsInjective(ab)
    BY <1>3, <2>2, ConcatInjective
  <2> QED
    BY <1>3, <2>1, <2>3
<1> HIDE DEF ab
<1>5. abc \in Seq(Group) /\ IsInjective(abc) /\ ToSet(abc) = ToSet(s) \intersect (A \union B \union C)
  <2>1. abc \in Seq(Group) /\ ToSet(abc) = ToSet(ab) \union ToSet(Among(s, C))
    BY <1>3, <1>4, ConcatProperties, ConcatElems
  <2>2. ToSet(ab) \intersect ToSet(Among(s, C)) = {}
    BY <1>1, <1>3, <1>4
  <2>3. IsInjective(abc)
    BY <1>3, <1>4, <2>2, ConcatInjective
  <2> QED
    BY <1>3, <1>4, <2>1, <2>3
<1> HIDE DEF abc
<1>6. /\ abcd \in Seq(Group) /\ IsInjective(abcd)
      /\ ToSet(abcd) = ToSet(s) \intersect (A \union B \union C \union D)
  <2>1. abcd \in Seq(Group) /\ ToSet(abcd) = ToSet(abc) \union ToSet(Among(s, D))
    BY <1>3, <1>5, ConcatProperties, ConcatElems
  <2>2. ToSet(abc) \intersect ToSet(Among(s, D)) = {}
    BY <1>1, <1>3, <1>5
  <2>3. IsInjective(abcd)
    BY <1>3, <1>5, <2>2, ConcatInjective
  <2> QED
    BY <1>3, <1>5, <2>1, <2>3
<1> HIDE DEF abcd
<1>7. all \in Seq(Group) /\ IsInjective(all) /\ ToSet(all) = ToSet(s)
  <2>1. all \in Seq(Group) /\ ToSet(all) = ToSet(abcd) \union ToSet(Among(s, E))
    BY <1>3, <1>6, ConcatProperties, ConcatElems
  <2>2. ToSet(abcd) \intersect ToSet(Among(s, E)) = {}
    BY <1>1, <1>3, <1>6
  <2>3. IsInjective(all)
    BY <1>3, <1>6, <2>2, ConcatInjective
  <2> QED
    BY <1>1, <1>3, <1>6, <2>1, <2>3
<1> HIDE DEF all
<1> QED
  BY <1>2, <1>7

-----------------------------------------------------------------------------
(* The inductive invariant *)

Levelled == UNION {ToSet(levels[l]) : l \in 1 .. Levels}

LevelsInv ==
    \A l \in 1 .. Levels :
        IsInjective(levels[l]) /\ \A g \in ToSet(levels[l]) : level[g] = l

\* A request is on its level, or the tick executes it.
MlfqInv ==
    /\ MlfqTypeOK
    /\ raised = "no" =>
          /\ LevelsInv
          /\ Levelled = IF stepping THEN Unfinished \ ToSet(batch) ELSE Unfinished
          /\ stepping => IsInjective(batch) /\ ToSet(batch) \subseteq In("running")

\* The levels as one list.
LEMMA QueueFacts ==
    ASSUME MlfqTypeOK, LevelsInv
    PROVE  /\ QueueList \in Seq(Group)
           /\ ToSet(QueueList) = Levelled
           /\ IsInjective(QueueList)
<1>1. levels \in [1 .. Levels -> Seq(Group)] /\ Levels \in Nat /\ DOMAIN levels = 1 .. Levels
  BY MlfqAssumption DEF MlfqTypeOK
<1>2. levels \in Seq(Seq(Group))
  BY <1>1, IsASeq
<1>3. OnceIn(levels)
  <2>1. \A i, j \in 1 .. Levels : i # j => ToSet(levels[i]) \intersect ToSet(levels[j]) = {}
    BY DEF LevelsInv
  <2>2. \A i \in 1 .. Levels : IsInjective(levels[i])
    BY DEF LevelsInv
  <2> QED
    BY <1>1, <2>1, <2>2 DEF OnceIn
<1>4. /\ FlattenSeq(levels) \in Seq(Group) /\ IsInjective(FlattenSeq(levels))
      /\ ToSet(FlattenSeq(levels)) = UNION {ToSet(levels[l]) : l \in DOMAIN levels}
  BY <1>2, <1>3, FlattenFacts
<1> QED
  BY <1>1, <1>4 DEF QueueList, Levelled

LEMMA MlfqInvImplies == MlfqInv => MlfqTypeOK /\ QueuesAgree
<1> SUFFICES ASSUME MlfqInv PROVE MlfqTypeOK /\ QueuesAgree
  OBVIOUS
<1>1. ASSUME raised = "no" PROVE QueuesAgree
  <2>1. IsInjective(QueueList) /\ ToSet(QueueList) = Levelled
    BY <1>1, QueueFacts DEF MlfqInv
  <2> QED
    BY <1>1, <2>1 DEF QueuesAgree, MlfqInv, LevelsInv
<1> QED
  BY <1>1 DEF MlfqInv, QueuesAgree

LEMMA MlfqStart == MlfqInit => MlfqInv
<1> SUFFICES ASSUME MlfqInit PROVE MlfqInv
  OBVIOUS
<1>1. <<>> \in Seq(Group) /\ ToSet(<<>>) = {} /\ IsInjective(<<>>)
  BY EmptyElems DEF IsInjective
<1>2. 1 \in 1 .. Levels
  BY MlfqAssumption
<1>3. MlfqTypeOK
  BY <1>1, <1>2 DEF MlfqInit, MlfqTypeOK
<1>4. \A l \in 1 .. Levels : ToSet(levels[l]) = {} /\ IsInjective(levels[l])
  BY <1>1 DEF MlfqInit
<1>5. Levelled = {} /\ LevelsInv
  BY <1>4 DEF Levelled, LevelsInv
<1>6. Unfinished = {} /\ ~stepping
  BY DEF MlfqInit, Unfinished, In
<1> QED
  BY <1>3, <1>5, <1>6 DEF MlfqInv

\* A request that arrives goes to the end of its level.
LEMMA MlfqAddKeeps ==
    ASSUME MlfqInv, raised = "no", NEW g \in Group, MlfqAdd(g)
    PROVE  MlfqInv'
<1>1. /\ MlfqTypeOK /\ LevelsInv /\ Levelled = Unfinished /\ ~stepping
      /\ place[g] = "new" /\ raised' = "no" /\ stepping' = stepping /\ level' = level
      /\ place' = [place EXCEPT ![g] = "waiting"]
      /\ UNCHANGED <<batch, everTicked>>
  BY DEF MlfqInv, MlfqAdd
<1> DEFINE k == level[g]
<1>2. /\ k \in 1 .. Levels /\ levels \in [1 .. Levels -> Seq(Group)]
      /\ levels' = [levels EXCEPT ![k] = Append(levels[k], g)]
  BY <1>1 DEF MlfqTypeOK, MlfqAdd, PushBack
<1> HIDE DEF k
<1>3. g \notin Unfinished /\ g \notin Levelled
  BY <1>1 DEF Unfinished, In
<1>4. /\ Append(levels[k], g) \in Seq(Group)
      /\ ToSet(Append(levels[k], g)) = ToSet(levels[k]) \union {g}
      /\ IsInjective(Append(levels[k], g))
  <2>1. g \notin ToSet(levels[k]) /\ IsInjective(levels[k]) /\ levels[k] \in Seq(Group)
    BY <1>1, <1>2, <1>3 DEF Levelled, LevelsInv
  <2>2. <<g>> \in Seq(Group) /\ ToSet(<<g>>) = {g} /\ IsInjective(<<g>>)
    BY DEF ToSet, IsInjective
  <2>3. Append(levels[k], g) = levels[k] \o <<g>>
    BY <2>1, AppendIsConcat
  <2>4. ToSet(levels[k]) \intersect ToSet(<<g>>) = {}
    BY <2>1, <2>2
  <2>5. IsInjective(levels[k] \o <<g>>)
    BY <2>1, <2>2, <2>4, ConcatInjective
  <2>6. /\ Append(levels[k], g) \in Seq(Group)
        /\ ToSet(Append(levels[k], g)) = ToSet(levels[k]) \union {g}
    BY <2>1, AppendElems
  <2> QED
    BY <2>3, <2>5, <2>6
<1>5. /\ levels' \in [1 .. Levels -> Seq(Group)]
      /\ \A l \in 1 .. Levels : levels'[l] = IF l = k THEN Append(levels[k], g) ELSE levels[l]
  BY <1>2, <1>4
<1>6. MlfqTypeOK'
  <2>1. place' \in [Group -> {"new", "waiting", "running", "swapped", "gone"}]
    BY <1>1 DEF MlfqTypeOK
  <2> QED
    BY <1>1, <1>5, <2>1 DEF MlfqTypeOK
<1>7. LevelsInv'
  <2>1. ASSUME NEW l \in 1 .. Levels
        PROVE  IsInjective(levels'[l]) /\ \A h \in ToSet(levels'[l]) : level[h] = l
    BY <1>1, <1>4, <1>5 DEF LevelsInv, k
  <2> QED
    BY <1>1, <2>1 DEF LevelsInv
<1>8. Levelled' = Levelled \union {g}
  <2>1. \A l \in 1 .. Levels :
           ToSet(levels'[l]) = IF l = k THEN ToSet(levels[k]) \union {g} ELSE ToSet(levels[l])
    BY <1>4, <1>5
  <2>2. Levelled' = UNION {ToSet(levels'[l]) : l \in 1 .. Levels}
    BY DEF Levelled
  <2> QED
    BY <1>2, <2>1, <2>2 DEF Levelled
<1>9. Unfinished' = Unfinished \union {g}
  BY <1>1 DEF Unfinished, In, MlfqTypeOK
<1> QED
  BY <1>1, <1>6, <1>7, <1>8, <1>9 DEF MlfqInv

\* Requests are taken out of the levels.
LEMMA DelFacts ==
    ASSUME MlfqTypeOK, LevelsInv, NEW S
    PROVE  /\ DelRequests(S) \in [1 .. Levels -> Seq(Group)]
           /\ \A l \in 1 .. Levels :
                 /\ ToSet(DelRequests(S)[l]) = ToSet(levels[l]) \ S
                 /\ IsInjective(DelRequests(S)[l])
<1>1. \A l \in 1 .. Levels : levels[l] \in Seq(Group) /\ IsInjective(levels[l])
  BY DEF MlfqTypeOK, LevelsInv
<1>2. \A l \in 1 .. Levels : /\ Among(levels[l], Group \ S) \in Seq(Group)
                             /\ ToSet(Among(levels[l], Group \ S)) = ToSet(levels[l]) \intersect (Group \ S)
                             /\ IsInjective(Among(levels[l], Group \ S))
  BY <1>1, AmongFacts
<1>3. \A l \in 1 .. Levels : ToSet(levels[l]) \subseteq Group
  BY <1>1, ElementOfSeq, LenProperties DEF ToSet
<1> QED
  BY <1>2, <1>3 DEF DelRequests

\* A request that leaves goes from its level.
LEMMA MlfqAbortKeeps ==
    ASSUME MlfqInv, raised = "no", NEW g \in Group, MlfqAbort(g)
    PROVE  MlfqInv'
<1>1. /\ MlfqTypeOK /\ LevelsInv /\ Levelled = Unfinished /\ ~stepping
      /\ levels' = DelRequests({g}) /\ place' = [place EXCEPT ![g] = "gone"]
      /\ raised' \in {"no", "attribute"} /\ stepping' = stepping
      /\ UNCHANGED <<level, batch, everTicked>>
  BY DEF MlfqInv, MlfqAbort
<1>2. /\ levels' \in [1 .. Levels -> Seq(Group)]
      /\ \A l \in 1 .. Levels :
            ToSet(levels'[l]) = ToSet(levels[l]) \ {g} /\ IsInjective(levels'[l])
  <2>1. /\ DelRequests({g}) \in [1 .. Levels -> Seq(Group)]
        /\ \A l \in 1 .. Levels :
              /\ ToSet(DelRequests({g})[l]) = ToSet(levels[l]) \ {g}
              /\ IsInjective(DelRequests({g})[l])
    BY <1>1, DelFacts
  <2> QED
    BY <1>1, <2>1
<1>3. MlfqTypeOK'
  <2>1. place' \in [Group -> {"new", "waiting", "running", "swapped", "gone"}]
    BY <1>1 DEF MlfqTypeOK
  <2> QED
    BY <1>1, <1>2, <2>1 DEF MlfqTypeOK
<1>4. LevelsInv'
  <2>1. \A l \in 1 .. Levels : IsInjective(levels'[l]) /\ \A h \in ToSet(levels'[l]) : level[h] = l
    BY <1>1, <1>2 DEF LevelsInv
  <2> QED
    BY <1>1, <2>1 DEF LevelsInv
<1>5. Levelled' = Levelled \ {g}
  <2>1. Levelled' = UNION {ToSet(levels'[l]) : l \in 1 .. Levels}
    BY DEF Levelled
  <2> QED
    BY <1>2, <2>1 DEF Levelled
<1>6. Unfinished' = Unfinished \ {g}
  BY <1>1 DEF Unfinished, In, MlfqTypeOK
<1> QED
  BY <1>1, <1>3, <1>4, <1>5, <1>6 DEF MlfqInv

\* What a tick splits the queue in: the selected requests s, the rest b, and
\* among them those that run, o.
Split(s, b, o) ==
    /\ s \in Seq(Group) /\ o \in Seq(Group) /\ IsInjective(s) /\ IsInjective(o)
    /\ Unfinished = ToSet(s) \union ToSet(b) /\ ToSet(s) \intersect ToSet(b) = {}
    /\ ToSet(o) = ToSet(b) \intersect In("running")
    /\ \A x \in ToSet(s), y \in ToSet(b) : Before(QueueList, x, y)
    /\ \A x, y : Before(s, x, y) \/ Before(o, x, y) => Before(QueueList, x, y)

LEMMA SplitFacts ==
    ASSUME MlfqInv, raised = "no", ~stepping, NEW n \in Selectable
    PROVE  LET b == SubSeq(QueueList, n + 1, Len(QueueList))
           IN Split(SubSeq(QueueList, 1, n), b, Among(b, In("running")))
<1> DEFINE Q == QueueList
           s == SubSeq(Q, 1, n)
           b == SubSeq(Q, n + 1, Len(Q))
           o == Among(b, In("running"))
<1>1. Q \in Seq(Group) /\ ToSet(Q) = Unfinished /\ IsInjective(Q)
  BY QueueFacts DEF MlfqInv
<1>2. n \in 0 .. Len(Q)
  BY DEF Selectable
<1>3. /\ s \in Seq(Group) /\ b \in Seq(Group) /\ IsInjective(s) /\ IsInjective(b)
      /\ ToSet(Q) = ToSet(s) \union ToSet(b) /\ ToSet(s) \intersect ToSet(b) = {}
      /\ \A x \in ToSet(s), y \in ToSet(b) : Before(Q, x, y)
      /\ \A x, y : Before(s, x, y) \/ Before(b, x, y) => Before(Q, x, y)
  <2> HIDE DEF Q
  <2> QED
    BY <1>1, <1>2, CutFacts
<1> HIDE DEF s, b
<1>4. /\ o \in Seq(Group) /\ IsInjective(o) /\ ToSet(o) = ToSet(b) \intersect In("running")
      /\ \A i, j \in DOMAIN o : i < j => Before(b, o[i], o[j])
  BY <1>3, AmongFacts
<1> HIDE DEF o
<1>5. \A x, y : Before(o, x, y) => Before(b, x, y)
  <2>1. ASSUME NEW x, NEW y, Before(o, x, y) PROVE Before(b, x, y)
    <3>1. PICK i \in DOMAIN o, j \in DOMAIN o : i < j /\ o[i] = x /\ o[j] = y
      BY <2>1 DEF Before
    <3> QED
      BY <1>4, <3>1
  <2> QED
    BY <2>1
<1>6. Split(s, b, o)
  BY <1>1, <1>3, <1>4, <1>5 DEF Split
<1> QED
  BY <1>6 DEF s, b, o

\* Putting requests back: each to the front of its level.
LEMMA PutBackFacts ==
    ASSUME MlfqTypeOK, NEW t \in [1 .. Levels -> Seq(Group)], NEW back \in Seq(Group),
           IsInjective(back), \A l \in 1 .. Levels : IsInjective(t[l]),
           \A l \in 1 .. Levels : ToSet(back) \intersect ToSet(t[l]) = {}
    PROVE  /\ PutBack(t, back) \in [1 .. Levels -> Seq(Group)]
           /\ \A l \in 1 .. Levels :
                 /\ ToSet(PutBack(t, back)[l])
                       = (ToSet(back) \intersect {g \in Group : level[g] = l}) \union ToSet(t[l])
                 /\ IsInjective(PutBack(t, back)[l])
<1>1. ASSUME NEW l \in 1 .. Levels
      PROVE  LET S == {g \in Group : level[g] = l}
                 r == Reverse(Among(back, S)) \o t[l]
             IN /\ r \in Seq(Group)
                /\ ToSet(r) = (ToSet(back) \intersect S) \union ToSet(t[l])
                /\ IsInjective(r)
  <2> DEFINE S == {g \in Group : level[g] = l}
  <2>1. ToSet(back) \intersect S \intersect ToSet(t[l]) = {}
    OBVIOUS
  <2> HIDE DEF S
  <2>2. t[l] \in Seq(Group) /\ IsInjective(t[l])
    OBVIOUS
  <2>3. /\ Reverse(Among(back, S)) \o t[l] \in Seq(Group)
        /\ ToSet(Reverse(Among(back, S)) \o t[l]) = (ToSet(back) \intersect S) \union ToSet(t[l])
        /\ IsInjective(Reverse(Among(back, S)) \o t[l])
    BY <2>1, <2>2, PushedFacts
  <2> QED
    BY <2>3 DEF S
<1> QED
  BY <1>1 DEF PutBack

\* A tick, by what it does to the sets of requests, when it has picked e.
Ticked(s, b, o, e) ==
    /\ Split(s, b, o)
    /\ batch' \in Seq(Group) /\ IsInjective(batch') /\ ToSet(batch') = ToSet(e.exec)
    /\ levels' \in [1 .. Levels -> Seq(Group)]
    /\ \A l \in 1 .. Levels :
          /\ ToSet(levels'[l]) = (ToSet(e.back) \intersect {g \in Group : level[g] = l})
                                    \union (ToSet(levels[l]) \ ToSet(s))
          /\ IsInjective(levels'[l])
    /\ place' = [g \in Group |->
                    IF g \in ToSet(e.exec) THEN "running"
                    ELSE IF g \in e.victims \union (ToSet(e.back) \intersect In("running"))
                         THEN "swapped" ELSE place[g]]
    /\ raised' \in {"no", "tokens"} /\ everTicked' = TRUE /\ stepping' = TRUE
    /\ level' = level

LEMMA TickFacts ==
    ASSUME MlfqInv, raised = "no", NEW n \in Selectable, NEW M, MlfqTick(n, M)
    PROVE  \E s, b, o : \E e \in Evictions(s, o) : Ticked(s, b, o, e)
<1> DEFINE s == SubSeq(QueueList, 1, n)
           b == SubSeq(QueueList, n + 1, Len(QueueList))
           o == Among(b, In("running"))
<1>1. /\ MlfqTypeOK /\ LevelsInv /\ ~stepping
      /\ raised' \in {"no", "tokens"} /\ everTicked' = TRUE /\ stepping' = TRUE /\ level' = level
  BY DEF MlfqInv, MlfqTick
<1>2. PICK e \in Evictions(s, o) :
         /\ batch' = Executed(e.exec, M)
         /\ levels' = PutBack(DelRequests(ToSet(s)), e.back)
         /\ place' = [g \in Group |->
                         IF g \in ToSet(e.exec) THEN "running"
                         ELSE IF g \in e.victims \union (ToSet(e.back) \intersect In("running"))
                              THEN "swapped" ELSE place[g]]
  BY DEF MlfqTick
<1>3. Split(s, b, o)
  BY <1>1, SplitFacts
<1> HIDE DEF s, b, o
<1>4. /\ e.exec \in Seq(Group) /\ e.back \in Seq(Group)
      /\ IsInjective(e.exec) /\ IsInjective(e.back)
      /\ ToSet(s) = ToSet(e.exec) \union ToSet(e.back)
  <2>1. s \in Seq(Group) /\ o \in Seq(Group) /\ IsInjective(s) /\ IsInjective(o)
    BY <1>3 DEF Split
  <2>2. Evicted(s, o, e)
    BY <2>1, EvictionFacts
  <2> QED
    BY <2>2 DEF Evicted
<1>5. batch' \in Seq(Group) /\ IsInjective(batch') /\ ToSet(batch') = ToSet(e.exec)
  <2>1. ToSet(e.exec) \subseteq Unfinished
    BY <1>3, <1>4 DEF Split
  <2> QED
    BY <1>2, <1>4, <2>1, ExecutedFacts
<1> DEFINE t == DelRequests(ToSet(s))
<1>6. /\ t \in [1 .. Levels -> Seq(Group)]
      /\ \A l \in 1 .. Levels : ToSet(t[l]) = ToSet(levels[l]) \ ToSet(s) /\ IsInjective(t[l])
  BY <1>1, DelFacts
<1> HIDE DEF t
<1>7. /\ PutBack(t, e.back) \in [1 .. Levels -> Seq(Group)]
      /\ \A l \in 1 .. Levels :
            /\ ToSet(PutBack(t, e.back)[l])
                  = (ToSet(e.back) \intersect {g \in Group : level[g] = l}) \union ToSet(t[l])
            /\ IsInjective(PutBack(t, e.back)[l])
  <2>1. \A l \in 1 .. Levels : ToSet(e.back) \intersect ToSet(t[l]) = {}
    BY <1>4, <1>6
  <2> QED
    BY <1>1, <1>4, <1>6, <2>1, PutBackFacts
<1>8. levels' = PutBack(t, e.back)
  BY <1>2 DEF t
<1>9. /\ levels' \in [1 .. Levels -> Seq(Group)]
      /\ \A l \in 1 .. Levels :
            /\ ToSet(levels'[l]) = (ToSet(e.back) \intersect {g \in Group : level[g] = l})
                                      \union (ToSet(levels[l]) \ ToSet(s))
            /\ IsInjective(levels'[l])
  BY <1>6, <1>7, <1>8
<1>10. Ticked(s, b, o, e)
  BY <1>1, <1>2, <1>3, <1>5, <1>9 DEF Ticked
<1> QED
  BY <1>10

LEMMA MlfqTickKeeps ==
    ASSUME MlfqInv, raised = "no", NEW n \in Selectable, NEW M, MlfqTick(n, M)
    PROVE  MlfqInv'
<1>1. MlfqTypeOK /\ LevelsInv /\ Levelled = Unfinished /\ ~stepping
  BY DEF MlfqInv, MlfqTick
<1>2. PICK s, b, o : \E e \in Evictions(s, o) : Ticked(s, b, o, e)
  BY TickFacts
<1>3. PICK e \in Evictions(s, o) : Ticked(s, b, o, e)
  BY <1>2
<1>4. /\ Split(s, b, o)
      /\ batch' \in Seq(Group) /\ IsInjective(batch') /\ ToSet(batch') = ToSet(e.exec)
      /\ levels' \in [1 .. Levels -> Seq(Group)]
      /\ \A l \in 1 .. Levels :
            /\ ToSet(levels'[l]) = (ToSet(e.back) \intersect {g \in Group : level[g] = l})
                                      \union (ToSet(levels[l]) \ ToSet(s))
            /\ IsInjective(levels'[l])
      /\ place' = [g \in Group |->
                      IF g \in ToSet(e.exec) THEN "running"
                      ELSE IF g \in e.victims \union (ToSet(e.back) \intersect In("running"))
                           THEN "swapped" ELSE place[g]]
      /\ raised' \in {"no", "tokens"} /\ everTicked' = TRUE /\ stepping' = TRUE
      /\ level' = level
  BY <1>3 DEF Ticked
<1>5. /\ ToSet(s) = ToSet(e.exec) \union ToSet(e.back)
      /\ ToSet(e.exec) \intersect ToSet(e.back) = {}
      /\ e.victims \subseteq ToSet(o)
  <2>1. s \in Seq(Group) /\ o \in Seq(Group) /\ IsInjective(s) /\ IsInjective(o)
    BY <1>4 DEF Split
  <2>2. Evicted(s, o, e)
    BY <2>1, EvictionFacts
  <2> QED
    BY <2>2 DEF Evicted
<1>6. /\ Unfinished = ToSet(s) \union ToSet(b) /\ ToSet(o) \subseteq In("running")
      /\ Unfinished \subseteq Group
  BY <1>4 DEF Split, Unfinished, In
<1> DEFINE out == e.victims \union (ToSet(e.back) \intersect In("running"))
<1>7. out \subseteq In("running") /\ ToSet(e.exec) \subseteq Unfinished
  BY <1>5, <1>6
<1>8. place' = [g \in Group |-> IF g \in ToSet(e.exec) THEN "running"
                                ELSE IF g \in out THEN "swapped" ELSE place[g]]
  BY <1>4
<1> HIDE DEF out
<1>9. Unfinished' = Unfinished /\ ToSet(e.exec) \subseteq In("running")'
  <2>1. \A g \in Group : /\ g \in ToSet(e.exec) => place'[g] = "running" /\ g \in Unfinished
                         /\ g \notin ToSet(e.exec) /\ g \in out
                               => place'[g] = "swapped" /\ place[g] = "running"
                         /\ g \notin ToSet(e.exec) /\ g \notin out => place'[g] = place[g]
    BY <1>7, <1>8 DEF In
  <2>2. \A g \in Group : g \in Unfinished <=> place[g] \in {"waiting", "running", "swapped"}
    BY DEF Unfinished, In
  <2>3. \A g : g \in Unfinished' <=> g \in Group /\ place'[g] \in {"waiting", "running", "swapped"}
    BY DEF Unfinished, In
  <2>4. \A g : g \in In("running")' <=> g \in Group /\ place'[g] = "running"
    BY DEF In
  <2>5. \A g \in Group : place'[g] \in {"waiting", "running", "swapped"} <=> g \in Unfinished
    BY <2>1, <2>2
  <2>6. \A g : g \in Unfinished' <=> g \in Unfinished
    BY <1>6, <2>3, <2>5
  <2> QED
    BY <1>6, <1>7, <2>1, <2>4, <2>6
<1>10. MlfqTypeOK'
  <2>1. place' \in [Group -> {"new", "waiting", "running", "swapped", "gone"}]
    BY <1>1, <1>8 DEF MlfqTypeOK
  <2> QED
    BY <1>1, <1>4, <2>1 DEF MlfqTypeOK
<1>11. LevelsInv'
  <2>1. \A l \in 1 .. Levels :
           IsInjective(levels'[l]) /\ \A g \in ToSet(levels'[l]) : level[g] = l
    BY <1>1, <1>4 DEF LevelsInv
  <2> QED
    BY <1>4, <2>1 DEF LevelsInv
<1>12. Levelled' = Unfinished \ ToSet(e.exec)
  <2>1. \A g : g \in Levelled' <=> \E l \in 1 .. Levels : g \in ToSet(levels'[l])
    BY DEF Levelled
  <2>2. \A g : g \in Unfinished <=> \E l \in 1 .. Levels : g \in ToSet(levels[l])
    BY <1>1 DEF Levelled
  <2>3. \A g : g \in Levelled' <=>
                  \E l \in 1 .. Levels :
                      \/ g \in ToSet(e.back) /\ g \in Group /\ level[g] = l
                      \/ g \in ToSet(levels[l]) /\ g \notin ToSet(s)
    BY <1>4, <2>1
  <2>4. \A g \in Group : level[g] \in 1 .. Levels
    BY <1>1 DEF MlfqTypeOK
  <2>5. \A g : g \in Levelled' <=> g \in ToSet(e.back) \/ (g \in Unfinished /\ g \notin ToSet(s))
    BY <1>5, <1>6, <2>2, <2>3, <2>4
  <2> QED
    BY <1>5, <1>6, <2>5
<1> QED
  BY <1>4, <1>9, <1>10, <1>11, <1>12 DEF MlfqInv

\* Nobody executes before another that was in front, and memory is taken from
\* the back.
LEMMA TickOrder ==
    ASSUME MlfqInv, raised = "no", NEW n \in Selectable, NEW M, MlfqTick(n, M)
    PROVE  /\ \A g \in ToSet(batch'), h \in Unfinished \ ToSet(batch') : Before(QueueList, g, h)
           /\ \A v \in In("running"), g \in In("running") :
                 place'[v] = "swapped" /\ place'[g] = "running" => Before(QueueList, g, v)
<1>1. PICK s, b, o : \E e \in Evictions(s, o) : Ticked(s, b, o, e)
  BY TickFacts
<1>2. PICK e \in Evictions(s, o) : Ticked(s, b, o, e)
  BY <1>1
<1>3. /\ Split(s, b, o) /\ ToSet(batch') = ToSet(e.exec)
      /\ place' = [g \in Group |->
                      IF g \in ToSet(e.exec) THEN "running"
                      ELSE IF g \in e.victims \union (ToSet(e.back) \intersect In("running"))
                           THEN "swapped" ELSE place[g]]
  BY <1>2 DEF Ticked
<1>4. /\ ToSet(s) = ToSet(e.exec) \union ToSet(e.back)
      /\ \A x \in ToSet(e.exec), y \in ToSet(e.back) : Before(s, x, y)
      /\ e.victims \subseteq ToSet(o)
      /\ ToSet(e.back) # {} => e.victims = ToSet(o)
      /\ \A x \in ToSet(o) \ e.victims, y \in e.victims : Before(o, x, y)
  <2>1. s \in Seq(Group) /\ o \in Seq(Group) /\ IsInjective(s) /\ IsInjective(o)
    BY <1>3 DEF Split
  <2>2. Evicted(s, o, e)
    BY <2>1, EvictionFacts
  <2> QED
    BY <2>2 DEF Evicted
<1>5. /\ Unfinished = ToSet(s) \union ToSet(b) /\ ToSet(s) \intersect ToSet(b) = {}
      /\ ToSet(o) = ToSet(b) \intersect In("running")
      /\ \A x \in ToSet(s), y \in ToSet(b) : Before(QueueList, x, y)
      /\ \A x, y : Before(s, x, y) \/ Before(o, x, y) => Before(QueueList, x, y)
  BY <1>3 DEF Split
<1>6. ASSUME NEW g \in ToSet(batch'), NEW h \in Unfinished \ ToSet(batch')
      PROVE  Before(QueueList, g, h)
  <2>1. g \in ToSet(e.exec) /\ (h \in ToSet(b) \/ h \in ToSet(e.back))
    BY <1>3, <1>4, <1>5
  <2> QED
    BY <1>4, <1>5, <2>1
<1>7. ASSUME NEW v \in In("running"), NEW g \in In("running"),
             place'[v] = "swapped", place'[g] = "running"
      PROVE  Before(QueueList, g, v)
  <2>1. v \in Group /\ g \in Group /\ v \in Unfinished /\ g \in Unfinished
    BY DEF In, Unfinished
  <2> DEFINE out == e.victims \union (ToSet(e.back) \intersect In("running"))
  <2>2. v \notin ToSet(e.exec) /\ v \in out
    <3>1. place[v] = "running"
      BY DEF In
    <3> QED
      BY <1>3, <1>7, <2>1, <3>1
  <2>3. g \in ToSet(e.exec) \/ g \notin out
    BY <1>3, <1>7, <2>1
  <2>4. CASE g \in ToSet(e.exec)
    <3>1. v \in ToSet(b) \/ v \in ToSet(e.back)
      BY <1>4, <1>5, <2>2
    <3> QED
      BY <1>4, <1>5, <2>4, <3>1
  <2>5. CASE g \notin ToSet(e.exec) /\ g \notin out
    <3>1. g \in ToSet(o) \ e.victims
      BY <1>4, <1>5, <2>1, <2>5
    <3>2. v \in e.victims
      BY <1>4, <2>2, <3>1
    <3> QED
      BY <1>4, <1>5, <3>1, <3>2
  <2> QED
    BY <2>3, <2>4, <2>5
<1> QED
  BY <1>6, <1>7

\* The proactive swap-in ends the engine at its assertion, as the lack of space
\* on the CPU does.
LEMMA FailureKeeps ==
    ASSUME MlfqInv, NEW n, ProactiveSwapIn(n) \/ TickOutOfSpace
    PROVE  MlfqInv' /\ ~stepping'
BY DEF MlfqInv, ProactiveSwapIn, TickOutOfSpace, MlfqTypeOK

\* What executed comes back, a level lower if its quantum is used up.
LEMMA EndStepKeeps ==
    ASSUME MlfqInv, raised = "no", NEW finished \in SUBSET ToSet(batch),
           NEW demoted \in SUBSET (Demotable \ finished), EndStep(finished, demoted)
    PROVE  MlfqInv'
<1>1. /\ MlfqTypeOK /\ LevelsInv /\ Levelled = Unfinished \ ToSet(batch) /\ stepping
      /\ IsInjective(batch) /\ ToSet(batch) \subseteq In("running")
      /\ batch \in Seq(Group) /\ levels \in [1 .. Levels -> Seq(Group)]
      /\ level \in [Group -> 1 .. Levels] /\ Levels \in Nat
      /\ place' = [g \in Group |-> IF g \in finished THEN "gone" ELSE place[g]]
      /\ batch' = Among(batch, Group \ finished)
      /\ stepping' = FALSE /\ raised' = raised /\ everTicked' = everTicked
  BY MlfqAssumption DEF MlfqInv, EndStep, MlfqTypeOK
<1> DEFINE nl == Demote(demoted)
<1>2. /\ level' = nl
      /\ levels' = [l \in 1 .. Levels |->
                       Reverse(Among(batch, {g \in Group \ finished : nl[g] = l})) \o levels[l]]
  BY DEF EndStep
<1>3. /\ nl \in [Group -> 1 .. Levels]
      /\ \A g \in Group : g \notin ToSet(batch) => nl[g] = level[g]
  <2>1. \A g \in demoted : g \in Group /\ level[g] < Levels /\ g \in ToSet(batch)
    BY <1>1 DEF Demotable, In
  <2>2. \A g \in Group : nl[g] = IF g \in demoted THEN level[g] + 1 ELSE level[g]
    BY DEF Demote
  <2>3. \A g \in Group : nl[g] \in 1 .. Levels
    <3> HIDE DEF nl
    <3>1. \A g \in Group : level[g] \in 1 .. Levels
      BY <1>1
    <3>2. \A g \in demoted : level[g] + 1 \in 1 .. Levels
      BY <1>1, <2>1, <3>1
    <3> QED
      BY <2>2, <3>1, <3>2
  <2>4. nl = [g \in Group |-> nl[g]]
    BY DEF Demote
  <2> HIDE DEF nl
  <2> QED
    BY <2>1, <2>2, <2>3, <2>4
<1> HIDE DEF nl
<1>4. ASSUME NEW l \in 1 .. Levels
      PROVE  LET S == {g \in Group \ finished : nl[g] = l}
                 r == Reverse(Among(batch, S)) \o levels[l]
             IN /\ r \in Seq(Group)
                /\ ToSet(r) = (ToSet(batch) \intersect S) \union ToSet(levels[l])
                /\ IsInjective(r)
  <2> DEFINE S == {g \in Group \ finished : nl[g] = l}
  <2>1. levels[l] \in Seq(Group) /\ IsInjective(levels[l])
    BY <1>1 DEF LevelsInv
  <2>2. ToSet(batch) \intersect S \intersect ToSet(levels[l]) = {}
    BY <1>1 DEF Levelled
  <2> HIDE DEF S
  <2>3. /\ Reverse(Among(batch, S)) \o levels[l] \in Seq(Group)
        /\ ToSet(Reverse(Among(batch, S)) \o levels[l])
              = (ToSet(batch) \intersect S) \union ToSet(levels[l])
        /\ IsInjective(Reverse(Among(batch, S)) \o levels[l])
    BY <1>1, <2>1, <2>2, PushedFacts
  <2> QED
    BY <2>3 DEF S
<1>5. /\ levels' \in [1 .. Levels -> Seq(Group)]
      /\ \A l \in 1 .. Levels :
            /\ ToSet(levels'[l]) = (ToSet(batch) \intersect {g \in Group \ finished : nl[g] = l})
                                      \union ToSet(levels[l])
            /\ IsInjective(levels'[l])
  BY <1>2, <1>4
<1>6. MlfqTypeOK'
  <2>1. place' \in [Group -> {"new", "waiting", "running", "swapped", "gone"}]
    BY <1>1 DEF MlfqTypeOK
  <2>2. batch' \in Seq(Group)
    BY <1>1, AmongFacts
  <2> QED
    BY <1>1, <1>2, <1>3, <1>5, <2>1, <2>2 DEF MlfqTypeOK
<1>7. LevelsInv'
  <2>1. ASSUME NEW l \in 1 .. Levels, NEW g \in ToSet(levels'[l]) PROVE nl[g] = l
    <3>1. CASE g \in ToSet(batch) \intersect {h \in Group \ finished : nl[h] = l}
      BY <3>1
    <3>2. CASE g \in ToSet(levels[l])
      <4>1. level[g] = l /\ g \in Levelled
        BY <1>1, <3>2 DEF LevelsInv, Levelled
      <4>2. g \in Group /\ g \notin ToSet(batch)
        BY <1>1, <4>1 DEF Unfinished, In
      <4> QED
        BY <1>3, <4>1, <4>2
    <3> QED
      BY <1>5, <2>1, <3>1, <3>2
  <2> QED
    BY <1>2, <1>5, <2>1 DEF LevelsInv
<1>8. Levelled' = (ToSet(batch) \ finished) \union Levelled
  <2>1. \A g : g \in Levelled' <=> \E l \in 1 .. Levels : g \in ToSet(levels'[l])
    BY DEF Levelled
  <2>2. \A g : g \in Levelled <=> \E l \in 1 .. Levels : g \in ToSet(levels[l])
    BY DEF Levelled
  <2>3. ToSet(batch) \subseteq Group
    BY <1>1 DEF In
  <2>4. \A g : g \in Levelled' <=> \/ g \in Levelled
                                   \/ /\ g \in ToSet(batch) /\ g \notin finished
                                      /\ \E l \in 1 .. Levels : nl[g] = l
    BY <1>5, <2>1, <2>2, <2>3
  <2>5. \A g \in ToSet(batch) : \E l \in 1 .. Levels : nl[g] = l
    BY <1>3, <2>3
  <2> QED
    BY <2>4, <2>5
<1>9. Unfinished' = Unfinished \ finished
  <2>1. \A g \in Group : place'[g] = IF g \in finished THEN "gone" ELSE place[g]
    BY <1>1
  <2> QED
    BY <2>1 DEF Unfinished, In
<1>10. ToSet(batch) \subseteq Unfinished
  BY <1>1 DEF Unfinished
<1>11. Levelled' = Unfinished'
  BY <1>1, <1>8, <1>9, <1>10
<1> QED
  BY <1>1, <1>6, <1>7, <1>11 DEF MlfqInv

LEMMA MlfqStutters == MlfqInv /\ UNCHANGED mlfqVars => MlfqInv'
<1> SUFFICES ASSUME MlfqInv, UNCHANGED mlfqVars PROVE MlfqInv'
  OBVIOUS
<1>1. UNCHANGED <<levels, level, place, batch, everTicked, stepping, raised>>
  BY DEF mlfqVars
<1>2. MlfqTypeOK' /\ (LevelsInv => LevelsInv') /\ Levelled' = Levelled
  BY <1>1 DEF MlfqInv, MlfqTypeOK, LevelsInv, Levelled
<1>3. Unfinished' = Unfinished /\ In("running")' = In("running")
  BY <1>1 DEF Unfinished, In
<1> QED
  BY <1>1, <1>2, <1>3 DEF MlfqInv

LEMMA MlfqStep == MlfqInv /\ MlfqNext => MlfqInv'
<1> SUFFICES ASSUME MlfqInv, MlfqNext PROVE MlfqInv'
  OBVIOUS
<1>1. raised = "no"
  BY DEF MlfqNext
<1>2. CASE \E g \in Group : MlfqAdd(g) \/ MlfqAbort(g)
  BY <1>1, <1>2, MlfqAddKeeps, MlfqAbortKeeps
<1>3. CASE \E n \in Selectable, M \in SUBSET Unfinished : MlfqTick(n, M)
  BY <1>1, <1>3, MlfqTickKeeps
<1>4. CASE TickOutOfSpace \/ \E n \in Selectable : ProactiveSwapIn(n)
  BY <1>4, FailureKeeps
<1>5. CASE \E finished \in SUBSET ToSet(batch) :
              \E demoted \in SUBSET (Demotable \ finished) : EndStep(finished, demoted)
  BY <1>1, <1>5, EndStepKeeps
<1> QED
  BY <1>2, <1>3, <1>4, <1>5 DEF MlfqNext

\* Through arrivals, aborts, ticks with evictions and put-backs, and demotions,
\* a request is on the one level of its priority or executes.
THEOREM MlfqInvariant == MlfqSpec => []MlfqInv
<1>1. MlfqInv /\ [MlfqNext]_mlfqVars => MlfqInv'
  BY MlfqStep, MlfqStutters
<1> QED
  BY <1>1, MlfqStart, PTL DEF MlfqSpec

\* Lists, priorities and status keep their types: no demotion leads below the
\* last level.
THEOREM MlfqTypes == MlfqSpec => []MlfqTypeOK
BY MlfqInvariant, MlfqInvImplies, PTL

\* priority_queues and the status lists hold the same requests, each once,
\* for any number of requests and levels.
THEOREM MlfqQueues == MlfqSpec => []QueuesAgree
BY MlfqInvariant, MlfqInvImplies, PTL

\* However much memory a tick of MLFQ finds, it executes a prefix of the order
\* of the levels, and takes memory from the end of it.
THEOREM MlfqOrder == MlfqSpec => ExecutesInOrder
<1> DEFINE Ordered ==
              TickEnds =>
                /\ \A g \in ToSet(batch'), h \in Unfinished \ ToSet(batch') : Before(QueueList, g, h)
                /\ \A v \in In("running"), g \in In("running") :
                      place'[v] = "swapped" /\ place'[g] = "running" => Before(QueueList, g, v)
<1>1. MlfqInv /\ [MlfqNext]_mlfqVars => [Ordered]_mlfqVars
  <2>1. SUFFICES ASSUME MlfqInv, MlfqNext, TickEnds PROVE Ordered
    OBVIOUS
  <2>2. raised = "no" /\ ~stepping /\ stepping'
    BY <2>1 DEF TickEnds, MlfqNext
  <2>3. PICK n \in Selectable, M \in SUBSET Unfinished : MlfqTick(n, M)
    BY <2>1, <2>2 DEF MlfqNext, MlfqAdd, MlfqAbort, TickOutOfSpace, ProactiveSwapIn, EndStep
  <2> QED
    BY <2>1, <2>2, <2>3, TickOrder
<1> QED
  BY <1>1, MlfqInvariant, PTL DEF MlfqSpec, ExecutesInOrder
===============================================================================
