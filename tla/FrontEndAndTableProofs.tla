------------------------ MODULE FrontEndAndTableProofs ------------------------
(***************************************************************************)
(* Two parts of the engine that meet no other component in the models.     *)
(* First, what holds of the asynchronous front end for every set of calls, *)
(* however their ids collide, whether or not steps fail; then, of the      *)
(* block tables of the manager v2 for every number of blocks, every block  *)
(* size, every set of prompts and both allocators.                         *)
(***************************************************************************)
EXTENDS AsyncEngine, BlockManagerV2, ListLemmas, FiniteSetTheorems

Queued == {newQ[i] : i \in DOMAIN newQ}
Serving == {streams[id] : id \in DOMAIN streams}

\* A stream that is open holds outputs only; one that is closed ends with its
\* only "stop", unless the consumer has taken that.
StopsLast(b, d) ==
    \A c \in Call :
        /\ ~d[c] => \A i \in DOMAIN b[c] : b[c][i] = "output"
        /\ d[c] /\ b[c] # <<>> => b[c][Len(b[c])] = "stop"
        /\ \A i \in DOMAIN b[c] : b[c][i] = "stop" => i = Len(b[c])

\* b and d are boxes and flags after the streams in C have been closed, and
\* perhaps written to, when the boxes were a before.
Tidy(a, C, b, d) ==
    /\ b \in [Call -> Seq(Items)]
    /\ d \in [Call -> BOOLEAN]
    /\ StopsLast(b, d)
    /\ \A c \in Call : d[c] = (closed[c] \/ c \in C)
    /\ \A c \in Call : b[c] = <<>> /\ d[c] => closed[c] /\ a[c] = <<>>

\* A consumer that listens to a closed stream has something left to read.
Heard == \A c \in Call : client[c] = "listening" /\ closed[c] => box[c] # <<>>

\* A call that has not reached the tracker yet has no stream anywhere.
Unknown ==
    \A c \in Call : client[c] \in {"none", "encoding"} =>
        ~closed[c] /\ c \notin Queued /\ c \notin Serving

\* The inductive invariant.
EInv ==
    /\ TypeOK
    /\ \A c \in Call : made[c] < MaxOutputs
    /\ StopsLast(box, closed)
    /\ Heard
    /\ Unknown
    /\ DeadEngineClosesStreams

-----------------------------------------------------------------------------
(* Putting an item into streams, and closing them.                           *)

\* put writes to open streams only, and adds one item to them.
LEMMA PutFacts ==
    ASSUME NEW b \in [Call -> Seq(Items)], NEW C, NEW item \in Items,
           closed \in [Call -> BOOLEAN]
    PROVE  /\ Put(b, C, item) \in [Call -> Seq(Items)]
           /\ \A c \in Call : c \notin C \/ closed[c] => Put(b, C, item)[c] = b[c]
           /\ \A c \in Call : c \in C /\ ~closed[c] =>
                 /\ Len(Put(b, C, item)[c]) = Len(b[c]) + 1
                 /\ Put(b, C, item)[c][Len(b[c]) + 1] = item
                 /\ \A i \in DOMAIN b[c] : Put(b, C, item)[c][i] = b[c][i]
BY DEF Put

\* Closing streams that hold no end yet keeps the shape of all of them.
LEMMA ClosingKeepsShape ==
    ASSUME closed \in [Call -> BOOLEAN], NEW a, StopsLast(a, closed),
           NEW C, NEW b \in [Call -> Seq(Items)],
           \A c \in Call : closed[c] => b[c] = a[c],
           \A c \in Call : ~closed[c] => \A i \in DOMAIN b[c] : b[c][i] # "stop",
           \A c \in Call : ~closed[c] /\ c \notin C =>
               \A i \in DOMAIN b[c] : b[c][i] = "output"
    PROVE  Tidy(a, C, Finish(b, C), Close(C))
<1> DEFINE f == Finish(b, C)
           d == Close(C)
<1>2. /\ f \in [Call -> Seq(Items)]
      /\ \A c \in Call : c \notin C \/ closed[c] => f[c] = b[c]
      /\ \A c \in Call : c \in C /\ ~closed[c] =>
            /\ Len(f[c]) = Len(b[c]) + 1
            /\ f[c][Len(b[c]) + 1] = "stop"
            /\ \A i \in DOMAIN b[c] : f[c][i] = b[c][i]
  BY PutFacts DEF Finish, Items
<1>3. d = [c \in Call |-> closed[c] \/ c \in C] /\ d \in [Call -> BOOLEAN]
  BY DEF Close
<1>4. ASSUME NEW c \in Call
      PROVE  /\ ~d[c] => \A i \in DOMAIN f[c] : f[c][i] = "output"
             /\ d[c] /\ f[c] # <<>> => f[c][Len(f[c])] = "stop"
             /\ \A i \in DOMAIN f[c] : f[c][i] = "stop" => i = Len(f[c])
             /\ f[c] = <<>> /\ d[c] => closed[c] /\ a[c] = <<>>
  <2>1. d[c] = (closed[c] \/ c \in C)
    BY <1>3
  <2> HIDE DEF f, d
  <2>2. CASE closed[c]
    <3>1. f[c] = a[c] /\ d[c]
      BY <1>2, <2>1, <2>2
    <3>2. /\ a[c] # <<>> => a[c][Len(a[c])] = "stop"
          /\ \A i \in DOMAIN a[c] : a[c][i] = "stop" => i = Len(a[c])
      BY <2>2 DEF StopsLast
    <3> QED
      BY <2>2, <3>1, <3>2
  <2>3. CASE ~closed[c] /\ c \notin C
    <3>1. f[c] = b[c] /\ ~d[c]
      BY <1>2, <2>1, <2>3
    <3>2. \A i \in DOMAIN b[c] : b[c][i] = "output" /\ b[c][i] # "stop"
      BY <2>3
    <3> QED
      BY <3>1, <3>2
  <2>4. CASE ~closed[c] /\ c \in C
    <3>1. /\ f[c] \in Seq(Items) /\ b[c] \in Seq(Items)
          /\ Len(f[c]) = Len(b[c]) + 1
          /\ f[c][Len(b[c]) + 1] = "stop"
          /\ \A i \in DOMAIN b[c] : f[c][i] = b[c][i] /\ b[c][i] # "stop"
      BY <1>2, <2>4
    <3>2. DOMAIN f[c] = 1 .. Len(b[c]) + 1 /\ DOMAIN b[c] = 1 .. Len(b[c])
      BY <3>1
    <3>3. \A i \in DOMAIN f[c] : f[c][i] = "stop" => i = Len(f[c])
      BY <3>1, <3>2
    <3>4. f[c] # <<>>
      BY <3>1
    <3> QED
      BY <2>1, <2>4, <3>1, <3>3, <3>4
  <2> QED
    BY <2>2, <2>3, <2>4
<1>5. StopsLast(f, d)
  <2> HIDE DEF f, d
  <2> QED
    BY <1>4 DEF StopsLast
<1> QED
  <2>1. \A c \in Call : d[c] = (closed[c] \/ c \in C)
    BY <1>3
  <2> HIDE DEF f, d
  <2>2. Tidy(a, C, f, d)
    BY <1>2, <1>3, <1>4, <1>5, <2>1 DEF Tidy
  <2> QED
    BY <2>2 DEF f, d

\* The special case of abort_request, and of generate() raising.
LEMMA ClosingOnly ==
    ASSUME closed \in [Call -> BOOLEAN], NEW b \in [Call -> Seq(Items)],
           StopsLast(b, closed), NEW C
    PROVE  Tidy(b, C, Finish(b, C), Close(C))
<1>1. \A c \in Call : ~closed[c] =>
          \A i \in DOMAIN b[c] : b[c][i] = "output" /\ b[c][i] # "stop"
  BY DEF StopsLast
<1> QED
  BY <1>1, ClosingKeepsShape

\* What engine_step does to the boxes: outputs to some streams, a last item to
\* others, which are closed with it.
LEMMA ClosingWithItems ==
    ASSUME closed \in [Call -> BOOLEAN], box \in [Call -> Seq(Items)],
           StopsLast(box, closed), NEW A, NEW B, NEW C, B \subseteq C,
           NEW item \in {"final", "error"}
    PROVE  /\ Tidy(box, C, Finish(Put(box, B, item), C), Close(C))
           /\ Tidy(box, C, Finish(Put(Put(box, A, "output"), B, item), C), Close(C))
<1>1. ASSUME NEW b \in [Call -> Seq(Items)],
             \A c \in Call : closed[c] => b[c] = box[c],
             \A c \in Call : ~closed[c] => \A i \in DOMAIN b[c] : b[c][i] = "output"
      PROVE  Tidy(box, C, Finish(Put(b, B, item), C), Close(C))
  <2> DEFINE p == Put(b, B, item)
  <2>1. /\ p \in [Call -> Seq(Items)]
        /\ \A c \in Call : c \notin B \/ closed[c] => p[c] = b[c]
        /\ \A c \in Call : c \in B /\ ~closed[c] =>
              /\ Len(p[c]) = Len(b[c]) + 1
              /\ p[c][Len(b[c]) + 1] = item
              /\ \A i \in DOMAIN b[c] : p[c][i] = b[c][i]
    BY PutFacts DEF Items
  <2> HIDE DEF p
  <2>2. ASSUME NEW c \in Call, ~closed[c], NEW i \in DOMAIN p[c]
        PROVE  p[c][i] # "stop"
    <3>1. CASE c \notin B
      BY <1>1, <2>1, <2>2, <3>1
    <3>2. CASE c \in B
      <4>1. /\ p[c] \in Seq(Items) /\ b[c] \in Seq(Items)
            /\ Len(p[c]) = Len(b[c]) + 1
            /\ p[c][Len(b[c]) + 1] = item
            /\ \A k \in DOMAIN b[c] : p[c][k] = b[c][k] /\ b[c][k] = "output"
        BY <1>1, <2>1, <2>2, <3>2
      <4>2. i \in 1 .. Len(b[c]) + 1 /\ DOMAIN b[c] = 1 .. Len(b[c])
        BY <2>2, <4>1
      <4>3. item # "stop"
        OBVIOUS
      <4> QED
        BY <4>1, <4>2, <4>3
    <3> QED
      BY <3>1, <3>2
  <2>3. \A c \in Call : closed[c] => p[c] = box[c]
    BY <1>1, <2>1
  <2>4. \A c \in Call : ~closed[c] /\ c \notin C =>
            \A i \in DOMAIN p[c] : p[c][i] = "output"
    BY <1>1, <2>1
  <2>5. Tidy(box, C, Finish(p, C), Close(C))
    BY <2>1, <2>2, <2>3, <2>4, ClosingKeepsShape
  <2> QED
    BY <2>5 DEF p
<1>2. \A c \in Call : ~closed[c] => \A i \in DOMAIN box[c] : box[c][i] = "output"
  BY DEF StopsLast
<1>3. Tidy(box, C, Finish(Put(box, B, item), C), Close(C))
  BY <1>1, <1>2
<1> DEFINE q == Put(box, A, "output")
<1>4. /\ q \in [Call -> Seq(Items)]
      /\ \A c \in Call : c \notin A \/ closed[c] => q[c] = box[c]
      /\ \A c \in Call : c \in A /\ ~closed[c] =>
            /\ Len(q[c]) = Len(box[c]) + 1
            /\ q[c][Len(box[c]) + 1] = "output"
            /\ \A i \in DOMAIN box[c] : q[c][i] = box[c][i]
  BY PutFacts DEF Items
<1> HIDE DEF q
<1>5. ASSUME NEW c \in Call, ~closed[c], NEW i \in DOMAIN q[c]
      PROVE  q[c][i] = "output"
  <2>1. CASE c \notin A
    BY <1>2, <1>4, <1>5, <2>1
  <2>2. CASE c \in A
    <3>1. /\ q[c] \in Seq(Items) /\ box[c] \in Seq(Items)
          /\ Len(q[c]) = Len(box[c]) + 1
          /\ q[c][Len(box[c]) + 1] = "output"
          /\ \A k \in DOMAIN box[c] : q[c][k] = "output"
      BY <1>2, <1>4, <1>5, <2>2
    <3>2. i \in 1 .. Len(box[c]) + 1 /\ DOMAIN box[c] = 1 .. Len(box[c])
      BY <1>5, <3>1
    <3> QED
      BY <3>1, <3>2
  <2> QED
    BY <2>1, <2>2
<1>6. \A c \in Call : closed[c] => q[c] = box[c]
  BY <1>4
<1>7. Tidy(box, C, Finish(Put(q, B, item), C), Close(C))
  BY <1>1, <1>4, <1>5, <1>6
<1> QED
  BY <1>3, <1>7 DEF q

\* Taking the first item of a box.
LEMMA TailKeepsShape ==
    ASSUME box \in [Call -> Seq(Items)], StopsLast(box, closed),
           NEW c \in Call, box[c] # <<>>
    PROVE  /\ [box EXCEPT ![c] = Tail(@)] \in [Call -> Seq(Items)]
           /\ StopsLast([box EXCEPT ![c] = Tail(@)], closed)
           /\ closed[c] /\ Tail(box[c]) = <<>> => Head(box[c]) = "stop"
<1> DEFINE s == box[c]
           t == Tail(s)
<1>1. /\ s \in Seq(Items) /\ t \in Seq(Items)
      /\ Len(s) \in Nat \ {0} /\ Len(t) = Len(s) - 1
      /\ DOMAIN s = 1 .. Len(s) /\ DOMAIN t = 1 .. Len(t)
      /\ \A i \in DOMAIN t : i + 1 \in DOMAIN s /\ t[i] = s[i + 1]
      /\ Head(s) = s[1]
      /\ t = <<>> <=> Len(t) = 0
  <2>1. s \in Seq(Items) /\ s # <<>>
    OBVIOUS
  <2> HIDE DEF s
  <2>2. /\ t \in Seq(Items)
        /\ Len(s) \in Nat \ {0} /\ Len(t) = Len(s) - 1
        /\ DOMAIN s = 1 .. Len(s) /\ DOMAIN t = 1 .. Len(t)
        /\ Head(s) = s[1]
    BY <2>1
  <2>3. \A i \in DOMAIN t : i + 1 \in DOMAIN s
    BY <2>2
  <2>4. \A i \in DOMAIN t : t[i] = s[i + 1]
    BY <2>1
  <2>5. t = <<>> <=> Len(t) = 0
    <3>1. t \in Seq(Items)
      BY <2>2
    <3> HIDE DEF t
    <3> QED
      BY <3>1
  <2> QED
    BY <2>1, <2>2, <2>3, <2>4, <2>5
<1>2. /\ ~closed[c] => \A i \in DOMAIN s : s[i] = "output"
      /\ closed[c] => s[Len(s)] = "stop"
      /\ \A i \in DOMAIN s : s[i] = "stop" => i = Len(s)
  BY DEF StopsLast
<1> HIDE DEF s, t
<1>3. /\ ~closed[c] => \A i \in DOMAIN t : t[i] = "output"
      /\ closed[c] /\ t # <<>> => t[Len(t)] = "stop"
      /\ \A i \in DOMAIN t : t[i] = "stop" => i = Len(t)
      /\ closed[c] /\ t = <<>> => Head(s) = "stop"
  <2>1. ~closed[c] => \A i \in DOMAIN t : t[i] = "output"
    BY <1>1, <1>2
  <2>2. closed[c] /\ t # <<>> => t[Len(t)] = "stop"
    BY <1>1, <1>2
  <2>3. \A i \in DOMAIN t : t[i] = "stop" => i = Len(t)
    BY <1>1, <1>2
  <2>4. closed[c] /\ t = <<>> => Head(s) = "stop"
    BY <1>1, <1>2
  <2> QED
    BY <2>1, <2>2, <2>3, <2>4
<1>4. [box EXCEPT ![c] = Tail(@)] = [d \in Call |-> IF d = c THEN t ELSE box[d]]
  BY DEF s, t
<1>5. StopsLast([d \in Call |-> IF d = c THEN t ELSE box[d]], closed)
  BY <1>3 DEF StopsLast
<1> QED
  BY <1>1, <1>3, <1>4, <1>5 DEF s, t

-----------------------------------------------------------------------------
(* Small facts the steps share.                                              *)

\* A call has an id.
LEMMA IdFacts == ASSUME TypeOK, NEW c \in Call PROVE idOf[c] \in RequestId
BY EngineAssumption DEF TypeOK

\* The stream that takes an id last is among those that were queued.
LEMMA LastFacts ==
    ASSUME NEW q \in Seq(Call), NEW id,
           \E i \in DOMAIN q : idOf[q[i]] = id
    PROVE  \E i \in DOMAIN q :
               /\ idOf[q[i]] = id
               /\ \A j \in DOMAIN q : idOf[q[j]] = id => j <= i
<1> DEFINE I == {i \in 1 .. Len(q) : idOf[q[i]] = id}
           T == {Len(q) - i : i \in I}
<1>1. DOMAIN q = 1 .. Len(q) /\ Len(q) \in Nat
  OBVIOUS
<1>2. I # {} /\ T # {} /\ T \subseteq Nat
  BY <1>1
<1>3. \E n \in T : \A m \in T : <<m, n>> \notin OpToRel(<, Nat)
  <2> HIDE DEF T
  <2> QED
    BY <1>2, WFMin, NatLessThanWellFounded, Zenon
<1>4. PICK n \in T : \A m \in T : <<m, n>> \notin OpToRel(<, Nat)
  BY <1>3
<1>5. \A m \in T : ~(m < n)
  BY <1>2, <1>4 DEF OpToRel
<1>6. PICK i \in I : n = Len(q) - i
  OBVIOUS
<1>7. \A j \in I : j <= i
  <2>1. ASSUME NEW j \in I PROVE j <= i
    <3>1. Len(q) - j \in T
      OBVIOUS
    <3>2. ~(Len(q) - j < Len(q) - i)
      BY <1>5, <1>6, <3>1
    <3> QED
      BY <1>1, <3>2
  <2> QED
    BY <2>1
<1> QED
  BY <1>1, <1>7

\* A step that leaves the boxes alone leaves them tidy.
LEMMA NothingClosed ==
    ASSUME EInv PROVE Tidy(box, {}, box, closed)
BY DEF EInv, TypeOK, Tidy

\* What a step has to show besides what it does to the boxes.
LEMMA TidyKeeps ==
    ASSUME EInv, TypeOK', NEW C, Tidy(box, C, box', closed'),
           C \subseteq Queued \union Serving,
           \A c \in Call : made'[c] < MaxOutputs,
           \A c \in Call : client'[c] = "listening" => client[c] = "listening",
           \A c \in Call : client'[c] \in {"none", "encoding"} =>
               client[c] \in {"none", "encoding"},
           Queued' \subseteq Queued,
           Serving' \subseteq Queued \union Serving,
           DeadEngineClosesStreams'
    PROVE  EInv'
<1>1. StopsLast(box', closed')
  BY DEF Tidy
<1>2. Heard'
  BY DEF EInv, Heard, Tidy
<1>3. Unknown'
  <2>1. ASSUME NEW c \in Call, client'[c] \in {"none", "encoding"}
        PROVE  ~closed'[c] /\ c \notin Queued' /\ c \notin Serving'
    <3>1. ~closed[c] /\ c \notin Queued /\ c \notin Serving
      BY <2>1 DEF EInv, Unknown
    <3>2. closed'[c] = (closed[c] \/ c \in C)
      BY DEF Tidy
    <3> QED
      BY <3>1, <3>2
  <2> QED
    BY <2>1 DEF Unknown
<1> QED
  BY <1>1, <1>2, <1>3 DEF EInv, StopsLast

\* A failed engine's streams stay closed while nothing starts it again.
LEMMA StaysDead ==
    ASSUME EInv, NEW C, Tidy(box, C, box', closed'), streams' = streams,
           errored' = errored, callback' = callback,
           Running' = Running
    PROVE  DeadEngineClosesStreams'
BY DEF EInv, TypeOK, DeadEngineClosesStreams, Tidy, Running

-----------------------------------------------------------------------------
(* The first state, and the steps one at a time.                             *)

\* The first state.
LEMMA EInit == ASSUME Init PROVE EInv
<1>1. TypeOK
  <2>1. /\ newQ \in Seq(Call)
        /\ box \in [Call -> Seq(Items)]
        /\ made \in [Call -> 0 .. MaxOutputs]
    BY EngineAssumption DEF Init
  <2>2. DOMAIN streams = {}
    BY DEF Init, NoStreams
  <2>3. /\ client \in [Call -> {"none", "encoding", "listening", "ended"}]
        /\ closed \in [Call -> BOOLEAN]
    BY DEF Init
  <2>4. /\ reliable \in BOOLEAN /\ event \in BOOLEAN /\ progress \in BOOLEAN
        /\ callback \in BOOLEAN /\ errored \in BOOLEAN
    BY EngineAssumption DEF Init
  <2> QED
    BY <2>1, <2>2, <2>3, <2>4 DEF Init, TypeOK
<1>2. \A c \in Call : made[c] < MaxOutputs
  BY EngineAssumption DEF Init
<1>3. StopsLast(box, closed) /\ Heard /\ DeadEngineClosesStreams
  BY DEF Init, StopsLast, Heard, DeadEngineClosesStreams
<1>4. Unknown
  BY DEF Init, Unknown, Queued, Serving, NoStreams
<1> QED
  BY <1>1, <1>2, <1>3, <1>4 DEF EInv

\* abort_request: an id is queued for the engine, its stream finished.
LEMMA AbortFacts ==
    ASSUME EInv, NEW c \in Call, AbortRequest(idOf[c])
    PROVE  \E C : /\ Tidy(box, C, box', closed')
                  /\ C \subseteq Serving
                  /\ finQ' \subseteq RequestId
                  /\ UNCHANGED <<newQ, streams, event>>
<1> DEFINE C == {streams[i] : i \in DOMAIN streams \intersect {idOf[c]}}
<1>1. C \subseteq Serving
  BY DEF Serving
<1>2. /\ finQ' = finQ \union {idOf[c]}
      /\ box' = Finish(box, C)
      /\ closed' = Close(C)
      /\ UNCHANGED <<newQ, streams, event>>
  BY DEF AbortRequest
<1>3. finQ' \subseteq RequestId
  BY <1>2, IdFacts DEF EInv, TypeOK
<1> HIDE DEF C
<1>4. Tidy(box, C, Finish(box, C), Close(C))
  BY ClosingOnly DEF EInv, TypeOK
<1> QED
  BY <1>1, <1>2, <1>3, <1>4

\* A call that aborts its id, and perhaps ends with that.
LEMMA AbortKeeps ==
    ASSUME EInv, NEW c \in Call, AbortRequest(idOf[c]),
           client' \in {client, [client EXCEPT ![c] = "ended"]},
           UNCHANGED <<loopVars, engineVars, given>>
    PROVE  EInv'
<1>1. PICK C : /\ Tidy(box, C, box', closed')
               /\ C \subseteq Serving
               /\ finQ' \subseteq RequestId
               /\ UNCHANGED <<newQ, streams, event>>
  BY AbortFacts
<1>2. TypeOK'
  BY <1>1 DEF EInv, TypeOK, Tidy, loopVars, engineVars, given
<1>3. /\ \A d \in Call : made'[d] < MaxOutputs
      /\ \A d \in Call : client'[d] = "listening" => client[d] = "listening"
      /\ \A d \in Call : client'[d] \in {"none", "encoding"} =>
             client[d] \in {"none", "encoding"}
  BY DEF EInv, TypeOK, engineVars
<1>4. Queued' = Queued /\ Serving' = Serving
  BY <1>1 DEF Queued, Serving
<1>5. DeadEngineClosesStreams'
  BY <1>1, StaysDead DEF loopVars, Running
<1> QED
  BY <1>1, <1>2, <1>3, <1>4, <1>5, TidyKeeps

\* A call after the loop has died.
LEMMA SubmitRefusedKeeps ==
    ASSUME EInv, NEW c \in Call, SubmitRefused(c), UNCHANGED given PROVE EInv'
BY AbortKeeps DEF SubmitRefused

\* A client that goes.
LEMMA CancelKeeps ==
    ASSUME EInv, NEW c \in Call, Cancel(c), UNCHANGED given PROVE EInv'
BY AbortKeeps DEF Cancel

\* An abort from outside.
LEMMA AbortOnlyKeeps ==
    ASSUME EInv, NEW c \in Call, Abort(c), UNCHANGED given PROVE EInv'
BY AbortKeeps DEF Abort

\* What the steps that leave boxes, streams and calls alone have in common.
LEMMA QuietKeeps ==
    ASSUME EInv, TypeOK', UNCHANGED <<client, newQ, streams, streamVars, made>>,
           DeadEngineClosesStreams'
    PROVE  EInv'
<1>1. Tidy(box, {}, box', closed')
  BY NothingClosed DEF streamVars
<1>2. /\ \A c \in Call : made'[c] < MaxOutputs
      /\ \A c \in Call : client'[c] = "listening" => client[c] = "listening"
      /\ \A c \in Call : client'[c] \in {"none", "encoding"} =>
             client[c] \in {"none", "encoding"}
  BY DEF EInv
<1>3. Queued' = Queued /\ Serving' = Serving
  BY DEF Queued, Serving
<1> QED
  BY <1>1, <1>2, <1>3, TidyKeeps

\* A round of the loop before it starts a step.
LEMMA IterationKeeps ==
    ASSUME EInv, NextIteration \/ GotNewRequests, UNCHANGED given PROVE EInv'
<1>1. TypeOK'
  <2>1. event' \in BOOLEAN
    BY DEF NextIteration, GotNewRequests, EInv, TypeOK
  <2> QED
    BY <2>1 DEF NextIteration, GotNewRequests, EInv, TypeOK, streamVars,
                engineVars, given
<1>2. DeadEngineClosesStreams'
  BY DEF NextIteration, GotNewRequests, DeadEngineClosesStreams, Running
<1> QED
  BY <1>1, <1>2, QuietKeeps DEF NextIteration, GotNewRequests, streamVars,
                                engineVars

\* A step that fails.
LEMMA FailureKeeps ==
    ASSUME EInv, StepFails, UNCHANGED given PROVE EInv'
<1>1. TypeOK'
  <2>1. errored' \in BOOLEAN
    BY DEF StepFails, EInv, TypeOK
  <2> QED
    BY <2>1 DEF StepFails, EInv, TypeOK, trackerVars, streamVars, engineVars, given
<1>2. DeadEngineClosesStreams'
  BY DEF StepFails, DeadEngineClosesStreams
<1> QED
  BY <1>1, <1>2, QuietKeeps DEF StepFails, trackerVars, streamVars, engineVars

\* A score of the auxiliary engine lands.
LEMMA ScoreKeeps ==
    ASSUME EInv, NEW c \in Call, Score(c), UNCHANGED given PROVE EInv'
<1>1. TypeOK'
  BY DEF Score, EInv, TypeOK, trackerVars, streamVars, loopVars, given
<1>2. DeadEngineClosesStreams'
  BY DEF Score, EInv, DeadEngineClosesStreams, Running, trackerVars,
         streamVars, loopVars
<1> QED
  BY <1>1, <1>2, QuietKeeps DEF Score, trackerVars, streamVars

\* A client that calls.
LEMMA GenerateKeeps ==
    ASSUME EInv, NEW c \in Call, Generate(c), UNCHANGED given PROVE EInv'
<1> USE DEF Generate
<1>1. CASE Running
  <2>1. UNCHANGED <<trackerVars, streamVars, loopVars, engineVars>>
    BY <1>1
  <2>2. client' = [client EXCEPT ![c] = "encoding"] /\ client[c] = "none"
    BY <1>1
  <2>3. TypeOK'
    BY <2>1, <2>2 DEF EInv, TypeOK, trackerVars, streamVars, loopVars,
                      engineVars, given
  <2>4. Queued' = Queued /\ Serving' = Serving
    BY <2>1 DEF Queued, Serving, trackerVars
  <2>5. Tidy(box, {}, box', closed')
    BY <2>1, NothingClosed DEF streamVars
  <2>6. /\ \A d \in Call : made'[d] < MaxOutputs
        /\ \A d \in Call : client'[d] = "listening" => client[d] = "listening"
        /\ \A d \in Call : client'[d] \in {"none", "encoding"} =>
               client[d] \in {"none", "encoding"}
    BY <2>1, <2>2 DEF EInv, TypeOK, engineVars
  <2>7. DeadEngineClosesStreams'
    BY <2>1, <2>5, StaysDead DEF trackerVars, loopVars, Running
  <2> QED
    BY <2>3, <2>4, <2>5, <2>6, <2>7, TidyKeeps
<1>2. CASE ~Running /\ errored
  BY <1>2, AbortKeeps
<1>3. CASE ~Running /\ ~errored
  <2>1. /\ client' = [client EXCEPT ![c] = "encoding"] /\ client[c] = "none"
        /\ newQ' = <<>> /\ finQ' = {} /\ streams' = NoStreams
        /\ event' = FALSE /\ loop' = "top" /\ progress' = FALSE
        /\ UNCHANGED <<streamVars, batch, callback, errored, engineVars>>
    BY <1>3
  <2>2. DOMAIN streams' = {} /\ newQ' \in Seq(Call)
    BY <2>1 DEF NoStreams
  <2>3. TypeOK'
    BY <2>1, <2>2 DEF EInv, TypeOK, streamVars, engineVars, given
  <2>4. Queued' = {} /\ Serving' = {}
    BY <2>1, <2>2 DEF Queued, Serving
  <2>5. Tidy(box, {}, box', closed')
    BY <2>1, NothingClosed DEF streamVars
  <2>6. /\ \A d \in Call : made'[d] < MaxOutputs
        /\ \A d \in Call : client'[d] = "listening" => client[d] = "listening"
        /\ \A d \in Call : client'[d] \in {"none", "encoding"} =>
               client[d] \in {"none", "encoding"}
    BY <2>1 DEF EInv, TypeOK, engineVars
  <2>7. DeadEngineClosesStreams'
    BY <2>1 DEF DeadEngineClosesStreams, Running
  <2> QED
    BY <2>3, <2>4, <2>5, <2>6, <2>7, TidyKeeps
<1> QED
  BY <1>1, <1>2, <1>3

\* A call that reaches the tracker has an open stream there.
LEMMA SubmitKeeps ==
    ASSUME EInv, NEW c \in Call, Submit(c), UNCHANGED given PROVE EInv'
<1>1. /\ client[c] = "encoding"
      /\ client' = [client EXCEPT ![c] = "listening"]
      /\ newQ' = Append(newQ, c)
      /\ event' = TRUE
      /\ UNCHANGED <<finQ, streams, streamVars, loopVars, engineVars>>
  BY DEF Submit
<1>2. TypeOK'
  <2>1. newQ' \in Seq(Call)
    BY <1>1 DEF EInv, TypeOK
  <2> QED
    BY <1>1, <2>1 DEF EInv, TypeOK, streamVars, loopVars, engineVars, given
<1>3. Queued' \subseteq Queued \union {c} /\ Serving' = Serving
  BY <1>1 DEF EInv, TypeOK, Queued, Serving
<1>4. Heard'
  BY <1>1 DEF EInv, TypeOK, Heard, Unknown, streamVars
<1>5. Unknown'
  <2>1. ASSUME NEW d \in Call, client'[d] \in {"none", "encoding"}
        PROVE  ~closed'[d] /\ d \notin Queued' /\ d \notin Serving'
    <3>1. d # c /\ client[d] \in {"none", "encoding"}
      BY <1>1, <2>1 DEF EInv, TypeOK
    <3>2. ~closed[d] /\ d \notin Queued /\ d \notin Serving
      BY <3>1 DEF EInv, Unknown
    <3> QED
      BY <1>1, <1>3, <3>1, <3>2 DEF streamVars
  <2> QED
    BY <2>1 DEF Unknown
<1>6. DeadEngineClosesStreams'
  BY <1>1 DEF EInv, DeadEngineClosesStreams, Running, streamVars, loopVars
<1> QED
  BY <1>1, <1>2, <1>4, <1>5, <1>6 DEF EInv, StopsLast, streamVars, engineVars

\* The callback of the dead task.
LEMMA ErrorCallbackKeeps ==
    ASSUME EInv, ErrorCallback, UNCHANGED given PROVE EInv'
<1> DEFINE C == Range(streams)
<1>1. /\ callback' = FALSE /\ errored' = TRUE
      /\ box' = Finish(Put(box, C, "error"), C)
      /\ closed' = Close(C)
      /\ finQ' = finQ \union DOMAIN streams
      /\ UNCHANGED <<client, newQ, streams, event, loop, progress, batch,
                     engineVars>>
  BY DEF ErrorCallback
<1>2. C = Serving
  BY DEF Range, Serving
<1> HIDE DEF C
<1>3. Tidy(box, C, Finish(Put(box, C, "error"), C), Close(C))
  <2>1. /\ closed \in [Call -> BOOLEAN] /\ box \in [Call -> Seq(Items)]
        /\ StopsLast(box, closed)
    BY DEF EInv, TypeOK
  <2> QED
    BY <2>1, ClosingWithItems
<1>4. Tidy(box, C, box', closed')
  BY <1>1, <1>3
<1>5. TypeOK'
  BY <1>1, <1>4 DEF EInv, TypeOK, Tidy, engineVars, given
<1>6. /\ \A d \in Call : made'[d] < MaxOutputs
      /\ \A d \in Call : client'[d] = "listening" => client[d] = "listening"
      /\ \A d \in Call : client'[d] \in {"none", "encoding"} =>
             client[d] \in {"none", "encoding"}
  BY <1>1 DEF EInv, engineVars
<1>7. Queued' = Queued /\ Serving' = Serving
  BY <1>1 DEF Queued, Serving
<1>8. DeadEngineClosesStreams'
  <2>1. \A id \in DOMAIN streams : streams[id] \in C /\ streams[id] \in Call
    BY <1>2 DEF Serving, EInv, TypeOK
  <2> QED
    BY <1>1, <1>4, <2>1 DEF DeadEngineClosesStreams, Tidy
<1> QED
  BY <1>2, <1>4, <1>5, <1>6, <1>7, <1>8, TidyKeeps

\* What is delivered after the model, to some of the calls or to all of them.
LEMMA DeliverKeeps ==
    ASSUME EInv, NEW last \in Ends, NEW S \in SUBSET batch, \A c \in S : Registered(c),
           Computed(last), Deliver(S, last),
           progress' \in BOOLEAN, callback' \in BOOLEAN,
           loop' \in {"none", "top"}, loop' = "none" => callback',
           UNCHANGED <<client, errored, scored>>, UNCHANGED given
    PROVE  EInv'
<1> DEFINE To(D) == {streams[idOf[c]] : c \in D}
           A == To(S \ last)
           B == To(S \intersect last)
<1>1. /\ box' = Finish(Put(Put(box, A, "output"), B, "final"), B)
      /\ closed' = Close(B)
      /\ finQ' = finQ \union {idOf[c] : c \in S \intersect last}
      /\ UNCHANGED <<newQ, streams, event>>
  BY DEF Deliver
<1>2. /\ engine' = engine \ last /\ batch' = {}
      /\ made' = [c \in Call |-> IF c \in batch \ last THEN made[c] + 1 ELSE made[c]]
  BY DEF Computed
<1>3. B \subseteq Serving
  BY DEF Registered, Serving
<1>4. last \subseteq Call /\ \A c \in batch \ last : made[c] + 1 # MaxOutputs
  BY DEF Ends, EInv, TypeOK
<1> HIDE DEF A, B
<1>5. Tidy(box, B, box', closed')
  <2>1. /\ closed \in [Call -> BOOLEAN] /\ box \in [Call -> Seq(Items)]
        /\ StopsLast(box, closed)
    BY DEF EInv, TypeOK
  <2>2. Tidy(box, B, Finish(Put(Put(box, A, "output"), B, "final"), B), Close(B))
    BY <2>1, ClosingWithItems
  <2> QED
    BY <1>1, <2>2
<1>6. made' \in [Call -> 0 .. MaxOutputs] /\ \A c \in Call : made'[c] < MaxOutputs
  <2>1. ASSUME NEW c \in Call
        PROVE  made'[c] \in 0 .. MaxOutputs /\ made'[c] < MaxOutputs
    <3>1. made[c] \in 0 .. MaxOutputs /\ made[c] < MaxOutputs
          /\ MaxOutputs \in Nat
      BY EngineAssumption DEF EInv, TypeOK
    <3>2. made'[c] = IF c \in batch \ last THEN made[c] + 1 ELSE made[c]
      BY <1>2
    <3> QED
      BY <1>4, <3>1, <3>2
  <2> QED
    BY <1>2, <2>1
<1>7. finQ' \subseteq RequestId
  BY <1>1, <1>4, IdFacts DEF EInv, TypeOK
<1>8. TypeOK'
  BY <1>1, <1>2, <1>5, <1>6, <1>7 DEF EInv, TypeOK, Tidy, given
<1>9. Queued' = Queued /\ Serving' = Serving
  BY <1>1 DEF Queued, Serving
<1>10. DeadEngineClosesStreams'
  BY DEF DeadEngineClosesStreams, Running
<1> QED
  BY <1>1, <1>3, <1>5, <1>6, <1>8, <1>9, <1>10, TidyKeeps

\* engine_step after the model, whether or not an output has no stream.
LEMMA EngineStepReturnsKeeps ==
    ASSUME EInv, EngineStepReturns \/ OutputWithoutStream, UNCHANGED given
    PROVE  EInv'
<1>1. CASE EngineStepReturns
  <2>1. /\ \A c \in batch : Registered(c)
        /\ progress' = TRUE /\ loop' = "top"
        /\ UNCHANGED <<client, callback, errored, scored>>
    BY <1>1 DEF EngineStepReturns
  <2>2. PICK last \in Ends : Computed(last) /\ Deliver(batch, last)
    BY <1>1 DEF EngineStepReturns
  <2>3. callback' \in BOOLEAN
    BY <2>1 DEF EInv, TypeOK
  <2> QED
    BY <2>1, <2>2, <2>3, DeliverKeeps
<1>2. CASE OutputWithoutStream
  <2>1. /\ loop' = "none" /\ callback' = TRUE
        /\ UNCHANGED <<client, progress, errored, scored>>
    BY <1>2 DEF OutputWithoutStream
  <2>2. PICK last \in Ends, C \in SUBSET {c \in batch : Registered(c)} :
           Computed(last) /\ Deliver(C, last)
    BY <1>2 DEF OutputWithoutStream
  <2>3. progress' \in BOOLEAN
    BY <2>1 DEF EInv, TypeOK
  <2> QED
    BY <2>1, <2>2, <2>3, DeliverKeeps
<1> QED
  BY <1>1, <1>2

\* The consumer that takes the last item of a closed stream takes its "stop".
LEMMA ReceiveKeeps ==
    ASSUME EInv, NEW c \in Call, Receive(c), UNCHANGED given PROVE EInv'
<1> DEFINE item == Head(box[c])
           rest == [box EXCEPT ![c] = Tail(@)]
           C == {streams[i] : i \in DOMAIN streams \intersect {idOf[c]}}
<1>1. /\ client[c] = "listening"
      /\ box[c] # <<>>
      /\ client' = IF item \in {"stop", "error"}
                   THEN [client EXCEPT ![c] = "ended"] ELSE client
      /\ IF item = "error"
         THEN /\ finQ' = finQ \union {idOf[c]}
              /\ box' = Finish(rest, C)
              /\ closed' = Close(C)
         ELSE /\ box' = rest
              /\ UNCHANGED <<finQ, closed>>
      /\ UNCHANGED <<newQ, streams, event, loopVars, engineVars>>
  BY DEF Receive
<1>2. /\ rest \in [Call -> Seq(Items)]
      /\ StopsLast(rest, closed)
      /\ closed[c] /\ rest[c] = <<>> => item = "stop"
      /\ \A d \in Call \ {c} : rest[d] = box[d]
  <2>1. box \in [Call -> Seq(Items)] /\ StopsLast(box, closed)
    BY DEF EInv, TypeOK
  <2>2. rest[c] = Tail(box[c])
    BY <2>1
  <2> QED
    BY <1>1, <2>1, <2>2, TailKeepsShape
<1>3. C \subseteq Serving
  BY DEF Serving
<1> HIDE DEF item, rest, C
<1>4. PICK D \in SUBSET Serving : Tidy(rest, D, box', closed')
  <2>1. closed \in [Call -> BOOLEAN]
    BY DEF EInv, TypeOK
  <2>2. Tidy(rest, C, Finish(rest, C), Close(C))
    BY <1>2, <2>1, ClosingOnly
  <2>3. Tidy(rest, {}, rest, closed)
    BY <1>2, <2>1 DEF Tidy
  <2> QED
    BY <1>1, <1>3, <2>2, <2>3
<1>5. finQ' \subseteq RequestId
  BY <1>1, IdFacts DEF EInv, TypeOK
<1>6. client' \in [Call -> {"none", "encoding", "listening", "ended"}]
  BY <1>1 DEF EInv, TypeOK
<1>7. TypeOK'
  BY <1>1, <1>4, <1>5, <1>6 DEF EInv, TypeOK, Tidy, loopVars, engineVars, given
<1>8. StopsLast(box', closed')
  BY <1>4 DEF Tidy
<1>9. Heard'
  <2>1. ASSUME NEW d \in Call, client'[d] = "listening", closed'[d], box'[d] = <<>>
        PROVE  FALSE
    <3>1. closed[d] /\ rest[d] = <<>>
      BY <1>4, <2>1 DEF Tidy
    <3>2. client[d] = "listening"
      BY <1>1, <2>1 DEF EInv, TypeOK
    <3>3. CASE d = c
      BY <1>1, <1>2, <2>1, <3>1, <3>3 DEF EInv, TypeOK
    <3>4. CASE d # c
      BY <1>2, <3>1, <3>2, <3>4 DEF EInv, Heard
    <3> QED
      BY <3>3, <3>4
  <2> QED
    BY <2>1 DEF Heard
<1>10. Queued' = Queued /\ Serving' = Serving
  BY <1>1 DEF Queued, Serving
<1>11. Unknown'
  <2>1. ASSUME NEW d \in Call, client'[d] \in {"none", "encoding"}
        PROVE  ~closed'[d] /\ d \notin Queued' /\ d \notin Serving'
    <3>1. client[d] \in {"none", "encoding"}
      BY <1>1, <2>1 DEF EInv, TypeOK
    <3>2. ~closed[d] /\ d \notin Queued /\ d \notin Serving
      BY <3>1 DEF EInv, Unknown
    <3>3. closed'[d] = (closed[d] \/ d \in D)
      BY <1>4 DEF Tidy
    <3> QED
      BY <1>4, <1>10, <3>2, <3>3
  <2> QED
    BY <2>1 DEF Unknown
<1>12. DeadEngineClosesStreams'
  <2>1. \A d \in Call : closed[d] => closed'[d]
    BY <1>4 DEF Tidy
  <2>2. /\ UNCHANGED <<streams, loop, callback, errored>>
        /\ \A id \in DOMAIN streams : streams[id] \in Call
    BY <1>1 DEF loopVars, EInv, TypeOK
  <2> QED
    BY <2>1, <2>2 DEF EInv, DeadEngineClosesStreams, Running
<1> QED
  BY <1>1, <1>7, <1>8, <1>9, <1>11, <1>12 DEF EInv, StopsLast, engineVars

\* engine_step up to the model: what leaves the queue is served or finished.
LEMMA EngineStepKeeps ==
    ASSUME EInv, EngineStep, UNCHANGED given PROVE EInv'
<1> DEFINE taken == {newQ[i] : i \in DOMAIN newQ}
           stillborn == {c \in taken : idOf[c] \in finQ}
           adopted == taken \ stillborn
           ids == {idOf[c] : c \in adopted}
           Latest(id) == newQ[CHOOSE i \in DOMAIN newQ :
                               /\ idOf[newQ[i]] = id
                               /\ \A j \in DOMAIN newQ :
                                     idOf[newQ[j]] = id => j <= i]
<1>1. PICK refused \in SUBSET (adopted \intersect Refusable) :
          LET errors == {Latest(idOf[c]) : c \in refused}
              added == engine \union (adopted \ refused)
          IN /\ streams' = [id \in (DOMAIN streams \ finQ) \union ids |->
                               IF id \in ids THEN Latest(id) ELSE streams[id]]
             /\ newQ' = <<>>
             /\ finQ' = {idOf[c] : c \in refused}
             /\ box' = Finish(Put(box, errors, "error"), stillborn \union errors)
             /\ closed' = Close(stillborn \union errors)
             /\ \E gone \in OnePerId(added, finQ) : engine' = added \ gone
             /\ batch' \in SUBSET Eligible(engine')
             /\ batch' = {} => Eligible(engine') = {}
             /\ loop' = IF batch' = {} THEN "top" ELSE "executing"
             /\ progress' = (batch' # {} /\ progress)
  BY DEF EngineStep
<1> DEFINE errors == {Latest(idOf[c]) : c \in refused}
           added == engine \union (adopted \ refused)
<1>2. /\ streams' = [id \in (DOMAIN streams \ finQ) \union ids |->
                       IF id \in ids THEN Latest(id) ELSE streams[id]]
      /\ newQ' = <<>>
      /\ finQ' = {idOf[c] : c \in refused}
      /\ box' = Finish(Put(box, errors, "error"), stillborn \union errors)
      /\ closed' = Close(stillborn \union errors)
      /\ \E gone \in OnePerId(added, finQ) : engine' = added \ gone
      /\ batch' \subseteq Eligible(engine')
      /\ loop' = IF batch' = {} THEN "top" ELSE "executing"
      /\ progress' = (batch' # {} /\ progress)
      /\ UNCHANGED <<client, event, callback, errored, scored, made>>
  BY <1>1 DEF EngineStep
<1>3. taken = Queued /\ taken \subseteq Call
  BY DEF Queued, EInv, TypeOK
<1>4. ASSUME NEW c \in adopted PROVE Latest(idOf[c]) \in Queued
  <2>1. newQ \in Seq(Call) /\ \E i \in DOMAIN newQ : idOf[newQ[i]] = idOf[c]
    BY DEF EInv, TypeOK
  <2>2. \E i \in DOMAIN newQ :
            /\ idOf[newQ[i]] = idOf[c]
            /\ \A j \in DOMAIN newQ : idOf[newQ[j]] = idOf[c] => j <= i
    BY <2>1, LastFacts
  <2> QED
    BY <2>2 DEF Queued
<1>5. /\ adopted \subseteq taken /\ stillborn \subseteq taken
      /\ refused \subseteq adopted
      /\ ids \subseteq RequestId
      /\ \A id \in ids : Latest(id) \in Queued
  <2>1. adopted \subseteq taken /\ stillborn \subseteq taken
        /\ refused \subseteq adopted
    OBVIOUS
  <2> HIDE DEF Latest, taken, stillborn
  <2> QED
    BY <1>3, <1>4, <2>1, IdFacts DEF EInv
<1>6. errors \subseteq Queued
  <2> HIDE DEF Latest, adopted
  <2> QED
    BY <1>4, <1>5
<1> DEFINE C == stillborn \union errors
<1>7. C \subseteq Queued /\ errors \subseteq C
  BY <1>3, <1>5, <1>6
<1> HIDE DEF Latest, taken, stillborn, adopted, ids, errors, added
<1>8. Tidy(box, C, box', closed')
  <2>1. /\ closed \in [Call -> BOOLEAN] /\ box \in [Call -> Seq(Items)]
        /\ StopsLast(box, closed)
    BY DEF EInv, TypeOK
  <2>2. Tidy(box, C, Finish(Put(box, errors, "error"), C), Close(C))
    BY <1>7, <2>1, ClosingWithItems
  <2> QED
    BY <1>2, <2>2
<1>9. /\ DOMAIN streams' \subseteq RequestId
      /\ \A id \in DOMAIN streams' : streams'[id] \in Queued \union Serving
  <2>1. DOMAIN streams' = (DOMAIN streams \ finQ) \union ids
    BY <1>2
  <2>2. ASSUME NEW id \in DOMAIN streams'
        PROVE  streams'[id] \in Queued \union Serving
    <3>1. CASE id \in ids
      BY <1>2, <1>5, <2>1, <3>1
    <3>2. CASE id \notin ids
      BY <1>2, <2>1, <3>2 DEF Serving
    <3> QED
      BY <3>1, <3>2
  <2> QED
    BY <1>5, <2>1, <2>2 DEF EInv, TypeOK
<1>10. Queued \union Serving \subseteq Call
  BY DEF Queued, Serving, EInv, TypeOK
<1>11. engine' \subseteq Call /\ batch' \subseteq Call
  <2>1. added \subseteq Call
    BY <1>3, <1>5 DEF added, EInv, TypeOK
  <2>2. engine' \subseteq added
    BY <1>2
  <2> QED
    BY <1>2, <2>1, <2>2 DEF Eligible
<1>12. finQ' \subseteq RequestId /\ newQ' \in Seq(Call)
  BY <1>2, <1>3, <1>5, IdFacts DEF EInv
<1>13. loop' \in {"top", "executing"} /\ progress' \in BOOLEAN
  BY <1>2 DEF EInv, TypeOK
<1>14. TypeOK'
  BY <1>2, <1>8, <1>9, <1>10, <1>11, <1>12, <1>13 DEF EInv, TypeOK, Tidy, given
<1>15. Queued' = {} /\ Serving' \subseteq Queued \union Serving
  <2>1. newQ' = <<>>
    BY <1>2
  <2>2. Queued' = {}
    BY <2>1 DEF Queued
  <2>3. Serving' \subseteq Queued \union Serving
    <3>1. ASSUME NEW c \in Serving' PROVE c \in Queued \union Serving
      <4>1. PICK id \in DOMAIN streams' : c = streams'[id]
        BY DEF Serving
      <4> QED
        BY <1>9, <4>1
    <3> QED
      BY <3>1
  <2> QED
    BY <2>2, <2>3
<1>16. DeadEngineClosesStreams'
  BY <1>13 DEF DeadEngineClosesStreams, Running
<1>17. /\ \A d \in Call : made'[d] < MaxOutputs
       /\ \A d \in Call : client'[d] = "listening" => client[d] = "listening"
       /\ \A d \in Call : client'[d] \in {"none", "encoding"} =>
              client[d] \in {"none", "encoding"}
  BY <1>2 DEF EInv
<1> QED
  <2> HIDE DEF C
  <2> QED
    BY <1>7, <1>8, <1>14, <1>15, <1>16, <1>17, TidyKeeps

-----------------------------------------------------------------------------
(* The theorems.                                                             *)

\* A step of nobody.
LEMMA StutterKeeps == ASSUME EInv, UNCHANGED <<given, vars>> PROVE EInv'
<1>1. TypeOK'
  BY DEF EInv, TypeOK, given, vars, trackerVars, streamVars, loopVars, engineVars
<1>2. DeadEngineClosesStreams'
  BY DEF EInv, DeadEngineClosesStreams, Running, vars, trackerVars, streamVars,
         loopVars
<1> QED
  BY <1>1, <1>2, QuietKeeps DEF vars, trackerVars, streamVars, engineVars

\* Every step keeps the invariant.
LEMMA StepKeeps == ASSUME EInv, [Next]_<<given, vars>> PROVE EInv'
<1>1. CASE UNCHANGED <<given, vars>>
  BY <1>1, StutterKeeps
<1>2. ASSUME UNCHANGED given, NEW c \in Call,
             Generate(c) \/ ClientStep(c) \/ Cancel(c) \/ Abort(c) \/ Score(c)
      PROVE  EInv'
  BY <1>2, GenerateKeeps, SubmitKeeps, SubmitRefusedKeeps, ReceiveKeeps,
     CancelKeeps, AbortOnlyKeeps, ScoreKeeps DEF ClientStep
<1>3. ASSUME UNCHANGED given, LoopStep PROVE EInv'
  BY <1>3, IterationKeeps, EngineStepKeeps, EngineStepReturnsKeeps,
     FailureKeeps, ErrorCallbackKeeps DEF LoopStep
<1> QED
  BY <1>1, <1>2, <1>3 DEF Next

\* The inductive invariant of the front end holds.
THEOREM FrontEndInvariant == Spec => []EInv
<1>1. Init => EInv
  BY EInit
<1>2. EInv /\ [Next]_<<given, vars>> => EInv'
  BY StepKeeps
<1> QED
  BY <1>1, <1>2, PTL DEF Spec

\* Every queue, stream and flag of the front end has its type.
THEOREM FrontEndTypeCorrect == Spec => []TypeOK
<1>1. EInv => TypeOK
  BY DEF EInv
<1> QED
  BY <1>1, FrontEndInvariant, PTL

\* No consumer is left at a closed stream without an end, and none gets two:
\* for any number of calls, also those that share an id, and when steps fail.
THEOREM StreamsAreWellFormed == Spec => []StreamsEndOnce
<1>1. EInv => StreamsEndOnce
  <2> SUFFICES ASSUME EInv, NEW c \in Call
               PROVE  /\ \A i \in DOMAIN box[c] : box[c][i] = "stop" => i = Len(box[c])
                      /\ \A i \in DOMAIN box[c] :
                            box[c][i] \in {"final", "error"} => i + 1 \in DOMAIN box[c]
                      /\ client[c] = "listening" /\ closed[c] => box[c] # <<>>
    BY DEF StreamsEndOnce
  <2>1. /\ ~closed[c] => \A i \in DOMAIN box[c] : box[c][i] = "output"
        /\ closed[c] /\ box[c] # <<>> => box[c][Len(box[c])] = "stop"
        /\ \A i \in DOMAIN box[c] : box[c][i] = "stop" => i = Len(box[c])
    BY DEF EInv, StopsLast
  <2>2. ASSUME NEW i \in DOMAIN box[c], box[c][i] \in {"final", "error"}
        PROVE  i + 1 \in DOMAIN box[c]
    <3>1. box[c] \in Seq(Items)
      BY DEF EInv, TypeOK
    <3>2. i \in 1 .. Len(box[c]) /\ Len(box[c]) \in Nat
      BY <2>2, <3>1
    <3>3. i # Len(box[c])
      BY <2>1, <2>2, <3>2
    <3> QED
      BY <3>1, <3>2, <3>3
  <2>3. client[c] = "listening" /\ closed[c] => box[c] # <<>>
    BY DEF EInv, Heard
  <2> QED
    BY <2>1, <2>2, <2>3
<1> QED
  BY <1>1, FrontEndInvariant, PTL

\* An engine that has failed leaves no consumer of a registered stream waiting.
THEOREM DeadEngineReleasesConsumers == Spec => []DeadEngineClosesStreams
<1>1. EInv => DeadEngineClosesStreams
  BY DEF EInv
<1> QED
  BY <1>1, FrontEndInvariant, PTL

-----------------------------------------------------------------------------
(* Streams and engine agree, when ids differ and no step fails.              *)

\* Nothing fails then, and what is said of streams and engine carries over
\* from step to step because a stream knows the id it is registered under.
Agree ==
    /\ ~callback /\ ~errored
    /\ ~Running => engine = {} /\ DOMAIN streams = {}
    /\ \A id \in DOMAIN streams : idOf[streams[id]] = id
    /\ \A id \in DOMAIN streams : streams[id] \in engine \/ id \in finQ
    /\ \A c \in engine : Registered(c) /\ streams[idOf[c]] = c
    /\ loop = "executing" => batch \subseteq engine

SInv == EInv /\ (IdsDiffer /\ reliable => Agree)

\* Most steps leave streams and engine alone.
LEMMA AgreeStays ==
    ASSUME Agree, UNCHANGED <<idOf, streams, engine, callback, errored>>,
           finQ \subseteq finQ',
           Running' = Running,
           loop' = "executing" => loop = "executing" /\ batch' = batch
    PROVE  Agree'
BY DEF Agree, Registered

\* Clients leave the streams and the engine in agreement.
LEMMA ClientAgrees ==
    ASSUME EInv, Agree, UNCHANGED given, NEW c \in Call,
           Generate(c) \/ Submit(c) \/ SubmitRefused(c) \/ Receive(c) \/ Cancel(c)
               \/ Abort(c) \/ Score(c)
    PROVE  Agree'
<1>1. CASE Generate(c) /\ ~Running
  <2>1. /\ streams' = NoStreams /\ loop' = "top"
        /\ UNCHANGED <<callback, errored, engine>>
    BY <1>1 DEF Generate, Agree, engineVars
  <2>2. DOMAIN streams' = {} /\ engine' = {}
    BY <1>1, <2>1 DEF NoStreams, Agree
  <2> QED
    BY <2>1, <2>2 DEF Agree, Running
<1>2. CASE Generate(c) /\ Running
  BY <1>2, AgreeStays DEF Generate, trackerVars, loopVars, engineVars, given, Running
<1>3. CASE Submit(c)
  BY <1>3, AgreeStays DEF Submit, loopVars, engineVars, given, Running
<1>4. CASE SubmitRefused(c) \/ Cancel(c) \/ Abort(c)
  BY <1>4, AgreeStays DEF SubmitRefused, Cancel, Abort, AbortRequest, loopVars,
                          engineVars, given, Running
<1>5. CASE Receive(c)
  <2>1. finQ \subseteq finQ'
    BY <1>5 DEF Receive
  <2> QED
    BY <1>5, <2>1, AgreeStays DEF Receive, loopVars, engineVars, given, Running
<1>6. CASE Score(c)
  BY <1>6, AgreeStays DEF Score, trackerVars, loopVars, given, Running
<1> QED
  BY <1>1, <1>2, <1>3, <1>4, <1>5, <1>6

\* So does the return of an engine step.
LEMMA ReturnAgrees ==
    ASSUME EInv, Agree, UNCHANGED given, EngineStepReturns PROVE Agree'
<1>1. PICK last \in Ends : Computed(last) /\ Deliver(batch, last)
  BY DEF EngineStepReturns
<1>2. /\ finQ' = finQ \union {idOf[c] : c \in last} /\ engine' = engine \ last
      /\ UNCHANGED streams
  BY <1>1 DEF Computed, Deliver, Ends
<1>3. loop' = "top" /\ UNCHANGED <<callback, errored, idOf>>
  BY DEF EngineStepReturns, given
<1>4. \A id \in DOMAIN streams : streams[id] \in engine' \/ id \in finQ'
  BY <1>2 DEF Agree
<1> QED
  BY <1>2, <1>3, <1>4 DEF Agree, Registered, Running

\* Of each aborted id, with ids that differ, its one request leaves.
LEMMA GoneFacts ==
    ASSUME IdsDiffer, NEW E, E \subseteq Call, NEW ids, NEW G \in OnePerId(E, ids)
    PROVE  G = {c \in E : idOf[c] \in ids}
<1>1. /\ G \subseteq {c \in E : idOf[c] \in ids}
      /\ \A id \in ids : Cardinality({c \in G : idOf[c] = id}) =
             IF \E c \in E : idOf[c] = id THEN 1 ELSE 0
  BY DEF OnePerId
<1>2. ASSUME NEW c \in E, idOf[c] \in ids, c \notin G PROVE FALSE
  <2>1. Cardinality({d \in G : idOf[d] = idOf[c]}) = 1
    BY <1>1, <1>2
  <2>2. {d \in G : idOf[d] = idOf[c]} = {}
    BY <1>1, <1>2 DEF IdsDiffer
  <2> QED
    BY <2>1, <2>2, FS_EmptySet
<1> QED
  BY <1>1, <1>2

\* With different ids, so does the start of one.
LEMMA EngineStepAgrees ==
    ASSUME EInv, IdsDiffer, Agree, UNCHANGED given, EngineStep PROVE Agree'
<1> DEFINE taken == {newQ[i] : i \in DOMAIN newQ}
           stillborn == {c \in taken : idOf[c] \in finQ}
           adopted == taken \ stillborn
           ids == {idOf[c] : c \in adopted}
           Latest(id) == newQ[CHOOSE i \in DOMAIN newQ :
                               /\ idOf[newQ[i]] = id
                               /\ \A j \in DOMAIN newQ :
                                     idOf[newQ[j]] = id => j <= i]
<1>1. PICK refused \in SUBSET (adopted \intersect Refusable) :
          LET added == engine \union (adopted \ refused)
          IN /\ streams' = [id \in (DOMAIN streams \ finQ) \union ids |->
                               IF id \in ids THEN Latest(id) ELSE streams[id]]
             /\ finQ' = {idOf[c] : c \in refused}
             /\ \E gone \in OnePerId(added, finQ) : engine' = added \ gone
             /\ batch' \in SUBSET Eligible(engine')
             /\ loop' = IF batch' = {} THEN "top" ELSE "executing"
  BY DEF EngineStep
<1> DEFINE added == engine \union (adopted \ refused)
<1>2. /\ streams' = [id \in (DOMAIN streams \ finQ) \union ids |->
                       IF id \in ids THEN Latest(id) ELSE streams[id]]
      /\ finQ' = {idOf[c] : c \in refused}
      /\ \E gone \in OnePerId(added, finQ) : engine' = added \ gone
      /\ batch' \subseteq Eligible(engine')
      /\ loop' \in {"top", "executing"}
      /\ UNCHANGED <<callback, errored, idOf>>
  BY <1>1 DEF EngineStep, given
<1>3. taken \subseteq Call /\ engine \subseteq Call
  BY DEF EInv, TypeOK
\* With different ids the last stream of an id is the only one.
<1>4. ASSUME NEW c \in adopted PROVE Latest(idOf[c]) = c
  <2>1. newQ \in Seq(Call) /\ \E i \in DOMAIN newQ : idOf[newQ[i]] = idOf[c]
    BY DEF EInv, TypeOK
  <2>2. \E i \in DOMAIN newQ :
            /\ idOf[newQ[i]] = idOf[c]
            /\ \A j \in DOMAIN newQ : idOf[newQ[j]] = idOf[c] => j <= i
    BY <2>1, LastFacts
  <2>3. Latest(idOf[c]) \in taken /\ idOf[Latest(idOf[c])] = idOf[c]
    BY <2>2
  <2> HIDE DEF Latest
  <2>4. c \in taken
    OBVIOUS
  <2> HIDE DEF taken, adopted
  <2> QED
    BY <1>3, <2>3, <2>4 DEF IdsDiffer
<1>5. /\ adopted \subseteq Call /\ refused \subseteq adopted
      /\ \A c \in adopted : idOf[c] \notin finQ
  BY <1>3
<1> HIDE DEF Latest, taken, stillborn, adopted
<1>6. engine' = {c \in added : idOf[c] \notin finQ}
  <2>1. added \subseteq Call
    BY <1>3, <1>5
  <2> HIDE DEF added
  <2>2. PICK gone \in OnePerId(added, finQ) : engine' = added \ gone
    BY <1>2
  <2>3. gone = {c \in added : idOf[c] \in finQ}
    BY <2>1, <2>2, GoneFacts
  <2> QED
    BY <2>2, <2>3
<1>7. DOMAIN streams' = (DOMAIN streams \ finQ) \union ids
  BY <1>2
<1>8. ASSUME NEW id \in DOMAIN streams'
      PROVE  idOf'[streams'[id]] = id /\ (streams'[id] \in engine' \/ id \in finQ')
  <2>1. CASE id \in ids
    <3>1. PICK c \in adopted : id = idOf[c]
      BY <2>1
    <3>2. streams'[id] = c
      BY <1>2, <1>4, <1>7, <2>1, <3>1
    <3>3. c \in refused \/ c \in engine'
      BY <1>5, <1>6, <3>1
    <3> QED
      BY <1>2, <3>1, <3>2, <3>3
  <2>2. CASE id \notin ids
    <3>1. streams'[id] = streams[id] /\ id \in DOMAIN streams /\ id \notin finQ
      BY <1>2, <1>7, <2>2
    <3>2. streams[id] \in engine /\ idOf[streams[id]] = id
      BY <3>1 DEF Agree
    <3> QED
      BY <1>2, <1>6, <3>1, <3>2
  <2> QED
    BY <2>1, <2>2
<1>9. ASSUME NEW c \in engine'
      PROVE  idOf'[c] \in DOMAIN streams' /\ streams'[idOf'[c]] = c
  <2>1. c \in added /\ idOf[c] \notin finQ /\ c \in Call
    BY <1>3, <1>5, <1>6
  <2>2. CASE c \in adopted
    BY <1>2, <1>4, <1>7, <2>2
  <2>3. CASE c \notin adopted
    <3>1. idOf[c] \in DOMAIN streams /\ streams[idOf[c]] = c
      BY <2>1, <2>3 DEF Agree, Registered
    <3>2. idOf[c] \notin ids
      BY <1>5, <2>1, <2>3 DEF IdsDiffer
    <3> QED
      BY <1>2, <1>7, <2>1, <3>1, <3>2
  <2> QED
    BY <2>2, <2>3
<1>10. batch' \subseteq engine'
  BY <1>2 DEF Eligible
<1> QED
  BY <1>2, <1>8, <1>9, <1>10 DEF Agree, Registered, Running

\* So does the loop, if no step fails.
LEMMA LoopAgrees ==
    ASSUME EInv, IdsDiffer, reliable, Agree, UNCHANGED given, LoopStep
    PROVE  Agree'
<1>1. CASE NextIteration \/ GotNewRequests
  <2>1. /\ loop \in {"top", "waiting"} /\ loop' \in {"step", "waiting"}
        /\ UNCHANGED <<idOf, streams, engine, callback, errored, finQ>>
    BY <1>1 DEF NextIteration, GotNewRequests, engineVars, given
  <2> QED
    BY <2>1, AgreeStays DEF Running
<1>2. ~OutputWithoutStream /\ ~StepFails /\ ~ErrorCallback
  BY DEF OutputWithoutStream, StepFails, ErrorCallback, Agree
<1> QED
  BY <1>1, <1>2, EngineStepAgrees, ReturnAgrees DEF LoopStep

\* Streams and engine agree after every step.
LEMMA SInvStep == ASSUME SInv, [Next]_<<given, vars>> PROVE SInv'
<1>1. EInv' /\ UNCHANGED given
  BY StepKeeps DEF SInv, Next
<1>2. (IdsDiffer /\ reliable)' = (IdsDiffer /\ reliable)
  BY <1>1 DEF IdsDiffer, given
<1>3. ASSUME IdsDiffer, reliable, Agree PROVE Agree'
  <2>1. CASE UNCHANGED vars
    BY <1>1, <1>3, <2>1, AgreeStays DEF vars, trackerVars, loopVars, engineVars,
                                        given, Running
  <2>2. ASSUME NEW c \in Call,
               Generate(c) \/ ClientStep(c) \/ Cancel(c) \/ Abort(c) \/ Score(c)
        PROVE  Agree'
    BY <1>1, <1>3, <2>2, ClientAgrees DEF SInv, ClientStep
  <2>3. CASE LoopStep
    BY <1>1, <1>3, <2>3, LoopAgrees DEF SInv
  <2> QED
    BY <2>1, <2>2, <2>3 DEF Next
<1> QED
  BY <1>1, <1>2, <1>3 DEF SInv

\* With ids that differ and steps that do not fail, the engine computes for the
\* streams that are registered and for nobody else, whatever clients do.
THEOREM StreamsAgreeWithEngine == Spec => []StreamsMatchEngine
<1>1. Init => SInv
  <2> SUFFICES ASSUME Init PROVE SInv
    OBVIOUS
  <2>1. DOMAIN streams = {}
    BY DEF Init, NoStreams
  <2> QED
    BY <2>1, EInit DEF Init, SInv, Agree, Running
<1>2. SInv /\ [Next]_<<given, vars>> => SInv'
  BY SInvStep
<1>3. SInv => StreamsMatchEngine
  BY DEF SInv, Agree, StreamsMatchEngine
<1> QED
  BY <1>1, <1>2, <1>3, PTL DEF Spec

-----------------------------------------------------------------------------
(* The allocator's state against who holds its blocks: C, the entries of the *)
(* tables that hold each block; N, the hash of an entry, if it has one; P,   *)
(* the tokens up to the end of an entry's block, if it has any.              *)

Entry == Table \X (Nat \ {0})
Record == [hash : Seq(Token) \ {<<>>}, id : Block]

MemoryOK(m) ==
    m \in [free : SUBSET Block, refs : [Block -> Nat], cached : SUBSET Record,
           unused : Seq(Record), failure : {"no", "NoFreeBlocks", "AssertionError"}]

Spare(m) == Cardinality(m.free) + Len(m.unused)
Unused(m, b) == \E i \in DOMAIN m.unused : m.unused[i].id = b

\* A block's count is the number of its holders.
Counted(m, C) ==
    \A b \in Block : IsFiniteSet(C[b]) /\ m.refs[b] = Cardinality(C[b])

\* Nobody holds a block exactly if it is free or unused, never both.
Pooled(m) ==
    \A b \in Block :
        /\ m.refs[b] = 0 <=> b \in m.free \/ Unused(m, b)
        /\ ~(b \in m.free /\ Unused(m, b))

\* No two records of a list have a hash or a block in common, and a hash leads
\* to one block.
Keyed(m) ==
    /\ \A i, j \in DOMAIN m.unused :
          i # j => m.unused[i].hash # m.unused[j].hash /\ m.unused[i].id # m.unused[j].id
    /\ \A x, y \in m.cached : x.hash = y.hash => x = y

\* A block that is found by a hash and that nobody holds is unused under it.
Kept(m) == \A x \in m.cached : m.refs[x.id] = 0 => x \in ToSet(m.unused)

\* Whoever holds a block that a hash finds has that hash.
Named(m, C, N) == \A x \in m.cached : \A e \in C[x.id] : N[e] = x.hash

\* The holders of a block have it at the same place, after the same tokens.
Agreed(C, P) == \A b \in Block : \A e, f \in C[b] : e[2] = f[2] /\ P[e] = P[f]

Consistent(m, C, N, P) ==
    /\ MemoryOK(m) /\ m.failure = "no"
    /\ C \in [Block -> SUBSET Entry]
    /\ Counted(m, C) /\ Pooled(m) /\ Keyed(m) /\ Kept(m)
    /\ Named(m, C, N) /\ Agreed(C, P)

\* The same of tables B, which may have hashes if k.
Full(t, i) == \A j \in 1 .. i : Len(t[j].toks) = PerBlock
Prefix(t, i) == Tokens(SubSeq(t, 1, i))

Held(B) ==
    [b \in Block |->
        UNION {{<<t, i>> : i \in {i \in DOMAIN B[t] : B[t][i].id = b}} : t \in Table}]
Names(k, B) ==
    [e \in Entry |-> IF e[2] \in DOMAIN B[e[1]] /\ k /\ Full(B[e[1]], e[2])
                     THEN Prefix(B[e[1]], e[2]) ELSE <<>>]
Contents(B) ==
    [e \in Entry |-> IF e[2] \in DOMAIN B[e[1]] /\ B[e[1]][e[2]].toks # <<>>
                     THEN Prefix(B[e[1]], e[2]) ELSE <<>>]

\* A table is filled from the front.
Shaped(t) ==
    /\ t \in Seq(Slot)
    /\ \A i \in DOMAIN t : Len(t[i].toks) <= PerBlock
    /\ \A i, j \in DOMAIN t : i < j /\ t[j].toks # <<>> => Len(t[i].toks) = PerBlock

Good(k, m, B) ==
    /\ B \in [Table -> Seq(Slot)] /\ \A t \in Table : Shaped(B[t])
    /\ Consistent(m, Held(B), Names(k, B), Contents(B))

\* The inductive invariant.
VInv ==
    /\ V2TypeOK /\ MemoryOK(Memory)
    /\ failure # "NoFreeBlocks"
    /\ failure = "no" => Good(caching, Memory, blocks)

-----------------------------------------------------------------------------
(* What the allocator's operations do to a consistent state                  *)

\* A block's count is zero without holders, and one with a single holder.
LEMMA HeldCounts ==
    ASSUME NEW m, NEW C, NEW N, NEW P, Consistent(m, C, N, P), NEW b \in Block
    PROVE  /\ m.refs[b] \in Nat /\ IsFiniteSet(C[b]) /\ C[b] \subseteq Entry
           /\ m.refs[b] = 0 <=> C[b] = {}
           /\ m.refs[b] = 1 => \A e \in C[b] : C[b] = {e}
<1>1. /\ m.refs[b] \in Nat /\ IsFiniteSet(C[b]) /\ C[b] \subseteq Entry
      /\ m.refs[b] = Cardinality(C[b])
  BY DEF Consistent, Counted, MemoryOK
<1>2. m.refs[b] = 0 <=> C[b] = {}
  BY <1>1, FS_EmptySet, Zenon
<1>3. ASSUME m.refs[b] = 1, NEW e \in C[b] PROVE C[b] = {e}
  <2>1. PICK x : C[b] = {x}
    BY <1>1, <1>3, FS_Singleton
  <2> QED
    BY <2>1
<1> QED
  BY <1>1, <1>2, <1>3

\* The memory n after the last step, and the holders D: the parts that make
\* them consistent again, when a block b has one holder more or less.
Altered(m, C, P, n, D, b) ==
    /\ D \in [Block -> SUBSET Entry] /\ \A c \in Block \ {b} : D[c] = C[c]
    /\ IsFiniteSet(D[b]) /\ n.refs[b] = Cardinality(D[b])
    /\ \A c \in Block \ {b} :
          /\ n.refs[c] = m.refs[c]
          /\ c \in n.free <=> c \in m.free
          /\ Unused(n, c) <=> Unused(m, c)
    /\ n.refs[b] = 0 <=> b \in n.free \/ Unused(n, b)
    /\ ~(b \in n.free /\ Unused(n, b))
    /\ \A e, f \in D[b] : e[2] = f[2] /\ P[e] = P[f]

\* After a change to one block, it remains to show what hashes mean.
LEMMA ConsistentAgain ==
    ASSUME NEW m, NEW C, NEW N, NEW P, Consistent(m, C, N, P),
           NEW n, NEW D, NEW b \in Block, Altered(m, C, P, n, D, b),
           MemoryOK(n), n.failure = "no", Keyed(n), Kept(n), Named(n, D, N)
    PROVE  Consistent(n, D, N, P)
<1>1. Counted(n, D)
  <2>1. ASSUME NEW c \in Block PROVE IsFiniteSet(D[c]) /\ n.refs[c] = Cardinality(D[c])
    <3>1. CASE c = b
      BY <3>1 DEF Altered
    <3>2. CASE c # b
      <4>1. IsFiniteSet(C[c]) /\ m.refs[c] = Cardinality(C[c])
        BY DEF Consistent, Counted
      <4> QED
        BY <3>2, <4>1 DEF Altered
    <3> QED
      BY <3>1, <3>2
  <2> QED
    BY <2>1 DEF Counted
<1>2. Pooled(n)
  <2>1. ASSUME NEW c \in Block
        PROVE  /\ n.refs[c] = 0 <=> c \in n.free \/ Unused(n, c)
               /\ ~(c \in n.free /\ Unused(n, c))
    <3>1. CASE c = b
      BY <3>1 DEF Altered
    <3>2. CASE c # b
      <4>1. /\ m.refs[c] = 0 <=> c \in m.free \/ Unused(m, c)
            /\ ~(c \in m.free /\ Unused(m, c))
        BY DEF Consistent, Pooled
      <4>2. n.refs[c] = m.refs[c] /\ (c \in n.free <=> c \in m.free) /\ (Unused(n, c) <=> Unused(m, c))
        BY <3>2 DEF Altered
      <4> QED
        BY <4>1, <4>2
    <3> QED
      BY <3>1, <3>2
  <2> QED
    BY <2>1 DEF Pooled
<1>3. Agreed(D, P)
  <2>1. ASSUME NEW c \in Block, NEW e \in D[c], NEW f \in D[c]
        PROVE  e[2] = f[2] /\ P[e] = P[f]
    <3>1. CASE c = b
      BY <3>1 DEF Altered
    <3>2. CASE c # b
      BY <3>2 DEF Consistent, Agreed, Altered
    <3> QED
      BY <3>1, <3>2
  <2> QED
    BY <2>1 DEF Agreed
<1> QED
  BY <1>1, <1>2, <1>3 DEF Consistent, Altered

GaveBack(m, C, N, P, b, e, n) ==
    /\ MemoryOK(n) /\ n.failure \in {"no", "AssertionError"}
    /\ n.failure = "no" =>
          /\ Consistent(n, [C EXCEPT ![b] = @ \ {e}], N, P)
          /\ n.cached = m.cached
          /\ Spare(n) = Spare(m) + (IF m.refs[b] = 1 THEN 1 ELSE 0)

\* A holder gives a block back, under its hash if it is the last.
LEMMA GiveBackKeeps ==
    ASSUME NEW m, NEW C, NEW N, NEW P, Consistent(m, C, N, P),
           NEW b \in Block, NEW e \in C[b], NEW h \in Seq(Token),
           m.refs[b] > 1 \/ h = N[e]
    PROVE  GaveBack(m, C, N, P, b, e, GiveBack(m, b, h))
<1> DEFINE n == GiveBack(m, b, h)
           D == [C EXCEPT ![b] = @ \ {e}]
<1>1. /\ m.refs[b] \in Nat \ {0} /\ IsFiniteSet(C[b]) /\ m.refs[b] = Cardinality(C[b])
      /\ C \in [Block -> SUBSET Entry]
  BY HeldCounts DEF Consistent, Counted
<1>2. /\ D \in [Block -> SUBSET Entry] /\ D[b] = C[b] \ {e}
      /\ \A c \in Block \ {b} : D[c] = C[c]
      /\ \A c \in Block : D[c] \subseteq C[c]
  BY <1>1
<1>3. IsFiniteSet(D[b]) /\ Cardinality(D[b]) = m.refs[b] - 1
  BY <1>1, <1>2, FS_RemoveElement
<1>4. /\ MemoryOK(m) /\ m.failure = "no" /\ Keyed(m) /\ Kept(m) /\ Named(m, C, N)
      /\ Agreed(C, P) /\ b \notin m.free /\ ~Unused(m, b)
  BY <1>1 DEF Consistent, Pooled
<1>5. \A f, g \in D[b] : f[2] = g[2] /\ P[f] = P[g]
  BY <1>2, <1>4 DEF Agreed
<1>6. /\ m.free \in SUBSET Block /\ m.refs \in [Block -> Nat] /\ m.cached \in SUBSET Record
      /\ m.unused \in Seq(Record) /\ IsFiniteSet(m.free)
  BY <1>4, V2Assumption, FS_Subset DEF MemoryOK
<1>7. \A x \in m.cached : \A f \in D[x.id] : N[f] = x.hash
  <2>1. \A x \in m.cached : x.id \in Block
    BY <1>6 DEF Record
  <2> QED
    BY <1>2, <1>4, <2>1 DEF Named
<1> HIDE DEF D
<1>8. CASE m.refs[b] > 1
  <2>1. n = [m EXCEPT !.refs[b] = @ - 1]
    BY <1>8 DEF GiveBack
  <2>2. /\ n.free = m.free /\ n.unused = m.unused /\ n.cached = m.cached /\ n.failure = "no"
        /\ n.refs = [m.refs EXCEPT ![b] = @ - 1] /\ MemoryOK(n)
    <3>1. [m.refs EXCEPT ![b] = @ - 1] \in [Block -> Nat]
      BY <1>1, <1>6
    <3> HIDE DEF n
    <3> QED
      BY <1>4, <2>1, <3>1 DEF MemoryOK
  <2> HIDE DEF n
  <2>3. /\ n.refs[b] = m.refs[b] - 1 /\ \A c \in Block \ {b} : n.refs[c] = m.refs[c]
        /\ n.refs[b] # 0
    BY <1>1, <1>6, <1>8, <2>2
  <2>4. \A c \in Block : Unused(n, c) <=> Unused(m, c)
    BY <2>2 DEF Unused
  <2>5. Keyed(n) /\ Named(n, D, N)
    BY <1>4, <1>7, <2>2 DEF Keyed, Named
  <2>6. Kept(n)
    <3>1. ASSUME NEW x \in n.cached, n.refs[x.id] = 0 PROVE x \in ToSet(n.unused)
      <4>1. x.id \in Block /\ x.id # b
        BY <1>6, <2>2, <2>3, <3>1 DEF Record
      <4> QED
        BY <1>4, <2>2, <2>3, <3>1, <4>1 DEF Kept
    <3> QED
      BY <3>1 DEF Kept
  <2>7. Consistent(n, D, N, P)
    <3>1. Altered(m, C, P, n, D, b)
      BY <1>1, <1>2, <1>3, <1>4, <1>5, <2>2, <2>3, <2>4 DEF Altered
    <3> QED
      BY <2>2, <2>5, <2>6, <3>1, ConsistentAgain
  <2>8. Spare(n) = Spare(m)
    BY <2>2 DEF Spare
  <2>9. Spare(m) \in Int
    BY <1>6, FS_CardinalityType, LenProperties DEF Spare
  <2> QED
    BY <1>8, <2>2, <2>7, <2>8, <2>9 DEF GaveBack, D, n
<1>9. CASE m.refs[b] = 1 /\ h = <<>>
  <2>1. n = [m EXCEPT !.refs[b] = @ - 1, !.free = @ \union {b}]
    BY <1>9 DEF GiveBack
  <2>2. /\ n.free = m.free \union {b} /\ n.unused = m.unused /\ n.cached = m.cached
        /\ n.failure = "no" /\ n.refs = [m.refs EXCEPT ![b] = @ - 1] /\ MemoryOK(n)
    <3>1. [m.refs EXCEPT ![b] = @ - 1] \in [Block -> Nat]
      BY <1>1, <1>6
    <3> HIDE DEF n
    <3> QED
      BY <1>4, <1>6, <2>1, <3>1 DEF MemoryOK
  <2> HIDE DEF n
  <2>3. n.refs[b] = 0 /\ \A c \in Block \ {b} : n.refs[c] = m.refs[c]
    BY <1>1, <1>6, <1>9, <2>2
  <2>4. \A c \in Block : Unused(n, c) <=> Unused(m, c)
    BY <2>2 DEF Unused
  <2>5. Keyed(n) /\ Named(n, D, N)
    BY <1>4, <1>7, <2>2 DEF Keyed, Named
  <2>6. Kept(n)
    <3>1. ASSUME NEW x \in n.cached, n.refs[x.id] = 0 PROVE x \in ToSet(n.unused)
      <4>1. x.id \in Block /\ x.hash # <<>>
        BY <1>6, <2>2 DEF Record
      <4>2. x.id # b
        BY <1>4, <1>9, <2>2, <4>1 DEF Named
      <4> QED
        BY <1>4, <2>2, <2>3, <3>1, <4>1, <4>2 DEF Kept
    <3> QED
      BY <3>1 DEF Kept
  <2>7. Consistent(n, D, N, P)
    <3>1. Altered(m, C, P, n, D, b)
      BY <1>1, <1>2, <1>3, <1>4, <1>5, <1>9, <2>2, <2>3, <2>4 DEF Altered
    <3> QED
      BY <2>2, <2>5, <2>6, <3>1, ConsistentAgain
  <2>8. Spare(n) = Spare(m) + 1
    <3>1. Cardinality(n.free) = Cardinality(m.free) + 1
      BY <1>4, <1>6, <2>2, FS_AddElement
    <3>2. Cardinality(m.free) \in Nat /\ Len(m.unused) \in Nat
      BY <1>6, FS_CardinalityType, LenProperties
    <3> QED
      BY <2>2, <3>1, <3>2 DEF Spare
  <2> QED
    BY <1>9, <2>2, <2>7, <2>8 DEF GaveBack, D, n
<1>10. CASE m.refs[b] = 1 /\ h # <<>>
  <2> DEFINE x == [hash |-> h, id |-> b]
             a == [m EXCEPT !.refs[b] = @ - 1, !.unused = Append(@, x)]
             ok == h \notin Hashes(ToSet(m.unused)) /\ h \in Hashes(m.cached)
  <2>1. n = Asserted(a, ok)
    BY <1>10 DEF GiveBack
  <2>2. x \in Record
    BY <1>10 DEF Record
  <2>3. /\ a.free = m.free /\ a.unused = Append(m.unused, x) /\ a.cached = m.cached
        /\ a.failure = "no" /\ a.refs = [m.refs EXCEPT ![b] = @ - 1]
    BY <1>4 DEF MemoryOK
  <2>4. MemoryOK(a)
    <3>1. Append(m.unused, x) \in Seq(Record)
      BY <1>6, <2>2, AppendProperties
    <3>2. [m.refs EXCEPT ![b] = @ - 1] \in [Block -> Nat]
      BY <1>1, <1>6
    <3> HIDE DEF x
    <3> QED
      BY <1>4, <1>6, <3>1, <3>2 DEF MemoryOK
  <2> HIDE DEF n, a
  <2>5. CASE ~ok
    <3>1. n = [a EXCEPT !.failure = "AssertionError"]
      BY <2>1, <2>5 DEF Asserted, Fail
    <3>2. MemoryOK(n) /\ n.failure = "AssertionError"
      BY <2>4, <3>1 DEF MemoryOK
    <3> QED
      BY <3>2 DEF GaveBack, n
  <2>6. CASE ok
    <3>1. n = a
      BY <2>1, <2>6 DEF Asserted
    <3>2. a.refs[b] = 0 /\ \A c \in Block \ {b} : a.refs[c] = m.refs[c]
      BY <1>1, <1>6, <1>10, <2>3
    <3>3. /\ DOMAIN a.unused = 1 .. Len(m.unused) + 1 /\ Len(m.unused) \in Nat
          /\ DOMAIN m.unused = 1 .. Len(m.unused)
          /\ \A i \in DOMAIN m.unused : a.unused[i] = m.unused[i]
          /\ a.unused[Len(m.unused) + 1] = x /\ Len(a.unused) = Len(m.unused) + 1
      BY <1>6, <2>2, <2>3, AppendProperties, LenProperties
    <3>4. \A c \in Block \ {b} : Unused(a, c) <=> Unused(m, c)
      <4>1. \A i \in DOMAIN a.unused : i \in DOMAIN m.unused \/ a.unused[i].id = b
        BY <3>3
      <4>2. \A i \in DOMAIN m.unused : i \in DOMAIN a.unused
        BY <3>3
      <4> QED
        BY <3>3, <4>1, <4>2 DEF Unused
    <3>5. Unused(a, b)
      BY <3>3 DEF Unused
    <3>6. Keyed(a)
      <4>1. \A i \in DOMAIN m.unused : m.unused[i].hash # h /\ m.unused[i].id # b
        BY <1>4, <2>6 DEF Unused, Hashes, ToSet
      <4>2. ASSUME NEW i \in DOMAIN a.unused, NEW j \in DOMAIN a.unused, i # j
            PROVE  a.unused[i].hash # a.unused[j].hash /\ a.unused[i].id # a.unused[j].id
        <5>1. CASE i \in DOMAIN m.unused /\ j \in DOMAIN m.unused
          <6>1. a.unused[i] = m.unused[i] /\ a.unused[j] = m.unused[j]
            BY <3>3, <5>1
          <6>2. m.unused[i].hash # m.unused[j].hash /\ m.unused[i].id # m.unused[j].id
            BY <1>4, <4>2, <5>1 DEF Keyed
          <6> QED
            BY <6>1, <6>2
        <5>2. CASE i = Len(m.unused) + 1
          <6>1. j \in DOMAIN m.unused
            BY <3>3, <4>2, <5>2
          <6> QED
            BY <3>3, <4>1, <5>2, <6>1
        <5>3. CASE j = Len(m.unused) + 1
          <6>1. i \in DOMAIN m.unused
            BY <3>3, <4>2, <5>3
          <6> QED
            BY <3>3, <4>1, <5>3, <6>1
        <5> QED
          BY <3>3, <5>1, <5>2, <5>3
      <4> QED
        BY <1>4, <2>3, <4>2 DEF Keyed
    <3>7. Kept(a)
      <4>1. ASSUME NEW y \in a.cached, a.refs[y.id] = 0 PROVE y \in ToSet(a.unused)
        <5>1. y \in Record /\ y.id \in Block
          BY <1>6, <2>3 DEF Record
        <5>2. CASE y.id = b
          <6>1. y.hash = h
            BY <1>4, <1>10, <2>3, <5>2 DEF Named
          <6>2. y = x
            BY <5>1, <5>2, <6>1 DEF Record
          <6> QED
            BY <3>3, <6>2 DEF ToSet
        <5>3. CASE y.id # b
          <6>1. y \in ToSet(m.unused)
            BY <1>4, <2>3, <3>2, <4>1, <5>1, <5>3 DEF Kept
          <6> QED
            BY <3>3, <6>1 DEF ToSet
        <5> QED
          BY <5>2, <5>3
      <4> QED
        BY <4>1 DEF Kept
    <3>8. Named(a, D, N)
      BY <1>7, <2>3 DEF Named
    <3>9. Consistent(a, D, N, P)
      <4>1. Altered(m, C, P, a, D, b)
        BY <1>1, <1>2, <1>3, <1>4, <1>5, <1>10, <2>3, <3>2, <3>4, <3>5 DEF Altered
      <4> QED
        BY <2>3, <2>4, <3>6, <3>7, <3>8, <4>1, ConsistentAgain
    <3>10. Spare(a) = Spare(m) + 1
      <4>1. Cardinality(m.free) \in Nat
        BY <1>6, FS_CardinalityType
      <4> QED
        BY <2>3, <3>3, <4>1 DEF Spare
    <3> QED
      BY <1>10, <2>3, <2>4, <3>1, <3>9, <3>10 DEF GaveBack, D, n
  <2> QED
    BY <2>5, <2>6
<1> QED
  BY <1>1, <1>8, <1>9, <1>10

\* A block can be taken exactly if one is spare.
LEMMA SpareIsNat ==
    ASSUME NEW m, MemoryOK(m)
    PROVE  /\ Spare(m) \in Nat /\ IsFiniteSet(m.free)
           /\ Cardinality(m.free) \in Nat /\ Len(m.unused) \in Nat
           /\ CanTake(m) <=> Spare(m) > 0
<1>1. /\ m.free \in SUBSET Block /\ m.unused \in Seq(Record) /\ IsFiniteSet(m.free)
  BY V2Assumption, FS_Subset DEF MemoryOK
<1>2. Cardinality(m.free) \in Nat /\ Len(m.unused) \in Nat
  BY <1>1, FS_CardinalityType, LenProperties
<1>3. m.free # {} <=> Cardinality(m.free) > 0
  BY <1>1, <1>2, FS_EmptySet
<1>4. m.unused # <<>> <=> Len(m.unused) > 0
  BY <1>1, <1>2, EmptySeq
<1> QED
  BY <1>1, <1>2, <1>3, <1>4 DEF Spare, CanTake

Took(m, C, N, P, e, n) ==
    /\ Taken(m) \in Block /\ C[Taken(m)] = {} /\ MemoryOK(n)
    /\ Consistent(n, [C EXCEPT ![Taken(m)] = {e}], N, P)
    /\ n.refs[Taken(m)] = 1
    /\ Spare(n) = Spare(m) - 1

\* What a table takes was nobody's, and no hash finds it any longer.
LEMMA TakeKeeps ==
    ASSUME NEW m, NEW C, NEW N, NEW P, Consistent(m, C, N, P), CanTake(m),
           NEW e \in Entry
    PROVE  Took(m, C, N, P, e, Take(m))
<1> DEFINE b == Taken(m)
           n == Take(m)
           D == [C EXCEPT ![b] = {e}]
<1>1. /\ m.free \in SUBSET Block /\ m.refs \in [Block -> Nat] /\ m.cached \in SUBSET Record
      /\ m.unused \in Seq(Record) /\ m.failure = "no"
      /\ m \in [free : SUBSET Block, refs : [Block -> Nat], cached : SUBSET Record,
           unused : Seq(Record), failure : {"no", "NoFreeBlocks", "AssertionError"}]
  BY DEF Consistent, MemoryOK
<1>2. /\ Keyed(m) /\ Kept(m) /\ Named(m, C, N) /\ Pooled(m)
      /\ C \in [Block -> SUBSET Entry]
  BY DEF Consistent
<1>3. /\ IsFiniteSet(m.free) /\ Cardinality(m.free) \in Nat /\ Len(m.unused) \in Nat
  BY SpareIsNat DEF Consistent
<1>4. ASSUME NEW x \in m.cached PROVE x.id \in Block /\ x.hash # <<>>
  BY <1>1 DEF Record
<1>5. CASE m.free # {}
  <2>1. b \in m.free
    BY <1>5 DEF Taken
  <2>2. n = [m EXCEPT !.free = @ \ {b}, !.refs[b] = @ + 1]
    BY <1>5 DEF Take
  <2> HIDE DEF b, n
  <2>3. b \in Block /\ m.refs[b] = 0 /\ ~Unused(m, b)
    BY <1>1, <1>2, <2>1 DEF Pooled
  <2>4. C[b] = {}
    BY <2>3, HeldCounts
  <2>5. /\ n.free = m.free \ {b} /\ n.unused = m.unused /\ n.cached = m.cached
        /\ n.failure = "no" /\ n.refs = [m.refs EXCEPT ![b] = @ + 1] /\ MemoryOK(n)
    <3>1. [m.refs EXCEPT ![b] = @ + 1] \in [Block -> Nat]
      BY <1>1, <2>3
    <3> QED
      BY <1>1, <2>2, <3>1 DEF MemoryOK
  <2>6. n.refs[b] = 1 /\ \A c \in Block \ {b} : n.refs[c] = m.refs[c]
    BY <1>1, <2>3, <2>5
  <2>7. \A c \in Block : Unused(n, c) <=> Unused(m, c)
    BY <2>5 DEF Unused
  <2>8. /\ D \in [Block -> SUBSET Entry] /\ D[b] = {e}
        /\ \A c \in Block \ {b} : D[c] = C[c]
    BY <1>2, <2>3
  <2>9. IsFiniteSet(D[b]) /\ Cardinality(D[b]) = 1
    BY <2>8, FS_Singleton
  <2> HIDE DEF D
  <2>10. Altered(m, C, P, n, D, b)
    BY <2>3, <2>5, <2>6, <2>7, <2>8, <2>9 DEF Altered
  <2>11. ASSUME NEW x \in m.cached PROVE x.id # b
    BY <1>2, <1>4, <2>3, <2>11 DEF Kept, Unused, ToSet
  <2>12. Keyed(n) /\ Kept(n) /\ Named(n, D, N)
    <3>1. Keyed(n)
      BY <1>2, <2>5 DEF Keyed
    <3>2. Named(n, D, N)
      BY <1>2, <1>4, <2>5, <2>8, <2>11 DEF Named
    <3>3. Kept(n)
      BY <1>2, <1>4, <2>5, <2>6, <2>11 DEF Kept
    <3> QED
      BY <3>1, <3>2, <3>3
  <2>13. Consistent(n, D, N, P)
    BY <2>3, <2>5, <2>10, <2>12, ConsistentAgain
  <2>14. Spare(n) = Spare(m) - 1
    <3>1. Cardinality(n.free) = Cardinality(m.free) - 1
      BY <1>3, <2>1, <2>5, FS_RemoveElement
    <3> QED
      BY <1>3, <2>5, <3>1 DEF Spare
  <2> QED
    BY <2>3, <2>4, <2>5, <2>6, <2>13, <2>14 DEF Took, b, n, D
<1>6. CASE m.free = {}
  <2> DEFINE u == m.unused
             t == Tail(u)
  <2>1. u # <<>> /\ Len(u) > 0 /\ u \in Seq(Record) /\ Len(u) \in Nat
    BY <1>1, <1>3, <1>6, EmptySeq DEF CanTake
  <2>2. /\ 1 \in DOMAIN u /\ Head(u) = u[1] /\ u[1] \in Record /\ DOMAIN u = 1 .. Len(u)
        /\ t \in Seq(Record) /\ Len(t) = Len(u) - 1 /\ DOMAIN t = 1 .. Len(u) - 1
        /\ \A i \in 1 .. Len(u) - 1 : i + 1 \in DOMAIN u /\ t[i] = u[i + 1]
    BY <2>1
  <2>3. b = u[1].id
    BY <1>6, <2>2 DEF Taken
  <2>4. n = [m EXCEPT !.cached = {x \in @ : x.hash # u[1].hash}, !.unused = t, !.refs[b] = @ + 1]
    BY <1>6, <2>2 DEF Take
  <2> HIDE DEF b, n
  <2>5. b \in Block /\ Unused(m, b)
    BY <2>2, <2>3 DEF Record, Unused
  <2>6. m.refs[b] = 0 /\ C[b] = {}
    BY <1>2, <2>5, HeldCounts DEF Pooled
  <2>7. /\ n.free = m.free /\ n.unused = t
        /\ n.cached = {x \in m.cached : x.hash # u[1].hash}
        /\ n.failure = "no" /\ n.refs = [m.refs EXCEPT ![b] = @ + 1] /\ MemoryOK(n)
    <3>1. [m.refs EXCEPT ![b] = @ + 1] \in [Block -> Nat]
      BY <1>1, <2>5
    <3>2. {x \in m.cached : x.hash # u[1].hash} \in SUBSET Record
      BY <1>1
    <3>3. t \in Seq(Record)
      BY <2>2
    <3> HIDE DEF t, u
    <3> QED
      BY <1>1, <2>4, <3>1, <3>2, <3>3 DEF MemoryOK
  <2> HIDE DEF t
  <2>8. n.refs[b] = 1 /\ \A c \in Block \ {b} : n.refs[c] = m.refs[c]
    BY <1>1, <2>5, <2>6, <2>7
  <2>9. \A i, j \in DOMAIN u : i # j => u[i].hash # u[j].hash /\ u[i].id # u[j].id
    BY <1>2 DEF Keyed
  <2>10. \A i \in DOMAIN u : i = 1 \/ (i - 1 \in DOMAIN t /\ t[i - 1] = u[i])
    BY <2>1, <2>2
  <2>11. \A i \in DOMAIN t : i + 1 \in DOMAIN u /\ t[i] = u[i + 1] /\ i + 1 # 1
    BY <2>1, <2>2
  <2>12. ~Unused(n, b)
    <3>1. ASSUME NEW i \in DOMAIN t PROVE t[i].id # b
      <4>1. i + 1 \in DOMAIN u /\ t[i] = u[i + 1] /\ i + 1 # 1
        BY <2>11
      <4>2. 1 \in DOMAIN u /\ u[1].id = b
        BY <2>2, <2>3
      <4>3. u[i + 1].id # u[1].id
        BY <2>9, <4>1, <4>2
      <4> QED
        BY <4>1, <4>2, <4>3
    <3> QED
      BY <2>7, <3>1 DEF Unused
  <2>13. \A c \in Block \ {b} : Unused(n, c) <=> Unused(m, c)
    <3>1. ASSUME NEW c \in Block \ {b}, Unused(n, c) PROVE Unused(m, c)
      BY <2>7, <2>11, <3>1 DEF Unused
    <3>2. ASSUME NEW c \in Block \ {b}, Unused(m, c) PROVE Unused(n, c)
      BY <2>3, <2>7, <2>10, <3>2 DEF Unused
    <3> QED
      BY <3>1, <3>2
  <2>14. /\ D \in [Block -> SUBSET Entry] /\ D[b] = {e}
         /\ \A c \in Block \ {b} : D[c] = C[c]
    BY <1>2, <2>5
  <2>15. IsFiniteSet(D[b]) /\ Cardinality(D[b]) = 1
    BY <2>14, FS_Singleton
  <2> HIDE DEF D, u
  <2>16. Altered(m, C, P, n, D, b)
    BY <1>6, <2>7, <2>8, <2>12, <2>13, <2>14, <2>15 DEF Altered
  <2>17. ASSUME NEW x \in n.cached PROVE x \in m.cached /\ x.id \in Block /\ x.id # b
    <3>1. x \in m.cached /\ x.id \in Block /\ x.hash # u[1].hash
      BY <1>4, <2>7, <2>17
    <3>2. ASSUME x.id = b PROVE FALSE
      <4>1. x \in ToSet(m.unused)
        BY <1>2, <2>6, <3>1, <3>2 DEF Kept
      <4>2. PICK i \in DOMAIN u : x = u[i]
        BY <4>1 DEF ToSet, u
      <4>3. i = 1
        BY <2>2, <2>3, <2>9, <3>2, <4>2
      <4> QED
        BY <3>1, <4>2, <4>3
    <3> QED
      BY <3>1, <3>2
  <2>18. Keyed(n)
    <3>1. \A x, y \in n.cached : x.hash = y.hash => x = y
      BY <1>2, <2>17 DEF Keyed
    <3>2. ASSUME NEW i \in DOMAIN t, NEW j \in DOMAIN t, i # j
          PROVE  t[i].hash # t[j].hash /\ t[i].id # t[j].id
      <4>1. i + 1 # j + 1
        BY <2>1, <2>2, <3>2
      <4> QED
        BY <2>9, <2>11, <4>1
    <3> QED
      BY <2>7, <3>1, <3>2 DEF Keyed
  <2>19. Named(n, D, N)
    BY <1>2, <2>14, <2>17 DEF Named
  <2>20. Kept(n)
    <3>1. ASSUME NEW x \in n.cached, n.refs[x.id] = 0 PROVE x \in ToSet(n.unused)
      <4>1. x \in ToSet(m.unused)
        BY <1>2, <2>8, <2>17, <3>1 DEF Kept
      <4>2. PICK i \in DOMAIN u : x = u[i]
        BY <4>1 DEF ToSet, u
      <4>3. i # 1
        BY <2>3, <2>17, <4>2
      <4> QED
        BY <2>7, <2>10, <4>2, <4>3 DEF ToSet
    <3> QED
      BY <3>1 DEF Kept
  <2>21. Consistent(n, D, N, P)
    BY <2>5, <2>7, <2>16, <2>18, <2>19, <2>20, ConsistentAgain
  <2>22. Spare(n) = Spare(m) - 1
    BY <1>3, <2>2, <2>7 DEF Spare, u
  <2> QED
    BY <2>5, <2>6, <2>7, <2>8, <2>21, <2>22 DEF Took, b, n, D
<1> QED
  BY <1>5, <1>6

\* Without the record of a hash, the list is shorter by that one.
LEMMA DropFacts ==
    ASSUME NEW m, MemoryOK(m), Keyed(m), NEW x \in ToSet(m.unused)
    PROVE  /\ Drop(m, x.hash) \in Seq(Record)
           /\ IsInjective(Drop(m, x.hash))
           /\ ToSet(Drop(m, x.hash)) = ToSet(m.unused) \ {x}
           /\ Len(Drop(m, x.hash)) = Len(m.unused) - 1
<1> DEFINE u == m.unused
           q == [i \in DOMAIN u |-> IF u[i].hash = x.hash THEN <<>> ELSE <<u[i]>>]
           d == Drop(m, x.hash)
<1>1. u \in Seq(Record) /\ DOMAIN u = 1 .. Len(u) /\ Len(u) \in Nat
  BY LenProperties DEF MemoryOK
<1>2. \A i \in DOMAIN u : u[i] \in Record
  BY <1>1
<1>3. q \in Seq(Seq(Record)) /\ DOMAIN q = DOMAIN u
  <2>1. \A i \in DOMAIN u : q[i] \in Seq(Record)
    BY <1>2
  <2> QED
    BY <1>1, <2>1, IsASeq
<1>4. d = FlattenSeq(q)
  BY DEF Drop
<1>5. \A i, j \in DOMAIN u : i # j => u[i].hash # u[j].hash /\ u[i].id # u[j].id
  BY DEF Keyed
<1> HIDE DEF u
<1>6. /\ \A i \in DOMAIN u : u[i].hash = x.hash => q[i] = <<>>
      /\ \A i \in DOMAIN u : u[i].hash # x.hash => q[i] = <<u[i]>>
  OBVIOUS
<1> HIDE DEF q, d
<1>7. \A i \in DOMAIN q : ToSet(q[i]) = IF u[i].hash = x.hash THEN {} ELSE {u[i]}
  <2>1. \A y : ToSet(<<y>>) = {y}
    BY DEF ToSet
  <2>2. ToSet(<<>>) = {}
    BY EmptyElems
  <2> QED
    BY <1>3, <1>6, <2>1, <2>2
<1>8. OnceIn(q)
  <2>1. \A i \in DOMAIN q : IsInjective(q[i])
    <3>1. \A y : IsInjective(<<y>>)
      BY DEF IsInjective
    <3>2. IsInjective(<<>>)
      BY DEF IsInjective
    <3> QED
      BY <1>3, <1>6, <3>1, <3>2
  <2>2. \A i, j \in DOMAIN q : i # j => ToSet(q[i]) \intersect ToSet(q[j]) = {}
    BY <1>3, <1>5, <1>7
  <2> QED
    BY <2>1, <2>2 DEF OnceIn
<1>9. d \in Seq(Record) /\ ToSet(d) = UNION {ToSet(q[i]) : i \in DOMAIN q} /\ IsInjective(d)
  BY <1>3, <1>4, <1>8, FlattenFacts
<1>10. ToSet(d) = ToSet(u) \ {x}
  <2>1. PICK k \in DOMAIN u : x = u[k]
    BY DEF ToSet, u
  <2>2. \A i \in DOMAIN u : u[i].hash = x.hash <=> u[i] = x
    BY <1>5, <2>1
  <2>3. \A i \in DOMAIN u : ToSet(q[i]) = {u[i]} \ {x}
    <3>1. ASSUME NEW i \in DOMAIN u PROVE ToSet(q[i]) = {u[i]} \ {x}
      <4>1. ToSet(q[i]) = IF u[i].hash = x.hash THEN {} ELSE {u[i]}
        BY <1>3, <1>7
      <4>2. u[i].hash = x.hash <=> u[i] = x
        BY <2>2
      <4> QED
        BY <4>1, <4>2
    <3> QED
      BY <3>1
  <2>4. ToSet(d) = UNION {{u[i]} \ {x} : i \in DOMAIN u}
    BY <1>3, <1>9, <2>3
  <2> QED
    BY <2>4 DEF ToSet
<1>11. Len(d) = Len(u) - 1
  <2>1. IsInjective(u)
    BY <1>5 DEF IsInjective
  <2>2. /\ IsFiniteSet(ToSet(u)) /\ Cardinality(ToSet(u)) = Len(u)
        /\ Cardinality(ToSet(d)) = Len(d)
    BY <1>1, <1>9, <2>1, LengthOfOnce
  <2>3. x \in ToSet(u)
    BY DEF u
  <2>4. Cardinality(ToSet(u) \ {x}) = Cardinality(ToSet(u)) - 1
    BY <2>2, <2>3, FS_RemoveElement
  <2> QED
    BY <1>10, <2>2, <2>4
<1> QED
  BY <1>9, <1>10, <1>11 DEF d, u

\* A hash means the same prefix wherever it is found.
Linked(N, P) ==
    \A e, f \in Entry : N[e] # <<>> /\ N[e] = N[f] => e[2] = f[2] /\ P[e] = P[f]

Shared(m, C, N, P, h, e, n) ==
    LET b == Cached(m, h)
    IN /\ b \in Block
       /\ Consistent(n, [C EXCEPT ![b] = @ \union {e}], N, P)
       /\ Spare(n) >= Spare(m) - 1

\* One more holder for a block that a hash finds.
LEMMA ShareKeeps ==
    ASSUME NEW m, NEW C, NEW N, NEW P, Consistent(m, C, N, P), Linked(N, P),
           NEW e \in Entry, \A b \in Block : e \notin C[b],
           N[e] \in Hashes(m.cached)
    PROVE  Shared(m, C, N, P, N[e], e, Share(m, N[e]))
<1> DEFINE h == N[e]
           b == Cached(m, h)
           n == Share(m, h)
           D == [C EXCEPT ![b] = @ \union {e}]
<1>1. /\ m.free \in SUBSET Block /\ m.refs \in [Block -> Nat] /\ m.cached \in SUBSET Record
      /\ m.unused \in Seq(Record) /\ m.failure = "no"
      /\ m \in [free : SUBSET Block, refs : [Block -> Nat], cached : SUBSET Record,
           unused : Seq(Record), failure : {"no", "NoFreeBlocks", "AssertionError"}]
  BY DEF Consistent, MemoryOK
<1>2. /\ Keyed(m) /\ Kept(m) /\ Named(m, C, N) /\ Pooled(m) /\ Agreed(C, P) /\ MemoryOK(m)
      /\ C \in [Block -> SUBSET Entry]
  BY DEF Consistent
<1>3. PICK x \in m.cached : x.hash = h /\ x.id = b
  <2>1. \E x \in m.cached : x.hash = h
    BY DEF Hashes
  <2> DEFINE y == CHOOSE y \in m.cached : y.hash = h
  <2>2. y \in m.cached /\ y.hash = h
    BY <2>1, Zenon
  <2>3. b = y.id
    BY DEF Cached
  <2> QED
    BY <2>2, <2>3
<1>4. x \in Record /\ b \in Block /\ h # <<>> /\ h \in Seq(Token)
  BY <1>1, <1>3 DEF Record
<1> HIDE DEF b, h, n
<1>5. \A f \in C[b] : N[f] = h /\ f \in Entry
  BY <1>2, <1>3, <1>4 DEF Named
<1>6. /\ D \in [Block -> SUBSET Entry] /\ D[b] = C[b] \union {e}
      /\ \A c \in Block \ {b} : D[c] = C[c]
  BY <1>2, <1>4
<1>7. /\ IsFiniteSet(C[b]) /\ m.refs[b] = Cardinality(C[b]) /\ m.refs[b] \in Nat
  BY <1>4, HeldCounts DEF Consistent, Counted
<1>8. IsFiniteSet(D[b]) /\ Cardinality(D[b]) = m.refs[b] + 1
  BY <1>4, <1>6, <1>7, FS_AddElement
<1>9. \A f, g \in D[b] : f[2] = g[2] /\ P[f] = P[g]
  <2>1. \A f \in D[b] : N[f] = h /\ f \in Entry
    BY <1>5, <1>6 DEF h
  <2> QED
    BY <1>4, <2>1 DEF Linked
<1>10. \A y \in m.cached : y.id \in Block /\ (y.id = b => y.hash = h \/ C[b] = {})
  BY <1>1, <1>2, <1>5 DEF Named, Record
<1> HIDE DEF D
<1>11. ~Unused(m, b) => m.refs[b] > 0 \/ b \in m.free
  BY <1>2, <1>4, <1>7 DEF Pooled
<1>12. \A y \in m.cached : y.id = b => y.hash = h
  <2>1. CASE C[b] # {}
    BY <1>10, <2>1
  <2>2. CASE C[b] = {}
    <3>1. m.refs[b] = 0
      BY <1>4, <2>2, HeldCounts
    <3>2. ASSUME NEW y \in m.cached, y.id = b PROVE y.hash = h
      <4>1. x \in ToSet(m.unused) /\ y \in ToSet(m.unused)
        BY <1>2, <1>3, <3>1, <3>2 DEF Kept
      <4> QED
        BY <1>2, <1>3, <3>2, <4>1 DEF ToSet, Keyed
    <3> QED
      BY <3>2
  <2> QED
    BY <2>1, <2>2
<1>13. \A a : a.cached = m.cached => Named(a, D, N)
  <2>1. ASSUME NEW a, a.cached = m.cached, NEW y \in a.cached, NEW f \in D[y.id]
        PROVE  N[f] = y.hash
    <3>1. CASE y.id = b
      BY <1>5, <1>6, <1>12, <2>1, <3>1 DEF h
    <3>2. CASE y.id # b
      BY <1>2, <1>6, <1>10, <2>1, <3>2 DEF Named
    <3> QED
      BY <3>1, <3>2
  <2> QED
    BY <2>1 DEF Named
<1>14. [m.refs EXCEPT ![b] = @ + 1] \in [Block -> Nat]
  BY <1>1, <1>4
<1>15. CASE m.refs[b] > 0
  <2>1. n = [m EXCEPT !.refs[b] = @ + 1]
    BY <1>15 DEF Share, n, b
  <2>2. /\ n.free = m.free /\ n.unused = m.unused /\ n.cached = m.cached /\ n.failure = "no"
        /\ n.refs = [m.refs EXCEPT ![b] = @ + 1] /\ MemoryOK(n)
    BY <1>1, <1>14, <2>1 DEF MemoryOK
  <2>3. n.refs[b] = m.refs[b] + 1 /\ \A c \in Block \ {b} : n.refs[c] = m.refs[c]
    BY <1>1, <1>4, <2>2
  <2>11. n.refs[b] = Cardinality(D[b]) /\ n.refs[b] # 0
    BY <1>7, <1>8, <2>3
  <2>4. \A c \in Block : Unused(n, c) <=> Unused(m, c)
    BY <2>2 DEF Unused
  <2>5. b \notin m.free /\ ~Unused(m, b)
    BY <1>2, <1>4, <1>15 DEF Pooled
  <2>6. Altered(m, C, P, n, D, b)
    BY <1>4, <1>6, <1>8, <1>9, <2>2, <2>3, <2>4, <2>5, <2>11 DEF Altered
  <2>7. Keyed(n)
    BY <1>2, <2>2 DEF Keyed
  <2>8. Kept(n)
    <3>1. ASSUME NEW y \in n.cached, n.refs[y.id] = 0 PROVE y \in ToSet(n.unused)
      <4>1. y.id # b
        BY <1>7, <2>3, <3>1
      <4> QED
        BY <1>2, <1>10, <2>2, <2>3, <3>1, <4>1 DEF Kept
    <3> QED
      BY <3>1 DEF Kept
  <2>9. Consistent(n, D, N, P)
    BY <1>4, <1>13, <2>2, <2>6, <2>7, <2>8, ConsistentAgain
  <2>10. Spare(n) >= Spare(m) - 1
    BY <1>2, <2>2, SpareIsNat DEF Spare
  <2> QED
    BY <1>4, <2>9, <2>10 DEF Shared, b, n, D, h
<1>16. CASE m.refs[b] = 0
  <2>1. x \in ToSet(m.unused)
    BY <1>2, <1>3, <1>16 DEF Kept
  <2>2. h \in Hashes(ToSet(m.unused))
    BY <1>3, <2>1 DEF Hashes
  <2> DEFINE d == Drop(m, h)
  <2>3. d \in Seq(Record) /\ IsInjective(d) /\ ToSet(d) = ToSet(m.unused) \ {x}
        /\ Len(d) = Len(m.unused) - 1
    BY <1>2, <1>3, <2>1, DropFacts
  <2>4. n = [m EXCEPT !.refs[b] = @ + 1, !.unused = d]
    BY <1>16, <2>2 DEF Share, Asserted, n, b
  <2> HIDE DEF d
  <2>5. /\ n.free = m.free /\ n.unused = d /\ n.cached = m.cached /\ n.failure = "no"
        /\ n.refs = [m.refs EXCEPT ![b] = @ + 1] /\ MemoryOK(n)
    BY <1>1, <1>14, <2>3, <2>4 DEF MemoryOK
  <2>6. n.refs[b] = 1 /\ \A c \in Block \ {b} : n.refs[c] = m.refs[c]
    BY <1>1, <1>4, <1>16, <2>5
  <2>7. \A y, z \in ToSet(m.unused) : y # z => y.hash # z.hash /\ y.id # z.id
    BY <1>2 DEF Keyed, ToSet
  <2>8. \A c \in Block : Unused(n, c) <=> \E y \in ToSet(m.unused) \ {x} : y.id = c
    <3>1. \A c \in Block : Unused(n, c) <=> \E y \in ToSet(d) : y.id = c
      BY <2>5 DEF Unused, ToSet
    <3> QED
      BY <2>3, <3>1
  <2>9. \A c \in Block : Unused(m, c) <=> \E y \in ToSet(m.unused) : y.id = c
    BY DEF Unused, ToSet
  <2>10. ~Unused(n, b) /\ \A c \in Block \ {b} : Unused(n, c) <=> Unused(m, c)
    BY <1>3, <1>4, <2>1, <2>7, <2>8, <2>9
  <2>11. b \notin m.free
    BY <1>2, <1>3, <1>4, <2>1, <2>9 DEF Pooled
  <2>12. Altered(m, C, P, n, D, b)
    BY <1>6, <1>8, <1>9, <1>16, <2>5, <2>6, <2>10, <2>11 DEF Altered
  <2>13. Keyed(n)
    <3>1. ASSUME NEW i \in DOMAIN d, NEW j \in DOMAIN d, i # j
          PROVE  d[i].hash # d[j].hash /\ d[i].id # d[j].id
      <4>1. d[i] # d[j]
        BY <2>3, <3>1 DEF IsInjective
      <4>2. d[i] \in ToSet(d) /\ d[j] \in ToSet(d)
        BY DEF ToSet
      <4> QED
        BY <2>3, <2>7, <4>1, <4>2
    <3> QED
      BY <1>2, <2>5, <3>1 DEF Keyed
  <2>14. Kept(n)
    <3>1. ASSUME NEW y \in n.cached, n.refs[y.id] = 0 PROVE y \in ToSet(n.unused)
      <4>1. y.id # b /\ y \in m.cached
        BY <2>5, <2>6, <3>1
      <4>2. y \in ToSet(m.unused)
        BY <1>2, <1>10, <2>6, <3>1, <4>1 DEF Kept
      <4> QED
        BY <1>3, <2>3, <2>5, <4>1, <4>2
    <3> QED
      BY <3>1 DEF Kept
  <2>15. Consistent(n, D, N, P)
    BY <1>4, <1>13, <2>5, <2>12, <2>13, <2>14, ConsistentAgain
  <2>16. Spare(n) >= Spare(m) - 1
    BY <1>2, <2>3, <2>5, SpareIsNat DEF Spare
  <2> QED
    BY <1>4, <2>15, <2>16 DEF Shared, b, n, D, h
<1> QED
  BY <1>7, <1>15, <1>16

\* The only holder of a block registers it under a new hash.
LEMMA RegisterKeeps ==
    ASSUME NEW m, NEW C, NEW N, NEW P, Consistent(m, C, N, P),
           NEW b \in Block, NEW e, C[b] = {e}, NEW n,
           N[e] \in Seq(Token) \ {<<>>}, N[e] \notin Hashes(m.cached),
           n = [m EXCEPT !.cached = @ \union {[hash |-> N[e], id |-> b]}]
    PROVE  Consistent(n, C, N, P) /\ Spare(n) = Spare(m)
<1> DEFINE x == [hash |-> N[e], id |-> b]
<1>1. x \in Record /\ x.hash = N[e] /\ x.id = b
  BY DEF Record
<1>2. MemoryOK(m) /\ m.failure = "no"
  BY DEF Consistent
<1>3. n = [m EXCEPT !.cached = @ \union {x}]
  OBVIOUS
<1> HIDE DEF x
<1>4. /\ n.free = m.free /\ n.refs = m.refs /\ n.unused = m.unused /\ n.failure = "no"
      /\ n.cached = m.cached \union {x} /\ MemoryOK(n)
  <2>1. m.cached \union {x} \in SUBSET Record
    BY <1>1, <1>2 DEF MemoryOK
  <2> DEFINE z == m.cached \union {x}
  <2>2. n = [m EXCEPT !.cached = z]
    BY <1>3
  <2>3. z \in SUBSET Record
    BY <2>1
  <2> HIDE DEF z
  <2>4. /\ n.free = m.free /\ n.refs = m.refs /\ n.unused = m.unused /\ n.failure = "no"
        /\ n.cached = z /\ MemoryOK(n)
    BY <1>2, <2>2, <2>3 DEF MemoryOK
  <2> QED
    BY <2>4 DEF z
<1>5. Counted(n, C) /\ Pooled(n)
  BY <1>4 DEF Consistent, Counted, Pooled, Unused
<1>6. m.refs[b] # 0
  BY HeldCounts
<1>7. Keyed(n)
  BY <1>1, <1>4 DEF Consistent, Keyed, Hashes
<1>8. Kept(n)
  BY <1>1, <1>4, <1>6 DEF Consistent, Kept
<1>9. Named(n, C, N)
  BY <1>1, <1>4 DEF Consistent, Named
<1> QED
  BY <1>4, <1>5, <1>7, <1>8, <1>9 DEF Consistent, Spare

\* What the entries hold may change where nobody holds anything, or for the
\* only holder of a block without a hash.
Relabelled(C, N, P, O, Q) ==
    \A b \in Block : \A e \in C[b] :
        (O[e] = N[e] /\ Q[e] = P[e]) \/ (C[b] = {e} /\ N[e] = <<>>)

\* New words and hashes for some entries, if their blocks stay what hashes say.
LEMMA RelabelKeeps ==
    ASSUME NEW m, NEW C, NEW N, NEW P, NEW O, NEW Q, Consistent(m, C, N, P),
           Relabelled(C, N, P, O, Q)
    PROVE  Consistent(m, C, O, Q)
<1>1. Agreed(C, Q)
  <2>1. ASSUME NEW b \in Block, NEW e \in C[b], NEW f \in C[b]
        PROVE  e[2] = f[2] /\ Q[e] = Q[f]
    BY <2>1 DEF Consistent, Agreed, Relabelled
  <2> QED
    BY <2>1 DEF Agreed
<1>2. Named(m, C, O)
  <2>1. ASSUME NEW x \in m.cached, NEW e \in C[x.id] PROVE O[e] = x.hash
    <3>1. x.id \in Block /\ x.hash # <<>>
      BY DEF Consistent, MemoryOK, Record
    <3>2. N[e] = x.hash
      BY DEF Consistent, Named
    <3> QED
      BY <3>1, <3>2 DEF Relabelled
  <2> QED
    BY <2>1 DEF Named
<1> QED
  BY <1>1, <1>2 DEF Consistent

-----------------------------------------------------------------------------
(* The tokens of a table                                                     *)

\* How many tokens a list of blocks holds: n full ones, and what is in the
\* next.
LEMMA SumOfFront ==
    ASSUME NEW R, NEW q \in Seq(Seq(R)), NEW n \in 0 .. Len(q),
           \A j \in 1 .. n : Len(q[j]) = PerBlock,
           \A j \in n + 2 .. Len(q) : Len(q[j]) = 0
    PROVE  /\ FlattenSeq(q) \in Seq(R)
           /\ Len(FlattenSeq(q)) = n * PerBlock + (IF n < Len(q) THEN Len(q[n + 1]) ELSE 0)
<1>1. Len(q) \in Nat /\ DOMAIN q = 1 .. Len(q) /\ \A i \in 1 .. Len(q) : q[i] \in Seq(R)
  BY LenProperties, ElementOfSeq
<1>2. PerBlock \in Nat \ {0}
  BY V2Assumption
<1>5. n < Len(q) \/ n = Len(q)
  <2>1. n \in 0 .. Len(q) /\ Len(q) \in Nat
    BY <1>1
  <2> QED
    BY <2>1
<1>3. CASE Len(q) = 0
  <2>1. q = <<>> /\ FlattenSeq(q) = q
    BY <1>3, EmptySeq DEF FlattenSeq
  <2>2. n = 0
    BY <1>3
  <2>3. n * PerBlock = 0
    BY <1>2, <2>2
  <2>4. FlattenSeq(q) \in Seq(R) /\ Len(FlattenSeq(q)) = 0
    BY <1>3, <2>1, EmptySeq
  <2>5. ~(n < Len(q))
    BY <1>3, <2>2
  <2> QED
    BY <2>3, <2>4, <2>5
<1>4. CASE Len(q) > 0
  <2>1. PICK f \in [1 .. Len(q) -> Seq(R)] : Flattens(f, q) /\ FlattenSeq(q) = f[Len(q)]
    BY <1>4, FlattenTable
  <2> DEFINE Sum(k) == IF k <= n THEN k * PerBlock ELSE n * PerBlock + Len(q[n + 1])
             T == {k \in 1 .. Len(q) : Len(f[k]) # Sum(k)}
  <2>2. Len(f[1]) = Sum(1)
    <3>1. f[1] = q[1]
      BY <2>1 DEF Flattens
    <3>2. CASE n = 0
      <4>1. Sum(1) = 0 * PerBlock + Len(q[1])
        BY <3>2
      <4>2. Len(q[1]) \in Nat /\ 0 * PerBlock = 0
        BY <1>1, <1>2, <1>4, LenProperties
      <4> QED
        BY <3>1, <4>1, <4>2
    <3>3. CASE n # 0
      <4>1. 1 \in 1 .. n /\ 1 * PerBlock = PerBlock
        BY <1>1, <1>2, <3>3
      <4> QED
        BY <3>1, <4>1
    <3> QED
      BY <3>2, <3>3
  <2>3. ASSUME NEW k \in 1 .. Len(q), k > 1, Len(f[k - 1]) = Sum(k - 1) PROVE Len(f[k]) = Sum(k)
    <3>1. k \in 2 .. Len(q) /\ k - 1 \in 1 .. Len(q)
      BY <1>1, <2>3
    <3>2. f[k] = f[k - 1] \o q[k] /\ f[k - 1] \in Seq(R) /\ q[k] \in Seq(R)
      BY <1>1, <2>1, <3>1 DEF Flattens
    <3>3. Len(f[k]) = Sum(k - 1) + Len(q[k]) /\ Len(q[k]) \in Nat
      <4> HIDE DEF Sum
      <4>1. Len(f[k]) = Len(f[k - 1]) + Len(q[k]) /\ Len(q[k]) \in Nat
        BY <3>2, ConcatProperties, LenProperties
      <4> QED
        BY <2>3, <4>1
    <3>4. CASE k <= n
      <4>1. Len(q[k]) = PerBlock /\ k - 1 <= n
        BY <1>1, <3>1, <3>4
      <4>2. (k - 1) * PerBlock + PerBlock = k * PerBlock
        BY <1>2
      <4> QED
        BY <3>3, <3>4, <4>1, <4>2
    <3>5. CASE k = n + 1
      BY <3>3, <3>5
    <3>6. CASE k > n + 1
      <4>1. k \in n + 2 .. Len(q) /\ ~(k - 1 <= n) /\ ~(k <= n)
        BY <1>1, <3>6
      <4>2. Len(q[n + 1]) \in Nat /\ n * PerBlock \in Nat
        BY <1>1, <1>2, <3>6, LenProperties
      <4> QED
        BY <3>3, <4>1, <4>2
    <3> QED
      BY <3>4, <3>5, <3>6
  <2>4. T = {}
    <3>1. SUFFICES ASSUME T # {} PROVE FALSE
      OBVIOUS
    <3>2. T \subseteq Nat /\ \A k \in T : k \in 1 .. Len(q) /\ Len(f[k]) # Sum(k)
      OBVIOUS
    <3>3. \A k \in 1 .. Len(q) : k \notin T => Len(f[k]) = Sum(k)
      OBVIOUS
    <3> HIDE DEF T, Sum
    <3>4. PICK k \in T : \A j \in T : k <= j
      BY <3>1, <3>2, LeastOfSome
    <3>5. k \in 1 .. Len(q) /\ k # 1
      BY <2>2, <3>2
    <3>6. k - 1 \in 1 .. Len(q) /\ k > 1 /\ k - 1 \notin T
      BY <1>1, <3>4, <3>5
    <3> QED
      BY <2>3, <3>2, <3>3, <3>5, <3>6
  <2>5. Len(q) \in 1 .. Len(q)
    BY <1>1, <1>4
  <2>6. f[Len(q)] \in Seq(R) /\ Len(f[Len(q)]) = Sum(Len(q))
    BY <2>1, <2>4, <2>5
  <2>7. CASE n < Len(q)
    BY <1>1, <2>1, <2>6, <2>7
  <2>8. CASE n = Len(q)
    <3>1. Sum(Len(q)) = n * PerBlock /\ n * PerBlock \in Nat
      BY <1>1, <1>2, <2>8
    <3> QED
      BY <2>1, <2>6, <2>8, <3>1
  <2> HIDE DEF Sum, T
  <2> QED
    BY <1>5, <2>7, <2>8
<1> QED
  BY <1>1, <1>3, <1>4

\* The first i blocks of two tables hold the same if they do block by block.
LEMMA PrefixSame ==
    ASSUME NEW R, NEW s \in Seq(R), NEW t \in Seq(R), NEW i \in Nat,
           i <= Len(s), i <= Len(t), \A j \in 1 .. i : s[j].toks = t[j].toks
    PROVE  Prefix(s, i) = Prefix(t, i)
<1> DEFINE a == SubSeq(s, 1, i)
           b == SubSeq(t, 1, i)
<1>1. /\ DOMAIN a = 1 .. i /\ \A j \in 1 .. i : a[j] = s[j]
      /\ DOMAIN b = 1 .. i /\ \A j \in 1 .. i : b[j] = t[j]
  BY LenProperties, SubSeqProperties
<1> HIDE DEF a, b
<1>2. [j \in DOMAIN a |-> a[j].toks] = [j \in DOMAIN b |-> b[j].toks]
  BY <1>1
<1> QED
  BY <1>2 DEF Prefix, Tokens, a, b

\* The words up to a block: none are lost, and full blocks count in full.
LEMMA PrefixFacts ==
    ASSUME NEW t \in Seq(Slot), NEW i \in DOMAIN t
    PROVE  /\ Prefix(t, i) \in Seq(Token)
           /\ t[i].toks # <<>> => Prefix(t, i) # <<>>
           /\ Full(t, i) => Len(Prefix(t, i)) = i * PerBlock /\ t[i].toks # <<>>
<1> DEFINE a == SubSeq(t, 1, i)
           q == [j \in DOMAIN a |-> a[j].toks]
<1>1. /\ DOMAIN a = 1 .. i /\ \A j \in 1 .. i : a[j] = t[j] /\ j \in DOMAIN t
      /\ i \in Nat /\ i >= 1
  BY LenProperties, SubSeqProperties
<1>2. \A j \in DOMAIN t : t[j] \in Slot /\ t[j].toks \in Seq(Token)
  <2>1. \A j \in DOMAIN t : t[j] \in Slot
    BY ElementOfSeq, LenProperties
  <2> QED
    BY <2>1 DEF Slot
<1> HIDE DEF a
<1>3. /\ q \in Seq(Seq(Token)) /\ DOMAIN q = 1 .. i /\ Len(q) = i
      /\ \A j \in 1 .. i : q[j] = t[j].toks
  <2>1. \A j \in DOMAIN a : a[j].toks \in Seq(Token)
    BY <1>1, <1>2
  <2>2. q \in [1 .. i -> Seq(Token)]
    BY <1>1, <2>1
  <2>3. q \in Seq(Seq(Token))
    BY <1>1, <2>2, IsASeq
  <2> QED
    BY <1>1, <2>2, <2>3, LenProperties
<1>4. Prefix(t, i) = FlattenSeq(q)
  BY DEF Prefix, Tokens, a
<1> HIDE DEF q
<1>5. FlattenSeq(q) \in Seq(Token) /\ ToSet(FlattenSeq(q)) = UNION {ToSet(q[j]) : j \in DOMAIN q}
  BY <1>3, FlattenFacts
<1>6. ASSUME t[i].toks # <<>> PROVE FlattenSeq(q) # <<>>
  <2>1. q[i] \in Seq(Token) /\ q[i] # <<>> /\ i \in DOMAIN q
    BY <1>1, <1>2, <1>3, <1>6
  <2>2. 1 \in DOMAIN q[i]
    BY <2>1, LenProperties, EmptySeq
  <2>3. q[i][1] \in ToSet(q[i])
    BY <2>2 DEF ToSet
  <2>4. q[i][1] \in ToSet(FlattenSeq(q))
    BY <1>5, <2>1, <2>3
  <2>5. ToSet(<<>>) = {}
    BY EmptyElems
  <2> QED
    BY <2>4, <2>5
<1>7. ASSUME Full(t, i) PROVE Len(FlattenSeq(q)) = i * PerBlock /\ t[i].toks # <<>>
  <2>1. \A j \in 1 .. i : Len(q[j]) = PerBlock
    BY <1>3, <1>7 DEF Full
  <2>2. i \in 0 .. Len(q) /\ \A j \in i + 2 .. Len(q) : FALSE
    BY <1>1, <1>3
  <2>3. Len(FlattenSeq(q)) = i * PerBlock + (IF i < Len(q) THEN Len(q[i + 1]) ELSE 0)
    BY <1>3, <2>1, <2>2, SumOfFront
  <2>4. i * PerBlock \in Nat /\ ~(i < Len(q)) /\ PerBlock > 0
    BY <1>1, <1>3, V2Assumption
  <2>5. Len(t[i].toks) > 0
    BY <1>1, <1>7, <2>4 DEF Full
  <2> QED
    BY <2>3, <2>4, <2>5, EmptySeq
<1> QED
  BY <1>4, <1>5, <1>6, <1>7

\* Where a table goes from full blocks to others.
Cut(t, n) ==
    /\ n \in 0 .. Len(t) /\ Full(t, n)
    /\ \A j \in n + 1 .. Len(t) : Len(t[j].toks) < PerBlock
    /\ \A j \in n + 2 .. Len(t) : t[j].toks = <<>>

\* A table is a run of full blocks, at most one part-filled, and empty ones.
LEMMA TableIsCut ==
    ASSUME NEW t, Shaped(t)
    PROVE  \E n : /\ Cut(t, n)
                  /\ Len(Tokens(t)) = n * PerBlock
                                      + (IF n < Len(t) THEN Len(t[n + 1].toks) ELSE 0)
<1>1. /\ t \in Seq(Slot) /\ Len(t) \in Nat /\ DOMAIN t = 1 .. Len(t)
      /\ \A i \in DOMAIN t : Len(t[i].toks) <= PerBlock
      /\ \A i, j \in DOMAIN t : i < j /\ t[j].toks # <<>> => Len(t[i].toks) = PerBlock
  BY LenProperties DEF Shaped
<1>2. \A j \in DOMAIN t : /\ t[j] \in Slot /\ t[j].toks \in Seq(Token)
                          /\ Len(t[j].toks) \in Nat
  <2>1. \A j \in DOMAIN t : t[j] \in Slot
    BY <1>1, ElementOfSeq, LenProperties
  <2>2. \A j \in DOMAIN t : t[j].toks \in Seq(Token)
    BY <2>1 DEF Slot
  <2> QED
    BY <2>1, <2>2, LenProperties
<1>3. PerBlock \in Nat \ {0}
  BY V2Assumption
<1> DEFINE T == {i \in 1 .. Len(t) + 1 : i = Len(t) + 1 \/ Len(t[i].toks) < PerBlock}
<1>4. PICK i \in T : \A j \in T : i <= j
  <2>1. Len(t) + 1 \in T /\ T \subseteq Nat
    BY <1>1
  <2> HIDE DEF T
  <2> QED
    BY <2>1, LeastOfSome
<1> DEFINE n == i - 1
<1>5. n \in 0 .. Len(t) /\ n \in Nat
  BY <1>1
<1>6. Full(t, n)
  <2>1. ASSUME NEW j \in 1 .. n PROVE Len(t[j].toks) = PerBlock
    <3>1. j \in 1 .. Len(t) + 1 /\ j < i /\ j \in DOMAIN t
      BY <1>1
    <3>2. j \notin T
      BY <1>4, <3>1
    <3> QED
      BY <1>1, <1>2, <1>3, <3>1, <3>2
  <2> QED
    BY <2>1 DEF Full
<1>7. n < Len(t) => Len(t[n + 1].toks) < PerBlock
  BY <1>1, <1>4
<1> HIDE DEF n, T
<1>8. ASSUME NEW j \in n + 2 .. Len(t) PROVE t[j].toks = <<>>
  <2>1. j \in DOMAIN t /\ n + 1 \in DOMAIN t /\ n + 1 < j /\ n < Len(t)
    BY <1>1, <1>5
  <2>2. Len(t[n + 1].toks) < PerBlock /\ Len(t[n + 1].toks) \in Nat
    BY <1>2, <1>7, <2>1
  <2> QED
    BY <1>1, <1>3, <2>1, <2>2
<1>9. \A j \in n + 1 .. Len(t) : Len(t[j].toks) < PerBlock
  <2>1. ASSUME NEW j \in n + 1 .. Len(t) PROVE Len(t[j].toks) < PerBlock
    <3>1. CASE j = n + 1
      BY <1>1, <1>5, <1>7, <3>1
    <3>2. CASE j # n + 1
      <4>1. j \in n + 2 .. Len(t)
        BY <1>1, <1>5, <3>2
      <4>2. t[j].toks = <<>>
        BY <1>8, <4>1
      <4>3. Len(t[j].toks) = 0
        BY <4>2
      <4> QED
        BY <1>3, <4>3
    <3> QED
      BY <3>1, <3>2
  <2> QED
    BY <2>1
<1>10. Cut(t, n)
  BY <1>5, <1>6, <1>8, <1>9 DEF Cut
<1>11. Len(Tokens(t)) = n * PerBlock + (IF n < Len(t) THEN Len(t[n + 1].toks) ELSE 0)
  <2> DEFINE q == [j \in DOMAIN t |-> t[j].toks]
  <2>1. q \in Seq(Seq(Token)) /\ Len(q) = Len(t) /\ \A j \in 1 .. Len(t) : q[j] = t[j].toks
    <3>1. q \in [1 .. Len(t) -> Seq(Token)]
      BY <1>1, <1>2
    <3> QED
      BY <1>1, <3>1, IsASeq, LenProperties
  <2>2. Tokens(t) = FlattenSeq(q)
    BY DEF Tokens
  <2> HIDE DEF q
  <2>3. \A j \in 1 .. n : Len(q[j]) = PerBlock
    <3>1. \A j \in 1 .. n : j \in 1 .. Len(t)
      BY <1>1, <1>5
    <3> QED
      BY <1>6, <2>1, <3>1 DEF Full
  <2>4. \A j \in n + 2 .. Len(q) : Len(q[j]) = 0
    <3>1. ASSUME NEW j \in n + 2 .. Len(q) PROVE Len(q[j]) = 0
      <4>1. j \in n + 2 .. Len(t) /\ j \in 1 .. Len(t)
        BY <1>1, <1>5, <2>1
      <4>2. q[j] = <<>>
        BY <1>8, <2>1, <4>1
      <4> QED
        BY <4>2
    <3> QED
      BY <3>1
  <2>5. n \in 0 .. Len(q)
    BY <1>5, <2>1
  <2>6. Len(FlattenSeq(q)) = n * PerBlock + (IF n < Len(q) THEN Len(q[n + 1]) ELSE 0)
    BY <2>1, <2>3, <2>4, <2>5, SumOfFront
  <2>7. n < Len(t) => q[n + 1] = t[n + 1].toks
    BY <1>1, <1>5, <2>1
  <2> QED
    BY <2>1, <2>2, <2>6, <2>7
<1> QED
  BY <1>10, <1>11

-----------------------------------------------------------------------------
(* Tables and what their entries hold                                        *)

Tables == [Table -> Seq(Slot)]

\* A function from 1 .. n is a sequence.
LEMMA TableIsSeq ==
    ASSUME NEW S, NEW f, NEW n \in Nat, f = [i \in 1 .. n |-> f[i]],
           \A i \in 1 .. n : f[i] \in S
    PROVE  f \in Seq(S)
<1>1. f \in [1 .. n -> S]
  OBVIOUS
<1> QED
  BY <1>1, IsASeq

\* An entry is a table and a place.
LEMMA EntryFacts ==
    ASSUME NEW e \in Entry
    PROVE  e = <<e[1], e[2]>> /\ e[1] \in Table /\ e[2] \in Nat \ {0}
BY DEF Entry

\* An entry holds the block that its table has at its place.
LEMMA HeldFacts ==
    ASSUME NEW B \in Tables
    PROVE  /\ Held(B) \in [Block -> SUBSET Entry]
           /\ \A b \in Block : \A e \in Entry :
                 e \in Held(B)[b] <=> e[2] \in DOMAIN B[e[1]] /\ B[e[1]][e[2]].id = b
<1> DEFINE H(b) == UNION {{<<t, i>> : i \in {i \in DOMAIN B[t] : B[t][i].id = b}} : t \in Table}
<1>1. \A t \in Table : B[t] \in Seq(Slot) /\ \A i \in DOMAIN B[t] : i \in Nat \ {0}
  BY LenProperties DEF Tables
<1>2. ASSUME NEW b \in Block PROVE H(b) \in SUBSET Entry
  BY <1>1 DEF Entry
<1>3. ASSUME NEW b \in Block, NEW e \in Entry
      PROVE  e \in H(b) <=> e[2] \in DOMAIN B[e[1]] /\ B[e[1]][e[2]].id = b
  <2>1. e = <<e[1], e[2]>> /\ e[1] \in Table
    BY EntryFacts
  <2>2. ASSUME e \in H(b) PROVE e[2] \in DOMAIN B[e[1]] /\ B[e[1]][e[2]].id = b
    <3>1. PICK t \in Table : \E i \in DOMAIN B[t] : B[t][i].id = b /\ e = <<t, i>>
      BY <2>2
    <3>2. e[1] = t
      BY <3>1
    <3> QED
      BY <3>1, <3>2
  <2>3. ASSUME e[2] \in DOMAIN B[e[1]], B[e[1]][e[2]].id = b PROVE e \in H(b)
    BY <2>1, <2>3
  <2> QED
    BY <2>2, <2>3
<1>4. Held(B) = [b \in Block |-> H(b)]
  BY DEF Held
<1> HIDE DEF H
<1> QED
  BY <1>2, <1>3, <1>4

\* The hash the code computes for an entry is the name it has.
LEMMA HashIsName ==
    ASSUME NEW B \in Tables, NEW c \in Table, NEW i \in DOMAIN B[c]
    PROVE  HashOf(B[c], i) = Names(caching, B)[<<c, i>>] /\ <<c, i>> \in Entry
<1>1. i \in Nat \ {0}
  <2>1. B[c] \in Seq(Slot)
    BY DEF Tables
  <2> QED
    BY <2>1, LenProperties
<1>2. <<c, i>> \in Entry
  BY <1>1 DEF Entry
<1> QED
  BY <1>2 DEF HashOf, Names, Full, Prefix

\* What an entry's labels depend on.
LEMMA LabelsSame ==
    ASSUME NEW B \in Tables, NEW D \in Tables, NEW k, NEW e \in Entry,
           e[2] \in DOMAIN B[e[1]], e[2] \in DOMAIN D[e[1]],
           \A j \in 1 .. e[2] : B[e[1]][j].toks = D[e[1]][j].toks
    PROVE  Names(k, D)[e] = Names(k, B)[e] /\ Contents(D)[e] = Contents(B)[e]
<1> DEFINE s == B[e[1]]
           t == D[e[1]]
           i == e[2]
<1>1. e[1] \in Table /\ i \in Nat \ {0} /\ s \in Seq(Slot) /\ t \in Seq(Slot)
  BY EntryFacts DEF Tables
<1>2. i <= Len(s) /\ i <= Len(t) /\ i \in 1 .. i
  BY <1>1, LenProperties
<1>3. Prefix(s, i) = Prefix(t, i)
  BY <1>1, <1>2, PrefixSame
<1>4. Full(s, i) <=> Full(t, i)
  BY DEF Full
<1>5. s[i].toks = t[i].toks
  BY <1>2
<1> QED
  BY <1>3, <1>4, <1>5 DEF Names, Contents

\* An entry beyond its table or not full has no name, an empty one no words.
LEMMA NoLabels ==
    ASSUME NEW B \in Tables, NEW k, NEW e \in Entry,
           e[2] \notin DOMAIN B[e[1]] \/ Len(B[e[1]][e[2]].toks) # PerBlock
    PROVE  /\ Names(k, B)[e] = <<>>
           /\ e[2] \notin DOMAIN B[e[1]] \/ B[e[1]][e[2]].toks = <<>> => Contents(B)[e] = <<>>
<1>1. e[2] \in Nat \ {0}
  BY EntryFacts
<1>2. e[2] \in 1 .. e[2]
  BY <1>1
<1> QED
  BY <1>2 DEF Names, Contents, Full

\* A name is the words up to the block, where there is one.
LEMMA LabelFacts ==
    ASSUME NEW B \in Tables, NEW k
    PROVE  /\ Linked(Names(k, B), Contents(B))
           /\ \A e \in Entry : Names(k, B)[e] \in Seq(Token)
<1>1. ASSUME NEW e \in Entry, Names(k, B)[e] # <<>>
      PROVE  /\ Names(k, B)[e] \in Seq(Token)
             /\ Len(Names(k, B)[e]) = e[2] * PerBlock
             /\ Contents(B)[e] = Names(k, B)[e]
  <2> DEFINE t == B[e[1]]
             i == e[2]
  <2>1. e[1] \in Table /\ t \in Seq(Slot)
    BY EntryFacts DEF Tables
  <2>2. i \in DOMAIN t /\ Full(t, i) /\ Names(k, B)[e] = Prefix(t, i)
    BY <1>1 DEF Names
  <2>3. Prefix(t, i) \in Seq(Token) /\ Len(Prefix(t, i)) = i * PerBlock /\ t[i].toks # <<>>
    BY <2>1, <2>2, PrefixFacts
  <2>4. Contents(B)[e] = Prefix(t, i)
    BY <2>2, <2>3 DEF Contents
  <2> QED
    BY <2>2, <2>3, <2>4
<1>2. ASSUME NEW e \in Entry, NEW f \in Entry, Names(k, B)[e] # <<>>,
             Names(k, B)[e] = Names(k, B)[f]
      PROVE  e[2] = f[2] /\ Contents(B)[e] = Contents(B)[f]
  <2>1. e[2] * PerBlock = f[2] * PerBlock /\ Contents(B)[e] = Contents(B)[f]
    BY <1>1, <1>2
  <2>2. \A i, j, p \in Nat : p # 0 /\ i * p = j * p => i = j
    OBVIOUS
  <2>3. e[2] \in Nat /\ f[2] \in Nat /\ PerBlock \in Nat /\ PerBlock # 0
    BY EntryFacts, V2Assumption
  <2> QED
    BY <2>1, <2>2, <2>3
<1>3. \A e \in Entry : Names(k, B)[e] \in Seq(Token)
  BY <1>1, EmptySeq
<1> QED
  BY <1>2, <1>3 DEF Linked

At(B, c, t) == [B EXCEPT ![c] = t]

\* Replacing one table leaves the others.
LEMMA AtFacts ==
    ASSUME NEW B \in Tables, NEW c \in Table, NEW t \in Seq(Slot)
    PROVE  /\ At(B, c, t) \in Tables /\ At(B, c, t)[c] = t
           /\ \A s \in Table \ {c} : At(B, c, t)[s] = B[s]
           /\ At(B, c, B[c]) = B
           /\ \A u : At(At(B, c, t), c, u) = At(B, c, u)
BY DEF At, Tables

\* Another block in the place of an entry's.
Moved(C, b, a, e) == [[C EXCEPT ![b] = @ \ {e}] EXCEPT ![a] = @ \union {e}]

\* What it changes and what it leaves alone when entry i of table c names block a.
Exchanged(B, c, i, a) ==
    LET t == [B[c] EXCEPT ![i].id = a]
    IN /\ t \in Seq(Slot) /\ Len(t) = Len(B[c]) /\ DOMAIN t = DOMAIN B[c]
       /\ \A j \in DOMAIN t : t[j].toks = B[c][j].toks
       /\ Held(At(B, c, t)) = Moved(Held(B), B[c][i].id, a, <<c, i>>)
       /\ \A k : Names(k, At(B, c, t)) = Names(k, B)
       /\ Contents(At(B, c, t)) = Contents(B)

\* An entry that names another block moves from one's holders to the other's.
LEMMA MoveFacts ==
    ASSUME NEW B \in Tables, NEW c \in Table, NEW i \in DOMAIN B[c], NEW a \in Block
    PROVE  Exchanged(B, c, i, a)
<1> DEFINE t == [B[c] EXCEPT ![i].id = a]
<1> DEFINE s == B[c]
           D == At(B, c, t)
           e == <<c, i>>
           b == s[i].id
<1>1. s \in Seq(Slot) /\ DOMAIN s = 1 .. Len(s) /\ Len(s) \in Nat
  BY LenProperties DEF Tables
<1>2. \A j \in DOMAIN s : s[j] \in Slot
  BY <1>1
<1>3. DOMAIN t = DOMAIN s /\ t[i] = [s[i] EXCEPT !.id = a] /\ \A j \in DOMAIN s : j # i => t[j] = s[j]
  BY <1>1
<1>4. t[i] \in Slot /\ t[i].toks = s[i].toks /\ t[i].id = a /\ b \in Block
  <2>1. s[i] \in [id : Block, toks : Seq(Token)]
    BY <1>2 DEF Slot
  <2> HIDE DEF s
  <2> QED
    BY <1>3, <2>1 DEF Slot
<1> HIDE DEF s, b, t
<1>5. \A j \in DOMAIN t : t[j] \in Slot /\ t[j].toks = s[j].toks
  BY <1>2, <1>3, <1>4
<1>6. t \in Seq(Slot) /\ Len(t) = Len(s)
  <2>1. t = [j \in DOMAIN s |-> IF j = i THEN [s[i] EXCEPT !.id = a] ELSE s[j]]
    BY DEF s, t
  <2>2. t = [j \in 1 .. Len(s) |-> t[j]] /\ \A j \in 1 .. Len(s) : t[j] \in Slot
    BY <1>1, <1>3, <1>5, <2>1
  <2>3. t \in Seq(Slot) /\ Len(s) \in Nat
    BY <1>1, <2>2, TableIsSeq
  <2> QED
    BY <1>1, <1>3, <2>3, LenProperties
<1>7. D \in Tables /\ D[c] = t /\ \A x \in Table \ {c} : D[x] = B[x]
  BY <1>6 DEF At, Tables
<1>8. e \in Entry /\ e[1] = c /\ e[2] = i
  BY <1>1 DEF Entry, s
<1> HIDE DEF D, e
<1>9. \A f \in Entry : f # e /\ f[1] = c => f[2] # i
  BY <1>8, EntryFacts
<1>10. Held(D) = Moved(Held(B), b, a, e)
  <2> DEFINE M == Moved(Held(B), b, a, e)
  <2>1. /\ Held(B) \in [Block -> SUBSET Entry] /\ Held(D) \in [Block -> SUBSET Entry]
    BY <1>7, HeldFacts
  <2>2. M \in [Block -> SUBSET Entry]
    BY <1>4, <1>8, <2>1 DEF Moved
  <2>3. \A x \in Block : \A f \in Entry :
           f \in M[x] <=> (f = e /\ x = a) \/ (f # e /\ f \in Held(B)[x])
                          \/ (f = e /\ x # b /\ f \in Held(B)[x])
    BY <1>4, <1>8, <2>1 DEF Moved
  <2>4. \A x \in Block : e \in Held(B)[x] => x = b
    BY <1>8, HeldFacts DEF s, b
  <2>5. \A x \in Block : \A f \in Entry : f \in M[x] <=> (f = e /\ x = a) \/ (f # e /\ f \in Held(B)[x])
    BY <2>3, <2>4
  <2> HIDE DEF M
  <2>6. ASSUME NEW x \in Block, NEW f \in Entry PROVE f \in Held(D)[x] <=> f \in M[x]
    <3>1. f \in Held(D)[x] <=> f[2] \in DOMAIN D[f[1]] /\ D[f[1]][f[2]].id = x
      BY <1>7, HeldFacts
    <3>2. f \in Held(B)[x] <=> f[2] \in DOMAIN B[f[1]] /\ B[f[1]][f[2]].id = x
      BY HeldFacts
    <3>3. CASE f = e
      <4>1. f[2] \in DOMAIN D[f[1]] /\ D[f[1]][f[2]].id = a
        BY <1>3, <1>4, <1>7, <1>8, <3>3 DEF s
      <4> QED
        BY <2>5, <3>1, <3>3, <4>1
    <3>4. CASE f # e /\ f[1] = c
      BY <1>3, <1>7, <1>9, <2>5, <3>1, <3>2, <3>4 DEF s
    <3>5. CASE f # e /\ f[1] # c
      BY <1>7, <2>5, <3>1, <3>2, <3>5, EntryFacts
    <3> QED
      BY <3>3, <3>4, <3>5
  <2>7. \A x \in Block : Held(D)[x] = M[x]
    BY <2>1, <2>2, <2>6
  <2> QED
    BY <2>1, <2>2, <2>7 DEF M
<1>11. ASSUME NEW k, NEW f \in Entry
       PROVE  Names(k, D)[f] = Names(k, B)[f] /\ Contents(D)[f] = Contents(B)[f]
  <2>1. f[1] \in Table /\ f[2] \in Nat \ {0}
    BY EntryFacts
  <2>2. DOMAIN D[f[1]] = DOMAIN B[f[1]] /\ D[f[1]] \in Seq(Slot)
    BY <1>3, <1>6, <1>7, <2>1 DEF s, Tables
  <2>3. CASE f[2] \in DOMAIN B[f[1]]
    <3>1. \A j \in 1 .. f[2] : j \in DOMAIN D[f[1]]
      BY <2>1, <2>2, <2>3, LenProperties
    <3>2. \A j \in DOMAIN D[f[1]] : B[f[1]][j].toks = D[f[1]][j].toks
      BY <1>5, <1>7, <2>1 DEF s
    <3> QED
      BY <1>7, <2>2, <2>3, <3>1, <3>2, LabelsSame
  <2>4. CASE f[2] \notin DOMAIN B[f[1]]
    BY <1>7, <2>2, <2>4, NoLabels
  <2> QED
    BY <2>3, <2>4
<1>12. \A k : Names(k, D) = Names(k, B)
  BY <1>11 DEF Names
<1>13. Contents(D) = Contents(B)
  BY <1>11 DEF Contents
<1> QED
  BY <1>3, <1>5, <1>6, <1>10, <1>12, <1>13 DEF Exchanged, s, D, e, b, t

-----------------------------------------------------------------------------
(* Steps of one table: what they leave in memory and in the table            *)

Pair(r) == r = [m |-> r.m, t |-> r.t]

Result(k, B, c, x) ==
    /\ Pair(x) /\ MemoryOK(x.m) /\ x.m.failure \in {"no", "AssertionError"}
    /\ Shaped(x.t)
    /\ x.m.failure = "no" => Good(k, x.m, At(B, c, x.t))

SameTokens(s, t) == Len(s) = Len(t) /\ \A i \in DOMAIN s : s[i].toks = t[i].toks

\* What a good state of allocator and tables is made of.
LEMMA GoodFacts ==
    ASSUME NEW k, NEW m, NEW B, Good(k, m, B)
    PROVE  /\ B \in Tables /\ MemoryOK(m) /\ m.failure = "no"
           /\ \A c \in Table : /\ Shaped(B[c]) /\ B[c] \in Seq(Slot)
                               /\ DOMAIN B[c] = 1 .. Len(B[c]) /\ Len(B[c]) \in Nat
           /\ Consistent(m, Held(B), Names(k, B), Contents(B))
  BY LenProperties DEF Good, Tables, Consistent, Shaped

\* The sizes that start every table.
LEMMA EmptyTokens == <<>> \in Seq(Token) /\ Len(<<>>) = 0 /\ PerBlock \in Nat \ {0}
BY V2Assumption

\* Another block at the end of a table.
Lengthened(B, c, a, y, t, e) ==
    /\ t \in Seq(Slot) /\ Len(t) = Len(B[c]) + 1
    /\ \A i \in DOMAIN B[c] : t[i] = B[c][i]
    /\ t[Len(t)] = [id |-> a, toks |-> y]
    /\ e \in Entry /\ \A b \in Block : e \notin Held(B)[b]
    /\ Held(At(B, c, t)) = [Held(B) EXCEPT ![a] = @ \union {e}]
    /\ \A k : \A f \in Entry :
          f # e => /\ Names(k, At(B, c, t))[f] = Names(k, B)[f]
                   /\ Contents(At(B, c, t))[f] = Contents(B)[f]

\* One more entry at the end of a table disturbs no other entry.
LEMMA AppendFacts ==
    ASSUME NEW B \in Tables, NEW c \in Table, NEW a \in Block, NEW y \in Seq(Token)
    PROVE  Lengthened(B, c, a, y, Append(B[c], [id |-> a, toks |-> y]), <<c, Len(B[c]) + 1>>)
<1> DEFINE s == B[c]
           t == Append(B[c], [id |-> a, toks |-> y])
           e == <<c, Len(B[c]) + 1>>
           D == At(B, c, t)
           n == Len(s) + 1
<1>1. s \in Seq(Slot) /\ DOMAIN s = 1 .. Len(s) /\ Len(s) \in Nat
  BY LenProperties DEF Tables
<1>2. [id |-> a, toks |-> y] \in Slot
  BY DEF Slot
<1>3. /\ t \in Seq(Slot) /\ Len(t) = n /\ DOMAIN t = 1 .. n
      /\ \A i \in DOMAIN s : t[i] = s[i]
      /\ t[n] = [id |-> a, toks |-> y]
  BY <1>1, <1>2, AppendProperties, LenProperties
<1>4. e \in Entry /\ e[1] = c /\ e[2] = n
  BY <1>1 DEF Entry
<1>5. D \in Tables /\ D[c] = t /\ \A x \in Table \ {c} : D[x] = B[x]
  BY <1>3 DEF At, Tables
<1> HIDE DEF s, D, t, e
<1>6. \A f \in Entry : f # e /\ f[1] = c => f[2] # n
  BY <1>4, EntryFacts
<1>7. \A b \in Block : e \notin Held(B)[b]
  <2>1. e[2] \notin DOMAIN B[e[1]]
    BY <1>1, <1>4 DEF s
  <2> QED
    BY <1>4, <2>1, HeldFacts
<1>8. \A i : i \in DOMAIN t <=> i \in DOMAIN s \/ i = n
  BY <1>1, <1>3
<1> HIDE DEF n
<1>9. Held(D) = [Held(B) EXCEPT ![a] = @ \union {e}]
  <2> DEFINE M == [Held(B) EXCEPT ![a] = @ \union {e}]
  <2>1. /\ Held(B) \in [Block -> SUBSET Entry] /\ Held(D) \in [Block -> SUBSET Entry]
    BY <1>5, HeldFacts
  <2>2. /\ M \in [Block -> SUBSET Entry]
        /\ \A x \in Block : \A f \in Entry : f \in M[x] <=> f \in Held(B)[x] \/ (f = e /\ x = a)
    BY <1>4, <2>1
  <2> HIDE DEF M
  <2>3. ASSUME NEW x \in Block, NEW f \in Entry PROVE f \in Held(D)[x] <=> f \in M[x]
    <3>1. f \in Held(D)[x] <=> f[2] \in DOMAIN D[f[1]] /\ D[f[1]][f[2]].id = x
      BY <1>5, HeldFacts
    <3>2. f \in Held(B)[x] <=> f[2] \in DOMAIN B[f[1]] /\ B[f[1]][f[2]].id = x
      BY HeldFacts
    <3>3. CASE f = e
      <4>1. f[2] \in DOMAIN D[f[1]] /\ D[f[1]][f[2]].id = a
        BY <1>3, <1>4, <1>5, <1>8, <3>3
      <4> QED
        BY <1>7, <2>2, <3>1, <3>3, <4>1
    <3>4. CASE f # e /\ f[1] = c
      <4>1. f[2] # n
        BY <1>6, <3>4
      <4>2. D[f[1]] = t /\ B[f[1]] = s
        BY <1>5, <3>4 DEF s
      <4>3. f[2] \in DOMAIN t <=> f[2] \in DOMAIN s
        BY <1>8, <4>1
      <4>4. f[2] \in DOMAIN s => t[f[2]] = s[f[2]]
        BY <1>3
      <4> QED
        BY <2>2, <3>1, <3>2, <3>4, <4>2, <4>3, <4>4
    <3>5. CASE f # e /\ f[1] # c
      <4>1. D[f[1]] = B[f[1]]
        BY <1>5, <3>5, EntryFacts
      <4> QED
        BY <2>2, <3>1, <3>2, <3>5, <4>1
    <3> QED
      BY <3>3, <3>4, <3>5
  <2>4. \A x \in Block : Held(D)[x] = M[x]
    BY <2>1, <2>2, <2>3
  <2> QED
    BY <2>1, <2>2, <2>4 DEF M
<1>10. ASSUME NEW k, NEW f \in Entry, f # e
       PROVE  Names(k, D)[f] = Names(k, B)[f] /\ Contents(D)[f] = Contents(B)[f]
  <2>1. f[1] \in Table /\ f[2] \in Nat \ {0}
    BY EntryFacts
  <2>2. f[2] \in DOMAIN D[f[1]] <=> f[2] \in DOMAIN B[f[1]]
    <3>1. CASE f[1] = c
      BY <1>5, <1>6, <1>8, <1>10, <3>1 DEF s
    <3>2. CASE f[1] # c
      BY <1>5, <2>1, <3>2
    <3> QED
      BY <3>1, <3>2
  <2>3. CASE f[2] \in DOMAIN B[f[1]]
    <3>1. B[f[1]] \in Seq(Slot)
      BY <2>1 DEF Tables
    <3>2. \A j \in 1 .. f[2] : j \in DOMAIN B[f[1]]
      BY <2>1, <2>3, <3>1, LenProperties
    <3>3. \A j \in DOMAIN B[f[1]] : B[f[1]][j].toks = D[f[1]][j].toks
      BY <1>3, <1>5, <2>1 DEF s
    <3> QED
      BY <1>5, <2>2, <2>3, <3>2, <3>3, LabelsSame
  <2>4. CASE f[2] \notin DOMAIN B[f[1]]
    BY <1>5, <2>2, <2>4, NoLabels
  <2> QED
    BY <2>3, <2>4
<1> QED
  BY <1>3, <1>4, <1>7, <1>9, <1>10 DEF Lengthened, s, D, n, t, e

\* A table with one more block keeps its shape if the ones before are full, or it is empty.
LEMMA ShapedMore ==
    ASSUME NEW s, Shaped(s), NEW t \in Seq(Slot), Len(t) = Len(s) + 1,
           \A i \in DOMAIN s : t[i].toks = s[i].toks,
           Len(t[Len(t)].toks) <= PerBlock,
           t[Len(t)].toks = <<>> \/ \A i \in DOMAIN s : Len(s[i].toks) = PerBlock
    PROVE  Shaped(t)
<1>1. /\ s \in Seq(Slot) /\ DOMAIN s = 1 .. Len(s) /\ Len(s) \in Nat /\ DOMAIN t = 1 .. Len(t)
      /\ Len(t) \in Nat
  BY LenProperties DEF Shaped
<1>2. \A i \in DOMAIN t : i \in DOMAIN s \/ i = Len(t)
  BY <1>1
<1>3. \A i \in DOMAIN t : Len(t[i].toks) <= PerBlock
  BY <1>2 DEF Shaped
<1>4. ASSUME NEW i \in DOMAIN t, NEW j \in DOMAIN t, i < j, t[j].toks # <<>>
      PROVE  Len(t[i].toks) = PerBlock
  <2>1. i \in DOMAIN s
    BY <1>1, <1>4
  <2>2. CASE j \in DOMAIN s
    BY <1>4, <2>1, <2>2 DEF Shaped
  <2>3. CASE j = Len(t)
    BY <1>4, <2>1, <2>3
  <2> QED
    BY <1>2, <2>2, <2>3
<1> QED
  BY <1>3, <1>4 DEF Shaped

Grew(k, m, B, c, x) ==
    /\ x.t = Append(B[c], [id |-> Taken(m), toks |-> <<>>])
    /\ Result(k, B, c, x) /\ x.m.failure = "no"
    /\ Taken(m) \in Block /\ m.refs[Taken(m)] = 0 /\ x.m.refs[Taken(m)] = 1
    /\ \A b \in Block \ {Taken(m)} : x.m.refs[b] = m.refs[b]
    /\ Spare(x.m) = Spare(m) - 1

\* One more empty block, from the spare ones.
LEMMA ExtendKeeps ==
    ASSUME NEW k, NEW r, NEW B, NEW c \in Table, Pair(r), Good(k, r.m, B), r.t = B[c],
           CanTake(r.m)
    PROVE  Grew(k, r.m, B, c, Extend(r))
<1> DEFINE m == r.m
           x == Extend(r)
           a == Taken(m)
           e == <<c, Len(B[c]) + 1>>
           t == Append(B[c], [id |-> a, toks |-> <<>>])
           N == Names(k, B)
           P == Contents(B)
           D == At(B, c, t)
<1>1. B \in Tables /\ MemoryOK(m) /\ m.failure = "no" /\ Shaped(B[c]) /\ Consistent(m, Held(B), N, P)
  BY GoodFacts
<1>2. x = [m |-> Take(m), t |-> t]
  BY <1>1 DEF Extend
<1>3. e \in Entry
  <2>1. Len(B[c]) \in Nat
    BY GoodFacts
  <2> QED
    BY <2>1 DEF Entry
<1>4. Took(m, Held(B), N, P, e, Take(m))
  BY <1>1, <1>3, TakeKeeps
<1>5. a \in Block /\ Held(B)[a] = {}
  BY <1>4 DEF Took
<1>6. /\ t \in Seq(Slot) /\ Len(t) = Len(B[c]) + 1
      /\ \A i \in DOMAIN B[c] : t[i] = B[c][i]
      /\ t[Len(t)] = [id |-> a, toks |-> <<>>]
      /\ Held(D) = [Held(B) EXCEPT ![a] = @ \union {e}]
      /\ \A f \in Entry : f # e => /\ Names(k, D)[f] = Names(k, B)[f]
                                   /\ Contents(D)[f] = Contents(B)[f]
  <2> HIDE DEF a
  <2>1. Lengthened(B, c, a, <<>>, Append(B[c], [id |-> a, toks |-> <<>>]), <<c, Len(B[c]) + 1>>)
    BY <1>1, <1>5, AppendFacts, EmptyTokens
  <2>2. Lengthened(B, c, a, <<>>, t, e)
    BY <2>1
  <2> HIDE DEF t, e
  <2>3. \A j : \A f \in Entry : f # e => /\ Names(j, D)[f] = Names(j, B)[f]
                                        /\ Contents(D)[f] = Contents(B)[f]
    BY <2>2, Zenon DEF Lengthened
  <2>4. Held(D) = [Held(B) EXCEPT ![a] = @ \union {e}]
    BY <2>2 DEF Lengthened
  <2> QED
    BY <2>2, <2>3, <2>4 DEF Lengthened
<1> HIDE DEF t, a, x
<1>7. Shaped(t)
  <2>1. t[Len(t)].toks = <<>>
    BY <1>6
  <2>2. \A i \in DOMAIN B[c] : t[i].toks = B[c][i].toks
    BY <1>6
  <2> QED
    BY <1>1, <1>6, <2>1, <2>2, ShapedMore, EmptyTokens
<1>8. /\ D \in Tables /\ D[c] = t /\ \A s \in Table \ {c} : D[s] = B[s]
  BY <1>1, <1>6 DEF At, Tables
<1>9. \A s \in Table : Shaped(D[s])
  BY <1>7, <1>8, GoodFacts
<1>10. Names(k, D)[e] = N[e] /\ Contents(D)[e] = P[e]
  <2>1. e[1] = c /\ e[2] = Len(t)
    BY <1>6
  <2>2. D[e[1]][e[2]].toks = <<>>
    BY <1>6, <1>8, <2>1
  <2>3. Names(k, D)[e] = <<>> /\ Contents(D)[e] = <<>>
    BY <1>3, <1>8, <2>2, NoLabels, EmptyTokens
  <2>4. e[2] \notin DOMAIN B[e[1]]
    <3>1. DOMAIN B[c] = 1 .. Len(B[c]) /\ Len(B[c]) \in Nat
      BY GoodFacts
    <3> QED
      BY <3>1
  <2> QED
    BY <1>1, <1>3, <2>3, <2>4, NoLabels
<1> HIDE DEF e, D
<1>11. Held(D) = [Held(B) EXCEPT ![a] = {e}]
  BY <1>5, <1>6
<1>12. Consistent(Take(m), Held(D), N, P)
  BY <1>4, <1>11 DEF Took, a
<1>13. Relabelled(Held(D), N, P, Names(k, D), Contents(D))
  <2>1. \A b \in Block : Held(D)[b] \subseteq Entry
    BY <1>8, HeldFacts
  <2> QED
    BY <1>6, <1>10, <2>1 DEF Relabelled
<1>14. Consistent(Take(m), Held(D), Names(k, D), Contents(D))
  BY <1>12, <1>13, RelabelKeeps
<1>15. Good(k, Take(m), D)
  BY <1>8, <1>9, <1>14 DEF Good, Tables
<1>16. /\ m.refs[a] = 0 /\ Take(m).refs[a] = 1
       /\ \A b \in Block \ {a} : Take(m).refs[b] = m.refs[b]
  <2>1. m.refs[a] = 0
    BY <1>1, <1>5, HeldCounts
  <2>2. Take(m).refs[a] = 1
    BY <1>4 DEF Took, a
  <2>3. Take(m).refs = [m.refs EXCEPT ![a] = @ + 1] /\ m.refs \in [Block -> Nat]
    BY <1>1 DEF Take, MemoryOK, a
  <2> QED
    BY <1>5, <2>1, <2>2, <2>3
<1>17. Pair(x) /\ x.m = Take(m) /\ x.t = t
  BY <1>2 DEF Pair
<1>18. MemoryOK(x.m) /\ x.m.failure = "no" /\ Spare(x.m) = Spare(m) - 1
  BY <1>4, <1>17 DEF Took, Consistent
<1>19. Result(k, B, c, x)
  BY <1>7, <1>15, <1>17, <1>18 DEF Result, D
<1> QED
  BY <1>5, <1>16, <1>17, <1>18, <1>19 DEF Grew, a, t, x

\* One table replaced: its shape and the allocator's state are all there is to show.
LEMMA GoodAt ==
    ASSUME NEW k, NEW n, NEW B \in Tables, \A s \in Table : Shaped(B[s]), NEW c \in Table, NEW t,
           Shaped(t),
           Consistent(n, Held(At(B, c, t)), Names(k, At(B, c, t)), Contents(At(B, c, t)))
    PROVE  Good(k, n, At(B, c, t))
<1>1. t \in Seq(Slot)
  BY DEF Shaped
<1>2. At(B, c, t) \in Tables /\ \A s \in Table : Shaped(At(B, c, t)[s])
  BY <1>1, AtFacts
<1> QED
  BY <1>2 DEF Good, Tables

\* A table's shape depends on its tokens only.
LEMMA ShapedSame ==
    ASSUME NEW s, Shaped(s), NEW t \in Seq(Slot), SameTokens(t, s)
    PROVE  Shaped(t)
<1>1. DOMAIN t = DOMAIN s /\ \A i \in DOMAIN t : t[i].toks = s[i].toks
  BY LenProperties DEF Shaped, SameTokens
<1> QED
  BY <1>1 DEF Shaped

Wrote(k, B, c, m, cost, x) ==
    /\ Result(k, B, c, x) /\ SameTokens(x.t, B[c])
    /\ x.m.failure = "no" => Spare(x.m) >= Spare(m) - cost

\* Doing nothing is a write without a cost.
LEMMA UnchangedWrote ==
    ASSUME NEW k, NEW m, NEW B, NEW c \in Table, Good(k, m, B)
    PROVE  Wrote(k, B, c, m, 0, [m |-> m, t |-> B[c]])
<1>1. B \in Tables /\ MemoryOK(m) /\ m.failure = "no" /\ Shaped(B[c])
  BY GoodFacts
<1>2. At(B, c, B[c]) = B
  BY <1>1, AtFacts DEF Shaped
<1>3. Spare(m) >= Spare(m) - 0
  BY <1>1, SpareIsNat
<1> QED
  BY <1>1, <1>2, <1>3 DEF Wrote, Result, SameTokens, Pair

\* A block that its only holder has filled is registered, or given back for the block
\* that is already known under its hash.
LEMMA PromoteKeeps ==
    ASSUME NEW m, NEW B, NEW c \in Table, NEW i \in DOMAIN B[c], Good(caching, m, B),
           m.refs[B[c][i].id] = 1
    PROVE  Wrote(caching, B, c, m, 0, PromoteBlock([m |-> m, t |-> B[c]], i))
<1> DEFINE k == caching
           C == Held(B)
           N == Names(k, B)
           P == Contents(B)
           e == <<c, i>>
           h == HashOf(B[c], i)
           b == B[c][i].id
           r == [m |-> m, t |-> B[c]]
           x == PromoteBlock(r, i)
<1>1. /\ B \in Tables /\ MemoryOK(m) /\ m.failure = "no" /\ Shaped(B[c])
      /\ Consistent(m, C, N, P) /\ B[c] \in Seq(Slot) /\ \A s \in Table : Shaped(B[s])
  BY GoodFacts
<1>2. h = N[e] /\ e \in Entry /\ e[1] = c /\ e[2] = i
  BY <1>1, HashIsName
<1>3. h \in Seq(Token) /\ Linked(N, P)
  BY <1>1, <1>2, LabelFacts
<1>4. b \in Block
  <2>1. B[c][i] \in Slot
    BY <1>1, ElementOfSeq, LenProperties
  <2> QED
    BY <2>1 DEF Slot
<1>5. e \in C[b] /\ \A a \in Block \ {b} : e \notin C[a]
  BY <1>1, <1>2, <1>4, HeldFacts
<1>6. C[b] = {e}
  BY <1>1, <1>4, <1>5, HeldCounts
<1>7. r.m = m /\ r.t = B[c] /\ At(B, c, B[c]) = B
  BY <1>1, AtFacts
<1> HIDE DEF C, N, P, e, h, b, k
<1>8. CASE h = <<>>
  <2>1. x = r
    BY <1>7, <1>8 DEF PromoteBlock, h
  <2> QED
    BY <2>1, UnchangedWrote
<1>9. CASE h # <<>> /\ h \notin Hashes(m.cached)
  <2> DEFINE n == [m EXCEPT !.cached = @ \union {[hash |-> h, id |-> b]}]
  <2>1. x = [r EXCEPT !.m.cached = @ \union {[hash |-> h, id |-> b]}]
    BY <1>1, <1>7, <1>9 DEF PromoteBlock, h, b
  <2>2. x = [m |-> n, t |-> B[c]]
    BY <2>1, Zenon
  <2>3. N[e] \in Seq(Token) \ {<<>>}
    BY <1>2, <1>3, <1>9
  <2>4. Consistent(n, C, N, P) /\ Spare(n) = Spare(m)
    BY <1>1, <1>2, <1>4, <1>6, <1>9, <2>3, RegisterKeeps
  <2> HIDE DEF n
  <2>5. Consistent(n, Held(B), Names(k, B), Contents(B))
    BY <2>4 DEF C, N, P
  <2>6. Good(k, n, B)
    BY <1>1, <2>5 DEF Good, Tables
  <2>7. Wrote(k, B, c, n, 0, x)
    BY <2>2, <2>6, UnchangedWrote
  <2> QED
    BY <2>2, <2>4, <2>7 DEF Wrote, k
<1>10. CASE h # <<>> /\ h \in Hashes(m.cached)
  <2> DEFINE n == GiveBack(m, b, h)
             D == [C EXCEPT ![b] = @ \ {e}]
             q == Share(n, h)
             a == Cached(n, h)
             t == [B[c] EXCEPT ![i].id = a]
  <2>1. GaveBack(m, C, N, P, b, e, n)
    BY <1>1, <1>2, <1>3, <1>4, <1>5, GiveBackKeeps
  <2>2. x = IF n.failure # "no" THEN [r EXCEPT !.m = n] ELSE [m |-> q, t |-> t]
    <3> HIDE DEF q
    <3>1. x = LET w == GiveBack(r.m, r.t[i].id, HashOf(r.t, i))
              IN IF w.failure # "no" THEN [r EXCEPT !.m = w]
                 ELSE [m |-> Share(w, HashOf(r.t, i)),
                       t |-> [r.t EXCEPT ![i].id = Cached(w, HashOf(r.t, i))]]
      BY <1>1, <1>7, <1>10 DEF PromoteBlock, h
    <3>2. r.t[i].id = b /\ HashOf(r.t, i) = h
      BY <1>7 DEF b, h
    <3> QED
      BY <1>7, <3>1, <3>2, Zenon DEF q
  <2> HIDE DEF n, x
  <2>3. CASE n.failure # "no"
    <3>1. x = [m |-> n, t |-> B[c]]
      BY <2>2, <2>3
    <3>2. MemoryOK(n) /\ n.failure = "AssertionError"
      BY <2>1, <2>3 DEF GaveBack
    <3>3. Result(k, B, c, x) /\ SameTokens(x.t, B[c])
      BY <1>1, <3>1, <3>2 DEF Result, Pair, SameTokens
    <3> QED
      BY <3>1, <3>2, <3>3 DEF Wrote, k, x
  <2>4. CASE n.failure = "no"
    <3>1. Consistent(n, D, N, P) /\ n.cached = m.cached /\ Spare(n) = Spare(m) + 1
      BY <2>1, <2>4 DEF GaveBack, b
    <3>2. \A d \in Block : e \notin D[d]
      <4>1. C \in [Block -> SUBSET Entry]
        BY <1>1 DEF Consistent
      <4> QED
        BY <1>4, <1>5, <4>1
    <3>3. N[e] \in Hashes(n.cached)
      BY <1>2, <1>10, <3>1
    <3> HIDE DEF D
    <3>4. Shared(n, D, N, P, h, e, q)
      BY <1>2, <1>3, <3>1, <3>2, <3>3, ShareKeeps
    <3>5. /\ a \in Block /\ Consistent(q, [D EXCEPT ![a] = @ \union {e}], N, P)
          /\ Spare(q) >= Spare(n) - 1
      BY <3>4 DEF Shared
    <3> HIDE DEF a, q
    <3>6. /\ t \in Seq(Slot) /\ Len(t) = Len(B[c]) /\ DOMAIN t = DOMAIN B[c]
          /\ \A j \in DOMAIN t : t[j].toks = B[c][j].toks
          /\ Held(At(B, c, t)) = Moved(Held(B), B[c][i].id, a, <<c, i>>)
          /\ Names(k, At(B, c, t)) = Names(k, B)
          /\ Contents(At(B, c, t)) = Contents(B)
      <4>1. i \in DOMAIN B[c] /\ c \in Table /\ B \in Tables
        BY <1>1
      <4>2. Exchanged(B, c, i, a)
        BY <3>5, <4>1, MoveFacts
      <4> QED
        BY <4>2 DEF Exchanged
    <3>7. Held(At(B, c, t)) = [D EXCEPT ![a] = @ \union {e}]
      BY <3>6 DEF Moved, D, C, b, e
    <3>8. x = [m |-> q, t |-> t]
      BY <2>2, <2>4
    <3> HIDE DEF t
    <3>9. SameTokens(t, B[c])
      BY <3>6 DEF SameTokens
    <3>10. Shaped(t)
      BY <1>1, <3>6, <3>9, ShapedSame
    <3>11. Consistent(q, Held(At(B, c, t)), Names(k, At(B, c, t)), Contents(At(B, c, t)))
      BY <3>5, <3>6, <3>7 DEF N, P
    <3>12. Good(k, q, At(B, c, t))
      BY <1>1, <3>10, <3>11, GoodAt
    <3>13. MemoryOK(q) /\ q.failure = "no"
      BY <3>5 DEF Consistent
    <3>14. Result(k, B, c, x)
      BY <3>8, <3>10, <3>12, <3>13 DEF Result, Pair
    <3>15. Spare(m) \in Nat /\ Spare(n) \in Nat /\ Spare(q) \in Nat
      <4>1. MemoryOK(n)
        BY <3>1 DEF Consistent
      <4> QED
        BY <1>1, <3>13, <4>1, SpareIsNat
    <3>16. Spare(q) >= Spare(m) - 0
      BY <3>1, <3>5, <3>15
    <3> QED
      BY <3>8, <3>9, <3>14, <3>16 DEF Wrote, k, x
  <2> QED
    BY <2>3, <2>4
<1> QED
  BY <1>8, <1>9, <1>10

\* More tokens in the block of a table that is filled next.
Written(B, c, i, y, t) ==
    /\ Shaped(t) /\ Len(t) = Len(B[c]) /\ DOMAIN t = DOMAIN B[c]
    /\ \A j \in DOMAIN t : t[j].id = B[c][j].id
    /\ \A j \in DOMAIN t \ {i} : t[j].toks = B[c][j].toks
    /\ t[i].toks = B[c][i].toks \o y
    /\ Held(At(B, c, t)) = Held(B)
    /\ \A k : Names(k, B)[<<c, i>>] = <<>>
    /\ \A k : \A f \in Entry \ {<<c, i>>} :
          /\ Names(k, At(B, c, t))[f] = Names(k, B)[f]
          /\ Contents(At(B, c, t))[f] = Contents(B)[f]

Fillable(s, i, y) ==
    /\ Shaped(s) /\ i \in DOMAIN s /\ y \in Seq(Token) /\ y # <<>>
    /\ Len(s[i].toks) + Len(y) <= PerBlock
    /\ \A j \in DOMAIN s : j < i => Len(s[j].toks) = PerBlock

\* Tokens written into a block change no words before it.
LEMMA WrittenFacts ==
    ASSUME NEW B \in Tables, NEW c \in Table, NEW i, NEW y, Fillable(B[c], i, y)
    PROVE  Written(B, c, i, y, [B[c] EXCEPT ![i].toks = @ \o y])
<1> DEFINE s == B[c]
           t == [B[c] EXCEPT ![i].toks = @ \o y]
           e == <<c, i>>
           D == At(B, c, t)
<1>1. /\ s \in Seq(Slot) /\ DOMAIN s = 1 .. Len(s) /\ Len(s) \in Nat /\ i \in DOMAIN s
      /\ \A j \in DOMAIN s : s[j] \in Slot
  BY LenProperties, ElementOfSeq DEF Tables, Fillable
<1>2. \A j \in DOMAIN s : /\ s[j].toks \in Seq(Token) /\ Len(s[j].toks) \in Nat /\ s[j].id \in Block
                          /\ Len(s[j].toks) = 0 <=> s[j].toks = <<>>
  <2> HIDE DEF s
  <2>1. \A j \in DOMAIN s : s[j].toks \in Seq(Token) /\ s[j].id \in Block
    BY <1>1 DEF Slot
  <2> QED
    BY <2>1, LenProperties, EmptySeq
<1>3. y \in Seq(Token) /\ Len(y) \in Nat /\ Len(y) > 0
  BY EmptySeq, LenProperties DEF Fillable
<1>4. s[i].toks \o y \in Seq(Token) /\ Len(s[i].toks \o y) = Len(s[i].toks) + Len(y)
  BY <1>1, <1>2, <1>3, ConcatProperties
<1>5. /\ t = [j \in DOMAIN s |-> IF j = i THEN [s[i] EXCEPT !.toks = s[i].toks \o y] ELSE s[j]]
      /\ DOMAIN t = DOMAIN s
  BY <1>1
<1>6. /\ \A x \in Table \ {c} : D[x] = B[x]
      /\ Len(s[i].toks) + Len(y) <= PerBlock /\ PerBlock \in Nat
      /\ \A j \in DOMAIN s : j < i => Len(s[j].toks) = PerBlock
      /\ Shaped(s)
  BY V2Assumption DEF Fillable, At, Tables
<1>7. e \in Entry /\ e[1] = c /\ e[2] = i
  BY <1>1 DEF Entry
<1>8. s = B[c]
  OBVIOUS
<1> HIDE DEF s, t, e
<1>9. \A j \in DOMAIN t \ {i} : t[j] = s[j]
  BY <1>5
<1>10. /\ t[i].toks = s[i].toks \o y /\ t[i].id = s[i].id
       /\ t[i] = [id |-> s[i].id, toks |-> s[i].toks \o y]
  <2>1. s[i] \in [id : Block, toks : Seq(Token)]
    BY <1>1 DEF Slot
  <2> QED
    BY <1>1, <1>5, <2>1
<1>11. \A j \in DOMAIN t : t[j] \in Slot
  <2>1. t[i] \in Slot
    BY <1>1, <1>2, <1>4, <1>10 DEF Slot
  <2> QED
    BY <1>1, <1>5, <1>9, <2>1
<1>12. t \in Seq(Slot) /\ Len(t) = Len(s)
  <2>1. t = [j \in 1 .. Len(s) |-> t[j]] /\ \A j \in 1 .. Len(s) : t[j] \in Slot
    BY <1>1, <1>5, <1>11
  <2>2. t \in Seq(Slot)
    BY <1>1, <2>1, TableIsSeq
  <2>3. DOMAIN t = 1 .. Len(t) /\ DOMAIN t = 1 .. Len(s) /\ Len(t) \in Nat
    BY <1>1, <1>5, <2>2, LenProperties
  <2>4. \A p, q \in Nat : 1 .. p = 1 .. q => p = q
    <3> SUFFICES ASSUME NEW p \in Nat, NEW q \in Nat, 1 .. p = 1 .. q PROVE p = q
      OBVIOUS
    <3>1. p > 0 => p \in 1 .. q
      OBVIOUS
    <3>2. q > 0 => q \in 1 .. p
      OBVIOUS
    <3> QED
      BY <3>1, <3>2
  <2> QED
    BY <1>1, <2>2, <2>3, <2>4
<1>13. \A j \in DOMAIN s : j > i => s[j].toks = <<>>
  <2> SUFFICES ASSUME NEW j \in DOMAIN s, j > i, s[j].toks # <<>> PROVE FALSE
    OBVIOUS
  <2>1. Len(s[i].toks) = PerBlock
    BY <1>1, <1>6 DEF Shaped
  <2> QED
    BY <1>1, <1>2, <1>3, <1>6, <2>1
<1>14. Shaped(t)
  <2>1. \A j \in DOMAIN t : Len(t[j].toks) <= PerBlock
    BY <1>1, <1>2, <1>4, <1>5, <1>6, <1>9, <1>10 DEF Shaped
  <2>2. ASSUME NEW p \in DOMAIN t, NEW j \in DOMAIN t, p < j, t[j].toks # <<>>
        PROVE  Len(t[p].toks) = PerBlock
    <3>1. j <= i
      BY <1>1, <1>5, <1>9, <1>13, <2>2
    <3>2. p < i /\ p \in DOMAIN s
      BY <1>1, <1>5, <2>2, <3>1
    <3> QED
      BY <1>1, <1>5, <1>6, <1>9, <3>2
  <2> QED
    BY <1>12, <2>1, <2>2 DEF Shaped
<1>15. D \in Tables /\ D[c] = t
  BY <1>12 DEF At, Tables
<1> HIDE DEF D
<1>16. \A j \in DOMAIN t : t[j].id = s[j].id
  BY <1>9, <1>10
<1>17. Held(D) = Held(B)
  <2>1. ASSUME NEW x \in Table PROVE DOMAIN D[x] = DOMAIN B[x] /\ \A j \in DOMAIN B[x] : D[x][j].id = B[x][j].id
    BY <1>5, <1>6, <1>8, <1>15, <1>16
  <2>2. /\ Held(B) \in [Block -> SUBSET Entry] /\ Held(D) \in [Block -> SUBSET Entry]
    BY <1>15, HeldFacts
  <2>3. ASSUME NEW b \in Block, NEW f \in Entry PROVE f \in Held(D)[b] <=> f \in Held(B)[b]
    BY <1>15, <2>1, HeldFacts, EntryFacts
  <2>4. \A b \in Block : Held(D)[b] = Held(B)[b]
    BY <2>2, <2>3
  <2> QED
    BY <2>2, <2>4
<1>18. \A k : Names(k, B)[e] = <<>>
  <2>1. Len(s[i].toks) # PerBlock
    BY <1>1, <1>2, <1>3, <1>6
  <2> QED
    BY <1>7, <1>8, <2>1, NoLabels
<1>19. ASSUME NEW k, NEW f \in Entry, f # e
       PROVE  Names(k, D)[f] = Names(k, B)[f] /\ Contents(D)[f] = Contents(B)[f]
  <2>1. f[1] \in Table /\ f[2] \in Nat \ {0} /\ (f[1] = c => f[2] # i)
    BY <1>7, <1>19, EntryFacts
  <2>2. DOMAIN D[f[1]] = DOMAIN B[f[1]] /\ B[f[1]] \in Seq(Slot)
    BY <1>5, <1>6, <1>8, <1>15, <2>1 DEF Tables
  <2>3. CASE f[2] \in DOMAIN B[f[1]] /\ (f[1] = c => f[2] < i)
    <3>1. \A j \in 1 .. f[2] : j \in DOMAIN B[f[1]]
      BY <2>1, <2>2, <2>3, LenProperties
    <3>2. \A j \in 1 .. f[2] : D[f[1]][j].toks = B[f[1]][j].toks
      <4>1. CASE f[1] = c
        <5>1. \A j \in 1 .. f[2] : j \in DOMAIN t \ {i}
          BY <1>1, <1>5, <1>8, <2>1, <2>3, <3>1, <4>1
        <5> QED
          BY <1>8, <1>9, <1>15, <4>1, <5>1
      <4>2. CASE f[1] # c
        BY <1>6, <2>1, <4>2
      <4> QED
        BY <4>1, <4>2
    <3> QED
      BY <1>15, <2>2, <2>3, <3>2, LabelsSame
  <2>4. CASE f[2] \in DOMAIN B[f[1]] /\ f[1] = c /\ ~(f[2] < i)
    <3>1. f[2] > i /\ f[2] \in DOMAIN s
      BY <1>1, <1>8, <2>1, <2>4
    <3>2. s[f[2]].toks = <<>> /\ t[f[2]].toks = <<>> /\ f[2] \in DOMAIN t
      BY <1>5, <1>9, <1>13, <2>1, <2>4, <3>1
    <3>3. /\ Len(B[f[1]][f[2]].toks) # PerBlock /\ B[f[1]][f[2]].toks = <<>>
          /\ Len(D[f[1]][f[2]].toks) # PerBlock /\ D[f[1]][f[2]].toks = <<>>
      BY <1>8, <1>15, <2>4, <3>2, EmptyTokens
    <3> QED
      BY <1>15, <3>3, NoLabels
  <2>5. CASE f[2] \notin DOMAIN B[f[1]]
    BY <1>15, <2>2, <2>5, NoLabels
  <2> QED
    BY <2>3, <2>4, <2>5
<1>20. /\ Held(At(B, c, t)) = Held(B)
       /\ \A k : \A f \in Entry \ {e} :
             /\ Names(k, At(B, c, t))[f] = Names(k, B)[f]
             /\ Contents(At(B, c, t))[f] = Contents(B)[f]
  BY <1>17, <1>19 DEF D
<1>21. Written(B, c, i, y, t)
  BY <1>5, <1>8, <1>9, <1>10, <1>12, <1>14, <1>16, <1>18, <1>20 DEF Written, e
<1> QED
  BY <1>21 DEF t

\* A result for one version of a table is one for the tables as they were.
LEMMA ResultAt ==
    ASSUME NEW k, NEW B \in Tables, NEW c \in Table, NEW t \in Seq(Slot), NEW x,
           Result(k, At(B, c, t), c, x)
    PROVE  Result(k, B, c, x)
BY AtFacts DEF Result

\* The promotion of a block that the table has just been given.
LEMMA PromoteNew ==
    ASSUME NEW n, NEW B \in Tables, NEW c \in Table, NEW t, NEW i \in DOMAIN t,
           Shaped(t), Good(caching, n, At(B, c, t)), n.refs[t[i].id] = 1
    PROVE  LET x == PromoteBlock([m |-> n, t |-> t], i)
           IN /\ Result(caching, B, c, x) /\ SameTokens(x.t, t)
              /\ x.m.failure = "no" => Spare(x.m) >= Spare(n) - 0
<1> DEFINE D == At(B, c, t)
           x == PromoteBlock([m |-> n, t |-> t], i)
<1>1. t \in Seq(Slot)
  BY DEF Shaped
<1>2. D[c] = t
  BY <1>1, AtFacts
<1>3. D[c] = t /\ i \in DOMAIN D[c] /\ n.refs[D[c][i].id] = 1
  BY <1>2
<1> HIDE DEF D
<1>4. Good(caching, n, D)
  BY DEF D
<1>5. Wrote(caching, D, c, n, 0, PromoteBlock([m |-> n, t |-> D[c]], i))
  BY <1>3, <1>4, PromoteKeeps
<1>6. Wrote(caching, D, c, n, 0, x)
  BY <1>3, <1>5
<1> HIDE DEF x
<1>7. Result(caching, B, c, x)
  BY <1>1, <1>6, ResultAt DEF Wrote, D
<1>8. /\ Result(caching, B, c, x) /\ SameTokens(x.t, t)
      /\ x.m.failure = "no" => Spare(x.m) >= Spare(n) - 0
  BY <1>3, <1>6, <1>7 DEF Wrote
<1> QED
  BY <1>8 DEF x

\* Tokens into one block: copied first if it is shared, which costs a spare block, then
\* filled, then promoted if it is full.
LEMMA WriteKeeps ==
    ASSUME NEW m, NEW B, NEW c \in Table, NEW i, NEW y, Good(caching, m, B),
           Fillable(B[c], i, y), m.refs[B[c][i].id] > 1 => CanTake(m)
    PROVE  LET x == Write([m |-> m, t |-> B[c]], i, y)
               cost == IF m.refs[B[c][i].id] > 1 THEN 1 ELSE 0
           IN /\ Result(caching, B, c, x)
              /\ SameTokens(x.t, [B[c] EXCEPT ![i].toks = @ \o y])
              /\ x.m.failure = "no" => Spare(x.m) >= Spare(m) - cost
<1> DEFINE k == caching
           C == Held(B)
           N == Names(k, B)
           P == Contents(B)
           e == <<c, i>>
           b == B[c][i].id
           t == [B[c] EXCEPT ![i].toks = @ \o y]
           D == At(B, c, t)
           O == Names(k, D)
           Q == Contents(D)
           r == [m |-> m, t |-> t]
           x == Write([m |-> m, t |-> B[c]], i, y)
           cost == IF m.refs[b] > 1 THEN 1 ELSE 0
<1>1. /\ B \in Tables /\ MemoryOK(m) /\ m.failure = "no" /\ Shaped(B[c])
      /\ Consistent(m, C, N, P) /\ B[c] \in Seq(Slot) /\ \A s \in Table : Shaped(B[s])
      /\ i \in DOMAIN B[c]
  BY GoodFacts DEF Fillable
<1>2. Written(B, c, i, y, t)
  BY <1>1, WrittenFacts
<1>3. b \in Block
  <2>1. B[c][i] \in Slot
    BY <1>1, ElementOfSeq, LenProperties
  <2> QED
    BY <2>1 DEF Slot
<1>4. e \in Entry /\ e[1] = c /\ e[2] = i
  BY <1>1, HashIsName
<1>5. e \in C[b] /\ \A a \in Block \ {b} : e \notin C[a]
  BY <1>1, <1>3, <1>4, HeldFacts
<1>6. m.refs[b] \in Nat /\ m.refs[b] # 0 /\ (m.refs[b] = 1 => C[b] = {e})
  BY <1>1, <1>3, <1>5, HeldCounts
<1>7. x = PromoteBlock(CopyOnWrite(r, i), i)
  <2>1. [[m |-> m, t |-> B[c]] EXCEPT !.t[i].toks = @ \o y] = r
    <3> DEFINE z == [m |-> m, t |-> B[c]]
    <3>1. z.t = B[c]
      OBVIOUS
    <3>2. \A v : [z EXCEPT !.t = v] = [m |-> m, t |-> v]
      OBVIOUS
    <3> HIDE DEF z
    <3>3. [z EXCEPT !.t[i].toks = @ \o y] = [z EXCEPT !.t = [z.t EXCEPT ![i].toks = z.t[i].toks \o y]]
      OBVIOUS
    <3> QED
      BY <3>1, <3>2, <3>3, Zenon DEF z
  <2> QED
    BY <1>1, <2>1, Zenon DEF Write
<1>8. r.m = m /\ r.t = t
  OBVIOUS
<1>9. \A a \in Block : C[a] \subseteq Entry
  BY <1>1 DEF Consistent
<1> HIDE DEF C, N, P, e, b, t, D, x, r
<1>10. /\ Shaped(t) /\ Len(t) = Len(B[c]) /\ DOMAIN t = DOMAIN B[c] /\ t[i].id = b
       /\ Held(D) = C /\ N[e] = <<>>
       /\ \A f \in Entry \ {e} : O[f] = N[f] /\ Q[f] = P[f]
  <2>1. \A f \in Entry \ {e} : O[f] = N[f] /\ Q[f] = P[f]
    BY <1>2, Zenon DEF Written, D, N, P, e
  <2> QED
    BY <1>1, <1>2, <2>1 DEF Written, D, N, C, b, e
<1>11. t \in Seq(Slot) /\ D \in Tables /\ D[c] = t
  BY <1>1, <1>10, AtFacts DEF Shaped, D
<1>12. CASE m.refs[b] <= 1
  <2>1. C[b] = {e} /\ m.refs[b] = 1
    BY <1>6, <1>12
  <2>2. Relabelled(C, N, P, O, Q)
    BY <1>9, <1>10, <2>1, <1>5, <1>3 DEF Relabelled
  <2>3. Consistent(m, Held(D), O, Q)
    BY <1>1, <1>10, <2>2, RelabelKeeps
  <2>4. Good(k, m, At(B, c, t))
    BY <1>1, <1>10, <2>3, GoodAt DEF D
  <2>5. CopyOnWrite(r, i) = [m |-> m, t |-> t]
    <3>1. r.m.refs[r.t[i].id] <= 1
      BY <1>8, <1>10, <1>12
    <3> QED
      BY <3>1 DEF CopyOnWrite, r
  <2> DEFINE q == [m |-> m, t |-> t]
             w == PromoteBlock(q, i)
  <2>6. /\ Result(k, B, c, w) /\ SameTokens(w.t, t)
        /\ w.m.failure = "no" => Spare(w.m) >= Spare(m) - 0
    BY <1>1, <1>10, <2>1, <2>4, PromoteNew
  <2>7. x = w
    BY <1>7, <2>5
  <2>8. cost = 0
    BY <1>12, <1>6
  <2> HIDE DEF w, cost, k
  <2> QED
    BY <2>6, <2>7, <2>8 DEF x, t, k, cost, b
<1>13. CASE m.refs[b] > 1
  <2> DEFINE h == HashOf(t, i)
             n == GiveBack(m, b, h)
             E == [C EXCEPT ![b] = @ \ {e}]
             a == Taken(n)
             F == [E EXCEPT ![a] = {e}]
             u == [t EXCEPT ![i].id = a]
             G == At(B, c, u)
             q == [m |-> Take(n), t |-> u]
             w == PromoteBlock(q, i)
  <2>1. h \in Seq(Token)
    <3>1. h = Names(caching, D)[<<c, i>>] /\ <<c, i>> \in Entry
      BY <1>1, <1>10, <1>11, HashIsName
    <3> QED
      BY <1>11, <3>1, LabelFacts
  <2>2. GaveBack(m, C, N, P, b, e, n)
    BY <1>1, <1>3, <1>5, <1>13, <2>1, GiveBackKeeps
  <2>3. n = [m EXCEPT !.refs[b] = @ - 1]
    BY <1>13 DEF GiveBack
  <2>4. n.failure = "no"
    BY <1>1, <2>3 DEF MemoryOK
  <2>5. Consistent(n, E, N, P) /\ Spare(n) = Spare(m)
    <3>1. Spare(m) \in Nat /\ m.refs[b] # 1
      BY <1>1, <1>6, <1>13, SpareIsNat
    <3> QED
      BY <2>2, <2>4, <3>1 DEF GaveBack
  <2>6. E \in [Block -> SUBSET Entry] /\ E[b] # {} /\ (\A d \in Block : e \notin E[d])
    <3>1. C \in [Block -> SUBSET Entry]
      BY <1>1 DEF Consistent
    <3>2. E \in [Block -> SUBSET Entry] /\ (\A d \in Block : e \notin E[d])
      BY <1>3, <1>5, <3>1
    <3>3. n.refs[b] # 0
      <4>1. n.refs[b] = m.refs[b] - 1
        BY <1>1, <1>3, <2>3 DEF MemoryOK
      <4> QED
        BY <1>6, <1>13, <4>1
    <3> HIDE DEF E, n
    <3> QED
      BY <1>3, <2>5, <3>2, <3>3, HeldCounts
  <2> HIDE DEF n, h, E
  <2>7. Relabelled(E, N, P, O, Q)
    BY <1>10, <2>6 DEF Relabelled
  <2>8. Consistent(n, E, O, Q)
    BY <2>5, <2>7, RelabelKeeps
  <2>9. CanTake(n)
    <3>1. CanTake(m)
      BY <1>13 DEF b
    <3>2. MemoryOK(n)
      BY <2>5 DEF Consistent
    <3> QED
      BY <1>1, <2>5, <3>1, <3>2, SpareIsNat
  <2>10. Took(n, E, O, Q, e, Take(n))
    BY <1>4, <2>8, <2>9, TakeKeeps
  <2>11. /\ a \in Block /\ E[a] = {} /\ Consistent(Take(n), F, O, Q)
         /\ Take(n).refs[a] = 1 /\ Spare(Take(n)) = Spare(n) - 1
    BY <2>10 DEF Took
  <2>12. CopyOnWrite(r, i) = q
    <3>1. r.t[i].id = b /\ HashOf(r.t, i) = h /\ r.m = m /\ r.t = t
      BY <1>8, <1>10 DEF h
    <3>2. ~(r.m.refs[b] <= 1)
      BY <1>6, <1>13, <3>1
    <3>3. GiveBack(r.m, r.t[i].id, HashOf(r.t, i)) = n
      BY <3>1 DEF n
    <3> HIDE DEF r, h
    <3>4. CopyOnWrite(r, i) = [m |-> Take(n), t |-> [r.t EXCEPT ![i].id = Taken(n)]]
      BY <2>9, <3>1, <3>2, <3>3, Zenon DEF CopyOnWrite
    <3> QED
      BY <3>1, <3>4
  <2> HIDE DEF a, F
  <2>13. /\ u \in Seq(Slot) /\ Len(u) = Len(t) /\ DOMAIN u = DOMAIN t
         /\ \A j \in DOMAIN u : u[j].toks = t[j].toks
         /\ Held(At(D, c, u)) = Moved(Held(D), b, a, e)
         /\ Names(k, At(D, c, u)) = O
         /\ Contents(At(D, c, u)) = Q
    <3> DEFINE v == [D[c] EXCEPT ![i].id = a]
    <3>1. i \in DOMAIN D[c] /\ D[c][i].id = b
      BY <1>1, <1>10, <1>11
    <3>2. /\ v \in Seq(Slot) /\ Len(v) = Len(D[c]) /\ DOMAIN v = DOMAIN D[c]
          /\ \A j \in DOMAIN v : v[j].toks = D[c][j].toks
          /\ Held(At(D, c, v)) = Moved(Held(D), D[c][i].id, a, <<c, i>>)
          /\ Names(k, At(D, c, v)) = Names(k, D)
          /\ Contents(At(D, c, v)) = Contents(D)
      <4>1. Exchanged(D, c, i, a)
        <5> HIDE DEF D, v
        <5> QED
          BY <1>11, <2>11, <3>1, MoveFacts
      <4> HIDE DEF k, D
      <4> QED
        BY <4>1 DEF Exchanged
    <3>3. u = v
      BY <1>11
    <3> HIDE DEF u, v
    <3> QED
      BY <1>11, <3>1, <3>2, <3>3 DEF e
  <2>14. At(D, c, u) = G
    BY <1>1, <1>11, AtFacts DEF D
  <2>15. u[i].id = a /\ i \in DOMAIN u
    <3>1. t[i] \in Slot /\ i \in DOMAIN t
      BY <1>1, <1>10, <1>11, ElementOfSeq, LenProperties
    <3> QED
      BY <3>1, <2>13 DEF Slot
  <2> HIDE DEF u, G
  <2>16. Held(G) = F
    <3>1. Held(G) = [E EXCEPT ![a] = @ \union {e}]
      BY <1>10, <2>13, <2>14 DEF Moved, E
    <3>2. [E EXCEPT ![a] = @ \union {e}] = [E EXCEPT ![a] = {e}]
      BY <2>6, <2>11
    <3> QED
      BY <3>1, <3>2 DEF F
  <2>17. SameTokens(u, t)
    BY <2>13 DEF SameTokens
  <2>18. Shaped(u)
    BY <1>10, <2>13, <2>17, ShapedSame
  <2>19. Good(k, Take(n), At(B, c, u))
    <3>1. Consistent(Take(n), Held(G), Names(k, G), Contents(G))
      BY <2>11, <2>13, <2>14, <2>16
    <3> QED
      BY <1>1, <2>18, <3>1, GoodAt DEF G
  <2>20. /\ Result(k, B, c, w) /\ SameTokens(w.t, u)
         /\ w.m.failure = "no" => Spare(w.m) >= Spare(Take(n)) - 0
    BY <1>1, <2>11, <2>15, <2>18, <2>19, PromoteNew
  <2>21. x = w
    BY <1>7, <2>12
  <2> HIDE DEF w, q
  <2>22. SameTokens(w.t, t)
    BY <2>13, <2>17, <2>20 DEF SameTokens, Result, Shaped
  <2>23. w.m.failure = "no" => Spare(w.m) >= Spare(m) - 1
    <3>1. Spare(m) \in Nat
      BY <1>1, SpareIsNat
    <3> QED
      BY <2>5, <2>11, <2>20, <3>1
  <2>24. cost = 1
    BY <1>13
  <2> HIDE DEF cost, k
  <2> QED
    BY <2>20, <2>21, <2>22, <2>23, <2>24 DEF x, t, k, cost, b
<1> QED
  BY <1>6, <1>12, <1>13

\* What a full hash is depends on the tokens of the table only.
LEMMA HashOfTokens ==
    ASSUME NEW s \in Seq(Slot), NEW a \in Block, NEW y \in Seq(Token)
    PROVE  HashOf(Append(s, [id |-> 0, toks |-> y]), Len(s) + 1)
              = HashOf(Append(s, [id |-> a, toks |-> y]), Len(s) + 1)
<1> DEFINE R == [id : Block \union {0}, toks : Seq(Token)]
           t == Append(s, [id |-> 0, toks |-> y])
           u == Append(s, [id |-> a, toks |-> y])
           n == Len(s) + 1
<1>1. s \in Seq(R)
  <2>1. \A i \in DOMAIN s : s[i] \in R
    <3>1. \A i \in DOMAIN s : s[i] \in Slot
      BY ElementOfSeq, LenProperties
    <3> QED
      BY <3>1 DEF Slot
  <2>2. s = [i \in 1 .. Len(s) |-> s[i]] /\ Len(s) \in Nat /\ DOMAIN s = 1 .. Len(s)
    BY LenProperties
  <2> HIDE DEF R
  <2> QED
    BY <2>1, <2>2, TableIsSeq
<1>2. [id |-> 0, toks |-> y] \in R /\ [id |-> a, toks |-> y] \in R
  OBVIOUS
<1> HIDE DEF R
<1>3. /\ t \in Seq(R) /\ Len(t) = n /\ \A j \in 1 .. Len(s) : t[j] = s[j]
      /\ t[n] = [id |-> 0, toks |-> y] /\ DOMAIN t = 1 .. Len(t)
  BY <1>1, <1>2, AppendProperties, LenProperties
<1>4. /\ u \in Seq(R) /\ Len(u) = n /\ \A j \in 1 .. Len(s) : u[j] = s[j]
      /\ u[n] = [id |-> a, toks |-> y] /\ DOMAIN u = 1 .. Len(u)
  BY <1>1, <1>2, AppendProperties, LenProperties
<1>5. Len(s) \in Nat
  BY LenProperties
<1> HIDE DEF t, u
<1>6. \A j \in 1 .. n : t[j].toks = u[j].toks
  <2>1. \A j \in 1 .. n : j \in 1 .. Len(s) \/ j = n
    BY <1>5
  <2> QED
    BY <1>3, <1>4, <2>1
<1>7. n \in Nat /\ n <= Len(t) /\ n <= Len(u)
  BY <1>3, <1>4, <1>5
<1> HIDE DEF n
<1>8. Prefix(t, n) = Prefix(u, n)
  BY <1>3, <1>4, <1>6, <1>7, PrefixSame
<1>9. HashOf(t, n) = HashOf(u, n)
  BY <1>6, <1>8 DEF HashOf, Prefix
<1> QED
  BY <1>9 DEF t, u, n

Chunked(k, B, c, m, y, x) ==
    /\ Result(k, B, c, x) /\ Len(x.t) = Len(B[c]) + 1
    /\ \A j \in DOMAIN B[c] : x.t[j].toks = B[c][j].toks
    /\ x.t[Len(x.t)].toks = y
    /\ x.m.failure = "no" => Spare(x.m) >= Spare(m) - 1

\* One chunk of a prompt costs at most one spare block.
LEMMA AllocateChunkKeeps ==
    ASSUME NEW m, NEW B, NEW c \in Table, Good(caching, m, B), NEW y \in Seq(Token), y # <<>>,
           Len(y) <= PerBlock, \A j \in DOMAIN B[c] : Len(B[c][j].toks) = PerBlock, CanTake(m)
    PROVE  Chunked(caching, B, c, m, y, AllocateChunk([m |-> m, t |-> B[c]], y))
<1> DEFINE k == caching
           C == Held(B)
           N == Names(k, B)
           P == Contents(B)
           s == B[c]
           r == [m |-> m, t |-> s]
           n == Len(s) + 1
           g == Append(s, [id |-> 0, toks |-> y])
           h == HashOf(g, Len(g))
           z == Extend(r)
           x == AllocateChunk(r, y)
<1>1. /\ B \in Tables /\ MemoryOK(m) /\ m.failure = "no" /\ Shaped(s)
      /\ Consistent(m, C, N, P) /\ s \in Seq(Slot) /\ \A d \in Table : Shaped(B[d])
      /\ DOMAIN s = 1 .. Len(s) /\ Len(s) \in Nat
  BY GoodFacts
<1>2. /\ Len(g) = n /\ g = [i \in 1 .. n |-> g[i]]
      /\ g[n] = [id |-> 0, toks |-> y] /\ \A i \in 1 .. Len(s) : g[i] = s[i]
  <2> DEFINE R == {s[i] : i \in DOMAIN s} \union {[id |-> 0, toks |-> y]}
  <2>1. s \in Seq(R)
    <3>1. \A i \in 1 .. Len(s) : s[i] \in R
      BY <1>1
    <3>2. s = [i \in 1 .. Len(s) |-> s[i]]
      BY <1>1, LenProperties
    <3> HIDE DEF R, s
    <3> QED
      BY <1>1, <3>1, <3>2, TableIsSeq
  <2>2. [id |-> 0, toks |-> y] \in R
    OBVIOUS
  <2> HIDE DEF R
  <2>3. /\ g \in Seq(R) /\ Len(g) = n /\ \A i \in 1 .. Len(s) : g[i] = s[i]
        /\ g[n] = [id |-> 0, toks |-> y]
    BY <1>1, <2>1, <2>2, AppendProperties
  <2> HIDE DEF g
  <2> QED
    BY <2>3, LenProperties
<1>3. r.m = m /\ r.t = s
  OBVIOUS
<1>4. x = IF h # <<>> /\ h \in Hashes(m.cached)
          THEN [m |-> Share(m, h), t |-> [g EXCEPT ![n].id = Cached(m, h)]]
          ELSE IF z.m.failure # "no" THEN z ELSE Write(z, Len(z.t), y)
  <2> HIDE DEF z
  <2>1. x = LET w == Append(r.t, [id |-> 0, toks |-> y])
                v == HashOf(w, Len(w))
            IN IF r.m.failure = "no" /\ v # <<>> /\ v \in Hashes(r.m.cached)
               THEN [m |-> Share(r.m, v), t |-> [w EXCEPT ![Len(w)].id = Cached(r.m, v)]]
               ELSE LET e == Extend(r)
                    IN IF e.m.failure # "no" THEN e ELSE Write(e, Len(e.t), y)
    BY DEF AllocateChunk
  <2>2. Append(r.t, [id |-> 0, toks |-> y]) = g
    BY <1>3
  <2> HIDE DEF g
  <2>3. h = HashOf(g, Len(g))
    OBVIOUS
  <2> HIDE DEF r, h, n
  <2> QED
    BY <1>1, <1>2, <1>3, <2>1, <2>2, <2>3, Zenon DEF z
<1> HIDE DEF x
<1>5. CASE h # <<>> /\ h \in Hashes(m.cached)
  <2> DEFINE a == Cached(m, h)
             q == Share(m, h)
             t == Append(s, [id |-> a, toks |-> y])
             e == <<c, n>>
             D == At(B, c, t)
             O == Names(k, D)
             Q == Contents(D)
  <2>1. a \in Block
    <3>1. \E w \in m.cached : w.hash = h
      BY <1>5, Zenon DEF Hashes
    <3>2. PICK w \in m.cached : w = (CHOOSE v \in m.cached : v.hash = h)
      BY <3>1
    <3>3. a = w.id
      BY <3>2 DEF Cached
    <3>4. w \in Record
      BY <1>1, <3>2 DEF MemoryOK
    <3> QED
      BY <3>3, <3>4 DEF Record
  <2> HIDE DEF a
  <2>2. Lengthened(B, c, a, y, t, e)
    BY <1>1, <2>1, AppendFacts
  <2>3. h = HashOf(t, n)
    BY <1>1, <1>2, <2>1, HashOfTokens
  <2> HIDE DEF g, h, q, t, D, e
  <2>6. /\ t \in Seq(Slot) /\ Len(t) = n /\ \A i \in DOMAIN s : t[i] = s[i]
        /\ t[n] = [id |-> a, toks |-> y] /\ e \in Entry /\ (\A b \in Block : e \notin C[b])
        /\ Held(D) = [C EXCEPT ![a] = @ \union {e}]
        /\ \A f \in Entry : f # e => O[f] = N[f] /\ Q[f] = P[f]
    <3> HIDE DEF s, k
    <3>1. \A f \in Entry : f # e => O[f] = N[f] /\ Q[f] = P[f]
      BY <2>2, Zenon DEF Lengthened, D
    <3> QED
      BY <2>2, <3>1 DEF Lengthened, D, s
  <2>4. [g EXCEPT ![n].id = a] = t
    <3>1. n \in 1 .. n /\ n \notin 1 .. Len(s) /\ \A i \in 1 .. n : i # n => i \in 1 .. Len(s)
      BY <1>1
    <3> HIDE DEF n, s
    <3>2. [g[n] EXCEPT !.id = a] = [id |-> a, toks |-> y]
      <4>1. g[n] = [id |-> 0, toks |-> y]
        BY <1>2 DEF n
      <4>2. [[id |-> 0, toks |-> y] EXCEPT !.id = a] = [id |-> a, toks |-> y]
        OBVIOUS
      <4> QED
        BY <4>1, <4>2
    <3>3. [g EXCEPT ![n].id = a] = [i \in 1 .. n |-> IF i = n THEN [id |-> a, toks |-> y] ELSE g[i]]
      BY <1>2, <3>1, <3>2
    <3>4. \A i \in 1 .. n : (IF i = n THEN [id |-> a, toks |-> y] ELSE g[i]) = t[i]
      BY <1>1, <1>2, <2>6, <3>1
    <3>5. t = [i \in 1 .. n |-> t[i]]
      BY <2>6, LenProperties
    <3> QED
      BY <3>3, <3>4, <3>5
  <2>5. x = [m |-> q, t |-> t]
    BY <1>4, <1>5, <2>4 DEF q, a
  <2>7. D \in Tables /\ D[c] = t
    BY <1>1, <2>6, AtFacts DEF D
  <2>8. O[e] = h /\ h \in Seq(Token) /\ Linked(O, Q)
    <3>1. n \in DOMAIN D[c]
      BY <1>1, <2>6, <2>7, LenProperties
    <3>2. HashOf(D[c], n) = O[<<c, n>>]
      BY <2>7, <3>1, HashIsName
    <3> QED
      BY <2>3, <2>6, <2>7, <3>2, LabelFacts DEF e
  <2>9. Consistent(m, C, O, Q)
    <3>1. \A b \in Block : C[b] \subseteq Entry
      BY <1>1 DEF Consistent
    <3> HIDE DEF C, O, Q, N, P
    <3>2. Relabelled(C, N, P, O, Q)
      BY <2>6, <3>1 DEF Relabelled
    <3> QED
      BY <1>1, <3>2, RelabelKeeps
  <2>10. Shared(m, C, O, Q, O[e], e, Share(m, O[e]))
    BY <1>5, <2>6, <2>8, <2>9, ShareKeeps
  <2>11. Consistent(q, Held(D), O, Q) /\ Spare(q) >= Spare(m) - 1
    BY <2>6, <2>8, <2>10 DEF Shared, q, a
  <2>12. Shaped(t)
    <3>1. t[Len(t)].toks = y /\ \A i \in DOMAIN s : t[i].toks = s[i].toks
      BY <2>6
    <3> HIDE DEF s
    <3>2. \A i \in DOMAIN s : Len(s[i].toks) = PerBlock
      BY DEF s
    <3> QED
      BY <1>1, <2>6, <3>1, <3>2, ShapedMore
  <2>13. Good(k, q, D)
    BY <1>1, <2>11, <2>12, GoodAt DEF D
  <2>14. MemoryOK(q) /\ q.failure = "no"
    BY <2>11 DEF Consistent
  <2>15. Result(k, B, c, x)
    BY <2>5, <2>12, <2>13, <2>14 DEF Result, Pair, D
  <2> QED
    BY <2>5, <2>6, <2>11, <2>15 DEF Chunked, x
<1>6. CASE ~(h # <<>> /\ h \in Hashes(m.cached))
  <2> DEFINE D == At(B, c, z.t)
             a == Taken(m)
             w == Write([m |-> z.m, t |-> D[c]], n, y)
  <2>1. Pair(r)
    BY DEF Pair
  <2>2. Grew(k, m, B, c, z)
    BY <1>1, <1>3, <2>1, ExtendKeeps
  <2> HIDE DEF z, a
  <2>3. /\ z.t = Append(s, [id |-> a, toks |-> <<>>]) /\ Result(k, B, c, z) /\ z.m.failure = "no"
        /\ a \in Block /\ z.m.refs[a] = 1 /\ Spare(z.m) = Spare(m) - 1
    BY <2>2 DEF Grew, a
  <2>4. [id |-> a, toks |-> <<>>] \in Slot
    BY <2>3, EmptyTokens DEF Slot
  <2>5. /\ z.t \in Seq(Slot) /\ Len(z.t) = n /\ \A j \in 1 .. Len(s) : z.t[j] = s[j]
        /\ z.t[n] = [id |-> a, toks |-> <<>>]
    BY <1>1, <2>3, <2>4, AppendProperties
  <2>6. D \in Tables /\ D[c] = z.t
    BY <1>1, <2>5, AtFacts
  <2>7. Good(k, z.m, D) /\ Shaped(z.t) /\ z = [m |-> z.m, t |-> z.t]
    BY <2>3 DEF Result, Pair
  <2>8. x = w
    BY <1>4, <1>6, <2>3, <2>5, <2>6, <2>7
  <2> HIDE DEF D, n, w
  <2>9. z.t[n].toks = <<>> /\ z.t[n].id = a /\ DOMAIN z.t = 1 .. n /\ n \in DOMAIN z.t
    <3>1. DOMAIN z.t = 1 .. n
      BY <2>5, LenProperties
    <3>2. n \in 1 .. n
      BY <1>1 DEF n
    <3> QED
      BY <2>5, <3>1, <3>2
  <2>10. Fillable(D[c], n, y)
    <3>1. \A j \in DOMAIN z.t : j < n => Len(z.t[j].toks) = PerBlock
      <4>1. \A j \in 1 .. n : j < n => j \in 1 .. Len(s)
        BY <1>1 DEF n
      <4> QED
        BY <1>1, <2>5, <2>9, <4>1
    <3>2. Len(z.t[n].toks) + Len(y) <= PerBlock
      <4>1. Len(y) \in Nat
        BY LenProperties
      <4> QED
        BY <2>9, <4>1, EmptyTokens
    <3> QED
      BY <2>6, <2>7, <2>9, <3>1, <3>2 DEF Fillable
  <2>11. z.m.refs[D[c][n].id] = 1
    BY <2>3, <2>6, <2>9
  <2>12. /\ Result(k, D, c, w) /\ SameTokens(w.t, [D[c] EXCEPT ![n].toks = @ \o y])
         /\ w.m.failure = "no" => Spare(w.m) >= Spare(z.m)
    <3>1. ~(z.m.refs[D[c][n].id] > 1)
      BY <2>11
    <3>2. /\ Result(k, D, c, w) /\ SameTokens(w.t, [D[c] EXCEPT ![n].toks = @ \o y])
          /\ w.m.failure = "no" => Spare(w.m) >= Spare(z.m) - (IF z.m.refs[D[c][n].id] > 1 THEN 1 ELSE 0)
      BY <2>7, <2>10, <3>1, WriteKeeps DEF D, w
    <3>3. Spare(z.m) \in Nat
      BY <2>3, SpareIsNat DEF Result
    <3> QED
      BY <3>1, <3>2, <3>3
  <2>13. Result(k, B, c, w)
    BY <1>1, <2>5, <2>12, ResultAt DEF D
  <2>14. /\ Len(w.t) = n /\ w.t[n].toks = y /\ \A j \in DOMAIN s : w.t[j].toks = s[j].toks
    <3> DEFINE u == [z.t EXCEPT ![n].toks = @ \o y]
    <3>1. SameTokens(w.t, u) /\ w.t \in Seq(Slot)
      BY <2>6, <2>12 DEF Result, Shaped
    <3>2. DOMAIN u = 1 .. n /\ u[n].toks = y /\ \A j \in 1 .. n : j # n => u[j] = z.t[j]
      <4>1. <<>> \o y = y
        BY ConcatEmptySeq
      <4>2. u[n] = [z.t[n] EXCEPT !.toks = <<>> \o y]
        BY <2>9
      <4>3. u[n].toks = <<>> \o y
        BY <2>5, <4>2
      <4> QED
        BY <2>9, <4>1, <4>3
    <3>3. Len(u) = n /\ n \in Nat
      <4>1. n \in Nat
        BY <1>1 DEF n
      <4> HIDE DEF u
      <4>2. u = [j \in 1 .. n |-> u[j]]
        BY <3>2 DEF u
      <4>3. \A j \in 1 .. n : u[j] \in {u[i] : i \in 1 .. n}
        OBVIOUS
      <4>4. u \in Seq({u[i] : i \in 1 .. n})
        BY <4>1, <4>2, <4>3, TableIsSeq
      <4> QED
        BY <3>2, <4>1, <4>4, LenProperties
    <3> HIDE DEF u
    <3>4. DOMAIN w.t = 1 .. n /\ Len(w.t) = n
      BY <3>1, <3>3, LenProperties DEF SameTokens
    <3>5. \A j \in 1 .. n : w.t[j].toks = u[j].toks
      BY <3>1, <3>4 DEF SameTokens
    <3>6. \A j \in DOMAIN s : j \in 1 .. n /\ j # n
      BY <1>1 DEF n
    <3> QED
      BY <1>1, <2>5, <2>9, <3>2, <3>4, <3>5, <3>6
  <2>15. w.m.failure = "no" => Spare(w.m) >= Spare(m) - 1
    BY <2>3, <2>12
  <2> QED
    BY <2>8, <2>13, <2>14, <2>15 DEF Chunked, n, x
<1> QED
  BY <1>5, <1>6

-----------------------------------------------------------------------------
(* What the loops over the blocks of a table compute, as a list of results   *)

ExtendedBy(r, n, g) ==
    /\ g[0] = r
    /\ \A k \in 1 .. n : g[k] = Extend(g[k - 1])
    /\ Extended(r, n) = g[n]

\* The rounds of the loop of ensure_num_empty_slots.
LEMMA ExtendedSteps ==
    ASSUME NEW r, NEW n \in Nat
    PROVE  \E g : ExtendedBy(r, n, g)
<1> DEFINE F(h) == [k \in 0 .. n |-> IF k = 0 THEN r ELSE Extend(h[k - 1])]
           fl == CHOOSE h : h = F(h)
           Upto(j, h) == \A k \in 0 .. j : h[k] = IF k = 0 THEN r ELSE Extend(h[k - 1])
           T == {j \in 0 .. n : ~ \E h : Upto(j, h)}
<1>1. T = {}
  <2>1. SUFFICES ASSUME T # {} PROVE FALSE
    OBVIOUS
  <2>2. PICK j \in T : \A i \in T : j <= i
    <3>1. T \subseteq Nat
      OBVIOUS
    <3> HIDE DEF T
    <3> QED
      BY <2>1, <3>1, LeastOfSome
  <2>3. j \in 0 .. n /\ j \in Nat
    OBVIOUS
  <2>4. CASE j = 0
    <3>1. Upto(j, [k \in 0 .. 0 |-> r])
      BY <2>4
    <3> QED
      BY <3>1
  <2>5. CASE j # 0
    <3>1. j - 1 \notin T /\ j - 1 \in 0 .. n
      <4>1. ~(j <= j - 1) /\ j - 1 \in 0 .. n
        BY <2>3, <2>5
      <4> HIDE DEF T
      <4> QED
        BY <2>2, <4>1
    <3>2. PICK h : Upto(j - 1, h)
      <4> HIDE DEF Upto
      <4> QED
        BY <3>1
    <3> DEFINE g == [k \in 0 .. j |-> IF k = j THEN Extend(h[j - 1]) ELSE h[k]]
    <3>3. ASSUME NEW k \in 0 .. j
          PROVE  g[k] = IF k = 0 THEN r ELSE Extend(g[k - 1])
      <4>1. CASE k = j
        <5>1. j \in 0 .. j /\ j - 1 \in 0 .. j /\ j - 1 # j
          BY <2>3, <2>5
        <5>2. g[j] = Extend(h[j - 1]) /\ g[j - 1] = h[j - 1]
          BY <5>1
        <5> HIDE DEF g
        <5> QED
          BY <2>5, <4>1, <5>2
      <4>2. CASE k # j
        <5>1. k \in 0 .. j - 1 /\ (k # 0 => k - 1 \in 0 .. j /\ k - 1 # j)
          BY <2>3, <4>2
        <5>2. g[k] = h[k] /\ (k # 0 => g[k - 1] = h[k - 1])
          BY <4>2, <5>1
        <5>3. h[k] = IF k = 0 THEN r ELSE Extend(h[k - 1])
          BY <3>2, <5>1
        <5> HIDE DEF g
        <5> QED
          BY <5>2, <5>3
      <4> QED
        BY <4>1, <4>2
    <3> HIDE DEF g
    <3>4. Upto(j, g)
      BY <3>3
    <3> QED
      BY <3>4
  <2> QED
    BY <2>4, <2>5
<1>2. n \in 0 .. n /\ \A k \in 1 .. n : k \in 0 .. n /\ k # 0
  OBVIOUS
<1>3. PICK h : Upto(n, h)
  <2> HIDE DEF Upto
  <2> QED
    BY <1>1, <1>2
<1>4. [k \in 0 .. n |-> h[k]] = F([k \in 0 .. n |-> h[k]])
  <2> DEFINE g == [k \in 0 .. n |-> h[k]]
  <2>1. ASSUME NEW k \in 0 .. n
        PROVE  h[k] = IF k = 0 THEN r ELSE Extend(g[k - 1])
    <3>1. k # 0 => g[k - 1] = h[k - 1]
      OBVIOUS
    <3> HIDE DEF g
    <3> QED
      BY <1>3, <3>1
  <2>2. g = [k \in 0 .. n |-> IF k = 0 THEN r ELSE Extend(g[k - 1])]
    <3> HIDE DEF g
    <3>1. g = [k \in 0 .. n |-> h[k]]
      BY DEF g
    <3> QED
      BY <2>1, <3>1
  <2> QED
    BY <2>2
<1>5. fl = F(fl)
  BY <1>4, Zenon
<1>6. Extended(r, n) = fl[n]
  BY DEF Extended
<1> HIDE DEF fl
<1>7. \A k \in 0 .. n : fl[k] = IF k = 0 THEN r ELSE Extend(fl[k - 1])
  <2>1. \A k \in 0 .. n : F(fl)[k] = IF k = 0 THEN r ELSE Extend(fl[k - 1])
    OBVIOUS
  <2> HIDE DEF F
  <2> QED
    BY <1>5, <2>1
<1>8. fl[0] = r /\ \A k \in 1 .. n : fl[k] = Extend(fl[k - 1])
  BY <1>2, <1>7
<1> QED
  BY <1>6, <1>8 DEF ExtendedBy

AllocatedBy(m, toks, q, g) ==
    /\ g[0] = [m |-> m, t |-> <<>>]
    /\ \A k \in 1 .. Len(q) : g[k] = AllocateChunk(g[k - 1], q[k])
    /\ Allocated(m, toks) = g[Len(q)]

\* The rounds of the loop of allocate.
LEMMA AllocatedSteps ==
    ASSUME NEW m, NEW toks, Len(Chunks(toks, PerBlock)) \in Nat
    PROVE  \E g : AllocatedBy(m, toks, Chunks(toks, PerBlock), g)
<1> DEFINE q == Chunks(toks, PerBlock)
<1>0. q = Chunks(toks, PerBlock) /\ Len(q) \in Nat
  OBVIOUS
<1> HIDE DEF q
<1> DEFINE F(h) == [k \in 0 .. Len(q) |-> IF k = 0 THEN [m |-> m, t |-> <<>>] ELSE AllocateChunk(h[k - 1], q[k])]
           fl == CHOOSE h : h = F(h)
           Upto(j, h) == \A k \in 0 .. j : h[k] = IF k = 0 THEN [m |-> m, t |-> <<>>] ELSE AllocateChunk(h[k - 1], q[k])
           T == {j \in 0 .. Len(q) : ~ \E h : Upto(j, h)}
<1>1. T = {}
  <2>1. SUFFICES ASSUME T # {} PROVE FALSE
    OBVIOUS
  <2>2. PICK j \in T : \A i \in T : j <= i
    <3>1. T \subseteq Nat
      OBVIOUS
    <3> HIDE DEF T
    <3> QED
      BY <2>1, <3>1, LeastOfSome
  <2>3. j \in 0 .. Len(q) /\ j \in Nat
    OBVIOUS
  <2>4. CASE j = 0
    <3>1. Upto(j, [k \in 0 .. 0 |-> [m |-> m, t |-> <<>>]])
      BY <2>4
    <3> QED
      BY <3>1
  <2>5. CASE j # 0
    <3>1. j - 1 \notin T /\ j - 1 \in 0 .. Len(q)
      <4>1. ~(j <= j - 1) /\ j - 1 \in 0 .. Len(q)
        BY <2>3, <2>5
      <4> HIDE DEF T
      <4> QED
        BY <2>2, <4>1
    <3>2. PICK h : Upto(j - 1, h)
      <4> HIDE DEF Upto
      <4> QED
        BY <3>1
    <3> DEFINE g == [k \in 0 .. j |-> IF k = j THEN AllocateChunk(h[j - 1], q[j]) ELSE h[k]]
    <3>3. ASSUME NEW k \in 0 .. j
          PROVE  g[k] = IF k = 0 THEN [m |-> m, t |-> <<>>] ELSE AllocateChunk(g[k - 1], q[k])
      <4>1. CASE k = j
        <5>1. j \in 0 .. j /\ j - 1 \in 0 .. j /\ j - 1 # j
          BY <2>3, <2>5
        <5>2. g[j] = AllocateChunk(h[j - 1], q[j]) /\ g[j - 1] = h[j - 1]
          BY <5>1
        <5> HIDE DEF g
        <5> QED
          BY <2>5, <4>1, <5>2
      <4>2. CASE k # j
        <5>1. k \in 0 .. j - 1 /\ (k # 0 => k - 1 \in 0 .. j /\ k - 1 # j)
          BY <2>3, <4>2
        <5>2. g[k] = h[k] /\ (k # 0 => g[k - 1] = h[k - 1])
          BY <4>2, <5>1
        <5>3. h[k] = IF k = 0 THEN [m |-> m, t |-> <<>>] ELSE AllocateChunk(h[k - 1], q[k])
          BY <3>2, <5>1
        <5> HIDE DEF g
        <5> QED
          BY <5>2, <5>3
      <4> QED
        BY <4>1, <4>2
    <3> HIDE DEF g
    <3>4. Upto(j, g)
      BY <3>3
    <3> QED
      BY <3>4
  <2> QED
    BY <2>4, <2>5
<1>2. Len(q) \in 0 .. Len(q) /\ \A k \in 1 .. Len(q) : k \in 0 .. Len(q) /\ k # 0
  BY <1>0
<1>3. PICK h : Upto(Len(q), h)
  <2> HIDE DEF Upto
  <2> QED
    BY <1>1, <1>2
<1>4. [k \in 0 .. Len(q) |-> h[k]] = F([k \in 0 .. Len(q) |-> h[k]])
  <2> DEFINE g == [k \in 0 .. Len(q) |-> h[k]]
  <2>1. ASSUME NEW k \in 0 .. Len(q)
        PROVE  h[k] = IF k = 0 THEN [m |-> m, t |-> <<>>] ELSE AllocateChunk(g[k - 1], q[k])
    <3>1. k # 0 => g[k - 1] = h[k - 1]
      OBVIOUS
    <3> HIDE DEF g
    <3> QED
      BY <1>3, <3>1
  <2>2. g = [k \in 0 .. Len(q) |-> IF k = 0 THEN [m |-> m, t |-> <<>>] ELSE AllocateChunk(g[k - 1], q[k])]
    <3> HIDE DEF g
    <3>1. g = [k \in 0 .. Len(q) |-> h[k]]
      BY DEF g
    <3> QED
      BY <2>1, <3>1
  <2> QED
    BY <2>2
<1>5. fl = F(fl)
  BY <1>4, Zenon
<1>6. Allocated(m, toks) = fl[Len(q)]
  BY <1>0, Zenon DEF Allocated
<1> HIDE DEF fl
<1>7. \A k \in 0 .. Len(q) : fl[k] = IF k = 0 THEN [m |-> m, t |-> <<>>] ELSE AllocateChunk(fl[k - 1], q[k])
  <2>1. \A k \in 0 .. Len(q) : F(fl)[k] = IF k = 0 THEN [m |-> m, t |-> <<>>] ELSE AllocateChunk(fl[k - 1], q[k])
    OBVIOUS
  <2> HIDE DEF F
  <2> QED
    BY <1>5, <2>1
<1>8. fl[0] = [m |-> m, t |-> <<>>] /\ \A k \in 1 .. Len(q) : fl[k] = AllocateChunk(fl[k - 1], q[k])
  BY <1>2, <1>7
<1> QED
  BY <1>6, <1>8 DEF AllocatedBy, q

FreeOne(m, t, k) == IF m.failure # "no" THEN m ELSE GiveBack(m, t[k].id, HashOf(t, k))

FreedBy(m, t, g) ==
    /\ g[0] = m
    /\ \A k \in 1 .. Len(t) : g[k] = FreeOne(g[k - 1], t, k)
    /\ Freed(m, t) = g[Len(t)]

\* The rounds of the loop of free.
LEMMA FreedSteps ==
    ASSUME NEW m, NEW t, Len(t) \in Nat
    PROVE  \E g : FreedBy(m, t, g)
<1> DEFINE F(h) == [k \in 0 .. Len(t) |-> IF k = 0 THEN m ELSE FreeOne(h[k - 1], t, k)]
           fl == CHOOSE h : h = F(h)
           Upto(j, h) == \A k \in 0 .. j : h[k] = IF k = 0 THEN m ELSE FreeOne(h[k - 1], t, k)
           T == {j \in 0 .. Len(t) : ~ \E h : Upto(j, h)}
<1>1. T = {}
  <2>1. SUFFICES ASSUME T # {} PROVE FALSE
    OBVIOUS
  <2>2. PICK j \in T : \A i \in T : j <= i
    <3>1. T \subseteq Nat
      OBVIOUS
    <3> HIDE DEF T
    <3> QED
      BY <2>1, <3>1, LeastOfSome
  <2>3. j \in 0 .. Len(t) /\ j \in Nat
    OBVIOUS
  <2>4. CASE j = 0
    <3>1. Upto(j, [k \in 0 .. 0 |-> m])
      BY <2>4
    <3> QED
      BY <3>1
  <2>5. CASE j # 0
    <3>1. j - 1 \notin T /\ j - 1 \in 0 .. Len(t)
      <4>1. ~(j <= j - 1) /\ j - 1 \in 0 .. Len(t)
        BY <2>3, <2>5
      <4> HIDE DEF T
      <4> QED
        BY <2>2, <4>1
    <3>2. PICK h : Upto(j - 1, h)
      <4> HIDE DEF Upto
      <4> QED
        BY <3>1
    <3> DEFINE g == [k \in 0 .. j |-> IF k = j THEN FreeOne(h[j - 1], t, j) ELSE h[k]]
    <3>3. ASSUME NEW k \in 0 .. j
          PROVE  g[k] = IF k = 0 THEN m ELSE FreeOne(g[k - 1], t, k)
      <4>1. CASE k = j
        <5>1. j \in 0 .. j /\ j - 1 \in 0 .. j /\ j - 1 # j
          BY <2>3, <2>5
        <5>2. g[j] = FreeOne(h[j - 1], t, j) /\ g[j - 1] = h[j - 1]
          BY <5>1
        <5> HIDE DEF g
        <5> QED
          BY <2>5, <4>1, <5>2
      <4>2. CASE k # j
        <5>1. k \in 0 .. j - 1 /\ (k # 0 => k - 1 \in 0 .. j /\ k - 1 # j)
          BY <2>3, <4>2
        <5>2. g[k] = h[k] /\ (k # 0 => g[k - 1] = h[k - 1])
          BY <4>2, <5>1
        <5>3. h[k] = IF k = 0 THEN m ELSE FreeOne(h[k - 1], t, k)
          BY <3>2, <5>1
        <5> HIDE DEF g
        <5> QED
          BY <5>2, <5>3
      <4> QED
        BY <4>1, <4>2
    <3> HIDE DEF g
    <3>4. Upto(j, g)
      BY <3>3
    <3> QED
      BY <3>4
  <2> QED
    BY <2>4, <2>5
<1>2. Len(t) \in 0 .. Len(t) /\ \A k \in 1 .. Len(t) : k \in 0 .. Len(t) /\ k # 0
  OBVIOUS
<1>3. PICK h : Upto(Len(t), h)
  <2> HIDE DEF Upto
  <2> QED
    BY <1>1, <1>2
<1>4. [k \in 0 .. Len(t) |-> h[k]] = F([k \in 0 .. Len(t) |-> h[k]])
  <2> DEFINE g == [k \in 0 .. Len(t) |-> h[k]]
  <2>1. ASSUME NEW k \in 0 .. Len(t)
        PROVE  h[k] = IF k = 0 THEN m ELSE FreeOne(g[k - 1], t, k)
    <3>1. k # 0 => g[k - 1] = h[k - 1]
      OBVIOUS
    <3> HIDE DEF g
    <3> QED
      BY <1>3, <3>1
  <2>2. g = [k \in 0 .. Len(t) |-> IF k = 0 THEN m ELSE FreeOne(g[k - 1], t, k)]
    <3> HIDE DEF g
    <3>1. g = [k \in 0 .. Len(t) |-> h[k]]
      BY DEF g
    <3> QED
      BY <2>1, <3>1
  <2> QED
    BY <2>2
<1>5. fl = F(fl)
  BY <1>4, Zenon
<1>6. Freed(m, t) = fl[Len(t)]
  BY DEF Freed, FreeOne
<1> HIDE DEF fl
<1>7. \A k \in 0 .. Len(t) : fl[k] = IF k = 0 THEN m ELSE FreeOne(fl[k - 1], t, k)
  <2>1. \A k \in 0 .. Len(t) : F(fl)[k] = IF k = 0 THEN m ELSE FreeOne(fl[k - 1], t, k)
    OBVIOUS
  <2> HIDE DEF F
  <2> QED
    BY <1>5, <2>1
<1>8. fl[0] = m /\ \A k \in 1 .. Len(t) : fl[k] = FreeOne(fl[k - 1], t, k)
  BY <1>2, <1>7
<1> QED
  BY <1>6, <1>8 DEF FreedBy

\* With one chunk the loop of append_token_ids is one write.
LEMMA FilledOne ==
    ASSUME NEW r, NEW i \in Nat, NEW y
    PROVE  Filled(r, i, <<y>>) = Write(r, i, y)
<1> DEFINE q == <<y>>
           F(h) == [k \in 0 .. Len(q) |-> IF k = 0 THEN r ELSE Write(h[k - 1], i + k - 1, q[k])]
           fl == CHOOSE h : h = F(h)
           g == [k \in 0 .. Len(q) |-> IF k = 0 THEN r ELSE Write(r, i, y)]
<1>1. Len(q) = 1 /\ q[1] = y /\ 1 \in 0 .. Len(q)
  OBVIOUS
<1>2. g = F(g)
  <2>1. ASSUME NEW k \in 0 .. Len(q)
        PROVE  (IF k = 0 THEN r ELSE Write(r, i, y))
                  = (IF k = 0 THEN r ELSE Write(g[k - 1], i + k - 1, q[k]))
    <3>1. k # 0 => k = 1
      BY <1>1
    <3>2. g[0] = r /\ i + 1 - 1 = i
      BY <1>1
    <3> HIDE DEF g, q
    <3> QED
      BY <1>1, <3>1, <3>2
  <2> HIDE DEF q
  <2> QED
    BY <2>1
<1>3. fl = F(fl)
  BY <1>2, Zenon
<1>4. Filled(r, i, q) = fl[Len(q)]
  BY DEF Filled
<1> HIDE DEF fl, q
<1>5. \A k \in 0 .. Len(q) : fl[k] = IF k = 0 THEN r ELSE Write(fl[k - 1], i + k - 1, q[k])
  <2>1. \A k \in 0 .. Len(q) : F(fl)[k] = IF k = 0 THEN r ELSE Write(fl[k - 1], i + k - 1, q[k])
    OBVIOUS
  <2> HIDE DEF F
  <2> QED
    BY <1>3, <2>1
<1>6. fl[0] = r /\ fl[1] = Write(fl[0], i, y)
  <2>1. 0 \in 0 .. Len(q) /\ 1 \in 0 .. Len(q) /\ i + 1 - 1 = i /\ 1 - 1 = 0
    BY <1>1
  <2> QED
    BY <1>1, <1>5, <2>1
<1> QED
  BY <1>1, <1>4, <1>6 DEF q

-----------------------------------------------------------------------------
(* Tokens in pieces of the size of a block                                   *)

Pieces(n) == (n + PerBlock - 1) \div PerBlock

\* The number of pieces covers the tokens, and one less would not.
LEMMA PiecesFacts ==
    ASSUME NEW n \in Nat
    PROVE  /\ Pieces(n) \in Nat
           /\ n <= PerBlock * Pieces(n) /\ PerBlock * Pieces(n) < n + PerBlock
           /\ n = 0 => Pieces(n) = 0
           /\ n > 0 => Pieces(n) > 0
<1>1. PerBlock \in Nat /\ PerBlock > 0
  BY V2Assumption
<1>2. /\ Pieces(n) \in Int /\ PerBlock * Pieces(n) <= n + PerBlock - 1
      /\ n + PerBlock - 1 < PerBlock * Pieces(n) + PerBlock
  BY <1>1 DEF Pieces
<1>3. PerBlock * Pieces(n) \in Int
  BY <1>1, <1>2
<1> HIDE DEF Pieces
<1>4. n <= PerBlock * Pieces(n) /\ PerBlock * Pieces(n) < n + PerBlock
  BY <1>1, <1>2, <1>3
<1>5. Pieces(n) >= 0
  BY <1>1, <1>2, <1>4
<1>6. n > 0 => Pieces(n) > 0
  BY <1>1, <1>2, <1>4
<1>7. n = 0 => Pieces(n) = 0
  BY <1>1, <1>2, <1>4
<1> QED
  BY <1>2, <1>4, <1>5, <1>6, <1>7

\* As many pieces as fit between.
LEMMA PiecesIs ==
    ASSUME NEW n \in Nat, NEW q \in Nat, n <= PerBlock * q, PerBlock * q < n + PerBlock
    PROVE  Pieces(n) = q
<1>1. PerBlock \in Nat /\ PerBlock > 0
  BY V2Assumption
<1> DEFINE r == Pieces(n)
<1>2. r \in Nat /\ n <= PerBlock * r /\ PerBlock * r < n + PerBlock
  BY PiecesFacts
<1> HIDE DEF r
<1>3. PerBlock * q < PerBlock * r + PerBlock /\ PerBlock * r < PerBlock * q + PerBlock
  BY <1>1, <1>2
<1>4. q < r + 1 /\ r < q + 1
  <2>1. PerBlock * q < PerBlock * (r + 1) /\ PerBlock * r < PerBlock * (q + 1)
    BY <1>1, <1>2, <1>3
  <2> QED
    BY <1>1, <1>2, <2>1
<1> QED
  BY <1>2, <1>4 DEF r

\* A full piece more.
LEMMA PiecesMore ==
    ASSUME NEW n \in Nat
    PROVE  Pieces(n + PerBlock) = Pieces(n) + 1
<1>1. PerBlock \in Nat /\ PerBlock > 0
  BY V2Assumption
<1> DEFINE r == Pieces(n)
<1>2. r \in Nat /\ n <= PerBlock * r /\ PerBlock * r < n + PerBlock
  BY PiecesFacts
<1> HIDE DEF r
<1>3. PerBlock * (r + 1) = PerBlock * r + PerBlock /\ PerBlock * r \in Nat
  BY <1>1, <1>2
<1>4. n + PerBlock \in Nat /\ r + 1 \in Nat
  BY <1>1, <1>2
<1>5. n + PerBlock <= PerBlock * (r + 1) /\ PerBlock * (r + 1) < n + PerBlock + PerBlock
  BY <1>1, <1>2, <1>3
<1>6. Pieces(n + PerBlock) = r + 1
  BY <1>4, <1>5, PiecesIs
<1> QED
  BY <1>6 DEF r

\* More tokens need no fewer pieces.
LEMMA PiecesMonotone ==
    ASSUME NEW m \in Nat, NEW n \in Nat, m <= n
    PROVE  Pieces(m) <= Pieces(n)
<1>1. PerBlock \in Nat /\ PerBlock > 0
  BY V2Assumption
<1> DEFINE q == Pieces(m)
           r == Pieces(n)
<1>2. /\ q \in Nat /\ PerBlock * q < m + PerBlock
      /\ r \in Nat /\ n <= PerBlock * r
  BY PiecesFacts
<1> HIDE DEF q, r
<1>3. PerBlock * q < PerBlock * (r + 1)
  BY <1>1, <1>2
<1>4. q < r + 1
  BY <1>1, <1>2, <1>3
<1> QED
  BY <1>2, <1>4 DEF q, r

\* Up to a block's size is one piece.
LEMMA PiecesOne ==
    ASSUME NEW n \in Nat, n > 0, n <= PerBlock
    PROVE  Pieces(n) = 1
<1>1. PerBlock \in Nat /\ PerBlock > 0 /\ PerBlock * 1 = PerBlock
  BY V2Assumption
<1> QED
  BY <1>1, PiecesIs

CutUp(S, toks, first, q) ==
    /\ Len(q) = 1 + Pieces(IF first < Len(toks) THEN Len(toks) - first ELSE 0)
    /\ \A k \in 1 .. Len(q) :
          /\ q[k] \in Seq(S) /\ q[k] # <<>> /\ Len(q[k]) <= PerBlock
          /\ first = PerBlock /\ k < Len(q) => Len(q[k]) = PerBlock
    /\ Len(toks) = 1 => q = <<toks>>

\* The chunks of a list of tokens: their number, their sizes, and that none is empty.
LEMMA ChunksFacts ==
    ASSUME NEW S, NEW toks \in Seq(S), toks # <<>>, NEW first \in 1 .. PerBlock
    PROVE  CutUp(S, toks, first, Chunks(toks, first))
<1> DEFINE L == Len(toks)
           a == SubSeq(toks, 1, IF first < L THEN first ELSE L)
           rest == SubSeq(toks, first + 1, L)
           R == IF first < L THEN L - first ELSE 0
           n == Pieces(R)
           end(k) == IF k * PerBlock < R THEN k * PerBlock ELSE R
           c(k) == SubSeq(rest, (k - 1) * PerBlock + 1, end(k))
           b == [k \in 1 .. n |-> c(k)]
           q == Chunks(toks, first)
<1>1. /\ L \in Nat /\ L > 0 /\ PerBlock \in Nat /\ PerBlock > 0 /\ first \in Nat /\ first >= 1
      /\ first <= PerBlock /\ \A i \in 1 .. L : toks[i] \in S
  BY V2Assumption, LenProperties, EmptySeq, ElementOfSeq
<1>2. a \in Seq(S) /\ Len(a) = (IF first < L THEN first ELSE L)
  <2> DEFINE j == IF first < L THEN first ELSE L
  <2>1. j \in Int /\ 1 <= j /\ \A i \in 1 .. j : toks[i] \in S
    BY <1>1
  <2> HIDE DEF j
  <2>2. SubSeq(toks, 1, j) \in Seq(S) /\ Len(SubSeq(toks, 1, j)) = j - 1 + 1
    BY <2>1, SubSeqProperties
  <2>3. SubSeq(toks, 1, j) \in Seq(S) /\ Len(SubSeq(toks, 1, j)) = j
    BY <2>1, <2>2
  <2> QED
    BY <2>3 DEF j
<1>3. rest \in Seq(S) /\ Len(rest) = R
  <2>1. \A i \in first + 1 .. L : toks[i] \in S
    BY <1>1
  <2>2. rest \in Seq(S) /\ Len(rest) = IF first + 1 <= L THEN L - (first + 1) + 1 ELSE 0
    <3>1. first + 1 \in Int /\ L \in Int
      BY <1>1
    <3> HIDE DEF L
    <3> QED
      BY <2>1, <3>1, SubSeqProperties
  <2> HIDE DEF rest
  <2> QED
    BY <1>1, <2>2
<1>4. R \in Nat /\ n \in Nat /\ PerBlock * n < R + PerBlock /\ (R = 0 => n = 0)
  <2>1. R \in Nat
    BY <1>1
  <2> HIDE DEF R
  <2> QED
    BY <2>1, PiecesFacts
<1>5. q = <<a>> \o b
  <2>1. (Len(rest) + PerBlock - 1) \div PerBlock = n
    BY <1>3 DEF Pieces
  <2>2. q = <<a>> \o [k \in 1 .. (Len(rest) + PerBlock - 1) \div PerBlock |->
                        SubSeq(rest, (k - 1) * PerBlock + 1,
                               IF k * PerBlock < Len(rest) THEN k * PerBlock ELSE Len(rest))]
    <3> HIDE DEF a
    <3>1. a = SubSeq(toks, 1, IF first < Len(toks) THEN first ELSE Len(toks))
      BY DEF a
    <3> QED
      BY <3>1, Zenon DEF Chunks
  <2> HIDE DEF rest, R, n
  <2> QED
    BY <1>3, <2>1, <2>2
<1> HIDE DEF rest, R, n, a, q
<1>6. ASSUME NEW k \in 1 .. n
      PROVE  /\ c(k) \in Seq(S) /\ Len(c(k)) >= 1 /\ Len(c(k)) <= PerBlock
             /\ k < n => Len(c(k)) = PerBlock
  <2> DEFINE s == (k - 1) * PerBlock
  <2>1. k \in Nat /\ k - 1 \in Nat /\ k >= 1 /\ k - 1 <= n - 1 /\ n - 1 \in Nat
    BY <1>4
  <2>2. \A i, j, p \in Nat : i <= j => i * p <= j * p
    OBVIOUS
  <2>3. (k - 1) * PerBlock <= (n - 1) * PerBlock
    BY <1>1, <2>1, <2>2
  <2>4. (n - 1) * PerBlock = PerBlock * n - PerBlock /\ k * PerBlock = (k - 1) * PerBlock + PerBlock
    BY <1>1, <1>4, <2>1
  <2>5. s \in Nat /\ PerBlock * n \in Nat
    BY <1>1, <1>4, <2>1
  <2>6. k * PerBlock = s + PerBlock
    BY <2>4
  <2>7. s <= PerBlock * n - PerBlock
    BY <2>3, <2>4
  <2>8. k < n => k * PerBlock <= (n - 1) * PerBlock
    <3>1. k < n => k <= n - 1
      BY <1>4, <2>1
    <3> QED
      BY <1>1, <2>1, <2>2, <3>1
  <2>9. k < n => s + PerBlock <= PerBlock * n - PerBlock
    BY <2>4, <2>6, <2>8
  <2> HIDE DEF s
  <2>10. s < R /\ (k < n => s + PerBlock < R)
    BY <1>1, <1>4, <2>5, <2>7, <2>9
  <2> DEFINE e == IF s + PerBlock < R THEN s + PerBlock ELSE R
  <2>11. e \in Nat /\ s + 1 <= e /\ e <= R /\ e <= s + PerBlock /\ (k < n => e = s + PerBlock)
    BY <1>1, <1>4, <2>5, <2>10
  <2>12. c(k) = SubSeq(rest, s + 1, e)
    BY <2>6 DEF s
  <2> HIDE DEF e, c
  <2>13. \A i \in s + 1 .. e : rest[i] \in S
    <3>1. \A i \in s + 1 .. e : i \in 1 .. Len(rest)
      BY <1>3, <1>4, <2>5, <2>11
    <3> QED
      BY <1>3, <3>1, ElementOfSeq
  <2>14. SubSeq(rest, s + 1, e) \in Seq(S) /\ Len(SubSeq(rest, s + 1, e)) = e - (s + 1) + 1
    <3>1. s + 1 \in Int /\ e \in Int
      BY <2>5, <2>11
    <3> QED
      BY <2>11, <2>13, <3>1, SubSeqProperties
  <2>15. Len(c(k)) = e - s
    BY <2>5, <2>11, <2>12, <2>14
  <2> QED
    BY <1>1, <2>5, <2>11, <2>12, <2>14, <2>15
<1>7. b \in Seq(Seq(S)) /\ Len(b) = n /\ \A k \in 1 .. n : b[k] = c(k)
  <2>1. \A k \in 1 .. n : b[k] = c(k) /\ b[k] \in Seq(S)
    BY <1>6
  <2>2. b = [k \in 1 .. n |-> b[k]] /\ DOMAIN b = 1 .. n
    OBVIOUS
  <2> HIDE DEF b, c
  <2>3. b \in Seq(Seq(S))
    BY <1>4, <2>1, <2>2, TableIsSeq
  <2>4. b \in [1 .. n -> Seq(S)]
    BY <2>1, <2>2
  <2>5. Len(b) = n
    BY <1>4, <2>2, <2>3, LenProperties
  <2> QED
    BY <2>1, <2>3, <2>5
<1> HIDE DEF b, c
<1>8. <<a>> \in Seq(Seq(S)) /\ Len(<<a>>) = 1 /\ <<a>>[1] = a
  BY <1>2
<1>9. /\ q \in Seq(Seq(S)) /\ Len(q) = 1 + n
      /\ q[1] = a /\ \A k \in 1 .. n : q[k + 1] = c(k)
  <2> DEFINE w == <<a>>
  <2> HIDE DEF w
  <2>1. w \in Seq(Seq(S)) /\ Len(w) = 1 /\ w[1] = a /\ q = w \o b
    BY <1>5, <1>8 DEF w
  <2>2. /\ q \in Seq(Seq(S)) /\ Len(q) = 1 + n
        /\ \A k \in 1 .. 1 + n : q[k] = IF k <= 1 THEN w[k] ELSE b[k - 1]
    <3>1. /\ w \o b \in Seq(Seq(S)) /\ Len(w \o b) = Len(w) + Len(b)
          /\ \A k \in 1 .. Len(w) + Len(b) : (w \o b)[k] = IF k <= Len(w) THEN w[k] ELSE b[k - Len(w)]
      BY <1>7, <2>1, ConcatProperties
    <3> QED
      BY <1>7, <2>1, <3>1
  <2>3. \A k \in 1 .. n : k + 1 \in 1 .. 1 + n /\ ~(k + 1 <= 1) /\ k + 1 - 1 = k
    BY <1>4
  <2>4. 1 \in 1 .. 1 + n
    BY <1>4
  <2> QED
    BY <1>7, <2>1, <2>2, <2>3, <2>4
<1>10. Len(a) >= 1 /\ Len(a) <= PerBlock /\ (first = PerBlock /\ n > 0 => Len(a) = PerBlock)
  BY <1>1, <1>2, <1>4 DEF R
<1>11. \A k \in 1 .. Len(q) :
          /\ q[k] \in Seq(S) /\ Len(q[k]) >= 1 /\ Len(q[k]) <= PerBlock
          /\ first = PerBlock /\ k < Len(q) => Len(q[k]) = PerBlock
  <2> SUFFICES ASSUME NEW k \in 1 .. Len(q)
               PROVE  /\ q[k] \in Seq(S) /\ Len(q[k]) >= 1 /\ Len(q[k]) <= PerBlock
                      /\ first = PerBlock /\ k < Len(q) => Len(q[k]) = PerBlock
    OBVIOUS
  <2>1. CASE k = 1
    BY <1>2, <1>4, <1>9, <1>10, <2>1
  <2>2. CASE k # 1
    <3> DEFINE j == k - 1
    <3>1. j \in 1 .. n /\ k = j + 1 /\ (k < Len(q) => j < n)
      BY <1>4, <1>9, <2>2
    <3>2. q[k] = c(j)
      BY <1>9, <3>1
    <3> HIDE DEF j
    <3> QED
      BY <1>6, <3>1, <3>2
  <2> QED
    BY <2>1, <2>2
<1>12. \A k \in 1 .. Len(q) : q[k] # <<>>
  BY <1>11, EmptySeq
<1>13. L = 1 => q = <<toks>>
  <2> SUFFICES ASSUME L = 1 PROVE q = <<toks>>
    OBVIOUS
  <2>1. n = 0 /\ Len(a) = 1
    BY <1>1, <1>2, <1>4 DEF R
  <2>2. a = toks
    <3>1. a \in [1 .. 1 -> S] /\ toks \in [1 .. 1 -> S]
      BY <1>2, <2>1, LenProperties
    <3>2. a = SubSeq(toks, 1, 1)
      BY <1>1 DEF a
    <3>3. SubSeq(toks, 1, 1)[1] = toks[1]
      <4>1. \A i \in 1 .. 1 : toks[i] \in S
        BY <1>1
      <4>2. \A i \in 1 .. 1 - 1 + 1 : SubSeq(toks, 1, 1)[i] = toks[1 + i - 1]
        BY <4>1, SubSeqProperties
      <4> QED
        BY <4>2
    <3> QED
      BY <3>1, <3>2, <3>3
  <2>3. b = <<>>
    BY <1>7, <2>1, EmptySeq
  <2>4. <<a>> \o <<>> = <<a>>
    BY <1>8, ConcatEmptySeq
  <2> QED
    BY <1>5, <2>2, <2>3, <2>4
<1>14. Len(q) = 1 + Pieces(IF first < Len(toks) THEN Len(toks) - first ELSE 0)
  BY <1>9 DEF n, R
<1> QED
  BY <1>11, <1>12, <1>13, <1>14 DEF CutUp, q

-----------------------------------------------------------------------------
(* The loops                                                                 *)

\* A whole prompt, with as many spare blocks as it has pieces.
LEMMA AllocatedKeeps ==
    ASSUME NEW m, NEW B, NEW c \in Table, Good(caching, m, B), B[c] = <<>>,
           NEW toks \in Seq(Token), toks # <<>>, Spare(m) >= Pieces(Len(toks))
    PROVE  Result(caching, B, c, Allocated(m, toks))
<1> DEFINE q == Chunks(toks, PerBlock)
           n == Len(q)
<1>1. PerBlock \in Nat /\ PerBlock > 0 /\ PerBlock \in 1 .. PerBlock
  BY V2Assumption
<1>2. CutUp(Token, toks, PerBlock, q)
  BY <1>1, ChunksFacts
<1>3. n = Pieces(Len(toks)) /\ n \in Nat
  <2> DEFINE L == Len(toks)
  <2>1. L \in Nat /\ L > 0
    BY LenProperties, EmptySeq
  <2>2. n = 1 + Pieces(IF PerBlock < L THEN L - PerBlock ELSE 0)
    BY <1>2 DEF CutUp
  <2> HIDE DEF L, n
  <2>3. CASE PerBlock < L
    <3> DEFINE d == L - PerBlock
    <3>1. d \in Nat /\ L = d + PerBlock
      BY <1>1, <2>1, <2>3
    <3>2. n = 1 + Pieces(d)
      BY <2>2, <2>3
    <3> HIDE DEF d
    <3>3. Pieces(L) = Pieces(d) + 1 /\ Pieces(d) \in Nat
      BY <3>1, PiecesMore, PiecesFacts
    <3> QED
      BY <3>2, <3>3 DEF L
  <2>4. CASE ~(PerBlock < L)
    <3>1. Pieces(L) = 1
      BY <1>1, <2>1, <2>4, PiecesOne
    <3>2. Pieces(0) = 0
      BY PiecesFacts
    <3> QED
      BY <2>2, <2>4, <3>1, <3>2 DEF L
  <2> QED
    BY <2>3, <2>4
<1>4. \A j \in 1 .. n : /\ q[j] \in Seq(Token) /\ q[j] # <<>> /\ Len(q[j]) <= PerBlock
                        /\ j < n => Len(q[j]) = PerBlock
  BY <1>2 DEF CutUp
<1> HIDE DEF q
<1>5. PICK g : AllocatedBy(m, toks, q, g)
  BY <1>3, AllocatedSteps DEF q
<1>6. B \in Tables /\ Spare(m) \in Nat
  BY GoodFacts, SpareIsNat
<1> DEFINE J(j) == /\ Result(caching, B, c, g[j])
                   /\ g[j].m.failure = "no" =>
                         /\ Len(g[j].t) = j
                         /\ \A i \in 1 .. j : i < n => Len(g[j].t[i].toks) = PerBlock
                         /\ Spare(g[j].m) >= Spare(m) - j
           T == {j \in 0 .. n : ~J(j)}
<1>7. J(0)
  <2>1. Wrote(caching, B, c, m, 0, [m |-> m, t |-> B[c]])
    BY UnchangedWrote
  <2>2. g[0] = [m |-> m, t |-> B[c]] /\ g[0].t = <<>> /\ Len(<<>>) = 0 /\ g[0].m = m
    BY <1>5, EmptyTokens DEF AllocatedBy
  <2> QED
    BY <1>6, <2>1, <2>2 DEF Wrote
<1>8. ASSUME NEW j \in 1 .. n, J(j - 1) PROVE J(j)
  <2> DEFINE r == g[j - 1]
             x == g[j]
             y == q[j]
             D == At(B, c, r.t)
  <2>1. x = AllocateChunk(r, y) /\ y \in Seq(Token) /\ y # <<>> /\ Len(y) <= PerBlock
    BY <1>4, <1>5 DEF AllocatedBy
  <2>2. Pair(r) /\ Result(caching, B, c, r) /\ Shaped(r.t) /\ r.t \in Seq(Slot)
    BY <1>8 DEF Result, Shaped
  <2>3. r.m.failure = "no" =>
           /\ Len(r.t) = j - 1
           /\ \A i \in 1 .. j - 1 : i < n => Len(r.t[i].toks) = PerBlock
           /\ Spare(r.m) >= Spare(m) - (j - 1)
    BY <1>8
  <2>4. j \in Nat /\ j >= 1 /\ j <= n
    BY <1>3
  <2> HIDE DEF r, x, y, n
  <2>5. CASE r.m.failure # "no"
    <3>1. x = r
      BY <2>1, <2>5 DEF AllocateChunk, Extend
    <3> QED
      BY <2>2, <2>5, <3>1 DEF x
  <2>6. CASE r.m.failure = "no"
    <3>1. D[c] = r.t /\ D \in Tables
      BY <1>6, <2>2, AtFacts
    <3>2. Good(caching, r.m, D)
      BY <2>2, <2>6 DEF Result
    <3> HIDE DEF D
    <3>3. \A i \in DOMAIN D[c] : Len(D[c][i].toks) = PerBlock
      <4>1. DOMAIN r.t = 1 .. j - 1
        BY <2>2, <2>3, <2>6, LenProperties
      <4> QED
        BY <1>3, <2>3, <2>4, <2>6, <3>1, <4>1
    <3>4. CanTake(r.m)
      <4>1. Spare(r.m) \in Nat /\ (CanTake(r.m) <=> Spare(r.m) > 0)
        BY <2>2, SpareIsNat DEF Result
      <4>2. Spare(m) >= n
        BY <1>3 DEF n
      <4> QED
        BY <1>6, <2>3, <2>4, <2>6, <4>1, <4>2, <1>3
    <3>5. Chunked(caching, D, c, r.m, y, AllocateChunk([m |-> r.m, t |-> D[c]], y))
      BY <2>1, <3>2, <3>3, <3>4, AllocateChunkKeeps
    <3>6. [m |-> r.m, t |-> D[c]] = r
      BY <2>2, <3>1 DEF Pair
    <3>7. Chunked(caching, D, c, r.m, y, x)
      BY <2>1, <3>5, <3>6
    <3>8. Result(caching, B, c, x)
      BY <1>6, <2>2, <3>7, ResultAt DEF Chunked, D
    <3>9. x.m.failure = "no" => /\ Len(x.t) = j
                                /\ \A i \in 1 .. j : i < n => Len(x.t[i].toks) = PerBlock
                                /\ Spare(x.m) >= Spare(m) - j
      <4>1. Len(x.t) = j
        BY <2>3, <2>4, <2>6, <3>1, <3>7 DEF Chunked
      <4>2. ASSUME NEW i \in 1 .. j, i < n PROVE Len(x.t[i].toks) = PerBlock
        <5>1. CASE i = j
          BY <1>4, <3>7, <4>1, <4>2, <5>1 DEF Chunked, y, n
        <5>2. CASE i # j
          <6>1. i \in 1 .. j - 1 /\ i \in DOMAIN D[c]
            BY <2>2, <2>3, <2>4, <2>6, <3>1, <5>2, LenProperties
          <6>2. x.t[i].toks = D[c][i].toks
            BY <3>7, <6>1 DEF Chunked
          <6> QED
            BY <3>3, <6>1, <6>2
        <5> QED
          BY <5>1, <5>2
      <4>3. x.m.failure = "no" => Spare(x.m) >= Spare(m) - j
        <5>1. x.m.failure = "no" => Spare(x.m) >= Spare(r.m) - 1
          BY <3>7 DEF Chunked
        <5>2. Spare(r.m) \in Nat /\ Spare(x.m) \in Nat
          BY <2>2, <3>8, SpareIsNat DEF Result
        <5> QED
          BY <1>6, <2>3, <2>4, <2>6, <5>1, <5>2
      <4> QED
        BY <4>1, <4>2, <4>3
    <3> QED
      BY <3>8, <3>9 DEF x
  <2> QED
    BY <2>5, <2>6
<1> HIDE DEF J
<1>9. T = {}
  <2>1. SUFFICES ASSUME T # {} PROVE FALSE
    OBVIOUS
  <2>2. PICK j \in T : \A i \in T : j <= i
    <3>1. T \subseteq Nat
      OBVIOUS
    <3> HIDE DEF T
    <3> QED
      BY <2>1, <3>1, LeastOfSome
  <2>3. j # 0 /\ j \in 0 .. n /\ ~J(j)
    BY <1>7
  <2>4. j \in 1 .. n /\ j - 1 \in 0 .. n /\ ~(j <= j - 1)
    BY <1>3, <2>3
  <2>5. j - 1 \notin T
    <3> HIDE DEF T
    <3> QED
      BY <2>2, <2>4
  <2>6. J(j - 1)
    BY <2>4, <2>5
  <2> QED
    BY <1>8, <2>3, <2>4, <2>6
<1>10. J(n)
  BY <1>3, <1>9
<1> QED
  BY <1>5, <1>10 DEF J, AllocatedBy

Stretched(k, B, c, m, n, x) ==
    /\ Result(k, B, c, x) /\ x.m.failure = "no" /\ Len(x.t) = Len(B[c]) + n
    /\ \A j \in 1 .. Len(B[c]) : x.t[j] = B[c][j]
    /\ \A j \in 1 .. Len(x.t) :
          j > Len(B[c]) => x.t[j].toks = <<>> /\ x.m.refs[x.t[j].id] = 1
    /\ Spare(x.m) = Spare(m) - n

\* n more empty blocks, with n spare ones.
LEMMA ExtendedKeeps ==
    ASSUME NEW k, NEW m, NEW B, NEW c \in Table, Good(k, m, B), NEW n \in Nat, Spare(m) >= n
    PROVE  Stretched(k, B, c, m, n, Extended([m |-> m, t |-> B[c]], n))
<1> DEFINE s == B[c]
           z == [m |-> m, t |-> s]
           J(j) == Stretched(k, B, c, m, j, Extended(z, j))
<1>1. /\ B \in Tables /\ MemoryOK(m) /\ m.failure = "no" /\ Shaped(s) /\ s \in Seq(Slot)
      /\ DOMAIN s = 1 .. Len(s) /\ Len(s) \in Nat
  BY GoodFacts
<1>2. Spare(m) \in Nat
  BY <1>1, SpareIsNat
<1>3. PICK g : ExtendedBy(z, n, g)
  BY ExtendedSteps
<1> DEFINE I(j) == Stretched(k, B, c, m, j, g[j])
           T == {j \in 0 .. n : ~I(j)}
<1>4. I(0)
  <2>1. Wrote(k, B, c, m, 0, z)
    BY UnchangedWrote
  <2>2. z.t = s /\ z.m = m
    OBVIOUS
  <2>3. g[0] = z
    BY <1>3 DEF ExtendedBy
  <2> HIDE DEF z, s
  <2>4. Len(s) = Len(s) + 0 /\ \A j \in 1 .. Len(s) : ~(j > Len(s))
    BY <1>1
  <2> QED
    BY <1>1, <1>2, <2>1, <2>2, <2>3, <2>4 DEF Wrote, Stretched, s
<1>5. ASSUME NEW j \in 1 .. n, I(j - 1) PROVE I(j)
  <2> DEFINE r == g[j - 1]
             x == g[j]
             D == At(B, c, r.t)
             a == Taken(r.m)
  <2>1. x = Extend(r) /\ Stretched(k, B, c, m, j - 1, r) /\ j \in Nat /\ j >= 1 /\ j <= n
    BY <1>3, <1>5 DEF ExtendedBy
  <2> HIDE DEF r, x
  <2>2. /\ Result(k, B, c, r) /\ r.m.failure = "no" /\ Len(r.t) = Len(s) + (j - 1)
        /\ \A i \in 1 .. Len(s) : r.t[i] = s[i]
        /\ \A i \in 1 .. Len(r.t) : i > Len(s) => r.t[i].toks = <<>> /\ r.m.refs[r.t[i].id] = 1
        /\ Spare(r.m) = Spare(m) - (j - 1)
    BY <2>1 DEF Stretched
  <2>3. Pair(r) /\ Shaped(r.t) /\ r.t \in Seq(Slot) /\ MemoryOK(r.m) /\ Good(k, r.m, D)
    BY <2>2 DEF Result, Shaped
  <2>4. D[c] = r.t /\ D \in Tables /\ DOMAIN r.t = 1 .. Len(r.t)
    BY <1>1, <2>3, AtFacts, LenProperties
  <2>5. CanTake(r.m)
    <3>1. CanTake(r.m) <=> Spare(r.m) > 0
      BY <2>3, SpareIsNat
    <3> QED
      BY <1>2, <2>1, <2>2, <3>1
  <2> HIDE DEF D
  <2>6. Grew(k, r.m, D, c, x)
    BY <2>1, <2>3, <2>4, <2>5, ExtendKeeps
  <2> HIDE DEF a
  <2>7. /\ x.t = Append(r.t, [id |-> a, toks |-> <<>>])
        /\ Result(k, D, c, x) /\ x.m.failure = "no"
        /\ a \in Block /\ r.m.refs[a] = 0 /\ x.m.refs[a] = 1
        /\ \A b \in Block \ {a} : x.m.refs[b] = r.m.refs[b]
        /\ Spare(x.m) = Spare(r.m) - 1
    BY <2>4, <2>6 DEF Grew, a
  <2>8. Result(k, B, c, x)
    BY <1>1, <2>3, <2>7, ResultAt DEF D
  <2>9. [id |-> a, toks |-> <<>>] \in Slot
    BY <2>7, EmptyTokens DEF Slot
  <2>10. /\ Len(x.t) = Len(r.t) + 1 /\ \A i \in 1 .. Len(r.t) : x.t[i] = r.t[i]
         /\ x.t[Len(r.t) + 1] = [id |-> a, toks |-> <<>>]
    BY <2>3, <2>7, <2>9, AppendProperties
  <2> HIDE DEF s
  <2>11. Len(x.t) = Len(s) + j /\ Len(r.t) \in Nat
    BY <1>1, <2>1, <2>2, <2>10
  <2>12. \A i \in 1 .. Len(s) : x.t[i] = s[i]
    <3>1. \A i \in 1 .. Len(s) : i \in 1 .. Len(r.t)
      BY <1>1, <2>1, <2>2
    <3> QED
      BY <2>2, <2>10, <3>1
  <2>13. ASSUME NEW i \in 1 .. Len(x.t), i > Len(s)
         PROVE  x.t[i].toks = <<>> /\ x.m.refs[x.t[i].id] = 1
    <3>1. CASE i = Len(r.t) + 1
      BY <2>7, <2>10, <3>1
    <3>2. CASE i # Len(r.t) + 1
      <4>1. i \in 1 .. Len(r.t)
        BY <2>10, <2>11, <3>2
      <4>2. x.t[i] = r.t[i] /\ r.t[i].toks = <<>> /\ r.m.refs[r.t[i].id] = 1
        BY <2>2, <2>10, <2>13, <4>1
      <4>3. r.t[i].id \in Block
        <5>1. r.t[i] \in Slot
          BY <2>3, <4>1, ElementOfSeq
        <5> QED
          BY <5>1 DEF Slot
      <4>4. r.t[i].id # a
        BY <2>7, <4>2
      <4> QED
        BY <2>7, <4>2, <4>3, <4>4
    <3> QED
      BY <3>1, <3>2
  <2>14. Spare(x.m) = Spare(m) - j
    BY <1>2, <2>1, <2>2, <2>7
  <2>15. Stretched(k, B, c, m, j, x)
    BY <2>7, <2>8, <2>11, <2>12, <2>13, <2>14 DEF Stretched, s
  <2> QED
    BY <2>15 DEF x
<1> HIDE DEF I
<1>6. T = {}
  <2>1. SUFFICES ASSUME T # {} PROVE FALSE
    OBVIOUS
  <2>2. PICK j \in T : \A i \in T : j <= i
    <3>1. T \subseteq Nat
      OBVIOUS
    <3> HIDE DEF T
    <3> QED
      BY <2>1, <3>1, LeastOfSome
  <2>3. j # 0 /\ j \in 0 .. n /\ ~I(j)
    BY <1>4
  <2>4. j \in 1 .. n /\ j - 1 \in 0 .. n /\ ~(j <= j - 1)
    BY <2>3
  <2>5. j - 1 \notin T
    <3> HIDE DEF T
    <3> QED
      BY <2>2, <2>4
  <2>6. I(j - 1)
    BY <2>4, <2>5
  <2> QED
    BY <1>5, <2>3, <2>4, <2>6
<1>7. I(n)
  BY <1>6
<1> QED
  BY <1>3, <1>7 DEF I, ExtendedBy

\* The chunks of one token, and of one token with lookahead slots.
LEMMA LengthOfChunks ==
    ASSUME NEW x \in Token, NEW look \in Nat, NEW first \in 1 .. PerBlock
    PROVE  /\ Chunks(<<x>>, first) = <<<<x>>>>
           /\ Len(Chunks(<<x>> \o [k \in 1 .. look |-> 0], first))
                 = 1 + Pieces(IF first < 1 + look THEN 1 + look - first ELSE 0)
<1> DEFINE R == Token \union {0}
           z == [k \in 1 .. look |-> 0]
           o == <<x>>
<1>1. o \in Seq(R) /\ Len(o) = 1 /\ o # <<>>
  OBVIOUS
<1>2. z \in Seq(R) /\ Len(z) = look
  <2>1. \A k \in 1 .. look : z[k] \in R
    OBVIOUS
  <2>2. z = [k \in 1 .. look |-> z[k]] /\ DOMAIN z = 1 .. look
    OBVIOUS
  <2> HIDE DEF z, R
  <2>3. z \in Seq(R)
    BY <2>1, <2>2, TableIsSeq
  <2>4. Len(z) \in Nat /\ 1 .. Len(z) = 1 .. look
    BY <2>2, <2>3, LenProperties
  <2>5. Len(z) = look
    <3>1. Len(z) > 0 => Len(z) \in 1 .. look
      BY <2>4
    <3>2. look > 0 => look \in 1 .. Len(z)
      BY <2>4
    <3> QED
      BY <2>4, <3>1, <3>2
  <2> QED
    BY <2>3, <2>5
<1> HIDE DEF z, R, o
<1>3. o \o z \in Seq(R) /\ Len(o \o z) = 1 + look
  <2>1. o \in Seq(R) /\ Len(o) = 1 /\ z \in Seq(R) /\ Len(z) = look
    BY <1>1, <1>2
  <2>2. o \o z \in Seq(R) /\ Len(o \o z) = Len(o) + Len(z)
    BY <2>1, ConcatProperties
  <2> QED
    BY <2>1, <2>2
<1>4. o \o z # <<>>
  BY <1>3, EmptySeq
<1>5. CutUp(R, o \o z, first, Chunks(o \o z, first)) /\ CutUp(R, o, first, Chunks(o, first))
  BY <1>1, <1>3, <1>4, ChunksFacts
<1>6. Chunks(o, first) = <<o>>
  BY <1>1, <1>5 DEF CutUp
<1>7. Len(Chunks(o \o z, first)) = 1 + Pieces(IF first < 1 + look THEN 1 + look - first ELSE 0)
  BY <1>3, <1>5 DEF CutUp
<1> QED
  BY <1>6, <1>7 DEF o, z

\* What is missing is less than what is touched, unless the first block that is
\* touched is missing too.
LEMMA MissingTouched ==
    ASSUME NEW s, Shaped(s), NEW x \in Token, NEW look \in Nat, NEW n, Cut(s, n),
           Len(Tokens(s)) = n * PerBlock + (IF n < Len(s) THEN Len(s[n + 1].toks) ELSE 0)
    PROVE  /\ Len(Tokens(s)) \div PerBlock = n
           /\ AppendChunks(s, <<x>>) = <<<<x>>>>
           /\ Missing(s, <<x>>, look) \in Nat /\ Touched(s, <<x>>, look) \in Nat
           /\ n < Len(s) => Missing(s, <<x>>, look) + 1 <= Touched(s, <<x>>, look)
           /\ n = Len(s) => /\ Missing(s, <<x>>, look) <= Touched(s, <<x>>, look)
                            /\ Missing(s, <<x>>, look) >= 1
<1> DEFINE L == Len(Tokens(s))
           w == IF n < Len(s) THEN Len(s[n + 1].toks) ELSE 0
           first == PerBlock - w
           short == L + 1 + look - Len(s) * PerBlock
           k == Missing(s, <<x>>, look)
           e == Touched(s, <<x>>, look)
           after == IF first < 1 + look THEN 1 + look - first ELSE 0
<1>1. PerBlock \in Nat /\ PerBlock > 0
  BY V2Assumption
<1>2. /\ s \in Seq(Slot) /\ DOMAIN s = 1 .. Len(s) /\ Len(s) \in Nat /\ n \in Nat /\ n <= Len(s)
  BY LenProperties DEF Shaped, Cut
<1>3. w \in Nat /\ w < PerBlock
  <2>1. CASE n < Len(s)
    <3>1. n + 1 \in DOMAIN s /\ n + 1 \in n + 1 .. Len(s)
      BY <1>2, <2>1
    <3>2. s[n + 1] \in Slot
      BY <1>2, <3>1, ElementOfSeq
    <3>3. Len(s[n + 1].toks) \in Nat
      BY <3>2, LenProperties DEF Slot
    <3> QED
      BY <2>1, <3>1, <3>3 DEF Cut
  <2>2. CASE ~(n < Len(s))
    BY <1>1, <2>2
  <2> QED
    BY <2>1, <2>2
<1>4. L = n * PerBlock + w /\ n * PerBlock \in Nat
  BY <1>1, <1>2
<1>5. n = Len(s) => w = 0
  BY <1>2
<1> HIDE DEF L, w
<1>6. L \div PerBlock = n /\ L % PerBlock = w
  <2>1. L \in Nat
    BY <1>3, <1>4
  <2> DEFINE d == L \div PerBlock
  <2>2. /\ d \in Int /\ PerBlock * d <= L /\ L < PerBlock * d + PerBlock
        /\ L % PerBlock = L - PerBlock * d
    BY <1>1, <2>1
  <2> HIDE DEF d
  <2>3. PerBlock * d < PerBlock * (n + 1) /\ PerBlock * n < PerBlock * (d + 1)
    BY <1>1, <1>2, <1>3, <1>4, <2>2
  <2>4. d < n + 1 /\ n < d + 1
    BY <1>1, <1>2, <2>2, <2>3
  <2>5. d = n
    BY <1>2, <2>2, <2>4
  <2>6. PerBlock * n = n * PerBlock
    BY <1>1, <1>2
  <2>7. L % PerBlock = w
    BY <1>1, <1>3, <1>4, <2>2, <2>5, <2>6
  <2> QED
    BY <2>5, <2>7 DEF d
<1>7. first \in 1 .. PerBlock /\ first \in Nat /\ after \in Nat
  BY <1>1, <1>3
<1>8. AppendChunks(s, <<x>>) = <<<<x>>>> /\ e = 1 + Pieces(after)
  <2> HIDE DEF first
  <2>1. /\ Chunks(<<x>>, first) = <<<<x>>>>
        /\ Len(Chunks(<<x>> \o [j \in 1 .. look |-> 0], first)) = 1 + Pieces(after)
    BY <1>7, LengthOfChunks
  <2>2. PerBlock - (Len(Tokens(s)) % PerBlock) = first
    BY <1>6 DEF L, first
  <2> HIDE DEF after
  <2> QED
    BY <2>1, <2>2 DEF AppendChunks, Touched
<1>9. k = Pieces(IF short > 0 THEN short ELSE 0) /\ short \in Int
  <2>1. Len(<<x>>) = 1
    OBVIOUS
  <2>2. short \in Int
    BY <1>1, <1>2, <1>3, <1>4
  <2>3. k = IF short > 0 THEN (short + PerBlock - 1) \div PerBlock ELSE 0
    BY <2>1 DEF Missing, L
  <2>4. Pieces(0) = 0
    BY PiecesFacts
  <2> HIDE DEF short, k
  <2> QED
    BY <2>2, <2>3, <2>4 DEF Pieces
<1> DEFINE miss == IF short > 0 THEN short ELSE 0
<1>10. miss \in Nat /\ k = Pieces(miss) /\ Pieces(miss) \in Nat /\ Pieces(after) \in Nat
  <2>1. miss \in Nat /\ k = Pieces(miss)
    BY <1>9
  <2> HIDE DEF miss, after
  <2> QED
    BY <1>7, <2>1, PiecesFacts
<1>11. n < Len(s) => miss <= after
  <2> SUFFICES ASSUME n < Len(s) PROVE miss <= after
    OBVIOUS
  <2>1. \A i, j, p \in Nat : i <= j => i * p <= j * p
    OBVIOUS
  <2>2. n + 1 \in Nat /\ n + 1 <= Len(s)
    BY <1>2
  <2>3. (n + 1) * PerBlock <= Len(s) * PerBlock
    BY <1>1, <1>2, <2>1, <2>2
  <2>4. (n + 1) * PerBlock = n * PerBlock + PerBlock /\ Len(s) * PerBlock \in Nat
    BY <1>1, <1>2
  <2>5. short <= 1 + look - first
    BY <1>1, <1>3, <1>4, <2>3, <2>4
  <2> HIDE DEF short, first
  <2> QED
    BY <1>7, <1>9, <2>5
<1>12. n = Len(s) => miss = 1 + look /\ first = PerBlock
  <2> SUFFICES ASSUME n = Len(s) PROVE miss = 1 + look /\ first = PerBlock
    OBVIOUS
  <2>1. short = 1 + look
    BY <1>1, <1>3, <1>4, <1>5
  <2>2. first = PerBlock
    BY <1>1, <1>5
  <2> HIDE DEF short
  <2> QED
    BY <2>1, <2>2
<1>13. n < Len(s) => k + 1 <= e
  <2> HIDE DEF miss, after, k, e
  <2>1. n < Len(s) => Pieces(miss) <= Pieces(after)
    BY <1>7, <1>10, <1>11, PiecesMonotone
  <2> QED
    BY <1>8, <1>10, <2>1
<1>14. n = Len(s) => k <= e /\ k >= 1
  <2> SUFFICES ASSUME n = Len(s) PROVE k <= e /\ k >= 1
    OBVIOUS
  <2>1. miss = 1 + look /\ first = PerBlock
    BY <1>12
  <2>2. k = Pieces(1 + look) /\ 1 + look \in Nat /\ 1 + look > 0
    BY <1>10, <2>1
  <2>3. Pieces(1 + look) \in Nat /\ Pieces(1 + look) > 0
    BY <2>2, PiecesFacts
  <2>4. CASE 1 + look <= PerBlock
    <3>1. Pieces(1 + look) = 1
      BY <2>2, <2>4, PiecesOne
    <3> HIDE DEF miss, after, k, e
    <3> QED
      BY <1>8, <1>10, <2>2, <3>1
  <2>5. CASE ~(1 + look <= PerBlock)
    <3> DEFINE d == 1 + look - PerBlock
    <3>1. d \in Nat /\ 1 + look = d + PerBlock /\ after = d
      BY <1>1, <2>1, <2>5
    <3> HIDE DEF miss, after, k, e, d
    <3>2. Pieces(1 + look) = Pieces(d) + 1
      BY <3>1, PiecesMore
    <3> QED
      BY <1>8, <1>10, <2>2, <2>3, <3>1, <3>2
  <2> QED
    BY <2>4, <2>5
<1>15. k \in Nat /\ e \in Nat
  <2> HIDE DEF miss, after, k, e
  <2> QED
    BY <1>8, <1>10
<1> QED
  BY <1>6, <1>8, <1>13, <1>14, <1>15 DEF L

\* A whole append, if what it may touch is spare.
LEMMA AppendedKeeps ==
    ASSUME NEW m, NEW B, NEW c \in Table, Good(caching, m, B), NEW x \in Token, NEW look \in Nat,
           Touched(B[c], <<x>>, look) <= Spare(m)
    PROVE  Result(caching, B, c, Appended(m, B[c], <<x>>, look))
<1> DEFINE s == B[c]
           y == <<x>>
           k == Missing(s, y, look)
           e == Touched(s, y, look)
           z == Extended([m |-> m, t |-> s], k)
           L == Len(Tokens(s))
<1>1. /\ B \in Tables /\ MemoryOK(m) /\ m.failure = "no" /\ Shaped(s) /\ s \in Seq(Slot)
      /\ DOMAIN s = 1 .. Len(s) /\ Len(s) \in Nat
  BY GoodFacts
<1>2. Spare(m) \in Nat
  BY <1>1, SpareIsNat
<1>3. PICK n : /\ Cut(s, n)
               /\ L = n * PerBlock + (IF n < Len(s) THEN Len(s[n + 1].toks) ELSE 0)
  BY <1>1, TableIsCut
<1>4. /\ L \div PerBlock = n
      /\ AppendChunks(s, y) = <<y>>
      /\ k \in Nat /\ e \in Nat
      /\ n < Len(s) => k + 1 <= e
      /\ n = Len(s) => k <= e /\ k >= 1
  BY <1>1, <1>3, MissingTouched
<1>5. n \in Nat /\ n <= Len(s) /\ Full(s, n) /\ \A j \in n + 1 .. Len(s) : Len(s[j].toks) < PerBlock
  BY <1>1, <1>3 DEF Cut
<1>6. e <= Spare(m)
  OBVIOUS
<1> HIDE DEF k, e
<1>7. Spare(m) >= k
  BY <1>1, <1>2, <1>4, <1>5, <1>6
<1>8. Stretched(caching, B, c, m, k, z)
  BY <1>4, <1>7, ExtendedKeeps
<1>9. Appended(m, s, y, look) = Write(z, n + 1, y)
  <2>1. Appended(m, s, y, look) = Filled(z, L \div PerBlock + 1, AppendChunks(s, y))
    BY DEF Appended, k
  <2> HIDE DEF z, y, s, L
  <2>2. Appended(m, s, y, look) = Filled(z, n + 1, <<y>>)
    BY <1>4, <2>1
  <2>3. n + 1 \in Nat
    BY <1>5
  <2> QED
    BY <2>2, <2>3, FilledOne
<1> HIDE DEF z
<1>10. /\ Result(caching, B, c, z) /\ z.m.failure = "no" /\ Len(z.t) = Len(s) + k
       /\ \A j \in 1 .. Len(s) : z.t[j] = s[j]
       /\ \A j \in 1 .. Len(z.t) : j > Len(s) => z.t[j].toks = <<>> /\ z.m.refs[z.t[j].id] = 1
       /\ Spare(z.m) = Spare(m) - k
  BY <1>8 DEF Stretched
<1> DEFINE D == At(B, c, z.t)
           i == n + 1
<1>11. /\ Good(caching, z.m, D) /\ Shaped(z.t) /\ z = [m |-> z.m, t |-> z.t] /\ MemoryOK(z.m)
       /\ z.t \in Seq(Slot)
  BY <1>10 DEF Result, Pair, Shaped
<1>12. D \in Tables /\ D[c] = z.t /\ DOMAIN z.t = 1 .. Len(z.t)
  BY <1>1, <1>11, AtFacts, LenProperties
<1> HIDE DEF D, s
<1>13. /\ i \in 1 .. Len(z.t) /\ i \in Nat
       /\ i > Len(s) \/ (n < Len(s) /\ i \in 1 .. Len(s) /\ i \in n + 1 .. Len(s))
       /\ \A j \in 1 .. Len(z.t) : j < i => j \in 1 .. n /\ j \in 1 .. Len(s)
  <2>1. n = Len(s) => k >= 1
    BY <1>4
  <2> DEFINE p == Len(s)
             l == Len(z.t)
  <2>2. p \in Nat /\ n \in Nat /\ k \in Nat /\ n <= p /\ l = p + k
    BY <1>1, <1>4, <1>5, <1>10
  <2> HIDE DEF p, l
  <2>3. n = p => k >= 1
    BY <2>1 DEF p
  <2>4. i \in 1 .. l /\ i \in Nat
    BY <2>2, <2>3
  <2>5. i > p \/ (n < p /\ i \in 1 .. p /\ i \in n + 1 .. p)
    BY <2>2
  <2>6. \A j \in 1 .. l : j < i => j \in 1 .. n /\ j \in 1 .. p
    BY <2>2
  <2> QED
    BY <2>4, <2>5, <2>6 DEF p, l
<1>14. y \in Seq(Token) /\ y # <<>> /\ Len(y) = 1
  OBVIOUS
<1> HIDE DEF y
<1>15. Len(z.t[i].toks) < PerBlock /\ Len(z.t[i].toks) \in Nat
  <2>1. z.t[i] \in Slot
    BY <1>11, <1>13, ElementOfSeq
  <2>2. Len(z.t[i].toks) \in Nat
    BY <2>1, LenProperties DEF Slot
  <2>3. CASE i > Len(s)
    <3>1. z.t[i].toks = <<>>
      BY <1>10, <1>13, <2>3
    <3> QED
      BY <2>2, <3>1, EmptyTokens
  <2>4. CASE ~(i > Len(s))
    <3>1. i \in 1 .. Len(s) /\ i \in n + 1 .. Len(s)
      BY <1>13, <2>4
    <3> QED
      BY <1>5, <1>10, <2>2, <3>1
  <2> QED
    BY <2>3, <2>4
<1>16. Fillable(D[c], i, y)
  <2>1. \A j \in 1 .. Len(z.t) : j < i => Len(z.t[j].toks) = PerBlock
    <3> SUFFICES ASSUME NEW j \in 1 .. Len(z.t), j < i PROVE Len(z.t[j].toks) = PerBlock
      OBVIOUS
    <3>1. j \in 1 .. n /\ j \in 1 .. Len(s)
      BY <1>13
    <3> QED
      BY <1>5, <1>10, <3>1 DEF Full
  <2>2. Len(z.t[i].toks) + Len(y) <= PerBlock
    BY <1>14, <1>15, EmptyTokens
  <2> QED
    BY <1>11, <1>12, <1>13, <1>14, <2>1, <2>2 DEF Fillable
<1>17. z.m.refs[D[c][i].id] > 1 => CanTake(z.m)
  <2>1. CASE i > Len(s)
    <3>1. z.m.refs[z.t[i].id] = 1
      BY <1>10, <1>13, <2>1
    <3> QED
      BY <1>12, <3>1
  <2>2. CASE ~(i > Len(s))
    <3>1. k + 1 <= e
      BY <1>4, <1>13, <2>2
    <3>2. Spare(z.m) > 0
      BY <1>2, <1>4, <1>6, <1>10, <3>1
    <3> QED
      BY <1>11, <3>2, SpareIsNat
  <2> QED
    BY <2>1, <2>2
<1> DEFINE w == Write([m |-> z.m, t |-> D[c]], i, y)
<1>18. Result(caching, D, c, w)
  <2> HIDE DEF i
  <2> QED
    BY <1>11, <1>16, <1>17, WriteKeeps DEF D
<1>19. w = Write(z, i, y)
  BY <1>11, <1>12
<1> HIDE DEF w
<1>20. Result(caching, B, c, w)
  BY <1>1, <1>11, <1>18, ResultAt DEF D
<1> QED
  BY <1>9, <1>19, <1>20 DEF s, y

\* Who still holds a block when a table has given back its first k.
Left(B, c, k) == [b \in Block |-> {e \in Held(B)[b] : ~(e[1] = c /\ e[2] <= k)}]

\* Freeing entry k takes it from the holders of its block.
LEMMA LeftFacts ==
    ASSUME NEW B \in Tables, NEW c \in Table, NEW k \in DOMAIN B[c]
    PROVE  /\ <<c, k>> \in Left(B, c, k - 1)[B[c][k].id]
           /\ Left(B, c, k) = [Left(B, c, k - 1) EXCEPT ![B[c][k].id] = @ \ {<<c, k>>}]
<1> DEFINE e == <<c, k>>
           b == B[c][k].id
           F == Left(B, c, k - 1)
           G == [F EXCEPT ![b] = @ \ {e}]
<1>1. B[c] \in Seq(Slot) /\ k \in Nat /\ k >= 1 /\ B[c][k] \in Slot
  BY LenProperties, ElementOfSeq DEF Tables
<1>2. b \in Block
  BY <1>1 DEF Slot
<1>3. e \in Entry /\ e[1] = c /\ e[2] = k
  BY <1>1 DEF Entry
<1> HIDE DEF b, e
<1>4. e \in Held(B)[b] /\ \A a \in Block \ {b} : e \notin Held(B)[a]
  BY <1>2, <1>3, HeldFacts DEF b
<1>5. Held(B) \in [Block -> SUBSET Entry]
  BY HeldFacts
<1>6. \A f \in Entry : f # e /\ f[1] = c => f[2] # k
  BY <1>3, EntryFacts
<1>7. \A f \in Entry : (~(f[1] = c /\ f[2] <= k) <=> ~(f[1] = c /\ f[2] <= k - 1) /\ f # e)
  BY <1>1, <1>3, <1>6, EntryFacts
<1>8. \A a \in Block : Left(B, c, k)[a] = G[a]
  <2> SUFFICES ASSUME NEW a \in Block PROVE Left(B, c, k)[a] = G[a]
    OBVIOUS
  <2>1. Left(B, c, k)[a] = {f \in Held(B)[a] : ~(f[1] = c /\ f[2] <= k)}
    BY DEF Left
  <2>2. F[a] = {f \in Held(B)[a] : ~(f[1] = c /\ f[2] <= k - 1)}
    BY DEF Left
  <2>3. Left(B, c, k)[a] = F[a] \ {e}
    BY <1>5, <1>7, <2>1, <2>2
  <2>4. G[a] = IF a = b THEN F[a] \ {e} ELSE F[a]
    BY DEF Left
  <2>5. a # b => e \notin F[a]
    BY <1>4, <2>2
  <2> QED
    BY <2>3, <2>4, <2>5
<1>9. Left(B, c, k) = G
  <2>1. Left(B, c, k) = [a \in Block |-> Left(B, c, k)[a]] /\ G = [a \in Block |-> G[a]]
    BY DEF Left
  <2> HIDE DEF G
  <2> QED
    BY <1>8, <2>1
<1>10. e \in F[b]
  BY <1>1, <1>2, <1>3, <1>4 DEF Left
<1> QED
  BY <1>9, <1>10 DEF b, e

\* A whole table given back, unless an assertion of the allocator stops it on the way.
LEMMA FreedKeeps ==
    ASSUME NEW m, NEW B, NEW c \in Table, Good(caching, m, B)
    PROVE  /\ MemoryOK(Freed(m, B[c])) /\ Freed(m, B[c]).failure \in {"no", "AssertionError"}
           /\ Freed(m, B[c]).failure = "no" => Good(caching, Freed(m, B[c]), At(B, c, <<>>))
<1> DEFINE s == B[c]
           N == Names(caching, B)
           P == Contents(B)
           D == At(B, c, <<>>)
<1>1. /\ B \in Tables /\ MemoryOK(m) /\ m.failure = "no" /\ Shaped(s) /\ s \in Seq(Slot)
      /\ DOMAIN s = 1 .. Len(s) /\ Len(s) \in Nat /\ Consistent(m, Held(B), N, P)
      /\ \A d \in Table : Shaped(B[d])
  BY GoodFacts
<1>2. PICK g : FreedBy(m, s, g)
  BY <1>1, FreedSteps
<1> DEFINE J(j) == /\ MemoryOK(g[j]) /\ g[j].failure \in {"no", "AssertionError"}
                   /\ g[j].failure = "no" => Consistent(g[j], Left(B, c, j), N, P)
           T == {j \in 0 .. Len(s) : ~J(j)}
<1> HIDE DEF N, P, D
<1>3. J(0)
  <2>1. Left(B, c, 0) = Held(B)
    <3>1. Held(B) \in [Block -> SUBSET Entry]
      BY <1>1, HeldFacts
    <3>2. \A f \in Entry : ~(f[1] = c /\ f[2] <= 0)
      BY EntryFacts
    <3>3. \A b \in Block : {e \in Held(B)[b] : ~(e[1] = c /\ e[2] <= 0)} = Held(B)[b]
      BY <3>1, <3>2
    <3> QED
      BY <3>1, <3>3 DEF Left
  <2>2. g[0] = m
    BY <1>2 DEF FreedBy
  <2> QED
    BY <1>1, <2>1, <2>2
<1>4. ASSUME NEW j \in 1 .. Len(s), J(j - 1) PROVE J(j)
  <2> DEFINE q == g[j - 1]
             e == <<c, j>>
             b == s[j].id
             h == HashOf(s, j)
             C == Left(B, c, j - 1)
             F == Left(B, c, j)
  <2>1. g[j] = FreeOne(q, s, j)
    BY <1>2 DEF FreedBy
  <2>2. /\ MemoryOK(q) /\ q.failure \in {"no", "AssertionError"}
        /\ q.failure = "no" => Consistent(q, C, N, P)
    BY <1>4
  <2>3. e \in C[b] /\ F = [C EXCEPT ![b] = @ \ {e}] /\ b \in Block
    <3>1. s[j] \in Slot /\ j \in DOMAIN B[c]
      BY <1>1, ElementOfSeq
    <3> QED
      BY <1>1, <3>1, LeftFacts DEF Slot
  <2>4. h = N[e] /\ h \in Seq(Token)
    <3>1. h = N[e] /\ e \in Entry
      BY <1>1, HashIsName DEF N
    <3> QED
      BY <1>1, <3>1, LabelFacts DEF N
  <2> HIDE DEF q, C, F, e, b, h
  <2>5. CASE q.failure # "no"
    <3>1. g[j] = q
      BY <2>1, <2>5 DEF FreeOne
    <3> QED
      BY <2>2, <2>5, <3>1
  <2>6. CASE q.failure = "no"
    <3>1. g[j] = GiveBack(q, b, h)
      BY <2>1, <2>6 DEF FreeOne, b, h
    <3>2. GaveBack(q, C, N, P, b, e, GiveBack(q, b, h))
      BY <2>2, <2>3, <2>4, <2>6, GiveBackKeeps
    <3>3. /\ MemoryOK(g[j]) /\ g[j].failure \in {"no", "AssertionError"}
          /\ g[j].failure = "no" => Consistent(g[j], [C EXCEPT ![b] = @ \ {e}], N, P)
      BY <3>1, <3>2 DEF GaveBack
    <3> QED
      BY <2>3, <3>3 DEF F
  <2> QED
    BY <2>5, <2>6
<1> HIDE DEF J, s
<1>5. T = {}
  <2>1. SUFFICES ASSUME T # {} PROVE FALSE
    OBVIOUS
  <2>2. PICK j \in T : \A i \in T : j <= i
    <3>1. T \subseteq Nat
      OBVIOUS
    <3> HIDE DEF T
    <3> QED
      BY <2>1, <3>1, LeastOfSome
  <2>3. j # 0 /\ j \in 0 .. Len(s) /\ ~J(j)
    BY <1>3
  <2>4. j \in 1 .. Len(s) /\ j - 1 \in 0 .. Len(s) /\ ~(j <= j - 1)
    BY <1>1, <2>3
  <2>5. j - 1 \notin T
    <3> HIDE DEF T
    <3> QED
      BY <2>2, <2>4
  <2>6. J(j - 1)
    BY <2>4, <2>5
  <2> QED
    BY <1>4, <2>3, <2>4, <2>6
<1>6. J(Len(s))
  BY <1>1, <1>5
<1> DEFINE r == Freed(m, s)
<1>7. r = g[Len(s)]
  BY <1>2 DEF FreedBy
<1> HIDE DEF r
<1>8. /\ MemoryOK(r) /\ r.failure \in {"no", "AssertionError"}
      /\ r.failure = "no" => Consistent(r, Left(B, c, Len(s)), N, P)
  BY <1>6, <1>7 DEF J
<1>9. <<>> \in Seq(Slot) /\ Shaped(<<>>) /\ D \in Tables /\ D[c] = <<>>
      /\ \A d \in Table \ {c} : D[d] = B[d]
  <2>1. <<>> \in Seq(Slot) /\ DOMAIN <<>> = {}
    OBVIOUS
  <2>2. Shaped(<<>>)
    BY <2>1 DEF Shaped
  <2>3. D \in Tables /\ D[c] = <<>> /\ \A d \in Table \ {c} : D[d] = B[d]
    <3> DEFINE o == <<>>
    <3>1. o \in Seq(Slot) /\ B \in Tables
      BY <1>1, <2>1
    <3> HIDE DEF o
    <3>2. /\ At(B, c, o) \in Tables /\ At(B, c, o)[c] = o
          /\ \A d \in Table \ {c} : At(B, c, o)[d] = B[d]
      BY <3>1, AtFacts
    <3> QED
      BY <3>2 DEF D, o
  <2> QED
    BY <2>1, <2>2, <2>3
<1>10. Left(B, c, Len(s)) = Held(D)
  <2>1. /\ Held(B) \in [Block -> SUBSET Entry] /\ Held(D) \in [Block -> SUBSET Entry]
    BY <1>1, <1>9, HeldFacts
  <2>2. ASSUME NEW b \in Block, NEW f \in Entry
        PROVE  f \in Held(D)[b] <=> f \in Held(B)[b] /\ ~(f[1] = c /\ f[2] <= Len(s))
    <3>1. f \in Held(D)[b] <=> f[2] \in DOMAIN D[f[1]] /\ D[f[1]][f[2]].id = b
      BY <1>9, HeldFacts
    <3>2. f \in Held(B)[b] <=> f[2] \in DOMAIN B[f[1]] /\ B[f[1]][f[2]].id = b
      BY <1>1, HeldFacts
    <3>3. CASE f[1] = c
      <4>1. f[2] \notin DOMAIN D[f[1]]
        BY <1>9, <3>3
      <4>2. f[2] \in DOMAIN B[f[1]] => f[2] <= Len(s)
        BY <1>1, <3>3 DEF s
      <4> QED
        BY <3>1, <3>2, <3>3, <4>1, <4>2
    <3>4. CASE f[1] # c
      BY <1>9, <3>1, <3>2, <3>4, EntryFacts
    <3> QED
      BY <3>3, <3>4
  <2>3. \A b \in Block : Held(D)[b] = {f \in Held(B)[b] : ~(f[1] = c /\ f[2] <= Len(s))}
    BY <2>1, <2>2
  <2> QED
    BY <2>1, <2>3 DEF Left
<1>11. Relabelled(Held(D), N, P, Names(caching, D), Contents(D))
  <2> SUFFICES ASSUME NEW b \in Block, NEW f \in Held(D)[b]
               PROVE  Names(caching, D)[f] = N[f] /\ Contents(D)[f] = P[f]
    BY DEF Relabelled
  <2>1. f \in Entry /\ f[2] \in DOMAIN D[f[1]]
    BY <1>9, HeldFacts
  <2>2. D[f[1]] = B[f[1]]
    <3>1. f[1] # c
      BY <1>9, <2>1
    <3> QED
      BY <1>9, <2>1, <3>1, EntryFacts
  <2> QED
    BY <2>1, <2>2 DEF Names, Contents, N, P
<1>12. r.failure = "no" => Good(caching, r, D)
  <2> SUFFICES ASSUME r.failure = "no" PROVE Good(caching, r, D)
    OBVIOUS
  <2>1. Consistent(r, Held(D), Names(caching, D), Contents(D))
    BY <1>8, <1>10, <1>11, RelabelKeeps
  <2> QED
    BY <1>1, <1>9, <2>1, GoodAt DEF D
<1> QED
  BY <1>8, <1>12 DEF r, s, D

-----------------------------------------------------------------------------
(* A child shares the table of its parent                                    *)

Counts(m, s) ==
    [b \in Block |-> IF \E i \in DOMAIN s : s[i].id = b THEN m.refs[b] + 1 ELSE m.refs[b]]

\* A table for a child, every block with one more holder.
LEMMA ForkKeeps ==
    ASSUME NEW k, NEW m, NEW B, NEW c \in Table, NEW d \in Table \ {c}, Good(k, m, B),
           B[d] = <<>>, NEW n, n = [m EXCEPT !.refs = Counts(m, B[c])]
    PROVE  Good(k, n, At(B, d, B[c]))
<1> DEFINE s == B[c]
           D == At(B, d, s)
           C == Held(B)
           E == Held(D)
           N == Names(k, B)
           P == Contents(B)
           O == Names(k, D)
           Q == Contents(D)
           From(f) == IF f[1] = d THEN <<c, f[2]>> ELSE f
<1>1. /\ B \in Tables /\ MemoryOK(m) /\ m.failure = "no" /\ Shaped(s) /\ s \in Seq(Slot)
      /\ DOMAIN s = 1 .. Len(s) /\ Len(s) \in Nat /\ Consistent(m, C, N, P)
      /\ \A x \in Table : Shaped(B[x])
  BY GoodFacts
<1>2. D \in Tables /\ D[d] = s /\ \A x \in Table \ {d} : D[x] = B[x]
  BY <1>1, AtFacts
<1>3. C \in [Block -> SUBSET Entry] /\ E \in [Block -> SUBSET Entry]
  BY <1>1, <1>2, HeldFacts
<1> HIDE DEF D, C, E, N, P, O, Q
<1>4. ASSUME NEW f \in Entry
      PROVE  /\ From(f) \in Entry /\ From(f)[1] # d /\ From(f)[1] \in Table /\ From(f)[2] = f[2]
             /\ D[f[1]] = B[From(f)[1]] /\ f[1] \in Table
  <2>1. f = <<f[1], f[2]>> /\ f[1] \in Table /\ f[2] \in Nat \ {0}
    BY EntryFacts
  <2>2. CASE f[1] = d
    <3>1. From(f) = <<c, f[2]>> /\ <<c, f[2]>> \in Entry
      BY <2>1, <2>2 DEF Entry
    <3>2. D[f[1]] = B[c]
      BY <1>2, <2>2
    <3> HIDE DEF From
    <3> QED
      BY <2>1, <3>1, <3>2
  <2>3. CASE f[1] # d
    BY <1>2, <2>1, <2>3
  <2> QED
    BY <2>2, <2>3
<1>5. ASSUME NEW f \in Entry, f[1] # d PROVE From(f) = f
  BY <1>5
<1>6. ASSUME NEW f \in Entry, f[1] = d PROVE From(f) = <<c, f[2]>>
  BY <1>6
<1> HIDE DEF From
<1>7. ASSUME NEW b \in Block, NEW f \in Entry
      PROVE  f \in E[b] <=> From(f) \in C[b]
  <2>1. f \in E[b] <=> f[2] \in DOMAIN D[f[1]] /\ D[f[1]][f[2]].id = b
    BY <1>2, HeldFacts DEF E
  <2>2. From(f) \in C[b] <=> From(f)[2] \in DOMAIN B[From(f)[1]] /\ B[From(f)[1]][From(f)[2]].id = b
    BY <1>1, <1>4, HeldFacts DEF C
  <2> QED
    BY <1>4, <2>1, <2>2
<1>8. ASSUME NEW b \in Block, NEW f \in C[b] PROVE f[1] # d /\ f \in Entry
  <2>1. f \in Entry
    BY <1>3
  <2>2. f[2] \in DOMAIN B[f[1]]
    BY <1>1, <2>1, HeldFacts DEF C
  <2> QED
    BY <2>1, <2>2
<1>9. ASSUME NEW f \in Entry PROVE O[f] = N[From(f)] /\ Q[f] = P[From(f)]
  <2> DEFINE e == From(f)
  <2>1. e \in Entry /\ e[2] = f[2] /\ D[f[1]] = B[e[1]]
    BY <1>4
  <2> HIDE DEF e
  <2> QED
    BY <2>1 DEF Names, Contents, N, P, O, Q, e
<1>10. ASSUME NEW b \in Block
       PROVE  /\ IsFiniteSet(E[b]) /\ n.refs[b] = Cardinality(E[b]) /\ n.refs[b] \in Nat
              /\ n.refs[b] = 0 <=> m.refs[b] = 0
  <2>1. m.refs[b] = Cardinality(C[b]) /\ IsFiniteSet(C[b]) /\ m.refs[b] \in Nat
    BY <1>1 DEF Consistent, Counted, MemoryOK
  <2>2. n.refs[b] = IF \E i \in DOMAIN s : s[i].id = b THEN m.refs[b] + 1 ELSE m.refs[b]
    <3>1. n.refs = Counts(m, s)
      BY <1>1 DEF MemoryOK
    <3> QED
      BY <3>1 DEF Counts
  <2>3. CASE \E i \in DOMAIN s : s[i].id = b
    <3>1. PICK i \in DOMAIN s : s[i].id = b
      BY <2>3
    <3> DEFINE e == <<c, i>>
               f == <<d, i>>
    <3>2. e \in Entry /\ f \in Entry /\ e[1] = c /\ e[2] = i /\ f[1] = d /\ f[2] = i
      BY <1>1 DEF Entry
    <3>3. From(f) = e
      BY <1>6, <3>2
    <3> HIDE DEF e, f
    <3>4. e \in C[b]
      BY <1>1, <3>1, <3>2, HeldFacts DEF C
    <3>5. f \notin C[b] /\ f \in E[b]
      BY <1>7, <1>8, <3>2, <3>3, <3>4
    <3>6. ASSUME NEW x \in E[b], x # f PROVE x \in C[b]
      <4>1. x \in Entry /\ From(x) \in C[b]
        BY <1>3, <1>7
      <4>2. CASE x[1] = d
        <5>1. From(x) = <<c, x[2]>>
          BY <1>6, <4>1, <4>2
        <5>2. From(x)[2] = e[2]
          BY <1>1, <3>4, <4>1 DEF Consistent, Agreed
        <5>3. x[2] = i
          BY <3>2, <5>1, <5>2
        <5>4. x = f
          BY <3>2, <4>1, <4>2, <5>3, EntryFacts
        <5> QED
          BY <3>6, <5>4
      <4>3. CASE x[1] # d
        BY <1>5, <4>1, <4>3
      <4> QED
        BY <4>2, <4>3
    <3>7. \A x \in C[b] : x \in E[b]
      BY <1>5, <1>7, <1>8
    <3>8. E[b] = C[b] \union {f}
      BY <3>5, <3>6, <3>7
    <3>9. IsFiniteSet(E[b]) /\ Cardinality(E[b]) = Cardinality(C[b]) + 1
      <4>1. IsFiniteSet(C[b]) /\ f \notin C[b]
        BY <2>1, <3>5
      <4>2. /\ IsFiniteSet(C[b] \cup {f})
            /\ Cardinality(C[b] \cup {f}) = Cardinality(C[b]) + 1
        BY <4>1, FS_AddElement
      <4> QED
        BY <3>8, <4>2
    <3>10. n.refs[b] = m.refs[b] + 1
      BY <2>2, <2>3
    <3>11. m.refs[b] # 0
      BY <1>1, <3>4, HeldCounts
    <3> QED
      BY <2>1, <3>9, <3>10, <3>11
  <2>4. CASE ~ \E i \in DOMAIN s : s[i].id = b
    <3>1. ASSUME NEW x \in E[b] PROVE x \in C[b]
      <4>1. x \in Entry /\ From(x) \in C[b]
        BY <1>3, <1>7
      <4>2. CASE x[1] = d
        <5>1. From(x)[1] = c
          BY <1>6, <4>1, <4>2
        <5>2. From(x)[2] \in DOMAIN s /\ s[From(x)[2]].id = b
          BY <1>1, <1>4, <4>1, <5>1, HeldFacts DEF C
        <5> QED
          BY <2>4, <5>2
      <4>3. CASE x[1] # d
        BY <1>5, <4>1, <4>3
      <4> QED
        BY <4>2, <4>3
    <3>2. \A x \in C[b] : x \in E[b]
      BY <1>5, <1>7, <1>8
    <3>3. E[b] = C[b]
      BY <3>1, <3>2
    <3> QED
      BY <2>1, <2>2, <2>4, <3>3
  <2> QED
    BY <2>3, <2>4
<1>11. /\ n.free = m.free /\ n.cached = m.cached /\ n.unused = m.unused /\ n.failure = m.failure
       /\ n = [m EXCEPT !.refs = n.refs] /\ n.refs = Counts(m, s)
  BY <1>1 DEF MemoryOK
<1>12. MemoryOK(n)
  <2>1. n.refs \in [Block -> Nat]
    <3>1. n.refs = [b \in Block |-> n.refs[b]]
      BY <1>11 DEF Counts
    <3> QED
      BY <1>10, <3>1
  <2> QED
    BY <1>1, <1>11, <2>1 DEF MemoryOK
<1>13. Pooled(n)
  BY <1>1, <1>10, <1>11 DEF Consistent, Pooled, Unused
<1>14. Keyed(n)
  BY <1>1, <1>11 DEF Consistent, Keyed
<1>15. Kept(n) /\ \A x \in m.cached : x.id \in Block
  <2>1. \A x \in m.cached : x.id \in Block
    <3>1. \A x \in m.cached : x \in Record
      BY <1>1 DEF MemoryOK
    <3> QED
      BY <3>1 DEF Record
  <2> QED
    BY <1>1, <1>10, <1>11, <2>1 DEF Consistent, Kept
<1>16. Named(n, E, O)
  <2> SUFFICES ASSUME NEW x \in m.cached, NEW f \in E[x.id] PROVE O[f] = x.hash
    BY <1>11 DEF Named
  <2>1. f \in Entry /\ From(f) \in C[x.id]
    BY <1>3, <1>7, <1>15
  <2> QED
    BY <1>1, <1>9, <2>1 DEF Consistent, Named
<1>17. Agreed(E, Q)
  <2> SUFFICES ASSUME NEW b \in Block, NEW e \in E[b], NEW f \in E[b]
               PROVE  e[2] = f[2] /\ Q[e] = Q[f]
    BY DEF Agreed
  <2>1. e \in Entry /\ f \in Entry /\ From(e) \in C[b] /\ From(f) \in C[b]
    BY <1>3, <1>7
  <2>2. From(e)[2] = From(f)[2] /\ P[From(e)] = P[From(f)]
    BY <1>1, <2>1 DEF Consistent, Agreed
  <2> QED
    BY <1>4, <1>9, <2>1, <2>2
<1>18. Consistent(n, E, O, Q)
  BY <1>1, <1>3, <1>10, <1>11, <1>12, <1>13, <1>14, <1>15, <1>16, <1>17 DEF Consistent, Counted
<1> QED
  BY <1>1, <1>18, GoodAt DEF D, E, O, Q

-----------------------------------------------------------------------------
(* The manager                                                               *)

\* The allocator's state is the record of its variables.
LEMMA MemoryIs ==
    ASSUME NEW m, MemoryOK(m), m.free = freeIds, m.refs = refs, m.cached = cached,
           m.unused = unused, m.failure = failure
    PROVE  Memory = m
BY DEF MemoryOK, Memory

\* Types of the tables after one is replaced.
LEMMA TypeOfAt ==
    ASSUME NEW B \in Tables, NEW c \in Table, NEW t, Shaped(t),
           \A s \in Table : \A i \in DOMAIN B[s] : Len(B[s][i].toks) <= PerBlock
    PROVE  /\ At(B, c, t) \in Tables
           /\ \A s \in Table : \A i \in DOMAIN At(B, c, t)[s] : Len(At(B, c, t)[s][i].toks) <= PerBlock
<1>1. t \in Seq(Slot) /\ \A i \in DOMAIN t : Len(t[i].toks) <= PerBlock
  BY DEF Shaped
<1>2. /\ At(B, c, t) \in Tables /\ At(B, c, t)[c] = t
      /\ \A s \in Table \ {c} : At(B, c, t)[s] = B[s]
  BY <1>1, AtFacts
<1> QED
  BY <1>1, <1>2

\* Types of the allocator's variables.
LEMMA TypeFromMemory ==
    ASSUME NEW m, MemoryOK(m)
    PROVE  /\ m.free \in SUBSET Block /\ m.refs \in [Block -> Nat]
           /\ \A e \in m.cached \union ToSet(m.unused) :
                 e.id \in Block /\ e.hash \in Seq(Token) \ {<<>>}
           /\ m.failure \in {"no", "NoFreeBlocks", "AssertionError"}
<1>1. m.cached \in SUBSET Record /\ m.unused \in Seq(Record)
  BY DEF MemoryOK
<1>2. \A e \in ToSet(m.unused) : e \in Record
  BY <1>1, ElementOfSeq, LenProperties DEF ToSet
<1>3. \A e \in m.cached \union ToSet(m.unused) : e \in Record
  BY <1>1, <1>2
<1> QED
  BY <1>3 DEF MemoryOK, Record

\* What a step of one table has to do for the invariant.
LEMMA BecomesKeeps ==
    ASSUME VInv, NEW m, NEW t, NEW c \in Table, MemoryOK(m), Shaped(t),
           m.failure \in {"no", "AssertionError"},
           m.failure = "no" => Good(caching, m, At(blocks, c, t)),
           Becomes(m), blocks' = [blocks EXCEPT ![c] = t], UNCHANGED caching
    PROVE  VInv'
<1> DEFINE D == At(blocks, c, t)
<1>1. blocks \in Tables /\ caching \in BOOLEAN
      /\ \A s \in Table : \A i \in DOMAIN blocks[s] : Len(blocks[s][i].toks) <= PerBlock
  BY DEF VInv, V2TypeOK, Tables
<1>2. blocks' = D /\ caching' = caching
  BY DEF At
<1>3. D \in Tables /\ \A s \in Table : \A i \in DOMAIN D[s] : Len(D[s][i].toks) <= PerBlock
  BY <1>1, TypeOfAt
<1>4. /\ m.free = freeIds' /\ m.refs = refs' /\ m.cached = cached' /\ m.unused = unused'
      /\ m.failure = failure'
  BY DEF Becomes
<1>5. Memory' = m
  BY <1>4 DEF MemoryOK, Memory
<1> HIDE DEF D
<1>6. V2TypeOK'
  <2>1. /\ freeIds' \in SUBSET Block /\ refs' \in [Block -> Nat]
        /\ \A e \in cached' \union ToSet(unused') :
              e.id \in Block /\ e.hash \in Seq(Token) \ {<<>>}
        /\ failure' \in {"no", "NoFreeBlocks", "AssertionError"}
    BY <1>4, TypeFromMemory
  <2> QED
    BY <1>1, <1>2, <1>3, <2>1 DEF V2TypeOK, Tables
<1>7. failure' # "NoFreeBlocks" /\ (failure' = "no" => Good(caching', m, blocks'))
  BY <1>2, <1>4 DEF D
<1> QED
  BY <1>5, <1>6, <1>7 DEF VInv

\* Before the first call, every block is free and every table empty.
LEMMA VInvInit == V2Init => VInv
<1> SUFFICES ASSUME V2Init PROVE VInv
  OBVIOUS
<1>1. /\ caching \in BOOLEAN /\ blocks = [t \in Table |-> <<>>] /\ freeIds = Block
      /\ refs = [b \in Block |-> 0] /\ cached = {} /\ unused = <<>> /\ failure = "no"
  BY DEF V2Init
<1>2. /\ <<>> \in Seq(Slot) /\ <<>> \in Seq(Record) /\ DOMAIN <<>> = {} /\ Shaped(<<>>)
      /\ ToSet(<<>>) = {}
  <2>1. <<>> \in Seq(Slot) /\ <<>> \in Seq(Record) /\ DOMAIN <<>> = {}
    OBVIOUS
  <2> QED
    BY <2>1 DEF Shaped, ToSet
<1>3. /\ Memory.free = Block /\ Memory.refs = [b \in Block |-> 0] /\ Memory.cached = {}
      /\ Memory.unused = <<>> /\ Memory.failure = "no"
  BY <1>1 DEF Memory
<1>4. MemoryOK(Memory)
  BY <1>1, <1>2 DEF MemoryOK, Memory
<1>5. blocks \in Tables /\ \A t \in Table : blocks[t] = <<>>
  BY <1>1, <1>2 DEF Tables
<1> DEFINE C == Held(blocks)
<1>6. C \in [Block -> SUBSET Entry]
  BY <1>5, HeldFacts
<1>7. \A b \in Block : C[b] = {}
  <2> SUFFICES ASSUME NEW b \in Block, NEW e \in C[b] PROVE FALSE
    OBVIOUS
  <2>1. e \in Entry
    BY <1>6
  <2>2. e[2] \in DOMAIN blocks[e[1]]
    BY <1>5, <2>1, HeldFacts
  <2> QED
    BY <1>2, <1>5, <2>1, <2>2, EntryFacts
<1> HIDE DEF C
<1>8. Counted(Memory, C)
  BY <1>3, <1>7, FS_EmptySet DEF Counted
<1>9. Pooled(Memory)
  BY <1>2, <1>3 DEF Pooled, Unused
<1>10. Keyed(Memory) /\ Kept(Memory)
  BY <1>2, <1>3 DEF Keyed, Kept
<1>11. Named(Memory, C, Names(caching, blocks)) /\ Agreed(C, Contents(blocks))
  BY <1>3, <1>7 DEF Named, Agreed
<1>12. Good(caching, Memory, blocks)
  BY <1>2, <1>3, <1>4, <1>5, <1>6, <1>8, <1>9, <1>10, <1>11 DEF Good, Tables, Consistent, C
<1>13. V2TypeOK
  BY <1>1, <1>2, <1>5 DEF V2TypeOK, Tables
<1> QED
  BY <1>1, <1>4, <1>12, <1>13 DEF VInv

\* One step per call of the manager.
LEMMA VInvStep == VInv /\ [V2Next]_v2Vars => VInv'
<1> SUFFICES ASSUME VInv, [V2Next]_v2Vars PROVE VInv'
  OBVIOUS
<1>1. CASE UNCHANGED v2Vars
  BY <1>1 DEF v2Vars, VInv, V2TypeOK, Memory, NumFree
<1>2. CASE V2Next
  <2>1. failure = "no" /\ Good(caching, Memory, blocks) /\ MemoryOK(Memory)
    BY <1>2 DEF V2Next, VInv
  <2>2. blocks \in Tables /\ Spare(Memory) = NumFree /\ NumFree \in Nat
    BY <2>1, GoodFacts, SpareIsNat DEF Spare, NumFree, Memory
  <2>3. ASSUME NEW t \in Table, NEW prompt \in Prompts, AllocateTable(t, prompt) PROVE VInv'
    <3> DEFINE r == Allocated(Memory, prompt)
    <3>1. prompt \in Seq(Token) /\ prompt # <<>> /\ Reserve \in Nat
      BY V2Assumption
    <3>2. blocks[t] = <<>> /\ NumFree - Pieces(Len(prompt)) >= Reserve
      BY <2>3 DEF AllocateTable, Pieces
    <3>3. Spare(Memory) >= Pieces(Len(prompt))
      <4>1. Pieces(Len(prompt)) \in Nat
        BY <3>1, LenProperties, PiecesFacts
      <4> QED
        BY <2>2, <3>1, <3>2, <4>1
    <3>4. Result(caching, blocks, t, r)
      BY <2>1, <3>1, <3>2, <3>3, AllocatedKeeps
    <3>5. Becomes(r.m) /\ blocks' = [blocks EXCEPT ![t] = r.t] /\ UNCHANGED caching
      BY <2>3 DEF AllocateTable
    <3> HIDE DEF r
    <3> QED
      BY <3>4, <3>5, BecomesKeeps DEF Result
  <2>4. ASSUME NEW t \in Table, NEW x \in Token, NEW look \in Lookahead,
               AppendTable(t, <<x>>, look)
        PROVE  VInv'
    <3> DEFINE r == Appended(Memory, blocks[t], <<x>>, look)
    <3>1. look \in Nat
      BY V2Assumption
    <3>2. Touched(blocks[t], <<x>>, look) <= Spare(Memory)
      BY <2>2, <2>4 DEF AppendTable
    <3>3. Result(caching, blocks, t, r)
      BY <2>1, <3>1, <3>2, AppendedKeeps
    <3>4. Becomes(r.m) /\ blocks' = [blocks EXCEPT ![t] = r.t] /\ UNCHANGED caching
      BY <2>4 DEF AppendTable
    <3> HIDE DEF r
    <3> QED
      BY <3>3, <3>4, BecomesKeeps DEF Result
  <2>5. ASSUME NEW t \in Table, NEW child \in Table \ {t}, ForkTable(t, child) PROVE VInv'
    <3> DEFINE n == [Memory EXCEPT !.refs = Counts(Memory, blocks[t])]
    <3>1. blocks[child] = <<>> /\ Shaped(blocks[t])
      BY <2>1, <2>5, GoodFacts DEF ForkTable
    <3>2. Good(caching, n, At(blocks, child, blocks[t]))
      BY <2>1, <3>1, ForkKeeps
    <3>3. MemoryOK(n) /\ n.failure = "no"
      BY <3>2 DEF Good, Consistent
    <3>4. Becomes(n) /\ blocks' = [blocks EXCEPT ![child] = blocks[t]] /\ UNCHANGED caching
      <4>1. /\ n.free = freeIds /\ n.refs = Counts(Memory, blocks[t]) /\ n.cached = cached
            /\ n.unused = unused /\ n.failure = failure
        BY DEF Memory
      <4>2. Counts(Memory, blocks[t]) = [b \in Block |->
                   IF \E i \in DOMAIN blocks[t] : blocks[t][i].id = b
                   THEN refs[b] + 1 ELSE refs[b]]
        BY DEF Counts, Memory
      <4> HIDE DEF n
      <4> QED
        BY <2>5, <4>1, <4>2 DEF ForkTable, Becomes
    <3> HIDE DEF n
    <3> QED
      BY <3>1, <3>2, <3>3, <3>4, BecomesKeeps
  <2>6. ASSUME NEW t \in Table, ReleaseTable(t) PROVE VInv'
    <3> DEFINE n == Freed(Memory, blocks[t])
    <3>1. /\ MemoryOK(n) /\ n.failure \in {"no", "AssertionError"}
          /\ n.failure = "no" => Good(caching, n, At(blocks, t, <<>>))
      BY <2>1, FreedKeeps
    <3>2. Becomes(n) /\ blocks' = [blocks EXCEPT ![t] = <<>>] /\ UNCHANGED caching
      BY <2>6 DEF ReleaseTable
    <3>3. Shaped(<<>>)
      <4>1. <<>> \in Seq(Slot) /\ DOMAIN <<>> = {}
        OBVIOUS
      <4> QED
        BY <4>1 DEF Shaped
    <3> HIDE DEF n
    <3> QED
      BY <3>1, <3>2, <3>3, BecomesKeeps
  <2> QED
    BY <1>2, <2>3, <2>4, <2>5, <2>6 DEF V2Next
<1> QED
  BY <1>1, <1>2

\* The state of the allocator and the tables stays of one consistent piece as
\* long as nothing has failed, and no call ever runs out of blocks.
THEOREM TablesConsistent == V2Spec => []VInv
<1> QED
  BY VInvInit, VInvStep, PTL DEF V2Spec

\* The tables of the manager v2, and the allocator under them, stay of their
\* types, also where an assertion of the allocator has failed.
THEOREM V2TypesKept == V2Spec => []V2TypeOK
<1>1. VInv => V2TypeOK
  BY DEF VInv
<1> QED
  BY <1>1, TablesConsistent, PTL

\* No call of the manager v2 runs out of blocks half way: the counts that
\* can_allocate and can_append_slots compare with the free blocks cover the
\* blocks that allocate and append_slots take, the copy of a shared block
\* included, whatever the table is like and whatever the caching allocator does.
THEOREM ChecksSuffice == V2Spec => []WorstCaseSuffices
<1>1. VInv => WorstCaseSuffices
  BY DEF VInv, WorstCaseSuffices
<1> QED
  BY <1>1, TablesConsistent, PTL

\* Counts of holders, as the property counts them.
LEMMA CountsFromVInv == VInv => CountsAndPoolsExact
<1> SUFFICES ASSUME VInv, failure = "no" PROVE
        /\ \A b \in Block : refs[b] = Cardinality(HoldersOf(b))
        /\ \A b \in Block :
              LET pooled == Cardinality({i \in DOMAIN unused : unused[i].id = b})
                            + (IF b \in freeIds THEN 1 ELSE 0)
              IN pooled = IF refs[b] = 0 THEN 1 ELSE 0
  BY DEF CountsAndPoolsExact
<1>1. Consistent(Memory, Held(blocks), Names(caching, blocks), Contents(blocks))
  BY GoodFacts DEF VInv
<1>2. /\ Memory.free = freeIds /\ Memory.refs = refs /\ Memory.unused = unused
  BY DEF Memory
<1>3. \A b \in Block : refs[b] = Cardinality(HoldersOf(b))
  <2>1. \A b \in Block : HoldersOf(b) = Held(blocks)[b]
    BY DEF HoldersOf, Held
  <2> QED
    BY <1>1, <1>2, <2>1 DEF Consistent, Counted
<1>4. ASSUME NEW b \in Block
      PROVE  Cardinality({i \in DOMAIN unused : unused[i].id = b})
                + (IF b \in freeIds THEN 1 ELSE 0) = IF refs[b] = 0 THEN 1 ELSE 0
  <2> DEFINE U == {i \in DOMAIN unused : unused[i].id = b}
  <2>1. /\ refs[b] = 0 <=> b \in freeIds \/ U # {}
        /\ ~(b \in freeIds /\ U # {})
    BY <1>1, <1>2 DEF Consistent, Pooled, Unused
  <2>2. \A i, j \in U : i = j
    BY <1>1, <1>2 DEF Consistent, Keyed
  <2> HIDE DEF U
  <2>3. CASE U = {}
    <3>1. Cardinality(U) = 0
      BY <2>3, FS_EmptySet
    <3> QED
      BY <2>1, <2>3, <3>1 DEF U
  <2>4. CASE U # {}
    <3>1. PICK i \in U : TRUE
      BY <2>4
    <3>2. U = {i}
      BY <2>2, <3>1
    <3>3. Cardinality(U) = 1
      BY <3>2, FS_Singleton
    <3> QED
      BY <2>1, <2>4, <3>3 DEF U
  <2> QED
    BY <2>3, <2>4
<1> QED
  BY <1>3, <1>4

\* Every block of the manager v2 is held as often as it is counted, and is in
\* exactly one pool if nobody holds it, for every number of blocks and every
\* sequence of calls: none is lost and none is given away twice.
THEOREM CountsExact == V2Spec => []CountsAndPoolsExact
BY CountsFromVInv, TablesConsistent, PTL

\* Agreement of the holders of a block, as the property states it.
LEMMA AgreeFromVInv == VInv => SharedBlocksAgree
<1> SUFFICES ASSUME VInv, failure = "no", NEW s \in Table, NEW t \in Table,
                    NEW i \in DOMAIN blocks[s], NEW j \in DOMAIN blocks[t],
                    blocks[s][i].id = blocks[t][j].id, blocks[s][i].toks # <<>>
             PROVE  /\ i = j
                    /\ Tokens(SubSeq(blocks[s], 1, i)) = Tokens(SubSeq(blocks[t], 1, j))
  BY DEF SharedBlocksAgree
<1> DEFINE b == blocks[s][i].id
           e == <<s, i>>
           f == <<t, j>>
           P == Contents(blocks)
<1>1. /\ blocks \in Tables /\ blocks[s] \in Seq(Slot) /\ blocks[t] \in Seq(Slot)
      /\ Consistent(Memory, Held(blocks), Names(caching, blocks), P)
  BY GoodFacts DEF VInv
<1>2. b \in Block
  <2>1. blocks[s][i] \in Slot
    BY <1>1, ElementOfSeq, LenProperties
  <2> QED
    BY <2>1 DEF Slot
<1>3. /\ e \in Entry /\ f \in Entry /\ e[1] = s /\ e[2] = i /\ f[1] = t /\ f[2] = j
  BY <1>1, HashIsName
<1> HIDE DEF e, f, P, b
<1>4. e \in Held(blocks)[b] /\ f \in Held(blocks)[b]
  BY <1>1, <1>2, <1>3, HeldFacts DEF b
<1>5. i = j /\ P[e] = P[f]
  BY <1>1, <1>2, <1>3, <1>4 DEF Consistent, Agreed
<1>6. P[e] = Prefix(blocks[s], i)
  BY <1>3 DEF Contents, P
<1>7. Prefix(blocks[s], i) # <<>>
  BY <1>1, PrefixFacts
<1>8. P[f] = Prefix(blocks[t], j)
  <2>1. P[f] # <<>>
    BY <1>5, <1>6, <1>7
  <2> QED
    BY <1>3, <2>1 DEF Contents, P
<1> QED
  BY <1>5, <1>6, <1>8 DEF Prefix

\* Sequences that share a block of the manager v2 have it at the same place and
\* agree on every token up to its end, with any number of forks, copies on
\* write, promotions and evictions before: no write goes through a shared
\* block, and no hash finds a block whose content has been replaced.
THEOREM SharedAgree == V2Spec => []SharedBlocksAgree
BY AgreeFromVInv, TablesConsistent, PTL

=============================================================================
