----------------------------- MODULE ListLemmas -----------------------------
(* Facts about lists that the proofs about the queues rest on. *)
EXTENDS Lists, SequenceTheorems, FiniteSetTheorems, WellFoundedInduction, TLAPS

\* The elements of a concatenation are those of its two parts.
LEMMA ConcatElems ==
    ASSUME NEW S, NEW s \in Seq(S), NEW t \in Seq(S)
    PROVE  ToSet(s \o t) = ToSet(s) \union ToSet(t)
<1>1. /\ s \o t \in Seq(S)
      /\ DOMAIN (s \o t) = 1 .. Len(s) + Len(t)
      /\ DOMAIN s = 1 .. Len(s)
      /\ DOMAIN t = 1 .. Len(t)
      /\ Len(s) \in Nat /\ Len(t) \in Nat
  BY ConcatProperties, LenProperties
<1>2. \A i \in 1 .. Len(s) : i \in DOMAIN (s \o t) /\ (s \o t)[i] = s[i]
  BY <1>1, ConcatProperties
<1>3. \A i \in 1 .. Len(t) :
         i + Len(s) \in DOMAIN (s \o t) /\ (s \o t)[i + Len(s)] = t[i]
  BY <1>1, ConcatProperties
<1>4. ASSUME NEW i \in DOMAIN (s \o t)
      PROVE  (s \o t)[i] \in ToSet(s) \union ToSet(t)
  <2>1. CASE i <= Len(s)
    BY <1>1, <1>2, <2>1 DEF ToSet
  <2>2. CASE i > Len(s)
    <3>1. i - Len(s) \in DOMAIN t /\ (s \o t)[i] = t[i - Len(s)]
      BY <1>1, <1>3, <2>2
    <3>2. QED BY <3>1 DEF ToSet
  <2>3. QED BY <1>1, <2>1, <2>2
<1>5. ToSet(s) \subseteq ToSet(s \o t)
  BY <1>1, <1>2 DEF ToSet
<1>6. ToSet(t) \subseteq ToSet(s \o t)
  BY <1>1, <1>3 DEF ToSet
<1>7. ToSet(s \o t) \subseteq ToSet(s) \union ToSet(t)
  BY <1>4 DEF ToSet
<1>8. QED BY <1>5, <1>6, <1>7

\* A concatenation repeats nothing exactly when neither part does and the
\* parts have nothing in common.
LEMMA ConcatInjective ==
    ASSUME NEW S, NEW s \in Seq(S), NEW t \in Seq(S)
    PROVE  IsInjective(s \o t) <=>
             /\ IsInjective(s)
             /\ IsInjective(t)
             /\ ToSet(s) \intersect ToSet(t) = {}
<1>1. /\ DOMAIN (s \o t) = 1 .. Len(s) + Len(t)
      /\ DOMAIN s = 1 .. Len(s)
      /\ DOMAIN t = 1 .. Len(t)
      /\ Len(s) \in Nat /\ Len(t) \in Nat
  BY ConcatProperties, LenProperties
<1>2. \A i \in 1 .. Len(s) : i \in DOMAIN (s \o t) /\ (s \o t)[i] = s[i]
  BY <1>1, ConcatProperties
<1>3. \A i \in 1 .. Len(t) :
         i + Len(s) \in DOMAIN (s \o t) /\ (s \o t)[i + Len(s)] = t[i]
  BY <1>1, ConcatProperties
<1>4. \A i \in DOMAIN (s \o t) : i > Len(s) =>
         i - Len(s) \in DOMAIN t /\ (s \o t)[i] = t[i - Len(s)]
  BY <1>1, <1>3
<1>5. ASSUME IsInjective(s \o t)
      PROVE  /\ IsInjective(s)
             /\ IsInjective(t)
             /\ ToSet(s) \intersect ToSet(t) = {}
  <2>1. IsInjective(s)
    BY <1>1, <1>2, <1>5 DEF IsInjective
  <2>2. IsInjective(t)
    <3>1. ASSUME NEW i \in DOMAIN t, NEW j \in DOMAIN t, t[i] = t[j]
          PROVE  i = j
      <4>1. i + Len(s) = j + Len(s)
        BY <1>1, <1>3, <1>5, <3>1 DEF IsInjective
      <4>2. QED BY <1>1, <4>1
    <3>2. QED BY <3>1 DEF IsInjective
  <2>3. ASSUME NEW x \in ToSet(s), x \in ToSet(t)
        PROVE  FALSE
    <3>1. PICK i \in DOMAIN s : x = s[i]
      BY DEF ToSet
    <3>2. PICK j \in DOMAIN t : x = t[j]
      BY <2>3 DEF ToSet
    <3>3. i = j + Len(s)
      BY <1>1, <1>2, <1>3, <1>5, <3>1, <3>2 DEF IsInjective
    <3>4. QED BY <1>1, <3>3
  <2>4. QED BY <2>1, <2>2, <2>3
<1>6. ASSUME IsInjective(s), IsInjective(t),
             ToSet(s) \intersect ToSet(t) = {}
      PROVE  IsInjective(s \o t)
  <2>1. ASSUME NEW i \in DOMAIN (s \o t), NEW j \in DOMAIN (s \o t),
               (s \o t)[i] = (s \o t)[j]
        PROVE  i = j
    <3>1. \A k \in DOMAIN s : s[k] \in ToSet(s)
      BY DEF ToSet
    <3>2. \A k \in DOMAIN t : t[k] \in ToSet(t)
      BY DEF ToSet
    <3>3. CASE i <= Len(s) /\ j <= Len(s)
      BY <1>1, <1>2, <1>6, <2>1, <3>3 DEF IsInjective
    <3>4. CASE i > Len(s) /\ j > Len(s)
      <4>1. i - Len(s) = j - Len(s)
        BY <1>1, <1>4, <1>6, <2>1, <3>4 DEF IsInjective
      <4>2. QED BY <1>1, <4>1
    <3>5. CASE i <= Len(s) /\ j > Len(s)
      BY <1>1, <1>2, <1>4, <1>6, <2>1, <3>1, <3>2, <3>5
    <3>6. CASE i > Len(s) /\ j <= Len(s)
      BY <1>1, <1>2, <1>4, <1>6, <2>1, <3>1, <3>2, <3>6
    <3>7. QED BY <1>1, <3>3, <3>4, <3>5, <3>6
  <2>2. QED BY <2>1 DEF IsInjective
<1>7. QED BY <1>5, <1>6

\* A non-empty list is its head followed by its tail.
LEMMA HeadTailElems ==
    ASSUME NEW S, NEW s \in Seq(S), s # <<>>
    PROVE  /\ Head(s) \in S
           /\ Tail(s) \in Seq(S)
           /\ s = <<Head(s)>> \o Tail(s)
           /\ ToSet(s) = {Head(s)} \union ToSet(Tail(s))
           /\ IsInjective(s) => IsInjective(Tail(s)) /\ Head(s) \notin ToSet(Tail(s))
<1>1. Head(s) \in S /\ Tail(s) \in Seq(S)
  BY HeadTailProperties
<1>2. s = <<Head(s)>> \o Tail(s)
  OBVIOUS
<1>3. <<Head(s)>> \in Seq(S)
  BY <1>1
<1>4. ToSet(<<Head(s)>>) = {Head(s)}
  BY DEF ToSet
<1>5. ToSet(s) = {Head(s)} \union ToSet(Tail(s))
  <2>1. ToSet(<<Head(s)>> \o Tail(s)) = ToSet(<<Head(s)>>) \union ToSet(Tail(s))
    <3> DEFINE h == <<Head(s)>>
               r == Tail(s)
    <3>1. h \in Seq(S) /\ r \in Seq(S)
      BY <1>1, <1>3
    <3> HIDE DEF h, r
    <3>2. ToSet(h \o r) = ToSet(h) \union ToSet(r)
      BY <3>1, ConcatElems
    <3> QED
      BY <3>2 DEF h, r
  <2>2. ToSet(s) = ToSet(<<Head(s)>> \o Tail(s))
    BY <1>2
  <2>3. QED BY <1>4, <2>1, <2>2
<1>6. IsInjective(s) => IsInjective(Tail(s)) /\ Head(s) \notin ToSet(Tail(s))
  <2>1. IsInjective(<<Head(s)>> \o Tail(s)) =>
            /\ IsInjective(Tail(s))
            /\ ToSet(<<Head(s)>>) \intersect ToSet(Tail(s)) = {}
    BY <1>1, <1>3, ConcatInjective, Zenon
  <2>2. IsInjective(s) => IsInjective(<<Head(s)>> \o Tail(s))
    BY <1>2, Zenon
  <2>3. QED BY <1>4, <2>1, <2>2, Zenon
<1>7. QED BY <1>1, <1>2, <1>5, <1>6

\* A list cut in two is the concatenation of the pieces.
LEMMA CutInTwo ==
    ASSUME NEW S, NEW s \in Seq(S), NEW k \in 0 .. Len(s)
    PROVE  /\ SubSeq(s, 1, k) \in Seq(S)
           /\ SubSeq(s, k + 1, Len(s)) \in Seq(S)
           /\ s = SubSeq(s, 1, k) \o SubSeq(s, k + 1, Len(s))
<1>1. Len(s) \in Nat /\ \A i \in 1 .. Len(s) : s[i] \in S
  BY LenProperties, ElementOfSeq
<1>2. SubSeq(s, 1, k) \in Seq(S) /\ SubSeq(s, k + 1, Len(s)) \in Seq(S)
  BY <1>1, SubSeqProperties
<1>3. SubSeq(s, 1, k) \o SubSeq(s, k + 1, Len(s)) = SubSeq(s, 1, Len(s))
  <2>1. 1 \in 1 .. Len(s) + 1 /\ k \in 1 - 1 .. Len(s) /\ Len(s) \in k .. Len(s)
    BY <1>1
  <2>2. QED BY <2>1, ConcatAdjacentSubSeq
<1>4. QED BY <1>2, <1>3, SubSeqFull

\* What a list comprehension returns is a list of the elements it keeps.
LEMMA FilteredFacts ==
    ASSUME NEW R, NEW s \in Seq(R), NEW S, NEW f \in Filtered(s, S)
    PROVE  /\ f \in Seq(R)
           /\ IsInjective(f)
           /\ ToSet(f) = ToSet(s) \intersect S
<1>1. ToSet(s) \subseteq R
  BY ElementOfSeq, LenProperties DEF ToSet
<1>2. PICK n \in 0 .. Len(s) : f \in [1 .. n -> ToSet(s) \intersect S]
  BY DEF Filtered
<1>3. n \in Nat /\ f \in [1 .. n -> R]
  BY <1>1, <1>2, LenProperties
<1>4. f \in Seq(R)
  BY <1>3, IsASeq
<1>5. QED BY <1>4 DEF Filtered

\* The empty list has no elements, an appended one is there.
LEMMA EmptyElems == ASSUME NEW S PROVE <<>> \in Seq(S) /\ ToSet(<<>>) = {}
BY EmptySeq DEF ToSet

LEMMA AppendElems ==
    ASSUME NEW S, NEW s \in Seq(S), NEW x \in S
    PROVE  /\ Append(s, x) \in Seq(S)
           /\ ToSet(Append(s, x)) = ToSet(s) \union {x}
<1>1. <<x>> \in Seq(S) /\ ToSet(<<x>>) = {x}
  BY DEF ToSet
<1>2. Append(s, x) = s \o <<x>>
  BY AppendIsConcat
<1>3. s \o <<x>> \in Seq(S)
  BY <1>1, ConcatProperties
<1>4. ToSet(s \o <<x>>) = ToSet(s) \union ToSet(<<x>>)
  <2> DEFINE y == <<x>>
  <2>1. s \in Seq(S) /\ y \in Seq(S)
    BY <1>1
  <2> HIDE DEF y
  <2>2. ToSet(s \o y) = ToSet(s) \union ToSet(y)
    BY <2>1, ConcatElems
  <2> QED
    BY <2>2 DEF y
<1>5. QED BY <1>1, <1>2, <1>3, <1>4, Zenon

-----------------------------------------------------------------------------
(* What FlattenSeq returns.  It is a recursive function, so what holds of it is *)
(* proved by induction, along the lists it flattens.                           *)

\* Induction without an operator parameter: what fails somewhere fails first
\* at a least number.
LEMMA LeastOfSome ==
    ASSUME NEW T, T \subseteq Nat, T # {}
    PROVE  \E n \in T : \A m \in T : n <= m
<1>1. \E n \in T : \A m \in T : <<m, n>> \notin OpToRel(<, Nat)
  BY WFMin, NatLessThanWellFounded, Zenon
<1>2. PICK n \in T : \A m \in T : <<m, n>> \notin OpToRel(<, Nat)
  BY <1>1
<1>3. ASSUME NEW m \in T PROVE ~(m < n)
  <2>1. m \in Nat /\ n \in Nat
    OBVIOUS
  <2> QED
    BY <1>2, <2>1 DEF OpToRel
<1>4. \A m \in T : n <= m
  BY <1>3
<1> QED
  BY <1>4

\* What FlattenSeq computes, as a table of the lists flattened so far.
Flattens(f, q) ==
    /\ f[1] = q[1]
    /\ \A i \in 2 .. Len(q) : f[i] = f[i - 1] \o q[i]

LEMMA FlattenTable ==
    ASSUME NEW R, NEW q \in Seq(Seq(R)), Len(q) > 0
    PROVE  \E f \in [1 .. Len(q) -> Seq(R)] : Flattens(f, q) /\ FlattenSeq(q) = f[Len(q)]
<1> DEFINE F(g) == [i \in 1 .. Len(q) |-> IF i = 1 THEN q[i] ELSE g[i - 1] \o q[i]]
           fl == CHOOSE g : g = F(g)
           Upto(n, g) == \A i \in 1 .. n : g[i] = IF i = 1 THEN q[i] ELSE g[i - 1] \o q[i]
           T == {n \in 1 .. Len(q) : ~ \E g \in [1 .. n -> Seq(R)] : Upto(n, g)}
<1>1. Len(q) \in Nat /\ \A i \in 1 .. Len(q) : q[i] \in Seq(R)
  BY LenProperties, ElementOfSeq
<1>2. T = {}
  <2>1. SUFFICES ASSUME T # {} PROVE FALSE
    OBVIOUS
  <2>2. PICK n \in T : \A m \in T : n <= m
    <3>1. T \subseteq Nat
      OBVIOUS
    <3> HIDE DEF T
    <3> QED
      BY <2>1, <3>1, LeastOfSome
  <2>3. n \in 1 .. Len(q)
    OBVIOUS
  <2>4. CASE n = 1
    <3>1. Upto(n, [i \in 1 .. n |-> q[i]]) /\ [i \in 1 .. n |-> q[i]] \in [1 .. n -> Seq(R)]
      BY <1>1, <2>4
    <3> QED
      BY <3>1
  <2>5. CASE n > 1
    <3>1. n - 1 \notin T
      <4>1. n \in Nat /\ ~(n <= n - 1)
        BY <2>3
      <4> HIDE DEF T
      <4> QED
        BY <2>2, <4>1
    <3>2. PICK g \in [1 .. n - 1 -> Seq(R)] : Upto(n - 1, g)
      <4>1. n - 1 \in 1 .. Len(q)
        BY <1>1, <2>3, <2>5
      <4> HIDE DEF Upto
      <4> QED
        BY <3>1, <4>1
    <3> DEFINE h == [i \in 1 .. n |-> IF i = n THEN g[n - 1] \o q[n] ELSE g[i]]
    <3>3. g[n - 1] \o q[n] \in Seq(R)
      <4>1. g[n - 1] \in Seq(R) /\ q[n] \in Seq(R)
        BY <1>1, <2>3, <2>5, <3>2
      <4> QED
        BY <4>1, ConcatProperties
    <3>4. h \in [1 .. n -> Seq(R)]
      BY <2>3, <2>5, <3>3
    <3>5. ASSUME NEW i \in 1 .. n
          PROVE  h[i] = IF i = 1 THEN q[i] ELSE h[i - 1] \o q[i]
      <4>1. CASE i = n
        <5>1. h[n] = g[n - 1] \o q[n] /\ h[n - 1] = g[n - 1] /\ n # 1
          <6>1. n \in 1 .. n /\ n - 1 \in 1 .. n /\ n - 1 # n /\ n # 1
            BY <1>1, <2>3, <2>5
          <6> QED
            BY <6>1
        <5> HIDE DEF h
        <5> QED
          BY <4>1, <5>1
      <4>2. CASE i # n
        <5>1. i \in 1 .. n - 1 /\ (i # 1 => i - 1 \in 1 .. n - 1)
          BY <2>3, <4>2
        <5>2. h[i] = g[i] /\ (i # 1 => h[i - 1] = g[i - 1])
          BY <2>3, <4>2, <5>1
        <5>3. g[i] = IF i = 1 THEN q[i] ELSE g[i - 1] \o q[i]
          BY <3>2, <5>1
        <5> QED
          BY <5>2, <5>3
      <4> QED
        BY <4>1, <4>2
    <3> HIDE DEF h
    <3>6. Upto(n, h)
      BY <3>5
    <3> QED
      BY <3>4, <3>6
  <2> QED
    BY <2>3, <2>4, <2>5
<1>3. PICK g \in [1 .. Len(q) -> Seq(R)] : Upto(Len(q), g)
  <2>1. Len(q) \in 1 .. Len(q)
    BY <1>1
  <2> HIDE DEF Upto
  <2> QED
    BY <1>2, <2>1
<1>4. g = F(g)
  BY <1>1, <1>3
<1>5. fl = F(fl)
  BY <1>4, Zenon
<1>6. FlattenSeq(q) = fl[Len(q)]
  BY <1>1 DEF FlattenSeq
<1> HIDE DEF fl
<1>7. \A i \in 1 .. Len(q) : fl[i] = IF i = 1 THEN q[i] ELSE fl[i - 1] \o q[i]
  <2>1. \A i \in 1 .. Len(q) : F(fl)[i] = IF i = 1 THEN q[i] ELSE fl[i - 1] \o q[i]
    OBVIOUS
  <2> HIDE DEF F
  <2> QED
    BY <1>5, <2>1
<1>8. \A i \in 1 .. Len(q) : fl[i] = g[i]
  <2> DEFINE D == {i \in 1 .. Len(q) : fl[i] # g[i]}
  <2>1. SUFFICES ASSUME D # {} PROVE FALSE
    OBVIOUS
  <2>2. PICK n \in D : \A m \in D : n <= m
    <3>1. D \subseteq Nat
      OBVIOUS
    <3> HIDE DEF D
    <3> QED
      BY <2>1, <3>1, LeastOfSome
  <2>3. n \in 1 .. Len(q) /\ fl[n] # g[n] /\ n - 1 \notin D
    BY <2>2
  <2>4. n # 1
    BY <1>3, <1>7, <2>3
  <2>5. fl[n - 1] = g[n - 1]
    BY <2>3, <2>4
  <2> QED
    BY <1>3, <1>7, <2>3, <2>4, <2>5
<1>9. /\ \A i \in 2 .. Len(q) : i \in 1 .. Len(q) /\ i # 1
      /\ 1 \in 1 .. Len(q) /\ Len(q) \in 1 .. Len(q)
  BY <1>1
<1>10. Flattens(g, q)
  BY <1>3, <1>9 DEF Flattens
<1>11. FlattenSeq(q) = g[Len(q)]
  BY <1>6, <1>8, <1>9
<1> QED
  BY <1>10, <1>11

\* x is before y in the lists of q, one after the other.
Earlier(q, x, y) ==
    \/ \E k, l \in DOMAIN q : k < l /\ x \in ToSet(q[k]) /\ y \in ToSet(q[l])
    \/ \E k \in DOMAIN q : \E a, b \in DOMAIN q[k] : a < b /\ q[k][a] = x /\ q[k][b] = y

\* No element is twice in the lists of q.
OnceIn(q) ==
    \A i \in DOMAIN q :
        /\ IsInjective(q[i])
        /\ \A j \in DOMAIN q : i # j => ToSet(q[i]) \intersect ToSet(q[j]) = {}

\* One more list: s is what the first ones flatten to, t the next.
LEMMA FlattenMore ==
    ASSUME NEW R, NEW q \in Seq(Seq(R)), NEW n \in DOMAIN q, NEW s \in Seq(R),
           ToSet(s) = UNION {ToSet(q[i]) : i \in 1 .. n - 1},
           OnceIn(q) => IsInjective(s),
           \A i, j \in DOMAIN s : i < j => Earlier(q, s[i], s[j])
    PROVE  /\ ToSet(s \o q[n]) = UNION {ToSet(q[i]) : i \in 1 .. n}
           /\ OnceIn(q) => IsInjective(s \o q[n])
           /\ \A i, j \in DOMAIN (s \o q[n]) :
                 i < j => Earlier(q, (s \o q[n])[i], (s \o q[n])[j])
<1> DEFINE t == q[n]
           c == s \o t
<1>1. /\ DOMAIN q = 1 .. Len(q) /\ Len(q) \in Nat /\ n \in 1 .. Len(q)
      /\ t \in Seq(R)
  BY LenProperties, ElementOfSeq
<1>2. /\ DOMAIN s = 1 .. Len(s) /\ DOMAIN t = 1 .. Len(t)
      /\ Len(s) \in Nat /\ Len(t) \in Nat
  BY <1>1, LenProperties
<1>3. /\ c \in Seq(R) /\ Len(c) = Len(s) + Len(t) /\ DOMAIN c = 1 .. Len(s) + Len(t)
      /\ \A i \in 1 .. Len(s) : c[i] = s[i]
      /\ \A i \in Len(s) + 1 .. Len(s) + Len(t) : c[i] = t[i - Len(s)]
  <2>1. c \in Seq(R) /\ Len(c) = Len(s) + Len(t)
    BY <1>1, ConcatProperties
  <2>2. \A i \in 1 .. Len(s) + Len(t) : c[i] = IF i <= Len(s) THEN s[i] ELSE t[i - Len(s)]
    BY <1>1, ConcatProperties
  <2>3. DOMAIN c = 1 .. Len(s) + Len(t)
    BY <2>1, LenProperties
  <2> HIDE DEF c, t
  <2>4. /\ \A i \in 1 .. Len(s) : i \in 1 .. Len(s) + Len(t) /\ i <= Len(s)
        /\ \A i \in Len(s) + 1 .. Len(s) + Len(t) : i \in 1 .. Len(s) + Len(t) /\ ~(i <= Len(s))
    BY <1>2
  <2> QED
    BY <2>1, <2>2, <2>3, <2>4
<1>4. ToSet(c) = UNION {ToSet(q[i]) : i \in 1 .. n}
  <2>1. ToSet(c) = ToSet(s) \union ToSet(q[n])
    BY <1>1, ConcatElems
  <2>2. \A i : i \in 1 .. n <=> i \in 1 .. n - 1 \/ i = n
    BY <1>1
  <2> HIDE DEF c, t
  <2> QED
    BY <2>1, <2>2
<1>5. OnceIn(q) => IsInjective(c)
  <2>1. SUFFICES ASSUME OnceIn(q) PROVE IsInjective(c)
    OBVIOUS
  <2>2. IsInjective(q[n])
    BY <2>1 DEF OnceIn
  <2>3. \A i \in 1 .. n - 1 : ToSet(q[i]) \intersect ToSet(q[n]) = {}
    <3>1. \A i \in 1 .. n - 1 : i \in DOMAIN q /\ i # n
      BY <1>1
    <3> QED
      BY <2>1, <3>1 DEF OnceIn
  <2>4. ToSet(s) \intersect ToSet(q[n]) = {}
    BY <2>3
  <2> QED
    BY <1>1, <2>1, <2>2, <2>4, ConcatInjective
<1>7. t = q[n]
  OBVIOUS
<1> HIDE DEF c, t
<1>6. ASSUME NEW i \in DOMAIN c, NEW j \in DOMAIN c, i < j
      PROVE  Earlier(q, c[i], c[j])
  <2>1. CASE j <= Len(s)
    <3>1. i \in DOMAIN s /\ j \in DOMAIN s /\ c[i] = s[i] /\ c[j] = s[j]
      BY <1>2, <1>3, <1>6, <2>1
    <3> QED
      BY <1>6, <3>1
  <2>2. CASE i <= Len(s) /\ j > Len(s)
    <3>1. /\ i \in 1 .. Len(s) /\ j \in Len(s) + 1 .. Len(s) + Len(t)
          /\ j - Len(s) \in 1 .. Len(t)
      BY <1>2, <1>3, <1>6, <2>2
    <3>2. c[i] \in ToSet(s) /\ c[j] \in ToSet(q[n])
      BY <1>2, <1>3, <1>7, <3>1 DEF ToSet
    <3>3. PICK k \in 1 .. n - 1 : c[i] \in ToSet(q[k])
      BY <3>2
    <3>4. k \in DOMAIN q /\ k < n
      BY <1>1, <3>3
    <3> QED
      BY <3>2, <3>3, <3>4 DEF Earlier
  <2>3. CASE i > Len(s)
    <3>1. /\ i \in Len(s) + 1 .. Len(s) + Len(t) /\ j \in Len(s) + 1 .. Len(s) + Len(t)
          /\ i - Len(s) \in 1 .. Len(t) /\ j - Len(s) \in 1 .. Len(t)
          /\ i - Len(s) < j - Len(s)
      BY <1>2, <1>3, <1>6, <2>3
    <3>2. c[i] = t[i - Len(s)] /\ c[j] = t[j - Len(s)]
      BY <1>3, <3>1
    <3>3. \E a, b \in DOMAIN q[n] : a < b /\ q[n][a] = c[i] /\ q[n][b] = c[j]
      BY <1>2, <1>7, <3>1, <3>2
    <3> QED
      BY <1>1, <3>3 DEF Earlier
  <2> QED
    BY <1>2, <1>3, <1>6, <2>1, <2>2, <2>3
<1> QED
  BY <1>4, <1>5, <1>6, <1>7 DEF c

\* Lists one after the other: their elements, none twice if none was twice
\* before, in their order.
LEMMA FlattenFacts ==
    ASSUME NEW R, NEW q \in Seq(Seq(R))
    PROVE  /\ FlattenSeq(q) \in Seq(R)
           /\ ToSet(FlattenSeq(q)) = UNION {ToSet(q[i]) : i \in DOMAIN q}
           /\ OnceIn(q) => IsInjective(FlattenSeq(q))
           /\ \A i, j \in DOMAIN FlattenSeq(q) :
                 i < j => Earlier(q, FlattenSeq(q)[i], FlattenSeq(q)[j])
<1>1. DOMAIN q = 1 .. Len(q) /\ Len(q) \in Nat
  BY LenProperties
<1>2. CASE Len(q) = 0
  <2>1. q = <<>> /\ FlattenSeq(q) = q
    BY <1>2, EmptySeq DEF FlattenSeq
  <2>2. DOMAIN FlattenSeq(q) = {} /\ DOMAIN q = {}
    BY <1>1, <1>2, <2>1
  <2>3. FlattenSeq(q) \in Seq(R)
    BY <2>1, EmptySeq
  <2>4. ToSet(FlattenSeq(q)) = {} /\ IsInjective(FlattenSeq(q))
    BY <2>2 DEF ToSet, IsInjective
  <2> QED
    BY <2>2, <2>3, <2>4
<1>3. CASE Len(q) > 0
  <2>1. PICK f \in [1 .. Len(q) -> Seq(R)] : Flattens(f, q) /\ FlattenSeq(q) = f[Len(q)]
    BY <1>3, FlattenTable
  <2> DEFINE Good(n) ==
                 /\ ToSet(f[n]) = UNION {ToSet(q[i]) : i \in 1 .. n}
                 /\ OnceIn(q) => IsInjective(f[n])
                 /\ \A i, j \in DOMAIN f[n] : i < j => Earlier(q, f[n][i], f[n][j])
             T == {n \in 1 .. Len(q) : ~Good(n)}
  <2>2. Good(1)
    <3>1. f[1] = q[1] /\ 1 \in DOMAIN q
      BY <1>1, <1>3, <2>1 DEF Flattens
    <3>2. \A i : i \in 1 .. 1 <=> i = 1
      OBVIOUS
    <3>3. ToSet(f[1]) = UNION {ToSet(q[i]) : i \in 1 .. 1}
      BY <3>1, <3>2
    <3>4. OnceIn(q) => IsInjective(f[1])
      BY <3>1 DEF OnceIn
    <3>5. \A i, j \in DOMAIN f[1] : i < j => Earlier(q, f[1][i], f[1][j])
      BY <3>1 DEF Earlier
    <3> QED
      BY <3>3, <3>4, <3>5
  <2>3. ASSUME NEW n \in 1 .. Len(q), n > 1, Good(n - 1) PROVE Good(n)
    <3>1. n \in DOMAIN q /\ n \in 2 .. Len(q) /\ n - 1 \in 1 .. Len(q)
      BY <1>1, <2>3
    <3>2. f[n] = f[n - 1] \o q[n] /\ f[n - 1] \in Seq(R)
      BY <2>1, <3>1 DEF Flattens
    <3> DEFINE s == f[n - 1]
    <3>3. /\ s \in Seq(R) /\ ToSet(s) = UNION {ToSet(q[i]) : i \in 1 .. n - 1}
          /\ OnceIn(q) => IsInjective(s)
          /\ \A i, j \in DOMAIN s : i < j => Earlier(q, s[i], s[j])
          /\ f[n] = s \o q[n]
      BY <2>3, <3>2
    <3> HIDE DEF s
    <3> DEFINE c == s \o q[n]
    <3>4. /\ ToSet(c) = UNION {ToSet(q[i]) : i \in 1 .. n}
          /\ OnceIn(q) => IsInjective(c)
          /\ \A i, j \in DOMAIN c : i < j => Earlier(q, c[i], c[j])
      BY <3>1, <3>3, FlattenMore
    <3>5. f[n] = c
      BY <3>3
    <3> HIDE DEF c
    <3> QED
      BY <3>4, <3>5
  <2> HIDE DEF Good
  <2>4. T = {}
    <3>1. SUFFICES ASSUME T # {} PROVE FALSE
      OBVIOUS
    <3>2. PICK n \in T : \A m \in T : n <= m
      <4>1. T \subseteq Nat
        BY <1>1
      <4> HIDE DEF T
      <4> QED
        BY <3>1, <4>1, LeastOfSome
    <3>3. n \in 1 .. Len(q) /\ ~Good(n) /\ n - 1 \notin T
      <4>1. n \in Nat /\ ~(n <= n - 1)
        BY <1>1
      <4>2. n \in 1 .. Len(q) /\ ~Good(n)
        OBVIOUS
      <4> HIDE DEF T
      <4> QED
        BY <3>2, <4>1, <4>2
    <3>4. n > 1 /\ n - 1 \in 1 .. Len(q)
      BY <1>1, <2>2, <3>3
    <3> QED
      BY <2>3, <3>3, <3>4
  <2>5. Good(Len(q))
    <3>1. Len(q) \in 1 .. Len(q)
      BY <1>1, <1>3
    <3> QED
      BY <2>4, <3>1
  <2>6. f[Len(q)] \in Seq(R)
    <3>1. Len(q) \in 1 .. Len(q)
      BY <1>1, <1>3
    <3> QED
      BY <2>1, <3>1
  <2> QED
    BY <1>1, <2>1, <2>5, <2>6 DEF Good
<1> QED
  BY <1>1, <1>2, <1>3

\* A list without repetitions is as long as the set of its elements.
LEMMA LengthOfOnce ==
    ASSUME NEW R, NEW s \in Seq(R), IsInjective(s)
    PROVE  IsFiniteSet(ToSet(s)) /\ Cardinality(ToSet(s)) = Len(s)
<1>1. Len(s) \in Nat /\ DOMAIN s = 1 .. Len(s)
  BY LenProperties
<1>2. s \in Bijection(1 .. Len(s), ToSet(s))
  <2>1. s \in [1 .. Len(s) -> ToSet(s)]
    BY <1>1 DEF ToSet
  <2>2. \A i, j \in 1 .. Len(s) : s[i] = s[j] => i = j
    BY <1>1 DEF IsInjective
  <2>3. \A x \in ToSet(s) : \E i \in 1 .. Len(s) : s[i] = x
    BY <1>1 DEF ToSet
  <2> QED
    BY <2>1, <2>2, <2>3 DEF Bijection, Injection, Surjection, IsInjective
<1>3. IsFiniteSet(1 .. Len(s)) /\ Cardinality(1 .. Len(s)) = Len(s)
  <2>1. \A a, b \in Int : /\ IsFiniteSet(a .. b)
                         /\ Cardinality(a .. b) = IF a > b THEN 0 ELSE b - a + 1
    BY FS_Interval, Zenon
  <2> DEFINE n == Len(s)
  <2>2. n \in Nat
    BY <1>1
  <2> HIDE DEF n
  <2>3. 1 \in Int /\ n \in Int
    BY <2>2
  <2>4. IsFiniteSet(1 .. n) /\ Cardinality(1 .. n) = IF 1 > n THEN 0 ELSE n - 1 + 1
    BY <2>1, <2>3
  <2>5. Cardinality(1 .. n) = n
    BY <2>2, <2>4
  <2> QED
    BY <2>4, <2>5 DEF n
<1> QED
  BY <1>2, <1>3, FS_Bijection DEF ExistsBijection

=============================================================================
