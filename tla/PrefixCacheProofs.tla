-------------------------- MODULE PrefixCacheProofs --------------------------
(***************************************************************************)
(* What holds of the prefix cache of the manager v1, for every number of   *)
(* pages and conversations, every page size and every prompt: that the two *)
(* allocators and the tables agree and, without swaps, that the pages of a *)
(* sequence hold the keys and values of its own words.                     *)
(***************************************************************************)
EXTENDS PrefixCache, ListLemmas, FiniteSetTheorems

-----------------------------------------------------------------------------
(* The prefix cache of the manager v1: one allocator.                        *)

FreshHash == {<<0, k>> : k \in 1 .. 2 * Cardinality(Page) + 1}
Hash == Seq(Word) \union FreshHash
PoolSize == GpuSizes \union {CpuPages}

PoolShape(m) ==
    m \in [size : PoolSize, made : Nat, dict : SUBSET [hash : Hash, page : Page],
           lru : Seq(Page), hash : [Page -> Hash], num : [Page -> Nat],
           last : [Page -> Nat], ref : [Page -> Nat], done : [Page -> BOOLEAN]]

\* A page that has not been created yet is in nobody's hands.
Unmade(m) ==
    /\ m.made <= m.size
    /\ \A p \in Page : p > m.made => m.ref[p] = 0 /\ ~m.done[p]

\* The pages in use are those the dictionary finds, the others the evictor's.
Dicted(m) == m.dict = {[hash |-> m.hash[p], page |-> p] : p \in {p \in Page : m.ref[p] > 0}}
Evictable(m) == ToSet(m.lru) = {p \in 1 .. m.made : m.ref[p] = 0} /\ IsInjective(m.lru)

\* No content is in two pages.
OnePage(m) == \A p, q \in 1 .. m.made : p # q => m.hash[p] # m.hash[q]

Sound(m) == PoolShape(m) /\ Unmade(m) /\ Dicted(m) /\ Evictable(m) /\ OnePage(m)

\* The pages are numbers, and every allocator has its pages among them.
LEMMA PageFacts ==
    /\ Page \subseteq Nat \ {0} /\ IsFiniteSet(Page)
    /\ \A n \in PoolSize : n \in Nat /\ \A p \in 1 .. n : p \in Page
<1>1. IsFiniteSet(PoolSize) /\ PoolSize \subseteq Nat
  <2>1. IsFiniteSet({CpuPages})
    BY FS_Singleton
  <2> QED
    BY <2>1, PrefixAssumption, FS_Union DEF PoolSize
<1>2. IsFiniteSet({1 .. n : n \in PoolSize})
  <2> DEFINE f == [n \in PoolSize |-> 1 .. n]
             S == {1 .. n : n \in PoolSize}
  <2>1. f \in Surjection(PoolSize, S)
    BY DEF Surjection
  <2> HIDE DEF f
  <2> QED
    BY <1>1, <2>1, FS_Surjection
<1>3. \A s \in {1 .. n : n \in PoolSize} : IsFiniteSet(s)
  <2>1. \A n \in Nat : IsFiniteSet(1 .. n)
    BY FS_Interval
  <2> QED
    BY <1>1, <2>1
<1>4. Page = UNION {1 .. n : n \in PoolSize}
  BY DEF Page, PoolSize
<1>5. IsFiniteSet(Page)
  BY <1>2, <1>3, <1>4, FS_UNION
<1> QED
  BY <1>1, <1>4, <1>5

\* The fields of an allocator.
LEMMA PoolFields ==
    ASSUME NEW m, Sound(m)
    PROVE  /\ m.size \in PoolSize /\ m.size \in Nat /\ m.made \in Nat /\ m.made <= m.size
           /\ \A p \in 1 .. m.made : p \in Page
           /\ m.dict \in SUBSET [hash : Hash, page : Page]
           /\ m.lru \in Seq(Page) /\ m.hash \in [Page -> Hash] /\ m.num \in [Page -> Nat]
           /\ m.last \in [Page -> Nat] /\ m.ref \in [Page -> Nat]
           /\ m.done \in [Page -> BOOLEAN]
           /\ \A p \in Page : m.ref[p] > 0 => p \in 1 .. m.made
<1>1. PoolShape(m) /\ Unmade(m)
  BY DEF Sound
<1>2. m.size \in PoolSize /\ m.made \in Nat /\ m.ref \in [Page -> Nat]
  BY <1>1 DEF PoolShape
<1>3. m.size \in Nat /\ m.made <= m.size /\ \A p \in 1 .. m.size : p \in Page
  BY <1>1, <1>2, PageFacts DEF Unmade
<1>4. \A p \in 1 .. m.made : p \in Page
  BY <1>2, <1>3
<1>5. \A p \in Page : m.ref[p] > 0 => p \in 1 .. m.made
  BY <1>1, <1>2, PageFacts DEF Unmade
<1> QED
  BY <1>1, <1>2, <1>3, <1>4, <1>5 DEF PoolShape

\* A page is found in the dictionary exactly if somebody uses it.
LEMMA InDictFacts ==
    ASSUME NEW m, Sound(m), NEW h
    PROVE  /\ InDict(m, h) <=> \E p \in 1 .. m.made : m.ref[p] > 0 /\ m.hash[p] = h
           /\ InDict(m, h) => /\ DictPage(m, h) \in 1 .. m.made
                              /\ m.ref[DictPage(m, h)] > 0
                              /\ m.hash[DictPage(m, h)] = h
<1>1. \A p \in Page : m.ref[p] > 0 => p \in 1 .. m.made
  BY PoolFields
<1>2. \A p \in 1 .. m.made : p \in Page
  BY PoolFields
<1>3. m.dict = {[hash |-> m.hash[p], page |-> p] : p \in {p \in Page : m.ref[p] > 0}}
  BY DEF Sound, Dicted
<1>4. ASSUME NEW e \in m.dict, e.hash = h
      PROVE  e.page \in 1 .. m.made /\ m.ref[e.page] > 0 /\ m.hash[e.page] = h
  <2>1. PICK p \in {p \in Page : m.ref[p] > 0} : e = [hash |-> m.hash[p], page |-> p]
    BY <1>3
  <2> QED
    BY <1>1, <1>4, <2>1
<1>5. ASSUME NEW p \in 1 .. m.made, m.ref[p] > 0, m.hash[p] = h PROVE InDict(m, h)
  <2>1. [hash |-> m.hash[p], page |-> p] \in m.dict
    BY <1>2, <1>3, <1>5
  <2>2. \E e \in m.dict : e.hash = h
    BY <1>5, <2>1
  <2> QED
    BY <2>2 DEF InDict
<1>6. ASSUME InDict(m, h)
      PROVE  /\ DictPage(m, h) \in 1 .. m.made
             /\ m.ref[DictPage(m, h)] > 0
             /\ m.hash[DictPage(m, h)] = h
  <2> DEFINE e == CHOOSE e \in m.dict : e.hash = h
  <2>1. e \in m.dict /\ e.hash = h
    BY <1>6 DEF InDict
  <2>2. DictPage(m, h) = e.page
    BY DEF DictPage
  <2> HIDE DEF e
  <2> QED
    BY <1>4, <2>1, <2>2
<1> QED
  BY <1>5, <1>6

\* It is found in the evictor exactly if nobody uses it any more.
LEMMA InLruFacts ==
    ASSUME NEW m, Sound(m), NEW h
    PROVE  /\ InLru(m, h) <=> \E p \in 1 .. m.made : m.ref[p] = 0 /\ m.hash[p] = h
           /\ InLru(m, h) => /\ LruPage(m, h) \in ToSet(m.lru)
                             /\ LruPage(m, h) \in 1 .. m.made
                             /\ m.ref[LruPage(m, h)] = 0
                             /\ m.hash[LruPage(m, h)] = h
<1>1. ToSet(m.lru) = {p \in 1 .. m.made : m.ref[p] = 0}
  BY DEF Sound, Evictable
<1>2. InLru(m, h) <=> \E p \in ToSet(m.lru) : m.hash[p] = h
  BY DEF InLru, ToSet
<1>3. ASSUME InLru(m, h) PROVE LruPage(m, h) \in ToSet(m.lru) /\ m.hash[LruPage(m, h)] = h
  BY <1>2, <1>3 DEF LruPage
<1> QED
  BY <1>1, <1>2, <1>3

\* A content is known exactly if a page has it.
LEMMA KnownFacts ==
    ASSUME NEW m, Sound(m), NEW h
    PROVE  /\ Known(m, h) <=> \E p \in 1 .. m.made : m.hash[p] = h
           /\ ~(InDict(m, h) /\ InLru(m, h))
<1>1. m.ref \in [Page -> Nat] /\ \A p \in 1 .. m.made : p \in Page
  BY PoolFields
<1>2. \A p \in 1 .. m.made : m.ref[p] = 0 \/ m.ref[p] > 0
  BY <1>1
<1>3. InDict(m, h) <=> \E p \in 1 .. m.made : m.ref[p] > 0 /\ m.hash[p] = h
  BY InDictFacts
<1>4. InLru(m, h) <=> \E p \in 1 .. m.made : m.ref[p] = 0 /\ m.hash[p] = h
  BY InLruFacts
<1>5. \A p, q \in 1 .. m.made : p # q => m.hash[p] # m.hash[q]
  BY DEF Sound, OnePage
<1>6. ~(InDict(m, h) /\ InLru(m, h))
  BY <1>1, <1>3, <1>4, <1>5
<1> QED
  BY <1>2, <1>3, <1>4, <1>6 DEF Known

\* What is left of a list without one of its elements.
LEMMA WithoutFacts ==
    ASSUME NEW R, NEW s \in Seq(R), IsInjective(s), NEW x \in ToSet(s)
    PROVE  /\ Without(s, x) \in Seq(R)
           /\ IsInjective(Without(s, x))
           /\ ToSet(Without(s, x)) = ToSet(s) \ {x}
           /\ Len(Without(s, x)) = Len(s) - 1
<1> DEFINE q == [i \in DOMAIN s |-> IF s[i] = x THEN <<>> ELSE <<s[i]>>]
           d == Without(s, x)
<1>1. DOMAIN s = 1 .. Len(s) /\ Len(s) \in Nat /\ \A i \in DOMAIN s : s[i] \in R
  BY LenProperties
<1>2. q \in Seq(Seq(R)) /\ DOMAIN q = DOMAIN s
  <2>1. \A i \in DOMAIN s : q[i] \in Seq(R)
    BY <1>1
  <2> QED
    BY <1>1, <2>1, IsASeq
<1>3. d = FlattenSeq(q)
  BY DEF Without
<1>4. \A i \in DOMAIN q : q[i] = IF s[i] = x THEN <<>> ELSE <<s[i]>>
  BY <1>2
<1> HIDE DEF q
<1>5. \A i \in DOMAIN q : ToSet(q[i]) = {s[i]} \ {x}
  <2>1. \A y : ToSet(<<y>>) = {y}
    BY DEF ToSet
  <2>2. ToSet(<<>>) = {}
    BY EmptyElems
  <2> QED
    BY <1>4, <2>1, <2>2
<1>6. \A i, j \in DOMAIN s : s[i] = s[j] => i = j
  BY DEF IsInjective
<1>7. OnceIn(q)
  <2>1. \A i \in DOMAIN q : IsInjective(q[i])
    <3>1. \A y : IsInjective(<<y>>)
      BY DEF IsInjective
    <3>2. IsInjective(<<>>)
      BY DEF IsInjective
    <3> QED
      BY <1>4, <3>1, <3>2
  <2>2. \A i, j \in DOMAIN q : i # j => ToSet(q[i]) \intersect ToSet(q[j]) = {}
    BY <1>2, <1>5, <1>6
  <2> QED
    BY <2>1, <2>2 DEF OnceIn
<1> HIDE DEF d
<1>8. d \in Seq(R) /\ ToSet(d) = UNION {ToSet(q[i]) : i \in DOMAIN q} /\ IsInjective(d)
  BY <1>2, <1>3, <1>7, FlattenFacts
<1>9. ToSet(d) = ToSet(s) \ {x}
  <2>1. ToSet(d) = UNION {{s[i]} \ {x} : i \in DOMAIN s}
    BY <1>2, <1>5, <1>8
  <2> QED
    BY <2>1 DEF ToSet
<1>10. Len(d) = Len(s) - 1
  <2>1. /\ IsFiniteSet(ToSet(s)) /\ Cardinality(ToSet(s)) = Len(s)
        /\ Cardinality(ToSet(d)) = Len(d)
    BY <1>8, LengthOfOnce
  <2>2. Cardinality(ToSet(s) \ {x}) = Cardinality(ToSet(s)) - 1
    BY <2>1, FS_RemoveElement
  <2> QED
    BY <1>9, <2>1, <2>2
<1> QED
  BY <1>8, <1>9, <1>10 DEF d

\* One round of the search of the evictor.
Longer(m, e, p) ==
    IF e.stop \/ m.last[e.page] < m.last[p] THEN [e EXCEPT !.stop = TRUE]
    ELSE IF m.num[e.page] < m.num[p] THEN [e EXCEPT !.page = p] ELSE e

SearchedBy(m, g) ==
    /\ g[0] = [page |-> Head(m.lru), stop |-> FALSE]
    /\ \A k \in 1 .. Len(m.lru) : g[k] = Longer(m, g[k - 1], m.lru[k])
    /\ LeastRecent(m) = g[Len(m.lru)].page

\* The rounds of the search of evict.
LEMMA SearchedSteps ==
    ASSUME NEW m, Len(m.lru) \in Nat
    PROVE  \E g : SearchedBy(m, g)
<1> DEFINE n == Len(m.lru)
           F(h) == [k \in 0 .. n |-> IF k = 0 THEN [page |-> Head(m.lru), stop |-> FALSE] ELSE Longer(m, h[k - 1], m.lru[k])]
           fl == CHOOSE h : h = F(h)
           Upto(j, h) == \A k \in 0 .. j : h[k] = IF k = 0 THEN [page |-> Head(m.lru), stop |-> FALSE] ELSE Longer(m, h[k - 1], m.lru[k])
           T == {j \in 0 .. n : ~ \E h : Upto(j, h)}
<1>0. n \in Nat
  OBVIOUS
<1>6. LeastRecent(m) = fl[n].page
  BY DEF LeastRecent, Longer
<1> HIDE DEF n
<1>1. T = {}
  <2>1. SUFFICES ASSUME T # {} PROVE FALSE
    OBVIOUS
  <2>2. PICK j \in T : \A i \in T : j <= i
    <3>1. T \subseteq Nat
      BY <1>0
    <3> HIDE DEF T
    <3> QED
      BY <2>1, <3>1, LeastOfSome
  <2>3. j \in 0 .. n /\ j \in Nat
    BY <1>0
  <2>4. CASE j = 0
    <3>1. Upto(j, [k \in 0 .. 0 |-> [page |-> Head(m.lru), stop |-> FALSE]])
      BY <2>4
    <3> QED
      BY <3>1
  <2>5. CASE j # 0
    <3>1. j - 1 \notin T /\ j - 1 \in 0 .. n
      <4>1. ~(j <= j - 1) /\ j - 1 \in 0 .. n
        BY <1>0, <2>3, <2>5
      <4> HIDE DEF T
      <4> QED
        BY <2>2, <4>1
    <3>2. PICK h : Upto(j - 1, h)
      <4> HIDE DEF Upto
      <4> QED
        BY <3>1
    <3> DEFINE g == [k \in 0 .. j |-> IF k = j THEN Longer(m, h[j - 1], m.lru[j]) ELSE h[k]]
    <3>3. ASSUME NEW k \in 0 .. j
          PROVE  g[k] = IF k = 0 THEN [page |-> Head(m.lru), stop |-> FALSE] ELSE Longer(m, g[k - 1], m.lru[k])
      <4>1. CASE k = j
        <5>1. j \in 0 .. j /\ j - 1 \in 0 .. j /\ j - 1 # j
          BY <2>3, <2>5
        <5>2. g[j] = Longer(m, h[j - 1], m.lru[j]) /\ g[j - 1] = h[j - 1]
          BY <5>1
        <5> HIDE DEF g
        <5> QED
          BY <2>5, <4>1, <5>2
      <4>2. CASE k # j
        <5>1. k \in 0 .. j - 1 /\ (k # 0 => k - 1 \in 0 .. j /\ k - 1 # j)
          BY <2>3, <4>2
        <5>2. g[k] = h[k] /\ (k # 0 => g[k - 1] = h[k - 1])
          BY <4>2, <5>1
        <5>3. h[k] = IF k = 0 THEN [page |-> Head(m.lru), stop |-> FALSE] ELSE Longer(m, h[k - 1], m.lru[k])
          BY <3>2, <5>1
        <5> HIDE DEF g
        <5> QED
          BY <5>2, <5>3
      <4> QED
        BY <4>1, <4>2
    <3> HIDE DEF g
    <3>4. Upto(j, g)
      BY <3>3
    <3> QED
      BY <3>4
  <2> QED
    BY <2>4, <2>5
<1>2. n \in 0 .. n /\ 0 \in 0 .. n /\ \A k \in 1 .. n : k \in 0 .. n /\ k # 0
  BY <1>0
<1>3. PICK h : Upto(n, h)
  <2> HIDE DEF Upto
  <2> QED
    BY <1>1, <1>2
<1>4. [k \in 0 .. n |-> h[k]] = F([k \in 0 .. n |-> h[k]])
  <2> DEFINE g == [k \in 0 .. n |-> h[k]]
  <2>1. ASSUME NEW k \in 0 .. n
        PROVE  h[k] = IF k = 0 THEN [page |-> Head(m.lru), stop |-> FALSE] ELSE Longer(m, g[k - 1], m.lru[k])
    <3>1. k # 0 => g[k - 1] = h[k - 1]
      BY <1>0
    <3> HIDE DEF g
    <3> QED
      BY <1>3, <3>1
  <2>2. g = [k \in 0 .. n |-> IF k = 0 THEN [page |-> Head(m.lru), stop |-> FALSE] ELSE Longer(m, g[k - 1], m.lru[k])]
    <3> HIDE DEF g
    <3>1. g = [k \in 0 .. n |-> h[k]]
      BY DEF g
    <3> QED
      BY <2>1, <3>1
  <2> QED
    BY <2>2
<1>5. fl = F(fl)
  BY <1>4, Zenon
<1> HIDE DEF fl
<1>7. \A k \in 0 .. n : fl[k] = IF k = 0 THEN [page |-> Head(m.lru), stop |-> FALSE] ELSE Longer(m, fl[k - 1], m.lru[k])
  <2>1. \A k \in 0 .. n : F(fl)[k] = IF k = 0 THEN [page |-> Head(m.lru), stop |-> FALSE] ELSE Longer(m, fl[k - 1], m.lru[k])
    OBVIOUS
  <2> HIDE DEF F
  <2> QED
    BY <1>5, <2>1
<1>8. fl[0] = [page |-> Head(m.lru), stop |-> FALSE] /\ \A k \in 1 .. n : fl[k] = Longer(m, fl[k - 1], m.lru[k])
  BY <1>2, <1>7
<1>9. LeastRecent(m) = fl[n].page
  BY <1>6
<1> QED
  BY <1>8, <1>9 DEF n, SearchedBy

\* What evict returns is a page of the evictor's.
LEMMA LeastRecentFacts ==
    ASSUME NEW m, Sound(m), m.lru # <<>>
    PROVE  LeastRecent(m) \in ToSet(m.lru)
<1>1. m.lru \in Seq(Page) /\ Len(m.lru) \in Nat /\ DOMAIN m.lru = 1 .. Len(m.lru)
  BY PoolFields, LenProperties
<1>2. Len(m.lru) >= 1
  BY <1>1, EmptySeq
<1>3. PICK g : SearchedBy(m, g)
  BY <1>1, SearchedSteps
<1> DEFINE n == Len(m.lru)
           Found == [page : ToSet(m.lru), stop : BOOLEAN]
           T == {k \in 0 .. n : g[k] \notin Found}
<1>4. n \in Nat /\ n >= 1 /\ DOMAIN m.lru = 1 .. n
  BY <1>1, <1>2
<1>5. g[0] \in Found
  <2>1. Head(m.lru) = m.lru[1] /\ 1 \in DOMAIN m.lru
    BY <1>1, <1>2
  <2>2. Head(m.lru) \in ToSet(m.lru)
    BY <2>1 DEF ToSet
  <2> QED
    BY <1>3, <2>2 DEF SearchedBy
<1>6. \A k \in 1 .. n : g[k] = Longer(m, g[k - 1], m.lru[k])
  BY <1>3 DEF SearchedBy
<1>7. LeastRecent(m) = g[n].page
  BY <1>3 DEF SearchedBy
<1> HIDE DEF n, Found
<1>8. T = {}
  <2>1. SUFFICES ASSUME T # {} PROVE FALSE
    OBVIOUS
  <2>2. PICK k \in T : \A i \in T : k <= i
    <3>1. T \subseteq Nat
      BY <1>4
    <3> HIDE DEF T
    <3> QED
      BY <2>1, <3>1, LeastOfSome
  <2>3. k \in 0 .. n /\ k # 0 /\ g[k] \notin Found
    BY <1>5
  <2>4. k \in 1 .. n /\ k - 1 \in 0 .. n /\ ~(k <= k - 1)
    BY <1>4, <2>3
  <2>5. g[k - 1] \in Found
    BY <2>2, <2>4
  <2>6. m.lru[k] \in ToSet(m.lru)
    BY <1>4, <2>4 DEF ToSet
  <2> DEFINE e == g[k - 1]
  <2>7. e \in Found /\ g[k] = Longer(m, e, m.lru[k])
    BY <1>6, <2>4, <2>5
  <2> HIDE DEF e
  <2>8. \/ Longer(m, e, m.lru[k]) = [e EXCEPT !.stop = TRUE]
        \/ Longer(m, e, m.lru[k]) = [e EXCEPT !.page = m.lru[k]]
        \/ Longer(m, e, m.lru[k]) = e
    BY DEF Longer
  <2>9. [e EXCEPT !.stop = TRUE] \in Found /\ [e EXCEPT !.page = m.lru[k]] \in Found
    BY <2>6, <2>7 DEF Found
  <2> QED
    BY <2>3, <2>7, <2>8, <2>9
<1> QED
  <2>1. g[n] \in Found
    BY <1>4, <1>8
  <2> QED
    BY <1>7, <2>1 DEF Found

\* The available pages are those not made and those in the evictor.
LEMMA AvailableFacts ==
    ASSUME NEW m, Sound(m)
    PROVE  /\ Len(m.lru) \in Nat /\ Available(m) \in Nat
           /\ Available(m) = m.size - m.made + Len(m.lru)
           /\ m.lru = <<>> <=> Len(m.lru) = 0
<1>1. m.lru \in Seq(Page) /\ m.size \in Nat /\ m.made \in Nat /\ m.made <= m.size
  BY PoolFields
<1>2. Len(m.lru) \in Nat /\ (m.lru = <<>> <=> Len(m.lru) = 0)
  BY <1>1, LenProperties, EmptySeq
<1> QED
  BY <1>1, <1>2 DEF Available

\* What allocate promises of the allocator it leaves, r.m, and of the page.
Took(m, h, r) ==
    /\ r.ok /\ Sound(r.m) /\ r.page \in Page /\ r.page \in 1 .. r.m.made
    /\ r.m.size = m.size /\ m.made <= r.m.made
    /\ \A q \in 1 .. r.m.made : q \in 1 .. m.made \/ q = r.page
    /\ r.m.ref = [m.ref EXCEPT ![r.page] = @ + 1]
    /\ r.m.hash[r.page] = h
    /\ \A q \in Page : q # r.page =>
          r.m.hash[q] = m.hash[q] /\ r.m.done[q] = m.done[q]
    /\ IF Known(m, h)
       THEN /\ r.page \in 1 .. m.made /\ m.hash[r.page] = h
            /\ r.m.done[r.page] = m.done[r.page]
       ELSE m.ref[r.page] = 0 /\ ~r.m.done[r.page]
    /\ Available(r.m) >= Available(m) - 1

\* A content that the evictor has: its page is used again.
LEMMA TakeFromLru ==
    ASSUME NEW m, Sound(m), NEW h \in Hash, NEW num \in Nat, InLru(m, h)
    PROVE  Took(m, h, AllocatePage(m, h, num))
<1> DEFINE p == LruPage(m, h)
           n == Hold([m EXCEPT !.lru = Without(@, p)], h, p)
           r == AllocatePage(m, h, num)
<1>1. /\ p \in ToSet(m.lru) /\ p \in 1 .. m.made /\ m.ref[p] = 0 /\ m.hash[p] = h
      /\ p \in Page /\ ~InDict(m, h) /\ Known(m, h)
  BY InLruFacts, KnownFacts, PoolFields DEF Known
<1>2. r = [m |-> n, page |-> p, ok |-> ~InDict(m, h) /\ m.ref[p] = 0]
  BY DEF AllocatePage
<1>3. r.m = n /\ r.page = p /\ r.ok
  <2> HIDE DEF n, p, r
  <2> QED
    BY <1>1, <1>2
<1> HIDE DEF p, r
<1>4. PoolShape(m) /\ Unmade(m) /\ Dicted(m) /\ Evictable(m) /\ OnePage(m)
  BY DEF Sound
<1>5. /\ n.size = m.size /\ n.made = m.made /\ n.hash = m.hash /\ n.num = m.num
      /\ n.last = m.last /\ n.done = m.done
      /\ n.lru = Without(m.lru, p)
      /\ n.dict = m.dict \union {[hash |-> h, page |-> p]}
      /\ n.ref = [m.ref EXCEPT ![p] = @ + 1]
  BY <1>4 DEF Hold, PoolShape
<1>6. /\ Without(m.lru, p) \in Seq(Page) /\ IsInjective(Without(m.lru, p))
      /\ ToSet(Without(m.lru, p)) = ToSet(m.lru) \ {p}
      /\ Len(Without(m.lru, p)) = Len(m.lru) - 1
  BY <1>1, <1>4, WithoutFacts DEF PoolShape, Evictable
<1>7. m.ref \in [Page -> Nat]
  BY PoolFields
<1>8. PoolShape(n)
  <2>1. n.dict \in SUBSET [hash : Hash, page : Page]
    <3> HIDE DEF n
    <3> QED
      BY <1>1, <1>4, <1>5 DEF PoolShape
  <2>2. n.ref \in [Page -> Nat]
    <3> HIDE DEF n
    <3> QED
      BY <1>1, <1>5, <1>7
  <2> QED
    BY <1>4, <1>5, <1>6, <2>1, <2>2 DEF PoolShape, Hold
<1> HIDE DEF n
<1>9. /\ n.ref[p] = 1
      /\ \A q \in Page : q # p => n.ref[q] = m.ref[q]
      /\ \A q \in Page : n.ref[q] > 0 <=> m.ref[q] > 0 \/ q = p
  BY <1>1, <1>5, <1>7
<1>10. Unmade(n)
  <2>1. \A q \in Page : q > m.made => q # p
    BY <1>1, PoolFields
  <2> QED
    BY <1>4, <1>5, <1>9, <2>1 DEF Unmade
<1>11. Dicted(n)
  <2>1. {q \in Page : n.ref[q] > 0} = {q \in Page : m.ref[q] > 0} \union {p}
    BY <1>1, <1>9
  <2> QED
    BY <1>1, <1>4, <1>5, <2>1 DEF Dicted
<1>12. Evictable(n)
  <2>1. {q \in 1 .. m.made : n.ref[q] = 0} = {q \in 1 .. m.made : m.ref[q] = 0} \ {p}
    <3>1. \A q \in 1 .. m.made : q \in Page
      BY PoolFields
    <3> QED
      BY <1>1, <1>9, <3>1
  <2> QED
    BY <1>4, <1>5, <1>6, <2>1 DEF Evictable
<1>13. OnePage(n)
  BY <1>4, <1>5 DEF OnePage
<1>14. Sound(n)
  BY <1>8, <1>10, <1>11, <1>12, <1>13 DEF Sound
<1>15. Available(n) >= Available(m) - 1
  <2>1. Len(n.lru) = Len(m.lru) - 1
    BY <1>5, <1>6
  <2>2. /\ Available(n) = n.size - n.made + Len(n.lru)
        /\ Available(m) = m.size - m.made + Len(m.lru)
        /\ Len(m.lru) \in Nat /\ m.size \in Nat /\ m.made \in Nat
    BY <1>14, AvailableFacts, PoolFields
  <2> QED
    BY <1>5, <2>1, <2>2
<1>16. m.made <= m.made
  BY PoolFields
<1> QED
  BY <1>1, <1>3, <1>5, <1>14, <1>15, <1>16 DEF Took, r

\* A content that somebody uses.
LEMMA TakeInUse ==
    ASSUME NEW m, Sound(m), NEW h \in Hash, NEW num \in Nat, InDict(m, h)
    PROVE  Took(m, h, AllocatePage(m, h, num))
<1> DEFINE p == DictPage(m, h)
           n == [m EXCEPT !.ref[p] = @ + 1]
           r == AllocatePage(m, h, num)
<1>1. /\ p \in 1 .. m.made /\ m.ref[p] > 0 /\ m.hash[p] = h
      /\ p \in Page /\ ~InLru(m, h) /\ Known(m, h)
  BY InDictFacts, KnownFacts, PoolFields DEF Known
<1>2. r = [m |-> n, page |-> p, ok |-> m.hash[p] = h]
  BY <1>1 DEF AllocatePage
<1>3. r.m = n /\ r.page = p /\ r.ok
  <2> HIDE DEF n, p, r
  <2> QED
    BY <1>1, <1>2
<1> HIDE DEF p, r
<1>4. PoolShape(m) /\ Unmade(m) /\ Dicted(m) /\ Evictable(m) /\ OnePage(m)
  BY DEF Sound
<1>5. /\ n.size = m.size /\ n.made = m.made /\ n.hash = m.hash /\ n.num = m.num
      /\ n.last = m.last /\ n.done = m.done /\ n.lru = m.lru /\ n.dict = m.dict
      /\ n.ref = [m.ref EXCEPT ![p] = @ + 1]
  BY <1>4 DEF PoolShape
<1>6. m.ref \in [Page -> Nat]
  BY PoolFields
<1>7. PoolShape(n)
  <2>1. n.ref \in [Page -> Nat]
    BY <1>1, <1>5, <1>6
  <2> QED
    BY <1>4, <1>5, <2>1 DEF PoolShape
<1> HIDE DEF n
<1>8. /\ \A q \in Page : q # p => n.ref[q] = m.ref[q]
      /\ \A q \in Page : n.ref[q] > 0 <=> m.ref[q] > 0
      /\ \A q \in Page : n.ref[q] = 0 <=> m.ref[q] = 0
  BY <1>1, <1>5, <1>6
<1>9. Unmade(n)
  BY <1>4, <1>5, <1>8 DEF Unmade
<1>10. Dicted(n)
  <2>1. {q \in Page : n.ref[q] > 0} = {q \in Page : m.ref[q] > 0}
    BY <1>8
  <2> QED
    BY <1>4, <1>5, <2>1 DEF Dicted
<1>11. Evictable(n)
  <2>1. {q \in 1 .. m.made : n.ref[q] = 0} = {q \in 1 .. m.made : m.ref[q] = 0}
    <3>1. \A q \in 1 .. m.made : q \in Page
      BY PoolFields
    <3> QED
      BY <1>8, <3>1
  <2> QED
    BY <1>4, <1>5, <2>1 DEF Evictable
<1>12. OnePage(n)
  BY <1>4, <1>5 DEF OnePage
<1>13. Sound(n)
  BY <1>7, <1>9, <1>10, <1>11, <1>12 DEF Sound
<1>14. Available(n) >= Available(m) - 1 /\ m.made <= m.made
  BY <1>5, <1>13, AvailableFacts, PoolFields
<1> QED
  BY <1>1, <1>3, <1>5, <1>13, <1>14 DEF Took, r

\* A content that no page has, while the allocator may still make pages.
LEMMA TakeMade ==
    ASSUME NEW m, Sound(m), NEW h \in Hash, NEW num \in Nat, ~Known(m, h), m.made < m.size
    PROVE  Took(m, h, AllocatePage(m, h, num))
<1> DEFINE p == m.made + 1
           k == [m EXCEPT !.made = @ + 1, !.hash[m.made + 1] = h, !.num[m.made + 1] = num]
           n == Hold(k, h, p)
           r == AllocatePage(m, h, num)
<1>1. PoolShape(m) /\ Unmade(m) /\ Dicted(m) /\ Evictable(m) /\ OnePage(m)
  BY DEF Sound
<1>2. m.made \in Nat /\ m.size \in PoolSize /\ m.size \in Nat /\ m.ref \in [Page -> Nat]
      /\ m.hash \in [Page -> Hash] /\ m.num \in [Page -> Nat] /\ m.done \in [Page -> BOOLEAN]
  BY PoolFields
<1>3. p \in 1 .. m.size /\ p \in Page /\ p > m.made /\ p \notin 1 .. m.made /\ p \in Nat
  BY <1>2, PageFacts
<1>4. m.ref[p] = 0 /\ ~m.done[p]
  BY <1>1, <1>3 DEF Unmade
<1>5. ~InDict(m, h) /\ ~InLru(m, h) /\ \A q \in 1 .. m.made : m.hash[q] # h
  BY KnownFacts DEF Known
<1>6. r.m = n /\ r.page = p /\ r.ok
  <2>1. NewPage(m, h, num) = [m |-> k, page |-> p, ok |-> TRUE]
    BY DEF NewPage
  <2> DEFINE w == NewPage(m, h, num)
  <2>2. r = [w EXCEPT !.m = Hold(@, h, w.page)]
    BY <1>5, <2>1 DEF AllocatePage
  <2>3. w.m = k /\ w.page = p /\ w.ok = TRUE
    BY <2>1
  <2> HIDE DEF k, p
  <2> QED
    BY <2>1, <2>2, <2>3
<1>7. /\ n.size = m.size /\ n.made = m.made + 1 /\ n.lru = m.lru
      /\ n.last = m.last /\ n.done = m.done
      /\ n.hash = [m.hash EXCEPT ![p] = h]
      /\ n.num = [m.num EXCEPT ![p] = num]
      /\ n.dict = m.dict \union {[hash |-> h, page |-> p]}
      /\ n.ref = [m.ref EXCEPT ![p] = @ + 1]
  BY <1>1 DEF Hold, PoolShape
<1>8. PoolShape(n)
  <2>1. n.dict \in SUBSET [hash : Hash, page : Page]
    BY <1>1, <1>3, <1>7 DEF PoolShape
  <2>2. n.ref \in [Page -> Nat] /\ n.hash \in [Page -> Hash] /\ n.num \in [Page -> Nat]
    BY <1>2, <1>3, <1>7
  <2>3. n.made \in Nat
    BY <1>2, <1>7
  <2> QED
    BY <1>1, <1>7, <2>1, <2>2, <2>3 DEF PoolShape, Hold
<1> HIDE DEF n, k, r
<1>9. /\ n.ref[p] = 1 /\ n.hash[p] = h
      /\ \A q \in Page : q # p => n.ref[q] = m.ref[q] /\ n.hash[q] = m.hash[q]
      /\ \A q \in Page : n.ref[q] > 0 <=> m.ref[q] > 0 \/ q = p
  BY <1>2, <1>3, <1>4, <1>7
<1>10. Unmade(n)
  <2>1. \A q \in Page : q > m.made + 1 => q > m.made /\ q # p
    BY <1>2, PageFacts
  <2>2. m.made + 1 <= m.size
    BY <1>2
  <2> QED
    BY <1>1, <1>7, <1>9, <2>1, <2>2 DEF Unmade
<1>11. Dicted(n)
  <2>1. {q \in Page : n.ref[q] > 0} = {q \in Page : m.ref[q] > 0} \union {p}
    BY <1>3, <1>9
  <2>2. \A q \in {q \in Page : m.ref[q] > 0} : n.hash[q] = m.hash[q]
    BY <1>4, <1>9
  <2> DEFINE A == {q \in Page : m.ref[q] > 0}
             B == {q \in Page : n.ref[q] > 0}
  <2>3. B = A \union {p} /\ (\A q \in A : n.hash[q] = m.hash[q]) /\ n.hash[p] = h
    BY <1>9, <2>1, <2>2
  <2>4. m.dict = {[hash |-> m.hash[q], page |-> q] : q \in A}
    BY <1>1 DEF Dicted
  <2> HIDE DEF A, B
  <2>5. {[hash |-> n.hash[q], page |-> q] : q \in B}
          = {[hash |-> m.hash[q], page |-> q] : q \in A} \union {[hash |-> h, page |-> p]}
    BY <2>3
  <2> QED
    BY <1>7, <2>4, <2>5 DEF Dicted, B
<1>12. Evictable(n)
  <2>1. {q \in 1 .. m.made + 1 : n.ref[q] = 0} = {q \in 1 .. m.made : m.ref[q] = 0}
    <3>1. \A q \in 1 .. m.made : q \in Page /\ q # p
      BY <1>3, PoolFields
    <3>2. 1 .. m.made + 1 = (1 .. m.made) \union {p}
      BY <1>2
    <3> HIDE DEF p
    <3> QED
      BY <1>9, <3>1, <3>2
  <2> QED
    BY <1>1, <1>7, <2>1 DEF Evictable
<1>13. OnePage(n)
  <2>1. 1 .. n.made = (1 .. m.made) \union {p}
    BY <1>2, <1>7
  <2>2. \A q \in 1 .. m.made : q \in Page /\ q # p /\ n.hash[q] = m.hash[q] /\ n.hash[q] # h
    <3>1. \A q \in 1 .. m.made : q \in Page /\ q # p
      BY <1>3, PoolFields
    <3> QED
      BY <1>5, <1>9, <3>1
  <2> HIDE DEF p
  <2>3. \A q, q2 \in 1 .. m.made : q # q2 => m.hash[q] # m.hash[q2]
    BY <1>1 DEF OnePage
  <2> QED
    BY <1>9, <2>1, <2>2, <2>3 DEF OnePage
<1>14. Sound(n)
  BY <1>8, <1>10, <1>11, <1>12, <1>13 DEF Sound
<1>15. Available(n) >= Available(m) - 1
  <2>1. Available(n) = n.size - n.made + Len(n.lru) /\ Available(m) = m.size - m.made + Len(m.lru)
    BY <1>14, AvailableFacts
  <2>2. Len(m.lru) \in Nat
    BY AvailableFacts
  <2> QED
    BY <1>2, <1>7, <2>1, <2>2
<1>16. /\ p \in 1 .. n.made /\ m.made <= n.made
       /\ \A q \in 1 .. n.made : q \in 1 .. m.made \/ q = p
  BY <1>2, <1>3, <1>7
<1> HIDE DEF p
<1> QED
  BY <1>3, <1>4, <1>6, <1>7, <1>9, <1>14, <1>15, <1>16 DEF Took, r

\* A content that no page has, when there is nothing left but what is cached.
LEMMA TakeEvicted ==
    ASSUME NEW m, Sound(m), NEW h \in Hash, NEW num \in Nat, ~Known(m, h),
           ~(m.made < m.size), m.lru # <<>>
    PROVE  Took(m, h, AllocatePage(m, h, num))
<1> DEFINE p == LeastRecent(m)
           k == Renew(m, p, h, num)
           n == Hold(k, h, p)
           r == AllocatePage(m, h, num)
<1>1. PoolShape(m) /\ Unmade(m) /\ Dicted(m) /\ Evictable(m) /\ OnePage(m)
  BY DEF Sound
<1>2. m.made \in Nat /\ m.size \in PoolSize /\ m.size \in Nat /\ m.ref \in [Page -> Nat]
      /\ m.hash \in [Page -> Hash] /\ m.num \in [Page -> Nat] /\ m.done \in [Page -> BOOLEAN]
  BY PoolFields
<1>3. p \in ToSet(m.lru) /\ p \in 1 .. m.made /\ m.ref[p] = 0 /\ p \in Page
  BY <1>1, LeastRecentFacts, PoolFields DEF Evictable
<1>4. ~InDict(m, h) /\ ~InLru(m, h) /\ \A q \in 1 .. m.made : m.hash[q] # h
  BY KnownFacts DEF Known
<1>5. r.m = n /\ r.page = p /\ r.ok
  <2>1. NewPage(m, h, num) = [m |-> k, page |-> p, ok |-> TRUE]
    BY DEF NewPage
  <2> DEFINE w == NewPage(m, h, num)
  <2>2. r = [w EXCEPT !.m = Hold(@, h, w.page)]
    BY <1>4, <2>1 DEF AllocatePage
  <2>3. w.m = k /\ w.page = p /\ w.ok = TRUE
    BY <2>1
  <2> HIDE DEF k, p
  <2> QED
    BY <2>1, <2>2, <2>3
<1> HIDE DEF p
<1>6. /\ n.size = m.size /\ n.made = m.made
      /\ n.lru = Without(m.lru, p)
      /\ n.last = m.last
      /\ n.done = [m.done EXCEPT ![p] = FALSE]
      /\ n.hash = [m.hash EXCEPT ![p] = h]
      /\ n.num = [m.num EXCEPT ![p] = num]
      /\ n.dict = m.dict \union {[hash |-> h, page |-> p]}
      /\ n.ref = [m.ref EXCEPT ![p] = @ + 1]
  BY <1>1 DEF Hold, Renew, PoolShape
<1>7. /\ Without(m.lru, p) \in Seq(Page) /\ IsInjective(Without(m.lru, p))
      /\ ToSet(Without(m.lru, p)) = ToSet(m.lru) \ {p}
      /\ Len(Without(m.lru, p)) = Len(m.lru) - 1
  BY <1>1, <1>3, WithoutFacts DEF PoolShape, Evictable
<1>8. PoolShape(n)
  <2>1. n.dict \in SUBSET [hash : Hash, page : Page]
    BY <1>1, <1>3, <1>6 DEF PoolShape
  <2>2. /\ n.ref \in [Page -> Nat] /\ n.hash \in [Page -> Hash] /\ n.num \in [Page -> Nat]
        /\ n.done \in [Page -> BOOLEAN]
    BY <1>2, <1>3, <1>6
  <2> QED
    BY <1>1, <1>6, <1>7, <2>1, <2>2 DEF PoolShape, Hold, Renew
<1> HIDE DEF n, k, r
<1>9. /\ n.ref[p] = 1 /\ n.hash[p] = h /\ ~n.done[p]
      /\ \A q \in Page : q # p =>
            n.ref[q] = m.ref[q] /\ n.hash[q] = m.hash[q] /\ n.done[q] = m.done[q]
      /\ \A q \in Page : n.ref[q] > 0 <=> m.ref[q] > 0 \/ q = p
  BY <1>2, <1>3, <1>6
<1>10. Unmade(n)
  <2>1. \A q \in Page : q > m.made => q # p
    BY <1>2, <1>3
  <2> QED
    BY <1>1, <1>6, <1>9, <2>1 DEF Unmade
<1>11. Dicted(n)
  <2> DEFINE A == {q \in Page : m.ref[q] > 0}
             B == {q \in Page : n.ref[q] > 0}
  <2>1. B = A \union {p}
    BY <1>3, <1>9
  <2>4. \A q \in A : q \in Page /\ q # p
    BY <1>3
  <2>5. (\A q \in A : n.hash[q] = m.hash[q]) /\ n.hash[p] = h
    <3> HIDE DEF A, B
    <3> QED
      BY <1>9, <2>4
  <2>2. m.dict = {[hash |-> m.hash[q], page |-> q] : q \in A}
    BY <1>1 DEF Dicted
  <2> HIDE DEF A, B
  <2>3. {[hash |-> n.hash[q], page |-> q] : q \in B}
          = {[hash |-> m.hash[q], page |-> q] : q \in A} \union {[hash |-> h, page |-> p]}
    BY <2>1, <2>5
  <2> QED
    BY <1>6, <2>2, <2>3 DEF Dicted, B
<1>12. Evictable(n)
  <2>1. {q \in 1 .. m.made : n.ref[q] = 0} = {q \in 1 .. m.made : m.ref[q] = 0} \ {p}
    <3>1. \A q \in 1 .. m.made : q \in Page
      BY PoolFields
    <3> QED
      BY <1>9, <3>1
  <2> QED
    BY <1>1, <1>6, <1>7, <2>1 DEF Evictable
<1>13. OnePage(n)
  <2>1. \A q \in 1 .. m.made : q \in Page
    BY PoolFields
  <2>2. \A q, q2 \in 1 .. m.made : q # q2 => m.hash[q] # m.hash[q2]
    BY <1>1 DEF OnePage
  <2> QED
    BY <1>4, <1>6, <1>9, <2>1, <2>2 DEF OnePage
<1>14. Sound(n)
  BY <1>8, <1>10, <1>11, <1>12, <1>13 DEF Sound
<1>15. Available(n) >= Available(m) - 1
  <2>1. Len(n.lru) = Len(m.lru) - 1
    BY <1>6, <1>7
  <2>2. /\ Available(n) = n.size - n.made + Len(n.lru)
        /\ Available(m) = m.size - m.made + Len(m.lru)
        /\ Len(m.lru) \in Nat /\ m.size \in Nat /\ m.made \in Nat
    BY <1>14, AvailableFacts, PoolFields
  <2> QED
    BY <1>6, <2>1, <2>2
<1>16. p \in 1 .. n.made /\ m.made <= n.made
  BY <1>2, <1>3, <1>6
<1> QED
  BY <1>3, <1>5, <1>6, <1>9, <1>14, <1>15, <1>16 DEF Took, r

\* allocate: it takes one page at most of those that are available, and none if
\* the content is known.
LEMMA TakePage ==
    ASSUME NEW m, Sound(m), NEW h \in Hash, NEW num \in Nat,
           Known(m, h) \/ Available(m) >= 1
    PROVE  Took(m, h, AllocatePage(m, h, num))
<1>1. CASE Known(m, h)
  BY <1>1, TakeFromLru, TakeInUse DEF Known
<1>2. CASE ~Known(m, h) /\ m.made < m.size
  BY <1>2, TakeMade
<1>3. CASE ~Known(m, h) /\ ~(m.made < m.size)
  <2>1. m.lru # <<>>
    <3>1. m.size \in Nat /\ m.made \in Nat
      BY PoolFields
    <3> QED
      BY <1>3, <3>1, AvailableFacts
  <2> QED
    BY <1>3, <2>1, TakeEvicted
<1> QED
  BY <1>1, <1>2, <1>3

\* What free promises of the allocator it leaves.
GaveBack(m, p, r) ==
    /\ r.ok /\ Sound(r.m)
    /\ r.m.size = m.size /\ r.m.made = m.made /\ r.m.hash = m.hash /\ r.m.done = m.done
    /\ r.m.ref = [m.ref EXCEPT ![p] = @ - 1]
    /\ Available(r.m) = Available(m) + (IF m.ref[p] = 1 THEN 1 ELSE 0)

\* free of a page that others use as well.
LEMMA GiveShared ==
    ASSUME NEW m, Sound(m), NEW p \in Page, m.ref[p] > 1
    PROVE  GaveBack(m, p, FreePage(m, p))
<1> DEFINE n == [m EXCEPT !.ref[p] = @ - 1]
           r == FreePage(m, p)
<1>1. r.m = n /\ r.ok
  BY DEF FreePage
<1> HIDE DEF r
<1>2. PoolShape(m) /\ Unmade(m) /\ Dicted(m) /\ Evictable(m) /\ OnePage(m)
  BY DEF Sound
<1>3. m.ref \in [Page -> Nat] /\ \A q \in 1 .. m.made : q \in Page
  BY PoolFields
<1>4. /\ n.size = m.size /\ n.made = m.made /\ n.hash = m.hash /\ n.num = m.num
      /\ n.last = m.last /\ n.done = m.done /\ n.lru = m.lru /\ n.dict = m.dict
      /\ n.ref = [m.ref EXCEPT ![p] = @ - 1]
  BY <1>2 DEF PoolShape
<1>5. PoolShape(n)
  <2>1. n.ref \in [Page -> Nat]
    BY <1>3, <1>4
  <2> QED
    BY <1>2, <1>4, <2>1 DEF PoolShape
<1> HIDE DEF n
<1>6. \A q \in Page : (n.ref[q] > 0 <=> m.ref[q] > 0) /\ (n.ref[q] = 0 <=> m.ref[q] = 0)
  BY <1>3, <1>4
<1>7. Unmade(n)
  BY <1>2, <1>4, <1>6 DEF Unmade
<1>8. Dicted(n)
  <2>1. {q \in Page : n.ref[q] > 0} = {q \in Page : m.ref[q] > 0}
    BY <1>6
  <2> QED
    BY <1>2, <1>4, <2>1 DEF Dicted
<1>9. Evictable(n)
  <2>1. {q \in 1 .. m.made : n.ref[q] = 0} = {q \in 1 .. m.made : m.ref[q] = 0}
    BY <1>3, <1>6
  <2> QED
    BY <1>2, <1>4, <2>1 DEF Evictable
<1>10. OnePage(n)
  BY <1>2, <1>4 DEF OnePage
<1>11. Sound(n)
  BY <1>5, <1>7, <1>8, <1>9, <1>10 DEF Sound
<1>12. Available(n) = Available(m) + (IF m.ref[p] = 1 THEN 1 ELSE 0)
  BY <1>3, <1>4, <1>11, AvailableFacts
<1> QED
  BY <1>1, <1>4, <1>11, <1>12 DEF GaveBack, r

\* free of a page by its last user.
LEMMA GiveLast ==
    ASSUME NEW m, Sound(m), NEW p \in Page, m.ref[p] = 1
    PROVE  GaveBack(m, p, FreePage(m, p))
<1> DEFINE n == [m EXCEPT !.ref[p] = @ - 1, !.lru = Append(@, p),
                          !.dict = {e \in @ : e.hash # m.hash[p]}]
           r == FreePage(m, p)
<1>1. PoolShape(m) /\ Unmade(m) /\ Dicted(m) /\ Evictable(m) /\ OnePage(m)
  BY DEF Sound
<1>2. /\ m.ref \in [Page -> Nat] /\ m.made \in Nat /\ \A q \in 1 .. m.made : q \in Page
      /\ p \in 1 .. m.made /\ m.lru \in Seq(Page)
  BY PoolFields
<1>3. InDict(m, m.hash[p]) /\ ~InLru(m, m.hash[p])
  <2>1. m.ref[p] > 0
    OBVIOUS
  <2>2. InDict(m, m.hash[p])
    BY <1>2, <2>1, InDictFacts
  <2> QED
    BY <2>2, KnownFacts
<1>4. r.m = n /\ r.ok
  <2>1. r = [m |-> n, page |-> p,
             ok |-> m.ref[p] = 1 /\ InDict(m, m.hash[p]) /\ ~InLru(m, m.hash[p])]
    BY DEF FreePage
  <2> HIDE DEF n, r
  <2> QED
    BY <1>3, <2>1
<1> HIDE DEF r
<1>5. /\ n.size = m.size /\ n.made = m.made /\ n.hash = m.hash /\ n.num = m.num
      /\ n.last = m.last /\ n.done = m.done
      /\ n.lru = Append(m.lru, p)
      /\ n.dict = {e \in m.dict : e.hash # m.hash[p]}
      /\ n.ref = [m.ref EXCEPT ![p] = @ - 1]
  BY <1>1 DEF PoolShape
<1>6. /\ Append(m.lru, p) \in Seq(Page) /\ ToSet(Append(m.lru, p)) = ToSet(m.lru) \union {p}
      /\ Len(Append(m.lru, p)) = Len(m.lru) + 1
  BY <1>2, AppendElems, AppendProperties
<1>7. PoolShape(n)
  <2>1. n.ref \in [Page -> Nat]
    BY <1>2, <1>5
  <2>2. n.dict \in SUBSET [hash : Hash, page : Page]
    BY <1>1, <1>5 DEF PoolShape
  <2> QED
    BY <1>1, <1>5, <1>6, <2>1, <2>2 DEF PoolShape
<1> HIDE DEF n
<1>8. /\ n.ref[p] = 0
      /\ \A q \in Page : q # p => n.ref[q] = m.ref[q]
      /\ \A q \in Page : n.ref[q] > 0 <=> m.ref[q] > 0 /\ q # p
  BY <1>2, <1>5
<1>9. Unmade(n)
  BY <1>1, <1>5, <1>8 DEF Unmade
<1>10. Dicted(n)
  <2> DEFINE A == {q \in Page : m.ref[q] > 0}
             B == {q \in Page : n.ref[q] > 0}
  <2>1. B = A \ {p}
    BY <1>8
  <2>2. m.dict = {[hash |-> m.hash[q], page |-> q] : q \in A}
    BY <1>1 DEF Dicted
  <2>3. \A q \in A : q # p => m.hash[q] # m.hash[p]
    <3>1. \A q \in A : q \in 1 .. m.made
      BY PoolFields
    <3> QED
      BY <1>1, <1>2, <3>1 DEF OnePage
  <2> HIDE DEF A, B
  <2>4. {e \in {[hash |-> m.hash[q], page |-> q] : q \in A} : e.hash # m.hash[p]}
          = {[hash |-> m.hash[q], page |-> q] : q \in B}
    BY <2>1, <2>3
  <2> QED
    BY <1>5, <2>2, <2>4 DEF Dicted, B
<1>11. Evictable(n)
  <2>1. {q \in 1 .. m.made : n.ref[q] = 0} = {q \in 1 .. m.made : m.ref[q] = 0} \union {p}
    BY <1>2, <1>8
  <2>2. p \notin ToSet(m.lru)
    BY <1>1 DEF Evictable
  <2>3. IsInjective(Append(m.lru, p))
    <3>1. <<p>> \in Seq(Page) /\ ToSet(<<p>>) = {p} /\ IsInjective(<<p>>)
      BY DEF ToSet, IsInjective
    <3>2. Append(m.lru, p) = m.lru \o <<p>>
      BY <1>2, AppendIsConcat
    <3>3. IsInjective(m.lru) /\ ToSet(m.lru) \intersect ToSet(<<p>>) = {}
      BY <1>1, <2>2, <3>1 DEF Evictable
    <3>4. IsInjective(m.lru \o <<p>>)
      BY <1>2, <3>1, <3>3, ConcatInjective
    <3> QED
      BY <3>2, <3>4
  <2> QED
    BY <1>1, <1>5, <1>6, <2>1, <2>3 DEF Evictable
<1>12. OnePage(n)
  BY <1>1, <1>5 DEF OnePage
<1>13. Sound(n)
  BY <1>7, <1>9, <1>10, <1>11, <1>12 DEF Sound
<1>14. Available(n) = Available(m) + (IF m.ref[p] = 1 THEN 1 ELSE 0)
  <2>1. Len(n.lru) = Len(m.lru) + 1
    BY <1>5, <1>6
  <2>2. /\ Available(n) = n.size - n.made + Len(n.lru)
        /\ Available(m) = m.size - m.made + Len(m.lru)
        /\ Len(m.lru) \in Nat /\ m.size \in Nat /\ m.made \in Nat
    BY <1>13, AvailableFacts, PoolFields
  <2>3. n.size = m.size /\ n.made = m.made
    BY <1>5
  <2>4. Available(n) = Available(m) + 1
    BY <2>1, <2>2, <2>3
  <2> QED
    BY <2>4
<1> QED
  BY <1>4, <1>5, <1>13, <1>14 DEF GaveBack, r

\* free of a page in use
LEMMA GivePage ==
    ASSUME NEW m, Sound(m), NEW p \in Page, m.ref[p] > 0
    PROVE  GaveBack(m, p, FreePage(m, p))
<1>1. m.ref[p] \in Nat
  BY PoolFields
<1>2. m.ref[p] = 1 \/ m.ref[p] > 1
  BY <1>1
<1> QED
  BY <1>2, GiveShared, GiveLast

\* update_hash of a page in use, to a content that no page has.
LEMMA UpdatePage ==
    ASSUME NEW m, Sound(m), NEW p \in Page, m.ref[p] > 0, NEW h \in Hash, ~Known(m, h)
    PROVE  /\ UpdateHash(m, p, h).ok /\ UpdateHash(m, p, h).page = p
           /\ Sound(UpdateHash(m, p, h).m)
           /\ UpdateHash(m, p, h).m.size = m.size
           /\ UpdateHash(m, p, h).m.made = m.made
           /\ UpdateHash(m, p, h).m.ref = m.ref /\ UpdateHash(m, p, h).m.done = m.done
           /\ UpdateHash(m, p, h).m.hash = [m.hash EXCEPT ![p] = h]
           /\ Available(UpdateHash(m, p, h).m) = Available(m)
<1> DEFINE n == [m EXCEPT !.hash[p] = h,
                          !.dict = {e \in @ : e.hash # m.hash[p]}
                                   \union {[hash |-> h, page |-> p]}]
           r == UpdateHash(m, p, h)
<1>1. PoolShape(m) /\ Unmade(m) /\ Dicted(m) /\ Evictable(m) /\ OnePage(m)
  BY DEF Sound
<1>2. /\ m.ref \in [Page -> Nat] /\ m.made \in Nat /\ \A q \in 1 .. m.made : q \in Page
      /\ p \in 1 .. m.made /\ m.hash \in [Page -> Hash]
  BY PoolFields
<1>3. InDict(m, m.hash[p]) /\ \A q \in 1 .. m.made : m.hash[q] # h
  BY <1>2, InDictFacts, KnownFacts
<1>4. r.m = n /\ r.ok /\ r.page = p
  <2>1. r = [m |-> n, page |-> p, ok |-> ~Known(m, h) /\ InDict(m, m.hash[p])]
    BY DEF UpdateHash
  <2> HIDE DEF n, r
  <2> QED
    BY <1>3, <2>1
<1> HIDE DEF r
<1>5. /\ n.size = m.size /\ n.made = m.made /\ n.ref = m.ref /\ n.num = m.num
      /\ n.last = m.last /\ n.done = m.done /\ n.lru = m.lru
      /\ n.hash = [m.hash EXCEPT ![p] = h]
      /\ n.dict = {e \in m.dict : e.hash # m.hash[p]} \union {[hash |-> h, page |-> p]}
  BY <1>1 DEF PoolShape
<1>6. PoolShape(n)
  <2>1. n.hash \in [Page -> Hash]
    BY <1>2, <1>5
  <2>2. n.dict \in SUBSET [hash : Hash, page : Page]
    BY <1>1, <1>5 DEF PoolShape
  <2> QED
    BY <1>1, <1>5, <2>1, <2>2 DEF PoolShape
<1> HIDE DEF n
<1>7. n.hash[p] = h /\ \A q \in Page : q # p => n.hash[q] = m.hash[q]
  BY <1>2, <1>5
<1>8. Unmade(n)
  BY <1>1, <1>5 DEF Unmade
<1>9. Dicted(n)
  <2> DEFINE A == {q \in Page : m.ref[q] > 0}
  <2>1. p \in A
    OBVIOUS
  <2>2. m.dict = {[hash |-> m.hash[q], page |-> q] : q \in A}
    BY <1>1 DEF Dicted
  <2>3. \A q \in A : q # p => m.hash[q] # m.hash[p]
    <3>1. \A q \in A : q \in 1 .. m.made
      BY PoolFields
    <3> QED
      BY <1>1, <1>2, <3>1 DEF OnePage
  <2>4. \A q \in A : q # p => n.hash[q] = m.hash[q]
    BY <1>7
  <2>5. A = {q \in Page : n.ref[q] > 0}
    BY <1>5
  <2> HIDE DEF A
  <2>6. {e \in {[hash |-> m.hash[q], page |-> q] : q \in A} : e.hash # m.hash[p]}
          = {[hash |-> m.hash[q], page |-> q] : q \in A \ {p}}
    BY <2>3
  <2>7. {[hash |-> n.hash[q], page |-> q] : q \in A}
          = {[hash |-> m.hash[q], page |-> q] : q \in A \ {p}} \union {[hash |-> h, page |-> p]}
    BY <1>7, <2>1, <2>4
  <2> QED
    BY <1>5, <2>2, <2>5, <2>6, <2>7 DEF Dicted
<1>10. Evictable(n)
  BY <1>1, <1>5 DEF Evictable
<1>11. OnePage(n)
  BY <1>1, <1>2, <1>3, <1>5, <1>7 DEF OnePage
<1>12. Sound(n)
  BY <1>6, <1>8, <1>9, <1>10, <1>11 DEF Sound
<1>13. Available(n) = Available(m)
  BY <1>5, <1>12, AvailableFacts
<1> QED
  BY <1>4, <1>5, <1>12, <1>13 DEF r

\* One round of the allocation of several pages, and of the release.
AllocateOne(r, h, num) ==
    LET a == AllocatePage(r.m, h, num)
    IN [m |-> a.m, t |-> Append(r.t, a.page), ok |-> r.ok /\ a.ok]

FreeOne(r, p) == LET f == FreePage(r.m, p) IN [m |-> f.m, ok |-> r.ok /\ f.ok]

AllocatedAllBy(m, hs, nums, g) ==
    /\ g[0] = [m |-> m, t |-> <<>>, ok |-> TRUE]
    /\ \A k \in 1 .. Len(hs) : g[k] = AllocateOne(g[k - 1], hs[k], nums[k])
    /\ AllocateAll(m, hs, nums) = g[Len(hs)]

FreedAllBy(m, order, g) ==
    /\ g[0] = [m |-> m, ok |-> TRUE]
    /\ \A k \in 1 .. Len(order) : g[k] = FreeOne(g[k - 1], order[k])
    /\ FreeAll(m, order) = g[Len(order)]

\* The rounds of the loop over the blocks of a prompt, or of a table to be moved.
LEMMA AllocatedAllSteps ==
    ASSUME NEW m, NEW hs, NEW nums, Len(hs) \in Nat
    PROVE  \E g : AllocatedAllBy(m, hs, nums, g)
<1> DEFINE n == Len(hs)
           F(h) == [k \in 0 .. n |-> IF k = 0 THEN [m |-> m, t |-> <<>>, ok |-> TRUE] ELSE AllocateOne(h[k - 1], hs[k], nums[k])]
           fl == CHOOSE h : h = F(h)
           Upto(j, h) == \A k \in 0 .. j : h[k] = IF k = 0 THEN [m |-> m, t |-> <<>>, ok |-> TRUE] ELSE AllocateOne(h[k - 1], hs[k], nums[k])
           T == {j \in 0 .. n : ~ \E h : Upto(j, h)}
<1>0. n \in Nat
  OBVIOUS
<1>6. AllocateAll(m, hs, nums) = fl[n]
  BY DEF AllocateAll, AllocateOne
<1> HIDE DEF n
<1>1. T = {}
  <2>1. SUFFICES ASSUME T # {} PROVE FALSE
    OBVIOUS
  <2>2. PICK j \in T : \A i \in T : j <= i
    <3>1. T \subseteq Nat
      BY <1>0
    <3> HIDE DEF T
    <3> QED
      BY <2>1, <3>1, LeastOfSome
  <2>3. j \in 0 .. n /\ j \in Nat
    BY <1>0
  <2>4. CASE j = 0
    <3>1. Upto(j, [k \in 0 .. 0 |-> [m |-> m, t |-> <<>>, ok |-> TRUE]])
      BY <2>4
    <3> QED
      BY <3>1
  <2>5. CASE j # 0
    <3>1. j - 1 \notin T /\ j - 1 \in 0 .. n
      <4>1. ~(j <= j - 1) /\ j - 1 \in 0 .. n
        BY <1>0, <2>3, <2>5
      <4> HIDE DEF T
      <4> QED
        BY <2>2, <4>1
    <3>2. PICK h : Upto(j - 1, h)
      <4> HIDE DEF Upto
      <4> QED
        BY <3>1
    <3> DEFINE g == [k \in 0 .. j |-> IF k = j THEN AllocateOne(h[j - 1], hs[j], nums[j]) ELSE h[k]]
    <3>3. ASSUME NEW k \in 0 .. j
          PROVE  g[k] = IF k = 0 THEN [m |-> m, t |-> <<>>, ok |-> TRUE] ELSE AllocateOne(g[k - 1], hs[k], nums[k])
      <4>1. CASE k = j
        <5>1. j \in 0 .. j /\ j - 1 \in 0 .. j /\ j - 1 # j
          BY <2>3, <2>5
        <5>2. g[j] = AllocateOne(h[j - 1], hs[j], nums[j]) /\ g[j - 1] = h[j - 1]
          BY <5>1
        <5> HIDE DEF g
        <5> QED
          BY <2>5, <4>1, <5>2
      <4>2. CASE k # j
        <5>1. k \in 0 .. j - 1 /\ (k # 0 => k - 1 \in 0 .. j /\ k - 1 # j)
          BY <2>3, <4>2
        <5>2. g[k] = h[k] /\ (k # 0 => g[k - 1] = h[k - 1])
          BY <4>2, <5>1
        <5>3. h[k] = IF k = 0 THEN [m |-> m, t |-> <<>>, ok |-> TRUE] ELSE AllocateOne(h[k - 1], hs[k], nums[k])
          BY <3>2, <5>1
        <5> HIDE DEF g
        <5> QED
          BY <5>2, <5>3
      <4> QED
        BY <4>1, <4>2
    <3> HIDE DEF g
    <3>4. Upto(j, g)
      BY <3>3
    <3> QED
      BY <3>4
  <2> QED
    BY <2>4, <2>5
<1>2. n \in 0 .. n /\ 0 \in 0 .. n /\ \A k \in 1 .. n : k \in 0 .. n /\ k # 0
  BY <1>0
<1>3. PICK h : Upto(n, h)
  <2> HIDE DEF Upto
  <2> QED
    BY <1>1, <1>2
<1>4. [k \in 0 .. n |-> h[k]] = F([k \in 0 .. n |-> h[k]])
  <2> DEFINE g == [k \in 0 .. n |-> h[k]]
  <2>1. ASSUME NEW k \in 0 .. n
        PROVE  h[k] = IF k = 0 THEN [m |-> m, t |-> <<>>, ok |-> TRUE] ELSE AllocateOne(g[k - 1], hs[k], nums[k])
    <3>1. k # 0 => g[k - 1] = h[k - 1]
      BY <1>0
    <3> HIDE DEF g
    <3> QED
      BY <1>3, <3>1
  <2>2. g = [k \in 0 .. n |-> IF k = 0 THEN [m |-> m, t |-> <<>>, ok |-> TRUE] ELSE AllocateOne(g[k - 1], hs[k], nums[k])]
    <3> HIDE DEF g
    <3>1. g = [k \in 0 .. n |-> h[k]]
      BY DEF g
    <3> QED
      BY <2>1, <3>1
  <2> QED
    BY <2>2
<1>5. fl = F(fl)
  BY <1>4, Zenon
<1> HIDE DEF fl
<1>7. \A k \in 0 .. n : fl[k] = IF k = 0 THEN [m |-> m, t |-> <<>>, ok |-> TRUE] ELSE AllocateOne(fl[k - 1], hs[k], nums[k])
  <2>1. \A k \in 0 .. n : F(fl)[k] = IF k = 0 THEN [m |-> m, t |-> <<>>, ok |-> TRUE] ELSE AllocateOne(fl[k - 1], hs[k], nums[k])
    OBVIOUS
  <2> HIDE DEF F
  <2> QED
    BY <1>5, <2>1
<1>8. fl[0] = [m |-> m, t |-> <<>>, ok |-> TRUE] /\ \A k \in 1 .. n : fl[k] = AllocateOne(fl[k - 1], hs[k], nums[k])
  BY <1>2, <1>7
<1>9. AllocateAll(m, hs, nums) = fl[n]
  BY <1>6
<1> QED
  BY <1>8, <1>9 DEF n, AllocatedAllBy

\* The rounds of _free_block_table.
LEMMA FreedAllSteps ==
    ASSUME NEW m, NEW order, Len(order) \in Nat
    PROVE  \E g : FreedAllBy(m, order, g)
<1> DEFINE n == Len(order)
           F(h) == [k \in 0 .. n |-> IF k = 0 THEN [m |-> m, ok |-> TRUE] ELSE FreeOne(h[k - 1], order[k])]
           fl == CHOOSE h : h = F(h)
           Upto(j, h) == \A k \in 0 .. j : h[k] = IF k = 0 THEN [m |-> m, ok |-> TRUE] ELSE FreeOne(h[k - 1], order[k])
           T == {j \in 0 .. n : ~ \E h : Upto(j, h)}
<1>0. n \in Nat
  OBVIOUS
<1>6. FreeAll(m, order) = fl[n]
  BY DEF FreeAll, FreeOne
<1> HIDE DEF n
<1>1. T = {}
  <2>1. SUFFICES ASSUME T # {} PROVE FALSE
    OBVIOUS
  <2>2. PICK j \in T : \A i \in T : j <= i
    <3>1. T \subseteq Nat
      BY <1>0
    <3> HIDE DEF T
    <3> QED
      BY <2>1, <3>1, LeastOfSome
  <2>3. j \in 0 .. n /\ j \in Nat
    BY <1>0
  <2>4. CASE j = 0
    <3>1. Upto(j, [k \in 0 .. 0 |-> [m |-> m, ok |-> TRUE]])
      BY <2>4
    <3> QED
      BY <3>1
  <2>5. CASE j # 0
    <3>1. j - 1 \notin T /\ j - 1 \in 0 .. n
      <4>1. ~(j <= j - 1) /\ j - 1 \in 0 .. n
        BY <1>0, <2>3, <2>5
      <4> HIDE DEF T
      <4> QED
        BY <2>2, <4>1
    <3>2. PICK h : Upto(j - 1, h)
      <4> HIDE DEF Upto
      <4> QED
        BY <3>1
    <3> DEFINE g == [k \in 0 .. j |-> IF k = j THEN FreeOne(h[j - 1], order[j]) ELSE h[k]]
    <3>3. ASSUME NEW k \in 0 .. j
          PROVE  g[k] = IF k = 0 THEN [m |-> m, ok |-> TRUE] ELSE FreeOne(g[k - 1], order[k])
      <4>1. CASE k = j
        <5>1. j \in 0 .. j /\ j - 1 \in 0 .. j /\ j - 1 # j
          BY <2>3, <2>5
        <5>2. g[j] = FreeOne(h[j - 1], order[j]) /\ g[j - 1] = h[j - 1]
          BY <5>1
        <5> HIDE DEF g
        <5> QED
          BY <2>5, <4>1, <5>2
      <4>2. CASE k # j
        <5>1. k \in 0 .. j - 1 /\ (k # 0 => k - 1 \in 0 .. j /\ k - 1 # j)
          BY <2>3, <4>2
        <5>2. g[k] = h[k] /\ (k # 0 => g[k - 1] = h[k - 1])
          BY <4>2, <5>1
        <5>3. h[k] = IF k = 0 THEN [m |-> m, ok |-> TRUE] ELSE FreeOne(h[k - 1], order[k])
          BY <3>2, <5>1
        <5> HIDE DEF g
        <5> QED
          BY <5>2, <5>3
      <4> QED
        BY <4>1, <4>2
    <3> HIDE DEF g
    <3>4. Upto(j, g)
      BY <3>3
    <3> QED
      BY <3>4
  <2> QED
    BY <2>4, <2>5
<1>2. n \in 0 .. n /\ 0 \in 0 .. n /\ \A k \in 1 .. n : k \in 0 .. n /\ k # 0
  BY <1>0
<1>3. PICK h : Upto(n, h)
  <2> HIDE DEF Upto
  <2> QED
    BY <1>1, <1>2
<1>4. [k \in 0 .. n |-> h[k]] = F([k \in 0 .. n |-> h[k]])
  <2> DEFINE g == [k \in 0 .. n |-> h[k]]
  <2>1. ASSUME NEW k \in 0 .. n
        PROVE  h[k] = IF k = 0 THEN [m |-> m, ok |-> TRUE] ELSE FreeOne(g[k - 1], order[k])
    <3>1. k # 0 => g[k - 1] = h[k - 1]
      BY <1>0
    <3> HIDE DEF g
    <3> QED
      BY <1>3, <3>1
  <2>2. g = [k \in 0 .. n |-> IF k = 0 THEN [m |-> m, ok |-> TRUE] ELSE FreeOne(g[k - 1], order[k])]
    <3> HIDE DEF g
    <3>1. g = [k \in 0 .. n |-> h[k]]
      BY DEF g
    <3> QED
      BY <2>1, <3>1
  <2> QED
    BY <2>2
<1>5. fl = F(fl)
  BY <1>4, Zenon
<1> HIDE DEF fl
<1>7. \A k \in 0 .. n : fl[k] = IF k = 0 THEN [m |-> m, ok |-> TRUE] ELSE FreeOne(fl[k - 1], order[k])
  <2>1. \A k \in 0 .. n : F(fl)[k] = IF k = 0 THEN [m |-> m, ok |-> TRUE] ELSE FreeOne(fl[k - 1], order[k])
    OBVIOUS
  <2> HIDE DEF F
  <2> QED
    BY <1>5, <2>1
<1>8. fl[0] = [m |-> m, ok |-> TRUE] /\ \A k \in 1 .. n : fl[k] = FreeOne(fl[k - 1], order[k])
  BY <1>2, <1>7
<1>9. FreeAll(m, order) = fl[n]
  BY <1>6
<1> QED
  BY <1>8, <1>9 DEF n, FreedAllBy

\* What the first k rounds of an allocation have done, s being their result.
AllTook(m, hs, k, s) ==
    /\ s.ok /\ Sound(s.m) /\ s.m.size = m.size /\ m.made <= s.m.made
    /\ s.t \in Seq(Page) /\ Len(s.t) = k /\ IsInjective(s.t)
    /\ \A i \in 1 .. k : s.t[i] \in 1 .. s.m.made /\ s.m.hash[s.t[i]] = hs[i]
    /\ \A q \in Page : s.m.ref[q] = m.ref[q] + (IF q \in ToSet(s.t) THEN 1 ELSE 0)
    /\ \A q \in Page : q \notin ToSet(s.t) =>
          s.m.hash[q] = m.hash[q] /\ s.m.done[q] = m.done[q]
    /\ \A q \in 1 .. s.m.made : q \in 1 .. m.made \/ q \in ToSet(s.t)
    /\ \A i \in 1 .. k :
          \/ /\ s.t[i] \in 1 .. m.made /\ m.hash[s.t[i]] = hs[i]
             /\ s.m.done[s.t[i]] = m.done[s.t[i]]
          \/ m.ref[s.t[i]] = 0 /\ ~s.m.done[s.t[i]]
    /\ Available(s.m) >= Available(m) - k

\* A round of the loop over the contents keeps what is said of it.
LEMMA AllocateOneMore ==
    ASSUME NEW m, Sound(m), NEW hs \in Seq(Hash), IsInjective(hs),
           NEW k \in 1 .. Len(hs), NEW num \in Nat,
           Available(m) >= Len(hs), NEW s, AllTook(m, hs, k - 1, s)
    PROVE  AllTook(m, hs, k, AllocateOne(s, hs[k], num))
<1> DEFINE a == AllocatePage(s.m, hs[k], num)
           p == a.page
           n == a.m
           t == Append(s.t, p)
           z == AllocateOne(s, hs[k], num)
           len == Len(hs)
<1>1. s.ok /\ Sound(s.m) /\ s.m.size = m.size /\ m.made <= s.m.made
  BY DEF AllTook
<1>table. s.t \in Seq(Page) /\ Len(s.t) = k - 1 /\ IsInjective(s.t)
  BY DEF AllTook
<1>hash. \A i \in 1 .. k - 1 : s.t[i] \in 1 .. s.m.made /\ s.m.hash[s.t[i]] = hs[i]
  BY DEF AllTook
<1>ref. \A q \in Page : s.m.ref[q] = m.ref[q] + (IF q \in ToSet(s.t) THEN 1 ELSE 0)
  BY DEF AllTook
<1>same. \A q \in Page : q \notin ToSet(s.t) =>
            s.m.hash[q] = m.hash[q] /\ s.m.done[q] = m.done[q]
  BY DEF AllTook
<1>made. \A q \in 1 .. s.m.made : q \in 1 .. m.made \/ q \in ToSet(s.t)
  BY DEF AllTook
<1>done. \A i \in 1 .. k - 1 :
            \/ /\ s.t[i] \in 1 .. m.made /\ m.hash[s.t[i]] = hs[i]
               /\ s.m.done[s.t[i]] = m.done[s.t[i]]
            \/ m.ref[s.t[i]] = 0 /\ ~s.m.done[s.t[i]]
  BY DEF AllTook
<1>left. Available(s.m) >= Available(m) - (k - 1)
  BY DEF AllTook
<1>2. len \in Nat /\ k \in Nat /\ k >= 1 /\ k <= len /\ DOMAIN hs = 1 .. len /\ hs[k] \in Hash
  BY LenProperties
<1>3. Available(m) \in Nat /\ Available(s.m) \in Nat
  BY <1>1, AvailableFacts
<1>4. Took(s.m, hs[k], a)
  <2>1. Available(s.m) >= 1
    BY <1>left, <1>2, <1>3
  <2> QED
    BY <1>1, <1>2, <2>1, TakePage
<1>5. /\ a.ok /\ Sound(n) /\ p \in Page /\ p \in 1 .. n.made
      /\ n.size = s.m.size /\ s.m.made <= n.made
      /\ \A q \in 1 .. n.made : q \in 1 .. s.m.made \/ q = p
  BY <1>4 DEF Took
<1>newref. n.ref = [s.m.ref EXCEPT ![p] = @ + 1]
  BY <1>4 DEF Took
<1>newhash. /\ n.hash[p] = hs[k]
            /\ \A q \in Page : q # p => n.hash[q] = s.m.hash[q] /\ n.done[q] = s.m.done[q]
  BY <1>4 DEF Took
<1>newdone. IF Known(s.m, hs[k])
            THEN /\ p \in 1 .. s.m.made /\ s.m.hash[p] = hs[k]
                 /\ n.done[p] = s.m.done[p]
            ELSE s.m.ref[p] = 0 /\ ~n.done[p]
  BY <1>4 DEF Took
<1>newleft. Available(n) >= Available(s.m) - 1
  BY <1>4 DEF Took
<1>6. z.m = n /\ z.t = t /\ z.ok
  <2>1. z = [m |-> n, t |-> t, ok |-> s.ok /\ a.ok]
    BY DEF AllocateOne
  <2> HIDE DEF z, n, t, a
  <2> QED
    BY <1>1, <1>5, <2>1 DEF n, a
<1> HIDE DEF a, p, n, z, len
<1>7. DOMAIN s.t = 1 .. k - 1 /\ \A i \in 1 .. k - 1 : s.t[i] \in Page /\ s.t[i] \in ToSet(s.t)
  <2>1. DOMAIN s.t = 1 .. k - 1 /\ \A i \in 1 .. k - 1 : s.t[i] \in Page
    BY <1>table, <1>2, LenProperties
  <2> QED
    BY <2>1 DEF ToSet
<1>12. s.m.made \in Nat /\ n.made \in Nat /\ m.made \in Nat /\ s.m.ref \in [Page -> Nat]
       /\ m.ref \in [Page -> Nat]
  <2>1. s.m.made \in Nat /\ s.m.ref \in [Page -> Nat]
    BY <1>1, PoolFields
  <2>2. n.made \in Nat
    BY <1>5, PoolFields
  <2> QED
    BY <2>1, <2>2, PoolFields
<1>8. p \notin ToSet(s.t)
  <2>1. ASSUME NEW i \in 1 .. k - 1, s.t[i] = p PROVE FALSE
    <3>1. i \in 1 .. len /\ i # k /\ hs[i] # hs[k]
      BY <1>2 DEF IsInjective
    <3>2. s.m.hash[p] = hs[i]
      BY <1>hash, <2>1
    <3>3. s.m.ref[p] > 0
      <4>1. p \in ToSet(s.t) /\ m.ref[p] \in Nat
        BY <1>5, <1>7, <1>12, <2>1
      <4> QED
        BY <1>ref, <1>5, <4>1
    <3>4. Known(s.m, hs[k])
      BY <1>newdone, <3>3
    <3> QED
      BY <1>newdone, <3>1, <3>2, <3>4
  <2> QED
    BY <1>7, <2>1 DEF ToSet
<1>9. /\ t \in Seq(Page) /\ ToSet(t) = ToSet(s.t) \union {p} /\ Len(t) = k
      /\ \A i \in 1 .. k - 1 : t[i] = s.t[i]
      /\ t[k] = p
  <2>1. t \in Seq(Page) /\ ToSet(t) = ToSet(s.t) \union {p}
    BY <1>table, <1>5, AppendElems
  <2>2. /\ Len(t) = Len(s.t) + 1 /\ t[Len(s.t) + 1] = p
        /\ \A i \in 1 .. Len(s.t) : t[i] = s.t[i]
    BY <1>table, <1>5, AppendProperties
  <2>3. Len(s.t) + 1 = k
    BY <1>table, <1>2
  <2> QED
    BY <1>table, <2>1, <2>2, <2>3
<1> HIDE DEF t
<1>split. \A i \in 1 .. k : i = k \/ i \in 1 .. k - 1
  BY <1>2
<1>10. IsInjective(t)
  <2>1. DOMAIN t = 1 .. k
    BY <1>9, LenProperties
  <2>3. \A i \in 1 .. k - 1 : t[i] # p
    BY <1>7, <1>8, <1>9
  <2>4. \A i, j \in 1 .. k - 1 : t[i] = t[j] => i = j
    <3>1. \A i, j \in 1 .. k - 1 : s.t[i] = s.t[j] => i = j
      BY <1>table, <1>7 DEF IsInjective
    <3> QED
      BY <1>9, <3>1
  <2>5. \A i, j \in 1 .. k : t[i] = t[j] => i = j
    BY <1>9, <1>split, <2>3, <2>4
  <2> QED
    BY <2>1, <2>5 DEF IsInjective
<1>11. \A i \in 1 .. k - 1 : t[i] = s.t[i] /\ s.t[i] # p /\ s.t[i] \in Page
  BY <1>7, <1>8, <1>9
<1>13. \A i \in 1 .. k : t[i] \in 1 .. n.made /\ n.hash[t[i]] = hs[i]
  <2>1. \A q \in 1 .. s.m.made : q \in 1 .. n.made
    BY <1>5, <1>12
  <2>2. \A i \in 1 .. k - 1 : t[i] \in 1 .. n.made /\ n.hash[t[i]] = hs[i]
    BY <1>hash, <1>newhash, <1>11, <2>1
  <2>3. t[k] \in 1 .. n.made /\ n.hash[t[k]] = hs[k]
    BY <1>5, <1>newhash, <1>9
  <2> QED
    BY <1>split, <2>2, <2>3
<1>14. \A q \in Page : n.ref[q] = m.ref[q] + (IF q \in ToSet(t) THEN 1 ELSE 0)
  <2>1. ASSUME NEW q \in Page
        PROVE  n.ref[q] = m.ref[q] + (IF q \in ToSet(t) THEN 1 ELSE 0)
    <3>1. n.ref[q] = IF q = p THEN s.m.ref[q] + 1 ELSE s.m.ref[q]
      BY <1>newref, <1>5, <1>12
    <3>2. s.m.ref[q] = m.ref[q] + (IF q \in ToSet(s.t) THEN 1 ELSE 0) /\ m.ref[q] \in Nat
      BY <1>ref, <1>12
    <3>3. q \in ToSet(t) <=> q \in ToSet(s.t) \/ q = p
      BY <1>9
    <3> QED
      BY <1>8, <3>1, <3>2, <3>3
  <2> QED
    BY <2>1
<1>15. \A q \in Page : q \notin ToSet(t) => n.hash[q] = m.hash[q] /\ n.done[q] = m.done[q]
  BY <1>same, <1>newhash, <1>9
<1>16. ASSUME ~Known(s.m, hs[k]) PROVE m.ref[p] = 0 /\ ~n.done[p]
  <2>1. s.m.ref[p] = m.ref[p] /\ s.m.ref[p] = 0 /\ ~n.done[p]
    BY <1>ref, <1>newdone, <1>5, <1>8, <1>12, <1>16
  <2> QED
    BY <2>1
<1>17. ASSUME Known(s.m, hs[k])
       PROVE  p \in 1 .. m.made /\ m.hash[p] = hs[k] /\ n.done[p] = m.done[p]
  BY <1>made, <1>same, <1>newdone, <1>5, <1>8, <1>17
<1>18. \A q \in 1 .. n.made : q \in 1 .. m.made \/ q \in ToSet(t)
  BY <1>made, <1>5, <1>9
<1>19. \A i \in 1 .. k :
          \/ /\ t[i] \in 1 .. m.made /\ m.hash[t[i]] = hs[i] /\ n.done[t[i]] = m.done[t[i]]
          \/ m.ref[t[i]] = 0 /\ ~n.done[t[i]]
  <2>1. \A i \in 1 .. k - 1 : n.done[s.t[i]] = s.m.done[s.t[i]]
    BY <1>newhash, <1>11
  <2>2. ASSUME NEW i \in 1 .. k - 1
        PROVE  \/ /\ t[i] \in 1 .. m.made /\ m.hash[t[i]] = hs[i]
                  /\ n.done[t[i]] = m.done[t[i]]
               \/ m.ref[t[i]] = 0 /\ ~n.done[t[i]]
    BY <1>done, <1>11, <2>1
  <2>3. \/ /\ t[k] \in 1 .. m.made /\ m.hash[t[k]] = hs[k] /\ n.done[t[k]] = m.done[t[k]]
        \/ m.ref[t[k]] = 0 /\ ~n.done[t[k]]
    BY <1>9, <1>16, <1>17
  <2> QED
    BY <1>split, <2>2, <2>3
<1>20. Available(n) >= Available(m) - k
  <2>1. Available(n) \in Nat
    BY <1>5, AvailableFacts
  <2> QED
    BY <1>left, <1>newleft, <1>2, <1>3, <2>1
<1>21. m.made <= n.made
  BY <1>1, <1>5, <1>12
<1>22. n.size = m.size
  BY <1>1, <1>5
<1> QED
  BY <1>5, <1>6, <1>9, <1>10, <1>13, <1>14, <1>15, <1>18, <1>19, <1>20, <1>21, <1>22 DEF AllTook, z

\* All contents are allocated if there are pages for them.
LEMMA AllocateAllFacts ==
    ASSUME NEW m, Sound(m), NEW hs \in Seq(Hash), IsInjective(hs), NEW nums,
           \A k \in 1 .. Len(hs) : nums[k] \in Nat, Available(m) >= Len(hs)
    PROVE  AllTook(m, hs, Len(hs), AllocateAll(m, hs, nums))
<1> DEFINE n == Len(hs)
<1>1. n \in Nat
  BY LenProperties
<1>2. PICK g : AllocatedAllBy(m, hs, nums, g)
  BY <1>1, AllocatedAllSteps
<1>3. AllTook(m, hs, 0, g[0])
  <2> DEFINE s == [m |-> m, t |-> <<>>, ok |-> TRUE]
  <2>1. g[0] = s
    BY <1>2 DEF AllocatedAllBy
  <2>2. s.m = m /\ s.t = <<>> /\ s.ok
    OBVIOUS
  <2> HIDE DEF s
  <2>3. /\ <<>> \in Seq(Page) /\ ToSet(<<>>) = {} /\ Len(<<>>) = 0 /\ IsInjective(<<>>)
    BY EmptySeq, EmptyElems DEF IsInjective
  <2>4. m.made \in Nat /\ Available(m) \in Nat /\ m.ref \in [Page -> Nat]
    BY AvailableFacts, PoolFields
  <2>5. AllTook(m, hs, 0, s)
    BY <2>2, <2>3, <2>4 DEF AllTook
  <2> QED
    BY <2>1, <2>5
<1> DEFINE T == {k \in 0 .. n : ~AllTook(m, hs, k, g[k])}
<1>4. T = {}
  <2>1. SUFFICES ASSUME T # {} PROVE FALSE
    OBVIOUS
  <2>2. PICK k \in T : \A i \in T : k <= i
    <3>1. T \subseteq Nat
      BY <1>1
    <3> HIDE DEF T
    <3> QED
      BY <2>1, <3>1, LeastOfSome
  <2>3. k \in 0 .. n /\ k # 0 /\ ~AllTook(m, hs, k, g[k])
    BY <1>3
  <2>4. k \in 1 .. n /\ k - 1 \in 0 .. n /\ ~(k <= k - 1)
    BY <1>1, <2>3
  <2>5. AllTook(m, hs, k - 1, g[k - 1])
    BY <2>2, <2>4
  <2>6. g[k] = AllocateOne(g[k - 1], hs[k], nums[k])
    BY <1>2, <2>4 DEF AllocatedAllBy
  <2>7. nums[k] \in Nat
    BY <2>4
  <2> QED
    BY <2>3, <2>4, <2>5, <2>6, <2>7, AllocateOneMore
<1>5. AllocateAll(m, hs, nums) = g[n]
  BY <1>2 DEF AllocatedAllBy
<1> HIDE DEF n
<1>6. AllTook(m, hs, n, g[n])
  BY <1>1, <1>4
<1> QED
  BY <1>5, <1>6 DEF n

\* What the first k releases have done.
AllGave(m, order, k, s) ==
    /\ s.ok /\ Sound(s.m)
    /\ s.m.size = m.size /\ s.m.made = m.made /\ s.m.hash = m.hash /\ s.m.done = m.done
    /\ \A q \in Page :
          s.m.ref[q] = m.ref[q] - (IF \E i \in 1 .. k : order[i] = q THEN 1 ELSE 0)
    /\ Available(s.m) >= Available(m)

\* A round of _free_block_table keeps what is said of it.
LEMMA FreeOneMore ==
    ASSUME NEW m, Sound(m), NEW order \in Seq(Page), IsInjective(order),
           \A i \in 1 .. Len(order) : m.ref[order[i]] > 0,
           NEW k \in 1 .. Len(order), NEW s, AllGave(m, order, k - 1, s)
    PROVE  AllGave(m, order, k, FreeOne(s, order[k]))
<1> DEFINE p == order[k]
           f == FreePage(s.m, p)
           n == f.m
           z == FreeOne(s, p)
           len == Len(order)
<1>1. /\ s.ok /\ Sound(s.m)
      /\ s.m.size = m.size /\ s.m.made = m.made /\ s.m.hash = m.hash /\ s.m.done = m.done
      /\ \A q \in Page :
            s.m.ref[q] = m.ref[q] - (IF \E i \in 1 .. k - 1 : order[i] = q THEN 1 ELSE 0)
      /\ Available(s.m) >= Available(m)
  BY DEF AllGave
<1>2. len \in Nat /\ DOMAIN order = 1 .. len /\ p \in Page /\ k \in Nat /\ k >= 1 /\ k <= len
  BY LenProperties
<1> HIDE DEF len
<1>3. \A i \in 1 .. k - 1 : order[i] # p
  <2>1. \A i \in 1 .. k - 1 : i \in DOMAIN order /\ i # k
    BY <1>2
  <2> QED
    BY <1>2, <2>1 DEF IsInjective
<1>4. s.m.ref[p] > 0 /\ m.ref[p] > 0
  <2>1. m.ref[p] > 0 /\ m.ref[p] \in Nat
    BY <1>2, PoolFields DEF len
  <2> QED
    BY <1>1, <1>2, <1>3, <2>1
<1>5. GaveBack(s.m, p, f)
  BY <1>1, <1>2, <1>4, GivePage
<1>6. z.m = n /\ z.ok
  <2>1. z = [m |-> n, ok |-> s.ok /\ f.ok]
    BY DEF FreeOne
  <2>2. f.ok
    BY <1>5 DEF GaveBack
  <2> HIDE DEF z, n, f
  <2> QED
    BY <1>1, <2>1, <2>2
<1> HIDE DEF z, f, p
<1>7. /\ Sound(n)
      /\ n.size = s.m.size /\ n.made = s.m.made /\ n.hash = s.m.hash /\ n.done = s.m.done
      /\ n.ref = [s.m.ref EXCEPT ![p] = @ - 1]
      /\ Available(n) = Available(s.m) + (IF s.m.ref[p] = 1 THEN 1 ELSE 0)
  BY <1>5 DEF GaveBack
<1> HIDE DEF n
<1>8. Available(n) >= Available(m)
  <2>1. Available(n) \in Nat /\ Available(m) \in Nat /\ Available(s.m) \in Nat
    BY <1>1, <1>7, AvailableFacts
  <2> QED
    BY <1>1, <1>7, <2>1
<1>9. \A q \in Page :
         n.ref[q] = m.ref[q] - (IF \E i \in 1 .. k : order[i] = q THEN 1 ELSE 0)
  <2>1. ASSUME NEW q \in Page
        PROVE  n.ref[q] = m.ref[q] - (IF \E i \in 1 .. k : order[i] = q THEN 1 ELSE 0)
    <3>1. s.m.ref \in [Page -> Nat] /\ m.ref \in [Page -> Nat]
      BY <1>1, PoolFields
    <3>2. n.ref[q] = IF q = p THEN s.m.ref[q] - 1 ELSE s.m.ref[q]
      BY <1>7, <3>1
    <3>3. CASE q = p
      <4>1. (\E i \in 1 .. k : order[i] = q) /\ ~(\E i \in 1 .. k - 1 : order[i] = q)
        BY <1>2, <1>3, <3>3 DEF p
      <4>2. s.m.ref[q] = m.ref[q] - (IF \E i \in 1 .. k - 1 : order[i] = q THEN 1 ELSE 0)
        BY <1>1
      <4>3. s.m.ref[q] = m.ref[q] - 0
        BY <4>1, <4>2
      <4>4. m.ref[q] \in Nat
        BY <3>1
      <4>5. n.ref[q] = m.ref[q] - 1
        BY <3>2, <3>3, <4>3, <4>4
      <4> QED
        BY <4>1, <4>5
    <3>4. CASE q # p
      <4>1. \A i \in 1 .. k : i = k \/ i \in 1 .. k - 1
        BY <1>2
      <4>2. \A i \in 1 .. k - 1 : i \in 1 .. k
        BY <1>2
      <4>3. (\E i \in 1 .. k : order[i] = q) <=> (\E i \in 1 .. k - 1 : order[i] = q)
        BY <3>4, <4>1, <4>2 DEF p
      <4> QED
        BY <1>1, <3>1, <3>2, <3>4, <4>3
    <3> QED
      BY <3>3, <3>4
  <2> QED
    BY <2>1
<1>10. AllGave(m, order, k, z)
  BY <1>1, <1>6, <1>7, <1>8, <1>9 DEF AllGave
<1> QED
  BY <1>10 DEF z, p

\* A table is freed page by page.
LEMMA FreeAllFacts ==
    ASSUME NEW m, Sound(m), NEW order \in Seq(Page), IsInjective(order),
           \A i \in 1 .. Len(order) : m.ref[order[i]] > 0
    PROVE  /\ FreeAll(m, order).ok /\ Sound(FreeAll(m, order).m)
           /\ FreeAll(m, order).m.size = m.size
           /\ FreeAll(m, order).m.made = m.made
           /\ FreeAll(m, order).m.hash = m.hash
           /\ FreeAll(m, order).m.done = m.done
           /\ \A q \in Page : FreeAll(m, order).m.ref[q]
                                 = m.ref[q] - (IF q \in ToSet(order) THEN 1 ELSE 0)
           /\ Available(FreeAll(m, order).m) >= Available(m)
<1> DEFINE n == Len(order)
<1>1. n \in Nat /\ DOMAIN order = 1 .. n
  BY LenProperties
<1>2. PICK g : FreedAllBy(m, order, g)
  BY <1>1, FreedAllSteps
<1>3. AllGave(m, order, 0, g[0])
  <2> DEFINE s == [m |-> m, ok |-> TRUE]
  <2>1. g[0] = s
    BY <1>2 DEF FreedAllBy
  <2>2. s.m = m /\ s.ok
    OBVIOUS
  <2> HIDE DEF s
  <2>3. Available(m) \in Nat /\ m.ref \in [Page -> Nat] /\ 1 .. 0 = {}
    BY AvailableFacts, PoolFields
  <2>4. AllGave(m, order, 0, s)
    BY <2>2, <2>3 DEF AllGave
  <2> QED
    BY <2>1, <2>4
<1> DEFINE T == {k \in 0 .. n : ~AllGave(m, order, k, g[k])}
<1>4. T = {}
  <2>1. SUFFICES ASSUME T # {} PROVE FALSE
    OBVIOUS
  <2>2. PICK k \in T : \A i \in T : k <= i
    <3>1. T \subseteq Nat
      BY <1>1
    <3> HIDE DEF T
    <3> QED
      BY <2>1, <3>1, LeastOfSome
  <2>3. k \in 0 .. n /\ k # 0 /\ ~AllGave(m, order, k, g[k])
    BY <1>3
  <2>4. k \in 1 .. n /\ k - 1 \in 0 .. n /\ ~(k <= k - 1)
    BY <1>1, <2>3
  <2>5. AllGave(m, order, k - 1, g[k - 1])
    BY <2>2, <2>4
  <2>6. g[k] = FreeOne(g[k - 1], order[k])
    BY <1>2, <2>4 DEF FreedAllBy
  <2> QED
    BY <2>3, <2>4, <2>5, <2>6, FreeOneMore
<1>5. FreeAll(m, order) = g[n]
  BY <1>2 DEF FreedAllBy
<1>6. ToSet(order) = {order[i] : i \in 1 .. n}
  BY <1>1 DEF ToSet
<1> HIDE DEF n
<1>7. AllGave(m, order, n, FreeAll(m, order))
  BY <1>1, <1>4, <1>5
<1>8. \A q \in Page : q \in ToSet(order) <=> \E i \in 1 .. n : order[i] = q
  BY <1>6
<1> QED
  BY <1>7, <1>8 DEF AllGave

-----------------------------------------------------------------------------
(* The pages of a sequence.                                                  *)

\* How many pages n words fill.
PagesFor(n) == (n + PageSize - 1) \div PageSize

\* Pages for so many words hold them, and one page less does not.
LEMMA PagesForFacts ==
    ASSUME NEW n \in Nat
    PROVE  /\ PagesFor(n) \in Nat
           /\ n <= PageSize * PagesFor(n) /\ PageSize * PagesFor(n) < n + PageSize
           /\ n > 0 => PagesFor(n) > 0
<1>1. PageSize \in Nat /\ PageSize > 0
  BY PrefixAssumption
<1>2. /\ PagesFor(n) \in Int /\ PageSize * PagesFor(n) <= n + PageSize - 1
      /\ n + PageSize - 1 < PageSize * PagesFor(n) + PageSize
  BY <1>1 DEF PagesFor
<1>3. PageSize * PagesFor(n) \in Int
  BY <1>1, <1>2
<1> DEFINE q == PagesFor(n)
<1> HIDE DEF q
<1>4. n <= PageSize * q /\ PageSize * q < n + PageSize
  BY <1>1, <1>2, <1>3 DEF q
<1>5. q \in Int
  BY <1>2 DEF q
<1>6. q >= 0 /\ (n > 0 => q > 0)
  BY <1>1, <1>4, <1>5
<1> QED
  BY <1>4, <1>5, <1>6 DEF q

\* One more word needs one more page at most.
LEMMA PagesForNext ==
    ASSUME NEW n \in Nat, n > 0
    PROVE  PagesFor(n - 1) = PagesFor(n) \/ PagesFor(n - 1) = PagesFor(n) - 1
<1> DEFINE q == PagesFor(n - 1)
           r == PagesFor(n)
<1>1. PageSize \in Nat /\ PageSize > 0
  BY PrefixAssumption
<1>2. /\ q \in Nat /\ n - 1 <= PageSize * q /\ PageSize * q < n - 1 + PageSize
      /\ r \in Nat /\ n <= PageSize * r /\ PageSize * r < n + PageSize
  BY PagesForFacts
<1> HIDE DEF q, r
<1>3. q < r + 1
  <2>1. PageSize * q < PageSize * (r + 1)
    BY <1>1, <1>2
  <2> QED
    BY <1>1, <1>2, <2>1
<1>4. r < q + 2
  <2>1. PageSize * r < PageSize * (q + 2)
    BY <1>1, <1>2
  <2> QED
    BY <1>1, <1>2, <2>1
<1>5. q = r \/ q = r - 1
  BY <1>2, <1>3, <1>4
<1> QED
  BY <1>5 DEF q, r

\* Words that end with a page fill it.
LEMMA PagesForFull ==
    ASSUME NEW n \in Nat, n % PageSize = 0
    PROVE  PagesFor(n) * PageSize = n
<1> DEFINE q == n \div PageSize
           r == PagesFor(n)
<1>1. PageSize \in Nat /\ PageSize > 0
  BY PrefixAssumption
<1>2. q \in Int /\ n = PageSize * q
  BY <1>1
<1>3. r \in Nat /\ n <= PageSize * r /\ PageSize * r < n + PageSize
  BY PagesForFacts
<1> HIDE DEF q, r
<1>4. PageSize * q <= PageSize * r /\ PageSize * r < PageSize * (q + 1)
  BY <1>1, <1>2, <1>3
<1>5. q <= r /\ r < q + 1
  BY <1>1, <1>2, <1>3, <1>4
<1>6. r = q
  BY <1>2, <1>3, <1>5
<1> QED
  BY <1>1, <1>2, <1>6 DEF r

\* What may be the hash of the i-th page of a sequence: a number of
\* default_hash_ctr, or some words that end in that page or before.
Placed(h, i) == h \in FreshHash \/ (h \in Seq(Word) /\ Len(h) <= i * PageSize)
PlacedIn(m, t) == \A i \in 1 .. Len(t) : Placed(m.hash[t[i]], i)

\* A hash that fits a place is none of words that reach beyond it.
LEMMA PlacedBefore ==
    ASSUME NEW h, NEW i \in Nat, Placed(h, i), NEW w \in Seq(Word), i * PageSize < Len(w)
    PROVE  h # w
<1>1. PageSize \in Nat /\ i * PageSize \in Nat /\ Len(w) \in Nat /\ Word \subseteq Nat \ {0}
  BY PrefixAssumption, LenProperties
<1>2. CASE h \in Seq(Word) /\ Len(h) <= i * PageSize
  <2>1. Len(h) \in Nat
    BY <1>2, LenProperties
  <2> QED
    BY <1>1, <1>2, <2>1
<1>3. CASE h \in FreshHash
  <2>1. h[1] = 0
    BY <1>3 DEF FreshHash
  <2>2. w[1] \in Word
    BY <1>1, ElementOfSeq
  <2> QED
    BY <1>1, <2>1, <2>2
<1> QED
  BY <1>2, <1>3 DEF Placed

\* default_hash_ctr gives a number that no page has.
LEMMA NewHashFacts ==
    ASSUME NEW m
    PROVE  /\ NewHash(m) \in FreshHash
           /\ \A p \in Page : m.hash[p] # NewHash(m) /\ cpu.hash[p] # NewHash(m)
<1> DEFINE C == Cardinality(Page)
           A == {m.hash[p] : p \in Page}
           B == {cpu.hash[p] : p \in Page}
           n == 2 * C + 1
<1>1. IsFiniteSet(Page) /\ C \in Nat
  BY PageFacts, FS_CardinalityType
<1>2. IsFiniteSet(A) /\ Cardinality(A) <= C
  <2> DEFINE f == [p \in Page |-> m.hash[p]]
  <2>1. f \in Surjection(Page, A)
    BY DEF Surjection
  <2> HIDE DEF f, A
  <2> QED
    BY <1>1, <2>1, FS_Surjection
<1>3. IsFiniteSet(B) /\ Cardinality(B) <= C
  <2> DEFINE f == [p \in Page |-> cpu.hash[p]]
  <2>1. f \in Surjection(Page, B)
    BY DEF Surjection
  <2> HIDE DEF f, B
  <2> QED
    BY <1>1, <2>1, FS_Surjection
<1>4. IsFiniteSet(A \union B) /\ Cardinality(A \union B) <= 2 * C
  <2>1. /\ IsFiniteSet(A \union B)
        /\ Cardinality(A \union B)
             = Cardinality(A) + Cardinality(B) - Cardinality(A \intersect B)
    BY <1>2, <1>3, FS_Union
  <2>2. IsFiniteSet(A \intersect B)
    BY <1>2, FS_Subset
  <2>3. /\ Cardinality(A) \in Nat /\ Cardinality(B) \in Nat
        /\ Cardinality(A \intersect B) \in Nat
    BY <1>2, <1>3, <2>2, FS_CardinalityType
  <2> HIDE DEF A, B, C
  <2> QED
    BY <1>1, <1>2, <1>3, <2>1, <2>3
<1>5. Cardinality(FreshHash) = n
  <2> DEFINE f == [k \in 1 .. n |-> <<0, k>>]
  <2>1. f \in Bijection(1 .. n, FreshHash)
    <3>1. f \in Surjection(1 .. n, FreshHash)
      BY DEF Surjection, FreshHash
    <3>2. f \in Injection(1 .. n, FreshHash)
      BY <3>1 DEF Injection, Surjection, IsInjective
    <3> QED
      BY <3>1, <3>2 DEF Bijection
  <2>2. 1 \in Int /\ n \in Int /\ n \in Nat
    BY <1>1
  <2>3. IsFiniteSet(1 .. n) /\ Cardinality(1 .. n) = n
    <3> HIDE DEF n
    <3>1. IsFiniteSet(1 .. n)
      BY <2>2, FS_Interval
    <3>2. Cardinality(1 .. n) = IF 1 > n THEN 0 ELSE n - 1 + 1
      BY <2>2, FS_Interval
    <3> QED
      BY <2>2, <3>1, <3>2
  <2>4. ExistsBijection(1 .. n, FreshHash)
    BY <2>1 DEF ExistsBijection
  <2> HIDE DEF f, n
  <2> QED
    BY <2>3, <2>4, FS_Bijection
<1>6. \E h \in FreshHash : h \notin A \union B
  <2>1. SUFFICES ASSUME FreshHash \subseteq A \union B PROVE FALSE
    OBVIOUS
  <2>2. Cardinality(FreshHash) <= Cardinality(A \union B)
    BY <1>4, <2>1, FS_Subset
  <2>3. Cardinality(A \union B) \in Nat
    BY <1>4, FS_CardinalityType
  <2> HIDE DEF A, B, C
  <2> QED
    BY <1>1, <1>4, <1>5, <2>2, <2>3
<1>7. \E h \in FreshHash : \A p \in Page : m.hash[p] # h /\ cpu.hash[p] # h
  BY <1>6
<1>8. NewHash(m) = CHOOSE h \in FreshHash : \A p \in Page : m.hash[p] # h /\ cpu.hash[p] # h
  BY Zenon DEF NewHash, FreshHash
<1> QED
  BY <1>7, <1>8, Zenon

\* The content hashes of the pages of a sequence: words of it, one after the
\* other.
LEMMA HashOfBlockFacts ==
    ASSUME NEW c \in Conv, words[c] \in Seq(Word), words[c] # <<>>
    PROVE  /\ Logical(c) \in Nat \ {0}
           /\ \A i \in 1 .. Logical(c) :
                 /\ HashOfBlock(c, i) \in Seq(Word) /\ HashOfBlock(c, i) \in Hash
                 /\ Placed(HashOfBlock(c, i), i)
           /\ \A i, j \in 1 .. Logical(c) : i # j => HashOfBlock(c, i) # HashOfBlock(c, j)
           /\ HashOfBlock(c, Logical(c)) = words[c]
<1> DEFINE w == words[c]
           L == Len(w)
           n == Logical(c)
<1>1. L \in Nat /\ L > 0 /\ PageSize \in Nat /\ PageSize > 0 /\ DOMAIN w = 1 .. L
  BY PrefixAssumption, LenProperties, EmptySeq
<1>2. n = PagesFor(L)
  BY DEF Logical, PagesFor
<1>3. n \in Nat /\ L <= PageSize * n /\ PageSize * n < L + PageSize /\ n > 0
  BY <1>1, <1>2, PagesForFacts
<1> HIDE DEF n, L
<1>4. ASSUME NEW i \in 1 .. n
      PROVE  /\ HashOfBlock(c, i) \in Seq(Word)
             /\ Len(HashOfBlock(c, i)) = Least(i * PageSize, L)
             /\ Least(i * PageSize, L) \in 1 .. L /\ Least(i * PageSize, L) <= i * PageSize
  <2> DEFINE k == Least(i * PageSize, L)
  <2>1. i \in Nat /\ i >= 1 /\ i * PageSize \in Nat /\ i * PageSize >= 1
    BY <1>1, <1>3
  <2>2. k \in 1 .. L /\ k <= i * PageSize
    BY <1>1, <2>1 DEF Least
  <2>3. HashOfBlock(c, i) = SubSeq(w, 1, k)
    BY DEF HashOfBlock, L
  <2> HIDE DEF k
  <2>4. SubSeq(w, 1, k) \in Seq(Word) /\ Len(SubSeq(w, 1, k)) = k
    <3>1. 1 \in 1 .. Len(w) + 1 /\ k \in 1 - 1 .. Len(w) /\ k - 1 + 1 = k /\ 1 \in Int
          /\ \A j \in 1 .. k : w[j] \in Word
      BY <1>1, <2>2, ElementOfSeq DEF L
    <3> QED
      BY <3>1, SubSeqProperties
  <2> QED
    BY <2>2, <2>3, <2>4 DEF k
<1>5. \A i \in 1 .. n : HashOfBlock(c, i) \in Hash /\ Placed(HashOfBlock(c, i), i)
  BY <1>4 DEF Hash, Placed
<1>6. ASSUME NEW i \in 1 .. n, NEW j \in 1 .. n, i < j
      PROVE  HashOfBlock(c, i) # HashOfBlock(c, j)
  <2>1. i \in Nat /\ j \in Nat /\ i + 1 <= j /\ i + 1 <= n
    BY <1>3, <1>6
  <2>2. PageSize * (i + 1) <= PageSize * j /\ PageSize * (i + 1) <= PageSize * n
    BY <1>1, <1>3, <2>1
  <2>3. i * PageSize < L /\ i * PageSize < j * PageSize
    BY <1>1, <1>3, <2>1, <2>2
  <2>4. Least(i * PageSize, L) < Least(j * PageSize, L)
    BY <1>1, <2>1, <2>3 DEF Least
  <2> QED
    BY <1>1, <1>4, <2>4
<1>7. \A i, j \in 1 .. n : i # j => HashOfBlock(c, i) # HashOfBlock(c, j)
  <2>1. \A i, j \in 1 .. n : i # j => i < j \/ j < i
    BY <1>3
  <2> QED
    BY <1>6, <2>1
<1>8. HashOfBlock(c, n) = w
  <2>1. Least(n * PageSize, L) = L
    BY <1>1, <1>3 DEF Least
  <2>2. HashOfBlock(c, n) = SubSeq(w, 1, L)
    BY <2>1 DEF HashOfBlock, L
  <2>3. SubSeq(w, 1, Len(w)) = w
    BY SubSeqFull
  <2> QED
    BY <2>2, <2>3 DEF L
<1> QED
  BY <1>3, <1>4, <1>5, <1>7, <1>8 DEF n

-----------------------------------------------------------------------------
(* append_slots.                                                             *)

In(q, S) == IF q \in S THEN 1 ELSE 0

\* A page is counted once or not at all.
LEMMA InType == ASSUME NEW q, NEW S PROVE In(q, S) \in Nat
<1>1. In(q, S) = 0 \/ In(q, S) = 1
  BY DEF In
<1> QED
  BY <1>1

\* What a sequence with pages t has afterwards.
Appended(m, c, t, r) ==
    /\ r.ok /\ Sound(r.m) /\ r.m.size = m.size
    /\ r.t \in Seq(Page) /\ IsInjective(r.t) /\ Len(r.t) = Logical(c)
    /\ \A q \in Page : r.m.ref[q] = m.ref[q] - In(q, ToSet(t)) + In(q, ToSet(r.t))
    /\ \A q \in Page : m.ref[q] > In(q, ToSet(t)) => r.m.hash[q] = m.hash[q]
    /\ PlacedIn(r.m, r.t)

\* append_slots of a sequence whose pages t are in use and lack its last word.
MayAppend(m, c, t) ==
    /\ Sound(m) /\ words[c] \in Seq(Word) /\ words[c] # <<>>
    /\ t \in Seq(Page) /\ IsInjective(t) /\ \A q \in ToSet(t) : m.ref[q] > 0
    /\ Len(t) = Logical(c) \/ Len(t) = Logical(c) - 1
    /\ PlacedIn(m, t)
    /\ Available(m) >= 1

\* The pages before the last of the sequence have other contents than the words
\* it has now.
LEMMA EarlierPages ==
    ASSUME NEW m, NEW c \in Conv, NEW t, MayAppend(m, c, t), NEW i \in 1 .. Logical(c) - 1
    PROVE  i \in 1 .. Len(t) /\ t[i] \in Page /\ t[i] \in ToSet(t) /\ m.hash[t[i]] # words[c]
<1>1. /\ words[c] \in Seq(Word) /\ words[c] # <<>> /\ t \in Seq(Page) /\ PlacedIn(m, t)
      /\ Len(t) = Logical(c) \/ Len(t) = Logical(c) - 1
  BY DEF MayAppend
<1>2. Logical(c) \in Nat \ {0}
  BY <1>1, HashOfBlockFacts
<1> DEFINE n == Logical(c)
           L == Len(words[c])
<1>3. L \in Nat /\ PageSize \in Nat /\ PageSize > 0 /\ n = PagesFor(L)
  BY <1>1, PrefixAssumption, LenProperties DEF Logical, PagesFor
<1>4. PageSize * n < L + PageSize
  BY <1>3, PagesForFacts
<1> HIDE DEF L
<1>5. i \in Nat /\ i + 1 <= n /\ n \in Nat
  BY <1>2
<1>6. i \in 1 .. Len(t)
  BY <1>1, <1>2, <1>5 DEF n
<1> HIDE DEF n
<1>7. i * PageSize < L
  <2>1. PageSize * (i + 1) <= PageSize * n
    BY <1>3, <1>5
  <2> QED
    BY <1>3, <1>4, <1>5, <2>1
<1>8. Placed(m.hash[t[i]], i)
  BY <1>1, <1>6 DEF PlacedIn
<1>9. m.hash[t[i]] # words[c]
  BY <1>1, <1>5, <1>7, <1>8, PlacedBefore DEF L
<1>10. t[i] \in Page /\ t[i] \in ToSet(t)
  <2>1. DOMAIN t = 1 .. Len(t)
    BY <1>1, LenProperties
  <2> QED
    BY <1>1, <1>6, <2>1, ElementOfSeq DEF ToSet
<1> QED
  BY <1>6, <1>9, <1>10

\* _allocate_last_physical_block: a page for the words of the sequence, or a
\* new one.
TookLast(m, c, t, h, r) ==
    /\ Took(m, h, r)
    /\ Placed(h, Logical(c))
    /\ \A i \in 1 .. Logical(c) - 1 : m.hash[t[i]] # h
    /\ IF LastIsFull(c) THEN h = words[c] ELSE h \in FreshHash /\ ~Known(m, h)

\* The page of the last words is allocated if there is one for it.
LEMMA AllocateLastFacts ==
    ASSUME NEW m, NEW c \in Conv, NEW t, MayAppend(m, c, t)
    PROVE  \E h \in Hash : TookLast(m, c, t, h, AllocateLast(m, c))
<1> DEFINE n == Logical(c)
           h == IF LastIsFull(c) THEN HashOfBlock(c, Logical(c)) ELSE NewHash(m)
           a == AllocatePage(m, h, Logical(c) * PageSize)
           z == AllocateLast(m, c)
<1>1. Sound(m) /\ words[c] \in Seq(Word) /\ words[c] # <<>> /\ Available(m) >= 1
  BY DEF MayAppend
<1>2. /\ n \in Nat \ {0} /\ Placed(HashOfBlock(c, n), n) /\ HashOfBlock(c, n) \in Hash
      /\ HashOfBlock(c, n) = words[c]
  <2>1. Logical(c) \in 1 .. Logical(c) /\ n \in Nat \ {0}
    BY <1>1, HashOfBlockFacts
  <2> QED
    BY <1>1, <2>1, HashOfBlockFacts
<1>3. /\ NewHash(m) \in FreshHash /\ NewHash(m) \in Hash /\ Placed(NewHash(m), n)
      /\ \A p \in Page : m.hash[p] # NewHash(m)
  BY NewHashFacts DEF Hash, Placed
<1>4. n * PageSize \in Nat
  BY <1>2, PrefixAssumption
<1>5. h \in Hash /\ Placed(h, n)
  BY <1>2, <1>3
<1>6. Took(m, h, a)
  BY <1>1, <1>4, <1>5, TakePage
<1>7. \A i \in 1 .. n - 1 : m.hash[t[i]] # h
  BY <1>2, <1>3, EarlierPages
<1>8. z = [m |-> a.m, page |-> a.page, ok |-> a.ok /\ (LastIsFull(c) \/ a.m.ref[a.page] = 1)]
  BY DEF AllocateLast
<1>what. IF LastIsFull(c) THEN h = words[c] ELSE h \in FreshHash /\ ~Known(m, h)
  <2>1. CASE LastIsFull(c)
    BY <1>2, <2>1
  <2>2. CASE ~LastIsFull(c)
    <3>1. h = NewHash(m)
      BY <2>2
    <3>2. ~Known(m, h)
      <4>1. \A p \in 1 .. m.made : p \in Page
        BY <1>1, PoolFields
      <4> QED
        BY <1>1, <1>3, <3>1, <4>1, KnownFacts
    <3> HIDE DEF h
    <3> QED
      BY <1>3, <2>2, <3>1, <3>2
  <2> QED
    BY <2>1, <2>2
<1>9. ~LastIsFull(c) => a.m.ref[a.page] = 1
  <2>1. ASSUME ~LastIsFull(c) PROVE a.m.ref[a.page] = 1
    <3> HIDE DEF h, a
    <3>1. ~Known(m, h)
      BY <1>what, <2>1
    <3>3. m.ref[a.page] = 0 /\ a.page \in Page /\ a.m.ref = [m.ref EXCEPT ![a.page] = @ + 1]
      BY <1>6, <3>1 DEF Took
    <3>4. m.ref \in [Page -> Nat]
      BY <1>1, PoolFields
    <3> QED
      BY <3>3, <3>4
  <2> QED
    BY <2>1
<1>10. a.ok
  BY <1>6 DEF Took
<1> HIDE DEF z, n, h
<1>11. z.ok /\ z.m = a.m /\ z.page = a.page
  <2> HIDE DEF a
  <2> QED
    BY <1>8, <1>9, <1>10
<1>12. Took(m, h, z)
  <2> HIDE DEF a
  <2> QED
    BY <1>6, <1>11 DEF Took
<1>13. TookLast(m, c, t, h, z)
  BY <1>5, <1>7, <1>12, <1>what DEF TookLast, n
<1> QED
  BY <1>5, <1>13 DEF z

\* The last page of a table in favour of another page, or the same.
LEMMA LastReplaced ==
    ASSUME NEW t \in Seq(Page), IsInjective(t), t # <<>>, NEW p \in Page,
           \A i \in 1 .. Len(t) - 1 : t[i] # p
    PROVE  /\ Last(t) = t[Len(t)] /\ Last(t) \in Page /\ Last(t) \in ToSet(t)
           /\ [t EXCEPT ![Len(t)] = p] \in Seq(Page) /\ IsInjective([t EXCEPT ![Len(t)] = p])
           /\ Len([t EXCEPT ![Len(t)] = p]) = Len(t)
           /\ \A i \in 1 .. Len(t) :
                 [t EXCEPT ![Len(t)] = p][i] = IF i = Len(t) THEN p ELSE t[i]
           /\ \A q \in Page :
                 In(q, ToSet([t EXCEPT ![Len(t)] = p])) - In(q, ToSet(t))
                    = In(q, {p}) - In(q, {Last(t)})
<1> DEFINE n == Len(t)
           z == [t EXCEPT ![n] = p]
<1>1. n \in Nat /\ n > 0 /\ DOMAIN t = 1 .. n /\ t \in [1 .. n -> Page]
  BY EmptySeq, LenProperties
<1>2. Last(t) = t[n] /\ n \in 1 .. n /\ t[n] \in Page
  BY <1>1 DEF Last
<1>3. z \in [1 .. n -> Page] /\ \A i \in 1 .. n : z[i] = IF i = n THEN p ELSE t[i]
  BY <1>1
<1> HIDE DEF z
<1>4. z \in Seq(Page) /\ Len(z) = n /\ DOMAIN z = 1 .. n
  <2>1. z \in Seq(Page)
    BY <1>1, <1>3, SeqDef
  <2> HIDE DEF n
  <2> QED
    BY <1>1, <1>3, <2>1, LenProperties
<1>5. IsInjective(z)
  <2>1. \A i, j \in 1 .. n : t[i] = t[j] => i = j
    BY <1>1 DEF IsInjective
  <2>2. \A i \in 1 .. n : i = n \/ i \in 1 .. n - 1
    BY <1>1
  <2>3. \A i, j \in 1 .. n : z[i] = z[j] => i = j
    BY <1>3, <2>1, <2>2
  <2> QED
    BY <1>4, <2>3 DEF IsInjective
<1>6. ToSet(t) = {t[i] : i \in 1 .. n} /\ ToSet(z) = {z[i] : i \in 1 .. n}
  BY <1>1, <1>4 DEF ToSet
<1> DEFINE R == {t[i] : i \in 1 .. n - 1}
<1>split. \A i \in 1 .. n : i = n \/ i \in 1 .. n - 1
  BY <1>1
<1>back. \A i \in 1 .. n - 1 : i \in 1 .. n /\ i # n
  BY <1>1
<1>7. ToSet(t) = R \union {t[n]} /\ ToSet(z) = R \union {p}
  <2>1. ToSet(t) = R \union {t[n]}
    BY <1>2, <1>6, <1>split, <1>back
  <2>2. z[n] = p /\ \A i \in 1 .. n - 1 : z[i] = t[i]
    BY <1>2, <1>3, <1>back
  <2>3. ToSet(z) = R \union {p}
    <3>1. \A i \in 1 .. n : z[i] \in R \union {p}
      BY <1>split, <2>2
    <3>2. R \subseteq {z[i] : i \in 1 .. n}
      BY <1>back, <2>2
    <3>3. p \in {z[i] : i \in 1 .. n}
      BY <1>2, <2>2
    <3> HIDE DEF R
    <3> QED
      BY <1>6, <3>1, <3>2, <3>3
  <2> QED
    BY <2>1, <2>3
<1>8. p \notin R /\ t[n] \notin R
  <2>1. p \notin R
    OBVIOUS
  <2>2. \A i \in 1 .. n - 1 : t[i] # t[n]
    BY <1>1, <1>2, <1>back DEF IsInjective
  <2> QED
    BY <2>1, <2>2
<1> HIDE DEF R
<1>9. \A q \in Page : In(q, ToSet(z)) - In(q, ToSet(t)) = In(q, {p}) - In(q, {Last(t)})
  BY <1>2, <1>7, <1>8 DEF In
<1>10. Last(t) \in ToSet(t)
  BY <1>2, <1>7
<1> QED
  BY <1>1, <1>2, <1>3, <1>4, <1>5, <1>9, <1>10 DEF n, z

\* The last page of the sequence replaced: w is the allocator afterwards.
LEMMA LastPageKeeps ==
    ASSUME NEW m, NEW c \in Conv, NEW t, MayAppend(m, c, t), Len(t) = Logical(c),
           NEW w, Sound(w), w.size = m.size, NEW p \in Page,
           \A i \in 1 .. Len(t) - 1 : t[i] # p /\ w.hash[t[i]] = m.hash[t[i]],
           Placed(w.hash[p], Logical(c)),
           \A q \in Page : w.ref[q] = m.ref[q] + In(q, {p}) - In(q, {Last(t)}),
           \A q \in Page : m.ref[q] > In(q, ToSet(t)) => w.hash[q] = m.hash[q],
           NEW r, r.ok, r.m = w, r.t = [t EXCEPT ![Len(t)] = p]
    PROVE  Appended(m, c, t, r)
<1> DEFINE z == [t EXCEPT ![Len(t)] = p]
<1>1. /\ t \in Seq(Page) /\ IsInjective(t) /\ PlacedIn(m, t) /\ Sound(m)
      /\ words[c] \in Seq(Word) /\ words[c] # <<>>
  BY DEF MayAppend
<1>2. Logical(c) \in Nat \ {0} /\ t # <<>>
  <2>1. Logical(c) \in Nat \ {0}
    BY <1>1, HashOfBlockFacts
  <2> QED
    BY <2>1, EmptySeq
<1>3. /\ z \in Seq(Page) /\ IsInjective(z) /\ Len(z) = Len(t)
      /\ \A i \in 1 .. Len(t) : z[i] = IF i = Len(t) THEN p ELSE t[i]
      /\ \A q \in Page : In(q, ToSet(z)) - In(q, ToSet(t)) = In(q, {p}) - In(q, {Last(t)})
  BY <1>1, <1>2, LastReplaced, ZenonT(40)
<1> HIDE DEF z
<1>4. PlacedIn(w, z)
  <2>1. ASSUME NEW i \in 1 .. Len(z) PROVE Placed(w.hash[z[i]], i)
    <3>1. CASE i = Len(t)
      BY <1>3, <2>1, <3>1
    <3>2. CASE i # Len(t)
      <4>1. i \in 1 .. Len(t) - 1 /\ i \in 1 .. Len(t)
        BY <1>2, <1>3, <3>2
      <4>2. z[i] = t[i] /\ w.hash[t[i]] = m.hash[t[i]] /\ Placed(m.hash[t[i]], i)
        BY <1>1, <1>3, <3>2, <4>1 DEF PlacedIn
      <4> QED
        BY <4>2
    <3> QED
      BY <3>1, <3>2
  <2> QED
    BY <2>1 DEF PlacedIn
<1>5. \A q \in Page : w.ref[q] = m.ref[q] - In(q, ToSet(t)) + In(q, ToSet(z))
  <2>1. ASSUME NEW q \in Page
        PROVE  w.ref[q] = m.ref[q] - In(q, ToSet(t)) + In(q, ToSet(z))
    <3>1. m.ref[q] \in Nat
      BY <1>1, PoolFields
    <3>2. /\ In(q, ToSet(t)) \in Nat /\ In(q, ToSet(z)) \in Nat
          /\ In(q, {p}) \in Nat /\ In(q, {Last(t)}) \in Nat
      BY InType
    <3>3. w.ref[q] = m.ref[q] + In(q, {p}) - In(q, {Last(t)})
      OBVIOUS
    <3>4. In(q, ToSet(z)) - In(q, ToSet(t)) = In(q, {p}) - In(q, {Last(t)})
      BY <1>3
    <3> QED
      BY <3>1, <3>2, <3>3, <3>4
  <2> QED
    BY <2>1
<1> QED
  BY <1>3, <1>4, <1>5 DEF Appended, z


\* The words of the sequence have grown into another page.
LEMMA AppendFirst ==
    ASSUME NEW m, NEW c \in Conv, NEW t, MayAppend(m, c, t), Len(t) < Logical(c)
    PROVE  Appended(m, c, t, AppendWord(m, c, t))
<1> DEFINE n == Logical(c)
           z == AllocateLast(m, c)
           r == AppendWord(m, c, t)
<1>1. /\ t \in Seq(Page) /\ IsInjective(t) /\ PlacedIn(m, t) /\ Sound(m)
      /\ words[c] \in Seq(Word) /\ words[c] # <<>>
      /\ Len(t) = n \/ Len(t) = n - 1
      /\ \A q \in ToSet(t) : m.ref[q] > 0
  BY DEF MayAppend
<1>2. n \in Nat \ {0} /\ Len(t) \in Nat /\ Len(t) = n - 1 /\ DOMAIN t = 1 .. Len(t)
  <2>1. Logical(c) \in Nat \ {0}
    BY <1>1, HashOfBlockFacts
  <2>2. Len(t) \in Nat /\ DOMAIN t = 1 .. Len(t)
    BY <1>1, LenProperties
  <2> QED
    BY <1>1, <2>1, <2>2
<1>pick. PICK h \in Hash : TookLast(m, c, t, h, z)
  BY AllocateLastFacts
<1>3. /\ Took(m, h, z) /\ Placed(h, n)
      /\ \A i \in 1 .. n - 1 : m.hash[t[i]] # h
  BY <1>pick DEF TookLast
<1>4. z.ok
  BY <1>3 DEF Took
<1> DEFINE p == z.page
           w == z.m
<1>5. r = [m |-> w, t |-> Append(t, p), copy |-> {}, ok |-> z.ok]
  BY DEF AppendWord
<1> HIDE DEF z
<1>6. r.m = w /\ r.t = Append(t, p) /\ r.ok
  <2> HIDE DEF r, p, w
  <2> QED
    BY <1>4, <1>5
<1> HIDE DEF r
<1>took. /\ Sound(w) /\ p \in Page /\ w.size = m.size /\ w.ref = [m.ref EXCEPT ![p] = @ + 1]
         /\ w.hash[p] = h
  BY <1>3 DEF Took
<1>same. /\ \A q \in Page : q # p => w.hash[q] = m.hash[q]
         /\ (p \in 1 .. m.made /\ m.hash[p] = h) \/ m.ref[p] = 0
  BY <1>3 DEF Took
<1> HIDE DEF p, w
<1>ref. m.ref \in [Page -> Nat]
  BY <1>1, PoolFields
<1> HIDE DEF n
<1>table. \A i \in 1 .. Len(t) : t[i] \in Page /\ t[i] \in ToSet(t) /\ m.hash[t[i]] # h
  <2>1. \A i \in 1 .. Len(t) : i \in 1 .. n - 1
    BY <1>2
  <2>2. \A i \in 1 .. Len(t) : t[i] \in Page /\ t[i] \in ToSet(t)
    BY <1>1, <1>2, ElementOfSeq DEF ToSet
  <2> QED
    BY <1>3, <2>1, <2>2 DEF n
<1>other. \A i \in 1 .. Len(t) : t[i] # p
  <2>1. \A q \in ToSet(t) : m.ref[q] # 0
    BY <1>1
  <2> QED
    BY <1>same, <1>table, <2>1
<1>7. p \notin ToSet(t)
  BY <1>2, <1>other DEF ToSet
<1> DEFINE y == Append(t, p)
<1>8. /\ y \in Seq(Page) /\ ToSet(y) = ToSet(t) \union {p} /\ Len(y) = n
      /\ \A i \in 1 .. n - 1 : y[i] = t[i]
      /\ y[n] = p
  <2>1. y \in Seq(Page) /\ ToSet(y) = ToSet(t) \union {p}
    BY <1>1, <1>took, AppendElems
  <2>2. /\ Len(y) = Len(t) + 1 /\ y[Len(t) + 1] = p
        /\ \A i \in 1 .. Len(t) : y[i] = t[i]
    BY <1>1, <1>took, AppendProperties
  <2>3. Len(t) + 1 = n
    BY <1>2
  <2> QED
    BY <1>2, <2>1, <2>2, <2>3
<1> HIDE DEF y
<1>9. DOMAIN y = 1 .. n /\ \A i \in 1 .. n : i = n \/ i \in 1 .. n - 1
  BY <1>2, <1>8, LenProperties
<1>10. IsInjective(y)
  <2>1. \A i, j \in 1 .. n - 1 : t[i] = t[j] => i = j
    BY <1>1, <1>2 DEF IsInjective
  <2>2. \A i \in 1 .. n - 1 : t[i] # p
    BY <1>2, <1>other
  <2>3. \A i, j \in 1 .. n : y[i] = y[j] => i = j
    BY <1>8, <1>9, <2>1, <2>2
  <2> QED
    BY <1>9, <2>3 DEF IsInjective
<1>11. \A q \in Page : w.ref[q] = m.ref[q] - In(q, ToSet(t)) + In(q, ToSet(y))
  <2>1. ASSUME NEW q \in Page
        PROVE  w.ref[q] = m.ref[q] - In(q, ToSet(t)) + In(q, ToSet(y))
    <3>1. w.ref[q] = IF q = p THEN m.ref[q] + 1 ELSE m.ref[q]
      BY <1>took, <1>ref
    <3>2. q \in ToSet(y) <=> q \in ToSet(t) \/ q = p
      BY <1>8
    <3>3. m.ref[q] \in Nat
      BY <1>ref
    <3> QED
      BY <1>7, <3>1, <3>2, <3>3 DEF In
  <2> QED
    BY <2>1
<1>12. \A q \in Page : m.ref[q] > In(q, ToSet(t)) => w.hash[q] = m.hash[q]
  <2>1. m.ref[p] > In(p, ToSet(t)) => m.hash[p] = h
    <3>1. In(p, ToSet(t)) = 0
      BY <1>7 DEF In
    <3>2. m.ref[p] = 0 => ~(m.ref[p] > 0)
      OBVIOUS
    <3> QED
      BY <1>same, <3>1, <3>2
  <2> QED
    BY <1>took, <1>same, <2>1
<1>13. PlacedIn(w, y)
  <2>1. \A i \in 1 .. n - 1 : w.hash[y[i]] = m.hash[t[i]] /\ Placed(m.hash[t[i]], i)
    <3>1. \A i \in 1 .. n - 1 : i \in 1 .. Len(t)
      BY <1>2
    <3> QED
      BY <1>1, <1>8, <1>same, <1>table, <1>other, <3>1 DEF PlacedIn
  <2>2. Placed(w.hash[y[n]], n)
    BY <1>3, <1>took, <1>8 DEF n
  <2>3. \A i \in 1 .. n : Placed(w.hash[y[i]], i)
    BY <1>9, <2>1, <2>2
  <2> QED
    BY <1>8, <2>3 DEF PlacedIn
<1> QED
  BY <1>6, <1>took, <1>8, <1>10, <1>11, <1>12, <1>13, ZenonT(40) DEF Appended, y, r, n

\* A page that nobody else uses gets the hash of the words, if it is full, or
\* gives way to the page that has it.
LEMMA AppendPromoted ==
    ASSUME NEW m, NEW c \in Conv, NEW t, MayAppend(m, c, t), Len(t) = Logical(c),
           m.ref[Last(t)] = 1
    PROVE  Appended(m, c, t, AppendWord(m, c, t))
<1> DEFINE n == Logical(c)
           p == Last(t)
           h == HashOfBlock(c, Logical(c))
           f == FreePage(m, p)
           a == AllocatePage(f.m, h, 0)
           z == Promoted(m, c, p)
           r == AppendWord(m, c, t)
<1>1. /\ t \in Seq(Page) /\ IsInjective(t) /\ PlacedIn(m, t) /\ Sound(m)
      /\ words[c] \in Seq(Word) /\ words[c] # <<>>
      /\ \A q \in ToSet(t) : m.ref[q] > 0
  BY DEF MayAppend
<1>2. n \in Nat \ {0} /\ t # <<>> /\ DOMAIN t = 1 .. n
  <2>1. Logical(c) \in Nat \ {0}
    BY <1>1, HashOfBlockFacts
  <2> QED
    BY <1>1, <2>1, EmptySeq, LenProperties
<1>3. h \in Hash /\ Placed(h, n) /\ h = words[c]
  <2>1. Logical(c) \in 1 .. Logical(c)
    BY <1>2
  <2> QED
    BY <1>1, <2>1, HashOfBlockFacts
<1>4. \A i \in 1 .. n - 1 : /\ t[i] \in Page /\ t[i] \in ToSet(t) /\ m.hash[t[i]] # h
                            /\ i \in 1 .. n /\ i # n
  <2>1. \A i \in 1 .. n - 1 : i \in 1 .. n /\ i # n
    BY <1>2
  <2>2. \A i \in 1 .. n - 1 : t[i] \in Page /\ t[i] \in ToSet(t) /\ m.hash[t[i]] # words[c]
    BY EarlierPages
  <2> HIDE DEF h, n
  <2> QED
    BY <1>3, <2>1, <2>2
<1>5. p = t[n] /\ p \in Page /\ p \in ToSet(t)
  <2>1. n \in 1 .. n
    BY <1>2
  <2>2. p = t[n]
    BY DEF Last
  <2> QED
    BY <1>1, <1>2, <2>1, <2>2, ElementOfSeq DEF ToSet
<1>6. \A i \in 1 .. n - 1 : t[i] # p
  <2>1. n \in 1 .. n
    BY <1>2
  <2> QED
    BY <1>1, <1>2, <1>4, <1>5, <2>1 DEF IsInjective
<1>ref. m.ref \in [Page -> Nat] /\ m.ref[p] = 1
  BY <1>1, PoolFields
<1>7. r = [m |-> z.m, t |-> [t EXCEPT ![Len(t)] = z.page], copy |-> {}, ok |-> z.ok]
  <2>1. ~(Len(t) < Logical(c))
    BY <1>2
  <2> QED
    BY <2>1 DEF AppendWord
<1>8. r.m = z.m /\ r.t = [t EXCEPT ![Len(t)] = z.page] /\ r.ok = z.ok
  <2> HIDE DEF z, r
  <2> QED
    BY <1>7
<1>alone. \A q \in Page : m.ref[q] > In(q, ToSet(t)) => q # p
  BY <1>ref, <1>5 DEF In
<1> HIDE DEF r
<1>9. CASE ~LastIsFull(c)
  <2>1. z = [m |-> m, page |-> p, ok |-> TRUE]
    BY <1>9 DEF Promoted
  <2>2. z.m = m /\ z.page = p /\ z.ok
    <3> HIDE DEF z, p
    <3> QED
      BY <2>1
  <2> HIDE DEF z, p
  <2>3. Placed(m.hash[p], n)
    <3>1. n \in 1 .. Len(t)
      BY <1>2
    <3> QED
      BY <1>1, <1>5, <3>1 DEF PlacedIn
  <2>4. \A q \in Page : m.ref[q] = m.ref[q] + In(q, {p}) - In(q, {p})
    <3>1. \A q \in Page : m.ref[q] \in Nat /\ In(q, {p}) \in Nat
      BY <1>ref, InType
    <3>2. \A x, y \in Nat : x = x + y - y
      OBVIOUS
    <3> QED
      BY <3>1, <3>2, Zenon
  <2>5. r.ok /\ r.m = m /\ r.t = [t EXCEPT ![Len(t)] = p]
    BY <1>8, <2>2
  <2>6. \A i \in 1 .. Len(t) - 1 : t[i] # p /\ m.hash[t[i]] = m.hash[t[i]]
    BY <1>6
  <2>7. Appended(m, c, t, r)
    BY <1>1, <1>5, <2>3, <2>4, <2>5, <2>6, LastPageKeeps DEF n, p
  <2> QED
    BY <2>7 DEF r
<1>10. CASE LastIsFull(c) /\ ~Known(m, h)
  <2>1. z = UpdateHash(m, p, h)
    BY <1>10 DEF Promoted
  <2>2. /\ z.ok /\ z.page = p /\ Sound(z.m) /\ z.m.size = m.size /\ z.m.ref = m.ref
        /\ z.m.hash = [m.hash EXCEPT ![p] = h]
    <3>1. m.ref[p] > 0
      BY <1>ref
    <3> HIDE DEF z, p, h
    <3> QED
      BY <1>1, <1>3, <1>5, <1>10, <2>1, <3>1, UpdatePage
  <2> HIDE DEF z, p, h
  <2>3. z.m.hash[p] = h /\ \A q \in Page : q # p => z.m.hash[q] = m.hash[q]
    <3>1. m.hash \in [Page -> Hash]
      BY <1>1, PoolFields
    <3> QED
      BY <1>5, <2>2, <3>1
  <2>4. \A q \in Page : z.m.ref[q] = m.ref[q] + In(q, {p}) - In(q, {p})
    <3>1. \A q \in Page : m.ref[q] \in Nat /\ In(q, {p}) \in Nat
      BY <1>ref, InType
    <3>2. \A x, y \in Nat : x = x + y - y
      OBVIOUS
    <3>3. z.m.ref = m.ref
      BY <2>2
    <3> QED
      BY <3>1, <3>2, <3>3, Zenon
  <2>5. r.ok /\ r.m = z.m /\ r.t = [t EXCEPT ![Len(t)] = p]
    BY <1>8, <2>2
  <2>6. \A i \in 1 .. Len(t) - 1 : t[i] # p /\ z.m.hash[t[i]] = m.hash[t[i]]
    BY <1>4, <1>6, <2>3
  <2>7. \A q \in Page : m.ref[q] > In(q, ToSet(t)) => z.m.hash[q] = m.hash[q]
    BY <1>alone, <2>3
  <2>8. Placed(z.m.hash[p], n)
    BY <1>3, <2>3
  <2>9. Appended(m, c, t, r)
    <3> DEFINE v == z.m
    <3>1. Sound(v) /\ v.size = m.size
      BY <2>2
    <3> HIDE DEF v
    <3> QED
      BY <3>1, <1>5, <2>4, <2>5, <2>6, <2>7, <2>8, LastPageKeeps, ZenonT(40) DEF n, p, v
  <2> QED
    BY <2>9 DEF r
<1>11. CASE LastIsFull(c) /\ Known(m, h)
  <2>1. z = [m |-> a.m, page |-> a.page, ok |-> f.ok /\ a.ok]
    BY <1>11 DEF Promoted
  <2>2. GaveBack(m, p, f)
    <3>1. m.ref[p] > 0
      BY <1>ref
    <3> HIDE DEF p
    <3> QED
      BY <1>1, <1>5, <3>1, GivePage
  <2> DEFINE g == f.m
  <2>3. /\ f.ok /\ Sound(g) /\ g.size = m.size /\ g.made = m.made /\ g.hash = m.hash
        /\ g.ref = [m.ref EXCEPT ![p] = @ - 1]
    BY <2>2 DEF GaveBack
  <2> HIDE DEF f, p, h
  <2>4. Known(g, h)
    BY <1>1, <1>11, <2>3, KnownFacts
  <2>5. Took(g, h, a)
    BY <1>3, <2>3, <2>4, TakePage
  <2> DEFINE x == a.page
             w == a.m
  <2>6. z.m = w /\ z.page = x /\ z.ok
    <3>1. a.ok
      BY <2>5 DEF Took
    <3> HIDE DEF z, a
    <3> QED
      BY <2>1, <2>3, <3>1
  <2> HIDE DEF z
  <2>7. /\ Sound(w) /\ x \in Page /\ w.size = g.size /\ w.hash[x] = h /\ m.hash[x] = h
        /\ w.ref = [g.ref EXCEPT ![x] = @ + 1]
        /\ \A q \in Page : q # x => w.hash[q] = g.hash[q]
    BY <2>3, <2>4, <2>5 DEF Took
  <2> HIDE DEF g, a
  <2>8. \A i \in 1 .. Len(t) - 1 : t[i] # x /\ w.hash[t[i]] = m.hash[t[i]]
    BY <1>4, <2>3, <2>7
  <2>9. \A q \in Page : w.ref[q] = m.ref[q] + In(q, {x}) - In(q, {p})
    <3>1. g.ref \in [Page -> Int]
      <4>1. \A q \in Page : m.ref[q] \in Int /\ m.ref[q] - 1 \in Int
        BY <1>ref
      <4> QED
        BY <1>ref, <2>3, <4>1
    <3>2. ASSUME NEW q \in Page PROVE w.ref[q] = m.ref[q] + In(q, {x}) - In(q, {p})
      <4>1. g.ref[q] = IF q = p THEN m.ref[q] - 1 ELSE m.ref[q]
        BY <1>ref, <2>3
      <4>2. w.ref[q] = IF q = x THEN g.ref[q] + 1 ELSE g.ref[q]
        BY <2>7, <3>1
      <4>3. m.ref[q] \in Nat
        BY <1>ref
      <4> QED
        BY <4>1, <4>2, <4>3 DEF In
    <3> QED
      BY <3>2
  <2>10. \A q \in Page : w.hash[q] = m.hash[q]
    BY <2>3, <2>7
  <2>11. r.ok /\ r.m = w /\ r.t = [t EXCEPT ![Len(t)] = x]
    BY <1>8, <2>6
  <2>12. w.size = m.size /\ Placed(w.hash[x], n)
    BY <1>3, <2>3, <2>7
  <2> HIDE DEF w, x
  <2>13. Appended(m, c, t, r)
    BY <2>7, <2>8, <2>9, <2>10, <2>11, <2>12, LastPageKeeps, ZenonT(40) DEF n, p
  <2> QED
    BY <2>13 DEF r
<1> QED
  BY <1>9, <1>10, <1>11

\* A page that others use as well stays theirs, and the sequence gets another.
LEMMA AppendCopied ==
    ASSUME NEW m, NEW c \in Conv, NEW t, MayAppend(m, c, t), Len(t) = Logical(c),
           m.ref[Last(t)] # 1
    PROVE  Appended(m, c, t, AppendWord(m, c, t))
<1> DEFINE n == Logical(c)
           p == Last(t)
           z == AllocateLast(m, c)
           f == FreePage(z.m, p)
           r == AppendWord(m, c, t)
<1>1. /\ t \in Seq(Page) /\ IsInjective(t) /\ PlacedIn(m, t) /\ Sound(m)
      /\ words[c] \in Seq(Word) /\ words[c] # <<>>
      /\ \A q \in ToSet(t) : m.ref[q] > 0
  BY DEF MayAppend
<1>2. n \in Nat \ {0} /\ t # <<>> /\ DOMAIN t = 1 .. n
  <2>1. Logical(c) \in Nat \ {0}
    BY <1>1, HashOfBlockFacts
  <2> QED
    BY <1>1, <2>1, EmptySeq, LenProperties
<1>pick. PICK h \in Hash : TookLast(m, c, t, h, z)
  BY AllocateLastFacts
<1>3. /\ Took(m, h, z) /\ Placed(h, n)
      /\ \A i \in 1 .. n - 1 : m.hash[t[i]] # h
  BY <1>pick DEF TookLast
<1>4. z.ok
  BY <1>3 DEF Took
<1>5. p = t[n] /\ p \in Page /\ p \in ToSet(t)
  <2>1. n \in 1 .. n
    BY <1>2
  <2>2. p = t[n]
    BY DEF Last
  <2> QED
    BY <1>1, <1>2, <2>1, <2>2, ElementOfSeq DEF ToSet
<1>6. \A i \in 1 .. n - 1 : t[i] \in Page /\ t[i] \in ToSet(t) /\ m.hash[t[i]] # h
  BY <1>3, EarlierPages
<1> DEFINE x == z.page
           w == z.m
<1>took. /\ Sound(w) /\ x \in Page /\ w.size = m.size /\ w.ref = [m.ref EXCEPT ![x] = @ + 1]
         /\ w.hash[x] = h
  BY <1>3 DEF Took
<1>same. /\ \A q \in Page : q # x => w.hash[q] = m.hash[q]
         /\ (x \in 1 .. m.made /\ m.hash[x] = h) \/ m.ref[x] = 0
  BY <1>3 DEF Took
<1>7. r = [m |-> f.m, t |-> [t EXCEPT ![Len(t)] = x], copy |-> {<<p, x>>}, ok |-> z.ok /\ f.ok]
  <2>1. ~(Len(t) < Logical(c))
    BY <1>2
  <2> QED
    BY <2>1 DEF AppendWord
<1> HIDE DEF z, p
<1> HIDE DEF x, w
<1>ref. m.ref \in [Page -> Nat] /\ m.ref[p] > 0
  BY <1>1, <1>5, PoolFields
<1>8. w.ref \in [Page -> Nat] /\ w.ref[p] > 0
  BY <1>took, <1>ref, <1>5
<1>9. GaveBack(w, p, f)
  BY <1>took, <1>5, <1>8, GivePage DEF w
<1> DEFINE g == f.m
<1>10. f.ok /\ Sound(g) /\ g.size = w.size /\ g.hash = w.hash /\ g.ref = [w.ref EXCEPT ![p] = @ - 1]
  BY <1>9 DEF GaveBack
<1>11. r.ok /\ r.m = g /\ r.t = [t EXCEPT ![Len(t)] = x]
  <2> HIDE DEF r, f
  <2> QED
    BY <1>4, <1>7, <1>10
<1> HIDE DEF f, r, g
<1>12. \A q \in Page : g.ref[q] = m.ref[q] + In(q, {x}) - In(q, {p})
  <2>1. ASSUME NEW q \in Page PROVE g.ref[q] = m.ref[q] + In(q, {x}) - In(q, {p})
    <3>1. w.ref[q] = IF q = x THEN m.ref[q] + 1 ELSE m.ref[q]
      BY <1>took, <1>ref
    <3>2. g.ref[q] = IF q = p THEN w.ref[q] - 1 ELSE w.ref[q]
      BY <1>8, <1>10
    <3>3. m.ref[q] \in Nat
      BY <1>ref
    <3> QED
      BY <3>1, <3>2, <3>3 DEF In
  <2> QED
    BY <2>1
<1>13. \A q \in Page : m.ref[q] > In(q, ToSet(t)) => g.hash[q] = m.hash[q]
  <2>1. m.ref[x] = 0 => ~(m.ref[x] > In(x, ToSet(t)))
    BY DEF In
  <2> QED
    BY <1>took, <1>same, <1>10, <2>1
<1>14. \A i \in 1 .. n - 1 : t[i] # x /\ g.hash[t[i]] = m.hash[t[i]]
  <2>1. \A q \in ToSet(t) : m.ref[q] # 0
    BY <1>1
  <2> QED
    BY <1>same, <1>6, <1>10, <2>1
<1>15. Placed(g.hash[x], n) /\ g.size = m.size
  BY <1>3, <1>took, <1>10
<1>16. Sound(g) /\ x \in Page
  BY <1>took, <1>10
<1>17. Appended(m, c, t, r)
  BY <1>11, <1>12, <1>13, <1>14, <1>15, <1>16, LastPageKeeps DEF n, p
<1> QED
  BY <1>17 DEF r

\* No assertion fails in append_slots, which leaves the tables consistent.
LEMMA AppendWordFacts ==
    ASSUME NEW m, NEW c \in Conv, NEW t, MayAppend(m, c, t)
    PROVE  Appended(m, c, t, AppendWord(m, c, t))
<1>1. Logical(c) \in Nat /\ (Len(t) = Logical(c) \/ Len(t) = Logical(c) - 1)
  BY HashOfBlockFacts DEF MayAppend
<1>2. Len(t) < Logical(c) \/ Len(t) = Logical(c)
  BY <1>1
<1> QED
  BY <1>2, AppendFirst, AppendPromoted, AppendCopied

-----------------------------------------------------------------------------
(* An allocator and the sequences it serves.                                 *)

\* The sequences with status st that use page p, S being their statuses and P
\* their tables.
UsersIn(S, P, st, p) == {c \in Conv : S[c] = st /\ p \in ToSet(P[c])}

Serves(m, S, P, st) ==
    /\ Sound(m)
    /\ \A p \in Page : m.ref[p] = Cardinality(UsersIn(S, P, st, p))
    /\ \A c \in Conv : S[c] = st => PlacedIn(m, P[c])

\* What the allocator for st holds for sequence c.
HeldBy(S, P, st, c) == IF S[c] = st THEN ToSet(P[c]) ELSE {}

\* The users of a page can be counted.
LEMMA UsersFinite ==
    ASSUME NEW S, NEW P, NEW st, NEW p
    PROVE  /\ IsFiniteSet(UsersIn(S, P, st, p))
           /\ Cardinality(UsersIn(S, P, st, p)) \in Nat
<1>1. UsersIn(S, P, st, p) \subseteq Conv
  BY DEF UsersIn
<1>2. IsFiniteSet(UsersIn(S, P, st, p))
  BY <1>1, PrefixAssumption, FS_Subset
<1> QED
  BY <1>2, FS_CardinalityType

\* Nothing but sequence c changes.
Only(c, S, P, S2, P2) == \A d \in Conv : d # c => S2[d] = S[d] /\ P2[d] = P[d]

\* An allocator becomes z by giving the pages new for the pages old; the contents
\* that others have are not touched.
Exchanged(m, old, new, z) ==
    /\ Sound(z)
    /\ \A q \in Page : z.ref[q] = m.ref[q] - In(q, old) + In(q, new)
    /\ \A q \in Page : m.ref[q] > In(q, old) => z.hash[q] = m.hash[q]

\* The number of users of a page when one sequence changes.
LEMMA UsersMoved ==
    ASSUME NEW S, NEW P, NEW S2, NEW P2, NEW st, NEW p, NEW c \in Conv,
           Only(c, S, P, S2, P2)
    PROVE  Cardinality(UsersIn(S2, P2, st, p))
              = Cardinality(UsersIn(S, P, st, p)) - In(p, HeldBy(S, P, st, c))
                  + In(p, HeldBy(S2, P2, st, c))
<1> DEFINE R == UsersIn(S, P, st, p) \ {c}
           A == UsersIn(S, P, st, p)
           B == UsersIn(S2, P2, st, p)
<1>1. IsFiniteSet(A) /\ IsFiniteSet(B) /\ Cardinality(A) \in Nat /\ Cardinality(B) \in Nat
  BY UsersFinite
<1>2. /\ c \in A <=> p \in HeldBy(S, P, st, c)
      /\ c \in B <=> p \in HeldBy(S2, P2, st, c)
      /\ A \ {c} = R /\ B \ {c} = R
  BY DEF UsersIn, HeldBy, Only
<1> HIDE DEF A, B, R
<1>3. /\ IsFiniteSet(R) /\ Cardinality(R) \in Nat
      /\ Cardinality(A) = Cardinality(R) + In(p, HeldBy(S, P, st, c))
      /\ Cardinality(B) = Cardinality(R) + In(p, HeldBy(S2, P2, st, c))
  <2>1. IsFiniteSet(R) /\ Cardinality(R) \in Nat
    BY <1>1, <1>2, FS_Subset, FS_CardinalityType
  <2>2. Cardinality(R) = IF c \in A THEN Cardinality(A) - 1 ELSE Cardinality(A)
    BY <1>1, <1>2, FS_RemoveElement
  <2>3. Cardinality(R) = IF c \in B THEN Cardinality(B) - 1 ELSE Cardinality(B)
    BY <1>1, <1>2, FS_RemoveElement
  <2> QED
    BY <1>1, <1>2, <2>1, <2>2, <2>3 DEF In
<1> QED
  <2>1. In(p, HeldBy(S, P, st, c)) \in Nat /\ In(p, HeldBy(S2, P2, st, c)) \in Nat
    BY InType
  <2> QED
    BY <1>3, <2>1 DEF A, B

\* The counts cover every sequence that has the page.
LEMMA UsersCount ==
    ASSUME NEW m, NEW S, NEW P, NEW st, Serves(m, S, P, st), NEW p \in Page, NEW d \in Conv,
           S[d] = st, p \in ToSet(P[d])
    PROVE  /\ m.ref[p] > 0
           /\ \A c \in Conv : c # d => m.ref[p] > In(p, HeldBy(S, P, st, c))
<1> DEFINE A == UsersIn(S, P, st, p)
<1>1. IsFiniteSet(A) /\ Cardinality(A) \in Nat /\ m.ref[p] = Cardinality(A)
  BY UsersFinite DEF Serves
<1>2. d \in A
  BY DEF UsersIn
<1>3. \A c \in Conv : p \in HeldBy(S, P, st, c) => c \in A
  BY DEF HeldBy, UsersIn
<1> HIDE DEF A
<1>4. Cardinality(A) > 0
  BY <1>1, <1>2, FS_EmptySet
<1>5. ASSUME NEW c \in Conv, c # d PROVE Cardinality(A) > In(p, HeldBy(S, P, st, c))
  <2>1. CASE p \in HeldBy(S, P, st, c)
    <3>1. In(p, HeldBy(S, P, st, c)) = 1
      BY <2>1 DEF In
    <3>2. IsFiniteSet(A \ {c}) /\ Cardinality(A \ {c}) = Cardinality(A) - 1
      BY <1>1, <1>3, <2>1, FS_RemoveElement
    <3>3. A \ {c} # {}
      BY <1>2, <1>5
    <3>4. Cardinality(A \ {c}) \in Nat /\ Cardinality(A \ {c}) # 0
      BY <3>2, <3>3, FS_EmptySet, FS_CardinalityType
    <3> QED
      BY <1>1, <3>1, <3>2, <3>4
  <2>2. CASE p \notin HeldBy(S, P, st, c)
    <3>1. In(p, HeldBy(S, P, st, c)) = 0
      BY <2>2 DEF In
    <3> QED
      BY <1>1, <1>4, <3>1
  <2> QED
    BY <2>1, <2>2
<1> QED
  BY <1>1, <1>4, <1>5

\* One sequence changes, and the allocator with it: z is what becomes of m.
LEMMA ServesMoved ==
    ASSUME NEW m, NEW S, NEW P, NEW st, Serves(m, S, P, st), P \in [Conv -> Seq(Page)],
           NEW S2, NEW P2, NEW c \in Conv,
           Only(c, S, P, S2, P2),
           NEW z, Exchanged(m, HeldBy(S, P, st, c), HeldBy(S2, P2, st, c), z),
           S2[c] = st => PlacedIn(z, P2[c])
    PROVE  Serves(z, S2, P2, st)
<1>1. ASSUME NEW p \in Page PROVE z.ref[p] = Cardinality(UsersIn(S2, P2, st, p))
  <2>1. m.ref[p] = Cardinality(UsersIn(S, P, st, p))
    BY DEF Serves
  <2>2. Cardinality(UsersIn(S2, P2, st, p))
              = Cardinality(UsersIn(S, P, st, p)) - In(p, HeldBy(S, P, st, c))
                  + In(p, HeldBy(S2, P2, st, c))
    BY UsersMoved
  <2> QED
    BY <2>1, <2>2 DEF Exchanged
<1>2. ASSUME NEW d \in Conv, S2[d] = st PROVE PlacedIn(z, P2[d])
  <2>1. CASE d = c
    BY <1>2, <2>1
  <2>2. CASE d # c
    <3>1. S[d] = st /\ P2[d] = P[d] /\ PlacedIn(m, P[d])
      BY <1>2, <2>2 DEF Serves, Only
    <3>2. P[d] \in Seq(Page) /\ DOMAIN P[d] = 1 .. Len(P[d])
      BY LenProperties
    <3>3. ASSUME NEW i \in 1 .. Len(P[d]) PROVE Placed(z.hash[P[d][i]], i)
      <4>1. P[d][i] \in Page /\ P[d][i] \in ToSet(P[d])
        BY <3>2, ElementOfSeq DEF ToSet
      <4>2. m.ref[P[d][i]] > In(P[d][i], HeldBy(S, P, st, c))
        BY <2>2, <3>1, <4>1, UsersCount
      <4>3. z.hash[P[d][i]] = m.hash[P[d][i]]
        BY <4>1, <4>2 DEF Exchanged
      <4> QED
        BY <3>1, <4>3 DEF PlacedIn
    <3> QED
      BY <3>1, <3>3 DEF PlacedIn
  <2> QED
    BY <2>1, <2>2
<1> QED
  BY <1>1, <1>2 DEF Serves, Exchanged

\* The other allocator has nothing to do with it.
LEMMA ServesElse ==
    ASSUME NEW m, NEW S, NEW P, NEW st, Serves(m, S, P, st), P \in [Conv -> Seq(Page)],
           NEW S2, NEW P2, NEW c \in Conv,
           Only(c, S, P, S2, P2),
           HeldBy(S, P, st, c) = {}, S2[c] # st
    PROVE  Serves(m, S2, P2, st)
<1>1. Sound(m)
  BY DEF Serves
<1>2. \A q : In(q, {}) = 0
  BY DEF In
<1>3. HeldBy(S2, P2, st, c) = {}
  BY DEF HeldBy
<1>4. \A q \in Page : m.ref[q] = m.ref[q] - In(q, HeldBy(S, P, st, c))
                                   + In(q, HeldBy(S2, P2, st, c))
  <2>1. \A q \in Page : m.ref[q] \in Nat
    BY <1>1, PoolFields
  <2> QED
    BY <1>2, <1>3, <2>1
<1>5. Exchanged(m, HeldBy(S, P, st, c), HeldBy(S2, P2, st, c), m)
  BY <1>1, <1>4 DEF Exchanged
<1> QED
  BY <1>5, ServesMoved

\* A sequence that has had no pages of m gets some for the contents hs.
Served(m, t, z) ==
    /\ Sound(z) /\ t \in Seq(Page) /\ IsInjective(t) /\ PlacedIn(z, t)
    /\ \A q \in Page : z.ref[q] = m.ref[q] + In(q, ToSet(t))
    /\ \A q \in Page : m.ref[q] > 0 => z.hash[q] = m.hash[q]

\* The pages of a prompt, or of a table from the other device, in terms of users.
LEMMA AllTookServed ==
    ASSUME NEW m, Sound(m), NEW hs \in Seq(Hash), NEW r, AllTook(m, hs, Len(hs), r),
           \A i \in 1 .. Len(hs) : Placed(hs[i], i)
    PROVE  r.ok /\ Served(m, r.t, r.m) /\ Len(r.t) = Len(hs)
           /\ Available(r.m) >= Available(m) - Len(hs)
<1>1. /\ r.ok /\ Sound(r.m) /\ r.t \in Seq(Page) /\ Len(r.t) = Len(hs) /\ IsInjective(r.t)
      /\ \A i \in 1 .. Len(hs) : r.t[i] \in 1 .. r.m.made /\ r.m.hash[r.t[i]] = hs[i]
  BY DEF AllTook
<1>2. \A q \in Page : r.m.ref[q] = m.ref[q] + (IF q \in ToSet(r.t) THEN 1 ELSE 0)
  BY DEF AllTook
<1>3. \A q \in Page : q \notin ToSet(r.t) => r.m.hash[q] = m.hash[q]
  BY DEF AllTook
<1>4. \A i \in 1 .. Len(hs) :
         (r.t[i] \in 1 .. m.made /\ m.hash[r.t[i]] = hs[i]) \/ m.ref[r.t[i]] = 0
  BY DEF AllTook
<1>5. Available(r.m) >= Available(m) - Len(hs)
  BY DEF AllTook
<1>6. PlacedIn(r.m, r.t)
  BY <1>1 DEF PlacedIn
<1>7. ASSUME NEW q \in Page, m.ref[q] > 0 PROVE r.m.hash[q] = m.hash[q]
  <2>1. CASE q \in ToSet(r.t)
    <3>1. PICK i \in 1 .. Len(hs) : r.t[i] = q
      BY <1>1, <2>1, LenProperties DEF ToSet
    <3>2. m.ref[q] # 0
      BY <1>7
    <3> QED
      BY <1>1, <1>4, <3>1, <3>2
  <2> QED
    BY <1>3, <2>1
<1>8. \A q \in Page : r.m.ref[q] = m.ref[q] + In(q, ToSet(r.t))
  BY <1>2 DEF In
<1> QED
  BY <1>1, <1>5, <1>6, <1>7, <1>8 DEF Served

\* A sequence gets a table on this device.
LEMMA ServesComing ==
    ASSUME NEW m, NEW S, NEW P, NEW st, Serves(m, S, P, st), P \in [Conv -> Seq(Page)],
           NEW S2, NEW P2, NEW c \in Conv,
           Only(c, S, P, S2, P2),
           S[c] # st, S2[c] = st, NEW z, Served(m, P2[c], z)
    PROVE  Serves(z, S2, P2, st)
<1>1. /\ Sound(z) /\ PlacedIn(z, P2[c])
      /\ \A q \in Page : z.ref[q] = m.ref[q] + In(q, ToSet(P2[c]))
      /\ \A q \in Page : m.ref[q] > 0 => z.hash[q] = m.hash[q]
  BY DEF Served
<1>2. HeldBy(S, P, st, c) = {} /\ HeldBy(S2, P2, st, c) = ToSet(P2[c])
  BY DEF HeldBy
<1>3. \A q : In(q, {}) = 0
  BY DEF In
<1>4. \A q \in Page : z.ref[q] = m.ref[q] - In(q, HeldBy(S, P, st, c))
                                   + In(q, HeldBy(S2, P2, st, c))
  <2>1. \A q \in Page : m.ref[q] \in Nat
    BY PoolFields DEF Serves
  <2> QED
    BY <1>1, <1>2, <1>3, <2>1
<1>5. \A q \in Page : m.ref[q] > In(q, HeldBy(S, P, st, c)) => z.hash[q] = m.hash[q]
  BY <1>1, <1>2, <1>3
<1>6. Exchanged(m, HeldBy(S, P, st, c), HeldBy(S2, P2, st, c), z)
  BY <1>1, <1>4, <1>5 DEF Exchanged
<1> QED
  BY <1>1, <1>6, ServesMoved

\* A sequence gives up its pages old of m.
GivenUp(m, old, z) ==
    /\ Sound(z) /\ z.hash = m.hash /\ z.done = m.done
    /\ \A q \in Page : z.ref[q] = m.ref[q] - In(q, old)

\* A sequence gives its table on this device up.
LEMMA ServesGoing ==
    ASSUME NEW m, NEW S, NEW P, NEW st, Serves(m, S, P, st), P \in [Conv -> Seq(Page)],
           NEW S2, NEW P2, NEW c \in Conv,
           Only(c, S, P, S2, P2),
           S2[c] # st, NEW z, GivenUp(m, HeldBy(S, P, st, c), z)
    PROVE  Serves(z, S2, P2, st)
<1>1. HeldBy(S2, P2, st, c) = {}
  BY DEF HeldBy
<1>2. \A q : In(q, {}) = 0
  BY DEF In
<1>3. ASSUME NEW q \in Page
      PROVE  z.ref[q] = m.ref[q] - In(q, HeldBy(S, P, st, c)) + In(q, HeldBy(S2, P2, st, c))
  <2>1. m.ref[q] \in Nat /\ In(q, HeldBy(S, P, st, c)) \in Nat
    BY PoolFields, InType DEF Serves
  <2>2. In(q, HeldBy(S2, P2, st, c)) = 0
    BY <1>1, <1>2
  <2>3. z.ref[q] = m.ref[q] - In(q, HeldBy(S, P, st, c))
    BY DEF GivenUp
  <2> QED
    BY <2>1, <2>2, <2>3
<1>4. Exchanged(m, HeldBy(S, P, st, c), HeldBy(S2, P2, st, c), z)
  BY <1>3 DEF Exchanged, GivenUp
<1> QED
  BY <1>4, ServesMoved


\* swap_out and swap_in: the pages of a table on the other device.
Moved(from, to, t, r) ==
    /\ r.ok /\ Served(to, r.t, r.to) /\ Len(r.t) = Len(t)
    /\ Available(r.to) >= Available(to) - Len(t)
    /\ GivenUp(from, ToSet(t), r.from)

\* A table moves to the other device if that has room.
LEMMA MoveTableFacts ==
    ASSUME NEW from, Sound(from), NEW to, Sound(to), NEW t \in Seq(Page), IsInjective(t),
           \A q \in ToSet(t) : from.ref[q] > 0, PlacedIn(from, t), Available(to) >= Len(t)
    PROVE  Moved(from, to, t, MoveTable(from, to, t))
<1> DEFINE hs == [i \in DOMAIN t |-> from.hash[t[i]]]
           nums == [i \in DOMAIN t |-> from.num[t[i]]]
           a == AllocateAll(to, hs, nums)
           f == FreeAll(from, t)
           r == MoveTable(from, to, t)
           map == {<<t[i], a.t[i]>> : i \in DOMAIN t}
<1>1. /\ DOMAIN t = 1 .. Len(t) /\ Len(t) \in Nat
      /\ \A i \in 1 .. Len(t) : t[i] \in Page /\ t[i] \in ToSet(t)
  <2>1. DOMAIN t = 1 .. Len(t) /\ Len(t) \in Nat
    BY LenProperties
  <2> QED
    BY <2>1, ElementOfSeq DEF ToSet
<1>2. /\ from.hash \in [Page -> Hash] /\ from.num \in [Page -> Nat]
      /\ \A p \in Page : from.ref[p] > 0 => p \in 1 .. from.made
  BY PoolFields
<1>3. \A i \in 1 .. Len(t) : t[i] \in 1 .. from.made
  BY <1>1, <1>2
<1>4. hs \in Seq(Hash) /\ DOMAIN hs = 1 .. Len(t) /\ Len(hs) = Len(t)
  <2>1. hs \in [1 .. Len(t) -> Hash]
    BY <1>1, <1>2
  <2>2. hs \in Seq(Hash)
    BY <1>1, <2>1, IsASeq
  <2> HIDE DEF hs
  <2> QED
    BY <1>1, <2>1, <2>2, LenProperties
<1>5. \A i \in 1 .. Len(t) : hs[i] = from.hash[t[i]] /\ nums[i] \in Nat
  BY <1>1, <1>2
<1> HIDE DEF hs, nums
<1>6. IsInjective(hs)
  <2>1. \A p, q \in 1 .. from.made : p # q => from.hash[p] # from.hash[q]
    BY DEF Sound, OnePage
  <2>2. \A i, j \in 1 .. Len(t) : i # j => t[i] # t[j]
    BY <1>1 DEF IsInjective
  <2>3. \A i, j \in 1 .. Len(t) : hs[i] = hs[j] => i = j
    BY <1>3, <1>5, <2>1, <2>2
  <2> QED
    BY <1>4, <2>3 DEF IsInjective
<1>7. AllTook(to, hs, Len(hs), a)
  BY <1>4, <1>5, <1>6, AllocateAllFacts
<1>8. \A i \in 1 .. Len(hs) : Placed(hs[i], i)
  BY <1>4, <1>5 DEF PlacedIn
<1>9. a.ok /\ Served(to, a.t, a.m) /\ Len(a.t) = Len(hs)
      /\ Available(a.m) >= Available(to) - Len(hs)
  <2> HIDE DEF a
  <2> QED
    BY <1>4, <1>7, <1>8, AllTookServed
<1>10. f.ok /\ GivenUp(from, ToSet(t), f.m)
  <2>1. \A i \in 1 .. Len(t) : from.ref[t[i]] > 0
    BY <1>1
  <2> QED
    BY <2>1, FreeAllFacts DEF In, GivenUp
<1>11. r = [to |-> a.m, from |-> f.m, t |-> a.t, map |-> map, ok |-> a.ok /\ f.ok]
  BY DEF MoveTable, hs, nums
<1>12. r.to = a.m /\ r.from = f.m /\ r.t = a.t /\ r.ok
  <2> HIDE DEF r, a, f, map
  <2> QED
    BY <1>9, <1>10, <1>11
<1> HIDE DEF r, a, f, map
<1>13. Moved(from, to, t, r)
  BY <1>4, <1>9, <1>10, <1>12 DEF Moved
<1> QED
  BY <1>13 DEF r

-----------------------------------------------------------------------------
(* The prefix cache: what holds of every state.                              *)

\* The table t of a sequence with words w, by its status st and what it does, j:
\* it has the pages of its words, the last of them included once it is
\* scheduled.
Fits(w, st, t, j) ==
    /\ w # <<>> /\ IsInjective(t)
    /\ st \in {"waiting", "gone"} => t = <<>> /\ j = "none"
    /\ st = "swapped" => j \in {"none", "out"} /\ Len(t) = PagesFor(Len(w) - 1)
    /\ st = "running" => /\ j # "out"
                         /\ Len(t) = PagesFor(IF j = "none" THEN Len(w) - 1 ELSE Len(w))

ConvTypes ==
    /\ words \in [Conv -> Seq(Word)]
    /\ status \in [Conv -> {"waiting", "running", "swapped", "gone"}]
    /\ pages \in [Conv -> Seq(Page)]
    /\ job \in [Conv -> {"none", "out", "prompt", "decode", "sampled"}]

PoolInv ==
    /\ ~broken
    /\ ConvTypes
    /\ Serves(gpu, status, pages, "running")
    /\ Serves(cpu, status, pages, "swapped")
    /\ \A c \in Conv : Fits(words[c], status[c], pages[c], job[c])

\* An allocator without pages is sound.
LEMMA EmptyPoolSound ==
    ASSUME NEW n \in PoolSize
    PROVE  Sound(EmptyPool(n)) /\ \A p \in Page : EmptyPool(n).ref[p] = 0
<1> DEFINE m == EmptyPool(n)
<1>1. /\ m.size = n /\ m.made = 0 /\ m.dict = {} /\ m.lru = <<>>
      /\ m.hash = [p \in Page |-> <<>>] /\ m.num = [p \in Page |-> 0]
      /\ m.last = [p \in Page |-> 0] /\ m.ref = [p \in Page |-> 0]
      /\ m.done = [p \in Page |-> FALSE]
  BY DEF EmptyPool
<1>2. n \in Nat /\ Page \subseteq Nat
  BY PageFacts
<1>3. <<>> \in Hash /\ <<>> \in Seq(Page)
  BY EmptySeq DEF Hash
<1>4. PoolShape(m)
  <2>1. /\ [p \in Page |-> <<>>] \in [Page -> Hash] /\ [p \in Page |-> 0] \in [Page -> Nat]
        /\ [p \in Page |-> FALSE] \in [Page -> BOOLEAN] /\ 0 \in Nat
    BY <1>3
  <2> QED
    BY <1>3, <2>1 DEF PoolShape, EmptyPool
<1>5. Unmade(m)
  BY <1>1, <1>2 DEF Unmade
<1>6. Dicted(m)
  BY <1>1 DEF Dicted
<1>7. Evictable(m)
  <2>1. ToSet(<<>>) = {} /\ IsInjective(<<>>)
    BY EmptyElems DEF IsInjective
  <2> HIDE DEF m
  <2> QED
    BY <1>1, <2>1 DEF Evictable
<1>8. OnePage(m)
  <2> HIDE DEF m
  <2> QED
    BY <1>1 DEF OnePage
<1> QED
  BY <1>1, <1>4, <1>5, <1>6, <1>7, <1>8 DEF Sound

\* The first state, and the handlers one at a time.
LEMMA PoolInit ==
    ASSUME PrefixInit
    PROVE  PoolInv
<1>1. /\ words \in [Conv -> Openings] /\ status = [c \in Conv |-> "waiting"]
      /\ pages = [c \in Conv |-> <<>>] /\ job = [c \in Conv |-> "none"]
      /\ ~broken /\ cpu = EmptyPool(CpuPages)
  BY DEF PrefixInit
<1>2. PICK n \in GpuSizes : gpu = EmptyPool(n)
  BY DEF PrefixInit
<1>3. n \in PoolSize /\ CpuPages \in PoolSize
  BY DEF PoolSize
<1>4. \A c \in Conv : words[c] \in Seq(Word) /\ words[c] # <<>>
  BY <1>1, PrefixAssumption
<1>5. ConvTypes
  <2>1. words \in [Conv -> Seq(Word)]
    BY <1>1, <1>4
  <2>2. pages \in [Conv -> Seq(Page)]
    BY <1>1, EmptySeq
  <2> QED
    BY <1>1, <2>1, <2>2 DEF ConvTypes
<1>6. ASSUME NEW m, Sound(m), \A p \in Page : m.ref[p] = 0, NEW st \in {"running", "swapped"}
      PROVE  Serves(m, status, pages, st)
  <2>1. \A c \in Conv : status[c] # st
    BY <1>1
  <2>2. \A p \in Page : UsersIn(status, pages, st, p) = {}
    BY <2>1 DEF UsersIn
  <2>3. Cardinality({}) = 0
    BY FS_EmptySet
  <2> QED
    BY <1>6, <2>1, <2>2, <2>3 DEF Serves
<1>7. Serves(gpu, status, pages, "running") /\ Serves(cpu, status, pages, "swapped")
  BY <1>1, <1>2, <1>3, <1>6, EmptyPoolSound
<1>8. \A c \in Conv : Fits(words[c], status[c], pages[c], job[c])
  <2>1. IsInjective(<<>>)
    BY DEF IsInjective
  <2>2. \A c \in Conv : status[c] = "waiting" /\ pages[c] = <<>> /\ job[c] = "none"
    BY <1>1
  <2> QED
    BY <1>4, <2>1, <2>2 DEF Fits
<1> QED
  BY <1>1, <1>5, <1>7, <1>8 DEF PoolInv

\* The tables of the sequences that do not change fit as before.
LEMMA FitsOthers ==
    ASSUME PoolInv, NEW c \in Conv, words' = words,
           Only(c, status, pages, status', pages'), \A d \in Conv : d # c => job'[d] = job[d],
           Fits(words[c], status'[c], pages'[c], job'[c])
    PROVE  \A d \in Conv : Fits(words'[d], status'[d], pages'[d], job'[d])
BY DEF PoolInv, Only

\* What a sequence with a table may rely on.
LEMMA TableFacts ==
    ASSUME PoolInv, NEW c \in Conv, NEW m, NEW st, Serves(m, status, pages, st), status[c] = st
    PROVE  /\ words[c] \in Seq(Word) /\ words[c] # <<>>
           /\ pages[c] \in Seq(Page) /\ IsInjective(pages[c])
           /\ \A q \in ToSet(pages[c]) : q \in Page /\ m.ref[q] > 0
           /\ Sound(m) /\ PlacedIn(m, pages[c])
           /\ PagesFor(Len(words[c])) = Logical(c)
           /\ PagesFor(Len(words[c]) - 1) = Logical(c) \/ PagesFor(Len(words[c]) - 1) = Logical(c) - 1
           /\ Logical(c) \in Nat \ {0}
<1>1. words[c] \in Seq(Word) /\ pages[c] \in Seq(Page)
  BY DEF PoolInv, ConvTypes
<1>2. words[c] # <<>> /\ IsInjective(pages[c])
  BY DEF PoolInv, Fits
<1>3. \A q \in ToSet(pages[c]) : q \in Page
  BY <1>1, LenProperties, ElementOfSeq DEF ToSet
<1>4. \A q \in ToSet(pages[c]) : m.ref[q] > 0
  BY <1>3, UsersCount
<1>5. Sound(m) /\ PlacedIn(m, pages[c])
  BY DEF Serves
<1>6. Len(words[c]) \in Nat /\ Len(words[c]) > 0
  BY <1>1, <1>2, LenProperties, EmptySeq
<1>7. PagesFor(Len(words[c])) = Logical(c)
  BY DEF PagesFor, Logical
<1>8. PagesFor(Len(words[c]) - 1) = Logical(c) \/ PagesFor(Len(words[c]) - 1) = Logical(c) - 1
  BY <1>6, <1>7, PagesForNext
<1>9. Logical(c) \in Nat \ {0}
  BY <1>1, <1>2, HashOfBlockFacts
<1> QED
  BY <1>1, <1>2, <1>3, <1>4, <1>5, <1>7, <1>8, <1>9


\* append_slots changes a table in exchange for the old one.
LEMMA AppendedExchanges ==
    ASSUME NEW m, NEW c \in Conv, NEW t, NEW r, Appended(m, c, t, r)
    PROVE  Exchanged(m, ToSet(t), ToSet(r.t), r.m)
BY DEF Appended, Exchanged

\* An assignment to the entry of one sequence.
LEMMA OneEntry ==
    ASSUME NEW R, NEW f \in [Conv -> R], NEW c \in Conv, NEW x \in R
    PROVE  /\ [f EXCEPT ![c] = x] \in [Conv -> R] /\ [f EXCEPT ![c] = x][c] = x
           /\ \A d \in Conv : d # c => [f EXCEPT ![c] = x][d] = f[d]
OBVIOUS

\* What the actions do to the tables.
Assigned(c, to, t, j) ==
    /\ status' = [status EXCEPT ![c] = to] /\ pages' = [pages EXCEPT ![c] = t]
    /\ job' = [job EXCEPT ![c] = j] /\ words' = words

\* What an assignment to one sequence leaves of the types and the others.
LEMMA AssignedFacts ==
    ASSUME PoolInv, NEW c \in Conv, NEW to \in {"waiting", "running", "swapped", "gone"},
           NEW t \in Seq(Page), NEW j \in {"none", "out", "prompt", "decode", "sampled"},
           Assigned(c, to, t, j), Fits(words[c], to, t, j)
    PROVE  /\ ConvTypes' /\ Only(c, status, pages, status', pages')
           /\ status'[c] = to /\ pages'[c] = t
           /\ \A d \in Conv : Fits(words'[d], status'[d], pages'[d], job'[d])
<1>1. /\ words \in [Conv -> Seq(Word)]
      /\ status \in [Conv -> {"waiting", "running", "swapped", "gone"}]
      /\ pages \in [Conv -> Seq(Page)]
      /\ job \in [Conv -> {"none", "out", "prompt", "decode", "sampled"}]
  BY DEF PoolInv, ConvTypes
<1>2. /\ status' = [status EXCEPT ![c] = to] /\ pages' = [pages EXCEPT ![c] = t]
      /\ job' = [job EXCEPT ![c] = j] /\ words' = words
  BY DEF Assigned
<1>3. /\ status' \in [Conv -> {"waiting", "running", "swapped", "gone"}] /\ status'[c] = to
      /\ \A d \in Conv : d # c => status'[d] = status[d]
  BY <1>1, <1>2, OneEntry
<1>4. /\ pages' \in [Conv -> Seq(Page)] /\ pages'[c] = t
      /\ \A d \in Conv : d # c => pages'[d] = pages[d]
  BY <1>1, <1>2, OneEntry
<1>5. /\ job' \in [Conv -> {"none", "out", "prompt", "decode", "sampled"}] /\ job'[c] = j
      /\ \A d \in Conv : d # c => job'[d] = job[d]
  BY <1>1, <1>2, OneEntry
<1>6. ConvTypes'
  BY <1>1, <1>2, <1>3, <1>4, <1>5 DEF ConvTypes
<1>7. Only(c, status, pages, status', pages')
  BY <1>3, <1>4 DEF Only
<1>8. \A d \in Conv : Fits(words'[d], status'[d], pages'[d], job'[d])
  BY <1>2, <1>3, <1>4, <1>5, <1>7, FitsOthers
<1> QED
  BY <1>3, <1>4, <1>6, <1>7, <1>8

\* A prompt gets pages for the contents hs.
AdmitsBy(c, hs, r) ==
    /\ hs \in Seq(Hash) /\ Len(hs) = Logical(c)
    /\ \A i \in 1 .. Logical(c) : hs[i] = HashOfBlock(c, i)
    /\ AllTook(gpu, hs, Len(hs), r)
    /\ gpu' = r.m /\ broken' = ~r.ok /\ cpu' = cpu
    /\ Assigned(c, "running", r.t, "prompt")

LEMMA AdmitTakes ==
    ASSUME PoolInv, NEW c \in Conv, Admit(c)
    PROVE  \E hs, r : AdmitsBy(c, hs, r)
<1> DEFINE n == Logical(c)
           hs == [i \in 1 .. n |-> HashOfBlock(c, i)]
           nums == [i \in 1 .. n |-> i * PageSize]
           r == AllocateAll(gpu, hs, nums)
<1>1. /\ Available(gpu) >= n
      /\ gpu' = r.m /\ broken' = ~r.ok /\ cpu' = cpu
      /\ Assigned(c, "running", r.t, "prompt")
  BY DEF Admit, Assigned
<1>2. words[c] \in Seq(Word) /\ words[c] # <<>>
  BY DEF PoolInv, ConvTypes, Fits
<1>3. /\ n \in Nat \ {0}
      /\ \A i \in 1 .. n : HashOfBlock(c, i) \in Hash /\ Placed(HashOfBlock(c, i), i)
      /\ \A i, j \in 1 .. n : i # j => HashOfBlock(c, i) # HashOfBlock(c, j)
  BY <1>2, HashOfBlockFacts
<1> HIDE DEF n
<1>4. hs \in Seq(Hash) /\ DOMAIN hs = 1 .. n /\ Len(hs) = n
  <2>1. hs \in [1 .. n -> Hash]
    BY <1>3
  <2>2. hs \in Seq(Hash)
    BY <1>3, <2>1, IsASeq
  <2> HIDE DEF hs
  <2> QED
    BY <1>3, <2>1, <2>2, LenProperties
<1>5. \A i \in 1 .. n : hs[i] = HashOfBlock(c, i) /\ nums[i] \in Nat
  BY <1>3, PrefixAssumption
<1> HIDE DEF hs, nums
<1>6. IsInjective(hs)
  BY <1>3, <1>4, <1>5 DEF IsInjective
<1>7. Sound(gpu)
  BY DEF PoolInv, Serves
<1>8. AllTook(gpu, hs, Len(hs), r)
  BY <1>1, <1>4, <1>5, <1>6, <1>7, AllocateAllFacts
<1> HIDE DEF r
<1>9. AdmitsBy(c, hs, r)
  BY <1>1, <1>4, <1>5, <1>8 DEF AdmitsBy, n
<1> QED
  BY <1>9

\* The tables are consistent then.
LEMMA PoolAdmit ==
    ASSUME PoolInv, NEW c \in Conv, Admit(c)
    PROVE  PoolInv'
<1> DEFINE n == Logical(c)
<1>0. status[c] = "waiting"
  BY DEF Admit
<1>pick. PICK hs, r : AdmitsBy(c, hs, r)
  BY AdmitTakes
<1>1. /\ hs \in Seq(Hash) /\ Len(hs) = n /\ AllTook(gpu, hs, Len(hs), r)
      /\ gpu' = r.m /\ broken' = ~r.ok /\ cpu' = cpu
      /\ Assigned(c, "running", r.t, "prompt")
      /\ \A i \in 1 .. n : hs[i] = HashOfBlock(c, i)
  BY <1>pick DEF AdmitsBy
<1>2. /\ Serves(gpu, status, pages, "running") /\ Serves(cpu, status, pages, "swapped")
      /\ words[c] \in Seq(Word) /\ words[c] # <<>> /\ pages \in [Conv -> Seq(Page)]
  BY DEF PoolInv, ConvTypes, Fits
<1>3. \A i \in 1 .. n : Placed(HashOfBlock(c, i), i)
  BY <1>2, HashOfBlockFacts
<1> HIDE DEF n
<1>9. r.ok /\ Served(gpu, r.t, r.m) /\ Len(r.t) = n
  <2>1. \A i \in 1 .. Len(hs) : Placed(hs[i], i)
    BY <1>1, <1>3
  <2>2. Sound(gpu)
    BY <1>2 DEF Serves
  <2> QED
    BY <1>1, <2>1, <2>2, AllTookServed
<1>10. r.t \in Seq(Page) /\ Fits(words[c], "running", r.t, "prompt")
  <2>1. PagesFor(Len(words[c])) = n
    BY DEF PagesFor, Logical, n
  <2>2. r.t \in Seq(Page) /\ IsInjective(r.t)
    BY <1>9 DEF Served
  <2> QED
    BY <1>2, <1>9, <2>1, <2>2 DEF Fits
<1>11. /\ ConvTypes' /\ Only(c, status, pages, status', pages')
       /\ status'[c] = "running" /\ pages'[c] = r.t
       /\ \A d \in Conv : Fits(words'[d], status'[d], pages'[d], job'[d])
  BY <1>1, <1>10, AssignedFacts
<1>12. Serves(gpu', status', pages', "running")
  BY <1>0, <1>1, <1>2, <1>9, <1>11, ServesComing
<1>13. Serves(cpu', status', pages', "swapped")
  <2>1. HeldBy(status, pages, "swapped", c) = {}
    BY <1>0 DEF HeldBy
  <2> QED
    BY <1>0, <1>1, <1>2, <1>11, <2>1, ServesElse
<1> QED
  BY <1>1, <1>9, <1>11, <1>12, <1>13 DEF PoolInv

\* A slot for the next word may be appended.
LEMMA MayDecode ==
    ASSUME PoolInv, NEW c \in Conv, Decode(c)
    PROVE  MayAppend(gpu, c, pages[c])
<1> DEFINE t == pages[c]
<1>1. status[c] = "running" /\ job[c] = "none" /\ Available(gpu) >= 1
  BY DEF Decode
<1>2. Serves(gpu, status, pages, "running") /\ Fits(words[c], status[c], t, job[c])
  BY DEF PoolInv
<1>3. /\ words[c] \in Seq(Word) /\ words[c] # <<>>
      /\ t \in Seq(Page) /\ IsInjective(t)
      /\ \A q \in ToSet(t) : q \in Page /\ gpu.ref[q] > 0
      /\ Sound(gpu) /\ PlacedIn(gpu, t)
      /\ PagesFor(Len(words[c]) - 1) = Logical(c) \/ PagesFor(Len(words[c]) - 1) = Logical(c) - 1
  BY <1>1, <1>2, TableFacts
<1>4. Len(t) = PagesFor(Len(words[c]) - 1)
  BY <1>1, <1>2 DEF Fits
<1> QED
  BY <1>1, <1>3, <1>4 DEF MayAppend

\* The tables are consistent afterwards.
LEMMA PoolDecode ==
    ASSUME PoolInv, NEW c \in Conv, Decode(c)
    PROVE  PoolInv'
<1> DEFINE t == pages[c]
           r == AppendWord(gpu, c, t)
<1>1. /\ status[c] = "running" /\ job[c] = "none" /\ Available(gpu) >= 1
      /\ gpu' = r.m /\ broken' = ~r.ok /\ cpu' = cpu /\ words' = words /\ status' = status
      /\ pages' = [pages EXCEPT ![c] = r.t] /\ job' = [job EXCEPT ![c] = "decode"]
  BY DEF Decode
<1>2. /\ Serves(gpu, status, pages, "running") /\ Serves(cpu, status, pages, "swapped")
      /\ pages \in [Conv -> Seq(Page)] /\ Fits(words[c], status[c], t, job[c])
      /\ status \in [Conv -> {"waiting", "running", "swapped", "gone"}]
  BY DEF PoolInv, ConvTypes
<1>3. words[c] # <<>> /\ PagesFor(Len(words[c])) = Logical(c)
  BY <1>1, <1>2, TableFacts
<1>4. MayAppend(gpu, c, t)
  BY MayDecode
<1>5. Appended(gpu, c, t, r)
  BY <1>4, AppendWordFacts
<1> HIDE DEF r
<1>6. Exchanged(gpu, ToSet(t), ToSet(r.t), r.m)
  BY <1>5, AppendedExchanges
<1>7. r.ok /\ r.t \in Seq(Page) /\ IsInjective(r.t) /\ Len(r.t) = Logical(c) /\ PlacedIn(r.m, r.t)
  BY <1>5 DEF Appended
<1>8. Assigned(c, "running", r.t, "decode")
  <2>1. status' = [status EXCEPT ![c] = "running"]
    BY <1>1, <1>2
  <2> QED
    BY <1>1, <2>1 DEF Assigned
<1>9. Fits(words[c], "running", r.t, "decode")
  BY <1>3, <1>7 DEF Fits
<1>10. /\ ConvTypes' /\ Only(c, status, pages, status', pages')
       /\ status'[c] = "running" /\ pages'[c] = r.t
       /\ \A d \in Conv : Fits(words'[d], status'[d], pages'[d], job'[d])
  BY <1>7, <1>8, <1>9, AssignedFacts
<1>11. Serves(gpu', status', pages', "running")
  <2>1. /\ HeldBy(status, pages, "running", c) = ToSet(t)
        /\ HeldBy(status', pages', "running", c) = ToSet(r.t)
    BY <1>1, <1>10 DEF HeldBy
  <2>2. /\ Exchanged(gpu, HeldBy(status, pages, "running", c),
                        HeldBy(status', pages', "running", c), gpu')
        /\ PlacedIn(gpu', pages'[c])
    BY <1>1, <1>6, <1>7, <1>10, <2>1
  <2> QED
    BY <1>2, <1>10, <2>2, ServesMoved
<1>12. Serves(cpu', status', pages', "swapped")
  <2>1. HeldBy(status, pages, "swapped", c) = {}
    BY <1>1 DEF HeldBy
  <2> QED
    BY <1>1, <1>2, <1>10, <2>1, ServesElse
<1> QED
  BY <1>1, <1>7, <1>10, <1>11, <1>12 DEF PoolInv

\* A preemption by swapping.
LEMMA PoolSwapOut ==
    ASSUME PoolInv, NEW c \in Conv, SwapOutPages(c)
    PROVE  PoolInv'
<1> DEFINE t == pages[c]
           r == MoveTable(gpu, cpu, t)
<1>1. /\ status[c] = "running" /\ job[c] = "none" /\ Len(t) <= Available(cpu)
      /\ gpu' = r.from /\ cpu' = r.to /\ broken' = ~r.ok
      /\ Assigned(c, "swapped", r.t, "out")
  BY DEF SwapOutPages, Assigned
<1>2. /\ Serves(gpu, status, pages, "running") /\ Serves(cpu, status, pages, "swapped")
      /\ pages \in [Conv -> Seq(Page)] /\ Fits(words[c], status[c], t, job[c])
  BY DEF PoolInv, ConvTypes
<1>3. /\ words[c] # <<>>
      /\ t \in Seq(Page) /\ IsInjective(t)
      /\ \A q \in ToSet(t) : q \in Page /\ gpu.ref[q] > 0
      /\ Sound(gpu) /\ PlacedIn(gpu, t)
  BY <1>1, <1>2, TableFacts
<1>4. Moved(gpu, cpu, t, r)
  <2>1. Sound(cpu)
    BY <1>2 DEF Serves
  <2>2. Available(cpu) >= Len(t)
    BY <1>1, <1>3, <2>1, AvailableFacts, LenProperties
  <2> QED
    BY <1>3, <2>1, <2>2, MoveTableFacts
<1> HIDE DEF r
<1>5. /\ r.ok /\ Served(cpu, r.t, r.to) /\ Len(r.t) = Len(t)
      /\ GivenUp(gpu, ToSet(t), r.from)
  BY <1>4 DEF Moved
<1>6. r.t \in Seq(Page) /\ IsInjective(r.t)
  BY <1>5 DEF Served
<1>7. Fits(words[c], "swapped", r.t, "out")
  BY <1>1, <1>2, <1>5, <1>6 DEF Fits
<1>8. /\ ConvTypes' /\ Only(c, status, pages, status', pages')
      /\ status'[c] = "swapped" /\ pages'[c] = r.t
      /\ \A d \in Conv : Fits(words'[d], status'[d], pages'[d], job'[d])
  BY <1>1, <1>6, <1>7, AssignedFacts
<1>9. Serves(gpu', status', pages', "running")
  <2>1. HeldBy(status, pages, "running", c) = ToSet(t)
    BY <1>1 DEF HeldBy
  <2>2. GivenUp(gpu, HeldBy(status, pages, "running", c), gpu') /\ status'[c] # "running"
    BY <1>1, <1>5, <1>8, <2>1
  <2> QED
    BY <1>2, <1>8, <2>2, ServesGoing
<1>10. Serves(cpu', status', pages', "swapped")
  BY <1>1, <1>2, <1>5, <1>8, ServesComing
<1> QED
  BY <1>1, <1>5, <1>8, <1>9, <1>10 DEF PoolInv

\* The return from it.
LEMMA PoolSwapIn ==
    ASSUME PoolInv, NEW c \in Conv, SwapInPages(c)
    PROVE  PoolInv'
<1> DEFINE t == pages[c]
           r == MoveTable(cpu, gpu, t)
           a == AppendWord(r.to, c, r.t)
<1>1. /\ status[c] = "swapped" /\ job[c] = "none" /\ Available(gpu) >= Len(t) + 1
      /\ gpu' = a.m /\ cpu' = r.from /\ broken' = ~(r.ok /\ a.ok)
      /\ Assigned(c, "running", a.t, "decode")
  BY DEF SwapInPages, Assigned
<1>2. /\ Serves(gpu, status, pages, "running") /\ Serves(cpu, status, pages, "swapped")
      /\ pages \in [Conv -> Seq(Page)] /\ Fits(words[c], status[c], t, job[c])
  BY DEF PoolInv, ConvTypes
<1>3. /\ words[c] \in Seq(Word) /\ words[c] # <<>>
      /\ t \in Seq(Page) /\ IsInjective(t)
      /\ \A q \in ToSet(t) : q \in Page /\ cpu.ref[q] > 0
      /\ Sound(cpu) /\ PlacedIn(cpu, t)
      /\ PagesFor(Len(words[c])) = Logical(c)
      /\ PagesFor(Len(words[c]) - 1) = Logical(c) \/ PagesFor(Len(words[c]) - 1) = Logical(c) - 1
  BY <1>1, <1>2, TableFacts
<1>4. Sound(gpu) /\ Len(t) \in Nat /\ Available(gpu) \in Nat
  BY <1>2, <1>3, AvailableFacts, LenProperties DEF Serves
<1>5. Moved(cpu, gpu, t, r)
  <2>1. Available(gpu) >= Len(t)
    BY <1>1, <1>4
  <2> QED
    BY <1>3, <1>4, <2>1, MoveTableFacts
<1> HIDE DEF r
<1>6. /\ r.ok /\ Served(gpu, r.t, r.to) /\ Len(r.t) = Len(t)
      /\ Available(r.to) >= Available(gpu) - Len(t)
      /\ GivenUp(cpu, ToSet(t), r.from)
  BY <1>5 DEF Moved
<1>7. /\ Sound(r.to) /\ r.t \in Seq(Page) /\ IsInjective(r.t) /\ PlacedIn(r.to, r.t)
      /\ \A q \in Page : r.to.ref[q] = gpu.ref[q] + In(q, ToSet(r.t))
      /\ \A q \in Page : gpu.ref[q] > 0 => r.to.hash[q] = gpu.hash[q]
  BY <1>6 DEF Served
<1>8. \A q \in Page : gpu.ref[q] \in Nat /\ In(q, ToSet(r.t)) \in Nat
  BY <1>4, PoolFields, InType
<1>9. MayAppend(r.to, c, r.t)
  <2>1. Len(t) = PagesFor(Len(words[c]) - 1)
    BY <1>1, <1>2 DEF Fits
  <2>2. \A q \in ToSet(r.t) : q \in Page /\ In(q, ToSet(r.t)) = 1
    BY <1>7, LenProperties, ElementOfSeq DEF ToSet, In
  <2>3. \A q \in ToSet(r.t) : r.to.ref[q] > 0
    BY <1>7, <1>8, <2>2
  <2>4. Available(r.to) >= 1
    <3>1. Available(r.to) \in Nat
      BY <1>7, AvailableFacts
    <3> QED
      BY <1>1, <1>4, <1>6, <3>1
  <2> QED
    BY <1>3, <1>6, <1>7, <2>1, <2>3, <2>4 DEF MayAppend
<1>10. Appended(r.to, c, r.t, a)
  BY <1>9, AppendWordFacts
<1> HIDE DEF a
<1>11. /\ a.ok /\ Sound(a.m)
       /\ a.t \in Seq(Page) /\ IsInjective(a.t) /\ Len(a.t) = Logical(c) /\ PlacedIn(a.m, a.t)
  BY <1>10 DEF Appended
<1>12. /\ \A q \in Page : a.m.ref[q] = r.to.ref[q] - In(q, ToSet(r.t)) + In(q, ToSet(a.t))
       /\ \A q \in Page : r.to.ref[q] > In(q, ToSet(r.t)) => a.m.hash[q] = r.to.hash[q]
  BY <1>10 DEF Appended
<1>13. Served(gpu, a.t, a.m)
  <2>1. ASSUME NEW q \in Page PROVE a.m.ref[q] = gpu.ref[q] + In(q, ToSet(a.t))
    <3>1. In(q, ToSet(a.t)) \in Nat
      BY InType
    <3> QED
      BY <1>7, <1>8, <1>12, <3>1
  <2>2. ASSUME NEW q \in Page, gpu.ref[q] > 0 PROVE a.m.hash[q] = gpu.hash[q]
    <3>1. r.to.ref[q] > In(q, ToSet(r.t))
      BY <1>7, <1>8, <2>2
    <3> QED
      BY <1>7, <1>12, <2>2, <3>1
  <2> QED
    BY <1>11, <2>1, <2>2 DEF Served
<1>14. Fits(words[c], "running", a.t, "decode")
  BY <1>3, <1>11 DEF Fits
<1>15. /\ ConvTypes' /\ Only(c, status, pages, status', pages')
       /\ status'[c] = "running" /\ pages'[c] = a.t
       /\ \A d \in Conv : Fits(words'[d], status'[d], pages'[d], job'[d])
  BY <1>1, <1>11, <1>14, AssignedFacts
<1>16. Serves(gpu', status', pages', "running")
  BY <1>1, <1>2, <1>13, <1>15, ServesComing
<1>17. Serves(cpu', status', pages', "swapped")
  <2>1. HeldBy(status, pages, "swapped", c) = ToSet(t)
    BY <1>1 DEF HeldBy
  <2>2. GivenUp(cpu, HeldBy(status, pages, "swapped", c), cpu') /\ status'[c] # "swapped"
    BY <1>1, <1>6, <1>15, <2>1
  <2> QED
    BY <1>2, <1>15, <2>2, ServesGoing
<1> QED
  BY <1>1, <1>6, <1>11, <1>15, <1>16, <1>17 DEF PoolInv


\* An order of a table is a list of its pages.
LEMMA OrderOfTable ==
    ASSUME NEW t \in Seq(Page), NEW order \in SetToSeqs(ToSet(t))
    PROVE  order \in Seq(Page) /\ IsInjective(order) /\ ToSet(order) = ToSet(t)
<1> DEFINE T == ToSet(t)
           n == Cardinality(T)
<1>1. T \subseteq Page /\ IsFiniteSet(T)
  <2>1. T \subseteq Page
    BY LenProperties, ElementOfSeq DEF ToSet
  <2> QED
    BY <2>1, PageFacts, FS_Subset
<1>2. n \in Nat
  BY <1>1, FS_CardinalityType
<1>3. order \in [1 .. n -> T] /\ \A i, j \in 1 .. n : i # j => order[i] # order[j]
  BY DEF SetToSeqs
<1> HIDE DEF T, n
<1>4. order \in Seq(Page) /\ DOMAIN order = 1 .. n
  <2>1. order \in [1 .. n -> Page]
    BY <1>1, <1>3
  <2> QED
    BY <1>2, <2>1, IsASeq
<1>5. IsInjective(order)
  BY <1>3, <1>4 DEF IsInjective
<1>6. ToSet(order) \subseteq T
  BY <1>3, <1>4 DEF ToSet
<1>7. Cardinality(ToSet(order)) = n
  <2>1. IsFiniteSet(ToSet(order)) /\ Cardinality(ToSet(order)) = Len(order)
    BY <1>4, <1>5, LengthOfOnce
  <2>2. Len(order) = n
    BY <1>2, <1>4, LenProperties
  <2> QED
    BY <2>1, <2>2
<1>8. ToSet(order) = T
  BY <1>1, <1>6, <1>7, FS_Subset DEF n
<1> QED
  BY <1>4, <1>5, <1>8 DEF T

\* A recomputation, an abort or an end gives up the table.
LEMMA DropGives ==
    ASSUME PoolInv, NEW c \in Conv, NEW to \in {"waiting", "gone"}, DropPages(c, to)
    PROVE  /\ Assigned(c, to, <<>>, "none") /\ ~broken'
           /\ IF status[c] = "swapped" THEN gpu' = gpu /\ GivenUp(cpu, ToSet(pages[c]), cpu')
                                      ELSE cpu' = cpu /\ GivenUp(gpu, ToSet(pages[c]), gpu')
<1> DEFINE t == pages[c]
           m == IF status[c] = "swapped" THEN cpu ELSE gpu
<1>1. PICK order \in SetToSeqs(ToSet(t)) :
         /\ gpu' = IF status[c] = "swapped" THEN gpu ELSE FreeAll(m, order).m
         /\ cpu' = IF status[c] = "swapped" THEN FreeAll(m, order).m ELSE cpu
         /\ broken' = ~FreeAll(m, order).ok
  BY DEF DropPages
<1>2. Assigned(c, to, <<>>, "none")
  BY DEF DropPages, Assigned
<1>3. /\ Serves(gpu, status, pages, "running") /\ Serves(cpu, status, pages, "swapped")
      /\ pages \in [Conv -> Seq(Page)] /\ Fits(words[c], status[c], t, job[c])
      /\ status[c] \in {"waiting", "running", "swapped", "gone"}
      /\ t \in Seq(Page)
  BY DEF PoolInv, ConvTypes
<1>4. order \in Seq(Page) /\ IsInjective(order) /\ ToSet(order) = ToSet(t)
  BY <1>3, OrderOfTable
<1>5. Sound(m) /\ \A q \in ToSet(t) : m.ref[q] > 0
  <2>1. CASE status[c] \in {"waiting", "gone"}
    <3>1. ToSet(t) = {}
      BY <1>3, <2>1, EmptyElems DEF Fits
    <3>2. Sound(m)
      BY <1>3, <2>1 DEF Serves
    <3> QED
      BY <3>1, <3>2
  <2>2. CASE status[c] = "running"
    <3>1. m = gpu
      BY <2>2
    <3> QED
      BY <1>3, <2>2, <3>1, TableFacts
  <2>3. CASE status[c] = "swapped"
    <3>1. m = cpu
      BY <2>3
    <3> QED
      BY <1>3, <2>3, <3>1, TableFacts
  <2> QED
    BY <1>3, <2>1, <2>2, <2>3
<1> DEFINE f == FreeAll(m, order)
<1>6. f.ok /\ GivenUp(m, ToSet(t), f.m)
  <2>1. \A i \in 1 .. Len(order) : m.ref[order[i]] > 0
    <3>1. DOMAIN order = 1 .. Len(order)
      BY <1>4, LenProperties
    <3>2. \A i \in 1 .. Len(order) : order[i] \in ToSet(order)
      BY <3>1 DEF ToSet
    <3> HIDE DEF m
    <3> QED
      BY <1>4, <1>5, <3>2
  <2> HIDE DEF m
  <2>2. /\ f.ok /\ Sound(f.m) /\ f.m.hash = m.hash /\ f.m.done = m.done
        /\ \A q \in Page : f.m.ref[q] = m.ref[q] - (IF q \in ToSet(order) THEN 1 ELSE 0)
    BY <1>4, <1>5, <2>1, FreeAllFacts
  <2> HIDE DEF f
  <2> QED
    BY <1>4, <2>2 DEF GivenUp, In
<1>7. /\ gpu' = IF status[c] = "swapped" THEN gpu ELSE f.m
      /\ cpu' = IF status[c] = "swapped" THEN f.m ELSE cpu
      /\ ~broken'
  BY <1>1, <1>6
<1> HIDE DEF f
<1> QED
  BY <1>2, <1>6, <1>7

\* The tables are consistent without it.
LEMMA PoolDrop ==
    ASSUME PoolInv, NEW c \in Conv, NEW to \in {"waiting", "gone"}, DropPages(c, to)
    PROVE  PoolInv'
<1> DEFINE t == pages[c]
<1>2. /\ Assigned(c, to, <<>>, "none") /\ ~broken'
      /\ IF status[c] = "swapped" THEN gpu' = gpu /\ GivenUp(cpu, ToSet(t), cpu')
                                 ELSE cpu' = cpu /\ GivenUp(gpu, ToSet(t), gpu')
  BY DropGives
<1>3. /\ Serves(gpu, status, pages, "running") /\ Serves(cpu, status, pages, "swapped")
      /\ pages \in [Conv -> Seq(Page)] /\ Fits(words[c], status[c], t, job[c])
      /\ status[c] \in {"waiting", "running", "swapped", "gone"}
      /\ t \in Seq(Page)
  BY DEF PoolInv, ConvTypes
<1>8. /\ ConvTypes' /\ Only(c, status, pages, status', pages')
      /\ status'[c] = to /\ pages'[c] = <<>>
      /\ \A d \in Conv : Fits(words'[d], status'[d], pages'[d], job'[d])
  <2>1. Fits(words[c], to, <<>>, "none")
    BY <1>3 DEF Fits, IsInjective
  <2>2. <<>> \in Seq(Page)
    BY EmptySeq
  <2> QED
    BY <1>2, <2>1, <2>2, AssignedFacts
<1>9. Serves(gpu', status', pages', "running") /\ Serves(cpu', status', pages', "swapped")
  <2>1. CASE status[c] = "swapped"
    <3>1. HeldBy(status, pages, "swapped", c) = ToSet(t) /\ HeldBy(status, pages, "running", c) = {}
      BY <2>1 DEF HeldBy
    <3>2. GivenUp(cpu, HeldBy(status, pages, "swapped", c), cpu') /\ gpu' = gpu
      BY <1>2, <2>1, <3>1
    <3>3. Serves(cpu', status', pages', "swapped")
      BY <1>3, <1>8, <3>2, ServesGoing
    <3>4. Serves(gpu', status', pages', "running")
      BY <1>3, <1>8, <3>1, <3>2, ServesElse
    <3> QED
      BY <3>3, <3>4
  <2>2. CASE status[c] # "swapped"
    <3>1. HeldBy(status, pages, "swapped", c) = {} /\ HeldBy(status, pages, "running", c) = ToSet(t)
      <4>1. status[c] # "running" => ToSet(t) = {}
        BY <1>3, <2>2, EmptyElems DEF Fits
      <4> QED
        BY <2>2, <4>1 DEF HeldBy
    <3>2. GivenUp(gpu, HeldBy(status, pages, "running", c), gpu') /\ cpu' = cpu
      BY <1>2, <2>2, <3>1
    <3>3. Serves(gpu', status', pages', "running")
      BY <1>3, <1>8, <3>2, ServesGoing
    <3>4. Serves(cpu', status', pages', "swapped")
      BY <1>3, <1>8, <3>1, <3>2, ServesElse
    <3> QED
      BY <3>3, <3>4
  <2> QED
    BY <2>1, <2>2
<1> QED
  BY <1>2, <1>8, <1>9 DEF PoolInv

\* The next word.
LEMMA PoolSample ==
    ASSUME PoolInv, NEW c \in Conv, NEW w \in Word, Sample(c, w)
    PROVE  PoolInv'
<1>1. /\ job[c] = "sampled" /\ words' = [words EXCEPT ![c] = Append(@, w)]
      /\ job' = [job EXCEPT ![c] = "none"] /\ gpu' = gpu /\ cpu' = cpu
      /\ status' = status /\ pages' = pages /\ broken' = broken
  BY DEF Sample
<1>2. /\ words \in [Conv -> Seq(Word)]
      /\ status \in [Conv -> {"waiting", "running", "swapped", "gone"}]
      /\ pages \in [Conv -> Seq(Page)]
      /\ job \in [Conv -> {"none", "out", "prompt", "decode", "sampled"}]
  BY DEF PoolInv, ConvTypes
<1>3. /\ Append(words[c], w) \in Seq(Word) /\ Append(words[c], w) # <<>>
      /\ Len(Append(words[c], w)) = Len(words[c]) + 1 /\ Len(words[c]) \in Nat
  <2>1. words[c] \in Seq(Word)
    BY <1>2
  <2> QED
    BY <2>1, AppendProperties, LenProperties
<1>4. /\ words' \in [Conv -> Seq(Word)] /\ words'[c] = Append(words[c], w)
      /\ \A d \in Conv : d # c => words'[d] = words[d]
  BY <1>1, <1>2, <1>3, OneEntry
<1>5. /\ job' \in [Conv -> {"none", "out", "prompt", "decode", "sampled"}] /\ job'[c] = "none"
      /\ \A d \in Conv : d # c => job'[d] = job[d]
  BY <1>1, <1>2, OneEntry
<1>6. ConvTypes'
  BY <1>1, <1>2, <1>4, <1>5 DEF ConvTypes
<1>7. ASSUME NEW d \in Conv PROVE Fits(words'[d], status'[d], pages'[d], job'[d])
  <2>1. Fits(words[d], status[d], pages[d], job[d])
    BY DEF PoolInv
  <2>2. CASE d = c
    <3>1. status[c] = "running"
      BY <1>1, <1>2, <2>1, <2>2 DEF Fits
    <3>2. Len(pages[c]) = PagesFor(Len(words[c])) /\ IsInjective(pages[c])
      BY <1>1, <2>1, <2>2, <3>1 DEF Fits
    <3>3. Len(words'[c]) - 1 = Len(words[c])
      BY <1>3, <1>4
    <3> QED
      BY <1>1, <1>3, <1>4, <1>5, <2>2, <3>1, <3>2, <3>3 DEF Fits
  <2>3. CASE d # c
    BY <1>1, <1>4, <1>5, <2>1, <2>3
  <2> QED
    BY <2>2, <2>3
<1> QED
  BY <1>1, <1>6, <1>7 DEF PoolInv

\* The ranks of the times are numbers.
LEMMA AccessedType ==
    ASSUME NEW now
    PROVE  Accessed(now) \in [Page -> Nat]
<1> DEFINE at(p) == IF p \in now THEN Cardinality(Page) + 1 ELSE gpu.last[p]
           times == {at(p) : p \in Page} \ {0}
<1>1. IsFiniteSet({at(p) : p \in Page})
  <2> DEFINE f == [p \in Page |-> at(p)]
             A == {at(p) : p \in Page}
  <2>1. f \in Surjection(Page, A)
    BY DEF Surjection
  <2> HIDE DEF f, A
  <2>2. IsFiniteSet(A)
    BY <2>1, PageFacts, FS_Surjection
  <2> QED
    BY <2>2 DEF A
<1>2. IsFiniteSet(times)
  BY <1>1, FS_Subset
<1>3. Accessed(now) = [p \in Page |-> Cardinality({t \in times : t <= at(p)})]
  BY DEF Accessed
<1> HIDE DEF times, at
<1>4. \A p \in Page : Cardinality({t \in times : t <= at(p)}) \in Nat
  <2>1. ASSUME NEW p \in Page PROVE Cardinality({t \in times : t <= at(p)}) \in Nat
    <3>1. {t \in times : t <= at(p)} \subseteq times
      OBVIOUS
    <3> QED
      BY <1>2, <3>1, FS_Subset, FS_CardinalityType
  <2> QED
    BY <2>1
<1> QED
  BY <1>3, <1>4

\* The pages that a step marks are in the table of the sequence.
LEMMA MarkedInTable ==
    ASSUME PoolInv, NEW c \in Conv, job[c] \in {"prompt", "decode"}
    PROVE  status[c] = "running" /\ Marked(c) \subseteq ToSet(pages[c])
<1>1. /\ Fits(words[c], status[c], pages[c], job[c]) /\ words[c] \in Seq(Word)
      /\ pages[c] \in Seq(Page) /\ status[c] \in {"waiting", "running", "swapped", "gone"}
  BY DEF PoolInv, ConvTypes
<1>2. status[c] = "running"
  BY <1>1 DEF Fits
<1> DEFINE L == Len(words[c])
           q == L \div PageSize
           n == PagesFor(L)
<1>3. Len(pages[c]) = n
  BY <1>1, <1>2 DEF Fits
<1>4. L \in Nat /\ PageSize \in Nat /\ PageSize > 0
  BY <1>1, LenProperties, PrefixAssumption
<1>5. n \in Nat /\ L <= PageSize * n
  BY <1>4, PagesForFacts
<1> HIDE DEF L, n
<1>6. q \in Int /\ PageSize * q <= L
  BY <1>4
<1> HIDE DEF q
<1>7. q <= n
  <2>1. PageSize * q < PageSize * (n + 1)
    BY <1>4, <1>5, <1>6
  <2>2. q < n + 1
    BY <1>4, <1>5, <1>6, <2>1
  <2> QED
    BY <1>5, <1>6, <2>2
<1>8. \A i \in 1 .. q - 1 : i \in 1 .. n
  BY <1>5, <1>6, <1>7
<1>9. DOMAIN pages[c] = 1 .. n
  BY <1>1, <1>3, LenProperties
<1>10. \A i \in 1 .. q - 1 : pages[c][i] \in ToSet(pages[c])
  BY <1>8, <1>9 DEF ToSet
<1>11. Marked(c) \subseteq {pages[c][i] : i \in 1 .. q - 1}
  BY DEF Marked, q, L
<1> QED
  BY <1>2, <1>10, <1>11

\* The model step marks pages and dates them; it hands out none.
LEMMA PoolExecute ==
    ASSUME PoolInv, Execute
    PROVE  PoolInv'
<1> DEFINE busy == {c \in Conv : job[c] \in {"prompt", "decode"}}
           last == Accessed(UNION {ToSet(pages[c]) : c \in busy})
           done == [p \in Page |-> gpu.done[p] \/ \E c \in busy : p \in Marked(c)]
           n == [gpu EXCEPT !.last = last, !.done = done]
<1>1. /\ Planning /\ gpu' = n
      /\ job' = [c \in Conv |-> IF job[c] \in {"prompt", "decode"} THEN "sampled" ELSE "none"]
      /\ cpu' = cpu /\ words' = words /\ status' = status /\ pages' = pages
      /\ broken' = broken
  BY DEF Execute
<1>2. /\ words \in [Conv -> Seq(Word)]
      /\ status \in [Conv -> {"waiting", "running", "swapped", "gone"}]
      /\ pages \in [Conv -> Seq(Page)]
      /\ job \in [Conv -> {"none", "out", "prompt", "decode", "sampled"}]
      /\ Serves(gpu, status, pages, "running")
  BY DEF PoolInv, ConvTypes
<1>3. Sound(gpu)
  BY <1>2 DEF Serves
<1>4. PoolShape(gpu) /\ Unmade(gpu) /\ Dicted(gpu) /\ Evictable(gpu) /\ OnePage(gpu)
  BY <1>3 DEF Sound
<1>5. last \in [Page -> Nat] /\ done \in [Page -> BOOLEAN]
  BY AccessedType
<1>6. \A p \in Page : p > gpu.made => ~done[p]
  <2>1. ASSUME NEW p \in Page, p > gpu.made, NEW c \in busy, p \in Marked(c) PROVE FALSE
    <3>1. status[c] = "running" /\ p \in ToSet(pages[c])
      BY <2>1, MarkedInTable
    <3>2. gpu.ref[p] > 0
      BY <1>2, <3>1, UsersCount
    <3> QED
      BY <1>4, <2>1, <3>2 DEF Unmade
  <2>2. \A p \in Page : p > gpu.made => ~gpu.done[p]
    BY <1>4 DEF Unmade
  <2> HIDE DEF busy
  <2> QED
    BY <2>1, <2>2
<1> HIDE DEF last, done
<1>7. /\ n.size = gpu.size /\ n.made = gpu.made /\ n.dict = gpu.dict /\ n.lru = gpu.lru
      /\ n.hash = gpu.hash /\ n.num = gpu.num /\ n.ref = gpu.ref /\ n.done = done
  BY <1>4 DEF PoolShape
<1>8. PoolShape(n)
  BY <1>4, <1>5 DEF PoolShape
<1> HIDE DEF n
<1>9. Sound(n)
  <2>1. Unmade(n)
    BY <1>4, <1>6, <1>7 DEF Unmade
  <2>2. Dicted(n)
    BY <1>4, <1>7 DEF Dicted
  <2>3. Evictable(n)
    BY <1>4, <1>7 DEF Evictable
  <2>4. OnePage(n)
    BY <1>4, <1>7 DEF OnePage
  <2> QED
    BY <1>8, <2>1, <2>2, <2>3, <2>4 DEF Sound
<1>10. Serves(n, status, pages, "running")
  BY <1>2, <1>7, <1>9 DEF Serves, PlacedIn
<1>11. \A c \in Conv : job[c] # "sampled"
  BY <1>1 DEF Planning, Doing
<1>12. ASSUME NEW c \in Conv PROVE Fits(words[c], status[c], pages[c], job'[c])
  <2>1. Fits(words[c], status[c], pages[c], job[c])
    BY DEF PoolInv
  <2>2. CASE job[c] \in {"prompt", "decode"}
    <3>1. job'[c] = "sampled"
      BY <1>1, <2>2
    <3>2. status[c] = "running"
      BY <2>2, MarkedInTable
    <3> QED
      BY <2>1, <2>2, <3>1, <3>2 DEF Fits
  <2>3. CASE job[c] \notin {"prompt", "decode"}
    <3>1. job'[c] = "none" /\ job[c] \in {"none", "out"}
      BY <1>1, <1>2, <1>11, <2>3
    <3> QED
      BY <2>1, <3>1 DEF Fits
  <2> QED
    BY <2>2, <2>3
<1>13. ConvTypes'
  <2>1. job' \in [Conv -> {"none", "out", "prompt", "decode", "sampled"}]
    BY <1>1
  <2> QED
    BY <1>1, <1>2, <2>1 DEF ConvTypes
<1> QED
  BY <1>1, <1>10, <1>12, <1>13 DEF PoolInv

\* Every step of the prefix cache keeps the invariant.
LEMMA PoolStep ==
    ASSUME PoolInv, [PrefixNext]_prefixVars
    PROVE  PoolInv'
<1>1. CASE PrefixNext
  <2>1. ASSUME NEW c \in Conv, NEW w \in Word, Sample(c, w) PROVE PoolInv'
    BY <2>1, PoolSample
  <2>2. ASSUME NEW c \in Conv, Recompute(c) \/ AbortConv(c) \/ FinishConv(c) PROVE PoolInv'
    <3>1. DropPages(c, "waiting") \/ DropPages(c, "gone")
      BY <2>2 DEF Recompute, AbortConv, FinishConv
    <3> QED
      BY <3>1, PoolDrop
  <2>3. ASSUME NEW c \in Conv, Admit(c) \/ Decode(c) \/ SwapOutPages(c) \/ SwapInPages(c)
        PROVE  PoolInv'
    BY <2>3, PoolAdmit, PoolDecode, PoolSwapOut, PoolSwapIn
  <2>4. CASE Execute
    BY <2>4, PoolExecute
  <2> QED
    BY <1>1, <2>1, <2>2, <2>3, <2>4 DEF PrefixNext
<1>2. CASE UNCHANGED prefixVars
  BY <1>2 DEF prefixVars, PoolInv, ConvTypes
<1> QED
  BY <1>1, <1>2

\* The counts are those of the property.
LEMMA ServesExact ==
    ASSUME NEW m, NEW st, Serves(m, status, pages, st)
    PROVE  PoolExact(m, {c \in Conv : status[c] = st})
<1>1. Dicted(m) /\ Evictable(m) /\ OnePage(m)
  BY DEF Serves, Sound
<1>2. \A p \in Page : UsersIn(status, pages, st, p)
                         = {c \in {c \in Conv : status[c] = st} : p \in ToSet(pages[c])}
  BY DEF UsersIn
<1>3. \A p \in Page :
         m.ref[p] = Cardinality({c \in {c \in Conv : status[c] = st} : p \in ToSet(pages[c])})
  BY <1>2 DEF Serves
<1> QED
  BY <1>1, <1>3 DEF PoolExact, Dicted, Evictable, OnePage

\* The inductive invariant: the states of the two allocators and the tables fit
\* together after every handler of the scheduler and every model step.
THEOREM PrefixInvariant == PrefixSpec => []PoolInv
BY PoolInit, PoolStep, PTL DEF PrefixSpec

\* The counts of the pages are the numbers of sequences that use them, the
\* dictionary and the evictor hold exactly the pages in use and the others, no
\* two pages have the same hash, and no assertion or error of the allocator is
\* reached: for every number of pages and conversations, every page size, every
\* prompt, with promotions, copies on write, evictions and swaps.
THEOREM PrefixPoolsMatch == PrefixSpec => []PoolsMatch
<1>1. PoolInv => PoolsMatch
  BY ServesExact DEF PoolInv, PoolsMatch
<1> QED
  BY <1>1, PrefixInvariant, PTL

-----------------------------------------------------------------------------
(* What the pages of the prefix cache hold, without swaps.                   *)

\* Where the word k of a sequence is: the place in its table, the slot there.
PlaceOf(k) == (k - 1) \div PageSize + 1
SlotOf(k) == ((k - 1) % PageSize) + 1

\* How many words the table of a sequence with words w has room for.
Reach(w, j) == IF j = "none" THEN Len(w) - 1 ELSE Len(w)

\* Page p has the word k of w, V being what the pages hold.
Holds(V, p, w, k) == V[p][SlotOf(k)] = SubSeq(w, 1, k)

\* The hash of a page that is full, and a page that holds what it says.
EndsPage(h) == h \in Seq(Word) /\ h # <<>> /\ Len(h) % PageSize = 0
HoldsPage(V, p, h) == \A k \in Len(h) - PageSize + 1 .. Len(h) : Holds(V, p, h, k)

\* The hash at place i of a table for n words of w: a number, or what the words
\* were when the page got it; the whole page, once the table is beyond it.
PlaceFits(h, i, w, n) ==
    \/ h \in FreshHash /\ n < i * PageSize
    \/ /\ h \in Seq(Word) /\ h = SubSeq(w, 1, Len(h))
       /\ (i - 1) * PageSize < Len(h) /\ Len(h) <= i * PageSize /\ Len(h) <= n
       /\ i * PageSize <= n => Len(h) = i * PageSize

\* A table for n words has none at place i that the hash leaves out.
Tight(h, i, n) == i * PageSize <= Len(h) \/ n <= Len(h)

\* The tables P of the sequences that run by S, with words w and doing j.
TablesHashed(m, P, S, w, j) ==
    \A c \in Conv : S[c] = "running" =>
        \A i \in 1 .. Len(P[c]) : PlaceFits(m.hash[P[c][i]], i, w[c], Reach(w[c], j[c]))

\* Of two sequences that share a page one has written nothing to it beyond its hash.
SharersHashed(m, P, S, w, j) ==
    \A c, d \in Conv : c # d /\ S[c] = "running" /\ S[d] = "running" =>
        \A i \in 1 .. Len(P[c]), l \in 1 .. Len(P[d]) : P[c][i] = P[d][l] =>
            /\ m.hash[P[c][i]] \in Seq(Word)
            /\ \/ Tight(m.hash[P[c][i]], i, Reach(w[c], j[c]))
               \/ Tight(m.hash[P[c][i]], l, Reach(w[d], j[d]))

HashesFit(m, P, S, w, j) ==
    TablesHashed(m, P, S, w, j) /\ SharersHashed(m, P, S, w, j)

\* Nothing is swapped, and only appended words make copies.
OneWay ==
    /\ moves = [out |-> {}, in |-> {}, copy |-> moves.copy]
    /\ \A c \in Conv : status[c] # "swapped"
    /\ ~(Doing("prompt") /\ Doing("decode"))
    /\ ~Doing("decode") => moves.copy = {}

\* What a sequence has computed is in its pages.
ResultsHeld ==
    \A c \in Conv : status[c] = "running" /\ job[c] \in {"none", "sampled"} =>
        \A k \in 1 .. Reach(words[c], job[c]) :
            Holds(kv["gpu"], pages[c][PlaceOf(k)], words[c], k)

\* So it is of one that is about to compute its last word, or will be copied there.
CopyTo(p) == \E mv \in moves.copy : mv[2] = p

SlotsAwait ==
    \A c \in Conv : status[c] = "running" /\ job[c] = "decode" =>
        \A k \in 1 .. Len(words[c]) - 1 :
            \/ Holds(kv["gpu"], pages[c][PlaceOf(k)], words[c], k)
            \/ CopyTo(pages[c][PlaceOf(k)])

\* A copy is for a sequence that appends a word, to a page that is full then or
\* nobody else's, and brings all the words before.
CopyFits(mv, e) ==
    /\ status[e] = "running" /\ job[e] = "decode"
    /\ mv[1] \in Page /\ mv[2] = pages[e][Logical(e)]
    /\ gpu.hash[mv[2]] \in FreshHash \/ Len(words[e]) % PageSize = 0
    /\ \A k \in 1 .. Len(words[e]) - 1 :
          PlaceOf(k) = Logical(e) => Holds(kv["gpu"], mv[1], words[e], k)

CopiesFit == \A mv \in moves.copy : \E e \in Conv : CopyFits(mv, e)

\* A page that may be used again without being computed holds what its hash says.
CachedHeld ==
    \A p \in Page :
        /\ gpu.done[p] => EndsPage(gpu.hash[p])
        /\ EndsPage(gpu.hash[p]) /\ (gpu.done[p] \/ gpu.ref[p] = 0) =>
               HoldsPage(kv["gpu"], p, gpu.hash[p])

KVParts ==
    /\ OneWay /\ HashesFit(gpu, pages, status, words, job)
    /\ ResultsHeld /\ SlotsAwait /\ CopiesFit /\ CachedHeld

KVInv == ~swaps => KVParts

LEMMA PlaceFacts ==
    ASSUME NEW k \in Nat \ {0}
    PROVE  /\ PlaceOf(k) \in Nat \ {0} /\ SlotOf(k) \in 1 .. PageSize
           /\ k = (PlaceOf(k) - 1) * PageSize + SlotOf(k)
           /\ (PlaceOf(k) - 1) * PageSize < k /\ k <= PlaceOf(k) * PageSize
<1>1. PageSize \in Nat /\ PageSize > 0
  BY PrefixAssumption
<1> DEFINE q == (k - 1) \div PageSize
           s == (k - 1) % PageSize
<1>2. q \in Nat /\ s \in 0 .. PageSize - 1 /\ k - 1 = PageSize * q + s
  BY <1>1
<1>3. PlaceOf(k) = q + 1 /\ SlotOf(k) = s + 1
  BY DEF PlaceOf, SlotOf
<1> HIDE DEF q, s
<1>4. /\ (q + 1 - 1) * PageSize = PageSize * q
      /\ (q + 1) * PageSize = PageSize * q + PageSize
      /\ PageSize * q \in Nat
  BY <1>1, <1>2
<1> QED
  BY <1>1, <1>2, <1>3, <1>4

\* Only the words of its place are there.
LEMMA PlaceIs ==
    ASSUME NEW k \in Nat \ {0}, NEW i \in Nat \ {0},
           (i - 1) * PageSize < k, k <= i * PageSize
    PROVE  PlaceOf(k) = i
<1> DEFINE q == PlaceOf(k)
<1>1. /\ PageSize \in Nat /\ PageSize > 0 /\ q \in Nat \ {0}
      /\ (q - 1) * PageSize < k /\ k <= q * PageSize
  BY PlaceFacts, PrefixAssumption
<1> HIDE DEF q
<1>2. ASSUME q < i PROVE FALSE
  <2>1. q <= i - 1
    BY <1>1, <1>2
  <2>2. q * PageSize <= (i - 1) * PageSize
    BY <1>1, <2>1
  <2> QED
    BY <1>1, <2>2
<1>3. ASSUME i < q PROVE FALSE
  <2>1. i <= q - 1
    BY <1>1, <1>3
  <2>2. i * PageSize <= (q - 1) * PageSize
    BY <1>1, <2>1
  <2> QED
    BY <1>1, <2>2
<1>4. q = i
  BY <1>1, <1>2, <1>3
<1> QED
  BY <1>4 DEF q

LEMMA SameWord ==
    ASSUME NEW k \in Nat \ {0}, NEW l \in Nat \ {0},
           PlaceOf(k) = PlaceOf(l), SlotOf(k) = SlotOf(l)
    PROVE  k = l
BY PlaceFacts

\* The places of a table for n words.
LEMMA PlaceInTable ==
    ASSUME NEW n \in Nat, NEW k \in 1 .. n
    PROVE  k \in Nat \ {0} /\ PlaceOf(k) \in 1 .. PagesFor(n)
<1> DEFINE q == PlaceOf(k)
           r == PagesFor(n)
<1>1. /\ PageSize \in Nat /\ PageSize > 0 /\ q \in Nat \ {0} /\ (q - 1) * PageSize < k
      /\ r \in Nat /\ n <= PageSize * r /\ k \in Nat \ {0}
  BY PlaceFacts, PagesForFacts, PrefixAssumption
<1> HIDE DEF q, r
<1>2. (q - 1) * PageSize < PageSize * r
  BY <1>1
<1>3. q - 1 < r
  <2>1. CASE r <= q - 1
    <3>1. r * PageSize <= (q - 1) * PageSize
      BY <1>1, <2>1
    <3> QED
      BY <1>1, <1>2, <3>1
  <2> QED
    BY <1>1, <2>1
<1> QED
  BY <1>1, <1>3 DEF q, r

LEMMA MultipleOfPage == ASSUME NEW i \in Nat PROVE (i * PageSize) % PageSize = 0
<1>1. PageSize \in Nat /\ PageSize > 0
  BY PrefixAssumption
<1> DEFINE n == i * PageSize
<1>2. n \in Nat
  BY <1>1
<1>3. n = PageSize * i
  BY <1>1
<1> HIDE DEF n
<1> DEFINE q == n \div PageSize
           s == n % PageSize
<1>4. q \in Nat /\ s \in 0 .. PageSize - 1 /\ n = PageSize * q + s
  BY <1>1, <1>2
<1> HIDE DEF q, s
<1>5. s = PageSize * (i - q)
  BY <1>1, <1>3, <1>4
<1>6. CASE i - q >= 1
  <2>1. PageSize * (i - q) >= PageSize
    BY <1>1, <1>4, <1>6
  <2> QED
    BY <1>1, <1>4, <1>5, <2>1
<1>7. CASE i - q <= -1
  <2>1. PageSize * (i - q) <= 0 - PageSize
    BY <1>1, <1>4, <1>7
  <2> QED
    BY <1>1, <1>4, <1>5, <2>1
<1>8. CASE i = q
  BY <1>1, <1>4, <1>5, <1>8 DEF s, n
<1> QED
  BY <1>4, <1>6, <1>7, <1>8

\* The place of the last word.
LEMMA LastPlace ==
    ASSUME NEW n \in Nat \ {0}
    PROVE  /\ PagesFor(n) \in Nat \ {0} /\ PlaceOf(n) = PagesFor(n)
           /\ (PagesFor(n) - 1) * PageSize < n /\ n <= PagesFor(n) * PageSize
           /\ n % PageSize = 0 => n = PagesFor(n) * PageSize /\ SlotOf(n) = PageSize
           /\ n % PageSize # 0 => n < PagesFor(n) * PageSize
<1> DEFINE r == PagesFor(n)
<1>1. /\ PageSize \in Nat /\ PageSize > 0
      /\ r \in Nat \ {0} /\ n <= PageSize * r /\ PageSize * r < n + PageSize
  BY PagesForFacts, PrefixAssumption
<1>2. n % PageSize = 0 => r * PageSize = n
  BY PagesForFull
<1> HIDE DEF r
<1>3. (r - 1) * PageSize = PageSize * r - PageSize /\ r * PageSize = PageSize * r
  BY <1>1
<1>4. (r - 1) * PageSize < n /\ n <= r * PageSize
  BY <1>1, <1>3
<1>5. PlaceOf(n) = r
  BY <1>1, <1>4, PlaceIs
<1>6. ASSUME n % PageSize = 0 PROVE SlotOf(n) = PageSize
  <2>1. n = (r - 1) * PageSize + SlotOf(n) /\ SlotOf(n) \in 1 .. PageSize
    BY <1>5, PlaceFacts
  <2> QED
    BY <1>1, <1>2, <1>3, <1>6, <2>1
<1>7. ASSUME n % PageSize # 0 PROVE n # r * PageSize
  <2>1. (r * PageSize) % PageSize = 0
    BY <1>1, MultipleOfPage
  <2> QED
    BY <1>7, <2>1
<1>8. r * PageSize \in Nat
  BY <1>1
<1> QED
  BY <1>1, <1>2, <1>4, <1>5, <1>6, <1>7, <1>8 DEF r

\* Between two page ends there is only the next one.
LEMMA PageEnd ==
    ASSUME NEW n \in Nat \ {0}, NEW i \in Nat \ {0}, n % PageSize = 0,
           (i - 1) * PageSize < n, n <= i * PageSize
    PROVE  n = i * PageSize
<1>1. PlaceOf(n) = i
  BY PlaceIs
<1> QED
  BY <1>1, LastPlace

\* The words of the words.
LEMMA FirstWords ==
    ASSUME NEW w \in Seq(Word), NEW n \in 1 .. Len(w)
    PROVE  /\ SubSeq(w, 1, n) \in Seq(Word) /\ Len(SubSeq(w, 1, n)) = n
           /\ \A k \in 1 .. n : SubSeq(SubSeq(w, 1, n), 1, k) = SubSeq(w, 1, k)
           /\ \A x \in Word : SubSeq(Append(w, x), 1, n) = SubSeq(w, 1, n)
<1> DEFINE v == SubSeq(w, 1, n)
<1>1. Len(w) \in Nat /\ \A j \in 1 .. Len(w) : w[j] \in Word
  BY LenProperties, ElementOfSeq
<1>2. v \in Seq(Word) /\ Len(v) = n /\ \A j \in 1 .. n : v[j] = w[j]
  <2>1. 1 \in 1 .. Len(w) + 1 /\ n \in 1 - 1 .. Len(w) /\ n - 1 + 1 = n
        /\ (\A j \in 1 .. n : w[j] \in Word) /\ \A j \in 1 .. n : j + 1 - 1 = j
    BY <1>1
  <2> QED
    BY <1>1, <2>1, SubSeqProperties
<1> HIDE DEF v
<1>3. ASSUME NEW k \in 1 .. n PROVE SubSeq(v, 1, k) = SubSeq(w, 1, k)
  <2>1. k \in Nat /\ 1 \in 1 .. Len(w) + 1 /\ k \in 1 - 1 .. Len(w)
        /\ 1 \in 1 .. Len(v) + 1 /\ k \in 1 - 1 .. Len(v) /\ k - 1 + 1 = k
        /\ \A j \in 1 .. k : j + 1 - 1 = j /\ j \in 1 .. n
    BY <1>1, <1>2
  <2>2. /\ SubSeq(w, 1, k) \in Seq(Word) /\ Len(SubSeq(w, 1, k)) = k
        /\ \A j \in 1 .. k : SubSeq(w, 1, k)[j] = w[j]
    BY <1>1, <2>1, SubSeqProperties
  <2>3. /\ SubSeq(v, 1, k) \in Seq(Word) /\ Len(SubSeq(v, 1, k)) = k
        /\ \A j \in 1 .. k : SubSeq(v, 1, k)[j] = v[j]
    BY <1>2, <2>1, SubSeqProperties
  <2> QED
    BY <1>2, <2>1, <2>2, <2>3, SeqEqual
<1>4. ASSUME NEW x \in Word PROVE SubSeq(Append(w, x), 1, n) = SubSeq(w, 1, n)
  <2> DEFINE y == Append(w, x)
  <2>1. y \in Seq(Word) /\ Len(y) = Len(w) + 1 /\ \A j \in 1 .. Len(w) : y[j] = w[j]
    BY AppendProperties
  <2> HIDE DEF y
  <2>2. 1 \in 1 .. Len(y) + 1 /\ n \in 1 - 1 .. Len(y) /\ n - 1 + 1 = n
        /\ \A j \in 1 .. n : j + 1 - 1 = j /\ j \in 1 .. Len(w)
    BY <1>1, <2>1
  <2>3. /\ SubSeq(y, 1, n) \in Seq(Word) /\ Len(SubSeq(y, 1, n)) = n
        /\ \A j \in 1 .. n : SubSeq(y, 1, n)[j] = y[j]
    BY <2>1, <2>2, SubSeqProperties
  <2>4. SubSeq(y, 1, n) = v
    BY <1>2, <2>1, <2>2, <2>3, SeqEqual
  <2> QED
    BY <2>4 DEF y, v
<1> QED
  BY <1>2, <1>3, <1>4 DEF v

\* A number of default_hash_ctr is no words.
LEMMA FreshIsNoWords == \A h \in FreshHash : h \notin Seq(Word)
<1> SUFFICES ASSUME NEW h \in FreshHash, h \in Seq(Word) PROVE FALSE
  OBVIOUS
<1>1. h[1] = 0 /\ Len(h) = 2
  BY DEF FreshHash
<1>2. h[1] \in Word
  BY <1>1, ElementOfSeq
<1> QED
  BY <1>1, <1>2, PrefixAssumption

\* What is known of a sequence that runs.
LEMMA RunFacts ==
    ASSUME PoolInv, NEW c \in Conv, status[c] = "running"
    PROVE  /\ words[c] \in Seq(Word) /\ Len(words[c]) \in Nat \ {0}
           /\ Reach(words[c], job[c]) \in Nat
           /\ Reach(words[c], job[c]) =
                 IF job[c] = "none" THEN Len(words[c]) - 1 ELSE Len(words[c])
           /\ pages[c] \in Seq(Page) /\ IsInjective(pages[c])
           /\ DOMAIN pages[c] = 1 .. Len(pages[c]) /\ Len(pages[c]) \in Nat
           /\ Len(pages[c]) = PagesFor(Reach(words[c], job[c]))
           /\ \A i \in 1 .. Len(pages[c]) :
                 /\ pages[c][i] \in Page /\ pages[c][i] \in ToSet(pages[c])
                 /\ gpu.ref[pages[c][i]] > 0
<1>1. Serves(gpu, status, pages, "running") /\ Fits(words[c], status[c], pages[c], job[c])
  BY DEF PoolInv
<1>2. /\ words[c] \in Seq(Word) /\ words[c] # <<>> /\ pages[c] \in Seq(Page)
      /\ IsInjective(pages[c]) /\ \A q \in ToSet(pages[c]) : q \in Page /\ gpu.ref[q] > 0
  BY <1>1, TableFacts
<1>3. Len(words[c]) \in Nat /\ Len(words[c]) > 0
  BY <1>2, LenProperties, EmptySeq
<1>4. /\ Reach(words[c], job[c]) \in Nat
      /\ Reach(words[c], job[c]) = IF job[c] = "none" THEN Len(words[c]) - 1 ELSE Len(words[c])
  BY <1>3 DEF Reach
<1>5. Len(pages[c]) = PagesFor(Reach(words[c], job[c]))
  BY <1>1 DEF Fits, Reach
<1>6. DOMAIN pages[c] = 1 .. Len(pages[c]) /\ Len(pages[c]) \in Nat
  BY <1>2, LenProperties
<1>7. \A i \in 1 .. Len(pages[c]) : pages[c][i] \in ToSet(pages[c])
  BY <1>6 DEF ToSet
<1> QED
  BY <1>2, <1>3, <1>4, <1>5, <1>6, <1>7

\* Its words up to its reach are in its table.
LEMMA WordsInTable ==
    ASSUME PoolInv, NEW c \in Conv, status[c] = "running",
           NEW k \in 1 .. Reach(words[c], job[c])
    PROVE  /\ k \in Nat \ {0} /\ k \in 1 .. Len(words[c])
           /\ PlaceOf(k) \in 1 .. Len(pages[c])
           /\ pages[c][PlaceOf(k)] \in Page /\ SlotOf(k) \in 1 .. PageSize
<1>1. /\ Reach(words[c], job[c]) \in Nat /\ Len(words[c]) \in Nat
      /\ Reach(words[c], job[c]) <= Len(words[c])
      /\ Len(pages[c]) = PagesFor(Reach(words[c], job[c]))
      /\ \A i \in 1 .. Len(pages[c]) : pages[c][i] \in Page
  BY RunFacts
<1>2. k \in Nat \ {0} /\ PlaceOf(k) \in 1 .. PagesFor(Reach(words[c], job[c]))
  BY <1>1, PlaceInTable
<1>3. SlotOf(k) \in 1 .. PageSize
  BY <1>2, PlaceFacts
<1>4. PlaceOf(k) \in 1 .. Len(pages[c]) /\ k \in 1 .. Len(words[c])
  BY <1>1, <1>2
<1> QED
  BY <1>1, <1>2, <1>3, <1>4

\* A page with words that it ends is full of words that its sequence has.
LEMMA FullPlace ==
    ASSUME NEW h, EndsPage(h), NEW w \in Seq(Word), NEW n \in Nat, NEW i \in Nat \ {0},
           PlaceFits(h, i, w, n)
    PROVE  Len(h) = i * PageSize /\ Len(h) <= n /\ h = SubSeq(w, 1, Len(h))
<1>1. h \in Seq(Word) /\ h # <<>> /\ Len(h) % PageSize = 0
  BY DEF EndsPage
<1>2. h \notin FreshHash
  BY <1>1, FreshIsNoWords
<1>3. /\ h = SubSeq(w, 1, Len(h)) /\ (i - 1) * PageSize < Len(h)
      /\ Len(h) <= i * PageSize /\ Len(h) <= n
  BY <1>2 DEF PlaceFits
<1>4. Len(h) \in Nat \ {0}
  BY <1>1, LenProperties, EmptySeq
<1> QED
  BY <1>1, <1>3, <1>4, PageEnd

\* And a place that the words go beyond is full of them.
LEMMA PastPlace ==
    ASSUME NEW h, NEW w \in Seq(Word), NEW n \in Nat, NEW i \in Nat \ {0},
           PlaceFits(h, i, w, n), i * PageSize <= n
    PROVE  EndsPage(h) /\ Len(h) = i * PageSize
<1>1. i * PageSize \in Nat /\ i * PageSize > 0
  BY PrefixAssumption
<1>2. h \in Seq(Word) /\ Len(h) = i * PageSize
  BY <1>1 DEF PlaceFits
<1>3. Len(h) % PageSize = 0
  BY <1>2, MultipleOfPage
<1>4. h # <<>>
  BY <1>1, <1>2, EmptySeq
<1> QED
  BY <1>2, <1>3, <1>4 DEF EndsPage

\* Two sequences have a page at the same place, and agree on its words.
LEMMA SamePlace ==
    ASSUME PoolInv, HashesFit(gpu, pages, status, words, job),
           NEW c \in Conv, NEW d \in Conv, status[c] = "running", status[d] = "running",
           NEW i \in 1 .. Len(pages[c]), NEW l \in 1 .. Len(pages[d]),
           pages[c][i] = pages[d][l]
    PROVE  /\ i = l
           /\ c # d => LET h == gpu.hash[pages[c][i]]
                       IN /\ h \in Seq(Word) /\ Len(h) \in Nat \ {0}
                          /\ h = SubSeq(words[c], 1, Len(h)) /\ h = SubSeq(words[d], 1, Len(h))
                          /\ Len(h) <= Len(words[c]) /\ Len(h) <= Len(words[d])
                          /\ \/ i * PageSize <= Len(h) \/ Reach(words[c], job[c]) <= Len(h)
                             \/ Reach(words[d], job[d]) <= Len(h)
<1> DEFINE a == Reach(words[c], job[c])
           b == Reach(words[d], job[d])
           h == gpu.hash[pages[c][i]]
<1>1. /\ words[c] \in Seq(Word) /\ words[d] \in Seq(Word) /\ a \in Nat /\ b \in Nat
      /\ a <= Len(words[c]) /\ b <= Len(words[d])
      /\ Len(words[c]) \in Nat /\ Len(words[d]) \in Nat
      /\ i \in Nat \ {0} /\ l \in Nat \ {0}
  <2>1. Len(pages[c]) \in Nat /\ Len(pages[d]) \in Nat
    BY RunFacts
  <2>2. i \in Nat \ {0} /\ l \in Nat \ {0}
    BY <2>1
  <2> QED
    BY <2>2, RunFacts
<1>2. CASE c = d
  <2>1. IsInjective(pages[c]) /\ DOMAIN pages[c] = 1 .. Len(pages[c])
    BY RunFacts
  <2> QED
    BY <1>2, <2>1 DEF IsInjective
<1>3. CASE c # d
  <2>1. PlaceFits(h, i, words[c], a) /\ PlaceFits(h, l, words[d], b)
    BY DEF HashesFit, TablesHashed
  <2>5. SharersHashed(gpu, pages, status, words, job)
    BY DEF HashesFit
  <2>2. h \in Seq(Word) /\ (Tight(h, i, a) \/ Tight(h, l, b))
    <3>1. \A x \in 1 .. Len(pages[c]), y \in 1 .. Len(pages[d]) : pages[c][x] = pages[d][y] =>
             /\ gpu.hash[pages[c][x]] \in Seq(Word)
             /\ \/ Tight(gpu.hash[pages[c][x]], x, Reach(words[c], job[c]))
                \/ Tight(gpu.hash[pages[c][x]], y, Reach(words[d], job[d]))
      BY <1>3, <2>5 DEF SharersHashed
    <3> QED
      BY <3>1
  <2> HIDE DEF a, b, h
  <2>6. /\ h \in Seq(Word) /\ words[c] \in Seq(Word) /\ words[d] \in Seq(Word)
        /\ a \in Nat /\ b \in Nat /\ i \in Nat \ {0} /\ l \in Nat \ {0}
    BY <1>1, <2>2
  <2>9. h \notin FreshHash
    BY <2>2, FreshIsNoWords
  <2>10. /\ h = SubSeq(words[c], 1, Len(h)) /\ (i - 1) * PageSize < Len(h)
         /\ Len(h) <= i * PageSize
         /\ h = SubSeq(words[d], 1, Len(h)) /\ (l - 1) * PageSize < Len(h)
         /\ Len(h) <= l * PageSize
    BY <2>1, <2>9 DEF PlaceFits
  <2>11. Len(h) \in Nat \ {0}
    <3>1. (i - 1) * PageSize \in Nat /\ Len(h) \in Nat
      BY <2>6, LenProperties, PrefixAssumption
    <3> QED
      BY <2>10, <3>1
  <2>12. PlaceOf(Len(h)) = i /\ PlaceOf(Len(h)) = l
    BY <2>6, <2>10, <2>11, PlaceIs
  <2>3. /\ i = l /\ h = SubSeq(words[c], 1, Len(h)) /\ h = SubSeq(words[d], 1, Len(h))
        /\ Len(h) \in Nat \ {0}
    BY <2>10, <2>11, <2>12
  <2>4. Len(h) <= a /\ Len(h) <= b
    BY <2>1, <2>2, FreshIsNoWords DEF PlaceFits
  <2>7. i * PageSize <= Len(h) \/ a <= Len(h) \/ b <= Len(h)
    BY <2>2, <2>3 DEF Tight
  <2>8. Len(h) <= Len(words[c]) /\ Len(h) <= Len(words[d])
    BY <1>1, <2>3, <2>4
  <2> QED
    BY <2>2, <2>3, <2>7, <2>8 DEF a, b, h
<1> QED
  BY <1>2, <1>3

\* So they agree on what is to be in a slot.
LEMMA WordsAgree ==
    ASSUME PoolInv, HashesFit(gpu, pages, status, words, job),
           NEW c \in Conv, NEW d \in Conv, status[c] = "running", status[d] = "running",
           NEW k \in 1 .. Reach(words[c], job[c]), NEW l \in 1 .. Reach(words[d], job[d]),
           pages[c][PlaceOf(k)] = pages[d][PlaceOf(l)], SlotOf(k) = SlotOf(l)
    PROVE  k = l /\ SubSeq(words[c], 1, k) = SubSeq(words[d], 1, l)
<1>1. /\ k \in Nat \ {0} /\ l \in Nat \ {0}
      /\ k \in 1 .. Len(words[c]) /\ l \in 1 .. Len(words[d])
      /\ PlaceOf(k) \in 1 .. Len(pages[c]) /\ PlaceOf(l) \in 1 .. Len(pages[d])
  BY WordsInTable
<1> DEFINE i == PlaceOf(k)
           h == gpu.hash[pages[c][i]]
<1>2. PlaceOf(k) = PlaceOf(l)
  BY <1>1, SamePlace
<1>3. k = l
  BY <1>1, <1>2, SameWord
<1>4. CASE c # d
  <2>1. /\ h \in Seq(Word) /\ Len(h) \in Nat \ {0}
        /\ h = SubSeq(words[c], 1, Len(h)) /\ h = SubSeq(words[d], 1, Len(h))
        /\ Len(h) <= Len(words[c]) /\ Len(h) <= Len(words[d])
        /\ \/ i * PageSize <= Len(h) \/ Reach(words[c], job[c]) <= Len(h)
           \/ Reach(words[d], job[d]) <= Len(h)
    BY <1>1, <1>4, SamePlace
  <2>2. k <= i * PageSize /\ i * PageSize \in Nat
    <3>1. i \in Nat /\ k <= i * PageSize
      BY <1>1, PlaceFacts
    <3> QED
      BY <3>1, PrefixAssumption
  <2>3. Reach(words[c], job[c]) \in Nat /\ Reach(words[d], job[d]) \in Nat
        /\ words[c] \in Seq(Word) /\ words[d] \in Seq(Word)
        /\ Len(words[c]) \in Nat /\ Len(words[d]) \in Nat
    BY RunFacts
  <2> HIDE DEF h, i
  <2>4. k \in 1 .. Len(h) /\ Len(h) \in 1 .. Len(words[c]) /\ Len(h) \in 1 .. Len(words[d])
    BY <1>1, <1>3, <2>1, <2>2, <2>3
  <2>5. /\ SubSeq(SubSeq(words[c], 1, Len(h)), 1, k) = SubSeq(words[c], 1, k)
        /\ SubSeq(SubSeq(words[d], 1, Len(h)), 1, k) = SubSeq(words[d], 1, k)
    BY <2>3, <2>4, FirstWords
  <2> QED
    BY <1>3, <2>1, <2>5
<1> QED
  BY <1>3, <1>4

\* Somebody has a page that is in use.
LEMMA HolderExists ==
    ASSUME PoolInv, NEW p \in Page, gpu.ref[p] > 0
    PROVE  \E c \in Conv : status[c] = "running" /\ \E i \in 1 .. Len(pages[c]) : pages[c][i] = p
<1>1. gpu.ref[p] = Cardinality(UsersIn(status, pages, "running", p))
  BY DEF PoolInv, Serves
<1>2. UsersIn(status, pages, "running", p) # {}
  BY <1>1, FS_EmptySet
<1>3. PICK c \in Conv : status[c] = "running" /\ p \in ToSet(pages[c])
  BY <1>2 DEF UsersIn
<1>4. \E i \in DOMAIN pages[c] : pages[c][i] = p
  BY <1>3 DEF ToSet
<1>5. DOMAIN pages[c] = 1 .. Len(pages[c])
  BY <1>3, RunFacts
<1> QED
  BY <1>3, <1>4, <1>5

\* A page with one user has no other.
LEMMA OnlyHolder ==
    ASSUME PoolInv, NEW c \in Conv, NEW d \in Conv, c # d,
           status[c] = "running", status[d] = "running",
           NEW i \in 1 .. Len(pages[c]), NEW l \in 1 .. Len(pages[d]),
           pages[c][i] = pages[d][l]
    PROVE  gpu.ref[pages[c][i]] # 1
<1> DEFINE p == pages[c][i]
<1>1. p \in Page /\ p \in ToSet(pages[c]) /\ pages[d][l] \in ToSet(pages[d])
  BY RunFacts
<1>2. Serves(gpu, status, pages, "running")
  BY DEF PoolInv
<1>3. gpu.ref[p] > In(p, HeldBy(status, pages, "running", c))
  BY <1>1, <1>2, UsersCount
<1>4. In(p, HeldBy(status, pages, "running", c)) = 1
  BY <1>1 DEF In, HeldBy
<1> QED
  BY <1>3, <1>4

\* A place is taken care of: whoever has the page as well has no word in it that
\* its hash leaves out.
SafelyAt(h, i, n) == h \in Seq(Word) /\ Tight(h, i, n)
Alone(P, S, c, p) ==
    \A d \in Conv : d # c /\ S[d] = "running" => \A l \in 1 .. Len(P[d]) : P[d][l] # p

\* The hashes fit when one sequence gets other pages, or gives them up.
LEMMA HashesMoved ==
    ASSUME NEW m, NEW P, NEW S, NEW w, NEW j, HashesFit(m, P, S, w, j), NEW c \in Conv,
           NEW z, NEW P2, NEW S2, NEW j2, Only(c, S, P, S2, P2),
           \A d \in Conv : d # c => j2[d] = j[d],
           \A d \in Conv : d # c /\ S[d] = "running" =>
               \A i \in 1 .. Len(P[d]) : z.hash[P[d][i]] = m.hash[P[d][i]],
           S2[c] = "running" =>
               \A i \in 1 .. Len(P2[c]) :
                  /\ PlaceFits(z.hash[P2[c][i]], i, w[c], Reach(w[c], j2[c]))
                  /\ \/ SafelyAt(z.hash[P2[c][i]], i, Reach(w[c], j2[c]))
                     \/ Alone(P, S, c, P2[c][i])
    PROVE  HashesFit(z, P2, S2, w, j2)
<1>1. TablesHashed(m, P, S, w, j) /\ SharersHashed(m, P, S, w, j)
  BY DEF HashesFit
<1>2. \A d \in Conv : d # c => S2[d] = S[d] /\ P2[d] = P[d] /\ j2[d] = j[d]
  BY DEF Only
<1>3. TablesHashed(z, P2, S2, w, j2)
  <2>1. ASSUME NEW d \in Conv, S2[d] = "running", NEW i \in 1 .. Len(P2[d])
        PROVE  PlaceFits(z.hash[P2[d][i]], i, w[d], Reach(w[d], j2[d]))
    <3>1. CASE d = c
      BY <2>1, <3>1
    <3>2. CASE d # c
      BY <1>1, <1>2, <2>1, <3>2 DEF TablesHashed
    <3> QED
      BY <3>1, <3>2
  <2> QED
    BY <2>1 DEF TablesHashed
<1>4. ASSUME NEW d \in Conv, NEW e \in Conv, d # e, S2[d] = "running", S2[e] = "running",
             NEW i \in 1 .. Len(P2[d]), NEW l \in 1 .. Len(P2[e]), P2[d][i] = P2[e][l]
      PROVE  /\ z.hash[P2[d][i]] \in Seq(Word)
             /\ \/ Tight(z.hash[P2[d][i]], i, Reach(w[d], j2[d]))
                \/ Tight(z.hash[P2[d][i]], l, Reach(w[e], j2[e]))
  <2>1. CASE d = c
    <3>1. ~Alone(P, S, c, P2[c][i])
      BY <1>2, <1>4, <2>1 DEF Alone
    <3>2. SafelyAt(z.hash[P2[c][i]], i, Reach(w[c], j2[c]))
      BY <1>4, <2>1, <3>1
    <3> QED
      BY <2>1, <3>2 DEF SafelyAt
  <2>2. CASE e = c
    <3>1. ~Alone(P, S, c, P2[c][l])
      BY <1>2, <1>4, <2>2 DEF Alone
    <3>2. SafelyAt(z.hash[P2[c][l]], l, Reach(w[c], j2[c]))
      BY <1>4, <2>2, <3>1
    <3> QED
      BY <1>4, <2>2, <3>2 DEF SafelyAt
  <2>3. CASE d # c /\ e # c
    <3>1. /\ S[d] = "running" /\ S[e] = "running" /\ P2[d] = P[d] /\ P2[e] = P[e]
          /\ j2[d] = j[d] /\ j2[e] = j[e]
      BY <1>2, <1>4, <2>3
    <3>2. z.hash[P2[d][i]] = m.hash[P[d][i]]
      BY <1>4, <2>3, <3>1
    <3> QED
      BY <1>1, <1>4, <3>1, <3>2 DEF SharersHashed
  <2> QED
    BY <2>1, <2>2, <2>3
<1>5. SharersHashed(z, P2, S2, w, j2)
  BY <1>4 DEF SharersHashed
<1> QED
  BY <1>3, <1>5 DEF HashesFit

-----------------------------------------------------------------------------
(* The page that append_slots has for the last word.                         *)

\* A page that nobody used, with the words of the sequence or a new number.
TakenFor(m, c, t, r, p) ==
    /\ m.ref[p] = 0 /\ ~r.m.done[p]
    /\ IF LastIsFull(c) THEN r.m.hash[p] = words[c] ELSE r.m.hash[p] \in FreshHash
    /\ r.copy = IF Len(t) = Logical(c) THEN {<<t[Logical(c)], p>>} ELSE {}

\* A page that has the words.
FoundFor(m, c, t, r, p) ==
    /\ LastIsFull(c) /\ p \in 1 .. m.made /\ m.hash[p] = words[c]
    /\ r.m.hash[p] = words[c] /\ r.m.done[p] = m.done[p]
    /\ r.copy \subseteq {<<t[Logical(c)], p>>}
    /\ Len(t) # Logical(c) => r.copy = {}

\* Its own page, which has the words now if it is full.
KeptFor(m, c, t, r, p) ==
    /\ Len(t) = Logical(c) /\ p = t[Logical(c)] /\ m.ref[p] = 1
    /\ r.m.done[p] = m.done[p] /\ r.copy = {}
    /\ r.m.hash[p] = IF LastIsFull(c) THEN words[c] ELSE m.hash[p]

\* The page is p, and no other page changes its hash.
LastPageIs(m, c, t, r, p) ==
    /\ p \in Page
    /\ \A q \in Page : q # p => r.m.hash[q] = m.hash[q] /\ r.m.done[q] = m.done[q]
    /\ r.t = IF Len(t) = Logical(c) THEN [t EXCEPT ![Len(t)] = p] ELSE Append(t, p)
    /\ TakenFor(m, c, t, r, p) \/ FoundFor(m, c, t, r, p) \/ KeptFor(m, c, t, r, p)

\* The page comes from allocate.
LEMMA TakenOrFound ==
    ASSUME NEW m, NEW c \in Conv, NEW t, NEW h, NEW z, TookLast(m, c, t, h, z),
           NEW r, r.m.hash = z.m.hash, r.m.done = z.m.done,
           r.t = IF Len(t) = Logical(c) THEN [t EXCEPT ![Len(t)] = z.page]
                 ELSE Append(t, z.page),
           r.copy = IF Len(t) = Logical(c) THEN {<<t[Logical(c)], z.page>>} ELSE {}
    PROVE  LastPageIs(m, c, t, r, z.page)
<1> DEFINE p == z.page
<1>1. /\ Took(m, h, z)
      /\ IF LastIsFull(c) THEN h = words[c] ELSE h \in FreshHash /\ ~Known(m, h)
  BY DEF TookLast
<1>2. /\ p \in Page /\ z.m.hash[p] = h
      /\ \A q \in Page : q # p => z.m.hash[q] = m.hash[q] /\ z.m.done[q] = m.done[q]
  BY <1>1 DEF Took
<1>3. IF Known(m, h)
      THEN p \in 1 .. m.made /\ m.hash[p] = h /\ z.m.done[p] = m.done[p]
      ELSE m.ref[p] = 0 /\ ~z.m.done[p]
  BY <1>1 DEF Took
<1> HIDE DEF p
<1>4. CASE Known(m, h)
  <2>1. LastIsFull(c) /\ h = words[c]
    BY <1>1, <1>4
  <2>2. r.m.hash[p] = words[c] /\ r.m.done[p] = m.done[p] /\ m.hash[p] = words[c] /\ p \in 1 .. m.made
    BY <1>2, <1>3, <1>4, <2>1
  <2>3. FoundFor(m, c, t, r, p)
    BY <2>1, <2>2 DEF FoundFor, p
  <2> QED
    BY <1>2, <2>3 DEF LastPageIs, p
<1>5. CASE ~Known(m, h)
  <2>1. m.ref[p] = 0 /\ ~r.m.done[p] /\ r.m.hash[p] = h
    BY <1>2, <1>3, <1>5
  <2>2. TakenFor(m, c, t, r, p)
    BY <1>1, <2>1 DEF TakenFor, p
  <2> QED
    BY <1>2, <2>2 DEF LastPageIs, p
<1> QED
  BY <1>4, <1>5

LEMMA AppendFirstHow ==
    ASSUME NEW m, NEW c \in Conv, NEW t, MayAppend(m, c, t), Len(t) < Logical(c)
    PROVE  \E p : LastPageIs(m, c, t, AppendWord(m, c, t), p)
<1> DEFINE z == AllocateLast(m, c)
           r == AppendWord(m, c, t)
<1>1. PICK h \in Hash : TookLast(m, c, t, h, z)
  BY AllocateLastFacts
<1>2. r = [m |-> z.m, t |-> Append(t, z.page), copy |-> {}, ok |-> z.ok]
  BY DEF AppendWord
<1> HIDE DEF z, r
<1>3. r.m = z.m /\ r.t = Append(t, z.page) /\ r.copy = {}
  BY <1>2
<1>4. Len(t) # Logical(c)
  <2>1. Logical(c) \in Nat /\ Len(t) \in Nat
    BY HashOfBlockFacts, LenProperties DEF MayAppend
  <2> QED
    BY <2>1
<1>5. LastPageIs(m, c, t, r, z.page)
  BY <1>1, <1>3, <1>4, TakenOrFound
<1> QED
  BY <1>5 DEF r

LEMMA AppendCopiedHow ==
    ASSUME NEW m, NEW c \in Conv, NEW t, MayAppend(m, c, t), Len(t) = Logical(c),
           m.ref[Last(t)] # 1
    PROVE  \E p : LastPageIs(m, c, t, AppendWord(m, c, t), p)
<1> DEFINE z == AllocateLast(m, c)
           q == Last(t)
           f == FreePage(z.m, q)
           r == AppendWord(m, c, t)
<1>1. PICK h \in Hash : TookLast(m, c, t, h, z)
  BY AllocateLastFacts
<1>2. /\ t \in Seq(Page) /\ Sound(m) /\ Logical(c) \in Nat \ {0} /\ \A x \in ToSet(t) : m.ref[x] > 0
  BY HashOfBlockFacts DEF MayAppend
<1>3. q = t[Logical(c)] /\ q \in Page /\ q \in ToSet(t)
  <2>1. DOMAIN t = 1 .. Len(t) /\ Logical(c) \in 1 .. Len(t)
    BY <1>2, LenProperties
  <2>2. q = t[Logical(c)]
    BY DEF Last
  <2> QED
    BY <1>2, <2>1, <2>2, ElementOfSeq DEF ToSet
<1>4. r = [m |-> f.m, t |-> [t EXCEPT ![Len(t)] = z.page], copy |-> {<<q, z.page>>},
           ok |-> z.ok /\ f.ok]
  <2>1. ~(Len(t) < Logical(c))
    BY <1>2
  <2> QED
    BY <2>1 DEF AppendWord
<1> HIDE DEF z, r, q
<1>5. GaveBack(z.m, q, f)
  <2>1. Sound(z.m) /\ z.m.ref = [m.ref EXCEPT ![z.page] = @ + 1]
    BY <1>1 DEF TookLast, Took
  <2>2. m.ref \in [Page -> Nat]
    BY <1>2, PoolFields
  <2>3. z.m.ref[q] > 0
    BY <1>2, <1>3, <2>1, <2>2
  <2> QED
    BY <1>3, <2>1, <2>3, GivePage
<1> HIDE DEF f
<1>6. /\ r.m = f.m /\ r.t = [t EXCEPT ![Len(t)] = z.page]
      /\ r.copy = {<<t[Logical(c)], z.page>>}
  BY <1>3, <1>4
<1>7. r.m.hash = z.m.hash /\ r.m.done = z.m.done
  BY <1>5, <1>6 DEF GaveBack
<1>8. LastPageIs(m, c, t, r, z.page)
  BY <1>1, <1>6, <1>7, TakenOrFound
<1> QED
  BY <1>8 DEF r

LEMMA AppendPromotedHow ==
    ASSUME NEW m, NEW c \in Conv, NEW t, MayAppend(m, c, t), Len(t) = Logical(c),
           m.ref[Last(t)] = 1
    PROVE  \E p : LastPageIs(m, c, t, AppendWord(m, c, t), p)
<1> DEFINE q == Last(t)
           h == HashOfBlock(c, Logical(c))
           f == FreePage(m, q)
           a == AllocatePage(f.m, h, 0)
           z == Promoted(m, c, q)
           r == AppendWord(m, c, t)
<1>1. /\ t \in Seq(Page) /\ Sound(m) /\ words[c] \in Seq(Word) /\ words[c] # <<>>
      /\ Logical(c) \in Nat \ {0}
  BY HashOfBlockFacts DEF MayAppend
<1>2. h \in Hash /\ h = words[c]
  <2>1. Logical(c) \in 1 .. Logical(c)
    BY <1>1
  <2> QED
    BY <1>1, <2>1, HashOfBlockFacts
<1>3. q = t[Logical(c)] /\ q \in Page /\ m.ref[q] = 1
  <2>1. DOMAIN t = 1 .. Len(t) /\ Logical(c) \in 1 .. Len(t)
    BY <1>1, LenProperties
  <2>2. q = t[Logical(c)]
    BY DEF Last
  <2> QED
    BY <1>1, <2>1, <2>2, ElementOfSeq
<1>4. r = [m |-> z.m, t |-> [t EXCEPT ![Len(t)] = z.page], copy |-> {}, ok |-> z.ok]
  <2>1. ~(Len(t) < Logical(c))
    BY <1>1
  <2> QED
    BY <2>1 DEF AppendWord
<1>5. r.m = z.m /\ r.t = [t EXCEPT ![Len(t)] = z.page] /\ r.copy = {}
  <2> HIDE DEF z, r
  <2> QED
    BY <1>4
<1> HIDE DEF r
<1>6. CASE ~LastIsFull(c)
  <2>1. z = [m |-> m, page |-> q, ok |-> TRUE]
    BY <1>6 DEF Promoted
  <2>2. z.m = m /\ z.page = q
    <3> HIDE DEF z, q
    <3> QED
      BY <2>1
  <2> HIDE DEF z, q
  <2>3. KeptFor(m, c, t, r, q)
    BY <1>3, <1>5, <1>6, <2>2 DEF KeptFor
  <2>4. LastPageIs(m, c, t, r, q)
    BY <1>3, <1>5, <2>2, <2>3 DEF LastPageIs
  <2> QED
    BY <2>4 DEF r
<1>7. CASE LastIsFull(c) /\ ~Known(m, h)
  <2>1. z = UpdateHash(m, q, h)
    BY <1>7 DEF Promoted
  <2>2. z.page = q /\ z.m.done = m.done /\ z.m.hash = [m.hash EXCEPT ![q] = h]
    <3>1. m.ref[q] > 0
      BY <1>3
    <3> HIDE DEF z, q, h
    <3> QED
      BY <1>1, <1>2, <1>3, <1>7, <2>1, <3>1, UpdatePage
  <2> HIDE DEF z, q, h
  <2>3. z.m.hash[q] = h /\ \A x \in Page : x # q => z.m.hash[x] = m.hash[x]
    <3>1. m.hash \in [Page -> Hash]
      BY <1>1, PoolFields
    <3> QED
      BY <1>3, <2>2, <3>1
  <2>4. KeptFor(m, c, t, r, q)
    BY <1>2, <1>3, <1>5, <1>7, <2>2, <2>3 DEF KeptFor
  <2>5. LastPageIs(m, c, t, r, q)
    BY <1>3, <1>5, <2>2, <2>3, <2>4 DEF LastPageIs
  <2> QED
    BY <2>5 DEF r
<1>8. CASE LastIsFull(c) /\ Known(m, h)
  <2>1. z = [m |-> a.m, page |-> a.page, ok |-> f.ok /\ a.ok]
    BY <1>8 DEF Promoted
  <2>2. z.m = a.m /\ z.page = a.page
    <3> HIDE DEF z, a, f
    <3> QED
      BY <2>1
  <2>3. GaveBack(m, q, f)
    <3>1. m.ref[q] > 0
      BY <1>3
    <3> HIDE DEF q
    <3> QED
      BY <1>1, <1>3, <3>1, GivePage
  <2> DEFINE g == f.m
  <2>4. Sound(g) /\ g.made = m.made /\ g.hash = m.hash /\ g.done = m.done
    BY <2>3 DEF GaveBack
  <2> HIDE DEF f, q, h
  <2>5. Known(g, h)
    BY <1>1, <1>8, <2>4, KnownFacts
  <2>6. Took(g, h, a)
    BY <1>2, <2>4, <2>5, TakePage
  <2> HIDE DEF g, a, z
  <2> DEFINE p == a.page
  <2>7. /\ p \in Page /\ a.m.hash[p] = h /\ g.hash[p] = h /\ a.m.done[p] = g.done[p]
        /\ p \in 1 .. g.made
        /\ \A x \in Page : x # p => a.m.hash[x] = g.hash[x] /\ a.m.done[x] = g.done[x]
    BY <2>5, <2>6 DEF Took
  <2> HIDE DEF p
  <2>8. FoundFor(m, c, t, r, p)
    BY <1>2, <1>5, <1>8, <2>2, <2>4, <2>7 DEF FoundFor
  <2>9. LastPageIs(m, c, t, r, p)
    BY <1>5, <2>2, <2>4, <2>7, <2>8 DEF LastPageIs, p
  <2> QED
    BY <2>9 DEF r
<1> QED
  BY <1>6, <1>7, <1>8

LEMMA AppendWordHow ==
    ASSUME NEW m, NEW c \in Conv, NEW t, MayAppend(m, c, t)
    PROVE  \E p : LastPageIs(m, c, t, AppendWord(m, c, t), p)
<1>1. Logical(c) \in Nat /\ (Len(t) = Logical(c) \/ Len(t) = Logical(c) - 1)
  BY HashOfBlockFacts DEF MayAppend
<1>2. Len(t) < Logical(c) \/ Len(t) = Logical(c)
  BY <1>1
<1> QED
  BY <1>2, AppendFirstHow, AppendPromotedHow, AppendCopiedHow

-----------------------------------------------------------------------------
(* The steps of one sequence.                                                *)

\* A step in which only sequence c changes, and no page's contents.
OnlyOf(c) ==
    /\ Only(c, status, pages, status', pages') /\ kv' = kv
    /\ \A d \in Conv : d # c => job'[d] = job[d] /\ words'[d] = words[d]

\* What the others have computed is where it was.
LEMMA ResultsKept ==
    ASSUME ResultsHeld, NEW c \in Conv, OnlyOf(c),
           status'[c] = "running" /\ job'[c] \in {"none", "sampled"} =>
               \A k \in 1 .. Reach(words'[c], job'[c]) :
                   Holds(kv["gpu"], pages'[c][PlaceOf(k)], words'[c], k)
    PROVE  ResultsHeld'
<1>1. ASSUME NEW d \in Conv, status'[d] = "running", job'[d] \in {"none", "sampled"},
             NEW k \in 1 .. Reach(words'[d], job'[d])
      PROVE  Holds(kv'["gpu"], pages'[d][PlaceOf(k)], words'[d], k)
  <2>1. kv' = kv
    BY DEF OnlyOf
  <2>2. CASE d = c
    BY <1>1, <2>1, <2>2
  <2>3. CASE d # c
    <3>1. /\ status'[d] = status[d] /\ pages'[d] = pages[d]
          /\ job'[d] = job[d] /\ words'[d] = words[d]
      BY <2>3 DEF OnlyOf, Only
    <3> QED
      BY <1>1, <2>1, <3>1 DEF ResultsHeld
  <2> QED
    BY <2>2, <2>3
<1> QED
  BY <1>1 DEF ResultsHeld

LEMMA SlotsKept ==
    ASSUME SlotsAwait, NEW c \in Conv, OnlyOf(c), moves.copy \subseteq moves'.copy,
           status'[c] = "running" /\ job'[c] = "decode" =>
               \A k \in 1 .. Len(words'[c]) - 1 :
                   \/ Holds(kv["gpu"], pages'[c][PlaceOf(k)], words'[c], k)
                   \/ \E mv \in moves'.copy : mv[2] = pages'[c][PlaceOf(k)]
    PROVE  SlotsAwait'
<1>1. ASSUME NEW d \in Conv, status'[d] = "running", job'[d] = "decode",
             NEW k \in 1 .. Len(words'[d]) - 1
      PROVE  \/ Holds(kv'["gpu"], pages'[d][PlaceOf(k)], words'[d], k)
             \/ \E mv \in moves'.copy : mv[2] = pages'[d][PlaceOf(k)]
  <2>1. kv' = kv
    BY DEF OnlyOf
  <2>2. CASE d = c
    BY <1>1, <2>1, <2>2
  <2>3. CASE d # c
    <3>1. /\ status'[d] = status[d] /\ pages'[d] = pages[d]
          /\ job'[d] = job[d] /\ words'[d] = words[d]
      BY <2>3 DEF OnlyOf, Only
    <3>2. \/ Holds(kv["gpu"], pages[d][PlaceOf(k)], words[d], k)
          \/ \E mv \in moves.copy : mv[2] = pages[d][PlaceOf(k)]
      BY <1>1, <3>1 DEF SlotsAwait, CopyTo
    <3> QED
      BY <2>1, <3>1, <3>2
  <2> QED
    BY <2>2, <2>3
<1> QED
  BY <1>1 DEF SlotsAwait, CopyTo

\* So are the pages that are to be copied.
LEMMA CopiesKept ==
    ASSUME PoolInv, NEW c \in Conv, OnlyOf(c), job[c] # "decode", NEW mv, NEW e \in Conv,
           CopyFits(mv, e),
           \A d \in Conv : d # c /\ status[d] = "running" =>
               \A i \in 1 .. Len(pages[d]) : gpu'.hash[pages[d][i]] = gpu.hash[pages[d][i]]
    PROVE  CopyFits(mv, e)'
<1>1. /\ status[e] = "running" /\ job[e] = "decode" /\ mv[1] \in Page
      /\ mv[2] = pages[e][Logical(e)]
      /\ gpu.hash[mv[2]] \in FreshHash \/ Len(words[e]) % PageSize = 0
  BY DEF CopyFits
<1>2. \A k \in 1 .. Len(words[e]) - 1 :
         PlaceOf(k) = Logical(e) => Holds(kv["gpu"], mv[1], words[e], k)
  BY DEF CopyFits
<1>3. e # c
  BY <1>1
<1>4. /\ status'[e] = status[e] /\ pages'[e] = pages[e] /\ kv' = kv
      /\ job'[e] = job[e] /\ words'[e] = words[e]
  BY <1>3 DEF OnlyOf, Only
<1>5. Logical(e)' = Logical(e)
  BY <1>4 DEF Logical
<1>6. gpu'.hash[mv[2]] = gpu.hash[mv[2]]
  <2>1. Logical(e) \in 1 .. Len(pages[e])
    <3>1. Len(pages[e]) = PagesFor(Len(words[e])) /\ Len(words[e]) \in Nat \ {0}
      BY <1>1, RunFacts
    <3>2. Logical(e) = PagesFor(Len(words[e]))
      BY DEF Logical, PagesFor
    <3> QED
      BY <3>1, <3>2, LastPlace
  <2> QED
    BY <1>1, <1>3, <2>1
<1>7. gpu'.hash[mv[2]] \in FreshHash \/ Len(words'[e]) % PageSize = 0
  BY <1>1, <1>4, <1>6
<1>8. \A k \in 1 .. Len(words'[e]) - 1 :
         PlaceOf(k) = Logical(e)' => Holds(kv'["gpu"], mv[1], words'[e], k)
  BY <1>2, <1>4, <1>5
<1> QED
  BY <1>1, <1>4, <1>5, <1>7, <1>8 DEF CopyFits

\* The jobs of the others.
LEMMA OneWayKept ==
    ASSUME OneWay, NEW c \in Conv, \A d \in Conv : d # c => job'[d] = job[d],
           \A d \in Conv : d # c => status'[d] = status[d],
           moves' = [out |-> {}, in |-> {}, copy |-> moves'.copy], status'[c] # "swapped",
           job'[c] = "prompt" => ~Doing("decode"),
           job'[c] = "decode" => ~Doing("prompt"),
           job[c] # "decode",
           moves'.copy = moves.copy \/ job'[c] = "decode"
    PROVE  OneWay'
<1>1. \A d \in Conv : status'[d] # "swapped"
  BY DEF OneWay
<1>2. ~(Doing("prompt") /\ Doing("decode"))'
  BY DEF OneWay, Doing
<1>3. ~Doing("decode")' => moves'.copy = {}
  BY DEF OneWay, Doing
<1> QED
  BY <1>1, <1>2, <1>3 DEF OneWay

\* Before the first step there is nothing.
LEMMA KVInit == ASSUME PrefixInit PROVE KVInv
<1>1. /\ \A c \in Conv : status[c] = "waiting" /\ job[c] = "none"
      /\ moves = NoMoves /\ \E n \in GpuSizes : gpu = EmptyPool(n)
  BY DEF PrefixInit
<1>2. OneWay
  <2>1. moves.copy = {}
    BY <1>1 DEF NoMoves
  <2> QED
    BY <1>1, <2>1 DEF OneWay, NoMoves, Doing
<1>3. HashesFit(gpu, pages, status, words, job)
  BY <1>1 DEF HashesFit, TablesHashed, SharersHashed
<1>4. ResultsHeld /\ SlotsAwait
  BY <1>1 DEF ResultsHeld, SlotsAwait
<1>5. CopiesFit
  BY <1>1 DEF CopiesFit, NoMoves
<1>6. \A p \in Page : gpu.hash[p] = <<>> /\ ~gpu.done[p]
  BY <1>1 DEF EmptyPool
<1>7. CachedHeld
  BY <1>6 DEF CachedHeld, EndsPage
<1> QED
  BY <1>2, <1>3, <1>4, <1>5, <1>7 DEF KVInv, KVParts

\* The next word.
LEMMA KVSample ==
    ASSUME PoolInv, KVParts, NEW c \in Conv, NEW x \in Word, Sample(c, x)
    PROVE  KVParts'
<1> DEFINE w == words[c]
           v == Append(words[c], x)
<1>1. /\ job[c] = "sampled" /\ words' = [words EXCEPT ![c] = v]
      /\ job' = [job EXCEPT ![c] = "none"] /\ gpu' = gpu /\ moves' = moves
      /\ status' = status /\ pages' = pages /\ kv' = kv
  BY DEF Sample
<1>2. /\ OneWay /\ HashesFit(gpu, pages, status, words, job)
      /\ ResultsHeld /\ SlotsAwait /\ CopiesFit /\ CachedHeld
  BY DEF KVParts
<1>3. /\ words \in [Conv -> Seq(Word)]
      /\ status \in [Conv -> {"waiting", "running", "swapped", "gone"}]
      /\ job \in [Conv -> {"none", "out", "prompt", "decode", "sampled"}]
      /\ Fits(words[c], status[c], pages[c], job[c])
  BY DEF PoolInv, ConvTypes
<1>4. status[c] = "running"
  BY <1>1, <1>3 DEF Fits
<1>5. /\ w \in Seq(Word) /\ v \in Seq(Word) /\ Len(v) = Len(w) + 1 /\ Len(w) \in Nat
  BY <1>3, AppendProperties, LenProperties
<1>6. /\ words'[c] = v /\ job'[c] = "none"
      /\ \A d \in Conv : d # c => words'[d] = words[d] /\ job'[d] = job[d]
  BY <1>1, <1>3
<1>7. OnlyOf(c)
  BY <1>1, <1>6 DEF OnlyOf, Only
<1>8. Reach(v, "none") = Len(w) /\ Reach(w, "sampled") = Len(w)
  BY <1>5 DEF Reach
<1>9. \A k \in 1 .. Len(w) : SubSeq(v, 1, k) = SubSeq(w, 1, k)
  BY <1>5, FirstWords
<1> HIDE DEF v
<1>10. OneWay'
  <2>1. moves' = [out |-> {}, in |-> {}, copy |-> moves'.copy]
    BY <1>1, <1>2 DEF OneWay
  <2> QED
    BY <1>1, <1>2, <1>4, <1>6, <2>1, OneWayKept
<1>11. HashesFit(gpu', pages', status', words', job')
  <2>1. TablesHashed(gpu, pages, status, words, job) /\ SharersHashed(gpu, pages, status, words, job)
    BY <1>2 DEF HashesFit
  <2>2. \A d \in Conv : Reach(words'[d], job'[d]) = Reach(words[d], job[d])
    BY <1>1, <1>6, <1>8
  <2>3. SharersHashed(gpu', pages', status', words', job')
    BY <1>1, <2>1, <2>2 DEF SharersHashed
  <2>4. ASSUME NEW d \in Conv, status[d] = "running", NEW i \in 1 .. Len(pages[d])
        PROVE  PlaceFits(gpu.hash[pages[d][i]], i, words'[d], Reach(words'[d], job'[d]))
    <3> DEFINE h == gpu.hash[pages[d][i]]
               n == Reach(words[d], job[d])
    <3>1. PlaceFits(h, i, words[d], n)
      BY <2>1, <2>4 DEF TablesHashed
    <3>2. CASE d # c
      BY <1>6, <3>1, <3>2
    <3>3. CASE d = c
      <4>1. n = Len(w) /\ words'[d] = v /\ Reach(words'[d], job'[d]) = n
        BY <1>1, <1>6, <1>8, <2>2, <3>3
      <4> HIDE DEF n, h
      <4>2. CASE h \in FreshHash /\ n < i * PageSize
        BY <4>1, <4>2 DEF PlaceFits, h
      <4>3. CASE ~(h \in FreshHash /\ n < i * PageSize)
        <5>1. /\ h \in Seq(Word) /\ h = SubSeq(w, 1, Len(h)) /\ (i - 1) * PageSize < Len(h)
              /\ Len(h) <= i * PageSize /\ Len(h) <= n
              /\ i * PageSize <= n => Len(h) = i * PageSize
          BY <3>1, <3>3, <4>3 DEF PlaceFits
        <5>2. Len(h) \in 1 .. Len(w)
          <6>1. (i - 1) * PageSize \in Nat
            <7>1. Len(pages[d]) \in Nat /\ PageSize \in Nat
              BY <2>4, RunFacts, PrefixAssumption
            <7>2. i - 1 \in Nat
              BY <7>1
            <7> QED
              BY <7>1, <7>2
          <6>2. Len(h) \in Nat
            BY <5>1, LenProperties
          <6> QED
            BY <1>5, <4>1, <5>1, <6>1, <6>2
        <5>3. h = SubSeq(v, 1, Len(h))
          BY <1>9, <5>1, <5>2
        <5> QED
          BY <4>1, <5>1, <5>3 DEF PlaceFits, h
      <4> QED
        BY <4>2, <4>3
    <3> QED
      BY <3>2, <3>3
  <2>5. TablesHashed(gpu', pages', status', words', job')
    BY <1>1, <2>4 DEF TablesHashed
  <2> QED
    BY <2>3, <2>5 DEF HashesFit
<1>12. ResultsHeld'
  <2>1. \A k \in 1 .. Len(w) : Holds(kv["gpu"], pages[c][PlaceOf(k)], w, k)
    BY <1>1, <1>2, <1>4, <1>8 DEF ResultsHeld
  <2>2. \A k \in 1 .. Len(w) : Holds(kv["gpu"], pages[c][PlaceOf(k)], v, k)
    BY <1>9, <2>1 DEF Holds
  <2>3. \A k \in 1 .. Reach(words'[c], job'[c]) :
           Holds(kv["gpu"], pages'[c][PlaceOf(k)], words'[c], k)
    BY <1>1, <1>6, <1>8, <2>2
  <2> QED
    BY <1>2, <1>7, <2>3, ResultsKept
<1>13. SlotsAwait'
  BY <1>1, <1>2, <1>6, <1>7, SlotsKept
<1>14. CopiesFit'
  <2>1. ASSUME NEW mv \in moves.copy PROVE \E e \in Conv : CopyFits(mv, e)'
    <3>1. PICK e \in Conv : CopyFits(mv, e)
      BY <1>2 DEF CopiesFit
    <3>2. CopyFits(mv, e)'
      BY <1>1, <1>7, <3>1, CopiesKept
    <3> QED
      BY <3>2
  <2> QED
    BY <1>1, <2>1 DEF CopiesFit
<1>15. CachedHeld'
  BY <1>1, <1>2 DEF CachedHeld
<1> QED
  BY <1>10, <1>11, <1>12, <1>13, <1>14, <1>15 DEF KVParts

\* A recomputation, an abort or an end: what stays behind in the cache is what
\* its hashes say.
LEMMA KVDrop ==
    ASSUME PoolInv, KVParts, NEW c \in Conv, NEW to \in {"waiting", "gone"},
           DropPages(c, to), job[c] \in {"none", "sampled"}
    PROVE  KVParts'
<1> DEFINE t == pages[c]
<1>1. /\ OneWay /\ HashesFit(gpu, pages, status, words, job)
      /\ ResultsHeld /\ SlotsAwait /\ CopiesFit /\ CachedHeld
  BY DEF KVParts
<1>2. /\ Assigned(c, to, <<>>, "none") /\ kv' = kv /\ moves' = moves
      /\ GivenUp(gpu, ToSet(t), gpu')
  <2>1. status[c] # "swapped"
    BY <1>1 DEF OneWay
  <2>2. kv' = kv /\ moves' = moves
    BY DEF DropPages
  <2> QED
    BY <2>1, <2>2, DropGives
<1>3. ConvTypes /\ Sound(gpu) /\ Fits(words[c], status[c], t, job[c])
  BY DEF PoolInv, Serves
<1>4. /\ status'[c] = to /\ job'[c] = "none" /\ words' = words
      /\ \A d \in Conv : d # c => /\ status'[d] = status[d] /\ pages'[d] = pages[d]
                                  /\ job'[d] = job[d]
  BY <1>2, <1>3 DEF Assigned, ConvTypes
<1>5. OnlyOf(c) /\ Only(c, status, pages, status', pages')
  BY <1>2, <1>4 DEF OnlyOf, Only
<1>6. /\ gpu'.hash = gpu.hash /\ gpu'.done = gpu.done
      /\ \A q \in Page : gpu'.ref[q] = gpu.ref[q] - In(q, ToSet(t))
  BY <1>2 DEF GivenUp
<1>7. OneWay'
  <2>1. moves' = [out |-> {}, in |-> {}, copy |-> moves'.copy]
    BY <1>1, <1>2 DEF OneWay
  <2> QED
    BY <1>1, <1>2, <1>4, <2>1, OneWayKept
<1>8. HashesFit(gpu', pages', status', words', job')
  BY <1>1, <1>4, <1>5, <1>6, HashesMoved
<1>9. ResultsHeld' /\ SlotsAwait'
  BY <1>1, <1>2, <1>4, <1>5, ResultsKept, SlotsKept
<1>10. CopiesFit'
  <2>1. ASSUME NEW mv \in moves.copy PROVE \E e \in Conv : CopyFits(mv, e)'
    <3>1. PICK e \in Conv : CopyFits(mv, e)
      BY <1>1 DEF CopiesFit
    <3>2. CopyFits(mv, e)'
      BY <1>5, <1>6, <3>1, CopiesKept
    <3> QED
      BY <3>2
  <2> QED
    BY <1>2, <2>1 DEF CopiesFit
<1>11. ASSUME NEW q \in Page, EndsPage(gpu.hash[q]), q \in ToSet(t)
       PROVE  HoldsPage(kv["gpu"], q, gpu.hash[q])
  <2> DEFINE h == gpu.hash[q]
             w == words[c]
             n == Reach(words[c], job[c])
  <2>1. status[c] = "running"
    <3>1. t # <<>>
      BY <1>11, EmptyElems
    <3> QED
      BY <1>1, <1>3, <3>1 DEF Fits, OneWay, ConvTypes
  <2>2. /\ w \in Seq(Word) /\ n \in Nat /\ n <= Len(w) /\ Len(w) \in Nat
        /\ DOMAIN t = 1 .. Len(t) /\ Len(t) \in Nat
    BY <2>1, RunFacts
  <2>3. PICK i \in 1 .. Len(t) : t[i] = q
    BY <1>11, <2>2 DEF ToSet
  <2>4. PlaceFits(h, i, w, n) /\ i \in Nat \ {0}
    BY <1>1, <2>1, <2>2, <2>3 DEF HashesFit, TablesHashed
  <2>5. \A k \in 1 .. n : Holds(kv["gpu"], t[PlaceOf(k)], w, k)
    BY <1>1, <2>1 DEF ResultsHeld
  <2> HIDE DEF h, w, n
  <2>6. Len(h) = i * PageSize /\ Len(h) <= n /\ h = SubSeq(w, 1, Len(h))
    BY <1>11, <2>2, <2>4, FullPlace DEF h
  <2>7. /\ PageSize \in Nat \ {0} /\ i * PageSize \in Nat /\ i * PageSize >= PageSize
        /\ (i - 1) * PageSize = i * PageSize - PageSize
    <3>1. PageSize \in Nat \ {0}
      BY PrefixAssumption
    <3>2. (i - 1) * PageSize \in Nat /\ (i - 1) * PageSize = i * PageSize - PageSize
      BY <2>4, <3>1
    <3> QED
      BY <2>4, <3>1, <3>2
  <2>8. ASSUME NEW k \in Len(h) - PageSize + 1 .. Len(h)
        PROVE  Holds(kv["gpu"], q, h, k)
    <3>1. /\ k \in Nat \ {0} /\ k \in 1 .. n /\ k \in 1 .. Len(h) /\ Len(h) \in 1 .. Len(w)
          /\ (i - 1) * PageSize < k /\ k <= i * PageSize
      BY <2>2, <2>6, <2>7
    <3>2. PlaceOf(k) = i
      BY <2>4, <3>1, PlaceIs
    <3>3. Holds(kv["gpu"], q, w, k)
      BY <2>3, <2>5, <3>1, <3>2
    <3>4. SubSeq(h, 1, k) = SubSeq(w, 1, k)
      <4>1. SubSeq(SubSeq(w, 1, Len(h)), 1, k) = SubSeq(w, 1, k)
        BY <2>2, <3>1, FirstWords
      <4> QED
        BY <2>6, <4>1
    <3> QED
      BY <3>3, <3>4 DEF Holds
  <2> QED
    BY <2>8 DEF HoldsPage, h
<1>12. CachedHeld'
  <2>1. ASSUME NEW q \in Page, EndsPage(gpu.hash[q]), gpu.done[q] \/ gpu'.ref[q] = 0
        PROVE  HoldsPage(kv["gpu"], q, gpu.hash[q])
    <3>1. CASE q \in ToSet(t)
      BY <1>11, <2>1, <3>1
    <3>2. CASE q \notin ToSet(t)
      <4>1. gpu.ref[q] \in Nat /\ In(q, ToSet(t)) = 0
        BY <1>3, <3>2, PoolFields DEF In
      <4>2. gpu'.ref[q] = gpu.ref[q]
        BY <1>6, <4>1
      <4> QED
        BY <1>1, <2>1, <4>2 DEF CachedHeld
    <3> QED
      BY <3>1, <3>2
  <2>2. \A q \in Page : gpu.done[q] => EndsPage(gpu.hash[q])
    BY <1>1 DEF CachedHeld
  <2> QED
    BY <1>2, <1>6, <2>1, <2>2 DEF CachedHeld
<1> QED
  BY <1>7, <1>8, <1>9, <1>10, <1>12 DEF KVParts

\* The pages of a prompt.
LEMMA KVAdmit ==
    ASSUME PoolInv, KVParts, ~swaps, NEW c \in Conv, Admit(c)
    PROVE  KVParts'
<1> DEFINE n == Logical(c)
           w == words[c]
<1>1. /\ OneWay /\ HashesFit(gpu, pages, status, words, job)
      /\ ResultsHeld /\ SlotsAwait /\ CopiesFit /\ CachedHeld
  BY DEF KVParts
<1>2. /\ status[c] = "waiting" /\ ~Doing("decode") /\ kv' = kv /\ moves' = moves
  BY DEF Admit
<1>3. PICK hs, r : AdmitsBy(c, hs, r)
  BY AdmitTakes
<1>4. /\ hs \in Seq(Hash) /\ Len(hs) = n /\ AllTook(gpu, hs, Len(hs), r)
      /\ gpu' = r.m /\ Assigned(c, "running", r.t, "prompt")
      /\ \A i \in 1 .. n : hs[i] = HashOfBlock(c, i)
  BY <1>3 DEF AdmitsBy
<1>5. /\ ConvTypes /\ Sound(gpu) /\ Fits(words[c], status[c], pages[c], job[c])
      /\ w \in Seq(Word) /\ w # <<>>
  BY DEF PoolInv, Serves, ConvTypes, Fits
<1>6. Len(w) \in Nat \ {0} /\ n = PagesFor(Len(w)) /\ PageSize \in Nat \ {0}
  BY <1>5, LenProperties, EmptySeq, PrefixAssumption DEF Logical, PagesFor
<1>7. n \in Nat \ {0} /\ Len(w) <= n * PageSize /\ (n - 1) * PageSize < Len(w)
  BY <1>6, LastPlace
<1>8. /\ status'[c] = "running" /\ pages'[c] = r.t /\ job'[c] = "prompt" /\ words' = words
      /\ \A d \in Conv : d # c => /\ status'[d] = status[d] /\ pages'[d] = pages[d]
                                  /\ job'[d] = job[d]
  BY <1>4, <1>5 DEF Assigned, ConvTypes
<1>9. OnlyOf(c) /\ Only(c, status, pages, status', pages')
  BY <1>2, <1>8 DEF OnlyOf, Only
<1> HIDE DEF n
<1>10. job[c] # "decode" /\ Reach(w, "prompt") = Len(w)
  BY <1>2, <1>5 DEF Fits, Reach
<1>11. OneWay'
  <2>1. moves' = [out |-> {}, in |-> {}, copy |-> moves'.copy]
    BY <1>1, <1>2 DEF OneWay
  <2> QED
    BY <1>1, <1>2, <1>8, <1>10, <2>1, OneWayKept
<1>12. ASSUME NEW i \in 1 .. n
       PROVE  PlaceFits(hs[i], i, w, Len(w)) /\ SafelyAt(hs[i], i, Len(w))
  <2> DEFINE k == Least(i * PageSize, Len(w))
             h == hs[i]
  <2>1. i \in Nat \ {0} /\ i <= n /\ i - 1 \in Nat /\ i - 1 <= n - 1
    BY <1>7
  <2>2. /\ i * PageSize \in Nat \ {0} /\ (i - 1) * PageSize < i * PageSize
        /\ (i - 1) * PageSize < Len(w)
    <3>1. (i - 1) * PageSize <= (n - 1) * PageSize
      BY <1>6, <1>7, <2>1
    <3>2. i * PageSize \in Nat \ {0} /\ (i - 1) * PageSize = i * PageSize - PageSize
      BY <1>6, <2>1
    <3>3. (n - 1) * PageSize \in Int
      BY <1>6, <1>7
    <3> QED
      BY <1>6, <1>7, <3>1, <3>2, <3>3
  <2>3. k \in 1 .. Len(w) /\ k <= i * PageSize /\ (k = i * PageSize \/ k = Len(w))
        /\ (i * PageSize <= Len(w) => k = i * PageSize) /\ (i - 1) * PageSize < k
    BY <1>6, <2>2 DEF Least
  <2>4. h = SubSeq(w, 1, k)
    BY <1>4 DEF HashOfBlock
  <2> HIDE DEF k, h, w
  <2>5. h \in Seq(Word) /\ Len(h) = k
    BY <1>5, <2>3, <2>4, FirstWords
  <2>6. PlaceFits(h, i, w, Len(w))
    BY <1>6, <2>2, <2>3, <2>4, <2>5 DEF PlaceFits
  <2>7. SafelyAt(h, i, Len(w))
    BY <1>6, <2>2, <2>3, <2>5 DEF SafelyAt, Tight
  <2> QED
    BY <2>6, <2>7 DEF h, w
<1>13. /\ r.t \in Seq(Page) /\ Len(r.t) = n /\ DOMAIN r.t = 1 .. n
       /\ \A i \in 1 .. n : gpu'.hash[r.t[i]] = hs[i]
  BY <1>4, LenProperties DEF AllTook
<1>14. /\ \A q \in Page : gpu'.ref[q] = gpu.ref[q] + (IF q \in ToSet(r.t) THEN 1 ELSE 0)
       /\ \A q \in Page : q \notin ToSet(r.t) =>
             gpu'.hash[q] = gpu.hash[q] /\ gpu'.done[q] = gpu.done[q]
  BY <1>4 DEF AllTook
<1>15. \A i \in 1 .. n :
           \/ /\ gpu.hash[r.t[i]] = gpu'.hash[r.t[i]]
              /\ gpu'.done[r.t[i]] = gpu.done[r.t[i]]
           \/ gpu.ref[r.t[i]] = 0 /\ ~gpu'.done[r.t[i]]
  BY <1>4, <1>13 DEF AllTook
<1>16. \A q \in Page : gpu.ref[q] > 0 => gpu'.hash[q] = gpu.hash[q]
  <2>1. ASSUME NEW q \in Page, gpu.ref[q] > 0 PROVE gpu'.hash[q] = gpu.hash[q]
    <3>1. CASE q \in ToSet(r.t)
      <4>1. PICK i \in 1 .. n : r.t[i] = q
        BY <1>13, <3>1 DEF ToSet
      <4>2. gpu.ref[q] # 0
        BY <2>1
      <4> QED
        BY <1>15, <4>1, <4>2
    <3> QED
      BY <1>14, <3>1
  <2> QED
    BY <2>1
<1>17. HashesFit(gpu', pages', status', words', job')
  <2>1. \A d \in Conv : d # c /\ status[d] = "running" =>
            \A i \in 1 .. Len(pages[d]) : gpu'.hash[pages[d][i]] = gpu.hash[pages[d][i]]
    BY <1>16, RunFacts
  <2>2. \A i \in 1 .. Len(pages'[c]) :
            /\ PlaceFits(gpu'.hash[pages'[c][i]], i, words[c], Reach(words[c], job'[c]))
            /\ SafelyAt(gpu'.hash[pages'[c][i]], i, Reach(words[c], job'[c]))
    BY <1>8, <1>10, <1>12, <1>13
  <2>3. HashesFit(gpu', pages', status', words, job')
    BY <1>1, <1>8, <1>9, <2>1, <2>2, HashesMoved
  <2> QED
    BY <1>8, <2>3
<1>18. ResultsHeld' /\ SlotsAwait'
  BY <1>1, <1>2, <1>8, <1>9, ResultsKept, SlotsKept
<1>19. CopiesFit'
  <2>1. moves'.copy = {}
    BY <1>1, <1>2 DEF OneWay
  <2> QED
    BY <2>1 DEF CopiesFit
<1>20. CachedHeld'
  <2>1. ASSUME NEW q \in Page
        PROVE  /\ gpu'.done[q] => EndsPage(gpu'.hash[q])
               /\ EndsPage(gpu'.hash[q]) /\ (gpu'.done[q] \/ gpu'.ref[q] = 0) =>
                     HoldsPage(kv["gpu"], q, gpu'.hash[q])
    <3>1. /\ gpu.done[q] => EndsPage(gpu.hash[q])
          /\ EndsPage(gpu.hash[q]) /\ (gpu.done[q] \/ gpu.ref[q] = 0) =>
                 HoldsPage(kv["gpu"], q, gpu.hash[q])
      BY <1>1 DEF CachedHeld
    <3>2. gpu.ref[q] \in Nat
      BY <1>5, PoolFields
    <3>3. CASE q \in ToSet(r.t)
      <4>1. PICK i \in 1 .. n : r.t[i] = q
        BY <1>13, <3>3 DEF ToSet
      <4>2. gpu'.ref[q] # 0
        BY <1>14, <3>2, <3>3
      <4> QED
        BY <1>15, <3>1, <4>1, <4>2
    <3>4. CASE q \notin ToSet(r.t)
      <4>1. gpu'.ref[q] = gpu.ref[q]
        BY <1>14, <3>2, <3>4
      <4> QED
        BY <1>14, <3>1, <3>4, <4>1
    <3> QED
      BY <3>3, <3>4
  <2> QED
    BY <1>2, <2>1 DEF CachedHeld
<1> QED
  BY <1>11, <1>17, <1>18, <1>19, <1>20 DEF KVParts

\* A page that is found by its words has them, or a copy is on its way to it.
LEMMA FoundHeld ==
    ASSUME PoolInv, KVParts, ~Doing("prompt"), NEW c \in Conv, status[c] = "running",
           LastIsFull(c), NEW p \in Page, gpu.hash[p] = words[c],
           NEW k \in 1 .. Len(words[c]) - 1, PlaceOf(k) = Logical(c)
    PROVE  Holds(kv["gpu"], p, words[c], k) \/ CopyTo(p)
<1> DEFINE w == words[c]
           L == Logical(c)
<1>1. /\ HashesFit(gpu, pages, status, words, job)
      /\ ResultsHeld /\ SlotsAwait /\ CachedHeld
  BY DEF KVParts
<1>2. w \in Seq(Word) /\ Len(w) \in Nat \ {0} /\ PageSize \in Nat \ {0}
  BY RunFacts, PrefixAssumption
<1>3. L = PagesFor(Len(w)) /\ Len(w) % PageSize = 0
  BY DEF Logical, PagesFor, LastIsFull
<1>4. /\ L \in Nat \ {0} /\ PlaceOf(Len(w)) = L /\ Len(w) = L * PageSize
  <2> DEFINE n == Len(w)
  <2>1. n \in Nat \ {0} /\ n % PageSize = 0 /\ L = PagesFor(n)
    BY <1>2, <1>3
  <2> HIDE DEF n, L
  <2>2. L \in Nat \ {0} /\ PlaceOf(n) = L /\ n = L * PageSize
    BY <2>1, LastPlace
  <2> QED
    BY <2>2 DEF n
<1>5. EndsPage(w)
  <2>1. w # <<>>
    <3> HIDE DEF w
    <3> QED
      BY <1>2, EmptySeq
  <2> QED
    BY <1>2, <1>3, <2>1, Zenon DEF EndsPage
<1>6. k \in Nat \ {0} /\ (L - 1) * PageSize < k
  <2>1. k \in Nat \ {0}
    BY <1>2
  <2> QED
    BY <2>1, PlaceFacts
<1> HIDE DEF L
<1>7. CASE gpu.ref[p] = 0
  <2>1. HoldsPage(kv["gpu"], p, w)
    BY <1>1, <1>5, <1>7 DEF CachedHeld
  <2>2. (L - 1) * PageSize = L * PageSize - PageSize
    BY <1>2, <1>4
  <2>3. k \in Len(w) - PageSize + 1 .. Len(w)
    BY <1>2, <1>4, <1>6, <2>2
  <2> QED
    BY <2>1, <2>3 DEF HoldsPage
<1>8. CASE gpu.ref[p] # 0
  <2>1. gpu.ref[p] > 0
    <3>1. gpu.ref[p] \in Nat
      BY PoolFields DEF PoolInv, Serves
    <3> QED
      BY <1>8, <3>1
  <2>2. PICK d \in Conv : status[d] = "running" /\ \E i \in 1 .. Len(pages[d]) : pages[d][i] = p
    BY <2>1, HolderExists
  <2>3. PICK i \in 1 .. Len(pages[d]) : pages[d][i] = p
    BY <2>2
  <2> DEFINE v == words[d]
             n == Reach(words[d], job[d])
  <2>4. /\ v \in Seq(Word) /\ n \in Nat /\ Len(v) \in Nat /\ n <= Len(v)
        /\ n = IF job[d] = "none" THEN Len(v) - 1 ELSE Len(v)
        /\ Len(pages[d]) \in Nat
    BY <2>2, RunFacts
  <2>5. i \in Nat \ {0} /\ PlaceFits(w, i, v, n)
    BY <1>1, <2>2, <2>3, <2>4 DEF HashesFit, TablesHashed
  <2> HIDE DEF v, n, w
  <2>6. Len(w) = i * PageSize /\ Len(w) <= n /\ w = SubSeq(v, 1, Len(w))
    BY <1>5, <2>4, <2>5, FullPlace
  <2>7. i = L
    <3>1. (i - 1) * PageSize = i * PageSize - PageSize
      BY <1>2, <2>5
    <3>2. (i - 1) * PageSize < Len(w) /\ Len(w) <= i * PageSize
      BY <1>2, <2>5, <2>6, <3>1
    <3> QED
      BY <1>2, <1>4, <2>5, <3>2, PlaceIs
  <2>8. k \in 1 .. n /\ k \in 1 .. Len(v) - 1 /\ k \in 1 .. Len(w) /\ Len(w) \in 1 .. Len(v)
    BY <1>2, <2>4, <2>6 DEF w
  <2>9. SubSeq(v, 1, k) = SubSeq(w, 1, k)
    <3>1. SubSeq(SubSeq(v, 1, Len(w)), 1, k) = SubSeq(v, 1, k)
      BY <2>4, <2>8, FirstWords
    <3> QED
      BY <2>6, <3>1
  <2>10. pages[d][PlaceOf(k)] = p
    BY <2>3, <2>7 DEF L
  <2>11. Holds(kv["gpu"], p, v, k) \/ CopyTo(p)
    <3>1. job[d] \in {"none", "sampled", "decode"}
      <4>1. job[d] \in {"none", "out", "prompt", "decode", "sampled"}
        BY DEF PoolInv, ConvTypes
      <4>2. job[d] # "out"
        BY <2>2 DEF PoolInv, Fits
      <4>3. job[d] # "prompt"
        BY DEF Doing
      <4> QED
        BY <4>1, <4>2, <4>3
    <3>2. CASE job[d] = "decode"
      BY <1>1, <2>2, <2>8, <2>10, <3>2 DEF SlotsAwait, v
    <3>3. CASE job[d] \in {"none", "sampled"}
      BY <1>1, <2>2, <2>8, <2>10, <3>3 DEF ResultsHeld, v, n
    <3> QED
      BY <3>1, <3>2, <3>3
  <2> QED
    BY <2>9, <2>11 DEF Holds, w
<1> QED
  BY <1>7, <1>8

\* The table after append_slots: the same but for the page of the last word.
LastInTable(m, c, t, r, p) ==
    /\ Logical(c) \in Nat \ {0} /\ Len(r.t) = Logical(c) /\ r.t[Logical(c)] = p
    /\ \A i \in 1 .. Logical(c) - 1 : i \in 1 .. Len(t) /\ r.t[i] = t[i] /\ t[i] # p
    /\ m.ref[p] \in Nat /\ r.m.ref[p] > 0
    /\ \A q \in Page : q # p /\ r.m.ref[q] = 0 /\ m.ref[q] > 0 =>
          Len(t) = Logical(c) /\ q = t[Logical(c)]

LEMMA LastOfTable ==
    ASSUME NEW m, NEW c \in Conv, NEW t, MayAppend(m, c, t),
           NEW r, Appended(m, c, t, r), NEW p, LastPageIs(m, c, t, r, p)
    PROVE  LastInTable(m, c, t, r, p)
<1> DEFINE L == Logical(c)
<1>1. /\ Sound(m) /\ words[c] \in Seq(Word) /\ words[c] # <<>> /\ t \in Seq(Page)
      /\ \A q \in ToSet(t) : m.ref[q] > 0
      /\ Len(t) = L \/ Len(t) = L - 1
  BY DEF MayAppend
<1>2. /\ r.t \in Seq(Page) /\ IsInjective(r.t) /\ Len(r.t) = L
      /\ \A q \in Page : r.m.ref[q] = m.ref[q] - In(q, ToSet(t)) + In(q, ToSet(r.t))
  BY DEF Appended
<1>3. p \in Page /\ r.t = IF Len(t) = L THEN [t EXCEPT ![Len(t)] = p] ELSE Append(t, p)
  BY DEF LastPageIs
<1>4. L \in Nat \ {0}
  BY <1>1, HashOfBlockFacts
<1> HIDE DEF L
<1>5. /\ DOMAIN t = 1 .. Len(t) /\ Len(t) \in Nat /\ DOMAIN r.t = 1 .. L
      /\ \A i \in 1 .. Len(t) : t[i] \in Page
  BY <1>1, <1>2, LenProperties, ElementOfSeq
<1>6. r.t[L] = p /\ \A i \in 1 .. L - 1 : i \in 1 .. Len(t) /\ r.t[i] = t[i]
  <2>1. CASE Len(t) = L
    <3>1. L \in DOMAIN t /\ \A i \in 1 .. L - 1 : i \in DOMAIN t /\ i # L
      BY <1>4, <1>5, <2>1
    <3> QED
      BY <1>3, <1>5, <2>1, <3>1
  <2>2. CASE Len(t) = L - 1
    <3>1. Len(t) # L /\ Len(t) + 1 = L
      BY <1>4, <2>2
    <3>2. r.t = Append(t, p)
      BY <1>3, <3>1
    <3>3. Append(t, p)[Len(t) + 1] = p /\ \A i \in 1 .. Len(t) : Append(t, p)[i] = t[i]
      BY <1>1, <1>3, AppendProperties
    <3> QED
      BY <2>2, <3>1, <3>2, <3>3
  <2> QED
    BY <1>1, <2>1, <2>2
<1>7. \A i \in 1 .. L - 1 : t[i] # p
  <2>1. \A i \in 1 .. L - 1 : i \in DOMAIN r.t /\ i # L
    BY <1>4, <1>5
  <2>2. L \in DOMAIN r.t
    BY <1>4, <1>5
  <2> QED
    BY <1>2, <1>6, <2>1, <2>2 DEF IsInjective
<1>8. \A q \in Page : m.ref[q] \in Nat
  BY <1>1, PoolFields
<1>9. m.ref[p] \in Nat /\ r.m.ref[p] > 0
  <2>1. p \in ToSet(r.t)
    BY <1>4, <1>5, <1>6 DEF ToSet
  <2>2. In(p, ToSet(t)) = 1 => m.ref[p] > 0
    BY <1>1 DEF In
  <2>3. In(p, ToSet(t)) \in {0, 1} /\ In(p, ToSet(r.t)) = 1
    BY <2>1 DEF In
  <2>4. r.m.ref[p] = m.ref[p] - In(p, ToSet(t)) + In(p, ToSet(r.t)) /\ m.ref[p] \in Nat
    BY <1>2, <1>3, <1>8
  <2> QED
    BY <2>2, <2>3, <2>4
<1>10. ASSUME NEW q \in Page, q # p, r.m.ref[q] = 0, m.ref[q] > 0
       PROVE  Len(t) = L /\ q = t[L]
  <2>1. q \in ToSet(t) /\ q \notin ToSet(r.t)
    <3>1. r.m.ref[q] = m.ref[q] - In(q, ToSet(t)) + In(q, ToSet(r.t)) /\ m.ref[q] \in Nat
      BY <1>2, <1>8
    <3> QED
      BY <1>10, <3>1 DEF In
  <2>2. PICK i \in 1 .. Len(t) : t[i] = q
    BY <1>5, <2>1 DEF ToSet
  <2>3. i \notin 1 .. L - 1
    <3>1. i \in 1 .. L - 1 => r.t[i] = q /\ i \in DOMAIN r.t
      BY <1>4, <1>5, <1>6, <2>2
    <3> QED
      BY <2>1, <3>1 DEF ToSet
  <2>4. i = L /\ Len(t) = L
    <3>1. i \in Nat /\ i >= 1 /\ i <= Len(t) /\ Len(t) \in Nat
      BY <1>5
    <3>2. ~(i <= L - 1)
      BY <1>4, <2>3, <3>1
    <3>3. Len(t) = L \/ Len(t) = L - 1
      BY <1>1
    <3> QED
      BY <1>4, <3>1, <3>2, <3>3
  <2> QED
    BY <2>2, <2>4
<1> QED
  BY <1>2, <1>4, <1>6, <1>7, <1>9, <1>10 DEF L, LastInTable

\* A slot for the next word.
LEMMA KVDecode ==
    ASSUME PoolInv, KVParts, ~swaps, NEW c \in Conv, Decode(c)
    PROVE  KVParts'
<1> DEFINE t == pages[c]
           w == words[c]
           L == Logical(c)
           r == AppendWord(gpu, c, t)
<1>1. /\ OneWay /\ HashesFit(gpu, pages, status, words, job)
      /\ ResultsHeld /\ SlotsAwait /\ CopiesFit /\ CachedHeld
  BY DEF KVParts
<1>2. /\ status[c] = "running" /\ job[c] = "none" /\ ~Doing("prompt")
      /\ gpu' = r.m /\ words' = words /\ status' = status /\ kv' = kv
      /\ pages' = [pages EXCEPT ![c] = r.t] /\ job' = [job EXCEPT ![c] = "decode"]
      /\ moves' = [moves EXCEPT !.copy = @ \union r.copy]
  BY DEF Decode
<1>3. MayAppend(gpu, c, t)
  BY MayDecode
<1>4. Appended(gpu, c, t, r)
  BY <1>3, AppendWordFacts
<1>5. PICK p : LastPageIs(gpu, c, t, r, p)
  BY <1>3, AppendWordHow
<1> HIDE DEF r
<1>last. LastInTable(gpu, c, t, r, p)
  BY <1>3, <1>4, <1>5, LastOfTable
<1>6. L \in Nat \ {0} /\ Len(r.t) = L /\ r.t[L] = p
  BY <1>last DEF LastInTable
<1>7. \A i \in 1 .. L - 1 : i \in 1 .. Len(t) /\ r.t[i] = t[i] /\ t[i] # p
  BY <1>last DEF LastInTable
<1>8. gpu.ref[p] \in Nat /\ gpu'.ref[p] > 0
  BY <1>2, <1>last DEF LastInTable
<1>9. \A q \in Page : q # p /\ gpu'.ref[q] = 0 /\ gpu.ref[q] > 0 => Len(t) = L /\ q = t[L]
  BY <1>2, <1>last DEF LastInTable
<1>10. /\ p \in Page
       /\ \A q \in Page : q # p => gpu'.hash[q] = gpu.hash[q] /\ gpu'.done[q] = gpu.done[q]
       /\ TakenFor(gpu, c, t, r, p) \/ FoundFor(gpu, c, t, r, p) \/ KeptFor(gpu, c, t, r, p)
  BY <1>2, <1>5 DEF LastPageIs
<1>11. /\ w \in Seq(Word) /\ Len(w) \in Nat \ {0} /\ Reach(w, job[c]) = Len(w) - 1
       /\ Len(t) \in Nat /\ PageSize \in Nat \ {0} /\ DOMAIN t = 1 .. Len(t)
       /\ \A i \in 1 .. Len(t) : t[i] \in Page
  BY <1>2, RunFacts, PrefixAssumption
<1>12. Len(t) = L \/ Len(t) = L - 1
  BY <1>3 DEF MayAppend
<1>13. /\ L = PagesFor(Len(w))
       /\ (L - 1) * PageSize < Len(w) /\ Len(w) <= L * PageSize
       /\ LastIsFull(c) => Len(w) = L * PageSize
       /\ ~LastIsFull(c) => Len(w) < L * PageSize
  <2> DEFINE n == Len(w)
  <2>1. n \in Nat \ {0} /\ L = PagesFor(n) /\ (LastIsFull(c) <=> n % PageSize = 0)
    BY <1>11 DEF Logical, PagesFor, LastIsFull
  <2> HIDE DEF n, L
  <2>2. /\ (L - 1) * PageSize < n /\ n <= L * PageSize
        /\ LastIsFull(c) => n = L * PageSize
        /\ ~LastIsFull(c) => n < L * PageSize
    BY <2>1, LastPlace
  <2> QED
    BY <2>1, <2>2 DEF n
<1>14. /\ pages'[c] = r.t /\ job'[c] = "decode"
       /\ \A d \in Conv : d # c => pages'[d] = pages[d] /\ job'[d] = job[d]
  <2>1. pages \in [Conv -> Seq(Page)] /\ DOMAIN job = Conv
    BY DEF PoolInv, ConvTypes
  <2> QED
    BY <1>2, <2>1
<1>15. OnlyOf(c) /\ Only(c, status, pages, status', pages')
  BY <1>2, <1>14 DEF OnlyOf, Only
<1> HIDE DEF L
<1>16. moves' = [out |-> {}, in |-> {}, copy |-> moves.copy \union r.copy]
  <2>1. \E x : moves = [out |-> {}, in |-> {}, copy |-> x]
    BY <1>1 DEF OneWay
  <2>2. PICK x : moves = [out |-> {}, in |-> {}, copy |-> x]
    BY <2>1
  <2>3. moves.copy = x
    BY <2>2
  <2>4. moves' = [moves EXCEPT !.copy = x \union r.copy]
    BY <1>2, <2>3
  <2> QED
    BY <2>2, <2>3, <2>4
<1>17. OneWay'
  <2>1. moves' = [out |-> {}, in |-> {}, copy |-> moves'.copy]
    BY <1>16
  <2> QED
    BY <1>1, <1>2, <1>14, <1>15, <2>1, OneWayKept DEF Only
\* what the table is like before
<1>18. ASSUME NEW i \in 1 .. Len(t)
       PROVE  /\ PlaceFits(gpu.hash[t[i]], i, w, Len(w) - 1)
              /\ i \in Nat \ {0}
  BY <1>1, <1>2, <1>11 DEF HashesFit, TablesHashed
<1>19. \A k \in 1 .. Len(w) - 1 : Holds(kv["gpu"], t[PlaceOf(k)], w, k)
  BY <1>1, <1>2, <1>11 DEF ResultsHeld
<1>20. Len(t) = L => ~EndsPage(gpu.hash[t[L]])
  <2> SUFFICES ASSUME Len(t) = L, EndsPage(gpu.hash[t[L]]) PROVE FALSE
    OBVIOUS
  <2>1. L \in 1 .. Len(t) /\ Len(w) - 1 \in Nat
    BY <1>6, <1>11
  <2>2. PlaceFits(gpu.hash[t[L]], L, w, Len(w) - 1)
    BY <1>18, <2>1
  <2>3. L * PageSize <= Len(w) - 1
    BY <1>6, <1>11, <2>1, <2>2, FullPlace
  <2> QED
    BY <1>6, <1>11, <1>13, <2>3
<1>21. ASSUME NEW d \in Conv, d # c, status[d] = "running", NEW l \in 1 .. Len(pages[d])
       PROVE  /\ gpu'.hash[pages[d][l]] = gpu.hash[pages[d][l]]
              /\ gpu.ref[p] \in {0, 1} /\ (gpu.ref[p] = 1 => Len(t) = L /\ p = t[L])
                    => pages[d][l] # p
  <2>1. pages[d][l] \in Page /\ gpu.ref[pages[d][l]] > 0
    BY <1>21, RunFacts
  <2>2. (Len(t) = L /\ p = t[L] /\ gpu.ref[p] = 1) => pages[d][l] # p
    <3>1. Len(t) = L => L \in 1 .. Len(t)
      BY <1>6
    <3> QED
      BY <1>2, <1>21, <3>1, OnlyHolder
  <2>3. gpu.ref[p] = 0 => pages[d][l] # p
    BY <2>1
  <2>4. CASE TakenFor(gpu, c, t, r, p)
    BY <1>10, <2>1, <2>2, <2>3, <2>4 DEF TakenFor
  <2>5. CASE FoundFor(gpu, c, t, r, p)
    BY <1>2, <1>10, <2>1, <2>2, <2>3, <2>5 DEF FoundFor
  <2>6. CASE KeptFor(gpu, c, t, r, p)
    BY <1>10, <2>1, <2>2, <2>3, <2>6 DEF KeptFor, L
  <2> QED
    BY <1>10, <2>4, <2>5, <2>6
\* the last page
<1>22. LastIsFull(c) => PlaceFits(w, L, w, Len(w)) /\ SafelyAt(w, L, Len(w))
  <2>1. w = SubSeq(w, 1, Len(w))
    BY <1>11, SubSeqFull
  <2> HIDE DEF w
  <2> QED
    BY <1>11, <1>13, <2>1 DEF PlaceFits, SafelyAt, Tight
<1>23. /\ PlaceFits(gpu'.hash[p], L, w, Len(w))
       /\ SafelyAt(gpu'.hash[p], L, Len(w)) \/ Alone(pages, status, c, p)
  <2>1. CASE TakenFor(gpu, c, t, r, p)
    <3>1. Alone(pages, status, c, p)
      BY <1>21, <2>1 DEF TakenFor, Alone
    <3>2. CASE LastIsFull(c)
      BY <1>2, <1>22, <2>1, <3>1, <3>2 DEF TakenFor
    <3>3. CASE ~LastIsFull(c)
      <4>1. gpu'.hash[p] \in FreshHash /\ Len(w) < L * PageSize
        BY <1>2, <1>13, <2>1, <3>3 DEF TakenFor
      <4> QED
        BY <3>1, <4>1 DEF PlaceFits
    <3> QED
      BY <3>2, <3>3
  <2>2. CASE FoundFor(gpu, c, t, r, p)
    BY <1>2, <1>22, <2>2 DEF FoundFor
  <2>3. CASE KeptFor(gpu, c, t, r, p)
    <3>1. Alone(pages, status, c, p)
      BY <1>21, <2>3 DEF KeptFor, Alone, L
    <3>2. CASE LastIsFull(c)
      BY <1>2, <1>22, <2>3, <3>1, <3>2 DEF KeptFor
    <3>3. CASE ~LastIsFull(c)
      <4>1. gpu'.hash[p] = gpu.hash[t[L]] /\ Len(w) < L * PageSize /\ Len(t) = L
        BY <1>2, <1>13, <2>3, <3>3 DEF KeptFor, L
      <4>2. PlaceFits(gpu.hash[t[L]], L, w, Len(w) - 1)
        <5>1. L \in 1 .. Len(t)
          BY <1>6, <4>1
        <5> QED
          BY <1>18, <5>1
      <4>3. PlaceFits(gpu.hash[t[L]], L, w, Len(w))
        <5> DEFINE h == gpu.hash[t[L]]
        <5>1. PlaceFits(h, L, w, Len(w) - 1)
          BY <4>2
        <5> HIDE DEF h, w
        <5>4. PlaceFits(h, L, w, Len(w))
          <6>2. CASE h \in FreshHash
            BY <4>1, <6>2 DEF PlaceFits
          <6>3. CASE h \notin FreshHash
            <7>1. /\ h \in Seq(Word) /\ h = SubSeq(w, 1, Len(h)) /\ (L - 1) * PageSize < Len(h)
                  /\ Len(h) <= L * PageSize /\ Len(h) <= Len(w) - 1
              BY <5>1, <6>3 DEF PlaceFits
            <7>2. Len(h) <= Len(w) /\ ~(L * PageSize <= Len(w))
              <8>1. Len(h) \in Nat
                BY <7>1, LenProperties
              <8>2. L * PageSize \in Nat
                BY <1>6, <1>11
              <8> QED
                BY <1>11, <4>1, <7>1, <8>1, <8>2
            <7> QED
              BY <7>1, <7>2 DEF PlaceFits
          <6> QED
            BY <6>2, <6>3
        <5> QED
          BY <5>4 DEF h, w
      <4> QED
        BY <3>1, <4>1, <4>3
    <3> QED
      BY <3>2, <3>3
  <2> QED
    BY <1>10, <2>1, <2>2, <2>3
\* the pages before
<1>24. ASSUME NEW i \in 1 .. L - 1
       PROVE  PlaceFits(gpu'.hash[r.t[i]], i, w, Len(w)) /\ SafelyAt(gpu'.hash[r.t[i]], i, Len(w))
  <2> DEFINE h == gpu.hash[t[i]]
  <2>1. /\ i \in 1 .. Len(t) /\ r.t[i] = t[i] /\ t[i] \in Page /\ t[i] # p
        /\ gpu'.hash[r.t[i]] = h
    BY <1>7, <1>10, <1>11
  <2>2. PlaceFits(h, i, w, Len(w) - 1) /\ i \in Nat \ {0}
    BY <1>18, <2>1
  <2> HIDE DEF h, w
  <2>3. i * PageSize <= Len(w) - 1 /\ Len(w) - 1 \in Nat
    <3>1. i <= L - 1 /\ L - 1 \in Nat
      BY <1>6
    <3>2. i * PageSize <= (L - 1) * PageSize
      BY <1>11, <2>2, <3>1
    <3>3. (L - 1) * PageSize \in Nat /\ i * PageSize \in Nat
      BY <1>11, <2>2, <3>1
    <3> QED
      BY <1>11, <1>13, <3>2, <3>3
  <2>4. EndsPage(h) /\ Len(h) = i * PageSize
    BY <1>11, <2>2, <2>3, PastPlace
  <2>5. h = SubSeq(w, 1, Len(h))
    BY <1>11, <2>2, <2>3, <2>4, FullPlace
  <2>6. /\ h \in Seq(Word) /\ (i - 1) * PageSize < i * PageSize /\ i * PageSize \in Nat
        /\ i * PageSize <= Len(w)
    <3>1. (i - 1) * PageSize = i * PageSize - PageSize /\ i * PageSize \in Nat
      BY <1>11, <2>2
    <3>2. h \in Seq(Word)
      BY <2>4 DEF EndsPage
    <3>3. i * PageSize <= Len(w) /\ (i - 1) * PageSize < i * PageSize
      BY <1>11, <2>3, <3>1
    <3> QED
      BY <3>1, <3>2, <3>3
  <2>7. PlaceFits(h, i, w, Len(w))
    BY <2>4, <2>5, <2>6 DEF PlaceFits
  <2>8. SafelyAt(h, i, Len(w))
    BY <2>4, <2>6 DEF SafelyAt, Tight
  <2> QED
    BY <2>1, <2>7, <2>8
<1>25. HashesFit(gpu', pages', status', words', job')
  <2>1. \A d \in Conv : d # c /\ status[d] = "running" =>
            \A i \in 1 .. Len(pages[d]) : gpu'.hash[pages[d][i]] = gpu.hash[pages[d][i]]
    BY <1>21
  <2>2. Reach(words[c], job'[c]) = Len(w)
    BY <1>14 DEF Reach
  <2>3. \A i \in 1 .. L : i = L \/ i \in 1 .. L - 1
    BY <1>6
  <2>4. \A i \in 1 .. Len(pages'[c]) :
            /\ PlaceFits(gpu'.hash[pages'[c][i]], i, words[c], Reach(words[c], job'[c]))
            /\ \/ SafelyAt(gpu'.hash[pages'[c][i]], i, Reach(words[c], job'[c]))
               \/ Alone(pages, status, c, pages'[c][i])
    BY <1>6, <1>14, <1>23, <1>24, <2>2, <2>3
  <2>5. \A d \in Conv : d # c => job'[d] = job[d]
    BY <1>14
  <2>6. HashesFit(gpu', pages', status', words, job')
    BY <1>1, <1>15, <2>1, <2>4, <2>5, HashesMoved
  <2> QED
    BY <1>2, <2>6
<1>26. ResultsHeld'
  BY <1>1, <1>14, <1>15, ResultsKept
<1>27. moves'.copy = moves.copy \union r.copy
  BY <1>16
<1>28. SlotsAwait'
  <2>1. ASSUME NEW k \in 1 .. Len(w) - 1
        PROVE  \/ Holds(kv["gpu"], r.t[PlaceOf(k)], w, k)
               \/ \E mv \in moves'.copy : mv[2] = r.t[PlaceOf(k)]
    <3>1. PlaceOf(k) \in 1 .. Len(t)
      BY <1>2, <1>11, WordsInTable
    <3>2. CASE PlaceOf(k) # L
      <4>1. PlaceOf(k) \in 1 .. L - 1
        BY <1>6, <1>11, <1>12, <3>1, <3>2
      <4> QED
        BY <1>7, <1>19, <4>1
    <3>3. CASE PlaceOf(k) = L
      <4>1. Len(t) = L
        BY <1>6, <1>11, <1>12, <3>1, <3>3
      <4>2. CASE TakenFor(gpu, c, t, r, p)
        <5>1. <<t[L], p>> \in moves'.copy
          BY <1>27, <4>1, <4>2 DEF TakenFor, L
        <5> QED
          BY <1>6, <3>3, <5>1
      <4>3. CASE FoundFor(gpu, c, t, r, p)
        <5>1. LastIsFull(c) /\ gpu.hash[p] = words[c]
          BY <4>3 DEF FoundFor
        <5>2. Holds(kv["gpu"], p, w, k) \/ CopyTo(p)
          BY <1>2, <1>10, <3>3, <5>1, FoundHeld DEF L
        <5> QED
          BY <1>6, <1>27, <3>3, <5>2 DEF CopyTo
      <4>4. CASE KeptFor(gpu, c, t, r, p)
        <5>1. p = t[L]
          BY <4>4 DEF KeptFor, L
        <5> QED
          BY <1>6, <1>19, <3>3, <5>1
      <4> QED
        BY <1>10, <4>2, <4>3, <4>4
    <3> QED
      BY <3>2, <3>3
  <2>2. \A k \in 1 .. Len(words'[c]) - 1 :
           \/ Holds(kv["gpu"], pages'[c][PlaceOf(k)], words'[c], k)
           \/ \E mv \in moves'.copy : mv[2] = pages'[c][PlaceOf(k)]
    BY <1>2, <1>14, <2>1
  <2>3. moves.copy \subseteq moves'.copy
    BY <1>27
  <2> QED
    BY <1>1, <1>15, <2>2, <2>3, SlotsKept
<1>29. CopiesFit'
  <2>1. ASSUME NEW mv \in moves.copy PROVE \E e \in Conv : CopyFits(mv, e)'
    <3>1. PICK e \in Conv : CopyFits(mv, e)
      BY <1>1 DEF CopiesFit
    <3>2. CopyFits(mv, e)'
      BY <1>2, <1>15, <1>21, <3>1, CopiesKept
    <3> QED
      BY <3>2
  <2>2. ASSUME NEW mv \in r.copy PROVE \E e \in Conv : CopyFits(mv, e)'
    <3>1. /\ Len(t) = L /\ mv = <<t[L], p>>
          /\ gpu'.hash[p] \in FreshHash \/ LastIsFull(c)
      <4>1. CASE TakenFor(gpu, c, t, r, p)
        BY <1>2, <2>2, <4>1 DEF TakenFor, L
      <4>2. CASE FoundFor(gpu, c, t, r, p)
        BY <2>2, <4>2 DEF FoundFor, L
      <4>3. CASE KeptFor(gpu, c, t, r, p)
        BY <2>2, <4>3 DEF KeptFor
      <4> QED
        BY <1>10, <4>1, <4>2, <4>3
    <3>2. mv[1] = t[L] /\ mv[2] = p /\ t[L] \in Page
      <4>1. L \in 1 .. Len(t)
        BY <1>6, <3>1
      <4> QED
        BY <1>11, <3>1, <4>1
    <3>3. Logical(c)' = L
      BY <1>2 DEF L, Logical
    <3>4. mv[2] = pages'[c][Logical(c)']
      BY <1>6, <1>14, <3>2, <3>3
    <3>5. gpu'.hash[mv[2]] \in FreshHash \/ Len(words'[c]) % PageSize = 0
      BY <1>2, <3>1, <3>2 DEF LastIsFull
    <3>6. \A k \in 1 .. Len(words'[c]) - 1 :
             PlaceOf(k) = Logical(c)' => Holds(kv'["gpu"], mv[1], words'[c], k)
      BY <1>2, <1>19, <3>2, <3>3
    <3>7. CopyFits(mv, c)'
      BY <1>2, <1>14, <3>2, <3>4, <3>5, <3>6 DEF CopyFits
    <3> QED
      BY <3>7
  <2> QED
    BY <1>27, <2>1, <2>2 DEF CopiesFit
<1>30. CachedHeld'
  <2>1. ASSUME NEW q \in Page
        PROVE  /\ gpu'.done[q] => EndsPage(gpu'.hash[q])
               /\ EndsPage(gpu'.hash[q]) /\ (gpu'.done[q] \/ gpu'.ref[q] = 0) =>
                     HoldsPage(kv["gpu"], q, gpu'.hash[q])
    <3>1. /\ gpu.done[q] => EndsPage(gpu.hash[q])
          /\ EndsPage(gpu.hash[q]) /\ (gpu.done[q] \/ gpu.ref[q] = 0) =>
                 HoldsPage(kv["gpu"], q, gpu.hash[q])
      BY <1>1 DEF CachedHeld
    <3>2. gpu.ref[q] \in Nat
      BY <1>3, PoolFields DEF MayAppend
    <3>3. CASE q # p
      <4>1. gpu'.hash[q] = gpu.hash[q] /\ gpu'.done[q] = gpu.done[q]
        BY <1>10, <3>3
      <4>2. CASE gpu'.ref[q] = 0 /\ gpu.ref[q] > 0
        <5>1. Len(t) = L /\ q = t[L]
          BY <1>9, <3>3, <4>2
        <5> QED
          BY <1>20, <3>1, <4>1, <5>1
      <4>3. CASE ~(gpu'.ref[q] = 0 /\ gpu.ref[q] > 0)
        <5>1. gpu'.ref[q] = 0 => gpu.ref[q] = 0
          BY <3>2, <4>3
        <5> QED
          BY <3>1, <4>1, <5>1
      <4> QED
        BY <4>2, <4>3
    <3>4. CASE q = p
      <4>1. gpu'.ref[q] # 0
        BY <1>8, <3>4
      <4>2. CASE TakenFor(gpu, c, t, r, p)
        BY <1>2, <3>4, <4>1, <4>2 DEF TakenFor
      <4>3. CASE FoundFor(gpu, c, t, r, p)
        BY <1>2, <3>1, <3>4, <4>1, <4>3 DEF FoundFor
      <4>4. CASE KeptFor(gpu, c, t, r, p)
        <5>1. ~gpu.done[p]
          BY <1>20, <3>1, <3>4, <4>4 DEF KeptFor, L
        <5>2. ~gpu'.done[p]
          BY <1>2, <4>4, <5>1 DEF KeptFor
        <5> QED
          BY <3>4, <4>1, <5>2
      <4> QED
        BY <1>10, <4>2, <4>3, <4>4
    <3> QED
      BY <3>3, <3>4
  <2> QED
    BY <1>2, <2>1 DEF CachedHeld
<1> QED
  BY <1>17, <1>25, <1>26, <1>28, <1>29, <1>30 DEF KVParts

-----------------------------------------------------------------------------
(* The step of the model.                                                    *)

\* The model writes v to slot s of page p, and what was there before.
WrittenAt(p, s, v) ==
    \E d \in Conv : /\ job[d] \in {"prompt", "decode"}
                    /\ \E l \in Written(d) : Spot(d, l) = <<p, s>> /\ v = SubSeq(words[d], 1, l)

Before(p) ==
    IF CopyTo(p) THEN kv["gpu"][(CHOOSE mv \in moves.copy : mv[2] = p)[1]] ELSE kv["gpu"][p]

Wrote(V, p, s) ==
    \/ WrittenAt(p, s, V[p][s])
    \/ (\A v : ~WrittenAt(p, s, v)) /\ V[p][s] = Before(p)[s]

LEMMA UpToCount == ASSUME NEW n \in Nat PROVE IsFiniteSet(1 .. n) /\ Cardinality(1 .. n) = n
<1>1. IsFiniteSet(1 .. n)
  BY FS_Interval
<1>2. Cardinality(1 .. n) = IF 1 > n THEN 0 ELSE n - 1 + 1
  BY FS_Interval
<1> QED
  BY <1>1, <1>2

\* The pages from the first on that are computed are the first Skipped(c).
LEMMA SkippedFirst ==
    ASSUME NEW c \in Conv, Len(pages[c]) \in Nat
    PROVE  /\ Skipped(c) \in Nat
           /\ \A q \in 1 .. Skipped(c) : q \in 1 .. Len(pages[c]) - 1 /\ gpu.done[pages[c][q]]
<1> DEFINE N == Len(pages[c]) - 1
           S == {n \in 1 .. N : \A i \in 1 .. n : gpu.done[pages[c][i]]}
<1>1. Skipped(c) = Cardinality(S)
  BY DEF Skipped
<1>2. N \in Int
  OBVIOUS
<1> HIDE DEF N
<1>3. IsFiniteSet(1 .. N) /\ S \subseteq 1 .. N
  BY <1>2, FS_Interval
<1>4. IsFiniteSet(S) /\ Cardinality(S) \in Nat
  BY <1>3, FS_Subset, FS_CardinalityType
<1>5. ASSUME NEW q \in 1 .. Cardinality(S) PROVE q \in S
  <2> SUFFICES ASSUME q \notin S PROVE FALSE
    OBVIOUS
  <2>1. q \in Nat \ {0} /\ q <= Cardinality(S)
    BY <1>4
  <2>2. ASSUME NEW n \in S PROVE n \in 1 .. q - 1
    <3>1. n \in 1 .. N /\ \A i \in 1 .. n : gpu.done[pages[c][i]]
      OBVIOUS
    <3>2. CASE q <= n
      <4>1. q \in 1 .. N /\ \A i \in 1 .. q : i \in 1 .. n
        BY <1>2, <2>1, <3>1, <3>2
      <4> QED
        BY <3>1, <4>1
    <3>3. CASE n < q
      BY <1>2, <2>1, <3>1, <3>3
    <3> QED
      BY <1>2, <2>1, <3>1, <3>2, <3>3
  <2> HIDE DEF S
  <2>3. S \subseteq 1 .. q - 1
    BY <2>2
  <2> DEFINE x == q - 1
  <2>4. x \in Int /\ x >= 0
    BY <2>1
  <2> DEFINE T == 1 .. x
  <2>5. S \subseteq T
    BY <2>3
  <2> HIDE DEF x
  <2>6. IsFiniteSet(T) /\ Cardinality(T) = x
    <3>1. x \in Nat
      BY <2>4
    <3> QED
      BY <3>1, UpToCount
  <2> HIDE DEF T
  <2>7. Cardinality(S) <= Cardinality(T)
    BY <2>5, <2>6, FS_Subset
  <2>8. Cardinality(S) <= x
    BY <2>6, <2>7
  <2>9. x = q - 1
    BY DEF x
  <2> QED
    BY <1>4, <2>1, <2>8, <2>9
<1>6. ASSUME NEW q \in 1 .. Cardinality(S) PROVE q \in 1 .. N /\ gpu.done[pages[c][q]]
  <2>1. q \in 1 .. N /\ \A i \in 1 .. q : gpu.done[pages[c][i]]
    BY <1>5
  <2>2. q \in 1 .. q
    BY <1>2, <2>1
  <2> QED
    BY <2>1, <2>2
<1> HIDE DEF S
<1> QED
  BY <1>1, <1>4, <1>6 DEF N

\* The words that are written are in the table.
LEMMA WrittenWords ==
    ASSUME PoolInv, NEW d \in Conv, job[d] \in {"prompt", "decode"}, NEW l \in Written(d)
    PROVE  /\ status[d] = "running" /\ l \in 1 .. Reach(words[d], job[d])
           /\ Spot(d, l) = <<pages[d][PlaceOf(l)], SlotOf(l)>>
<1>1. status[d] = "running"
  BY MarkedInTable
<1>2. Len(words[d]) \in Nat \ {0} /\ Len(pages[d]) \in Nat /\ PageSize \in Nat
  BY <1>1, RunFacts, PrefixAssumption
<1>3. Reach(words[d], job[d]) = Len(words[d])
  BY DEF Reach
<1>4. CASE job[d] = "prompt"
  <2>1. l \in Skipped(d) * PageSize + 1 .. Len(words[d])
    BY <1>4 DEF Written
  <2>2. Skipped(d) * PageSize \in Nat
    <3>1. Skipped(d) \in Nat
      BY <1>2, SkippedFirst
    <3> QED
      BY <1>2, <3>1
  <2>3. l \in 1 .. Len(words[d])
    BY <1>2, <2>1, <2>2
  <2> QED
    BY <1>1, <1>3, <2>3 DEF Spot, PlaceOf, SlotOf
<1>5. CASE job[d] = "decode"
  <2>1. l = Len(words[d])
    BY <1>5 DEF Written
  <2> QED
    BY <1>1, <1>2, <1>3, <2>1 DEF Spot, PlaceOf, SlotOf
<1> QED
  BY <1>4, <1>5

\* What a page holds after the step.
LEMMA StepWrites ==
    ASSUME KVParts, Execute, NEW p \in Page, NEW s \in 1 .. PageSize
    PROVE  Wrote(kv'["gpu"], p, s)
<1> DEFINE busy == {c \in Conv : job[c] \in {"prompt", "decode"}}
           spots == UNION {{<<Spot(c, i), SubSeq(words[c], 1, i)>> : i \in Written(c)} : c \in busy}
           cpuKv == Copied(moves.out, kv["gpu"], kv["cpu"])
           base == Copied(moves.in, cpuKv, kv["gpu"])
           gpuKv == Copied(moves.copy, base, base)
           new == [x \in Page |-> [i \in 1 .. PageSize |->
                      IF \E w \in spots : w[1] = <<x, i>>
                      THEN (CHOOSE w \in spots : w[1] = <<x, i>>)[2]
                      ELSE gpuKv[x][i]]]
<1>1. kv' = [d \in {"gpu", "cpu"} |-> IF d = "cpu" THEN cpuKv ELSE new]
  BY DEF Execute
<1> HIDE DEF new, cpuKv
<1>2. kv'["gpu"] = new
  BY <1>1
<1>3. moves.in = {} /\ CopiesFit
  BY DEF KVParts, OneWay
<1>4. \A x \in Page : base[x] = kv["gpu"][x]
  BY <1>3 DEF Copied
<1> HIDE DEF base
<1>5. gpuKv[p] = Before(p)
  <2>1. CASE CopyTo(p)
    <3> DEFINE mv == CHOOSE mv \in moves.copy : mv[2] = p
    <3>1. mv \in moves.copy
      BY <2>1 DEF CopyTo
    <3>2. gpuKv[p] = base[mv[1]] /\ Before(p) = kv["gpu"][mv[1]]
      BY <2>1 DEF CopyTo, Copied, Before
    <3> HIDE DEF mv
    <3>3. mv[1] \in Page
      BY <1>3, <3>1 DEF CopiesFit, CopyFits
    <3> QED
      BY <1>4, <3>2, <3>3
  <2>2. CASE ~CopyTo(p)
    BY <1>4, <2>2 DEF CopyTo, Copied, Before
  <2> QED
    BY <2>1, <2>2
<1> HIDE DEF gpuKv, spots
<1>6. new[p][s] = IF \E w \in spots : w[1] = <<p, s>>
                  THEN (CHOOSE w \in spots : w[1] = <<p, s>>)[2] ELSE gpuKv[p][s]
  BY DEF new
<1>7. \A w : w \in spots <=> \E d \in Conv :
         /\ job[d] \in {"prompt", "decode"}
         /\ \E l \in Written(d) : w = <<Spot(d, l), SubSeq(words[d], 1, l)>>
  BY DEF spots
<1>8. CASE \E w \in spots : w[1] = <<p, s>>
  <2> DEFINE w == CHOOSE w \in spots : w[1] = <<p, s>>
  <2>1. w \in spots /\ w[1] = <<p, s>>
    BY <1>8
  <2>2. new[p][s] = w[2]
    BY <1>6, <1>8
  <2> HIDE DEF w
  <2>3. PICK d \in Conv : /\ job[d] \in {"prompt", "decode"}
                          /\ \E l \in Written(d) : w = <<Spot(d, l), SubSeq(words[d], 1, l)>>
    BY <1>7, <2>1
  <2>4. PICK l \in Written(d) : w = <<Spot(d, l), SubSeq(words[d], 1, l)>>
    BY <2>3
  <2>5. Spot(d, l) = <<p, s>> /\ new[p][s] = SubSeq(words[d], 1, l)
    BY <2>1, <2>2, <2>4
  <2>6. WrittenAt(p, s, new[p][s])
    BY <2>3, <2>5 DEF WrittenAt
  <2> QED
    BY <1>2, <2>6 DEF Wrote
<1>9. CASE ~\E w \in spots : w[1] = <<p, s>>
  <2>1. new[p][s] = Before(p)[s]
    BY <1>5, <1>6, <1>9
  <2>2. ASSUME NEW v, WrittenAt(p, s, v) PROVE FALSE
    <3>1. PICK d \in Conv : /\ job[d] \in {"prompt", "decode"}
                            /\ \E l \in Written(d) : Spot(d, l) = <<p, s>>
      BY <2>2 DEF WrittenAt
    <3>2. PICK l \in Written(d) : Spot(d, l) = <<p, s>>
      BY <3>1
    <3> DEFINE w == <<Spot(d, l), SubSeq(words[d], 1, l)>>
    <3>3. w \in spots
      BY <1>7, <3>1
    <3>4. w[1] = <<p, s>>
      BY <3>2
    <3> QED
      BY <1>9, <3>3, <3>4
  <2> QED
    BY <1>2, <2>1, <2>2 DEF Wrote
<1> QED
  BY <1>8, <1>9

\* What a page that is done holds are the words of every sequence that has it.
LEMMA DoneHolds ==
    ASSUME PoolInv, HashesFit(gpu, pages, status, words, job), CachedHeld,
           NEW c \in Conv, status[c] = "running", NEW k \in 1 .. Reach(words[c], job[c]),
           gpu.done[pages[c][PlaceOf(k)]]
    PROVE  Holds(kv["gpu"], pages[c][PlaceOf(k)], words[c], k)
<1> DEFINE i == PlaceOf(k)
           p == pages[c][i]
           h == gpu.hash[p]
           w == words[c]
           n == Reach(w, job[c])
<1>1. /\ k \in Nat \ {0} /\ i \in 1 .. Len(pages[c]) /\ p \in Page
      /\ (i - 1) * PageSize < k /\ k <= i * PageSize /\ i \in Nat \ {0}
  BY WordsInTable, PlaceFacts
<1>2. w \in Seq(Word) /\ Len(w) \in Nat /\ n \in Nat /\ n <= Len(w) /\ PageSize \in Nat
  BY RunFacts, PrefixAssumption
<1>3. EndsPage(h) /\ HoldsPage(kv["gpu"], p, h)
  BY <1>1 DEF CachedHeld
<1>4. PlaceFits(h, i, w, n)
  BY <1>1 DEF HashesFit, TablesHashed
<1> HIDE DEF h, i, p, w, n
<1>5. Len(h) = i * PageSize /\ Len(h) <= n /\ h = SubSeq(w, 1, Len(h))
  BY <1>1, <1>2, <1>3, <1>4, FullPlace
<1>6. k \in Len(h) - PageSize + 1 .. Len(h) /\ k \in 1 .. Len(h) /\ Len(h) \in 1 .. Len(w)
  <2>1. (i - 1) * PageSize = i * PageSize - PageSize /\ i * PageSize \in Nat
    BY <1>1, <1>2
  <2> QED
    BY <1>1, <1>2, <1>5, <2>1
<1>7. SubSeq(h, 1, k) = SubSeq(w, 1, k)
  BY <1>2, <1>5, <1>6, FirstWords
<1>8. Holds(kv["gpu"], p, h, k)
  BY <1>3, <1>6 DEF HoldsPage
<1>9. Holds(kv["gpu"], p, w, k)
  BY <1>7, <1>8 DEF Holds
<1> QED
  BY <1>9 DEF p, i, w

\* A word that is neither written nor copied to its page is there.
LEMMA StaysHeld ==
    ASSUME PoolInv, KVParts, Planning, NEW c \in Conv, status[c] = "running",
           NEW k \in 1 .. Reach(words[c], job[c]), ~CopyTo(pages[c][PlaceOf(k)]),
           job[c] \in {"prompt", "decode"} => k \notin Written(c)
    PROVE  Holds(kv["gpu"], pages[c][PlaceOf(k)], words[c], k)
<1>1. /\ HashesFit(gpu, pages, status, words, job)
      /\ ResultsHeld /\ SlotsAwait /\ CachedHeld
  BY DEF KVParts
<1>2. /\ k \in Nat \ {0} /\ Len(words[c]) \in Nat /\ Len(pages[c]) \in Nat
      /\ k \in 1 .. Len(words[c]) /\ PageSize \in Nat
  BY WordsInTable, RunFacts, PrefixAssumption
<1>3. job[c] \in {"none", "prompt", "decode"}
  <2>1. /\ job[c] \in {"none", "out", "prompt", "decode", "sampled"}
        /\ Fits(words[c], status[c], pages[c], job[c])
    BY DEF PoolInv, ConvTypes
  <2> QED
    BY <2>1 DEF Fits, Planning, Doing
<1>4. CASE job[c] = "none"
  BY <1>1, <1>4 DEF ResultsHeld
<1>5. CASE job[c] = "prompt"
  <2>1. k \notin Skipped(c) * PageSize + 1 .. Len(words[c])
    BY <1>5 DEF Written
  <2>2. Skipped(c) \in Nat
    BY <1>2, SkippedFirst
  <2>3. Skipped(c) * PageSize \in Nat
    BY <1>2, <2>2
  <2>4. k <= Skipped(c) * PageSize
    BY <1>2, <2>1, <2>3
  <2>5. PlaceOf(k) \in 1 .. Skipped(c)
    <3> DEFINE i == PlaceOf(k)
               q == Skipped(c)
    <3>1. i \in Nat \ {0} /\ (i - 1) * PageSize < k
      BY <1>2, PlaceFacts
    <3> HIDE DEF i, q
    <3>2. CASE q < i
      <4>1. q <= i - 1 /\ i - 1 \in Nat /\ q \in Nat
        BY <2>2, <3>1, <3>2 DEF q
      <4>2. q * PageSize <= (i - 1) * PageSize /\ (i - 1) * PageSize \in Nat
        BY <1>2, <4>1
      <4> QED
        BY <1>2, <2>3, <2>4, <3>1, <4>2 DEF q
    <3> QED
      BY <2>2, <3>1, <3>2 DEF q, i
  <2>6. gpu.done[pages[c][PlaceOf(k)]]
    BY <1>2, <2>5, SkippedFirst
  <2> QED
    BY <1>1, <2>6, DoneHolds
<1>6. CASE job[c] = "decode"
  <2>1. k # Len(words[c])
    BY <1>6 DEF Written
  <2>2. k \in 1 .. Len(words[c]) - 1
    BY <1>2, <2>1
  <2> QED
    BY <1>1, <1>6, <2>2 DEF SlotsAwait
<1> QED
  BY <1>3, <1>4, <1>5, <1>6

\* A word that is not written comes with the page that is copied there.
LEMMA CopyBrings ==
    ASSUME PoolInv, KVParts, NEW c \in Conv, status[c] = "running",
           NEW k \in 1 .. Reach(words[c], job[c]), NEW mv \in moves.copy,
           mv[2] = pages[c][PlaceOf(k)],
           \A v : ~WrittenAt(pages[c][PlaceOf(k)], SlotOf(k), v)
    PROVE  Holds(kv["gpu"], mv[1], words[c], k)
<1> DEFINE p == pages[c][PlaceOf(k)]
<1>1. HashesFit(gpu, pages, status, words, job) /\ CopiesFit
  BY DEF KVParts
<1>2. PICK e \in Conv : CopyFits(mv, e)
  BY <1>1 DEF CopiesFit
<1>3. /\ status[e] = "running" /\ job[e] = "decode" /\ mv[2] = pages[e][Logical(e)]
      /\ gpu.hash[mv[2]] \in FreshHash \/ Len(words[e]) % PageSize = 0
      /\ \A j \in 1 .. Len(words[e]) - 1 :
            PlaceOf(j) = Logical(e) => Holds(kv["gpu"], mv[1], words[e], j)
  BY <1>2 DEF CopyFits
<1> DEFINE n == Len(words[e])
<1>4. /\ k \in Nat \ {0} /\ PlaceOf(k) \in 1 .. Len(pages[c]) /\ n \in Nat \ {0}
      /\ Reach(words[e], job[e]) = n /\ Len(pages[e]) = PagesFor(n)
  BY <1>3, WordsInTable, RunFacts
<1>5. Logical(e) = PagesFor(n)
  BY DEF Logical, PagesFor
<1> HIDE DEF n
<1>6. /\ Logical(e) \in 1 .. Len(pages[e]) /\ PlaceOf(n) = Logical(e)
      /\ n % PageSize = 0 => n = Logical(e) * PageSize
  <2>1. n \in Nat \ {0}
    BY <1>4
  <2>2. /\ PagesFor(n) \in Nat \ {0} /\ PlaceOf(n) = PagesFor(n)
        /\ n % PageSize = 0 => n = PagesFor(n) * PageSize
    BY <2>1, LastPlace
  <2>3. PagesFor(n) \in 1 .. Len(pages[e])
    BY <1>4, <2>2
  <2> QED
    BY <1>5, <2>2, <2>3
<1> DEFINE i == PlaceOf(k)
           l == Logical(e)
<1>11. pages[c][i] = pages[e][l] /\ i \in 1 .. Len(pages[c]) /\ l \in 1 .. Len(pages[e])
  BY <1>3, <1>4, <1>6
<1> HIDE DEF i, l
<1>12. /\ i = l
       /\ c # e => gpu.hash[pages[c][i]] \in Seq(Word)
  BY <1>1, <1>3, <1>11, SamePlace
<1>7. PlaceOf(k) = Logical(e)
  BY <1>12 DEF i, l
<1>8. CASE k < n
  <2>1. k \in 1 .. n - 1 /\ k \in 1 .. Reach(words[e], job[e])
    BY <1>4, <1>8
  <2>2. Holds(kv["gpu"], mv[1], words[e], k)
    BY <1>3, <1>7, <2>1 DEF n
  <2>3. SubSeq(words[c], 1, k) = SubSeq(words[e], 1, k)
    <3> DEFINE j == k
    <3>1. pages[c][PlaceOf(k)] = pages[e][PlaceOf(j)] /\ SlotOf(k) = SlotOf(j)
      BY <1>3, <1>7
    <3>2. j \in 1 .. Reach(words[e], job[e])
      BY <2>1
    <3> HIDE DEF j
    <3>3. status[e] = "running"
      BY <1>3
    <3>4. HashesFit(gpu, pages, status, words, job)
      BY <1>1
    <3>5. k = j /\ SubSeq(words[c], 1, k) = SubSeq(words[e], 1, j)
      BY <3>1, <3>2, <3>3, <3>4, WordsAgree
    <3> QED
      BY <3>5
  <2> QED
    BY <2>2, <2>3 DEF Holds
<1>9. CASE k = n
  <2>1. n \in Written(e)
    BY <1>3 DEF Written, n
  <2>2. Spot(e, n) = <<pages[e][PlaceOf(n)], SlotOf(n)>>
    BY <1>3, <2>1, WrittenWords
  <2>3. Spot(e, n) = <<p, SlotOf(k)>>
    BY <1>3, <1>6, <1>9, <2>2
  <2>4. WrittenAt(p, SlotOf(k), SubSeq(words[e], 1, n))
    BY <1>3, <2>1, <2>3 DEF WrittenAt
  <2> QED
    BY <2>4
<1>10. CASE k > n
  <2>1. c # e
    BY <1>4, <1>10
  <2>2. gpu.hash[mv[2]] \in Seq(Word)
    BY <1>12, <2>1 DEF i
  <2>3. n = Logical(e) * PageSize
    BY <1>3, <1>6, <2>2, FreshIsNoWords DEF n
  <2>4. k <= n
    BY <1>4, <1>7, <2>3, PlaceFacts
  <2> QED
    BY <1>4, <1>10, <2>4
<1> QED
  BY <1>4, <1>8, <1>9, <1>10

\* After the step every word that a sequence was to have is in its page.
LEMMA StepHolds ==
    ASSUME PoolInv, KVParts, Execute, NEW c \in Conv, status[c] = "running",
           NEW k \in 1 .. Reach(words[c], job[c])
    PROVE  Holds(kv'["gpu"], pages[c][PlaceOf(k)], words[c], k)
<1> DEFINE p == pages[c][PlaceOf(k)]
           s == SlotOf(k)
<1>1. p \in Page /\ s \in 1 .. PageSize
  BY WordsInTable
<1>2. Wrote(kv'["gpu"], p, s)
  BY <1>1, StepWrites
<1>3. HashesFit(gpu, pages, status, words, job)
  BY DEF KVParts
<1>4. CASE WrittenAt(p, s, kv'["gpu"][p][s])
  <2>1. PICK d \in Conv :
           /\ job[d] \in {"prompt", "decode"}
           /\ \E l \in Written(d) : /\ Spot(d, l) = <<p, s>>
                                    /\ kv'["gpu"][p][s] = SubSeq(words[d], 1, l)
    BY <1>4 DEF WrittenAt
  <2>2. PICK l \in Written(d) : /\ Spot(d, l) = <<p, s>>
                                /\ kv'["gpu"][p][s] = SubSeq(words[d], 1, l)
    BY <2>1
  <2>3. /\ status[d] = "running" /\ l \in 1 .. Reach(words[d], job[d])
        /\ Spot(d, l) = <<pages[d][PlaceOf(l)], SlotOf(l)>>
    BY <2>1, <2>2, WrittenWords
  <2>4. pages[c][PlaceOf(k)] = pages[d][PlaceOf(l)] /\ SlotOf(k) = SlotOf(l)
    BY <2>2, <2>3
  <2>5. SubSeq(words[c], 1, k) = SubSeq(words[d], 1, l)
    BY <1>3, <2>3, <2>4, WordsAgree
  <2> QED
    BY <2>2, <2>5 DEF Holds
<1>5. CASE (\A v : ~WrittenAt(p, s, v)) /\ kv'["gpu"][p][s] = Before(p)[s]
  <2>1. CASE CopyTo(p)
    <3> DEFINE mv == CHOOSE mv \in moves.copy : mv[2] = p
    <3>1. mv \in moves.copy /\ mv[2] = p
      BY <2>1 DEF CopyTo
    <3>2. Before(p) = kv["gpu"][mv[1]]
      BY <2>1 DEF Before
    <3> HIDE DEF mv
    <3>3. Holds(kv["gpu"], mv[1], words[c], k)
      BY <1>5, <3>1, CopyBrings
    <3> QED
      BY <1>5, <3>2, <3>3 DEF Holds
  <2>2. CASE ~CopyTo(p)
    <3>1. Before(p) = kv["gpu"][p]
      BY <2>2 DEF Before
    <3>2. ASSUME job[c] \in {"prompt", "decode"}, k \in Written(c) PROVE FALSE
      <4>1. Spot(c, k) = <<p, s>>
        BY <3>2, WrittenWords
      <4>2. WrittenAt(p, s, SubSeq(words[c], 1, k))
        BY <3>2, <4>1 DEF WrittenAt
      <4> QED
        BY <1>5, <4>2
    <3>3. Planning
      BY DEF Execute
    <3>4. Holds(kv["gpu"], p, words[c], k)
      BY <2>2, <3>2, <3>3, StaysHeld
    <3> QED
      BY <1>5, <3>1, <3>4 DEF Holds
  <2> QED
    BY <2>1, <2>2
<1> QED
  BY <1>2, <1>4, <1>5 DEF Wrote

\* A page that nobody has is neither written nor copied to.
LEMMA StepSpares ==
    ASSUME PoolInv, KVParts, Execute, NEW p \in Page, gpu.ref[p] = 0,
           NEW s \in 1 .. PageSize
    PROVE  kv'["gpu"][p][s] = kv["gpu"][p][s]
<1>1. ASSUME NEW v, WrittenAt(p, s, v) PROVE FALSE
  <2>1. PICK d \in Conv : /\ job[d] \in {"prompt", "decode"}
                          /\ \E l \in Written(d) : Spot(d, l) = <<p, s>>
    BY <1>1 DEF WrittenAt
  <2>2. PICK l \in Written(d) : Spot(d, l) = <<p, s>>
    BY <2>1
  <2>3. /\ status[d] = "running" /\ l \in 1 .. Reach(words[d], job[d])
        /\ Spot(d, l) = <<pages[d][PlaceOf(l)], SlotOf(l)>>
    BY <2>1, WrittenWords
  <2>4. p = pages[d][PlaceOf(l)] /\ PlaceOf(l) \in 1 .. Len(pages[d])
    BY <2>2, <2>3, WordsInTable
  <2>5. gpu.ref[p] > 0
    BY <2>3, <2>4, RunFacts
  <2> QED
    BY <2>5
<1>2. ~CopyTo(p)
  <2> SUFFICES ASSUME CopyTo(p) PROVE FALSE
    OBVIOUS
  <2>1. PICK mv \in moves.copy : mv[2] = p
    BY DEF CopyTo
  <2>2. PICK e \in Conv : CopyFits(mv, e)
    BY DEF KVParts, CopiesFit
  <2>3. status[e] = "running" /\ job[e] = "decode" /\ p = pages[e][Logical(e)]
    BY <2>1, <2>2 DEF CopyFits
  <2> DEFINE n == Len(words[e])
  <2>4. n \in Nat \ {0} /\ Len(pages[e]) = PagesFor(n)
    BY <2>3, RunFacts
  <2>5. Logical(e) = PagesFor(n)
    BY DEF Logical, PagesFor
  <2> HIDE DEF n
  <2>6. Logical(e) \in 1 .. Len(pages[e])
    BY <2>4, <2>5, LastPlace
  <2>7. gpu.ref[p] > 0
    BY <2>3, <2>6, RunFacts
  <2> QED
    BY <2>7
<1>3. Before(p) = kv["gpu"][p]
  BY <1>2 DEF Before
<1>4. Wrote(kv'["gpu"], p, s)
  BY StepWrites
<1> QED
  BY <1>1, <1>3, <1>4 DEF Wrote

LEMMA WholePages ==
    ASSUME NEW n \in Nat
    PROVE  n \div PageSize \in Int /\ PageSize * (n \div PageSize) <= n
<1>1. PageSize \in Nat /\ PageSize > 0
  BY PrefixAssumption
<1> QED
  BY <1>1

\* A page that the step marks is full of words that its sequence has.
LEMMA MarkedEnds ==
    ASSUME PoolInv, HashesFit(gpu, pages, status, words, job), NEW c \in Conv,
           job[c] \in {"prompt", "decode"}, NEW p \in Marked(c)
    PROVE  EndsPage(gpu.hash[p]) /\ gpu.ref[p] > 0
<1>1. status[c] = "running" /\ p \in ToSet(pages[c])
  BY MarkedInTable
<1> DEFINE w == words[c]
           n == Len(w)
           q == n \div PageSize
<1>2. /\ w \in Seq(Word) /\ n \in Nat /\ PageSize \in Nat \ {0}
      /\ Reach(w, job[c]) = n /\ Len(pages[c]) \in Nat /\ Len(pages[c]) = PagesFor(n)
      /\ \A i \in 1 .. Len(pages[c]) : pages[c][i] \in Page /\ gpu.ref[pages[c][i]] > 0
  BY <1>1, RunFacts, PrefixAssumption
<1>3. PICK i \in 1 .. q - 1 : p = pages[c][i]
  BY DEF Marked
<1>4. PagesFor(n) \in Nat /\ n <= PageSize * PagesFor(n)
  <2> HIDE DEF n
  <2> QED
    BY <1>2, PagesForFacts
<1> HIDE DEF n
<1>5. q \in Int /\ PageSize * q <= n
  BY <1>2, WholePages
<1> HIDE DEF q
<1>6. i \in Nat \ {0} /\ i * PageSize <= n
  <2>1. i \in Nat \ {0} /\ i <= q
    BY <1>3, <1>5
  <2>2. i * PageSize <= q * PageSize /\ q * PageSize = PageSize * q /\ i * PageSize \in Nat
    BY <1>2, <1>5, <2>1
  <2> QED
    BY <1>2, <1>5, <2>1, <2>2
<1>7. i \in 1 .. Len(pages[c])
  <2>1. i <= PagesFor(n)
    <3> DEFINE r == PagesFor(n)
    <3>1. r \in Nat /\ i * PageSize <= PageSize * r
      BY <1>2, <1>4, <1>6
    <3> HIDE DEF r
    <3>2. CASE r < i
      <4>1. PageSize * (r + 1) <= i * PageSize
        BY <1>2, <1>6, <3>1, <3>2
      <4>2. PageSize * (r + 1) = PageSize * r + PageSize /\ PageSize * r \in Nat
        BY <1>2, <3>1
      <4> QED
        BY <1>2, <1>6, <3>1, <4>1, <4>2
    <3> QED
      BY <1>6, <3>1, <3>2 DEF r
  <2> QED
    BY <1>2, <1>6, <2>1
<1>8. PlaceFits(gpu.hash[p], i, w, n)
  BY <1>1, <1>2, <1>3, <1>7 DEF HashesFit, TablesHashed
<1>9. EndsPage(gpu.hash[p])
  <2> HIDE DEF w
  <2> QED
    BY <1>2, <1>6, <1>8, PastPlace
<1> QED
  BY <1>2, <1>3, <1>7, <1>9

\* A full page that is in use holds its words after the step.
LEMMA StepFills ==
    ASSUME PoolInv, KVParts, Execute, NEW p \in Page, EndsPage(gpu.hash[p]), gpu.ref[p] > 0
    PROVE  HoldsPage(kv'["gpu"], p, gpu.hash[p])
<1>1. PICK d \in Conv : status[d] = "running" /\ \E i \in 1 .. Len(pages[d]) : pages[d][i] = p
  BY HolderExists
<1>2. PICK i \in 1 .. Len(pages[d]) : pages[d][i] = p
  BY <1>1
<1> DEFINE h == gpu.hash[p]
           w == words[d]
           n == Reach(w, job[d])
<1>3. /\ w \in Seq(Word) /\ n \in Nat /\ Len(w) \in Nat /\ n <= Len(w)
      /\ Len(pages[d]) \in Nat /\ PageSize \in Nat \ {0}
  BY <1>1, RunFacts, PrefixAssumption
<1>4. i \in Nat \ {0} /\ PlaceFits(h, i, w, n)
  BY <1>1, <1>2, <1>3 DEF KVParts, HashesFit, TablesHashed
<1> HIDE DEF w, n, h
<1>5. Len(h) = i * PageSize /\ Len(h) <= n /\ h = SubSeq(w, 1, Len(h))
  BY <1>3, <1>4, FullPlace DEF h
<1>6. (i - 1) * PageSize = i * PageSize - PageSize /\ i * PageSize \in Nat
      /\ (i - 1) * PageSize \in Nat
  BY <1>3, <1>4
<1>7. ASSUME NEW k \in Len(h) - PageSize + 1 .. Len(h) PROVE Holds(kv'["gpu"], p, h, k)
  <2>1. /\ k \in Nat \ {0} /\ (i - 1) * PageSize < k /\ k <= i * PageSize /\ k \in 1 .. n
        /\ k \in 1 .. Len(h) /\ Len(h) \in 1 .. Len(w)
    BY <1>3, <1>5, <1>6
  <2>2. PlaceOf(k) = i
    BY <1>4, <2>1, PlaceIs
  <2>3. k \in 1 .. Reach(words[d], job[d])
    BY <2>1 DEF n, w
  <2>4. Holds(kv'["gpu"], pages[d][PlaceOf(k)], words[d], k)
    BY <1>1, <2>3, StepHolds
  <2>5. Holds(kv'["gpu"], p, w, k)
    BY <1>2, <2>2, <2>4 DEF w
  <2>6. SubSeq(h, 1, k) = SubSeq(w, 1, k)
    BY <1>3, <1>5, <2>1, FirstWords
  <2> QED
    BY <2>5, <2>6 DEF Holds
<1> QED
  BY <1>7 DEF HoldsPage, h

\* The model step.
LEMMA KVExecute == ASSUME PoolInv, KVParts, Execute PROVE KVParts'
<1> DEFINE busy == {c \in Conv : job[c] \in {"prompt", "decode"}}
           last == Accessed(UNION {ToSet(pages[c]) : c \in busy})
           done == [p \in Page |-> gpu.done[p] \/ \E c \in busy : p \in Marked(c)]
<1>1. /\ OneWay /\ HashesFit(gpu, pages, status, words, job) /\ CachedHeld
  BY DEF KVParts
<1>2. /\ gpu' = [gpu EXCEPT !.last = last, !.done = done]
      /\ job' = [c \in Conv |-> IF job[c] \in {"prompt", "decode"} THEN "sampled" ELSE "none"]
      /\ words' = words /\ status' = status /\ pages' = pages /\ moves' = NoMoves
      /\ Planning
  BY DEF Execute
<1>3. PoolShape(gpu)
  BY DEF PoolInv, Serves, Sound
<1>4. \A p \in Page : done[p] => gpu.done[p] \/ \E c \in busy : p \in Marked(c)
  OBVIOUS
<1> HIDE DEF last, done
<1>5. gpu'.hash = gpu.hash /\ gpu'.ref = gpu.ref /\ gpu'.done = done
  BY <1>2, <1>3 DEF PoolShape
<1>6. ASSUME NEW c \in Conv
      PROVE  /\ job'[c] \in {"none", "sampled"}
             /\ status[c] = "running" => (job'[c] = "none" <=> job[c] = "none")
  <2>1. /\ job[c] \in {"none", "out", "prompt", "decode", "sampled"}
        /\ Fits(words[c], status[c], pages[c], job[c])
    BY DEF PoolInv, ConvTypes
  <2> QED
    BY <1>2, <2>1 DEF Fits, Planning, Doing
<1>7. \A c \in Conv : status[c] = "running" => Reach(words[c], job'[c]) = Reach(words[c], job[c])
  BY <1>6 DEF Reach
<1>8. OneWay'
  <2>1. moves' = [out |-> {}, in |-> {}, copy |-> moves'.copy] /\ moves'.copy = {}
    BY <1>2 DEF NoMoves
  <2>2. ~(Doing("prompt") /\ Doing("decode"))'
    BY <1>6 DEF Doing
  <2> QED
    BY <1>1, <1>2, <2>1, <2>2 DEF OneWay
<1>9. HashesFit(gpu', pages', status', words', job')
  <2>1. TablesHashed(gpu, pages, status, words, job) /\ SharersHashed(gpu, pages, status, words, job)
    BY <1>1 DEF HashesFit
  <2>2. TablesHashed(gpu', pages, status, words, job')
    BY <1>5, <1>7, <2>1 DEF TablesHashed
  <2>3. SharersHashed(gpu', pages, status, words, job')
    BY <1>5, <1>7, <2>1 DEF SharersHashed
  <2> QED
    BY <1>2, <2>2, <2>3 DEF HashesFit
<1>10. ResultsHeld'
  <2>1. ASSUME NEW c \in Conv, status[c] = "running", NEW k \in 1 .. Reach(words[c], job'[c])
        PROVE  Holds(kv'["gpu"], pages[c][PlaceOf(k)], words[c], k)
    BY <1>7, <2>1, StepHolds
  <2> QED
    BY <1>2, <2>1 DEF ResultsHeld
<1>11. SlotsAwait'
  BY <1>6 DEF SlotsAwait
<1>12. CopiesFit'
  BY <1>2 DEF CopiesFit, NoMoves
<1>13. CachedHeld'
  <2>1. ASSUME NEW p \in Page
        PROVE  /\ done[p] => EndsPage(gpu.hash[p])
               /\ EndsPage(gpu.hash[p]) /\ (done[p] \/ gpu.ref[p] = 0) =>
                      HoldsPage(kv'["gpu"], p, gpu.hash[p])
    <3>1. gpu.ref[p] \in Nat
      BY <1>3 DEF PoolShape
    <3>2. /\ gpu.done[p] => EndsPage(gpu.hash[p])
          /\ EndsPage(gpu.hash[p]) /\ gpu.ref[p] = 0 => HoldsPage(kv["gpu"], p, gpu.hash[p])
      BY <1>1 DEF CachedHeld
    <3>3. done[p] => EndsPage(gpu.hash[p])
      BY <1>1, <1>4, <3>2, MarkedEnds
    <3>4. ASSUME EndsPage(gpu.hash[p]) PROVE HoldsPage(kv'["gpu"], p, gpu.hash[p])
      <4>1. CASE gpu.ref[p] > 0
        BY <3>4, <4>1, StepFills
      <4>2. CASE gpu.ref[p] = 0
        <5> DEFINE h == gpu.hash[p]
        <5>1. HoldsPage(kv["gpu"], p, h)
          BY <3>2, <3>4, <4>2
        <5>2. h \in Seq(Word) /\ h # <<>> /\ Len(h) % PageSize = 0
          BY <3>4 DEF EndsPage
        <5> HIDE DEF h
        <5>3. Len(h) \in Nat \ {0} /\ PageSize \in Nat \ {0}
          BY <5>2, LenProperties, EmptySeq, PrefixAssumption
        <5>4. ASSUME NEW k \in Len(h) - PageSize + 1 .. Len(h) PROVE Holds(kv'["gpu"], p, h, k)
          <6>1. k \in Nat \ {0}
            <7>1. Len(h) >= PageSize
              <8> DEFINE n == Len(h)
              <8>1. n \in Nat \ {0} /\ n % PageSize = 0
                BY <5>2, <5>3
              <8> HIDE DEF n
              <8>2. n >= PageSize
                BY <5>3, <8>1
              <8> QED
                BY <8>2 DEF n
            <7> QED
              BY <5>3, <7>1
          <6>2. SlotOf(k) \in 1 .. PageSize
            BY <6>1, PlaceFacts
          <6>3. kv'["gpu"][p][SlotOf(k)] = kv["gpu"][p][SlotOf(k)]
            BY <4>2, <6>2, StepSpares
          <6>4. Holds(kv["gpu"], p, h, k)
            BY <5>1 DEF HoldsPage
          <6> QED
            BY <6>3, <6>4 DEF Holds
        <5> QED
          BY <5>4 DEF HoldsPage, h
      <4> QED
        BY <3>1, <4>1, <4>2
    <3> QED
      BY <3>3, <3>4
  <2> QED
    BY <1>5, <2>1 DEF CachedHeld
<1> QED
  BY <1>8, <1>9, <1>10, <1>11, <1>12, <1>13 DEF KVParts

\* Every step of the prefix cache keeps what its pages hold.
LEMMA KVStep ==
    ASSUME PoolInv, KVInv, [PrefixNext]_prefixVars
    PROVE  KVInv'
<1> SUFFICES ASSUME ~swaps' PROVE KVParts'
  BY Zenon DEF KVInv
<1>1. swaps' = swaps
  BY ZenonT(40) DEF PrefixNext, prefixVars, Admit, Decode, SwapOutPages, SwapInPages, Recompute,
         AbortConv, FinishConv, Sample, DropPages, Execute
<1>2. ~swaps /\ KVParts
  BY <1>1 DEF KVInv
<1>3. CASE PrefixNext
  <2>1. ASSUME NEW c \in Conv, NEW w \in Word, Sample(c, w) PROVE KVParts'
    BY <1>2, <2>1, KVSample
  <2>2. ASSUME NEW c \in Conv, Recompute(c) \/ AbortConv(c) \/ FinishConv(c) PROVE KVParts'
    <3>1. job[c] \in {"none", "sampled"}
      BY <2>2 DEF Recompute, AbortConv, FinishConv, NothingScheduled
    <3>2. DropPages(c, "waiting") \/ DropPages(c, "gone")
      BY <2>2 DEF Recompute, AbortConv, FinishConv
    <3> QED
      BY <1>2, <3>1, <3>2, KVDrop
  <2>3. ASSUME NEW c \in Conv, Admit(c) PROVE KVParts'
    BY <1>2, <2>3, KVAdmit
  <2>4. ASSUME NEW c \in Conv, Decode(c) PROVE KVParts'
    BY <1>2, <2>4, KVDecode
  <2>5. ASSUME NEW c \in Conv, SwapOutPages(c) \/ SwapInPages(c) PROVE FALSE
    <3>1. status[c] # "swapped"
      BY <1>2 DEF KVParts, OneWay
    <3> QED
      BY <1>2, <2>5, <3>1 DEF SwapOutPages, SwapInPages
  <2>6. CASE Execute
    BY <1>2, <2>6, KVExecute
  <2> QED
    BY <1>3, <2>1, <2>2, <2>3, <2>4, <2>5, <2>6 DEF PrefixNext
<1>4. CASE UNCHANGED prefixVars
  BY <1>2, <1>4 DEF prefixVars, KVParts, OneWay, HashesFit, TablesHashed, SharersHashed,
         ResultsHeld, SlotsAwait, CopiesFit, CopyFits, CopyTo, CachedHeld, Doing, Logical
<1> QED
  BY <1>3, <1>4

\* The inductive invariant of the contents: without swaps the hash at each place
\* of a table is a number or the words its sequence had when the page got it; of
\* two sequences that share a page one has nothing in it beyond its hash; every
\* word that has been computed is in its slot or in the page that will be copied
\* there; and a page that can be used again holds what its hash says.
THEOREM PrefixContents == PrefixSpec => [](PoolInv /\ KVInv)
<1>1. PrefixInit => PoolInv /\ KVInv
  BY PoolInit, KVInit
<1>2. PoolInv /\ KVInv /\ [PrefixNext]_prefixVars => (PoolInv /\ KVInv)'
  BY PoolStep, KVStep
<1> QED
  BY <1>1, <1>2, PTL DEF PrefixSpec

\* Without swaps every sequence that runs finds, after each step, the keys and
\* values of its own words in its pages, those it has computed and those it has
\* skipped because the pages were computed for another sequence: for every page
\* size, every number of pages and conversations and all prompts, through
\* promotions, copies on write, evictions, recomputation and aborts.
THEOREM PrefixKVOfOwnWords == PrefixSpec => []KVOfOwnWords
<1>1. ASSUME PoolInv, KVInv PROVE KVOfOwnWords
  <2> SUFFICES ASSUME ~swaps, Settled, NEW c \in Conv, status[c] = "running",
                      NEW k \in Computed(c)
               PROVE  kv["gpu"][Spot(c, k)[1]][Spot(c, k)[2]] = SubSeq(words[c], 1, k)
    BY DEF KVOfOwnWords, KVIsOwn
  <2>1. job[c] \in {"none", "sampled"}
    BY DEF Settled
  <2>5. ResultsHeld
    BY <1>1 DEF KVInv, KVParts
  <2>2. k \in 1 .. Reach(words[c], job[c])
    BY <2>1 DEF Computed, Reach
  <2>3. Holds(kv["gpu"], pages[c][PlaceOf(k)], words[c], k)
    BY <2>1, <2>2, <2>5 DEF ResultsHeld
  <2>4. Spot(c, k) = <<pages[c][PlaceOf(k)], SlotOf(k)>>
    BY DEF Spot, PlaceOf, SlotOf
  <2> QED
    BY <2>3, <2>4 DEF Holds
<1>2. PoolInv /\ KVInv => KVOfOwnWords
  BY <1>1
<1> QED
  BY <1>2, PrefixContents, PTL

==============================================================================
