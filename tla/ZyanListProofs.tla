--------------------------- MODULE ZyanListProofs ---------------------------
(***************************************************************************)
(* Proofs about ZyanList for every number of nodes, slots and elements.    *)
(***************************************************************************)
EXTENDS ZyanList, FiniteSetTheorems, SequenceTheorems, TLAPS

LEMMA LeastNatural ==
  ASSUME NEW T \in SUBSET Nat, T # {}
  PROVE  \E m \in T : \A n \in T : m <= n
<1> DEFINE R == StrictSubsetOrdering(Nat)
           F == {0 .. n : n \in T}
<1>1. F \subseteq FiniteSubsetsOf(Nat) /\ F # {}
  <2>1. \A n \in T : 0 .. n \in SUBSET Nat /\ IsFiniteSet(0 .. n)
    BY FS_Interval
  <2> QED
    BY <2>1 DEF FiniteSubsetsOf
<1>2. \E x \in F : \A y \in F : ~(<<y, x>> \in R)
  <2> HIDE DEF R, F
  <2>1. IsWellFoundedOn(R, FiniteSubsetsOf(Nat))
    BY FS_StrictSubsetOrderingWellFounded DEF R
  <2> QED
    BY <1>1, <2>1, WFMin
<1>3. PICK m \in T : \A n \in T : ~(<<0 .. n, 0 .. m>> \in R)
  BY <1>2
<1>4. ASSUME NEW n \in T, n < m PROVE FALSE
  <2>1. /\ 0 .. n \in SUBSET Nat /\ 0 .. m \in SUBSET Nat
        /\ 0 .. n \subseteq 0 .. m /\ m \in 0 .. m /\ m \notin 0 .. n
    BY <1>4
  <2>2. <<0 .. n, 0 .. m>> \in R
    BY <2>1 DEF StrictSubsetOrdering
  <2> QED
    BY <1>3, <2>2
<1> QED
  BY <1>4

\* What holds of zero, and of n + 1 whenever it holds of n
LEMMA Induction ==
  ASSUME NEW T \in SUBSET Nat, 0 \in T, \A n \in T : n + 1 \in T
  PROVE  T = Nat
<1> SUFFICES ASSUME Nat \ T # {} PROVE FALSE
  OBVIOUS
<1>1. PICK m \in Nat \ T : \A n \in Nat \ T : m <= n
  BY LeastNatural
<1>2. m - 1 \in T /\ m = (m - 1) + 1
  BY <1>1
<1> QED
  BY <1>1, <1>2

Strung(start, link, s) ==
  /\ s \in Seq(Nodes)
  /\ \A i, j \in 1..Len(s) : s[i] = s[j] => i = j
  /\ start = IF s = << >> THEN Null ELSE s[1]
  /\ \A i \in 1..Len(s) : link[s[i]] = IF i = Len(s) THEN Null ELSE s[i + 1]

LEMMA WalkIs ==
  ASSUME NEW start, NEW link, NEW s, Strung(start, link, s), Len(s) <= MaxNodes
  PROVE  Walk(start, link) = s
<1> DEFINE Stepped(p) == LET n == IF p = << >> THEN start ELSE link[p[Len(p)]]
                         IN  IF n = Null THEN p ELSE Append(p, n)
           step == CHOOSE f : f = [k \in 0..MaxNodes |->
                       IF k = 0 THEN << >> ELSE Stepped(f[k - 1])]
           Short(k) == IF k <= Len(s) THEN k ELSE Len(s)
           First(k) == SubSeq(s, 1, Short(k))
           g == [k \in 0..MaxNodes |-> First(k)]
<1>1. Walk(start, link) = step[MaxNodes]
  BY Zenon DEF Walk
<1>2. MaxNodes \in Nat /\ s \in Seq(Nodes) /\ Len(s) \in Nat /\ Null \notin Nodes
  BY ListAssumption DEF Strung, Nodes, Null
<1>3. /\ First(0) = << >>
      /\ \A k \in 1..MaxNodes : First(k) = Stepped(First(k - 1))
  <2>1. First(0) = << >>
    BY <1>2, SubSeqEmpty
  <2>2. ASSUME NEW k \in 1..MaxNodes
        PROVE  First(k) = Stepped(First(k - 1))
    <3> DEFINE p == First(k - 1)
               n == IF p = << >> THEN start ELSE link[p[Len(p)]]
    <3>1. CASE k - 1 < Len(s)
      <4>1. /\ p \in Seq(Nodes) /\ Len(p) = k - 1 /\ k \in 1..Len(s)
            /\ \A i \in 1..(k - 1) : p[i] = s[i]
        BY <1>2, <3>1, SubSeqProperties
      <4>2. First(k) = Append(p, s[k])
        BY <1>2, <3>1
      <4> HIDE DEF p
      <4>3. n = s[k]
        <5>1. CASE k = 1
          BY <1>2, <4>1, <5>1 DEF Strung
        <5>2. CASE k # 1
          <6>1. p # << >> /\ p[Len(p)] = s[k - 1] /\ k - 1 \in 1..Len(s) /\ k - 1 # Len(s)
            BY <1>2, <3>1, <4>1, <5>2
          <6>2. link[s[k - 1]] = s[k]
            BY <1>2, <6>1 DEF Strung
          <6> QED BY <6>1, <6>2
        <5> QED BY <5>1, <5>2
      <4>4. s[k] # Null
        BY <1>2, <4>1
      <4> QED BY <4>2, <4>3, <4>4 DEF p
    <3>2. CASE ~(k - 1 < Len(s))
      <4>1. p = s /\ First(k) = s
        BY <1>2, <3>2, SubSeqFull
      <4> HIDE DEF p
      <4>2. n = Null
        <5>1. CASE s = << >>
          BY <4>1, <5>1 DEF Strung
        <5>2. CASE s # << >>
          <6>1. Len(s) \in 1..Len(s)
            BY <1>2, <5>2
          <6> QED BY <4>1, <5>2, <6>1 DEF Strung
        <5> QED BY <5>1, <5>2
      <4> QED BY <4>1, <4>2 DEF p
    <3> QED BY <1>2, <3>1, <3>2
  <2> QED BY <2>1, <2>2
<1> HIDE DEF Stepped, First
<1>4. g = [k \in 0..MaxNodes |-> IF k = 0 THEN << >> ELSE Stepped(g[k - 1])]
  <2>1. \A k \in 0..MaxNodes :
          First(k) = IF k = 0 THEN << >> ELSE Stepped(g[k - 1])
    BY <1>2, <1>3
  <2> QED BY <2>1
<1>5. step = [k \in 0..MaxNodes |-> IF k = 0 THEN << >> ELSE Stepped(step[k - 1])]
  BY <1>4, Zenon
<1> HIDE DEF step, g
<1>6. \A k \in Nat : k <= MaxNodes => step[k] = First(k)
  <2> DEFINE T == {k \in Nat : k <= MaxNodes => step[k] = First(k)}
  <2>1. 0 \in T
    BY <1>2, <1>3, <1>5
  <2>2. ASSUME NEW k \in T PROVE k + 1 \in T
    <3>1. CASE k + 1 <= MaxNodes
      <4>1. /\ k + 1 \in 1..MaxNodes /\ (k + 1) - 1 = k /\ k <= MaxNodes
            /\ k + 1 \in 0..MaxNodes /\ k + 1 # 0
        BY <1>2, <3>1
      <4>2. step[k + 1] = Stepped(step[k])
        BY <1>5, <4>1
      <4>3. First(k + 1) = Stepped(First(k))
        BY <1>3, <4>1
      <4> QED BY <4>1, <4>2, <4>3
    <3> QED BY <3>1
  <2> HIDE DEF T
  <2>3. T = Nat
    BY <2>1, <2>2, Induction DEF T
  <2> QED BY <2>3 DEF T
<1>7. First(MaxNodes) = s
  BY <1>2, SubSeqFull DEF First
<1> QED BY <1>1, <1>2, <1>6, <1>7

LEMMA FunctionIsSeq ==
  ASSUME NEW S, NEW k \in Nat, NEW f \in [1..k -> S]
  PROVE  f \in Seq(S) /\ Len(f) = k
OBVIOUS

-----------------------------------------------------------------------------
(***************************************************************************)
(* The shape of a list's memory: the nodes s of the list in order, and the *)
(* nodes f of the free list.                                               *)
(***************************************************************************)
Of(s) == {s[i] : i \in 1..Len(s)}

Distinct(s) == s \in Seq(Nodes) /\ \A i, j \in 1..Len(s) : s[i] = s[j] => i = j

Struct0 == [allocator : {"none", "dynamic"}, size : 0..MaxNodes,
            destructor : BOOLEAN, head : Nodes \cup {Null},
            tail : Nodes \cup {Null}, capacity : Nat,
            first_unused : Nodes \cup {Null}]
Node0 == [prev : Nodes \cup {Null}, next : Nodes \cup {Null}, item : Cell]
Typed(m) == m \in [list : Struct0, node : [Nodes -> Node0], heap : SUBSET Nodes]

\* Each node of s links to its neighbours in s.
Links(node0, s) ==
  /\ Distinct(s)
  /\ \A i \in 1..Len(s) :
       /\ node0[s[i]].next = IF i = Len(s) THEN Null ELSE s[i + 1]
       /\ node0[s[i]].prev = IF i = 1 THEN Null ELSE s[i - 1]

HeadIs(L, s) == L.head = IF s = << >> THEN Null ELSE s[1]
TailIs(L, s) == L.tail = IF s = << >> THEN Null ELSE s[Len(s)]

\* The k nodes in U are in use, those of f wait in the free list.
Owned(m, U, k, f) ==
  /\ Strung(m.list.first_unused, NextOf(m.node), f)
  /\ IF IsDynamic(m.list)
       THEN f = << >> /\ m.heap = U
       ELSE /\ m.heap = {} /\ U \cap Of(f) = {}
            /\ U \cup Of(f) = 1..(k + Len(f))
            /\ k + Len(f) <= m.list.capacity /\ m.list.capacity <= MaxNodes

Shaped(m, s, f) ==
  /\ Typed(m) /\ Links(m.node, s) /\ HeadIs(m.list, s) /\ TailIs(m.list, s)
  /\ Owned(m, Of(s), Len(s), f)

LEMMA DistinctIs ==
  ASSUME NEW s, Distinct(s)
  PROVE  /\ Len(s) \in 0..MaxNodes
         /\ Of(s) \subseteq Nodes /\ Of(s) = SeqX!ToSet(s)
         /\ IsFiniteSet(Of(s)) /\ Cardinality(Of(s)) = Len(s)
<1>1. /\ MaxNodes \in Nat /\ s \in Seq(Nodes) /\ Len(s) \in Nat
      /\ s \in [1..Len(s) -> Nodes] /\ DOMAIN s = 1..Len(s)
  BY ListAssumption, LenProperties DEF Distinct
<1>2. s \in Injection(1..Len(s), Nodes)
  BY <1>1 DEF Distinct, Injection, IsInjective
<1>3. s \in Bijection(1..Len(s), Of(s))
  BY <1>1 DEF Distinct, Injection, IsInjective, Surjection, Bijection, Of
<1>4. /\ IsFiniteSet(1..Len(s)) /\ Cardinality(1..Len(s)) = Len(s)
      /\ IsFiniteSet(Nodes) /\ Cardinality(Nodes) = MaxNodes
  <2>1. ASSUME NEW n \in Nat
        PROVE  IsFiniteSet(1..n) /\ Cardinality(1..n) = n
    <3>1. /\ IsFiniteSet(1..n)
          /\ Cardinality(1..n) = IF 1 > n THEN 0 ELSE n - 1 + 1
      BY FS_Interval
    <3>2. (IF 1 > n THEN 0 ELSE n - 1 + 1) = n
      OBVIOUS
    <3> QED BY <3>1, <3>2
  <2> QED BY <1>1, <2>1 DEF Nodes
<1>5. Len(s) <= MaxNodes
  BY <1>2, <1>4, FS_Injection
<1>6. IsFiniteSet(Of(s)) /\ Cardinality(Of(s)) = Len(s)
  BY <1>3, <1>4, FS_Bijection DEF ExistsBijection
<1>7. Of(s) \subseteq Nodes
  BY <1>1 DEF Of
<1>8. Of(s) = SeqX!ToSet(s)
  BY <1>1 DEF Of, SeqX!ToSet
<1> QED BY <1>1, <1>5, <1>6, <1>7, <1>8

LEMMA ReverseIs ==
  ASSUME NEW s, Distinct(s)
  PROVE  /\ Distinct(SeqX!Reverse(s)) /\ Len(SeqX!Reverse(s)) = Len(s)
         /\ \A i \in 1..Len(s) : SeqX!Reverse(s)[i] = s[Len(s) - i + 1]
<1> DEFINE r == SeqX!Reverse(s)
<1>1. Len(s) \in Nat /\ s \in [1..Len(s) -> Nodes]
  BY LenProperties DEF Distinct
<1>2. r = [i \in 1..Len(s) |-> s[(Len(s) - i) + 1]]
  BY DEF SeqX!Reverse
<1>3. /\ r \in Seq(Nodes) /\ Len(r) = Len(s)
      /\ \A i \in 1..Len(s) : r[i] = s[Len(s) - i + 1]
  BY <1>1, <1>2
<1> HIDE DEF r
<1>4. ASSUME NEW i \in 1..Len(r), NEW j \in 1..Len(r), r[i] = r[j]
      PROVE  i = j
  <2>1. Len(s) - i + 1 \in 1..Len(s) /\ Len(s) - j + 1 \in 1..Len(s)
    BY <1>1, <1>3
  <2>2. s[Len(s) - i + 1] = s[Len(s) - j + 1]
    BY <1>3, <1>4
  <2>3. Len(s) - i + 1 = Len(s) - j + 1
    BY <2>1, <2>2 DEF Distinct
  <2> QED BY <1>1, <1>3, <2>3
<1> QED BY <1>3, <1>4 DEF Distinct, r

\* What is linked is what a walk finds.
LEMMA LinkedWalks ==
  ASSUME NEW m, NEW s, Links(m.node, s), HeadIs(m.list, s), TailIs(m.list, s)
  PROVE  /\ Forward(m) = s
         /\ Walk(m.list.tail, PrevOf(m.node)) = SeqX!Reverse(s)
<1> DEFINE r == SeqX!Reverse(s)
<1>1. Distinct(s) /\ Len(s) \in 0..MaxNodes /\ Of(s) \subseteq Nodes
  BY DistinctIs DEF Links
<1>2. Strung(m.list.head, NextOf(m.node), s)
  BY <1>1 DEF Strung, Distinct, HeadIs, Links, NextOf, Of
<1>3. /\ Distinct(r) /\ Len(r) = Len(s)
      /\ \A i \in 1..Len(s) : r[i] = s[Len(s) - i + 1]
  BY <1>1, ReverseIs
<1> HIDE DEF r
<1>4. Strung(m.list.tail, PrevOf(m.node), r)
  <2>1. m.list.tail = IF r = << >> THEN Null ELSE r[1]
    <3>1. CASE Len(s) = 0
      <4>1. s = << >> /\ r = << >>
        BY <1>1, <1>3, <3>1 DEF Distinct
      <4> QED BY <4>1 DEF TailIs
    <3>2. CASE Len(s) # 0
      <4>1. s # << >> /\ r # << >> /\ r[1] = s[Len(s)]
        BY <1>1, <1>3, <3>2
      <4> QED BY <4>1 DEF TailIs
    <3> QED BY <3>1, <3>2
  <2>2. ASSUME NEW i \in 1..Len(r)
        PROVE  PrevOf(m.node)[r[i]] = IF i = Len(r) THEN Null ELSE r[i + 1]
    <3> DEFINE j == Len(s) - i + 1
    <3>1. j \in 1..Len(s) /\ r[i] = s[j] /\ s[j] \in Nodes
      BY <1>1, <1>3 DEF Of
    <3>2. PrevOf(m.node)[r[i]] = IF j = 1 THEN Null ELSE s[j - 1]
      BY <3>1 DEF PrevOf, Links
    <3>3. j = 1 <=> i = Len(r)
      BY <1>1, <1>3
    <3>4. i # Len(r) => r[i + 1] = s[j - 1]
      <4> SUFFICES ASSUME i # Len(r) PROVE r[i + 1] = s[j - 1]
        OBVIOUS
      <4>1. PICK l \in Nat : l = Len(s) /\ l = Len(r)
        BY <1>1, <1>3
      <4>2. i \in 1..l /\ i # l
        BY <4>1
      <4>3. i + 1 \in 1..l /\ l - (i + 1) + 1 = (l - i + 1) - 1
        BY <4>2
      <4>4. r[i + 1] = s[l - (i + 1) + 1]
        <5>1. \A q \in 1..l : r[q] = s[l - q + 1]
          BY <1>3, <4>1
        <5> QED BY <4>3, <5>1, Zenon
      <4> QED BY <4>1, <4>3, <4>4
    <3> QED BY <3>2, <3>3, <3>4
  <2> QED BY <1>3, <2>1, <2>2 DEF Strung, Distinct
<1> QED BY <1>1, <1>2, <1>3, <1>4, WalkIs DEF Forward, r

-----------------------------------------------------------------------------
(***************************************************************************)
(* The free list                                                           *)
(***************************************************************************)
LEMMA TailStrung ==
  ASSUME NEW start, NEW link, NEW f, Strung(start, link, f), f # << >>
  PROVE  /\ start = f[1] /\ f[1] \in Nodes /\ Strung(link[f[1]], link, Tail(f))
         /\ Len(Tail(f)) = Len(f) - 1 /\ Len(f) \in Nat \ {0}
         /\ Of(f) = {f[1]} \cup Of(Tail(f)) /\ f[1] \notin Of(Tail(f))
<1> DEFINE t == Tail(f)
<1>1. /\ f \in Seq(Nodes) /\ Len(f) \in Nat \ {0} /\ f[1] \in Nodes
      /\ start = f[1]
  BY EmptySeq DEF Strung
<1>2. /\ t \in Seq(Nodes) /\ Len(t) = Len(f) - 1
      /\ \A i \in 1..Len(t) : t[i] = f[i + 1]
  BY <1>1, HeadTailProperties
<1> HIDE DEF t
<1>3. \A i, j \in 1..Len(t) : t[i] = t[j] => i = j
  <2>1. \A i \in 1..Len(t) : i + 1 \in 1..Len(f) /\ i \in Nat
    BY <1>1, <1>2
  <2> QED BY <1>1, <1>2, <2>1 DEF Strung
<1>4. link[f[1]] = IF t = << >> THEN Null ELSE t[1]
  <2>1. t = << >> <=> 1 = Len(f)
    BY <1>1, <1>2
  <2>2. t # << >> => t[1] = f[1 + 1]
    BY <1>1, <1>2
  <2>3. 1 \in 1..Len(f)
    BY <1>1
  <2> QED BY <2>1, <2>2, <2>3 DEF Strung
<1>5. ASSUME NEW i \in 1..Len(t)
      PROVE  link[t[i]] = IF i = Len(t) THEN Null ELSE t[i + 1]
  <2>1. i + 1 \in 1..Len(f) /\ t[i] = f[i + 1] /\ (i = Len(t) <=> i + 1 = Len(f))
    BY <1>1, <1>2
  <2>2. i # Len(t) => t[i + 1] = f[(i + 1) + 1]
    BY <1>1, <1>2
  <2> QED BY <2>1, <2>2 DEF Strung
<1>6. Of(f) = {f[1]} \cup Of(t)
  <2>1. ASSUME NEW i \in 1..Len(f) PROVE f[i] \in {f[1]} \cup Of(t)
    <3>1. CASE i = 1
      BY <3>1
    <3>2. CASE i # 1
      <4>1. i - 1 \in 1..Len(t) /\ t[i - 1] = f[(i - 1) + 1] /\ (i - 1) + 1 = i
        BY <1>1, <1>2, <3>2
      <4> QED BY <4>1 DEF Of
    <3> QED BY <3>1, <3>2
  <2>2. ASSUME NEW i \in 1..Len(t) PROVE t[i] \in Of(f)
    <3>1. i + 1 \in 1..Len(f) /\ t[i] = f[i + 1]
      BY <1>1, <1>2
    <3> QED BY <3>1 DEF Of
  <2>3. f[1] \in Of(f)
    BY <1>1 DEF Of
  <2> QED BY <2>1, <2>2, <2>3 DEF Of
<1>7. f[1] \notin Of(t)
  <2>1. ASSUME NEW i \in 1..Len(t), t[i] = f[1] PROVE FALSE
    <3>1. i + 1 \in 1..Len(f) /\ 1 \in 1..Len(f) /\ f[i + 1] = f[1] /\ i + 1 # 1
      BY <1>1, <1>2, <2>1
    <3> QED BY <3>1 DEF Strung
  <2> QED BY <2>1 DEF Of
<1> QED BY <1>1, <1>2, <1>3, <1>4, <1>5, <1>6, <1>7 DEF Strung, t

LEMMA ConsIs ==
  ASSUME NEW n \in Nodes, NEW f, Distinct(f), n \notin Of(f)
  PROVE  /\ Distinct(<<n>> \o f) /\ Len(<<n>> \o f) = Len(f) + 1
         /\ (<<n>> \o f)[1] = n
         /\ \A i \in 1..Len(f) : (<<n>> \o f)[i + 1] = f[i]
         /\ Of(<<n>> \o f) = Of(f) \cup {n} /\ Len(f) \in Nat
<1> DEFINE c == <<n>> \o f
<1>1. /\ f \in Seq(Nodes) /\ Len(f) \in Nat /\ <<n>> \in Seq(Nodes)
      /\ Len(<<n>>) = 1 /\ <<n>>[1] = n
  BY DEF Distinct
<1>2. /\ c \in Seq(Nodes) /\ Len(c) = Len(f) + 1
      /\ \A i \in 1..(Len(f) + 1) : c[i] = IF i <= 1 THEN <<n>>[i] ELSE f[i - 1]
  <2>1. /\ c \in Seq(Nodes) /\ Len(c) = 1 + Len(f)
        /\ \A i \in 1..(1 + Len(f)) : c[i] = IF i <= 1 THEN <<n>>[i] ELSE f[i - 1]
    BY <1>1, ConcatProperties
  <2>2. 1 + Len(f) = Len(f) + 1
    BY <1>1
  <2> QED BY <2>1, <2>2
<1> HIDE DEF c
<1>3. /\ c[1] = n /\ \A i \in 1..Len(f) : c[i + 1] = f[i]
  BY <1>1, <1>2
<1>4. \A i \in 2..Len(c) : i - 1 \in 1..Len(f) /\ c[i] = f[i - 1] /\ c[i] # n
  <2>1. \A i \in 2..Len(c) : i - 1 \in 1..Len(f) /\ c[i] = f[i - 1]
    BY <1>1, <1>2
  <2> QED BY <2>1 DEF Of
<1>5. \A i, j \in 1..Len(c) : c[i] = c[j] => i = j
  <2>1. ASSUME NEW i \in 1..Len(c), NEW j \in 1..Len(c), c[i] = c[j]
        PROVE  i = j
    <3>1. CASE i = 1 \/ j = 1
      <4>1. \A q \in 1..Len(c) : q # 1 => q \in 2..Len(c)
        BY <1>1, <1>2
      <4> QED BY <1>3, <1>4, <2>1, <3>1, <4>1
    <3>2. CASE i # 1 /\ j # 1
      <4>1. i \in 2..Len(c) /\ j \in 2..Len(c)
        BY <1>1, <1>2, <3>2
      <4>2. i - 1 = j - 1
        BY <1>4, <2>1, <4>1 DEF Distinct
      <4> QED BY <4>1, <4>2
    <3> QED BY <3>1, <3>2
  <2> QED BY <2>1
<1>6. Of(c) = Of(f) \cup {n}
  <2>1. ASSUME NEW i \in 1..Len(c) PROVE c[i] \in Of(f) \cup {n}
    <3>1. i = 1 \/ i \in 2..Len(c)
      BY <1>1, <1>2
    <3> QED BY <1>3, <1>4, <3>1 DEF Of
  <2>2. ASSUME NEW i \in 1..Len(f) PROVE f[i] \in Of(c)
    <3>1. i + 1 \in 1..Len(c) /\ c[i + 1] = f[i]
      BY <1>1, <1>2, <1>3
    <3> QED BY <3>1 DEF Of
  <2>3. n \in Of(c)
    <3>1. 1 \in 1..Len(c)
      BY <1>1, <1>2
    <3> QED BY <1>3, <3>1 DEF Of
  <2> QED BY <2>1, <2>2, <2>3 DEF Of
<1> QED BY <1>1, <1>2, <1>3, <1>5, <1>6 DEF Distinct, c

LEMMA ConsStrung ==
  ASSUME NEW start, NEW link, NEW link1, NEW f, Strung(start, link, f),
         NEW n \in Nodes, n \notin Of(f), link1[n] = start,
         \A k \in Of(f) : link1[k] = link[k]
  PROVE  Strung(n, link1, <<n>> \o f)
<1> DEFINE c == <<n>> \o f
<1>1. Distinct(f)
  BY DEF Strung, Distinct
<1>2. /\ Distinct(c) /\ Len(c) = Len(f) + 1 /\ c[1] = n
      /\ \A i \in 1..Len(f) : c[i + 1] = f[i]
      /\ Len(f) \in Nat
  BY <1>1, ConsIs
<1> HIDE DEF c
<1>3. c # << >>
  BY <1>2
<1>4. ASSUME NEW i \in 1..Len(c)
      PROVE  link1[c[i]] = IF i = Len(c) THEN Null ELSE c[i + 1]
  <2>1. CASE i = 1
    <3>1. CASE f = << >>
      BY <1>2, <2>1, <3>1 DEF Strung
    <3>2. CASE f # << >>
      <4>1. 1 \in 1..Len(f) /\ 1 # Len(c)
        BY <1>1, <1>2, <3>2 DEF Distinct
      <4>2. c[1 + 1] = f[1]
        BY <1>2, <4>1
      <4> QED BY <1>2, <2>1, <3>2, <4>1, <4>2 DEF Strung
    <3> QED BY <3>1, <3>2
  <2>2. CASE i # 1
    <3> DEFINE j == i - 1
    <3>1. j \in 1..Len(f) /\ i = j + 1 /\ (i = Len(c) <=> j = Len(f))
      BY <1>2, <2>2
    <3> HIDE DEF j
    <3>2. c[i] = f[j] /\ f[j] \in Of(f)
      BY <1>2, <3>1 DEF Of
    <3>3. j # Len(f) => c[i + 1] = f[j + 1]
      <4>1. j # Len(f) => j + 1 \in 1..Len(f)
        BY <1>2, <3>1
      <4> QED BY <1>2, <3>1, <4>1
    <3> QED BY <3>1, <3>2, <3>3 DEF Strung
  <2> QED BY <2>1, <2>2
<1> QED BY <1>2, <1>3, <1>4 DEF Strung, Distinct, c

\* What does not touch the free list leaves it as it is.
LEMMA OwnedKept ==
  ASSUME NEW m, NEW m1, NEW U, NEW k, NEW f, Owned(m, U, k, f),
         m1.list.first_unused = m.list.first_unused,
         m1.list.allocator = m.list.allocator,
         m1.list.capacity = m.list.capacity, m1.heap = m.heap,
         \A n \in Of(f) : m1.node[n].next = m.node[n].next
  PROVE  Owned(m1, U, k, f)
<1>1. Strung(m.list.first_unused, NextOf(m.node), f) /\ f \in Seq(Nodes)
  BY DEF Owned, Strung
<1>2. \A i \in 1..Len(f) : f[i] \in Of(f) /\ f[i] \in Nodes
  BY <1>1, ElementOfSeq DEF Of
<1>3. Strung(m1.list.first_unused, NextOf(m1.node), f)
  BY <1>1, <1>2 DEF Strung, NextOf
<1> QED BY <1>3 DEF Owned, IsDynamic

-----------------------------------------------------------------------------
(***************************************************************************)
(* Nodes are taken and given back.                                         *)
(***************************************************************************)
Outcomes == {"NOT_ENOUGH_MEMORY", "INSUFFICIENT_BUFFER_SIZE"}

\* Two list structs that differ in the free list alone
Alike(L, K) == /\ L.head = K.head /\ L.tail = K.tail /\ L.size = K.size
               /\ L.allocator = K.allocator /\ L.capacity = K.capacity
               /\ L.destructor = K.destructor

LEMMA AllocateNodeIs ==
  ASSUME NEW m, NEW s, NEW f, Shaped(m, s, f), m.list.size = Len(s),
         NEW o \in AllocateNode(m)
  PROVE  \/ o.status \in Outcomes /\ o.m = m
         \/ /\ o.status = "SUCCESS" /\ o.n \in Nodes /\ o.n \notin Of(s)
            /\ Typed(o.m) /\ o.m.node = m.node /\ Alike(o.m.list, m.list)
            /\ \E f1 : Owned(o.m, Of(s) \cup {o.n}, Len(s) + 1, f1)
<1> DEFINE L == m.list
<1>1. /\ L \in Struct0 /\ m.node \in [Nodes -> Node0] /\ m.heap \in SUBSET Nodes
      /\ Typed(m) /\ Distinct(s) /\ Len(s) \in 0..MaxNodes /\ Of(s) \subseteq Nodes
      /\ MaxNodes \in Nat
  BY DistinctIs, ListAssumption DEF Shaped, Typed, Links
<1>2. /\ Owned(m, Of(s), Len(s), f)
      /\ Strung(L.first_unused, NextOf(m.node), f)
  BY DEF Shaped, Owned
<1>3. CASE IsDynamic(L)
  <2>1. CASE o = Untaken(m, "NOT_ENOUGH_MEMORY")
    BY <2>1 DEF Untaken, Outcomes
  <2>2. ASSUME NEW n \in Nodes \ m.heap,
               o = Taken([m EXCEPT !.heap = @ \cup {n}], n)
        PROVE  /\ o.status = "SUCCESS" /\ o.n \in Nodes /\ o.n \notin Of(s)
               /\ Typed(o.m) /\ o.m.node = m.node /\ Alike(o.m.list, m.list)
               /\ \E f1 : Owned(o.m, Of(s) \cup {o.n}, Len(s) + 1, f1)
    <3> DEFINE m1 == [m EXCEPT !.heap = @ \cup {n}]
    <3>1. o.status = "SUCCESS" /\ o.n = n /\ o.m = m1
      BY <2>2 DEF Taken
    <3>2. /\ m1.list = m.list /\ m1.node = m.node
          /\ m1.heap = m.heap \cup {n} /\ Typed(m1)
      BY <1>1 DEF Typed
    <3> HIDE DEF m1
    <3>3. m.heap = Of(s) /\ f = << >>
      BY <1>2, <1>3 DEF Owned
    <3>4. Owned(m1, Of(s) \cup {n}, Len(s) + 1, f)
      BY <1>2, <1>3, <3>2, <3>3 DEF Owned
    <3> QED BY <2>2, <3>1, <3>2, <3>3, <3>4 DEF Alike
  <2> QED BY <1>3, <2>1, <2>2 DEF AllocateNode
<1>4. CASE ~IsDynamic(L) /\ L.first_unused # Null
  <2> DEFINE n == L.first_unused
             m1 == [m EXCEPT !.list.first_unused = m.node[n].next]
             t == Tail(f)
  <2>1. o.status = "SUCCESS" /\ o.n = n /\ o.m = m1
    BY <1>4 DEF AllocateNode, Taken
  <2>2. f # << >>
    BY <1>2, <1>4 DEF Strung
  <2>3. /\ n = f[1] /\ n \in Nodes /\ Strung(NextOf(m.node)[n], NextOf(m.node), t)
        /\ Len(t) = Len(f) - 1 /\ Len(f) \in Nat \ {0}
        /\ Of(f) = {n} \cup Of(t) /\ n \notin Of(t)
    BY <1>2, <2>2, TailStrung
  <2>4. NextOf(m.node)[n] = m.node[n].next /\ m.node[n].next \in Nodes \cup {Null}
    BY <1>1, <2>3 DEF NextOf, Node0
  <2>5. /\ m1.node = m.node /\ m1.heap = m.heap /\ Typed(m1)
        /\ m1.list.first_unused = m.node[n].next /\ Alike(m1.list, m.list)
    BY <1>1, <2>4 DEF Typed, Struct0, Alike
  <2> HIDE DEF m1, t, n
  <2>6. /\ m.heap = {} /\ Of(s) \cap Of(f) = {}
        /\ Of(s) \cup Of(f) = 1..(Len(s) + Len(f))
        /\ Len(s) + Len(f) <= L.capacity /\ L.capacity <= MaxNodes
    BY <1>2, <1>4 DEF Owned
  <2>7. n \notin Of(s)
    BY <2>3, <2>6
  <2>8. Owned(m1, Of(s) \cup {n}, Len(s) + 1, t)
    <3>1. (Of(s) \cup {n}) \cap Of(t) = {}
      BY <2>3, <2>6
    <3>2. (Of(s) \cup {n}) \cup Of(t) = 1..((Len(s) + 1) + Len(t))
      <4>1. (Len(s) + 1) + Len(t) = Len(s) + Len(f)
        BY <1>1, <2>3
      <4>2. (Of(s) \cup {n}) \cup Of(t) = Of(s) \cup Of(f)
        BY <2>3
      <4> QED BY <2>6, <4>1, <4>2
    <3>3. (Len(s) + 1) + Len(t) <= m1.list.capacity /\ m1.list.capacity <= MaxNodes
      BY <1>1, <2>3, <2>5, <2>6 DEF Alike
    <3>4. Strung(m1.list.first_unused, NextOf(m1.node), t)
      BY <2>3, <2>4, <2>5
    <3>5. ~IsDynamic(m1.list)
      BY <1>4, <2>5 DEF IsDynamic, Alike
    <3> QED BY <2>5, <2>6, <3>1, <3>2, <3>3, <3>4, <3>5 DEF Owned
  <2> QED BY <2>1, <2>3, <2>5, <2>7, <2>8
<1>5. CASE ~IsDynamic(L) /\ L.first_unused = Null
  <2>1. CASE L.size + 1 > L.capacity
    BY <1>5, <2>1 DEF AllocateNode, Untaken, Outcomes
  <2>2. CASE ~(L.size + 1 > L.capacity)
    <3> DEFINE n == Len(s) + 1
    <3>1. o.status = "SUCCESS" /\ o.n = n /\ o.m = m
      BY <1>5, <2>2 DEF AllocateNode, Taken
    <3>2. f = << >>
      <4>1. f # << >> => f[1] \in Nodes /\ f[1] # Null
        BY <1>1, <1>2, TailStrung DEF Nodes, Null
      <4> QED BY <1>2, <1>5, <4>1 DEF Strung
    <3>3. /\ m.heap = {} /\ Of(s) \cap Of(f) = {}
          /\ Of(s) \cup Of(f) = 1..(Len(s) + Len(f))
          /\ L.capacity <= MaxNodes /\ L.capacity \in Nat
      BY <1>1, <1>2, <1>5 DEF Owned, Struct0
    <3>4. Of(f) = {} /\ Len(f) = 0
      BY <3>2 DEF Of
    <3>5. Of(s) = 1..Len(s)
      BY <1>1, <3>3, <3>4
    <3>6. n \in Nodes /\ n \notin Of(s) /\ n <= L.capacity
      BY <1>1, <2>2, <3>3, <3>5 DEF Nodes
    <3>7. Owned(m, Of(s) \cup {n}, Len(s) + 1, f)
      <4>1. (Of(s) \cup {n}) \cup Of(f) = 1..((Len(s) + 1) + Len(f))
        BY <1>1, <3>4, <3>5
      <4>2. (Len(s) + 1) + Len(f) <= L.capacity
        BY <1>1, <3>3, <3>4, <3>6
      <4> QED BY <1>2, <1>5, <3>3, <3>4, <4>1, <4>2 DEF Owned
    <3> QED BY <1>1, <3>1, <3>6, <3>7 DEF Alike
  <2> QED BY <2>1, <2>2
<1> QED BY <1>3, <1>4, <1>5

\* A node n that is no longer in the list goes back; the others keep what
\* they hold.
LEMMA DeallocateNodeIs ==
  ASSUME NEW m, Typed(m), NEW U \in SUBSET Nodes, NEW k \in Nat, NEW f,
         NEW n \in Nodes, n \notin U, Owned(m, U \cup {n}, k + 1, f)
  PROVE  LET m1 == DeallocateNode(m, n)
         IN  /\ Typed(m1) /\ Alike(m1.list, m.list)
             /\ \A j \in U : m1.node[j] = m.node[j]
             /\ \E f1 : Owned(m1, U, k, f1)
<1> DEFINE b == Blanked(m, {n})
           m1 == DeallocateNode(m, n)
<1>1. /\ m.list \in Struct0 /\ m.node \in [Nodes -> Node0]
      /\ m.heap \in SUBSET Nodes /\ Blank \in Node0
  BY DEF Typed, Blank, Node0, Cell
<1>2. /\ b.list = m.list /\ b.heap = m.heap \ {n} /\ Typed(b)
      /\ b.node = [j \in Nodes |-> IF j \in {n} THEN Blank ELSE m.node[j]]
  BY <1>1 DEF Blanked, Typed
<1>3. Strung(m.list.first_unused, NextOf(m.node), f) /\ Distinct(f)
  BY DEF Owned, Strung, Distinct
<1>4. CASE IsDynamic(m.list)
  <2>1. m1 = b
    BY <1>4 DEF DeallocateNode
  <2>2. m.heap = U \cup {n} /\ f = << >>
    BY <1>4 DEF Owned
  <2> HIDE DEF b
  <2>3. b.heap = U
    BY <1>2, <2>2
  <2>4. Strung(b.list.first_unused, NextOf(b.node), f)
    BY <1>2, <1>3, <2>2 DEF Strung
  <2>5. Owned(b, U, k, f)
    BY <1>2, <1>4, <2>2, <2>3, <2>4 DEF Owned
  <2> QED BY <1>2, <2>1, <2>5 DEF Alike
<1>5. CASE ~IsDynamic(m.list)
  <2> HIDE DEF b
  <2>1. m1 = [b EXCEPT !.node[n].next = m.list.first_unused,
                       !.list.first_unused = n]
    BY <1>5 DEF DeallocateNode, b
  <2> HIDE DEF m1
  <2>2. /\ m1.list = [m.list EXCEPT !.first_unused = n]
        /\ m1.node = [b.node EXCEPT ![n].next = m.list.first_unused]
        /\ m1.heap = b.heap
    BY <1>2, <2>1 DEF Typed
  <2>3. /\ b.node \in [Nodes -> Node0] /\ m.list.first_unused \in Nodes \cup {Null}
        /\ b.heap \in SUBSET Nodes
    BY <1>1, <1>2 DEF Typed, Struct0
  <2>4. m1.node \in [Nodes -> Node0]
    BY <2>2, <2>3 DEF Node0
  <2>5. m1.list \in Struct0 /\ m1.list.first_unused = n /\ Alike(m1.list, m.list)
    BY <1>1, <2>2 DEF Struct0, Alike
  <2>6. Typed(m1)
    <3>1. m1 = [list |-> m1.list, node |-> m1.node, heap |-> m1.heap]
      BY <1>2, <2>1 DEF Typed
    <3> QED BY <2>2, <2>3, <2>4, <2>5, <3>1 DEF Typed
  <2>7. \A j \in Nodes : j # n => m1.node[j] = m.node[j]
    BY <1>2, <2>2, <2>3
  <2>8. m1.node[n].next = m.list.first_unused
    BY <2>2, <2>3 DEF Node0
  <2>9. /\ m.heap = {} /\ (U \cup {n}) \cap Of(f) = {}
        /\ (U \cup {n}) \cup Of(f) = 1..((k + 1) + Len(f))
        /\ (k + 1) + Len(f) <= m.list.capacity /\ m.list.capacity <= MaxNodes
    BY <1>5 DEF Owned
  <2>10. /\ Len(<<n>> \o f) = Len(f) + 1 /\ Of(<<n>> \o f) = Of(f) \cup {n}
         /\ Len(f) \in Nat /\ Of(f) \subseteq Nodes
    BY <1>3, <2>9, ConsIs, DistinctIs
  <2>11. Strung(n, NextOf(m1.node), <<n>> \o f)
    <3>1. NextOf(m1.node)[n] = m.list.first_unused
      BY <2>8 DEF NextOf
    <3>2. \A j \in Of(f) : NextOf(m1.node)[j] = NextOf(m.node)[j]
      BY <2>7, <2>9, <2>10 DEF NextOf
    <3> QED BY <1>3, <2>9, <3>1, <3>2, ConsStrung
  <2>12. Owned(m1, U, k, <<n>> \o f)
    <3>1. k + Len(<<n>> \o f) = (k + 1) + Len(f)
      BY <2>10
    <3>2. U \cap Of(<<n>> \o f) = {} /\ U \cup Of(<<n>> \o f) = (U \cup {n}) \cup Of(f)
      BY <2>9, <2>10
    <3>3. ~IsDynamic(m1.list) /\ m1.list.capacity = m.list.capacity
      BY <1>5, <2>5 DEF IsDynamic, Alike
    <3>4. m1.heap = {}
      BY <1>2, <2>2, <2>9
    <3> QED BY <2>5, <2>9, <2>11, <3>1, <3>2, <3>3, <3>4 DEF Owned
  <2> QED BY <2>5, <2>6, <2>7, <2>12 DEF m1
<1> QED BY <1>4, <1>5

-----------------------------------------------------------------------------
(***************************************************************************)
(* Linking a node n that was taken, at either end                          *)
(***************************************************************************)
LEMMA AppendIs ==
  ASSUME NEW n \in Nodes, NEW s, Distinct(s), n \notin Of(s)
  PROVE  /\ Distinct(Append(s, n)) /\ Len(Append(s, n)) = Len(s) + 1
         /\ Append(s, n)[Len(s) + 1] = n /\ Append(s, n) # << >>
         /\ \A i \in 1..Len(s) : Append(s, n)[i] = s[i]
         /\ Of(Append(s, n)) = Of(s) \cup {n} /\ Len(s) \in Nat
<1> DEFINE c == Append(s, n)
<1>1. s \in Seq(Nodes) /\ Len(s) \in Nat
  BY DEF Distinct
<1>2. /\ c \in Seq(Nodes) /\ Len(c) = Len(s) + 1 /\ c # << >>
      /\ \A i \in 1..Len(s) : c[i] = s[i]
      /\ c[Len(s) + 1] = n
  BY <1>1, AppendProperties
<1> HIDE DEF c
<1>3. \A i \in 1..Len(c) : i = Len(s) + 1 \/ i \in 1..Len(s)
  BY <1>1, <1>2
<1>4. \A i \in 1..Len(s) : c[i] # n /\ i \in 1..Len(c)
  <2>1. \A i \in 1..Len(s) : s[i] \in Of(s) /\ i \in 1..Len(c)
    BY <1>1, <1>2 DEF Of
  <2> QED BY <1>2, <2>1
<1>5. \A i, j \in 1..Len(c) : c[i] = c[j] => i = j
  BY <1>2, <1>3, <1>4 DEF Distinct
<1>6. Of(c) = Of(s) \cup {n}
  <2>1. \A i \in 1..Len(c) : c[i] \in Of(s) \cup {n}
    BY <1>2, <1>3 DEF Of
  <2>2. \A i \in 1..Len(s) : s[i] \in Of(c)
    BY <1>2, <1>4 DEF Of
  <2>3. Len(s) + 1 \in 1..Len(c)
    BY <1>1, <1>2
  <2>4. n \in Of(c)
    BY <1>2, <2>3 DEF Of
  <2> QED BY <2>1, <2>2, <2>4 DEF Of
<1> QED BY <1>1, <1>2, <1>5, <1>6 DEF Distinct, c

\* A shape whose nodes, taken together, are those of the new list.
Ready(m, s, n) ==
  /\ Typed(m) /\ Links(m.node, s) /\ HeadIs(m.list, s) /\ TailIs(m.list, s)
  /\ m.list.size = Len(s) /\ n \in Nodes /\ n \notin Of(s)
  /\ \E f : Owned(m, Of(s) \cup {n}, Len(s) + 1, f)

\* The free list's nodes are not in use.
LEMMA FreeApart ==
  ASSUME NEW m, NEW U, NEW k, NEW f, Owned(m, U, k, f)
  PROVE  \A n \in Of(f) : n \notin U
<1>1. CASE IsDynamic(m.list)
  <2>1. Of(f) = {}
    BY <1>1 DEF Owned, Of
  <2> QED BY <2>1
<1>2. CASE ~IsDynamic(m.list)
  BY <1>2 DEF Owned
<1> QED BY <1>1, <1>2

LEMMA LinkBackIs ==
  ASSUME NEW m, NEW s, NEW n, Ready(m, s, n), NEW e \in Cell
  PROVE  LET m1 == LinkBack(m, n, e)
         IN  /\ \E f : Shaped(m1, Append(s, n), f)
             /\ m1.list.size = Len(s) + 1
             /\ m1.list.destructor = m.list.destructor
             /\ m1.list.allocator = m.list.allocator
             /\ \A j \in Of(s) : m1.node[j].item = m.node[j].item
             /\ m1.node[n].item = e
<1> DEFINE L == m.list
           m1 == LinkBack(m, n, e)
           c == Append(s, n)
           fresh == [prev |-> L.tail, next |-> Null, item |-> e]
           new == [m.node EXCEPT ![n] = fresh]
<1>1. /\ L \in Struct0 /\ m.node \in [Nodes -> Node0] /\ m.heap \in SUBSET Nodes
      /\ Distinct(s) /\ Len(s) \in 0..MaxNodes /\ Of(s) \subseteq Nodes
      /\ n \in Nodes /\ n \notin Of(s) /\ L.size = Len(s) /\ fresh \in Node0
      /\ Typed(m)
  BY DistinctIs DEF Ready, Typed, Links, Struct0, Node0
<1>2. /\ Distinct(c) /\ Len(c) = Len(s) + 1 /\ c[Len(s) + 1] = n
      /\ \A i \in 1..Len(s) : c[i] = s[i]
      /\ Of(c) = Of(s) \cup {n} /\ Len(c) \in 0..MaxNodes /\ c # << >>
      /\ Len(s) \in Nat
  <2>1. /\ Distinct(c) /\ Len(c) = Len(s) + 1 /\ c[Len(s) + 1] = n
        /\ \A i \in 1..Len(s) : c[i] = s[i]
        /\ Of(c) = Of(s) \cup {n} /\ c # << >> /\ Len(s) \in Nat
    BY <1>1, AppendIs
  <2> QED BY <2>1, DistinctIs
<1>3. /\ m1.list.head = IF L.head = Null THEN n ELSE L.head
      /\ m1.list.tail = n /\ m1.list.size = L.size + 1
      /\ m1.list.allocator = L.allocator /\ m1.list.capacity = L.capacity
      /\ m1.list.first_unused = L.first_unused
      /\ m1.list.destructor = L.destructor
      /\ m1.heap = m.heap
      /\ m1.node = IF L.head = Null THEN new ELSE [new EXCEPT ![L.tail].next = n]
      /\ m1 = [list |-> m1.list, node |-> m1.node, heap |-> m1.heap]
      /\ m1.list = [allocator |-> m1.list.allocator, size |-> m1.list.size,
                    destructor |-> m1.list.destructor, head |-> m1.list.head,
                    tail |-> m1.list.tail, capacity |-> m1.list.capacity,
                    first_unused |-> m1.list.first_unused]
  <2> DEFINE N == IF L.head = Null THEN new ELSE [new EXCEPT ![L.tail].next = n]
             H == IF L.head = Null THEN n ELSE L.head
  <2>1. m1 = [m EXCEPT !.node = N, !.list.head = H, !.list.tail = n,
                       !.list.size = L.size + 1]
    BY <1>1 DEF LinkBack, Typed
  <2> HIDE DEF N, m1, H
  <2>2. /\ m1.node = N /\ m1.heap = m.heap
        /\ m1 = [list |-> m1.list, node |-> m1.node, heap |-> m1.heap]
    BY <1>1, <2>1 DEF Typed
  <2>3. m1.list = [L EXCEPT !.head = H, !.tail = n, !.size = L.size + 1]
    BY <1>1, <2>1 DEF Typed
  <2> QED BY <1>1, <2>2, <2>3 DEF Struct0, N, H
<1> HIDE DEF m1, c
<1>4. /\ L.head = Null <=> s = << >>
      /\ s # << >> => /\ L.tail \in Nodes /\ L.tail # n /\ L.tail = s[Len(s)]
                      /\ Len(s) \in 1..Len(s) /\ L.tail \in Of(s) /\ L.head = s[1]
  <2>1. s # << >> => Len(s) \in 1..Len(s) /\ 1 \in 1..Len(s)
    BY <1>1 DEF Distinct
  <2>2. s # << >> => s[Len(s)] \in Of(s) /\ s[1] \in Of(s)
    BY <2>1 DEF Of
  <2>3. Null \notin Nodes
    BY DEF Null, Nodes
  <2> QED BY <1>1, <2>1, <2>2, <2>3 DEF Ready, HeadIs, TailIs
<1>5. /\ m1.node \in [Nodes -> Node0] /\ m1.node[n] = fresh
      /\ \A j \in Nodes : /\ j # n /\ (s = << >> \/ j # L.tail) => m1.node[j] = m.node[j]
                          /\ s # << >> /\ j = L.tail
                               => m1.node[j] = [m.node[j] EXCEPT !.next = n]
  <2>1. /\ new \in [Nodes -> Node0] /\ new[n] = fresh
        /\ \A j \in Nodes : j # n => new[j] = m.node[j]
    BY <1>1
  <2> HIDE DEF new, fresh
  <2>2. CASE s = << >>
    BY <1>3, <1>4, <2>1, <2>2
  <2>3. CASE s # << >>
    <3>1. m1.node = [new EXCEPT ![L.tail].next = n]
      BY <1>3, <1>4, <2>3
    <3>2. /\ m1.node \in [Nodes -> Node0]
          /\ m1.node[L.tail] = [new[L.tail] EXCEPT !.next = n]
          /\ \A j \in Nodes : j # L.tail => m1.node[j] = new[j]
      BY <1>1, <1>4, <2>1, <2>3, <3>1 DEF Node0
    <3> QED BY <1>1, <1>4, <2>1, <2>3, <3>2
  <2> QED BY <2>2, <2>3
<1>6. \A j \in Nodes : j # n => /\ m1.node[j].item = m.node[j].item
                                /\ m1.node[j].prev = m.node[j].prev
                                /\ s = << >> \/ j # L.tail
                                     => m1.node[j].next = m.node[j].next
                                /\ s # << >> /\ j = L.tail => m1.node[j].next = n
  BY <1>1, <1>5 DEF Node0
<1>7. Typed(m1)
  <2>1. m1.list \in Struct0
    <3>1. m1.list.size \in 0..MaxNodes
      BY <1>1, <1>2, <1>3
    <3> QED BY <1>1, <1>3, <3>1 DEF Struct0
  <2> QED BY <1>1, <1>3, <1>5, <2>1 DEF Typed
<1>8. HeadIs(m1.list, c) /\ TailIs(m1.list, c)
  <2>1. c[1] = IF s = << >> THEN n ELSE s[1]
    <3>1. CASE s = << >>
      BY <1>2, <3>1
    <3>2. CASE s # << >>
      <4>1. 1 \in 1..Len(s)
        BY <1>4, <3>2
      <4> QED BY <1>2, <3>2, <4>1
    <3> QED BY <3>1, <3>2
  <2> QED BY <1>2, <1>3, <1>4, <2>1 DEF HeadIs, TailIs
<1>9. Links(m1.node, c)
  <2> SUFFICES ASSUME NEW i \in 1..Len(c)
               PROVE  /\ m1.node[c[i]].next = IF i = Len(c) THEN Null ELSE c[i + 1]
                      /\ m1.node[c[i]].prev = IF i = 1 THEN Null ELSE c[i - 1]
    BY <1>2 DEF Links
  <2>1. CASE i = Len(s) + 1
    <3>1. c[i] = n /\ i = Len(c)
      BY <1>2, <2>1
    <3>2. m1.node[n].next = Null /\ m1.node[n].prev = L.tail
      BY <1>5
    <3>3. L.tail = IF i = 1 THEN Null ELSE c[i - 1]
      <4>1. CASE s = << >>
        BY <1>1, <2>1, <4>1 DEF Ready, TailIs
      <4>2. CASE s # << >>
        <5>1. Len(s) \in 1..Len(s) /\ i # 1 /\ i - 1 = Len(s)
          BY <1>2, <1>4, <2>1, <4>2
        <5> QED BY <1>2, <1>4, <4>2, <5>1
      <4> QED BY <4>1, <4>2
    <3> QED BY <3>1, <3>2, <3>3
  <2>2. CASE i # Len(s) + 1
    <3>1. i \in 1..Len(s) /\ i # Len(c) /\ c[i] = s[i] /\ s # << >>
      BY <1>2, <2>2
    <3>2. s[i] \in Of(s) /\ s[i] \in Nodes /\ s[i] # n
      BY <1>1, <3>1 DEF Of
    <3>3. m.node[s[i]].prev = IF i = 1 THEN Null ELSE s[i - 1]
      BY <3>1 DEF Ready, Links
    <3>4. m1.node[c[i]].prev = IF i = 1 THEN Null ELSE c[i - 1]
      <4>1. i # 1 => i - 1 \in 1..Len(s)
        BY <1>2, <3>1
      <4>2. i # 1 => c[i - 1] = s[i - 1]
        BY <1>2, <4>1
      <4> QED BY <1>6, <3>1, <3>2, <3>3, <4>2
    <3>5. m1.node[c[i]].next = c[i + 1]
      <4>1. CASE i = Len(s)
        BY <1>2, <1>4, <1>6, <3>1, <3>2, <4>1
      <4>2. CASE i # Len(s)
        <5>1. i + 1 \in 1..Len(s)
          BY <1>2, <3>1, <4>2
        <5>2. m.node[s[i]].next = s[i + 1] /\ c[i + 1] = s[i + 1]
          BY <1>2, <3>1, <4>2, <5>1 DEF Ready, Links
        <5>3. s[i] # L.tail
          BY <1>1, <1>4, <3>1, <4>2 DEF Distinct
        <5> QED BY <1>6, <3>1, <3>2, <5>2, <5>3
      <4> QED BY <4>1, <4>2
    <3> QED BY <3>1, <3>4, <3>5
  <2> QED BY <2>1, <2>2
<1>10. PICK f : Owned(m, Of(s) \cup {n}, Len(s) + 1, f)
  BY DEF Ready
<1>11. Owned(m1, Of(c), Len(c), f)
  <2>1. \A j \in Of(f) : j \notin Of(s) \cup {n}
    BY <1>10, FreeApart
  <2>2. Of(f) \subseteq Nodes
    BY <1>10, DistinctIs DEF Owned, Strung, Distinct
  <2>3. \A j \in Of(f) : m1.node[j].next = m.node[j].next
    BY <1>4, <1>6, <2>1, <2>2
  <2>4. /\ m1.list.first_unused = m.list.first_unused
        /\ m1.list.allocator = m.list.allocator
        /\ m1.list.capacity = m.list.capacity /\ m1.heap = m.heap
    BY <1>3
  <2>5. Owned(m1, Of(s) \cup {n}, Len(s) + 1, f)
    BY <1>10, <2>3, <2>4, OwnedKept
  <2> QED BY <1>2, <2>5
<1>12. /\ m1.node[n].item = e
       /\ \A j \in Of(s) : m1.node[j].item = m.node[j].item
  BY <1>1, <1>5, <1>6
<1> QED BY <1>1, <1>3, <1>7, <1>8, <1>9, <1>11, <1>12 DEF Shaped, m1, c

LEMMA LinkFrontIs ==
  ASSUME NEW m, NEW s, NEW n, Ready(m, s, n), NEW e \in Cell
  PROVE  LET m1 == LinkFront(m, n, e)
         IN  /\ \E f : Shaped(m1, <<n>> \o s, f)
             /\ m1.list.size = Len(s) + 1
             /\ m1.list.destructor = m.list.destructor
             /\ m1.list.allocator = m.list.allocator
             /\ \A j \in Of(s) : m1.node[j].item = m.node[j].item
             /\ m1.node[n].item = e
<1> DEFINE L == m.list
           m1 == LinkFront(m, n, e)
           c == <<n>> \o s
           fresh == [prev |-> Null, next |-> L.head, item |-> e]
           new == [m.node EXCEPT ![n] = fresh]
<1>1. /\ L \in Struct0 /\ m.node \in [Nodes -> Node0] /\ m.heap \in SUBSET Nodes
      /\ Distinct(s) /\ Len(s) \in 0..MaxNodes /\ Of(s) \subseteq Nodes
      /\ n \in Nodes /\ n \notin Of(s) /\ L.size = Len(s) /\ fresh \in Node0
      /\ Typed(m)
  BY DistinctIs DEF Ready, Typed, Links, Struct0, Node0
<1>2. /\ Distinct(c) /\ Len(c) = Len(s) + 1 /\ c[1] = n
      /\ \A i \in 1..Len(s) : c[i + 1] = s[i]
      /\ Of(c) = Of(s) \cup {n} /\ Len(c) \in 0..MaxNodes /\ c # << >>
      /\ Len(s) \in Nat
  <2>1. /\ Distinct(c) /\ Len(c) = Len(s) + 1 /\ c[1] = n
        /\ \A i \in 1..Len(s) : c[i + 1] = s[i]
        /\ Of(c) = Of(s) \cup {n} /\ Len(s) \in Nat
    BY <1>1, ConsIs
  <2> HIDE DEF c
  <2>2. c # << >>
    BY <2>1
  <2> QED BY <2>1, <2>2, DistinctIs
<1>3. /\ m1.list.tail = IF L.head = Null THEN n ELSE L.tail
      /\ m1.list.head = n /\ m1.list.size = L.size + 1
      /\ m1.list.allocator = L.allocator /\ m1.list.capacity = L.capacity
      /\ m1.list.first_unused = L.first_unused
      /\ m1.list.destructor = L.destructor
      /\ m1.heap = m.heap
      /\ m1.node = IF L.head = Null THEN new ELSE [new EXCEPT ![L.head].prev = n]
      /\ m1 = [list |-> m1.list, node |-> m1.node, heap |-> m1.heap]
      /\ m1.list = [allocator |-> m1.list.allocator, size |-> m1.list.size,
                    destructor |-> m1.list.destructor, head |-> m1.list.head,
                    tail |-> m1.list.tail, capacity |-> m1.list.capacity,
                    first_unused |-> m1.list.first_unused]
  <2> DEFINE N == IF L.head = Null THEN new ELSE [new EXCEPT ![L.head].prev = n]
             T == IF L.head = Null THEN n ELSE L.tail
  <2>1. m1 = [m EXCEPT !.node = N, !.list.tail = T, !.list.head = n,
                       !.list.size = L.size + 1]
    BY <1>1 DEF LinkFront, Typed
  <2> HIDE DEF N, m1, T
  <2>2. /\ m1.node = N /\ m1.heap = m.heap
        /\ m1 = [list |-> m1.list, node |-> m1.node, heap |-> m1.heap]
    BY <1>1, <2>1 DEF Typed
  <2>3. m1.list = [L EXCEPT !.tail = T, !.head = n, !.size = L.size + 1]
    BY <1>1, <2>1 DEF Typed
  <2> QED BY <1>1, <2>2, <2>3 DEF Struct0, N, T
<1> HIDE DEF m1, c
<1>4. /\ L.head = Null <=> s = << >>
      /\ s # << >> => /\ L.head \in Nodes /\ L.head # n /\ L.head = s[1]
                      /\ 1 \in 1..Len(s) /\ L.head \in Of(s) /\ L.tail = s[Len(s)]
                      /\ Len(s) \in 1..Len(s)
  <2>1. s # << >> => Len(s) \in 1..Len(s) /\ 1 \in 1..Len(s)
    BY <1>1 DEF Distinct
  <2>2. s # << >> => s[1] \in Of(s)
    BY <2>1 DEF Of
  <2>3. Null \notin Nodes
    BY DEF Null, Nodes
  <2> QED BY <1>1, <2>1, <2>2, <2>3 DEF Ready, HeadIs, TailIs
<1>5. /\ m1.node \in [Nodes -> Node0] /\ m1.node[n] = fresh
      /\ \A j \in Nodes : /\ j # n /\ (s = << >> \/ j # L.head) => m1.node[j] = m.node[j]
                          /\ s # << >> /\ j = L.head
                               => m1.node[j] = [m.node[j] EXCEPT !.prev = n]
  <2>1. /\ new \in [Nodes -> Node0] /\ new[n] = fresh
        /\ \A j \in Nodes : j # n => new[j] = m.node[j]
    BY <1>1
  <2> HIDE DEF new, fresh
  <2>2. CASE s = << >>
    BY <1>3, <1>4, <2>1, <2>2
  <2>3. CASE s # << >>
    <3>1. m1.node = [new EXCEPT ![L.head].prev = n]
      BY <1>3, <1>4, <2>3
    <3>2. /\ m1.node \in [Nodes -> Node0]
          /\ m1.node[L.head] = [new[L.head] EXCEPT !.prev = n]
          /\ \A j \in Nodes : j # L.head => m1.node[j] = new[j]
      BY <1>1, <1>4, <2>1, <2>3, <3>1 DEF Node0
    <3> QED BY <1>1, <1>4, <2>1, <2>3, <3>2
  <2> QED BY <2>2, <2>3
<1>6. \A j \in Nodes : j # n => /\ m1.node[j].item = m.node[j].item
                                /\ m1.node[j].next = m.node[j].next
                                /\ s = << >> \/ j # L.head
                                     => m1.node[j].prev = m.node[j].prev
                                /\ s # << >> /\ j = L.head => m1.node[j].prev = n
  BY <1>1, <1>5 DEF Node0
<1>7. Typed(m1)
  <2>1. m1.list \in Struct0
    <3>1. m1.list.size \in 0..MaxNodes
      BY <1>1, <1>2, <1>3
    <3> QED BY <1>1, <1>3, <3>1 DEF Struct0
  <2> QED BY <1>1, <1>3, <1>5, <2>1 DEF Typed
<1>8. HeadIs(m1.list, c) /\ TailIs(m1.list, c)
  <2>1. c[Len(c)] = IF s = << >> THEN n ELSE s[Len(s)]
    <3>1. CASE s = << >>
      <4>1. Len(c) = 1
        BY <1>2, <3>1
      <4> QED BY <1>2, <3>1, <4>1
    <3>2. CASE s # << >>
      BY <1>2, <1>4, <3>2
    <3> QED BY <3>1, <3>2
  <2> QED BY <1>2, <1>3, <1>4, <2>1 DEF HeadIs, TailIs
<1>9. Links(m1.node, c)
  <2> SUFFICES ASSUME NEW i \in 1..Len(c)
               PROVE  /\ m1.node[c[i]].next = IF i = Len(c) THEN Null ELSE c[i + 1]
                      /\ m1.node[c[i]].prev = IF i = 1 THEN Null ELSE c[i - 1]
    BY <1>2 DEF Links
  <2>1. CASE i = 1
    <3>1. m1.node[n].prev = Null /\ m1.node[n].next = L.head
      BY <1>5
    <3>2. L.head = IF i = Len(c) THEN Null ELSE c[i + 1]
      <4>1. CASE s = << >>
        BY <1>2, <1>4, <2>1, <4>1
      <4>2. CASE s # << >>
        <5>1. i # Len(c) /\ c[1 + 1] = s[1]
          BY <1>2, <1>4, <2>1, <4>2
        <5> QED BY <1>4, <2>1, <4>2, <5>1
      <4> QED BY <4>1, <4>2
    <3> QED BY <1>2, <2>1, <3>1, <3>2
  <2>2. CASE i # 1
    <3> DEFINE k == i - 1
    <3>1. /\ k \in 1..Len(s) /\ i = k + 1 /\ c[i] = s[k] /\ s # << >>
          /\ (i = Len(c) <=> k = Len(s))
      BY <1>2, <2>2
    <3> HIDE DEF k
    <3>2. s[k] \in Of(s) /\ s[k] \in Nodes /\ s[k] # n
      BY <1>1, <3>1 DEF Of
    <3>3. /\ m.node[s[k]].next = IF k = Len(s) THEN Null ELSE s[k + 1]
          /\ m.node[s[k]].prev = IF k = 1 THEN Null ELSE s[k - 1]
      BY <3>1 DEF Ready, Links
    <3>4. m1.node[c[i]].next = IF i = Len(c) THEN Null ELSE c[i + 1]
      <4>1. k # Len(s) => k + 1 \in 1..Len(s)
        BY <1>2, <3>1
      <4>2. k # Len(s) => c[i + 1] = s[k + 1]
        BY <1>2, <3>1, <4>1
      <4> QED BY <1>6, <3>1, <3>2, <3>3, <4>2
    <3>5. m1.node[c[i]].prev = c[i - 1]
      <4>1. CASE k = 1
        <5>1. i - 1 = 1
          BY <3>1, <4>1
        <5> QED BY <1>2, <1>4, <1>6, <3>1, <3>2, <4>1, <5>1
      <4>2. CASE k # 1
        <5>1. k - 1 \in 1..Len(s) /\ i - 1 = (k - 1) + 1
          BY <1>2, <3>1, <4>2
        <5>2. m.node[s[k]].prev = s[k - 1] /\ c[i - 1] = s[k - 1]
          BY <1>2, <3>3, <4>2, <5>1
        <5>3. s[k] # L.head
          BY <1>1, <1>4, <3>1, <4>2 DEF Distinct
        <5> QED BY <1>6, <3>1, <3>2, <5>2, <5>3
      <4> QED BY <4>1, <4>2
    <3> QED BY <2>2, <3>4, <3>5
  <2> QED BY <2>1, <2>2
<1>10. PICK f : Owned(m, Of(s) \cup {n}, Len(s) + 1, f)
  BY DEF Ready
<1>11. Owned(m1, Of(c), Len(c), f)
  <2>1. \A j \in Of(f) : j \notin Of(s) \cup {n}
    BY <1>10, FreeApart
  <2>2. Of(f) \subseteq Nodes
    BY <1>10, DistinctIs DEF Owned, Strung, Distinct
  <2>3. \A j \in Of(f) : m1.node[j].next = m.node[j].next
    BY <1>4, <1>6, <2>1, <2>2
  <2>4. /\ m1.list.first_unused = m.list.first_unused
        /\ m1.list.allocator = m.list.allocator
        /\ m1.list.capacity = m.list.capacity /\ m1.heap = m.heap
    BY <1>3
  <2>5. Owned(m1, Of(s) \cup {n}, Len(s) + 1, f)
    BY <1>10, <2>3, <2>4, OwnedKept
  <2> QED BY <1>2, <2>5
<1>12. /\ m1.node[n].item = e
       /\ \A j \in Of(s) : m1.node[j].item = m.node[j].item
  BY <1>1, <1>5, <1>6
<1> QED BY <1>1, <1>3, <1>7, <1>8, <1>9, <1>11, <1>12 DEF Shaped, m1, c

\* Taking a node makes the memory ready to link it.
LEMMA TakenReady ==
  ASSUME NEW m, NEW s, NEW f, Shaped(m, s, f), m.list.size = Len(s),
         NEW o \in AllocateNode(m), o.status = "SUCCESS"
  PROVE  /\ Ready(o.m, s, o.n) /\ o.m.node = m.node
         /\ o.m.list.destructor = m.list.destructor
         /\ o.m.list.allocator = m.list.allocator
<1>1. "SUCCESS" \notin Outcomes
  BY DEF Outcomes
<1>2. /\ o.n \in Nodes /\ o.n \notin Of(s)
      /\ Typed(o.m) /\ o.m.node = m.node /\ Alike(o.m.list, m.list)
      /\ \E f1 : Owned(o.m, Of(s) \cup {o.n}, Len(s) + 1, f1)
  BY <1>1, AllocateNodeIs
<1> QED BY <1>2 DEF Ready, Shaped, HeadIs, TailIs, Alike

-----------------------------------------------------------------------------
(***************************************************************************)
(* Cutting off a node, at either end                                       *)
(***************************************************************************)
LEMMA PrefixIs ==
  ASSUME NEW s \in Seq(Nodes), NEW k \in 0..Len(s)
  PROVE  /\ SubSeq(s, 1, k) \in Seq(Nodes) /\ Len(SubSeq(s, 1, k)) = k
         /\ \A i \in 1..k : SubSeq(s, 1, k)[i] = s[i] /\ i \in 1..Len(s)
<1>1. Len(s) \in Nat
  OBVIOUS
<1> QED BY <1>1, SubSeqProperties

LEMMA FrontIs ==
  ASSUME NEW s, Distinct(s), s # << >>
  PROVE  LET u == SubSeq(s, 1, Len(s) - 1)
         IN  /\ Distinct(u) /\ Len(u) = Len(s) - 1
             /\ \A i \in 1..Len(u) : u[i] = s[i] /\ i \in 1..Len(s)
             /\ Of(s) = Of(u) \cup {s[Len(s)]} /\ s[Len(s)] \notin Of(u)
             /\ Len(s) \in 1..Len(s) /\ Len(s) \in Nat /\ s[Len(s)] \in Nodes
<1> DEFINE u == SubSeq(s, 1, Len(s) - 1)
<1>1. s \in Seq(Nodes) /\ Len(s) \in Nat /\ Len(s) \in 1..Len(s) /\ s[Len(s)] \in Nodes
  BY EmptySeq DEF Distinct
<1>2. /\ u \in Seq(Nodes) /\ Len(u) = Len(s) - 1
      /\ \A i \in 1..Len(u) : u[i] = s[i] /\ i \in 1..Len(s)
  <2>1. Len(s) - 1 \in 0..Len(s)
    BY <1>1
  <2> QED BY <1>1, <2>1, PrefixIs
<1> HIDE DEF u
<1>3. \A i \in 1..Len(s) : i = Len(s) \/ i \in 1..Len(u)
  BY <1>1, <1>2
<1>4. \A i \in 1..Len(u) : i # Len(s)
  BY <1>1, <1>2
<1>5. Distinct(u)
  BY <1>2 DEF Distinct
<1>6. Of(s) = Of(u) \cup {s[Len(s)]}
  <2>1. \A i \in 1..Len(s) : s[i] \in Of(u) \cup {s[Len(s)]}
    BY <1>2, <1>3 DEF Of
  <2>2. \A i \in 1..Len(u) : u[i] \in Of(s)
    BY <1>2 DEF Of
  <2>3. s[Len(s)] \in Of(s)
    BY <1>1 DEF Of
  <2> QED BY <2>1, <2>2, <2>3 DEF Of
<1>7. s[Len(s)] \notin Of(u)
  <2>1. \A i \in 1..Len(u) : u[i] # s[Len(s)]
    BY <1>1, <1>2, <1>4 DEF Distinct
  <2> QED BY <2>1 DEF Of
<1> QED BY <1>1, <1>2, <1>5, <1>6, <1>7 DEF u

LEMMA RestIs ==
  ASSUME NEW s, Distinct(s), s # << >>
  PROVE  LET u == Tail(s)
         IN  /\ Distinct(u) /\ Len(u) = Len(s) - 1
             /\ \A i \in 1..Len(u) : u[i] = s[i + 1] /\ i + 1 \in 1..Len(s)
             /\ Of(s) = Of(u) \cup {s[1]} /\ s[1] \notin Of(u)
             /\ 1 \in 1..Len(s) /\ Len(s) \in Nat /\ s[1] \in Nodes
<1> DEFINE link == [n \in Nodes |->
                      LET i == CHOOSE i \in 1..Len(s) : s[i] = n
                      IN  IF i = Len(s) THEN Null ELSE s[i + 1]]
           u == Tail(s)
<1>1. Strung(s[1], link, s)
  <2>1. ASSUME NEW i \in 1..Len(s)
        PROVE  link[s[i]] = IF i = Len(s) THEN Null ELSE s[i + 1]
    <3>1. s[i] \in Nodes
      BY DEF Distinct
    <3>2. (CHOOSE k \in 1..Len(s) : s[k] = s[i]) = i
      BY DEF Distinct
    <3> QED BY <3>1, <3>2
  <2> HIDE DEF link
  <2> QED BY <2>1 DEF Strung, Distinct
<1> HIDE DEF link
<1>2. /\ s[1] \in Nodes /\ Strung(link[s[1]], link, u)
      /\ Len(u) = Len(s) - 1 /\ Len(s) \in Nat \ {0}
      /\ Of(s) = {s[1]} \cup Of(u) /\ s[1] \notin Of(u)
  BY <1>1, TailStrung
<1>3. \A i \in 1..Len(u) : u[i] = s[i + 1] /\ i + 1 \in 1..Len(s)
  BY <1>2, HeadTailProperties DEF Distinct
<1> HIDE DEF u
<1>4. Distinct(u)
  BY <1>2 DEF Strung, Distinct
<1>5. 1 \in 1..Len(s) /\ Len(s) \in Nat
  BY <1>2
<1> QED BY <1>2, <1>3, <1>4, <1>5 DEF u

\* The memory of a list without regard to its head and size
Backed(m, s) == /\ Typed(m) /\ Links(m.node, s) /\ TailIs(m.list, s)
                /\ \E f : Owned(m, Of(s), Len(s), f)

\* The same but that node n is no longer linked
Loose(m, s, n) == /\ Typed(m) /\ Links(m.node, s) /\ TailIs(m.list, s)
                  /\ n \in Nodes /\ n \notin Of(s)
                  /\ \E f : Owned(m, Of(s) \cup {n}, Len(s) + 1, f)

LEMMA CutBackIs ==
  ASSUME NEW m, NEW s, Backed(m, s), s # << >>
  PROVE  LET m1 == CutBack(m)
             u == SubSeq(s, 1, Len(s) - 1)
         IN  /\ Loose(m1, u, s[Len(s)])
             /\ m1.list = [m.list EXCEPT !.tail = m1.list.tail]
             /\ \A j \in Nodes : m1.node[j].item = m.node[j].item
<1> DEFINE L == m.list
           m1 == CutBack(m)
           u == SubSeq(s, 1, Len(s) - 1)
           p == m.node[L.tail].prev
           n == s[Len(s)]
<1>1. /\ L \in Struct0 /\ m.node \in [Nodes -> Node0] /\ m.heap \in SUBSET Nodes
      /\ Distinct(s) /\ Typed(m) /\ L.tail = n
  BY DEF Backed, Typed, Links, TailIs
<1>2. /\ Distinct(u) /\ Len(u) = Len(s) - 1
      /\ \A i \in 1..Len(u) : u[i] = s[i] /\ i \in 1..Len(s)
      /\ Of(s) = Of(u) \cup {n} /\ n \notin Of(u)
      /\ Len(s) \in 1..Len(s) /\ Len(s) \in Nat /\ n \in Nodes
      /\ Len(u) \in Nat /\ Of(u) \subseteq Nodes
  <2>1. /\ Distinct(u) /\ Len(u) = Len(s) - 1
        /\ \A i \in 1..Len(u) : u[i] = s[i] /\ i \in 1..Len(s)
        /\ Of(s) = Of(u) \cup {n} /\ n \notin Of(u)
        /\ Len(s) \in 1..Len(s) /\ Len(s) \in Nat /\ n \in Nodes
    BY <1>1, FrontIs
  <2> HIDE DEF u
  <2>2. Of(u) \subseteq Nodes
    BY <2>1, DistinctIs
  <2> QED BY <2>1, <2>2
<1> HIDE DEF u
<1>3. p = IF u = << >> THEN Null ELSE u[Len(u)]
  <2>1. p = IF Len(s) = 1 THEN Null ELSE s[Len(s) - 1]
    BY <1>1, <1>2 DEF Backed, Links
  <2>2. u = << >> <=> Len(s) = 1
    BY <1>2 DEF Distinct
  <2>3. Len(s) # 1 => Len(u) \in 1..Len(u)
    BY <1>2
  <2> QED BY <1>2, <2>1, <2>2, <2>3
<1>4. /\ p \in Nodes \cup {Null} /\ p = Null <=> u = << >>
      /\ p # Null => p \in Of(u) /\ p \in Nodes
  <2>1. u # << >> => Len(u) \in 1..Len(u)
    BY <1>2 DEF Distinct
  <2>2. u # << >> => u[Len(u)] \in Of(u)
    BY <2>1 DEF Of
  <2> QED BY <1>2, <1>3, <2>2 DEF Null, Nodes
<1>5. /\ m1.list = [L EXCEPT !.tail = p] /\ m1.heap = m.heap
      /\ m1.node = IF p = Null THEN m.node ELSE [m.node EXCEPT ![p].next = Null]
      /\ m1 = [list |-> m1.list, node |-> m1.node, heap |-> m1.heap]
  <2> DEFINE N == IF p = Null THEN m.node ELSE [m.node EXCEPT ![p].next = Null]
  <2>1. m1 = [m EXCEPT !.list.tail = p, !.node = N]
    BY <1>1 DEF CutBack, Typed
  <2> HIDE DEF N, p, m1
  <2>2. /\ m1.list = [L EXCEPT !.tail = p] /\ m1.heap = m.heap /\ m1.node = N
        /\ m1 = [list |-> m1.list, node |-> m1.node, heap |-> m1.heap]
    BY <1>1, <2>1 DEF Typed
  <2> QED BY <2>2 DEF N
<1> HIDE DEF m1, p
<1>6. /\ m1.node \in [Nodes -> Node0]
      /\ \A j \in Nodes : /\ m1.node[j].item = m.node[j].item
                          /\ m1.node[j].prev = m.node[j].prev
                          /\ m1.node[j].next = IF p # Null /\ j = p THEN Null
                                               ELSE m.node[j].next
  <2>1. CASE p = Null
    BY <1>1, <1>5, <2>1
  <2>2. CASE p # Null
    <3>1. m1.node = [m.node EXCEPT ![p].next = Null]
      BY <1>5, <2>2
    <3> QED BY <1>1, <1>4, <2>2, <3>1 DEF Node0
  <2> QED BY <2>1, <2>2
<1>7. Typed(m1) /\ m1.list.tail = p
  <2>1. m1.list \in Struct0 /\ m1.list.tail = p
    BY <1>1, <1>4, <1>5 DEF Struct0
  <2> QED BY <1>1, <1>5, <1>6, <2>1 DEF Typed
<1>8. Links(m1.node, u)
  <2> SUFFICES ASSUME NEW i \in 1..Len(u)
               PROVE  /\ m1.node[u[i]].next = IF i = Len(u) THEN Null ELSE u[i + 1]
                      /\ m1.node[u[i]].prev = IF i = 1 THEN Null ELSE u[i - 1]
    BY <1>2 DEF Links
  <2>1. /\ u[i] = s[i] /\ i \in 1..Len(s) /\ i # Len(s) /\ u[i] \in Nodes
        /\ u # << >>
    BY <1>2 DEF Distinct
  <2>2. /\ m.node[s[i]].next = s[i + 1]
        /\ m.node[s[i]].prev = IF i = 1 THEN Null ELSE s[i - 1]
    BY <2>1 DEF Backed, Links
  <2>3. i # 1 => u[i - 1] = s[i - 1]
    <3>1. i # 1 => i - 1 \in 1..Len(u)
      BY <1>2
    <3> QED BY <1>2, <3>1
  <2>4. m1.node[u[i]].next = IF i = Len(u) THEN Null ELSE u[i + 1]
    <3>1. CASE i = Len(u)
      BY <1>3, <1>4, <1>6, <2>1, <3>1
    <3>2. CASE i # Len(u)
      <4>1. i + 1 \in 1..Len(u) /\ Len(u) \in 1..Len(u)
        BY <1>2, <3>2
      <4>2. u[i + 1] = s[i + 1] /\ u[i] # u[Len(u)]
        BY <1>2, <3>2, <4>1 DEF Distinct
      <4> QED BY <1>3, <1>6, <2>1, <2>2, <3>2, <4>2
    <3> QED BY <3>1, <3>2
  <2> QED BY <1>6, <2>1, <2>2, <2>3, <2>4
<1>9. TailIs(m1.list, u)
  BY <1>3, <1>7 DEF TailIs
<1>10. \E f : Owned(m1, Of(u) \cup {n}, Len(u) + 1, f)
  <2>1. PICK f : Owned(m, Of(s), Len(s), f)
    BY DEF Backed
  <2>2. \A j \in Of(f) : j \notin Of(s) /\ j \in Nodes
    BY <2>1, FreeApart, DistinctIs DEF Owned, Strung, Distinct
  <2>3. \A j \in Of(f) : m1.node[j].next = m.node[j].next
    BY <1>2, <1>4, <1>6, <2>2
  <2>4. /\ m1.list.first_unused = L.first_unused
        /\ m1.list.allocator = L.allocator /\ m1.list.capacity = L.capacity
    BY <1>1, <1>5 DEF Struct0
  <2>5. Owned(m1, Of(s), Len(s), f)
    BY <1>5, <2>1, <2>3, <2>4, OwnedKept
  <2>6. Len(u) + 1 = Len(s)
    BY <1>2
  <2> QED BY <1>2, <2>5, <2>6
<1> QED BY <1>2, <1>5, <1>6, <1>7, <1>8, <1>9, <1>10 DEF Loose, m1, u

LEMMA LooseReturned ==
  ASSUME NEW m, NEW s, NEW n, Loose(m, s, n)
  PROVE  LET m1 == DeallocateNode(m, n)
         IN  /\ Backed(m1, s) /\ Alike(m1.list, m.list)
             /\ \A j \in Of(s) : m1.node[j] = m.node[j]
<1> DEFINE m1 == DeallocateNode(m, n)
<1>1. PICK f : Owned(m, Of(s) \cup {n}, Len(s) + 1, f)
  BY DEF Loose
<1>2. /\ Typed(m) /\ Of(s) \in SUBSET Nodes /\ Len(s) \in Nat
      /\ n \in Nodes /\ n \notin Of(s) /\ Distinct(s)
  BY DistinctIs DEF Loose, Links
<1>3. /\ Typed(m1) /\ Alike(m1.list, m.list)
      /\ \A j \in Of(s) : m1.node[j] = m.node[j]
      /\ \E f1 : Owned(m1, Of(s), Len(s), f1)
  BY <1>1, <1>2, DeallocateNodeIs
<1> HIDE DEF m1
<1>4. \A i \in 1..Len(s) : m1.node[s[i]] = m.node[s[i]]
  BY <1>3 DEF Of
<1>5. Links(m1.node, s) /\ TailIs(m1.list, s)
  BY <1>3, <1>4 DEF Loose, Links, TailIs, Alike
<1> QED BY <1>3, <1>5 DEF Backed, m1

\* The fields a call leaves alone in whatever list it works on
LEMMA LooseKept ==
  ASSUME NEW m, NEW m1, NEW s, NEW n, Loose(m, s, n), Typed(m1),
         m1.node = m.node, m1.heap = m.heap, m1.list.tail = m.list.tail,
         m1.list.first_unused = m.list.first_unused,
         m1.list.allocator = m.list.allocator,
         m1.list.capacity = m.list.capacity
  PROVE  Loose(m1, s, n)
<1>1. PICK f : Owned(m, Of(s) \cup {n}, Len(s) + 1, f)
  BY DEF Loose
<1>2. Owned(m1, Of(s) \cup {n}, Len(s) + 1, f)
  BY <1>1, OwnedKept
<1> QED BY <1>2 DEF Loose, TailIs

-----------------------------------------------------------------------------
(***************************************************************************)
(* The invariant: an initialised list has the nodes of some sequence s,    *)
(* each linked to its neighbours, and owns its nodes; the allocator holds  *)
(* none of a list that is not.                                             *)
(***************************************************************************)
Held(m, s) == Backed(m, s) /\ HeadIs(m.list, s) /\ m.list.size = Len(s)

Answers == {"SUCCESS", "INVALID_OPERATION", "INSUFFICIENT_BUFFER_SIZE",
            "NOT_ENOUGH_MEMORY"}

Returned == /\ live \in BOOLEAN
            /\ status \in Answers
            /\ destroyed \in Seq(Cell)

ListInv == /\ Typed(Memory) /\ Returned
           /\ IF live THEN \E s : Held(Memory, s) ELSE heap = {}

LEMMA TypedIs ==
  ASSUME NEW m, Typed(m)
  PROVE  /\ m.list \in Struct0 /\ m.node \in [Nodes -> Node0]
         /\ m.heap \in SUBSET Nodes
         /\ m = [list |-> m.list, node |-> m.node, heap |-> m.heap]
BY DEF Typed

LEMMA MemoryTyped ==
  Typed(Memory) <=> /\ list \in Struct0 /\ node \in [Nodes -> Node0]
                    /\ heap \subseteq Nodes
BY DEF Typed, Memory

LEMMA HeldWalks ==
  ASSUME NEW s, Held(Memory, s)
  PROVE  /\ Chain = s /\ InList = Of(s) /\ list.size = Len(s) /\ Distinct(s)
         /\ Walk(list.tail, PrevOf(node)) = SeqX!Reverse(s)
         /\ \E f : Owned(Memory, Of(s), Len(s), f)
<1>1. /\ Links(Memory.node, s) /\ HeadIs(Memory.list, s)
      /\ TailIs(Memory.list, s) /\ Distinct(s)
      /\ \E f : Owned(Memory, Of(s), Len(s), f)
  BY DEF Held, Backed, Links
<1>2. Memory.list = list /\ Memory.node = node
  BY DEF Memory
<1>3. Chain = s /\ Walk(Memory.list.tail, PrevOf(Memory.node)) = SeqX!Reverse(s)
  BY <1>1, LinkedWalks DEF Chain
<1> QED BY <1>1, <1>2, <1>3, DistinctIs DEF Held, InList

LEMMA ItemsType ==
  ASSUME NEW m, Typed(m), NEW nodes \in Seq(Nodes)
  PROVE  Items(m, nodes) \in Seq(Cell)
<1>1. \A i \in 1..Len(nodes) : m.node[nodes[i]].item \in Cell
  <2>1. \A i \in 1..Len(nodes) : nodes[i] \in Nodes
    BY ElementOfSeq
  <2> QED BY <2>1, TypedIs DEF Node0
<1> QED BY <1>1 DEF Items

\* A call that gives the list other nodes leaves those that stay their item.
Reaches(m, s, m1) ==
  \E s1 : /\ Held(m1, s1)
          /\ Len(s1) # Len(s)
               => \A n \in Of(s) \cap Of(s1) : m1.node[n].item = m.node[n].item

Stay == live /\ live' /\ list'.size # list.size
          => \A n \in InList \cap InList' : node'[n].item = node[n].item

LEMMA HeldNow ==
  ASSUME NEW s, Held(Memory', s)
  PROVE  Chain' = s /\ InList' = Of(s) /\ list'.size = Len(s)
<1>1. /\ Links(Memory'.node, s) /\ HeadIs(Memory'.list, s)
      /\ TailIs(Memory'.list, s) /\ Distinct(s) /\ Memory'.list.size = Len(s)
  BY DEF Held, Backed, Links
<1>2. Forward(Memory') = s
  BY <1>1, LinkedWalks
<1>3. Chain' = Forward(Memory')
  BY DEF Chain, Forward
<1>4. SeqX!ToSet(s) = Of(s)
  BY <1>1, DistinctIs
<1>5. InList' = SeqX!ToSet(Chain')
  BY DEF InList
<1>6. Memory'.list = list'
  BY DEF Memory
<1> QED BY <1>1, <1>2, <1>3, <1>4, <1>5, <1>6

LEMMA FinishInv ==
  ASSUME ListInv, live, NEW s, Held(Memory, s), NEW m1, Reaches(Memory, s, m1),
         NEW st \in Answers,
         NEW gone \in Seq(Cell), Finish(m1, st, gone)
  PROVE  ListInv' /\ Stay
<1>1. PICK s1 : /\ Held(m1, s1)
                /\ Len(s1) # Len(s)
                     => \A n \in Of(s) \cap Of(s1) : m1.node[n].item = node[n].item
  BY DEF Reaches, Memory
<1>2. Typed(m1) /\ m1 = [list |-> m1.list, node |-> m1.node, heap |-> m1.heap]
  BY <1>1, TypedIs DEF Held, Backed
<1>3. /\ list' = m1.list /\ node' = m1.node /\ heap' = m1.heap
      /\ live' = live /\ status' = st
      /\ destroyed' = IF list.destructor THEN gone ELSE << >>
  BY DEF Finish, Store
<1>4. Memory' = m1
  BY <1>2, <1>3 DEF Memory
<1>5. Returned'
  BY <1>3 DEF Returned, ListInv
<1>6. ListInv'
  BY <1>1, <1>2, <1>3, <1>4, <1>5 DEF ListInv
<1>7. Stay
  <2>1. InList' = Of(s1) /\ list'.size = Len(s1) /\ InList = Of(s) /\ list.size = Len(s)
    BY <1>1, <1>4, HeldNow, HeldWalks
  <2> QED BY <1>1, <1>3, <2>1 DEF Stay
<1> QED BY <1>6, <1>7

LEMMA RefuseInv ==
  ASSUME ListInv, live,
         NEW st \in Answers,
         Refuse(st)
  PROVE  ListInv' /\ Stay
<1>1. PICK s : Held(Memory, s)
  BY DEF ListInv
<1>2. Reaches(Memory, s, Memory)
  BY <1>1 DEF Reaches
<1>3. << >> \in Seq(Cell)
  OBVIOUS
<1> QED BY <1>1, <1>2, <1>3, FinishInv DEF Refuse

-----------------------------------------------------------------------------
(* Insertion *)

LEMMA ShapedHeld ==
  ASSUME NEW m, NEW s, NEW f, Shaped(m, s, f), m.list.size = Len(s)
  PROVE  Held(m, s)
BY DEF Held, Backed, Shaped

LEMMA HeldShaped ==
  ASSUME NEW m, NEW s, Held(m, s)
  PROVE  (\E f : Shaped(m, s, f)) /\ m.list.size = Len(s)
BY DEF Held, Backed, Shaped

\* The list is left with the nodes s1: those it had still hold their items.
Goes(s, s1, m1) ==
  /\ Held(m1, s1) /\ m1.list.destructor = list.destructor
  /\ \A n \in Of(s) \cap Of(s1) : m1.node[n].item = node[n].item

LEMMA GoesReaches ==
  ASSUME NEW s, NEW s1, NEW m1, Goes(s, s1, m1)
  PROVE  Reaches(Memory, s, m1)
BY DEF Goes, Reaches, Memory

LEMMA LinkedGoes ==
  ASSUME NEW s, Held(Memory, s), NEW o \in AllocateNode(Memory),
         o.status = "SUCCESS", NEW c \in Cell
  PROVE  LET back == LinkBack(o.m, o.n, c)
             front == LinkFront(o.m, o.n, c)
         IN  /\ Goes(s, Append(s, o.n), back) /\ back.node[o.n].item = c
             /\ Goes(s, <<o.n>> \o s, front) /\ front.node[o.n].item = c
             /\ Distinct(s) /\ o.n \in Nodes /\ o.n \notin Of(s)
             /\ o.m.node \in [Nodes -> Node0]
<1>1. PICK f : Shaped(Memory, s, f) /\ Memory.list.size = Len(s)
  BY HeldShaped
<1>2. /\ Ready(o.m, s, o.n) /\ o.m.node = node
      /\ o.m.list.destructor = list.destructor
  BY <1>1, TakenReady DEF Memory
<1>3. /\ Distinct(s) /\ o.n \in Nodes /\ o.n \notin Of(s)
      /\ o.m.node \in [Nodes -> Node0]
  BY <1>2, TypedIs DEF Ready, Links
<1>4. /\ Len(Append(s, o.n)) = Len(s) + 1 /\ Len(<<o.n>> \o s) = Len(s) + 1
  BY <1>3, AppendIs, ConsIs
<1>5. LET back == LinkBack(o.m, o.n, c)
      IN  Goes(s, Append(s, o.n), back) /\ back.node[o.n].item = c
  <2> DEFINE m1 == LinkBack(o.m, o.n, c)
  <2>1. /\ \E f1 : Shaped(m1, Append(s, o.n), f1)
        /\ m1.list.size = Len(s) + 1
        /\ m1.list.destructor = o.m.list.destructor
        /\ \A j \in Of(s) : m1.node[j].item = o.m.node[j].item
        /\ m1.node[o.n].item = c
    BY <1>2, LinkBackIs
  <2> HIDE DEF m1
  <2>2. Held(m1, Append(s, o.n))
    BY <1>4, <2>1, ShapedHeld
  <2>3. Goes(s, Append(s, o.n), m1)
    BY <1>2, <2>1, <2>2 DEF Goes
  <2> QED BY <2>1, <2>3 DEF m1
<1>6. LET front == LinkFront(o.m, o.n, c)
      IN  Goes(s, <<o.n>> \o s, front) /\ front.node[o.n].item = c
  <2> DEFINE m1 == LinkFront(o.m, o.n, c)
  <2>1. /\ \E f1 : Shaped(m1, <<o.n>> \o s, f1)
        /\ m1.list.size = Len(s) + 1
        /\ m1.list.destructor = o.m.list.destructor
        /\ \A j \in Of(s) : m1.node[j].item = o.m.node[j].item
        /\ m1.node[o.n].item = c
    BY <1>2, LinkFrontIs
  <2> HIDE DEF m1
  <2>2. Held(m1, <<o.n>> \o s)
    BY <1>4, <2>1, ShapedHeld
  <2>3. Goes(s, <<o.n>> \o s, m1)
    BY <1>2, <2>1, <2>2 DEF Goes
  <2> QED BY <2>1, <2>3 DEF m1
<1> QED BY <1>3, <1>5, <1>6

LEMMA InsertionInv ==
  ASSUME ListInv, Insertion
  PROVE  ListInv' /\ Stay
<1>1. PICK e \in Element : \/ PushBack(e) \/ PushFront(e)
                           \/ EmplaceBack(e) \/ EmplaceFront(e)
  BY DEF Insertion
<1>2. live
  BY <1>1 DEF PushBack, PushFront, EmplaceBack, EmplaceFront, Push, Emplace
<1>3. PICK s : Held(Memory, s)
  BY <1>2 DEF ListInv
<1>4. PICK o \in AllocateNode(Memory) :
        IF o.status # "SUCCESS" THEN Refuse(o.status)
        ELSE \E c \in {e, o.m.node[o.n].item} :
               \/ Finish(LinkBack(o.m, o.n, c), "SUCCESS", << >>)
               \/ Finish(LinkFront(o.m, o.n, c), "SUCCESS", << >>)
  BY <1>1 DEF PushBack, PushFront, EmplaceBack, EmplaceFront, Push, Emplace
<1>5. PICK f : Shaped(Memory, s, f) /\ Memory.list.size = Len(s)
  BY <1>3, HeldShaped
<1>6. CASE o.status # "SUCCESS"
  <2>1. o.status \in Outcomes
    BY <1>5, <1>6, AllocateNodeIs
  <2>2. o.status \in Answers
    BY <2>1 DEF Outcomes, Answers
  <2> QED BY <1>2, <1>4, <1>6, <2>2, RefuseInv
<1>7. CASE o.status = "SUCCESS"
  <2>1. PICK c \in {e, o.m.node[o.n].item} :
               \/ Finish(LinkBack(o.m, o.n, c), "SUCCESS", << >>)
               \/ Finish(LinkFront(o.m, o.n, c), "SUCCESS", << >>)
    BY <1>4, <1>7
  <2>2. c \in Cell
    <3>1. Ready(o.m, s, o.n)
      BY <1>5, <1>7, TakenReady
    <3>2. o.m.node \in [Nodes -> Node0] /\ o.n \in Nodes
      BY <3>1, TypedIs DEF Ready
    <3>3. o.m.node[o.n].item \in Cell
      BY <3>2 DEF Node0
    <3> QED BY <3>3 DEF Cell
  <2>3. /\ Reaches(Memory, s, LinkBack(o.m, o.n, c))
        /\ Reaches(Memory, s, LinkFront(o.m, o.n, c))
    BY <1>3, <1>7, <2>2, LinkedGoes, GoesReaches
  <2>4. << >> \in Seq(Cell) /\ "SUCCESS" \in Answers
    BY DEF Answers
  <2> QED BY <1>2, <1>3, <2>1, <2>3, <2>4, FinishInv
<1> QED BY <1>6, <1>7

-----------------------------------------------------------------------------
(* Deletion and assignment *)

LEMMA PopBackIs ==
  ASSUME PopBack, NEW s, Held(Memory, s), list.tail # Null
  PROVE  /\ s # << >> /\ <<node[s[Len(s)]].item>> \in Seq(Cell)
         /\ \E m1 : /\ Goes(s, SubSeq(s, 1, Len(s) - 1), m1)
                    /\ Finish(m1, "SUCCESS", <<node[s[Len(s)]].item>>)
<1>0. /\ Memory.list = list /\ Memory.node = node /\ Memory.heap = heap
      /\ Typed(Memory) /\ Backed(Memory, s) /\ HeadIs(list, s) /\ TailIs(list, s)
      /\ list.size = Len(s) /\ Distinct(s) /\ list \in Struct0
      /\ node \in [Nodes -> Node0]
  BY MemoryTyped DEF Memory, Held, Backed, Links
<1> DEFINE n == s[Len(s)]
           u == SubSeq(s, 1, Len(s) - 1)
           cut == CutBack(Memory)
           m == [cut EXCEPT !.list.head = IF @ = n THEN cut.list.tail ELSE @,
                            !.list.size = @ - 1]
           m1 == DeallocateNode(m, n)
<1>1. s # << >> /\ list.tail = n
  BY <1>0 DEF TailIs
<1>2. Finish(m1, "SUCCESS", <<node[n].item>>)
  BY <1>1 DEF PopBack
<1>3. /\ Loose(cut, u, n) /\ cut.list = [list EXCEPT !.tail = cut.list.tail]
      /\ \A j \in Nodes : cut.node[j].item = node[j].item
  BY <1>0, <1>1, CutBackIs
<1>4. /\ Distinct(u) /\ Len(u) = Len(s) - 1
      /\ \A i \in 1..Len(u) : u[i] = s[i] /\ i \in 1..Len(s)
      /\ Of(s) = Of(u) \cup {n} /\ n \notin Of(u) /\ n \in Nodes
      /\ Len(s) \in 1..Len(s) /\ Len(s) \in Nat
  BY <1>0, <1>1, FrontIs
<1>5. Typed(cut) /\ TailIs(cut.list, u)
  BY <1>3 DEF Loose
<1> DEFINE h == IF list.head = n THEN cut.list.tail ELSE list.head
<1>6. /\ m.node = cut.node /\ m.heap = cut.heap
      /\ m = [list |-> m.list, node |-> m.node, heap |-> m.heap]
      /\ m.list = [cut.list EXCEPT !.head = h, !.size = list.size - 1]
  <2>1. cut.list.head = list.head /\ cut.list.size = list.size
    BY <1>0, <1>3 DEF Struct0
  <2>2. m = [cut EXCEPT !.list.head = h, !.list.size = list.size - 1]
    BY <1>5, <2>1 DEF Typed, Struct0
  <2> HIDE DEF h, cut, m
  <2> QED BY <1>5, <2>2 DEF Typed
<1>7. HeadIs([head |-> h], u)
  <2>1. list.head = s[1]
    BY <1>0, <1>1 DEF HeadIs
  <2>2. CASE Len(s) = 1
    <3>1. u = << >> /\ h = cut.list.tail
      BY <1>4, <2>1, <2>2
    <3> QED BY <1>5, <3>1 DEF HeadIs, TailIs
  <2>3. CASE Len(s) # 1
    <3>1. 1 \in 1..Len(u) /\ 1 \in 1..Len(s) /\ Len(s) \in 1..Len(s)
      BY <1>4, <2>3
    <3>2. u[1] = s[1] /\ s[1] # n
      BY <1>0, <1>4, <2>3, <3>1 DEF Distinct
    <3> HIDE DEF u
    <3>3. u # << >>
      BY <3>1
    <3> QED BY <2>1, <3>2, <3>3 DEF HeadIs
  <2> QED BY <2>2, <2>3
<1> HIDE DEF u, cut, m
<1>8. h \in Nodes \cup {Null} /\ cut.list \in Struct0
  BY <1>0, <1>5, TypedIs DEF Struct0
<1> HIDE DEF h
<1>9. m.list.head = h /\ m.list.size = list.size - 1 /\ m.list \in Struct0
  <2>1. list.size - 1 \in 0..MaxNodes
    BY <1>0, <1>4, ListAssumption DEF Struct0
  <2> QED BY <1>6, <1>8, <2>1 DEF Struct0
<1>10. /\ m.list.tail = cut.list.tail
       /\ m.list.first_unused = cut.list.first_unused
       /\ m.list.allocator = cut.list.allocator
       /\ m.list.capacity = cut.list.capacity
  BY <1>6, <1>8 DEF Struct0
<1>11. Typed(m)
  BY <1>5, <1>6, <1>9, TypedIs DEF Typed
<1>12. Loose(m, u, n)
  BY <1>3, <1>6, <1>10, <1>11, LooseKept
<1>13. /\ Backed(m1, u) /\ Alike(m1.list, m.list)
       /\ \A j \in Of(u) : m1.node[j] = m.node[j]
  BY <1>12, LooseReturned
<1> HIDE DEF m1
<1>14. Held(m1, u)
  BY <1>0, <1>4, <1>7, <1>9, <1>13 DEF Held, HeadIs, Alike
<1>15. Goes(s, u, m1)
  <2>1. Of(u) \subseteq Nodes
    BY <1>4, DistinctIs
  <2>2. \A j \in Of(u) : m1.node[j].item = node[j].item
    BY <1>3, <1>6, <1>13, <2>1
  <2>3. m.list.destructor = list.destructor
    BY <1>0, <1>3, <1>6, <1>8 DEF Struct0
  <2> QED BY <1>13, <1>14, <2>2, <2>3 DEF Goes, Alike
<1>16. <<node[n].item>> \in Seq(Cell)
  BY <1>0, <1>4 DEF Node0
<1> HIDE DEF n
<1>17. \E w : Goes(s, u, w) /\ Finish(w, "SUCCESS", <<node[n].item>>)
  BY <1>2, <1>15
<1> QED BY <1>1, <1>16, <1>17 DEF n, u

LEMMA PopBackInv ==
  ASSUME ListInv, PopBack
  PROVE  ListInv' /\ Stay
<1>1. live /\ "SUCCESS" \in Answers /\ "INVALID_OPERATION" \in Answers
  BY DEF PopBack, Answers
<1>2. PICK s : Held(Memory, s)
  BY <1>1 DEF ListInv
<1>3. CASE list.tail = Null
  BY <1>1, <1>3, RefuseInv DEF PopBack
<1>4. CASE list.tail # Null
  BY <1>1, <1>2, <1>4, PopBackIs, GoesReaches, FinishInv
<1> QED BY <1>3, <1>4

LEMMA PopFrontIs ==
  ASSUME PopFront, NEW s, Held(Memory, s), list.head # Null
  PROVE  /\ s # << >> /\ <<node[s[1]].item>> \in Seq(Cell)
         /\ \E m1 : /\ Goes(s, Tail(s), m1)
                    /\ Finish(m1, "SUCCESS", <<node[s[1]].item>>)
<1>0. /\ Memory.list = list /\ Memory.node = node /\ Memory.heap = heap
      /\ Typed(Memory) /\ Links(node, s) /\ HeadIs(list, s) /\ TailIs(list, s)
      /\ list.size = Len(s) /\ Distinct(s) /\ list \in Struct0
      /\ node \in [Nodes -> Node0] /\ heap \in SUBSET Nodes
      /\ \E f : Owned(Memory, Of(s), Len(s), f)
  BY MemoryTyped DEF Memory, Held, Backed, Links
<1> DEFINE n == s[1]
           u == Tail(s)
           h == node[n].next
           N == IF h = Null THEN node ELSE [node EXCEPT ![h].prev = Null]
           t == IF list.tail = n THEN h ELSE list.tail
           m == [Memory EXCEPT
                    !.list.head = h,
                    !.list.tail = IF @ = n THEN h ELSE @,
                    !.list.size = @ - 1,
                    !.node = IF h = Null THEN @ ELSE [@ EXCEPT ![h].prev = Null]]
           m1 == DeallocateNode(m, n)
<1>1. s # << >> /\ list.head = n
  BY <1>0 DEF HeadIs
<1>2. Finish(m1, "SUCCESS", <<node[n].item>>)
  BY <1>1 DEF PopFront
<1>3. /\ Distinct(u) /\ Len(u) = Len(s) - 1
      /\ \A i \in 1..Len(u) : u[i] = s[i + 1] /\ i + 1 \in 1..Len(s)
      /\ Of(s) = Of(u) \cup {n} /\ n \notin Of(u) /\ n \in Nodes
      /\ 1 \in 1..Len(s) /\ Len(s) \in Nat
  BY <1>0, <1>1, RestIs
<1> HIDE DEF u
<1>4. Of(u) \subseteq Nodes /\ Len(u) \in Nat
  BY <1>3, DistinctIs
<1>5. h = IF u = << >> THEN Null ELSE u[1]
  <2>1. h = IF 1 = Len(s) THEN Null ELSE s[1 + 1]
    BY <1>0, <1>3 DEF Links
  <2>2. u = << >> <=> 1 = Len(s)
    BY <1>3 DEF Distinct
  <2>3. u # << >> => 1 \in 1..Len(u)
    BY <1>3, <2>2
  <2> QED BY <1>3, <2>1, <2>2, <2>3
<1>6. /\ h \in Nodes \cup {Null} /\ h = Null <=> u = << >>
      /\ h # Null => h \in Of(u) /\ h \in Nodes
  <2>1. u # << >> => 1 \in 1..Len(u)
    BY <1>3 DEF Distinct
  <2>2. u # << >> => u[1] \in Of(u)
    BY <2>1 DEF Of
  <2> QED BY <1>4, <1>5, <2>2 DEF Null, Nodes
<1>7. /\ m.node = N /\ m.heap = heap
      /\ m = [list |-> m.list, node |-> m.node, heap |-> m.heap]
      /\ m.list = [list EXCEPT !.head = h, !.tail = t, !.size = list.size - 1]
  <2>1. m = [Memory EXCEPT !.list.head = h, !.list.tail = t,
                           !.list.size = list.size - 1, !.node = N]
    BY <1>0 DEF Memory, Struct0
  <2> HIDE DEF h, t, N, m
  <2> QED BY <2>1 DEF Memory
<1> HIDE DEF h, m
<1>8. /\ N \in [Nodes -> Node0]
      /\ \A j \in Nodes : /\ N[j].item = node[j].item /\ N[j].next = node[j].next
                          /\ N[j].prev = IF h # Null /\ j = h THEN Null
                                         ELSE node[j].prev
  <2>1. CASE h = Null
    BY <1>0, <2>1
  <2>2. CASE h # Null
    <3>1. N = [node EXCEPT ![h].prev = Null]
      BY <2>2
    <3> HIDE DEF N
    <3> QED BY <1>0, <1>6, <2>2, <3>1 DEF Node0
  <2> QED BY <2>1, <2>2
<1> HIDE DEF N
<1>9. TailIs([tail |-> t], u)
  <2>1. list.tail = s[Len(s)]
    BY <1>0, <1>1 DEF TailIs
  <2>2. CASE Len(s) = 1
    <3>1. u = << >> /\ t = h
      BY <1>3, <2>1, <2>2
    <3> QED BY <1>5, <3>1 DEF TailIs
  <2>3. CASE Len(s) # 1
    <3>1. Len(u) \in 1..Len(u) /\ Len(s) \in 1..Len(s) /\ Len(u) + 1 = Len(s)
      BY <1>3, <2>3
    <3>2. u[Len(u)] = s[Len(s)] /\ s[Len(s)] # n
      BY <1>0, <1>3, <2>3, <3>1 DEF Distinct
    <3>3. u # << >>
      BY <3>1
    <3> QED BY <2>1, <3>2, <3>3 DEF TailIs
  <2> QED BY <2>2, <2>3
<1>10. t \in Nodes \cup {Null}
  BY <1>0, <1>6 DEF Struct0
<1> HIDE DEF t
<1>11. /\ m.list \in Struct0 /\ m.list.head = h /\ m.list.tail = t
       /\ m.list.size = list.size - 1
       /\ m.list.first_unused = list.first_unused
       /\ m.list.allocator = list.allocator /\ m.list.capacity = list.capacity
  <2>1. list.size - 1 \in 0..MaxNodes
    BY <1>0, <1>3, ListAssumption DEF Struct0
  <2> QED BY <1>0, <1>6, <1>7, <1>10, <2>1 DEF Struct0
<1>12. Typed(m)
  BY <1>0, <1>7, <1>8, <1>11 DEF Typed
<1>13. Links(m.node, u)
  <2> SUFFICES ASSUME NEW i \in 1..Len(u)
               PROVE  /\ N[u[i]].next = IF i = Len(u) THEN Null ELSE u[i + 1]
                      /\ N[u[i]].prev = IF i = 1 THEN Null ELSE u[i - 1]
    BY <1>3, <1>7 DEF Links
  <2>1. /\ u[i] = s[i + 1] /\ i + 1 \in 1..Len(s) /\ u[i] \in Nodes /\ u # << >>
        /\ i \in Nat /\ (i = Len(u) <=> i + 1 = Len(s)) /\ i + 1 # 1
    BY <1>3 DEF Distinct
  <2>2. /\ node[s[i + 1]].next = IF i + 1 = Len(s) THEN Null ELSE s[(i + 1) + 1]
        /\ node[s[i + 1]].prev = s[(i + 1) - 1]
    BY <1>0, <2>1 DEF Links
  <2>3. N[u[i]].next = IF i = Len(u) THEN Null ELSE u[i + 1]
    <3>1. i # Len(u) => i + 1 \in 1..Len(u)
      BY <1>4
    <3>2. i # Len(u) => u[i + 1] = s[(i + 1) + 1]
      BY <1>3, <3>1
    <3> QED BY <1>8, <2>1, <2>2, <3>2
  <2>4. N[u[i]].prev = IF i = 1 THEN Null ELSE u[i - 1]
    <3>1. CASE i = 1
      BY <1>5, <1>6, <1>8, <2>1, <3>1
    <3>2. CASE i # 1
      <4>1. i - 1 \in 1..Len(u) /\ (i - 1) + 1 = (i + 1) - 1 /\ 1 \in 1..Len(u)
        BY <1>4, <3>2
      <4>2. u[i - 1] = s[(i + 1) - 1] /\ u[i] # u[1]
        BY <1>3, <3>2, <4>1 DEF Distinct
      <4> QED BY <1>5, <1>8, <2>1, <2>2, <3>2, <4>2
    <3> QED BY <3>1, <3>2
  <2> QED BY <2>3, <2>4
<1>14. \E f : Owned(m, Of(u) \cup {n}, Len(u) + 1, f)
  <2>1. PICK f : Owned(Memory, Of(s), Len(s), f)
    BY <1>0
  <2>2. \A j \in Of(f) : j \in Nodes
    BY <2>1, DistinctIs DEF Owned, Strung, Distinct
  <2>3. \A j \in Of(f) : m.node[j].next = Memory.node[j].next
    BY <1>0, <1>7, <1>8, <2>2
  <2>4. Owned(m, Of(s), Len(s), f)
    <3>1. /\ m.list.first_unused = Memory.list.first_unused
          /\ m.list.allocator = Memory.list.allocator
          /\ m.list.capacity = Memory.list.capacity /\ m.heap = Memory.heap
      BY <1>0, <1>7, <1>11
    <3> QED BY <2>1, <2>3, <3>1, OwnedKept
  <2>5. Len(u) + 1 = Len(s)
    BY <1>3
  <2> QED BY <1>3, <2>4, <2>5
<1>15. Loose(m, u, n)
  BY <1>3, <1>9, <1>11, <1>12, <1>13, <1>14 DEF Loose, TailIs
<1>16. /\ Backed(m1, u) /\ Alike(m1.list, m.list)
       /\ \A j \in Of(u) : m1.node[j] = m.node[j]
  BY <1>15, LooseReturned
<1> HIDE DEF m1
<1>17. Held(m1, u)
  BY <1>0, <1>3, <1>5, <1>11, <1>16 DEF Held, HeadIs, Alike
<1>18. Goes(s, u, m1)
  <2>1. \A j \in Of(u) : m1.node[j].item = node[j].item
    BY <1>4, <1>7, <1>8, <1>16
  <2>2. m.list.destructor = list.destructor
    BY <1>0, <1>7 DEF Struct0
  <2> QED BY <1>16, <1>17, <2>1, <2>2 DEF Goes, Alike
<1>19. <<node[n].item>> \in Seq(Cell)
  BY <1>0, <1>3 DEF Node0
<1> HIDE DEF n
<1>20. \E w : Goes(s, u, w) /\ Finish(w, "SUCCESS", <<node[n].item>>)
  BY <1>2, <1>18
<1> QED BY <1>1, <1>19, <1>20 DEF n, u

LEMMA PopFrontInv ==
  ASSUME ListInv, PopFront
  PROVE  ListInv' /\ Stay
<1>1. live /\ "SUCCESS" \in Answers /\ "INVALID_OPERATION" \in Answers
  BY DEF PopFront, Answers
<1>2. PICK s : Held(Memory, s)
  BY <1>1 DEF ListInv
<1>3. CASE list.head = Null
  BY <1>1, <1>3, RefuseInv DEF PopFront
<1>4. CASE list.head # Null
  BY <1>1, <1>2, <1>4, PopFrontIs, GoesReaches, FinishInv
<1> QED BY <1>3, <1>4

LEMMA SetNodeDataIs ==
  ASSUME NEW s, Held(Memory, s), NEW n \in InList, NEW e \in Element,
         SetNodeData(n, e)
  PROVE  /\ <<node[n].item>> \in Seq(Cell)
         /\ \E m : /\ Held(m, s) /\ m.list = list
                   /\ Finish(m, "SUCCESS", <<node[n].item>>)
                   /\ \A j \in Nodes : m.node[j].item = IF j = n THEN e
                                                        ELSE node[j].item
<1> DEFINE m == [Memory EXCEPT !.node[n].item = e]
<1>1. Finish(m, "SUCCESS", <<node[n].item>>)
  BY DEF SetNodeData
<1>2. Held(Memory, s)
  OBVIOUS
<1>3. /\ Links(node, s) /\ HeadIs(list, s) /\ TailIs(list, s)
      /\ list.size = Len(s) /\ list \in Struct0
      /\ node \in [Nodes -> Node0] /\ heap \in SUBSET Nodes
      /\ Memory.list = list /\ Memory.node = node /\ Memory.heap = heap
  BY <1>2, MemoryTyped DEF Memory, Held, Backed
<1>4. Distinct(s) /\ Of(s) \subseteq Nodes /\ n \in Nodes
  BY <1>2, HeldWalks, DistinctIs
<1>5. /\ m.node = [node EXCEPT ![n].item = e] /\ m.list = list /\ m.heap = heap
      /\ m = [list |-> m.list, node |-> m.node, heap |-> m.heap]
  BY DEF Memory
<1> HIDE DEF m
<1>6. /\ m.node \in [Nodes -> Node0]
      /\ \A j \in Nodes : /\ m.node[j].next = node[j].next
                          /\ m.node[j].prev = node[j].prev
                          /\ m.node[j].item = IF j = n THEN e ELSE node[j].item
  BY <1>3, <1>4, <1>5 DEF Node0, Cell
<1>7. Typed(m)
  BY <1>3, <1>5, <1>6 DEF Typed
<1>8. Links(m.node, s)
  <2>1. \A i \in 1..Len(s) : s[i] \in Nodes
    BY <1>4 DEF Distinct
  <2> QED BY <1>3, <1>6, <2>1 DEF Links
<1>9. PICK f : Owned(Memory, Of(s), Len(s), f)
  BY <1>2, HeldWalks
<1>10. Owned(m, Of(s), Len(s), f)
  <2>1. \A j \in Of(f) : j \in Nodes
    BY <1>9, DistinctIs DEF Owned, Strung, Distinct
  <2>2. \A j \in Of(f) : m.node[j].next = Memory.node[j].next
    BY <1>3, <1>6, <2>1
  <2>3. m.list = Memory.list /\ m.heap = Memory.heap
    BY <1>3, <1>5
  <2> QED BY <1>9, <2>2, <2>3, OwnedKept
<1>11. Held(m, s)
  BY <1>3, <1>5, <1>7, <1>8, <1>10 DEF Held, Backed
<1>12. <<node[n].item>> \in Seq(Cell)
  BY <1>3, <1>4 DEF Node0
<1> QED BY <1>1, <1>5, <1>6, <1>11, <1>12

LEMMA SetNodeDataInv ==
  ASSUME ListInv, NEW n \in InList, NEW e \in Element, SetNodeData(n, e)
  PROVE  ListInv' /\ Stay
<1>1. live /\ "SUCCESS" \in Answers
  BY DEF SetNodeData, Answers
<1>2. PICK s : Held(Memory, s)
  BY <1>1 DEF ListInv
<1>3. /\ <<node[n].item>> \in Seq(Cell)
      /\ \E m : Held(m, s) /\ Finish(m, "SUCCESS", <<node[n].item>>)
  BY <1>2, SetNodeDataIs
<1>4. \A m : Held(m, s) => Reaches(Memory, s, m)
  BY DEF Reaches
<1> QED BY <1>1, <1>2, <1>3, <1>4, FinishInv

\* A list without nodes, however it came to have none
LEMMA EmptyHeld ==
  ASSUME NEW m, Typed(m), m.list.head = Null, m.list.tail = Null,
         m.list.first_unused = Null, m.list.size = 0, m.heap = {},
         ~IsDynamic(m.list) => m.list.capacity <= MaxNodes
  PROVE  Held(m, << >>)
<1>1. /\ << >> \in Seq(Nodes) /\ Len(<< >>) = 0 /\ Of(<< >>) = {}
      /\ 1..0 = {} /\ 1..Len(<< >>) = {} /\ m.list.capacity \in Nat
  BY TypedIs DEF Of, Struct0
<1>2. Links(m.node, << >>) /\ TailIs(m.list, << >>) /\ HeadIs(m.list, << >>)
  BY <1>1 DEF Links, Distinct, TailIs, HeadIs
<1>3. Strung(m.list.first_unused, NextOf(m.node), << >>)
  BY <1>1 DEF Strung
<1>4. Owned(m, {}, 0, << >>)
  <2>1. 0 + Len(<< >>) = 0
    BY <1>1
  <2> QED BY <1>1, <1>3, <2>1 DEF Owned
<1> QED BY <1>1, <1>2, <1>4 DEF Held, Backed

\* All the nodes of a list are given up at once.
LEMMA BlankedIs ==
  ASSUME NEW s, Held(Memory, s)
  PROVE  LET m == Blanked(Memory, IF IsDynamic(list) THEN InList ELSE Nodes)
         IN  Typed(m) /\ m.list = list /\ m.heap = {}
<1> DEFINE Q == IF IsDynamic(list) THEN InList ELSE Nodes
           m == Blanked(Memory, Q)
<1>1. PICK f : Owned(Memory, Of(s), Len(s), f)
  BY HeldWalks
<1>2. /\ Memory.list = list /\ Memory.node = node /\ Memory.heap = heap
      /\ list \in Struct0 /\ node \in [Nodes -> Node0] /\ heap \in SUBSET Nodes
      /\ InList = Of(s)
  BY HeldWalks, MemoryTyped DEF Memory, Held, Backed
<1>3. heap \ Q = {}
  BY <1>1, <1>2 DEF Owned
<1> HIDE DEF Q
<1>4. /\ m.list = list /\ m.heap = heap \ Q
      /\ m.node = [n \in Nodes |-> IF n \in Q THEN Blank ELSE node[n]]
      /\ m = [list |-> m.list, node |-> m.node, heap |-> m.heap]
  <2>1. Typed(Memory)
    BY DEF Held, Backed
  <2> DEFINE N == [n \in Nodes |-> IF n \in Q THEN Blank ELSE node[n]]
             h == heap \ Q
  <2>2. m = [Memory EXCEPT !.node = N, !.heap = h]
    BY <1>2, <2>1 DEF Blanked, Typed
  <2> HIDE DEF m, N, h
  <2>3. m.list = list /\ m.heap = h /\ m.node = N
        /\ m = [list |-> m.list, node |-> m.node, heap |-> m.heap]
    BY <2>2 DEF Memory
  <2> QED BY <2>3 DEF N, h
<1>5. Blank \in Node0
  BY DEF Blank, Node0, Cell
<1> HIDE DEF m
<1>6. m.node \in [Nodes -> Node0]
  BY <1>2, <1>4, <1>5
<1>7. Typed(m)
  BY <1>2, <1>3, <1>4, <1>6 DEF Typed
<1> QED BY <1>3, <1>4, <1>7 DEF m, Q

LEMMA ClearIs ==
  ASSUME Clear, NEW s, Held(Memory, s), list.size # 0
  PROVE  /\ Items(Memory, s) \in Seq(Cell)
         /\ \E m1 : Goes(s, << >>, m1) /\ Finish(m1, "SUCCESS", Items(Memory, s))
<1> DEFINE m == Blanked(Memory, IF IsDynamic(list) THEN InList ELSE Nodes)
           m1 == [m EXCEPT !.list.size = 0, !.list.head = Null,
                           !.list.tail = Null, !.list.first_unused = Null]
<1>1. Finish(m1, "SUCCESS", Items(Memory, Chain))
  BY DEF Clear
<1>2. Typed(m) /\ m.list = list /\ m.heap = {}
  BY BlankedIs
<1>3. /\ Chain = s /\ Distinct(s) /\ s \in Seq(Nodes)
      /\ \E f : Owned(Memory, Of(s), Len(s), f) /\ Typed(Memory)
      /\ list \in Struct0 /\ Memory.list = list
  BY HeldWalks, MemoryTyped DEF Held, Backed, Distinct, Memory
<1>4. ~IsDynamic(list) => list.capacity <= MaxNodes
  BY <1>3 DEF Owned
<1> HIDE DEF m
<1>5. /\ m1.list = [list EXCEPT !.size = 0, !.head = Null, !.tail = Null,
                                !.first_unused = Null]
      /\ m1.node = m.node /\ m1.heap = {}
      /\ m1 = [list |-> m1.list, node |-> m1.node, heap |-> m1.heap]
  <2>1. m = [list |-> list, node |-> m.node, heap |-> m.heap]
    BY <1>2, TypedIs
  <2> DEFINE r == [list |-> list, node |-> m.node, heap |-> m.heap]
             r1 == [r EXCEPT !.list.size = 0, !.list.head = Null,
                             !.list.tail = Null, !.list.first_unused = Null]
             L == [list EXCEPT !.size = 0, !.head = Null, !.tail = Null,
                               !.first_unused = Null]
  <2>2. r1 = [list |-> L, node |-> m.node, heap |-> m.heap]
    <3>1. r1 = [r EXCEPT !.list = L]
      BY Zenon
    <3> HIDE DEF L, r1
    <3> QED BY <3>1
  <2>3. m1 = r1
    BY <2>1, Zenon
  <2> HIDE DEF m1, r1
  <2> QED BY <1>2, <2>2, <2>3
<1> HIDE DEF m1
<1>6. /\ m1.list \in Struct0 /\ m1.list.head = Null /\ m1.list.tail = Null
      /\ m1.list.first_unused = Null /\ m1.list.size = 0
      /\ m1.list.allocator = list.allocator
      /\ m1.list.capacity = list.capacity
  <2>1. 0 \in 0..MaxNodes /\ Null \in Nodes \cup {Null}
    BY ListAssumption
  <2> QED BY <1>3, <1>5, <2>1 DEF Struct0
<1>7. Typed(m1)
  BY <1>2, <1>5, <1>6, TypedIs DEF Typed
<1>8. ~IsDynamic(m1.list) => m1.list.capacity <= MaxNodes
  BY <1>4, <1>6 DEF IsDynamic
<1>9. Held(m1, << >>)
  BY <1>5, <1>6, <1>7, <1>8, EmptyHeld
<1>10. m1.list.destructor = list.destructor
  BY <1>3, <1>5 DEF Struct0
<1>11. Goes(s, << >>, m1)
  <2>1. Of(<< >>) = {}
    BY DEF Of
  <2> QED BY <1>9, <1>10, <2>1 DEF Goes
<1>12. Items(Memory, s) \in Seq(Cell)
  BY <1>3, ItemsType
<1> QED BY <1>1, <1>3, <1>11, <1>12

LEMMA ClearInv ==
  ASSUME ListInv, Clear
  PROVE  ListInv' /\ Stay
<1>1. live /\ "SUCCESS" \in Answers
  BY DEF Clear, Answers
<1>2. PICK s : Held(Memory, s)
  BY <1>1 DEF ListInv
<1>3. CASE list.size = 0
  BY <1>1, <1>3, RefuseInv DEF Clear
<1>4. CASE list.size # 0
  BY <1>1, <1>2, <1>4, ClearIs, GoesReaches, FinishInv
<1> QED BY <1>3, <1>4

LEMMA DestroyInv ==
  ASSUME ListInv, Destroy
  PROVE  ListInv' /\ Stay
<1> DEFINE m == Blanked(Memory, IF IsDynamic(list) THEN InList ELSE Nodes)
<1>1. /\ live /\ live' = FALSE /\ Store(m) /\ status' = "SUCCESS"
      /\ destroyed' = IF list.destructor THEN Items(Memory, Chain) ELSE << >>
  BY DEF Destroy
<1>2. PICK s : Held(Memory, s)
  BY <1>1 DEF ListInv
<1>3. Typed(m) /\ m.heap = {}
  BY <1>2, BlankedIs
<1> HIDE DEF m
<1>4. Memory' = m
  BY <1>1, <1>3, TypedIs DEF Memory, Store
<1>5. Chain = s /\ s \in Seq(Nodes) /\ Typed(Memory)
  BY <1>2, HeldWalks DEF Distinct, Held, Backed
<1>6. Items(Memory, Chain) \in Seq(Cell)
  BY <1>5, ItemsType
<1>7. Returned'
  <2>1. destroyed' \in Seq(Cell)
    BY <1>1, <1>6
  <2> QED BY <1>1, <2>1 DEF Returned, Answers
<1>8. ListInv'
  BY <1>1, <1>3, <1>4, <1>7 DEF ListInv, Store
<1> QED BY <1>1, <1>8 DEF Stay

LEMMA ConstructInv ==
  ASSUME ListInv, Construct
  PROVE  ListInv' /\ Stay
<1>1. PICK a \in Allocators, c \in Nat, d \in BOOLEAN :
        /\ InitList(a, c, d) /\ (a # "dynamic" => c <= MaxNodes)
        /\ a \in {"none", "dynamic"}
  BY ListAssumption DEF Construct
<1>2. /\ ~live /\ list' = Struct(a, c, d) /\ live' = TRUE /\ status' = "SUCCESS"
      /\ destroyed' = << >> /\ node' = node /\ heap' = heap
  BY <1>1 DEF InitList
<1>3. heap = {} /\ node \in [Nodes -> Node0]
  BY <1>2, MemoryTyped DEF ListInv
<1>4. /\ list' \in Struct0 /\ list'.head = Null /\ list'.tail = Null
      /\ list'.first_unused = Null /\ list'.size = 0
      /\ list'.allocator = a /\ list'.capacity = c
  <2>1. 0 \in 0..MaxNodes /\ Null \in Nodes \cup {Null}
    BY ListAssumption
  <2> QED BY <1>1, <1>2, <2>1 DEF Struct, Struct0
<1>5. /\ Memory'.list = list' /\ Memory'.node = node' /\ Memory'.heap = heap'
      /\ Memory' = [list |-> list', node |-> node', heap |-> heap']
  BY DEF Memory
<1>6. Typed(Memory')
  BY <1>2, <1>3, <1>4, <1>5 DEF Typed
<1>7. ~IsDynamic(Memory'.list) => Memory'.list.capacity <= MaxNodes
  BY <1>1, <1>4, <1>5 DEF IsDynamic
<1>8. Held(Memory', << >>)
  BY <1>2, <1>3, <1>4, <1>5, <1>6, <1>7, EmptyHeld
<1>9. Returned'
  BY <1>2 DEF Returned, Answers
<1>10. ListInv'
  BY <1>2, <1>6, <1>8, <1>9 DEF ListInv
<1> QED BY <1>2, <1>10 DEF Stay

-----------------------------------------------------------------------------
(***************************************************************************)
(* Resizing.  Each of the loops is a function of the number of its rounds; *)
(* that there is such a function, and what its rounds keep, is by          *)
(* induction on that number.                                               *)
(***************************************************************************)

\* What at most k rounds have appended to s: nodes that hold the initializer,
\* if there is one, k of them unless one was refused.
Longer(s, s1, k, e, o) ==
  /\ Goes(s, s1, o.m) /\ s1 \in Seq(Nodes) /\ Len(s) <= Len(s1)
  /\ \A j \in 1..Len(s) : s1[j] = s[j]
  /\ e # NULL => \A j \in (Len(s) + 1)..Len(s1) : o.m.node[s1[j]].item = e
  /\ IF o.status = "SUCCESS" THEN Len(s1) = Len(s) + k
     ELSE Len(s1) < Len(s) + k /\ o.status \in Outcomes

LEMMA LongerAnswers ==
  ASSUME NEW s, NEW s1, NEW k, NEW e, NEW o, Longer(s, s1, k, e, o)
  PROVE  o.status \in Answers /\ Reaches(Memory, s, o.m)
BY GoesReaches DEF Longer, Answers, Outcomes

\* The rounds of a growing call, whatever their outcomes, add nodes to a list
\* that keeps those it had.
LEMMA AppendedIs ==
  ASSUME NEW s, Held(Memory, s), NEW k \in Nat, NEW e \in Element \cup {NULL},
         NEW o \in Appended(k, e)
  PROVE  \E s1 : Longer(s, s1, k, e, o)
<1> DEFINE append(p) ==
             IF p.status # "SUCCESS" THEN {p}
             ELSE {IF a.status # "SUCCESS" THEN a
                   ELSE Taken(LinkBack(a.m, a.n, IF e = NULL
                                                   THEN a.m.node[a.n].item
                                                   ELSE e), a.n) :
                     a \in AllocateNode(p.m)}
           More(S) == UNION {append(p) : p \in S}
           Start == {Taken(Memory, Null)}
           outcomes == CHOOSE f : f = [i \in 0..k |->
                          IF i = 0 THEN Start ELSE More(f[i - 1])]
           Good(i, p) == \E s1 : Longer(s, s1, i, e, p)
<1>0. Distinct(s) /\ s \in Seq(Nodes) /\ Len(s) \in Nat
  BY DEF Held, Backed, Links, Distinct
<1>1. Appended(k, e) = outcomes[k]
  BY Zenon DEF Appended
<1>2. ASSUME NEW i \in Nat, NEW p, Good(i, p), NEW q \in append(p)
      PROVE  Good(i + 1, q)
  <2>1. PICK s1 : Longer(s, s1, i, e, p)
    BY <1>2
  <2>2. /\ Held(p.m, s1) /\ p.m.list.destructor = list.destructor
        /\ s1 \in Seq(Nodes) /\ Len(s1) \in Nat /\ Len(s) <= Len(s1)
        /\ \A j \in 1..Len(s) : s1[j] = s[j]
        /\ \A n \in Of(s) \cap Of(s1) : p.m.node[n].item = node[n].item
    BY <2>1 DEF Longer, Goes
  <2>3. CASE p.status # "SUCCESS"
    <3>1. q = p /\ Len(s1) < Len(s) + (i + 1) /\ p.status \in Outcomes
      BY <1>0, <1>2, <2>1, <2>2, <2>3 DEF Longer
    <3>2. Longer(s, s1, i + 1, e, q)
      BY <2>1, <2>3, <3>1 DEF Longer
    <3> QED BY <3>2
  <2>4. CASE p.status = "SUCCESS"
    <3>1. PICK a \in AllocateNode(p.m) :
            q = IF a.status # "SUCCESS" THEN a
                ELSE Taken(LinkBack(a.m, a.n, IF e = NULL THEN a.m.node[a.n].item
                                                          ELSE e), a.n)
      BY <1>2, <2>4
    <3>2. Len(s1) = Len(s) + i
      BY <2>1, <2>4 DEF Longer
    <3>3. PICK f : Shaped(p.m, s1, f) /\ p.m.list.size = Len(s1)
      BY <2>2, HeldShaped
    <3>4. CASE a.status # "SUCCESS"
      <4>1. q = a /\ a.status \in Outcomes /\ a.m = p.m
        BY <3>1, <3>3, <3>4, AllocateNodeIs
      <4>2. Len(s1) < Len(s) + (i + 1)
        BY <1>0, <3>2
      <4>3. Longer(s, s1, i + 1, e, q)
        BY <2>1, <3>4, <4>1, <4>2 DEF Longer
      <4> QED BY <4>3
    <3>5. CASE a.status = "SUCCESS"
      <4> DEFINE c == IF e = NULL THEN a.m.node[a.n].item ELSE e
                 m1 == LinkBack(a.m, a.n, c)
                 s2 == Append(s1, a.n)
      <4>1. /\ Ready(a.m, s1, a.n) /\ a.m.node = p.m.node
            /\ a.m.list.destructor = p.m.list.destructor
        BY <3>3, <3>5, TakenReady
      <4>2. c \in Cell
        <5>1. a.m.node \in [Nodes -> Node0] /\ a.n \in Nodes
          BY <4>1, TypedIs DEF Ready
        <5>2. a.m.node[a.n].item \in Cell
          BY <5>1 DEF Node0
        <5> QED BY <5>2 DEF Cell
      <4>3. e # NULL => c = e
        OBVIOUS
      <4>4. q.status = "SUCCESS" /\ q.m = m1
        BY <3>1, <3>5 DEF Taken
      <4> HIDE DEF c
      <4>5. /\ \E f1 : Shaped(m1, s2, f1)
            /\ m1.list.size = Len(s1) + 1
            /\ m1.list.destructor = a.m.list.destructor
            /\ \A j \in Of(s1) : m1.node[j].item = a.m.node[j].item
            /\ m1.node[a.n].item = c
        BY <4>1, <4>2, LinkBackIs
      <4> HIDE DEF m1
      <4>6. /\ Distinct(s2) /\ Len(s2) = Len(s1) + 1 /\ s2[Len(s1) + 1] = a.n
            /\ \A j \in 1..Len(s1) : s2[j] = s1[j]
        BY <4>1, AppendIs DEF Ready, Links
      <4> HIDE DEF s2
      <4>7. Held(m1, s2)
        BY <4>5, <4>6, ShapedHeld
      <4>8. Of(s) \subseteq Of(s1)
        <5>1. \A j \in 1..Len(s) : j \in 1..Len(s1) /\ s[j] = s1[j]
          BY <1>0, <2>2
        <5> QED BY <5>1 DEF Of
      <4>9. Goes(s, s2, m1)
        BY <2>2, <4>1, <4>5, <4>7, <4>8 DEF Goes
      <4>10. \A j \in 1..Len(s) : s2[j] = s[j]
        <5>1. \A j \in 1..Len(s) : j \in 1..Len(s1)
          BY <1>0, <2>2
        <5> QED BY <2>2, <4>6, <5>1
      <4>11. ASSUME e # NULL, NEW j \in (Len(s) + 1)..Len(s2)
             PROVE  m1.node[s2[j]].item = e
        <5>1. CASE j = Len(s1) + 1
          BY <4>3, <4>5, <4>6, <4>11, <5>1
        <5>2. CASE j # Len(s1) + 1
          <6>1. j \in (Len(s) + 1)..Len(s1) /\ j \in 1..Len(s1)
            BY <1>0, <2>2, <4>6, <5>2
          <6>2. s2[j] = s1[j] /\ s1[j] \in Of(s1) /\ p.m.node[s1[j]].item = e
            BY <2>1, <4>6, <4>11, <6>1 DEF Longer, Of
          <6> QED BY <4>1, <4>5, <6>2
        <5> QED BY <5>1, <5>2
      <4>12. Len(s2) = Len(s) + (i + 1) /\ Len(s) <= Len(s2) /\ s2 \in Seq(Nodes)
        BY <1>0, <2>2, <3>2, <4>6 DEF Distinct
      <4>13. Longer(s, s2, i + 1, e, q)
        BY <4>4, <4>9, <4>10, <4>11, <4>12 DEF Longer
      <4> QED BY <4>13
    <3> QED BY <3>4, <3>5
  <2> QED BY <2>3, <2>4
<1>3. \A p \in Start : Good(0, p)
  <2>1. ASSUME NEW p \in Start PROVE Good(0, p)
    <3>1. p.status = "SUCCESS" /\ p.m = Memory
      BY DEF Taken
    <3>2. Goes(s, s, p.m)
      BY <3>1 DEF Goes, Memory
    <3>3. /\ Len(s) = Len(s) + 0 /\ Len(s) <= Len(s)
          /\ (Len(s) + 1)..Len(s) = {}
      BY <1>0
    <3>4. Longer(s, s, 0, e, p)
      BY <1>0, <3>1, <3>2, <3>3 DEF Longer
    <3> QED BY <3>4
  <2> QED BY <2>1
<1>4. ASSUME NEW i \in Nat, NEW S, \A p \in S : Good(i, p)
      PROVE  \A q \in More(S) : Good(i + 1, q)
  <2> HIDE DEF append, Good
  <2> QED BY <1>2, <1>4
<1> HIDE DEF More, Start, Good
<1>5. \E f : f = [i \in 0..k |-> IF i = 0 THEN Start ELSE More(f[i - 1])]
  <2> DEFINE Upto(n, f) == f = [i \in 0..n |-> IF i = 0 THEN Start ELSE More(f[i - 1])]
             T == {n \in Nat : \E f : Upto(n, f)}
  <2>1. 0 \in T
    <3>1. Upto(0, [i \in 0..0 |-> Start])
      OBVIOUS
    <3> HIDE DEF Upto
    <3> QED BY <3>1
  <2>2. ASSUME NEW n \in T PROVE n + 1 \in T
    <3>1. PICK f : Upto(n, f)
      OBVIOUS
    <3> DEFINE g == [i \in 0..(n + 1) |-> IF i = n + 1 THEN More(f[n]) ELSE f[i]]
    <3>2. n \in Nat
      OBVIOUS
    <3>3. ASSUME NEW i \in 0..(n + 1)
          PROVE  g[i] = IF i = 0 THEN Start ELSE More(g[i - 1])
      <4>1. CASE i = n + 1
        <5>1. i # 0 /\ i - 1 = n /\ n \in 0..(n + 1) /\ n # n + 1
          BY <3>2, <4>1
        <5> QED BY <4>1, <5>1
      <4>2. CASE i # n + 1
        <5>1. i \in 0..n /\ (i # 0 => i - 1 \in 0..(n + 1) /\ i - 1 # n + 1)
          BY <3>2, <4>2
        <5>2. f[i] = IF i = 0 THEN Start ELSE More(f[i - 1])
          BY <3>1, <5>1
        <5>3. g[i] = f[i] /\ (i # 0 => g[i - 1] = f[i - 1])
          BY <4>2, <5>1
        <5> QED BY <5>2, <5>3
      <4> QED BY <4>1, <4>2
    <3>4. Upto(n + 1, g)
      BY <3>3
    <3> HIDE DEF Upto
    <3> QED BY <3>2, <3>4
  <2> HIDE DEF T
  <2>3. T = Nat
    BY <2>1, <2>2, Induction DEF T
  <2> QED BY <2>3 DEF T
<1>6. outcomes = [i \in 0..k |-> IF i = 0 THEN Start ELSE More(outcomes[i - 1])]
  BY <1>5, Zenon
<1> HIDE DEF outcomes
<1>7. \A i \in Nat : i <= k => \A p \in outcomes[i] : Good(i, p)
  <2> DEFINE T == {i \in Nat : i <= k => \A p \in outcomes[i] : Good(i, p)}
  <2>1. 0 \in T
    <3>1. outcomes[0] = Start
      BY <1>6
    <3> QED BY <1>3, <3>1
  <2>2. ASSUME NEW i \in T PROVE i + 1 \in T
    <3>1. CASE i + 1 <= k
      <4>1. /\ i + 1 \in 0..k /\ (i + 1) - 1 = i /\ i <= k /\ i + 1 # 0
        BY <3>1
      <4>2. outcomes[i + 1] = More(outcomes[i])
        BY <1>6, <4>1
      <4>3. \A p \in outcomes[i] : Good(i, p)
        BY <4>1
      <4> QED BY <1>4, <4>2, <4>3
    <3> QED BY <3>1
  <2> HIDE DEF T
  <2>3. T = Nat
    BY <2>1, <2>2, Induction DEF T
  <2> QED BY <2>3 DEF T
<1>8. Good(k, o)
  BY <1>1, <1>7
<1> QED BY <1>8 DEF Good

\* A round of a shrinking call leaves one node less of the first ones.
LEMMA CutRound ==
  ASSUME NEW s, Distinct(s), NEW i \in Nat, i < Len(s), NEW m,
         Backed(m, SubSeq(s, 1, Len(s) - i))
  PROVE  LET m1 == DeallocateNode(CutBack(m), m.list.tail)
             u == SubSeq(s, 1, Len(s) - (i + 1))
         IN  /\ Backed(m1, u) /\ m1.list.head = m.list.head
             /\ m1.list.size = m.list.size
             /\ m1.list.destructor = m.list.destructor
             /\ \A j \in Of(u) : m1.node[j].item = m.node[j].item
<1> DEFINE w == SubSeq(s, 1, Len(s) - i)
           u == SubSeq(s, 1, Len(s) - (i + 1))
           v == SubSeq(w, 1, Len(w) - 1)
           cut == CutBack(m)
           m1 == DeallocateNode(cut, m.list.tail)
<1>1. s \in Seq(Nodes) /\ Len(s) \in Nat
  BY DEF Distinct
<1>2. PICK a \in 1..Len(s), b \in 0..Len(s) :
        a = Len(s) - i /\ b = Len(s) - (i + 1) /\ b = a - 1
  BY <1>1
<1>3. w = SubSeq(s, 1, a) /\ u = SubSeq(s, 1, b)
  BY <1>2
<1> HIDE DEF w, u
<1>4. /\ w \in Seq(Nodes) /\ Len(w) = a /\ \A j \in 1..a : w[j] = s[j]
      /\ u \in Seq(Nodes) /\ Len(u) = b /\ \A j \in 1..b : u[j] = s[j]
  <2>1. a \in 0..Len(s)
    BY <1>1
  <2> QED BY <1>1, <1>3, <2>1, PrefixIs
<1>5. w # << >> /\ Len(w) - 1 \in 0..Len(w) /\ Len(w) - 1 = b
  BY <1>1, <1>2, <1>4
<1>6. /\ v \in Seq(Nodes) /\ Len(v) = b /\ \A j \in 1..b : v[j] = w[j]
  BY <1>4, <1>5, PrefixIs
<1> HIDE DEF v
<1>7. v = u
  <2>1. \A j \in 1..b : j \in 1..a
    BY <1>1, <1>2
  <2> QED BY <1>4, <1>6, <2>1, SeqEqual
<1>8. Backed(m, w)
  BY DEF w
<1>9. /\ Loose(cut, u, w[Len(w)])
      /\ cut.list = [m.list EXCEPT !.tail = cut.list.tail]
      /\ \A j \in Nodes : cut.node[j].item = m.node[j].item
  BY <1>5, <1>7, <1>8, CutBackIs DEF v
<1>10. m.list.tail = w[Len(w)] /\ m.list \in Struct0
  BY <1>5, <1>8, TypedIs DEF Backed, TailIs
<1> HIDE DEF cut
<1>11. /\ Backed(m1, u) /\ Alike(m1.list, cut.list)
       /\ \A j \in Of(u) : m1.node[j] = cut.node[j]
  BY <1>9, <1>10, LooseReturned
<1> HIDE DEF m1
<1>12. /\ cut.list.head = m.list.head /\ cut.list.size = m.list.size
       /\ cut.list.destructor = m.list.destructor
  BY <1>9, <1>10 DEF Struct0
<1>13. \A j \in Of(u) : j \in Nodes
  <2>1. b \in Nat
    BY <1>1
  <2> QED BY <1>4, <2>1 DEF Of
<1>14. \A j \in Of(u) : m1.node[j].item = m.node[j].item
  BY <1>9, <1>11, <1>13
<1> QED BY <1>11, <1>12, <1>14 DEF Alike, m1, u, cut

LEMMA ShortenedIs ==
  ASSUME NEW s, Held(Memory, s), NEW k \in Nat, k < Len(s)
  PROVE  Goes(s, SubSeq(s, 1, Len(s) - k), Shortened(k))
<1> DEFINE Round(m) == DeallocateNode(CutBack(m), m.list.tail)
           cut == CHOOSE f : f = [i \in 0..k |->
                     IF i = 0 THEN Memory ELSE Round(f[i - 1])]
           First(i) == SubSeq(s, 1, Len(s) - i)
           Good(i, m) == /\ Backed(m, First(i)) /\ m.list.head = Memory.list.head
                         /\ m.list.size = Memory.list.size
                         /\ m.list.destructor = Memory.list.destructor
                         /\ \A n \in Of(First(i)) :
                              m.node[n].item = Memory.node[n].item
<1>1. Shortened(k) = [cut[k] EXCEPT !.list.size = @ - k]
  BY Zenon DEF Shortened
<1>2. Distinct(s) /\ s \in Seq(Nodes) /\ Len(s) \in Nat /\ Backed(Memory, s)
  BY DEF Held, Backed, Links, Distinct
<1>3. Good(0, Memory)
  <2>1. First(0) = s
    BY <1>2, SubSeqFull
  <2> HIDE DEF First
  <2> QED BY <1>2, <2>1
<1>4. ASSUME NEW i \in Nat, i < k, NEW m, Good(i, m) PROVE Good(i + 1, Round(m))
  <2> DEFINE r == Round(m)
  <2>1. i < Len(s) /\ Backed(m, First(i))
    BY <1>2, <1>4
  <2>2. /\ Backed(r, First(i + 1)) /\ r.list.head = m.list.head
        /\ r.list.size = m.list.size /\ r.list.destructor = m.list.destructor
        /\ \A j \in Of(First(i + 1)) : r.node[j].item = m.node[j].item
    BY <1>2, <2>1, CutRound
  <2>3. Of(First(i + 1)) \subseteq Of(First(i))
    <3>1. Len(s) - i \in 0..Len(s) /\ Len(s) - (i + 1) \in 0..Len(s)
      BY <1>2, <2>1
    <3>2. /\ Len(First(i)) = Len(s) - i
          /\ \A j \in 1..(Len(s) - i) : First(i)[j] = s[j]
      BY <1>2, <3>1, PrefixIs
    <3>3. /\ Len(First(i + 1)) = Len(s) - (i + 1)
          /\ \A j \in 1..(Len(s) - (i + 1)) : First(i + 1)[j] = s[j]
      BY <1>2, <3>1, PrefixIs
    <3> HIDE DEF First
    <3>4. ASSUME NEW j \in 1..Len(First(i + 1))
          PROVE  First(i + 1)[j] \in Of(First(i))
      <4>1. j \in 1..(Len(s) - (i + 1)) /\ j \in 1..Len(First(i))
        BY <1>2, <3>2, <3>3
      <4>2. First(i + 1)[j] = First(i)[j]
        BY <3>2, <3>3, <4>1
      <4> QED BY <4>1, <4>2 DEF Of
    <3> QED BY <3>4 DEF Of
  <2> HIDE DEF r, Round, First
  <2>4. Good(i + 1, r)
    BY <1>4, <2>2, <2>3
  <2> QED BY <2>4 DEF r
<1> HIDE DEF Round, Good
<1>5. \E f : f = [i \in 0..k |-> IF i = 0 THEN Memory ELSE Round(f[i - 1])]
  <2> DEFINE Upto(n, f) == f = [i \in 0..n |-> IF i = 0 THEN Memory ELSE Round(f[i - 1])]
             T == {n \in Nat : \E f : Upto(n, f)}
  <2>1. 0 \in T
    <3>1. Upto(0, [i \in 0..0 |-> Memory])
      OBVIOUS
    <3> HIDE DEF Upto
    <3> QED BY <3>1
  <2>2. ASSUME NEW n \in T PROVE n + 1 \in T
    <3>1. PICK f : Upto(n, f)
      OBVIOUS
    <3> DEFINE g == [i \in 0..(n + 1) |-> IF i = n + 1 THEN Round(f[n]) ELSE f[i]]
    <3>2. n \in Nat
      OBVIOUS
    <3>3. ASSUME NEW i \in 0..(n + 1)
          PROVE  g[i] = IF i = 0 THEN Memory ELSE Round(g[i - 1])
      <4>1. CASE i = n + 1
        <5>1. i # 0 /\ i - 1 = n /\ n \in 0..(n + 1) /\ n # n + 1
          BY <3>2, <4>1
        <5> QED BY <4>1, <5>1
      <4>2. CASE i # n + 1
        <5>1. i \in 0..n /\ (i # 0 => i - 1 \in 0..(n + 1) /\ i - 1 # n + 1)
          BY <3>2, <4>2
        <5>2. f[i] = IF i = 0 THEN Memory ELSE Round(f[i - 1])
          BY <3>1, <5>1
        <5>3. g[i] = f[i] /\ (i # 0 => g[i - 1] = f[i - 1])
          BY <4>2, <5>1
        <5> QED BY <5>2, <5>3
      <4> QED BY <4>1, <4>2
    <3>4. Upto(n + 1, g)
      BY <3>3
    <3> HIDE DEF Upto
    <3> QED BY <3>2, <3>4
  <2> HIDE DEF T
  <2>3. T = Nat
    BY <2>1, <2>2, Induction DEF T
  <2> QED BY <2>3 DEF T
<1>6. cut = [i \in 0..k |-> IF i = 0 THEN Memory ELSE Round(cut[i - 1])]
  BY <1>5, Zenon
<1> HIDE DEF cut
<1>7. \A i \in Nat : i <= k => Good(i, cut[i])
  <2> DEFINE T == {i \in Nat : i <= k => Good(i, cut[i])}
  <2>1. 0 \in T
    <3>1. cut[0] = Memory
      BY <1>6
    <3> QED BY <1>3, <3>1
  <2>2. ASSUME NEW i \in T PROVE i + 1 \in T
    <3>1. CASE i + 1 <= k
      <4>1. /\ i + 1 \in 0..k /\ (i + 1) - 1 = i /\ i <= k /\ i < k /\ i + 1 # 0
        BY <3>1
      <4>2. cut[i + 1] = Round(cut[i])
        BY <1>6, <4>1
      <4>3. Good(i, cut[i])
        BY <4>1
      <4> QED BY <1>4, <4>1, <4>2, <4>3
    <3> QED BY <3>1
  <2> HIDE DEF T
  <2>3. T = Nat
    BY <2>1, <2>2, Induction DEF T
  <2> QED BY <2>3 DEF T
<1> DEFINE m == cut[k]
           m1 == [m EXCEPT !.list.size = @ - k]
           u == First(k)
<1>8. Good(k, m)
  BY <1>7
<1> HIDE DEF m
<1>9. /\ Backed(m, u) /\ m.list.head = list.head /\ m.list.size = Len(s)
      /\ m.list.destructor = list.destructor
      /\ \A n \in Of(u) : m.node[n].item = Memory.node[n].item
  BY <1>8 DEF Good, Memory, Held
<1>10. /\ Len(u) = Len(s) - k /\ \A j \in 1..(Len(s) - k) : u[j] = s[j]
  <2>1. Len(s) - k \in 0..Len(s)
    BY <1>2
  <2> QED BY <1>2, <2>1, PrefixIs
<1> HIDE DEF First
<1>11. /\ m1.list = [m.list EXCEPT !.size = Len(s) - k]
       /\ m1.node = m.node /\ m1.heap = m.heap /\ Typed(m) /\ m.list \in Struct0
       /\ m1 = [list |-> m1.list, node |-> m1.node, heap |-> m1.heap]
  <2>1. Typed(m) /\ m.list \in Struct0
    BY <1>9, TypedIs DEF Backed
  <2>2. m1 = [m EXCEPT !.list.size = Len(s) - k]
    BY <1>9, <2>1 DEF Typed, Struct0
  <2> HIDE DEF m1
  <2> QED BY <2>1, <2>2 DEF Typed
<1> HIDE DEF m1
<1>12. /\ m1.list \in Struct0 /\ m1.list.head = list.head
       /\ m1.list.tail = m.list.tail /\ m1.list.size = Len(s) - k
       /\ m1.list.destructor = list.destructor
       /\ m1.list.first_unused = m.list.first_unused
       /\ m1.list.allocator = m.list.allocator
       /\ m1.list.capacity = m.list.capacity
  <2>1. Len(s) - k \in 0..MaxNodes
    <3>1. Len(s) \in 0..MaxNodes
      BY <1>2, DistinctIs
    <3> QED BY <3>1, ListAssumption
  <2> QED BY <1>9, <1>11, <2>1 DEF Struct0
<1>13. Typed(m1)
  BY <1>11, <1>12, TypedIs DEF Typed
<1>14. Links(m1.node, u) /\ TailIs(m1.list, u)
  BY <1>9, <1>11, <1>12 DEF Backed, TailIs
<1>15. HeadIs(m1.list, u)
  <2>1. list.head = s[1]
    <3>1. s # << >>
      BY <1>2
    <3> QED BY <3>1 DEF Held, HeadIs, Memory
  <2>2. 1 \in 1..(Len(s) - k) /\ u # << >>
    BY <1>2, <1>10
  <2> QED BY <1>10, <1>12, <2>1, <2>2 DEF HeadIs
<1>16. \E f : Owned(m1, Of(u), Len(u), f)
  <2>1. PICK f : Owned(m, Of(u), Len(u), f)
    BY <1>9 DEF Backed
  <2>2. Owned(m1, Of(u), Len(u), f)
    BY <1>11, <1>12, <2>1, OwnedKept
  <2> QED BY <2>2
<1>17. Held(m1, u)
  BY <1>10, <1>12, <1>13, <1>14, <1>15, <1>16 DEF Held, Backed
<1>18. Goes(s, u, m1)
  BY <1>9, <1>11, <1>12, <1>17 DEF Goes, Memory
<1> QED BY <1>1, <1>18 DEF m, m1, First

LEMMA ResizeInv ==
  ASSUME ListInv, Resize
  PROVE  ListInv' /\ Stay
<1>1. PICK n \in 1..MaxSize, e \in Element \cup {NULL} : ResizeEx(n, e)
  BY DEF Resize
<1>2. live /\ "SUCCESS" \in Answers /\ << >> \in Seq(Cell)
  BY <1>1 DEF ResizeEx, Answers
<1>3. PICK s : Held(Memory, s)
  BY <1>2 DEF ListInv
<1>4. /\ Chain = s /\ list.size = Len(s) /\ Len(s) \in Nat /\ n \in Nat
      /\ s \in Seq(Nodes) /\ Typed(Memory) /\ 1 <= n
  BY <1>1, <1>3, HeldWalks, ListAssumption DEF Distinct, Held, Backed
<1>5. CASE n = list.size
  BY <1>1, <1>2, <1>5, RefuseInv DEF ResizeEx
<1>6. CASE n > list.size
  <2>1. PICK o \in Appended(n - list.size, e) : Finish(o.m, o.status, << >>)
    BY <1>1, <1>4, <1>6 DEF ResizeEx
  <2>2. n - list.size \in Nat
    BY <1>4, <1>6
  <2>3. o.status \in Answers /\ Reaches(Memory, s, o.m)
    <3>1. PICK s1 : Longer(s, s1, n - list.size, e, o)
      BY <1>3, <2>2, AppendedIs
    <3> QED BY <3>1, LongerAnswers
  <2> QED BY <1>2, <1>3, <2>1, <2>3, FinishInv
<1>7. CASE n < list.size
  <2> DEFINE k == list.size - n
             doomed == [i \in 1..k |-> Chain[list.size + 1 - i]]
  <2>1. Finish(Shortened(k), "SUCCESS", Items(Memory, doomed))
    BY <1>1, <1>4, <1>7 DEF ResizeEx
  <2>2. k \in Nat /\ k < Len(s)
    BY <1>4, <1>7
  <2>3. \A i \in 1..k : Chain[list.size + 1 - i] \in Nodes
    <3>1. \A i \in 1..k : list.size + 1 - i \in 1..Len(s)
      BY <1>4, <1>7
    <3> QED BY <1>4, <3>1
  <2>4. doomed \in Seq(Nodes)
    <3> HIDE DEF k
    <3> QED BY <2>2, <2>3
  <2> HIDE DEF k, doomed
  <2>5. Reaches(Memory, s, Shortened(k))
    BY <1>3, <2>2, ShortenedIs, GoesReaches
  <2>6. Items(Memory, doomed) \in Seq(Cell)
    BY <1>4, <2>4, ItemsType
  <2> QED BY <1>2, <1>3, <2>1, <2>5, <2>6, FinishInv
<1> QED BY <1>4, <1>5, <1>6, <1>7

-----------------------------------------------------------------------------
(***************************************************************************)
(* Every step keeps the invariant, and with it what is checked.            *)
(***************************************************************************)
LEMMA ListInvInit == Init => ListInv
<1> SUFFICES ASSUME Init PROVE ListInv
  OBVIOUS
<1>1. list \in Struct0
  <2>1. 0 \in 0..MaxNodes /\ Null \in Nodes \cup {Null}
    BY ListAssumption
  <2> QED BY <2>1 DEF Init, Struct, Struct0
<1>2. node \in [Nodes -> Node0] /\ heap \subseteq Nodes
  BY DEF Init, Blank, Node0, Cell
<1>3. Typed(Memory)
  BY <1>1, <1>2, MemoryTyped
<1>4. Returned
  <2>1. live = FALSE /\ status = "SUCCESS" /\ destroyed \in Seq(Cell)
    BY DEF Init
  <2> QED BY <2>1 DEF Returned, Answers
<1> QED BY <1>3, <1>4 DEF ListInv, Init

LEMMA ListInvNext ==
  ASSUME ListInv, [Next]_vars
  PROVE  ListInv' /\ Stay
<1>1. CASE Construct
  BY <1>1, ConstructInv
<1>2. CASE Destroy
  BY <1>2, DestroyInv
<1>3. CASE Insertion
  BY <1>3, InsertionInv
<1>4. CASE Deletion
  <2>1. CASE PopBack
    BY <2>1, PopBackInv
  <2>2. CASE PopFront
    BY <2>2, PopFrontInv
  <2>3. CASE Clear
    BY <2>3, ClearInv
  <2>4. CASE live /\ Refuse("SUCCESS")
    <3>1. "SUCCESS" \in Answers
      BY DEF Answers
    <3> QED BY <2>4, <3>1, RefuseInv
  <2> QED BY <1>4, <2>1, <2>2, <2>3, <2>4 DEF Deletion, Remove, RemoveRange
<1>5. CASE Resize
  BY <1>5, ResizeInv
<1>6. ASSUME NEW n \in InList, NEW e \in Element, SetNodeData(n, e)
      PROVE  ListInv' /\ Stay
  BY <1>6, SetNodeDataInv
<1>7. CASE UNCHANGED vars
  <2>1. Memory' = Memory
    BY <1>7 DEF vars, Memory
  <2>2. Returned' /\ (live' <=> live) /\ heap' = heap
    BY <1>7 DEF vars, Returned, ListInv
  <2>3. ListInv'
    BY <2>1, <2>2 DEF ListInv
  <2>4. Stay
    BY <1>7 DEF vars, Stay
  <2> QED BY <2>3, <2>4
<1> QED BY <1>1, <1>2, <1>3, <1>4, <1>5, <1>6, <1>7 DEF Next

LEMMA ListInvHolds == Spec => []ListInv
<1>1. ListInv /\ [Next]_vars => ListInv'
  BY ListInvNext
<1> QED BY ListInvInit, <1>1, PTL DEF Spec

LEMMA ListInvTypes == ListInv => TypeOK
<1> SUFFICES ASSUME ListInv PROVE TypeOK
  OBVIOUS
<1>1. list \in Struct0 /\ node \in [Nodes -> Node0] /\ heap \subseteq Nodes
  BY MemoryTyped DEF ListInv
<1>2. Returned
  BY DEF ListInv
<1> QED BY <1>1, <1>2 DEF TypeOK, Struct0, Node0, Returned, Answers

LEMMA ListInvLinked == ListInv => WellLinked
<1> SUFFICES ASSUME ListInv, live
             PROVE  /\ Len(Chain) = list.size
                    /\ Cardinality(SeqX!ToSet(Chain)) = list.size
                    /\ Walk(list.tail, PrevOf(node)) = SeqX!Reverse(Chain)
  BY DEF WellLinked
<1>1. PICK s : Held(Memory, s)
  BY DEF ListInv
<1>2. /\ Chain = s /\ list.size = Len(s) /\ Distinct(s)
      /\ Walk(list.tail, PrevOf(node)) = SeqX!Reverse(s)
  BY <1>1, HeldWalks
<1> QED BY <1>2, DistinctIs

LEMMA ListInvAccounts == ListInv => NodesAccounted
<1> SUFFICES ASSUME ListInv PROVE NodesAccounted
  OBVIOUS
<1>1. CASE ~live
  BY <1>1 DEF ListInv, NodesAccounted
<1>2. CASE live
  <2>1. PICK s : Held(Memory, s)
    BY <1>2 DEF ListInv
  <2>2. PICK f : Owned(Memory, Of(s), Len(s), f)
    BY <2>1, HeldWalks
  <2>3. InList = Of(s) /\ Distinct(s)
    BY <2>1, HeldWalks
  <2>4. /\ Memory.list = list /\ Memory.node = node /\ Memory.heap = heap
        /\ list \in Struct0
    BY MemoryTyped DEF ListInv, Memory
  <2>5. CASE IsDynamic(list)
    BY <1>2, <2>2, <2>3, <2>4, <2>5 DEF Owned, NodesAccounted
  <2>6. CASE ~IsDynamic(list)
    <3>1. /\ Strung(list.first_unused, NextOf(node), f)
          /\ Of(s) \cup Of(f) = 1..(Len(s) + Len(f))
          /\ Len(s) + Len(f) <= list.capacity
      BY <2>2, <2>4, <2>6 DEF Owned
    <3>2. Distinct(f)
      BY <3>1 DEF Strung, Distinct
    <3>3. /\ Len(f) \in 0..MaxNodes /\ SeqX!ToSet(f) = Of(f)
          /\ Cardinality(Of(f)) = Len(f)
      BY <3>2, DistinctIs
    <3>4. FreeChain = f
      <4>1. Len(f) <= MaxNodes
        BY <3>3, ListAssumption
      <4> QED BY <3>1, <4>1, WalkIs DEF FreeChain
    <3>5. Cardinality(Of(s)) = Len(s)
      BY <2>3, DistinctIs
    <3> QED BY <1>2, <2>3, <2>6, <3>1, <3>3, <3>4, <3>5 DEF NodesAccounted
  <2> QED BY <2>5, <2>6
<1> QED BY <1>1, <1>2

\* Every variable of a list (src/src/List.c) holds a value of its type, for
\* every number of nodes, slots and elements.
THEOREM ListTypeCorrect == Spec => []TypeOK
BY ListInvHolds, ListInvTypes, PTL

\* Walking a list forwards and backwards visits the same `size` nodes, each
\* once, whatever calls were made at its two ends.
THEOREM ListWellLinked == Spec => []WellLinked
BY ListInvHolds, ListInvLinked, PTL

\* No node is leaked, given back twice or in use while it is free: an
\* allocator has handed out the nodes of the list, and in a buffer the nodes
\* in the list and those on the free list are the first slots.
THEOREM ListNodesAccounted == Spec => []NodesAccounted
BY ListInvHolds, ListInvAccounts, PTL

\* A call that makes a list longer or shorter leaves every node that stays in
\* it with its element.
THEOREM ListNodesStay == Spec => NodesStay
<1>1. ListInv /\ [Next]_vars => [Stay]_vars
  BY ListInvNext
<1>2. [Stay]_vars <=> [live /\ live' /\ list'.size # list.size
                        => \A n \in InList \cap InList' :
                             node'[n].item = node[n].item]_vars
  BY DEF Stay
<1> QED BY ListInvHolds, <1>1, <1>2, PTL DEF Spec, NodesStay

-----------------------------------------------------------------------------
(***************************************************************************)
(* The list implements ElementDeque.  What the abstract module sees of a   *)
(* list is the items of its nodes; Seen is what its `seq' stands for.      *)
(***************************************************************************)
Seen == IF live THEN Items(Memory, Chain) ELSE << >>

LEMMA ItemsAre ==
  ASSUME NEW m, NEW s \in Seq(Nodes), Typed(m)
  PROVE  /\ Items(m, s) \in Seq(Cell) /\ Len(Items(m, s)) = Len(s)
         /\ Len(s) \in Nat
         /\ \A i \in 1..Len(s) : Items(m, s)[i] = m.node[s[i]].item
<1>1. Items(m, s) \in Seq(Cell)
  BY ItemsType
<1>2. Len(s) \in Nat /\ Items(m, s) = [i \in 1..Len(s) |-> m.node[s[i]].item]
  BY DEF Items
<1> HIDE DEF Items
<1>3. Len(Items(m, s)) = Len(s)
  BY <1>2
<1> QED BY <1>1, <1>2, <1>3

LEMMA HeldItems ==
  ASSUME NEW m, NEW s, Held(m, s)
  PROVE  /\ Items(m, s) \in Seq(Cell) /\ Len(Items(m, s)) = Len(s)
         /\ Len(s) \in Nat /\ s \in Seq(Nodes) /\ Distinct(s)
         /\ \A i \in 1..Len(s) : /\ Items(m, s)[i] = m.node[s[i]].item
                                 /\ s[i] \in Of(s) /\ s[i] \in Nodes
<1>1. Typed(m) /\ Distinct(s) /\ s \in Seq(Nodes)
  BY DEF Held, Backed, Links, Distinct
<1>2. \A i \in 1..Len(s) : s[i] \in Of(s) /\ s[i] \in Nodes
  BY <1>1 DEF Of
<1> QED BY <1>1, <1>2, ItemsAre

LEMMA FinishSeen ==
  ASSUME live, NEW s, Held(Memory, s), NEW s1, NEW m1, Held(m1, s1),
         NEW st, NEW gone, Finish(m1, st, gone)
  PROVE  /\ Seen = Items(Memory, s) /\ Seen' = Items(m1, s1)
         /\ live' = live /\ list' = m1.list /\ status' = st
         /\ destroyed' = IF list.destructor THEN gone ELSE << >>
<1>1. /\ list' = m1.list /\ node' = m1.node /\ heap' = m1.heap
      /\ live' = live /\ status' = st
      /\ destroyed' = IF list.destructor THEN gone ELSE << >>
  BY DEF Finish, Store
<1>2. Memory' = m1
  <2>1. m1 = [list |-> m1.list, node |-> m1.node, heap |-> m1.heap]
    BY TypedIs DEF Held, Backed
  <2> QED BY <1>1, <2>1 DEF Memory
<1>3. Chain = s /\ Chain' = s1
  BY <1>2, HeldWalks, HeldNow
<1>4. Seen = Items(Memory, s)
  BY <1>3 DEF Seen
<1>5. Seen' = Items(Memory', Chain')
  BY <1>1 DEF Seen
<1> QED BY <1>1, <1>2, <1>3, <1>4, <1>5

LEMMA BecomesMaps ==
  ASSUME live, NEW s, Held(Memory, s), NEW s1, NEW m1, Held(m1, s1),
         m1.list.destructor = list.destructor,
         NEW gone, Finish(m1, "SUCCESS", gone)
  PROVE  Deque!Becomes(Items(m1, s1), gone)
<1>1. /\ Seen' = Items(m1, s1) /\ live' = live /\ status' = "SUCCESS"
      /\ list'.destructor = list.destructor
      /\ destroyed' = IF list.destructor THEN gone ELSE << >>
  BY FinishSeen
<1> QED BY <1>1 DEF Deque!Becomes, Deque!Given, Seen

LEMMA RefuseMaps ==
  ASSUME live, NEW s, Held(Memory, s), NEW st, Refuse(st),
         NEW results, st \in results
  PROVE  Deque!Reject(results)
<1>0. Finish(Memory, st, << >>) /\ Memory.list = list
  BY DEF Refuse, Memory
<1>1. /\ Seen' = Seen /\ live' = live /\ status' = st
      /\ list'.destructor = list.destructor /\ destroyed' = << >>
  BY <1>0, FinishSeen
<1> QED BY <1>1 DEF Deque!Reject, Seen

LEMMA LinkedItems ==
  ASSUME NEW s, Held(Memory, s), NEW o \in AllocateNode(Memory),
         o.status = "SUCCESS", NEW c \in Cell
  PROVE  /\ Items(LinkBack(o.m, o.n, c), Append(s, o.n))
              = Append(Items(Memory, s), c)
         /\ Items(LinkFront(o.m, o.n, c), <<o.n>> \o s)
              = <<c>> \o Items(Memory, s)
<1>1. /\ Distinct(s) /\ o.n \in Nodes /\ o.n \notin Of(s)
      /\ Goes(s, Append(s, o.n), LinkBack(o.m, o.n, c))
      /\ LinkBack(o.m, o.n, c).node[o.n].item = c
      /\ Goes(s, <<o.n>> \o s, LinkFront(o.m, o.n, c))
      /\ LinkFront(o.m, o.n, c).node[o.n].item = c
  BY LinkedGoes
<1> DEFINE x == Items(Memory, s)
<1>2. /\ x \in Seq(Cell) /\ Len(x) = Len(s) /\ Len(s) \in Nat
      /\ \A i \in 1..Len(s) : /\ x[i] = node[s[i]].item
                              /\ s[i] \in Of(s) /\ s[i] \in Nodes
  BY HeldItems DEF Memory
<1> HIDE DEF x
<1>3. Items(LinkBack(o.m, o.n, c), Append(s, o.n)) = Append(x, c)
  <2> DEFINE m1 == LinkBack(o.m, o.n, c)
             s1 == Append(s, o.n)
             y == Items(m1, s1)
  <2>1. /\ Len(s1) = Len(s) + 1 /\ s1[Len(s) + 1] = o.n
        /\ \A i \in 1..Len(s) : s1[i] = s[i]
        /\ Of(s1) = Of(s) \cup {o.n}
    BY <1>1, AppendIs
  <2>2. Goes(s, s1, m1) /\ m1.node[o.n].item = c
    BY <1>1
  <2> HIDE DEF m1, s1
  <2>3. /\ y \in Seq(Cell) /\ Len(y) = Len(s1)
        /\ \A i \in 1..Len(s1) : y[i] = m1.node[s1[i]].item
    BY <2>2, HeldItems DEF Goes
  <2> HIDE DEF y
  <2>4. /\ Append(x, c) \in Seq(Cell) /\ Len(Append(x, c)) = Len(x) + 1
        /\ \A i \in 1..Len(x) : Append(x, c)[i] = x[i]
        /\ Append(x, c)[Len(x) + 1] = c
    BY <1>2, AppendProperties
  <2>5. ASSUME NEW i \in 1..Len(y) PROVE y[i] = Append(x, c)[i]
    <3>1. CASE i = Len(s) + 1
      BY <1>2, <2>1, <2>2, <2>3, <2>4, <3>1
    <3>2. CASE i # Len(s) + 1
      <4>1. i \in 1..Len(s)
        BY <1>2, <2>1, <2>3, <3>2
      <4>2. y[i] = m1.node[s[i]].item /\ s[i] \in Of(s) /\ s[i] \in Of(s1)
        BY <1>2, <2>1, <2>3, <4>1
      <4>3. y[i] = node[s[i]].item
        BY <2>2, <4>2 DEF Goes
      <4> QED BY <1>2, <2>4, <4>1, <4>3
    <3> QED BY <3>1, <3>2
  <2>6. Len(y) = Len(Append(x, c))
    BY <1>2, <2>1, <2>3, <2>4
  <2>7. y = Append(x, c)
    BY <2>3, <2>4, <2>5, <2>6, SeqEqual
  <2> QED BY <2>7 DEF y, m1, s1
<1>4. Items(LinkFront(o.m, o.n, c), <<o.n>> \o s) = <<c>> \o x
  <2> DEFINE m1 == LinkFront(o.m, o.n, c)
             s1 == <<o.n>> \o s
             y == Items(m1, s1)
             z == <<c>> \o x
  <2>1. /\ Len(s1) = Len(s) + 1 /\ s1[1] = o.n
        /\ \A i \in 1..Len(s) : s1[i + 1] = s[i]
        /\ Of(s1) = Of(s) \cup {o.n}
    BY <1>1, ConsIs
  <2>2. Goes(s, s1, m1) /\ m1.node[o.n].item = c
    BY <1>1
  <2> HIDE DEF m1, s1
  <2>3. /\ y \in Seq(Cell) /\ Len(y) = Len(s1)
        /\ \A i \in 1..Len(s1) : y[i] = m1.node[s1[i]].item
    BY <2>2, HeldItems DEF Goes
  <2> HIDE DEF y
  <2>4. /\ z \in Seq(Cell) /\ Len(z) = Len(x) + 1 /\ z[1] = c
        /\ \A i \in 1..Len(x) : z[i + 1] = x[i]
    <3>1. <<c>> \in Seq(Cell) /\ Len(<<c>>) = 1 /\ <<c>>[1] = c
      OBVIOUS
    <3>2. /\ z \in Seq(Cell) /\ Len(z) = 1 + Len(x)
          /\ \A i \in 1..(1 + Len(x)) : z[i] = IF i <= 1 THEN <<c>>[i] ELSE x[i - 1]
      BY <1>2, <3>1, ConcatProperties
    <3> HIDE DEF z
    <3>3. Len(x) \in Nat
      BY <1>2
    <3>4. z[1] = c
      BY <3>1, <3>2, <3>3
    <3>5. \A i \in 1..Len(x) : z[i + 1] = x[i]
      BY <3>2, <3>3
    <3> QED BY <3>2, <3>3, <3>4, <3>5
  <2> HIDE DEF z
  <2>5. ASSUME NEW i \in 1..Len(y) PROVE y[i] = z[i]
    <3>1. CASE i = 1
      <4>1. 1 \in 1..Len(s1)
        BY <1>2, <2>1
      <4> QED BY <2>1, <2>2, <2>3, <2>4, <3>1, <4>1
    <3>2. CASE i # 1
      <4>0. i - 1 \in 1..Len(s) /\ i = (i - 1) + 1 /\ i \in 1..Len(s1)
        BY <1>2, <2>1, <2>3, <3>2
      <4>1. PICK j \in 1..Len(s) : i = j + 1 /\ i \in 1..Len(s1)
        BY <4>0
      <4>2. y[i] = m1.node[s[j]].item /\ s[j] \in Of(s) /\ s[j] \in Of(s1)
        BY <1>2, <2>1, <2>3, <4>1
      <4>3. y[i] = node[s[j]].item
        BY <2>2, <4>2 DEF Goes
      <4>4. z[i] = x[j]
        BY <1>2, <2>4, <4>1
      <4> QED BY <1>2, <4>1, <4>3, <4>4
    <3> QED BY <3>1, <3>2
  <2>6. Len(y) = Len(z)
    BY <1>2, <2>1, <2>3, <2>4
  <2>7. y = z
    BY <2>3, <2>4, <2>5, <2>6, SeqEqual
  <2> QED BY <2>7 DEF y, z, m1, s1
<1> QED BY <1>3, <1>4 DEF x

\* SubSeq and Tail of what an element sequence holds are the items of the same
\* part of the nodes.
LEMMA SubSeqOf ==
  ASSUME NEW s \in Seq(Cell), NEW m \in 1..(Len(s) + 1), NEW n \in 0..Len(s),
         m <= n + 1
  PROVE  /\ SubSeq(s, m, n) \in Seq(Cell)
         /\ Len(SubSeq(s, m, n)) = n + 1 - m
         /\ \A i \in 1..(n + 1 - m) : SubSeq(s, m, n)[i] = s[m + i - 1]
<1>1. \A i \in m..n : s[i] \in Cell
  OBVIOUS
<1>2. m \in Int /\ n \in Int
  OBVIOUS
<1>3. /\ SubSeq(s, m, n) \in Seq(Cell)
      /\ Len(SubSeq(s, m, n)) = IF m <= n THEN n - m + 1 ELSE 0
      /\ \A i \in 1..(n - m + 1) : SubSeq(s, m, n)[i] = s[m + i - 1]
  BY <1>1, <1>2, SubSeqProperties
<1> QED BY <1>2, <1>3

LEMMA PrefixItems ==
  ASSUME NEW s, Held(Memory, s), NEW k \in 0..Len(s), NEW m1,
         Goes(s, SubSeq(s, 1, k), m1)
  PROVE  Items(m1, SubSeq(s, 1, k)) = SubSeq(Items(Memory, s), 1, k)
<1> DEFINE x == Items(Memory, s)
           u == SubSeq(s, 1, k)
           y == Items(m1, u)
           z == SubSeq(x, 1, k)
<1>1. /\ x \in Seq(Cell) /\ Len(x) = Len(s) /\ Len(s) \in Nat /\ s \in Seq(Nodes)
      /\ \A i \in 1..Len(s) : x[i] = node[s[i]].item /\ s[i] \in Of(s)
  BY HeldItems DEF Memory
<1>2. Len(u) = k /\ \A i \in 1..k : u[i] = s[i] /\ i \in 1..Len(s)
  BY <1>1, PrefixIs
<1>3. Goes(s, u, m1)
  OBVIOUS
<1> HIDE DEF u, x
<1>4. /\ y \in Seq(Cell) /\ Len(y) = k
      /\ \A i \in 1..k : y[i] = m1.node[u[i]].item /\ u[i] \in Of(u)
  BY <1>2, <1>3, HeldItems DEF Goes
<1> HIDE DEF y
<1>5. z \in Seq(Cell) /\ Len(z) = k /\ \A i \in 1..k : z[i] = x[i]
  <2>1. 1 \in 1..(Len(x) + 1) /\ k \in 0..Len(x) /\ 1 <= k + 1
    BY <1>1
  <2>2. /\ z \in Seq(Cell) /\ Len(z) = k + 1 - 1
        /\ \A i \in 1..(k + 1 - 1) : z[i] = x[1 + i - 1]
    BY <1>1, <2>1, SubSeqOf
  <2> HIDE DEF z
  <2> QED BY <2>1, <2>2
<1> HIDE DEF z
<1>6. ASSUME NEW i \in 1..k PROVE y[i] = z[i]
  <2>1. s[i] \in Of(s) \cap Of(u) /\ y[i] = m1.node[s[i]].item /\ z[i] = node[s[i]].item
    BY <1>1, <1>2, <1>4, <1>5
  <2> QED BY <1>3, <2>1 DEF Goes
<1>7. y = z
  BY <1>4, <1>5, <1>6, SeqEqual
<1> QED BY <1>7 DEF x, u, y, z

LEMMA RestItems ==
  ASSUME NEW s, Held(Memory, s), s # << >>, NEW m1, Goes(s, Tail(s), m1)
  PROVE  Items(m1, Tail(s)) = Tail(Items(Memory, s))
<1> DEFINE x == Items(Memory, s)
           u == Tail(s)
           y == Items(m1, u)
           z == Tail(x)
<1>1. /\ x \in Seq(Cell) /\ Len(x) = Len(s) /\ Len(s) \in Nat /\ Distinct(s)
      /\ \A i \in 1..Len(s) : x[i] = node[s[i]].item /\ s[i] \in Of(s)
  BY HeldItems DEF Memory
<1>2. /\ Len(u) = Len(s) - 1 /\ 1 \in 1..Len(s)
      /\ \A i \in 1..Len(u) : u[i] = s[i + 1] /\ i + 1 \in 1..Len(s)
  BY <1>1, RestIs
<1>3. Goes(s, u, m1)
  OBVIOUS
<1> HIDE DEF u, x
<1>4. /\ y \in Seq(Cell) /\ Len(y) = Len(u)
      /\ \A i \in 1..Len(u) : y[i] = m1.node[u[i]].item /\ u[i] \in Of(u)
  BY <1>3, HeldItems DEF Goes
<1> HIDE DEF y
<1>5. /\ z \in Seq(Cell) /\ Len(z) = Len(u)
      /\ \A i \in 1..Len(u) : z[i] = x[i + 1]
  <2>1. x # << >>
    BY <1>1, <1>2
  <2> QED BY <1>1, <1>2, <2>1, HeadTailProperties
<1> HIDE DEF z
<1>6. ASSUME NEW i \in 1..Len(u) PROVE y[i] = z[i]
  <2> DEFINE j == i + 1
  <2>0. j \in 1..Len(s) /\ u[i] = s[j] /\ z[i] = x[j]
    BY <1>2, <1>5
  <2>1. s[j] \in Of(s) \cap Of(u) /\ y[i] = m1.node[s[j]].item /\ z[i] = node[s[j]].item
    BY <1>1, <1>4, <2>0
  <2> QED BY <1>3, <2>1 DEF Goes
<1>7. y = z
  BY <1>4, <1>5, <1>6, SeqEqual
<1> QED BY <1>7 DEF x, u, y, z

-----------------------------------------------------------------------------
(* Insertion *)

LEMMA PushMaps ==
  ASSUME ListInv, live, NEW o \in AllocateNode(Memory), NEW c
  PROVE  /\ o.status # "SUCCESS" /\ Refuse(o.status) => Deque!Reject(Deque!NoRoom)
         /\ (/\ o.status = "SUCCESS" /\ c \in Cell
             /\ Finish(LinkBack(o.m, o.n, c), "SUCCESS", << >>))
              => Deque!Becomes(Append(Seen, c), << >>)
         /\ (/\ o.status = "SUCCESS" /\ c \in Cell
             /\ Finish(LinkFront(o.m, o.n, c), "SUCCESS", << >>))
              => Deque!Becomes(<<c>> \o Seen, << >>)
<1>1. PICK s : Held(Memory, s)
  BY DEF ListInv
<1>2. PICK f : Shaped(Memory, s, f) /\ Memory.list.size = Len(s)
  BY <1>1, HeldShaped
<1>3. ASSUME o.status # "SUCCESS", Refuse(o.status)
      PROVE  Deque!Reject(Deque!NoRoom)
  <2>1. o.status \in Deque!NoRoom
    BY <1>2, <1>3, AllocateNodeIs DEF Outcomes, Deque!NoRoom
  <2> QED BY <1>1, <1>3, <2>1, RefuseMaps
<1>4. Seen = Items(Memory, s)
  BY <1>1, HeldWalks DEF Seen
<1>5. ASSUME o.status = "SUCCESS", c \in Cell
      PROVE  /\ Goes(s, Append(s, o.n), LinkBack(o.m, o.n, c))
             /\ Goes(s, <<o.n>> \o s, LinkFront(o.m, o.n, c))
  BY <1>1, <1>5, LinkedGoes
<1>6. ASSUME o.status = "SUCCESS", c \in Cell,
             Finish(LinkBack(o.m, o.n, c), "SUCCESS", << >>)
      PROVE  Deque!Becomes(Append(Seen, c), << >>)
  <2> DEFINE m1 == LinkBack(o.m, o.n, c)
             s1 == Append(s, o.n)
  <2>1. Items(m1, s1) = Append(Seen, c)
    BY <1>1, <1>4, <1>6, LinkedItems
  <2>2. Held(m1, s1) /\ m1.list.destructor = list.destructor
    BY <1>5, <1>6 DEF Goes
  <2>3. Finish(m1, "SUCCESS", << >>)
    BY <1>6
  <2> HIDE DEF m1, s1
  <2>4. Deque!Becomes(Items(m1, s1), << >>)
    BY <1>1, <2>2, <2>3, BecomesMaps
  <2> QED BY <2>1, <2>4
<1>7. ASSUME o.status = "SUCCESS", c \in Cell,
             Finish(LinkFront(o.m, o.n, c), "SUCCESS", << >>)
      PROVE  Deque!Becomes(<<c>> \o Seen, << >>)
  <2> DEFINE m1 == LinkFront(o.m, o.n, c)
             s1 == <<o.n>> \o s
  <2>1. Items(m1, s1) = <<c>> \o Seen
    BY <1>1, <1>4, <1>7, LinkedItems
  <2>2. Held(m1, s1) /\ m1.list.destructor = list.destructor
    BY <1>5, <1>7 DEF Goes
  <2>3. Finish(m1, "SUCCESS", << >>)
    BY <1>7
  <2> HIDE DEF m1, s1
  <2>4. Deque!Becomes(Items(m1, s1), << >>)
    BY <1>1, <2>2, <2>3, BecomesMaps
  <2> QED BY <2>1, <2>4
<1> QED BY <1>3, <1>6, <1>7

LEMMA EmplacedCell ==
  ASSUME ListInv, live, NEW o \in AllocateNode(Memory), o.status = "SUCCESS"
  PROVE  o.m.node[o.n].item \in Cell
<1>1. PICK s : Held(Memory, s)
  BY DEF ListInv
<1>2. /\ o.m.node \in [Nodes -> Node0] /\ o.n \in Nodes
  <2>1. Undef \in Cell
    BY DEF Cell
  <2> QED BY <1>1, <2>1, LinkedGoes
<1> QED BY <1>2 DEF Node0

LEMMA PushBackMaps ==
  ASSUME ListInv, NEW e \in Element, PushBack(e)
  PROVE  Deque!PushBack(e)
<1>1. live /\ e \in Cell
  BY DEF PushBack, Push, Cell
<1>2. PICK o \in AllocateNode(Memory) :
        IF o.status # "SUCCESS" THEN Refuse(o.status)
        ELSE Finish(LinkBack(o.m, o.n, e), "SUCCESS", << >>)
  BY DEF PushBack, Push
<1>3. \/ Deque!Reject(Deque!NoRoom)
      \/ Deque!Becomes(Append(Seen, e), << >>)
  BY <1>1, <1>2, PushMaps
<1> QED BY <1>3 DEF Deque!PushBack, Seen

LEMMA PushFrontMaps ==
  ASSUME ListInv, NEW e \in Element, PushFront(e)
  PROVE  Deque!PushFront(e)
<1>1. live /\ e \in Cell
  BY DEF PushFront, Push, Cell
<1>2. PICK o \in AllocateNode(Memory) :
        IF o.status # "SUCCESS" THEN Refuse(o.status)
        ELSE Finish(LinkFront(o.m, o.n, e), "SUCCESS", << >>)
  BY DEF PushFront, Push
<1>3. \/ Deque!Reject(Deque!NoRoom)
      \/ Deque!Becomes(<<e>> \o Seen, << >>)
  BY <1>1, <1>2, PushMaps
<1> QED BY <1>3 DEF Deque!PushFront, Seen

LEMMA EmplaceBackMaps ==
  ASSUME ListInv, NEW e \in Element, EmplaceBack(e)
  PROVE  Deque!EmplaceBack(e) /\ \E c \in Cell : Deque!PushBack(c)
<1>1. live /\ e \in Cell
  BY DEF EmplaceBack, Emplace, Cell
<1>2. PICK o \in AllocateNode(Memory) :
        IF o.status # "SUCCESS" THEN Refuse(o.status)
        ELSE \E c \in {e, o.m.node[o.n].item} :
               Finish(LinkBack(o.m, o.n, c), "SUCCESS", << >>)
  BY DEF EmplaceBack, Emplace
<1>3. \E c \in Cell : \/ Deque!Reject(Deque!NoRoom)
                      \/ Deque!Becomes(Append(Seen, c), << >>)
  <2>1. CASE o.status # "SUCCESS"
    BY <1>1, <1>2, <2>1, PushMaps
  <2>2. CASE o.status = "SUCCESS"
    <3>1. PICK c \in {e, o.m.node[o.n].item} :
               Finish(LinkBack(o.m, o.n, c), "SUCCESS", << >>)
      BY <1>2, <2>2
    <3>2. c \in Cell
      BY <1>1, <2>2, EmplacedCell
    <3> QED BY <1>1, <2>2, <3>1, <3>2, PushMaps
  <2> QED BY <2>1, <2>2
<1>4. PICK c \in Cell : Deque!PushBack(c)
  BY <1>3 DEF Deque!PushBack, Seen
<1> QED BY <1>4 DEF Deque!EmplaceBack, Deque!Cell, Cell

LEMMA EmplaceFrontMaps ==
  ASSUME ListInv, NEW e \in Element, EmplaceFront(e)
  PROVE  Deque!EmplaceFront(e) /\ \E c \in Cell : Deque!PushFront(c)
<1>1. live /\ e \in Cell
  BY DEF EmplaceFront, Emplace, Cell
<1>2. PICK o \in AllocateNode(Memory) :
        IF o.status # "SUCCESS" THEN Refuse(o.status)
        ELSE \E c \in {e, o.m.node[o.n].item} :
               Finish(LinkFront(o.m, o.n, c), "SUCCESS", << >>)
  BY DEF EmplaceFront, Emplace
<1>3. \E c \in Cell : \/ Deque!Reject(Deque!NoRoom)
                      \/ Deque!Becomes(<<c>> \o Seen, << >>)
  <2>1. CASE o.status # "SUCCESS"
    BY <1>1, <1>2, <2>1, PushMaps
  <2>2. CASE o.status = "SUCCESS"
    <3>1. PICK c \in {e, o.m.node[o.n].item} :
               Finish(LinkFront(o.m, o.n, c), "SUCCESS", << >>)
      BY <1>2, <2>2
    <3>2. c \in Cell
      BY <1>1, <2>2, EmplacedCell
    <3> QED BY <1>1, <2>2, <3>1, <3>2, PushMaps
  <2> QED BY <2>1, <2>2
<1>4. PICK c \in Cell : Deque!PushFront(c)
  BY <1>3 DEF Deque!PushFront, Seen
<1> QED BY <1>4 DEF Deque!EmplaceFront, Deque!Cell, Cell

-----------------------------------------------------------------------------
(* Deletion and assignment *)

LEMMA PopBackMaps ==
  ASSUME ListInv, PopBack
  PROVE  Deque!PopBack
<1>1. live
  BY DEF PopBack
<1>2. PICK s : Held(Memory, s)
  BY <1>1 DEF ListInv
<1> DEFINE x == Items(Memory, s)
<1>3. /\ x \in Seq(Cell) /\ Len(x) = Len(s) /\ Len(s) \in Nat /\ s \in Seq(Nodes)
      /\ \A i \in 1..Len(s) : x[i] = node[s[i]].item /\ s[i] \in Nodes
  BY <1>2, HeldItems DEF Memory
<1>4. Seen = x /\ TailIs(list, s)
  BY <1>1, <1>2, HeldWalks DEF Seen, Held, Backed, Memory
<1> HIDE DEF x
<1>5. CASE list.tail = Null
  <2>1. s = << >>
    <3>1. s # << >> => Len(s) \in 1..Len(s)
      BY <1>3
    <3> QED BY <1>3, <1>4, <1>5, <3>1 DEF TailIs, Null, Nodes
  <2>2. x = << >>
    BY <1>3, <2>1
  <2>3. Refuse("INVALID_OPERATION")
    BY <1>5 DEF PopBack
  <2>4. Deque!Reject({"INVALID_OPERATION"})
    BY <1>1, <1>2, <2>3, RefuseMaps
  <2> QED BY <1>4, <2>2, <2>4 DEF Deque!PopBack, Seen
<1>6. CASE list.tail # Null
  <2> DEFINE k == Len(s) - 1
             gone == <<node[s[Len(s)]].item>>
  <2>1. PICK m1 : Goes(s, SubSeq(s, 1, k), m1) /\ Finish(m1, "SUCCESS", gone)
    BY <1>2, <1>6, PopBackIs
  <2>2. s # << >>
    BY <1>2, <1>6, PopBackIs
  <2>3. /\ k \in 0..Len(s) /\ k = Len(x) - 1 /\ x # << >>
        /\ gone = <<x[Len(x)]>>
    BY <1>3, <2>2
  <2> HIDE DEF k, gone
  <2>4. Items(m1, SubSeq(s, 1, k)) = SubSeq(x, 1, k)
    BY <1>2, <2>1, <2>3, PrefixItems DEF x
  <2>5. Deque!Becomes(Items(m1, SubSeq(s, 1, k)), gone)
    BY <1>1, <1>2, <2>1, BecomesMaps DEF Goes
  <2>6. Deque!Becomes(SubSeq(Seen, 1, Len(Seen) - 1), <<Seen[Len(Seen)]>>)
    BY <1>4, <2>3, <2>4, <2>5
  <2> QED BY <1>4, <2>3, <2>6 DEF Deque!PopBack, Deque!Front, Deque!Last, Seen
<1> QED BY <1>5, <1>6

LEMMA PopFrontMaps ==
  ASSUME ListInv, PopFront
  PROVE  Deque!PopFront
<1>1. live
  BY DEF PopFront
<1>2. PICK s : Held(Memory, s)
  BY <1>1 DEF ListInv
<1> DEFINE x == Items(Memory, s)
<1>3. /\ x \in Seq(Cell) /\ Len(x) = Len(s) /\ Len(s) \in Nat /\ s \in Seq(Nodes)
      /\ \A i \in 1..Len(s) : x[i] = node[s[i]].item /\ s[i] \in Nodes
  BY <1>2, HeldItems DEF Memory
<1>4. Seen = x /\ HeadIs(list, s)
  BY <1>1, <1>2, HeldWalks DEF Seen, Held, Backed, Memory
<1> HIDE DEF x
<1>5. CASE list.head = Null
  <2>1. s = << >>
    <3>1. s # << >> => 1 \in 1..Len(s)
      BY <1>3
    <3> QED BY <1>3, <1>4, <1>5, <3>1 DEF HeadIs, Null, Nodes
  <2>2. x = << >>
    BY <1>3, <2>1
  <2>3. Refuse("INVALID_OPERATION")
    BY <1>5 DEF PopFront
  <2>4. Deque!Reject({"INVALID_OPERATION"})
    BY <1>1, <1>2, <2>3, RefuseMaps
  <2> QED BY <1>4, <2>2, <2>4 DEF Deque!PopFront, Seen
<1>6. CASE list.head # Null
  <2> DEFINE gone == <<node[s[1]].item>>
  <2>1. PICK m1 : Goes(s, Tail(s), m1) /\ Finish(m1, "SUCCESS", gone)
    BY <1>2, <1>6, PopFrontIs
  <2>2. s # << >>
    BY <1>2, <1>6, PopFrontIs
  <2>3. x # << >> /\ gone = <<x[1]>> /\ x[1] = Head(x)
    BY <1>3, <2>2
  <2> HIDE DEF gone
  <2>4. Items(m1, Tail(s)) = Tail(x)
    BY <1>2, <2>1, <2>2, RestItems DEF x
  <2>5. Deque!Becomes(Items(m1, Tail(s)), gone)
    BY <1>1, <1>2, <2>1, BecomesMaps DEF Goes
  <2>6. Deque!Becomes(Tail(Seen), <<Head(Seen)>>)
    BY <1>4, <2>3, <2>4, <2>5
  <2> QED BY <1>4, <2>3, <2>6 DEF Deque!PopFront, Seen
<1> QED BY <1>5, <1>6

LEMMA ClearMaps ==
  ASSUME ListInv, Clear
  PROVE  Deque!Clear
<1>1. live
  BY DEF Clear
<1>2. PICK s : Held(Memory, s)
  BY <1>1 DEF ListInv
<1>3. /\ Items(Memory, s) \in Seq(Cell) /\ Len(Items(Memory, s)) = Len(s)
      /\ Seen = Items(Memory, s) /\ list.size = Len(s)
  BY <1>1, <1>2, HeldItems, HeldWalks DEF Seen
<1>4. CASE list.size = 0
  <2>1. Refuse("SUCCESS") /\ "SUCCESS" \in {"SUCCESS"}
    BY <1>4 DEF Clear
  <2>2. Deque!Reject({"SUCCESS"}) /\ Seen = << >>
    BY <1>1, <1>2, <1>3, <1>4, <2>1, RefuseMaps, EmptySeq
  <2> QED BY <2>2 DEF Deque!Clear, Seen
<1>5. CASE list.size # 0
  <2>1. PICK m1 : Goes(s, << >>, m1) /\ Finish(m1, "SUCCESS", Items(Memory, s))
    BY <1>2, <1>5, ClearIs
  <2>2. Items(m1, << >>) = << >>
    <3>1. /\ Items(m1, << >>) \in Seq(Cell)
          /\ Len(Items(m1, << >>)) = Len(<< >>) /\ Len(<< >>) = 0
      BY <2>1, HeldItems DEF Goes
    <3> QED BY <3>1, EmptySeq
  <2>3. Deque!Becomes(<< >>, Seen)
    BY <1>1, <1>2, <1>3, <2>1, <2>2, BecomesMaps DEF Goes
  <2>4. Seen # << >>
    BY <1>3, <1>5
  <2> QED BY <2>3, <2>4 DEF Deque!Clear, Seen
<1> QED BY <1>4, <1>5

LEMMA AssignMaps ==
  ASSUME ListInv, NEW i \in 1..Len(Chain), NEW e \in Element,
         SetNodeData(Chain[i], e)
  PROVE  Deque!Assign(i, e) /\ i \in 1..Len(Seen)
<1>1. live
  BY DEF SetNodeData
<1>2. PICK s : Held(Memory, s)
  BY <1>1 DEF ListInv
<1>3. Chain = s /\ InList = Of(s) /\ Distinct(s)
  BY <1>2, HeldWalks
<1> DEFINE x == Items(Memory, s)
           n == s[i]
<1>4. /\ x \in Seq(Cell) /\ Len(x) = Len(s) /\ Len(s) \in Nat
      /\ \A j \in 1..Len(s) : x[j] = node[s[j]].item /\ s[j] \in Nodes
  BY <1>2, HeldItems DEF Memory
<1>5. Seen = x
  BY <1>1, <1>3 DEF Seen
<1>6. i \in 1..Len(s) /\ n \in InList /\ SetNodeData(n, e)
  BY <1>3 DEF Of
<1>7. PICK m : /\ Held(m, s) /\ m.list = list
               /\ Finish(m, "SUCCESS", <<node[n].item>>)
               /\ \A j \in Nodes : m.node[j].item = IF j = n THEN e
                                                    ELSE node[j].item
  BY <1>2, <1>6, SetNodeDataIs
<1> DEFINE y == Items(m, s)
           z == [x EXCEPT ![i] = e]
<1>8. /\ y \in Seq(Cell) /\ Len(y) = Len(s)
      /\ \A j \in 1..Len(s) : y[j] = m.node[s[j]].item
  BY <1>7, HeldItems
<1> HIDE DEF x, y
<1>9. z \in Seq(Cell) /\ Len(z) = Len(s)
      /\ \A j \in 1..Len(s) : z[j] = IF j = i THEN e ELSE x[j]
  <2>1. e \in Cell /\ x \in [1..Len(s) -> Cell]
    BY <1>4, LenProperties DEF Cell
  <2>2. z \in [1..Len(s) -> Cell]
    BY <2>1
  <2>3. z \in Seq(Cell) /\ Len(z) = Len(s)
    <3> HIDE DEF z
    <3> QED BY <1>4, <2>2
  <2> QED BY <2>1, <2>3
<1>10. ASSUME NEW j \in 1..Len(s) PROVE y[j] = z[j]
  <2>1. y[j] = IF s[j] = n THEN e ELSE node[s[j]].item
    BY <1>4, <1>7, <1>8
  <2>2. s[j] = n <=> j = i
    BY <1>3, <1>6 DEF Distinct
  <2> QED BY <1>4, <1>9, <2>1, <2>2
<1> HIDE DEF z
<1>11. y = z
  BY <1>8, <1>9, <1>10, SeqEqual
<1>12. Deque!Becomes(y, <<node[n].item>>)
  BY <1>1, <1>2, <1>7, BecomesMaps DEF y
<1>13. node[n].item = x[i]
  BY <1>4, <1>6
<1>14. Deque!Becomes([Seen EXCEPT ![i] = e], <<Seen[i]>>)
  BY <1>5, <1>11, <1>12, <1>13 DEF z
<1>15. i \in 1..Len(Seen)
  BY <1>4, <1>5, <1>6
<1> QED BY <1>14, <1>15 DEF Deque!Assign, Seen

-----------------------------------------------------------------------------
(* Resizing *)

LEMMA GrowMaps ==
  ASSUME live, NEW s, Held(Memory, s), NEW n \in Nat, n > Len(s),
         NEW e \in Element \cup {NULL}, NEW s1, NEW o,
         Longer(s, s1, n - Len(s), e, o), Finish(o.m, o.status, << >>)
  PROVE  Deque!ResizeEx(n, e) /\ Deque!ResizeEx(n, << >>)
<1> DEFINE x == Items(Memory, s)
           y == Items(o.m, s1)
<1>1. /\ x \in Seq(Cell) /\ Len(x) = Len(s) /\ Len(s) \in Nat
      /\ \A j \in 1..Len(s) : x[j] = node[s[j]].item /\ s[j] \in Of(s)
  BY HeldItems DEF Memory
<1>2. /\ Held(o.m, s1) /\ o.m.list.destructor = list.destructor
      /\ \A j \in Of(s) \cap Of(s1) : o.m.node[j].item = node[j].item
      /\ \A j \in 1..Len(s) : s1[j] = s[j]
      /\ Len(s) <= Len(s1)
  BY DEF Longer, Goes
<1>3. /\ y \in Seq(Cell) /\ Len(y) = Len(s1) /\ Len(s1) \in Nat
      /\ \A j \in 1..Len(s1) : y[j] = o.m.node[s1[j]].item /\ s1[j] \in Of(s1)
  BY <1>2, HeldItems
<1>4. /\ Seen = x /\ Seen' = y /\ live' = live /\ list' = o.m.list
      /\ status' = o.status
      /\ destroyed' = IF list.destructor THEN << >> ELSE << >>
  <2> DEFINE m1 == o.m
             st == o.status
  <2>1. Held(m1, s1) /\ Finish(m1, st, << >>)
    BY <1>2
  <2> HIDE DEF m1, st
  <2>2. /\ Seen = Items(Memory, s) /\ Seen' = Items(m1, s1)
        /\ live' = live /\ list' = m1.list /\ status' = st
        /\ destroyed' = IF list.destructor THEN << >> ELSE << >>
    BY <2>1, FinishSeen
  <2> QED BY <2>2 DEF m1, st
<1> HIDE DEF x, y
<1>5. \A j \in 1..Len(x) : x[j] = y[j]
  <2>1. \A j \in 1..Len(s) : j \in 1..Len(s1)
    BY <1>1, <1>2, <1>3
  <2>2. ASSUME NEW j \in 1..Len(s) PROVE x[j] = y[j]
    <3>1. s[j] \in Of(s) \cap Of(s1) /\ y[j] = o.m.node[s[j]].item
      BY <1>1, <1>2, <1>3, <2>1
    <3> QED BY <1>1, <1>2, <3>1
  <2> QED BY <1>1, <2>2
<1>6. Deque!IsPrefix(x, y)
  <2>1. /\ 1 \in 1..(Len(x) + 1) /\ Len(x) \in 0..Len(x) /\ 1 <= Len(x) + 1
        /\ 1 \in 1..(Len(y) + 1) /\ Len(x) \in 0..Len(y)
    BY <1>1, <1>2, <1>3
  <2> DEFINE p == SubSeq(x, 1, Len(x))
             q == SubSeq(y, 1, Len(x))
  <2>2. /\ p \in Seq(Cell) /\ Len(p) = Len(x) + 1 - 1
        /\ \A j \in 1..(Len(x) + 1 - 1) : p[j] = x[1 + j - 1]
    BY <1>1, <2>1, SubSeqOf
  <2>3. /\ q \in Seq(Cell) /\ Len(q) = Len(x) + 1 - 1
        /\ \A j \in 1..(Len(x) + 1 - 1) : q[j] = y[1 + j - 1]
    BY <1>3, <2>1, SubSeqOf
  <2> HIDE DEF p, q
  <2>4. Len(p) = Len(q) /\ \A j \in 1..Len(p) : p[j] = q[j]
    BY <1>1, <1>5, <2>2, <2>3
  <2>5. p = q
    BY <2>2, <2>3, <2>4, SeqEqual
  <2> QED BY <1>1, <1>2, <1>3, <2>5 DEF Deque!IsPrefix, p, q
<1>7. e # << >> => \A j \in (Len(x) + 1)..Len(y) : y[j] = e
  <2>1. ASSUME e # NULL, NEW j \in (Len(s) + 1)..Len(s1) PROVE y[j] = e
    <3>1. j \in 1..Len(s1) /\ o.m.node[s1[j]].item = e
      BY <1>1, <1>3, <2>1 DEF Longer
    <3> QED BY <1>3, <3>1
  <2> QED BY <1>1, <1>3, <2>1 DEF NULL
<1>8. IF Len(y) = n THEN o.status = "SUCCESS"
      ELSE Len(y) < n /\ o.status \in Deque!NoRoom
  <2>1. IF o.status = "SUCCESS" THEN Len(s1) = n
        ELSE Len(s1) < n /\ o.status \in Outcomes
    <3>1. Len(s) + (n - Len(s)) = n
      BY <1>1
    <3> QED BY <3>1 DEF Longer
  <2> QED BY <1>3, <2>1 DEF Outcomes, Deque!NoRoom
<1>9. n > Len(x)
  BY <1>1
<1>10. destroyed' = << >> /\ list'.destructor = list.destructor
  BY <1>2, <1>4
<1>11. ASSUME NEW c, c # << >> => \A j \in (Len(x) + 1)..Len(y) : y[j] = c
       PROVE  Deque!ResizeEx(n, c)
  <2>1. /\ n > Len(Seen) /\ live /\ destroyed' = << >>
        /\ live' = live /\ list'.destructor = list.destructor
        /\ Deque!IsPrefix(Seen, Seen')
        /\ IF Len(Seen') = n THEN status' = "SUCCESS"
           ELSE Len(Seen') < n /\ status' \in Deque!NoRoom
        /\ c # << >> => \A j \in (Len(Seen) + 1)..Len(Seen') : Seen'[j] = c
    BY <1>4, <1>6, <1>8, <1>9, <1>10, <1>11
  <2> QED BY <2>1 DEF Deque!ResizeEx, Seen
<1> QED BY <1>7, <1>11

LEMMA MemoryItems ==
  ASSUME NEW s, Held(Memory, s), NEW t \in Seq(Nodes)
  PROVE  /\ Items(Memory, t) \in Seq(Cell) /\ Len(Items(Memory, t)) = Len(t)
         /\ \A i \in 1..Len(t) : Items(Memory, t)[i] = node[t[i]].item
<1>1. Typed(Memory) /\ Memory.node = node
  BY DEF Held, Backed, Memory
<1> QED BY <1>1, ItemsAre

LEMMA ShrinkMaps ==
  ASSUME live, NEW s, Held(Memory, s), NEW n \in Nat, n < Len(s), NEW e,
         NEW k, k = Len(s) - n, NEW doomed,
         doomed = [i \in 1..k |-> s[Len(s) + 1 - i]],
         Finish(Shortened(k), "SUCCESS", Items(Memory, doomed)), k < Len(s)
  PROVE  Deque!ResizeEx(n, e)
<1> DEFINE x == Items(Memory, s)
           m1 == Shortened(k)
           u == SubSeq(s, 1, n)
           gone == Items(Memory, doomed)
           last == SubSeq(x, n + 1, Len(x))
           r == Deque!Reverse(last)
<1>1. /\ x \in Seq(Cell) /\ Len(x) = Len(s) /\ Len(s) \in Nat /\ s \in Seq(Nodes)
      /\ \A j \in 1..Len(s) : x[j] = node[s[j]].item /\ s[j] \in Nodes
  BY HeldItems DEF Memory
<1>2. k \in Nat /\ n = Len(s) - k /\ n \in 0..Len(s) /\ k = Len(x) - n
  BY <1>1
<1>3. Goes(s, u, m1)
  BY <1>2, ShortenedIs
<1>4. Seen = x
  BY HeldWalks DEF Seen
<1>5. Items(m1, u) = SubSeq(x, 1, n)
  BY <1>2, <1>3, PrefixItems
<1>6. Deque!Becomes(Items(m1, u), gone)
  BY <1>3, BecomesMaps DEF Goes
<1> HIDE DEF x
<1>7. \A i \in 1..k : Len(s) + 1 - i \in 1..Len(s)
  BY <1>1, <1>2
<1>8. doomed \in Seq(Nodes) /\ Len(doomed) = k
  <2>1. \A i \in 1..k : s[Len(s) + 1 - i] \in Nodes
    BY <1>1, <1>7
  <2>2. doomed \in [1..k -> Nodes]
    BY <2>1, Zenon
  <2> QED BY <1>2, <2>2, FunctionIsSeq
<1>9. /\ gone \in Seq(Cell) /\ Len(gone) = k
      /\ \A i \in 1..k : gone[i] = x[Len(s) + 1 - i]
  <2>2. /\ gone \in Seq(Cell) /\ Len(gone) = k
        /\ \A i \in 1..k : gone[i] = node[doomed[i]].item
    BY <1>8, MemoryItems
  <2> HIDE DEF gone
  <2>3. \A i \in 1..k : doomed[i] = s[Len(s) + 1 - i]
    OBVIOUS
  <2> QED BY <1>1, <1>7, <2>2, <2>3
<1> HIDE DEF gone
<1>10. /\ last \in Seq(Cell) /\ Len(last) = k
       /\ \A i \in 1..k : last[i] = x[n + i]
  <2> DEFINE l == Len(x)
  <2>0. l \in Nat /\ n \in 0..l /\ k = l - n
    BY <1>1, <1>2
  <2> HIDE DEF l
  <2>00. /\ n + 1 \in 1..(l + 1) /\ l \in 0..l /\ n + 1 <= l + 1
         /\ l + 1 - (n + 1) = k /\ \A i \in 1..k : n + 1 + i - 1 = n + i
    BY <2>0
  <2>1. /\ n + 1 \in 1..(Len(x) + 1) /\ Len(x) \in 0..Len(x)
        /\ n + 1 <= Len(x) + 1 /\ Len(x) + 1 - (n + 1) = k
        /\ \A i \in 1..k : n + 1 + i - 1 = n + i
    BY <2>00 DEF l
  <2>2. /\ last \in Seq(Cell) /\ Len(last) = Len(x) + 1 - (n + 1)
        /\ \A i \in 1..(Len(x) + 1 - (n + 1)) : last[i] = x[n + 1 + i - 1]
    BY <1>1, <2>1, SubSeqOf
  <2> HIDE DEF last
  <2> QED BY <2>1, <2>2
<1> HIDE DEF last
<1>11. /\ r \in Seq(Cell) /\ Len(r) = k
       /\ \A i \in 1..k : r[i] = last[(k - i) + 1] /\ (k - i) + 1 \in 1..k
  <2>1. r = [i \in 1..k |-> last[(k - i) + 1]]
    BY <1>10 DEF Deque!Reverse
  <2>2. \A i \in 1..k : (k - i) + 1 \in 1..k
    BY <1>2
  <2> HIDE DEF r
  <2> QED BY <1>2, <1>10, <2>1, <2>2
<1> HIDE DEF r
<1>12. ASSUME NEW i \in 1..k PROVE gone[i] = r[i]
  <2>1. n + ((k - i) + 1) = Len(s) + 1 - i
    BY <1>1, <1>2
  <2> QED BY <1>9, <1>10, <1>11, <2>1
<1>13. gone = r
  BY <1>9, <1>11, <1>12, SeqEqual
<1>14. Deque!Becomes(SubSeq(Seen, 1, n),
                     Deque!Reverse(SubSeq(Seen, n + 1, Len(Seen))))
  BY <1>4, <1>5, <1>6, <1>13 DEF r, last
<1>15. n < Len(Seen)
  BY <1>1, <1>4
<1> QED BY <1>14, <1>15 DEF Deque!ResizeEx, Seen

LEMMA ResizeMaps ==
  ASSUME ListInv, NEW n \in 1..MaxSize, NEW e \in Element \cup {NULL},
         ResizeEx(n, e)
  PROVE  Deque!ResizeEx(n, e) /\ Deque!ResizeEx(n, << >>)
<1>1. live
  BY DEF ResizeEx
<1>2. PICK s : Held(Memory, s)
  BY <1>1 DEF ListInv
<1>3. /\ Chain = s /\ list.size = Len(s) /\ Len(s) \in Nat /\ n \in Nat
      /\ s \in Seq(Nodes) /\ 1 <= n
      /\ Seen = Items(Memory, s) /\ Len(Seen) = Len(s)
  BY <1>1, <1>2, HeldWalks, HeldItems, ListAssumption DEF Distinct, Seen
<1>4. CASE n = list.size
  <2>1. Refuse("SUCCESS") /\ "SUCCESS" \in {"SUCCESS"}
    BY <1>4 DEF ResizeEx
  <2>2. Deque!Reject({"SUCCESS"}) /\ n = Len(Seen)
    BY <1>1, <1>2, <1>3, <1>4, <2>1, RefuseMaps
  <2> QED BY <2>2 DEF Deque!ResizeEx, Seen
<1>5. CASE n > list.size
  <2>1. PICK o \in Appended(n - list.size, e) : Finish(o.m, o.status, << >>)
    BY <1>3, <1>5 DEF ResizeEx
  <2>2. n - list.size \in Nat
    BY <1>3, <1>5
  <2>3. PICK s1 : Longer(s, s1, n - list.size, e, o)
    BY <1>2, <2>1, <2>2, AppendedIs
  <2> QED BY <1>1, <1>2, <1>3, <1>5, <2>1, <2>3, GrowMaps
<1>6. CASE n < list.size
  <2> DEFINE k == list.size - n
             doomed == [i \in 1..k |-> Chain[list.size + 1 - i]]
  <2>1. Finish(Shortened(k), "SUCCESS", Items(Memory, doomed))
    BY <1>3, <1>6 DEF ResizeEx
  <2>2. k = Len(s) - n /\ k < Len(s)
    BY <1>3, <1>6
  <2>3. doomed = [i \in 1..k |-> s[Len(s) + 1 - i]]
    BY <1>3
  <2> HIDE DEF k, doomed
  <2> QED BY <1>1, <1>2, <1>3, <1>6, <2>1, <2>2, <2>3, ShrinkMaps
<1> QED BY <1>3, <1>4, <1>5, <1>6

-----------------------------------------------------------------------------
(***************************************************************************)
(* The list implements the double-ended sequence.                          *)
(***************************************************************************)
LEMMA ConstructMaps ==
  ASSUME ListInv, Construct
  PROVE  Deque!Create
<1>1. PICK a \in Allocators, c \in Nat, d \in BOOLEAN : InitList(a, c, d)
  BY ListAssumption DEF Construct
<1>2. /\ ~live /\ list' = Struct(a, c, d) /\ live' = TRUE /\ status' = "SUCCESS"
      /\ destroyed' = << >>
  BY <1>1 DEF InitList
<1>3. list'.destructor \in BOOLEAN /\ list'.size = 0
  BY <1>2 DEF Struct
<1>4. ListInv'
  BY ConstructInv
<1>5. PICK s : Held(Memory', s)
  BY <1>2, <1>4 DEF ListInv
<1>6. Chain' = s /\ Len(s) = 0
  BY <1>3, <1>5, HeldNow
<1>7. Items(Memory', s) \in Seq(Cell) /\ Len(Items(Memory', s)) = Len(s)
  BY <1>5, HeldItems
<1>8. Seen' = Items(Memory', s)
  BY <1>2, <1>6 DEF Seen
<1>9. Seen' = << >>
  BY <1>6, <1>7, <1>8, EmptySeq
<1> QED BY <1>2, <1>3, <1>9 DEF Deque!Create, Seen

LEMMA DestroyMaps ==
  ASSUME ListInv, Destroy
  PROVE  Deque!Destroy
<1> DEFINE m == Blanked(Memory, IF IsDynamic(list) THEN InList ELSE Nodes)
<1>1. /\ live /\ live' = FALSE /\ Store(m) /\ status' = "SUCCESS"
      /\ destroyed' = IF list.destructor THEN Items(Memory, Chain) ELSE << >>
  BY DEF Destroy
<1>2. PICK s : Held(Memory, s)
  BY <1>1 DEF ListInv
<1>3. m.list = list
  BY <1>2, BlankedIs
<1> HIDE DEF m
<1>4. list' = list
  BY <1>1, <1>3 DEF Store
<1>5. Seen' = << >> /\ Seen = Items(Memory, Chain)
  BY <1>1 DEF Seen
<1> QED BY <1>1, <1>4, <1>5 DEF Deque!Destroy, Deque!Given, Seen

LEMMA InitMaps == Init => Deque!Init
BY DEF Init, Struct, Deque!Init

LEMMA StepMaps ==
  ASSUME ListInv, [Next]_vars
  PROVE  [Deque!Next]_Deque!vars
<1>1. CASE Construct
  BY <1>1, ConstructMaps DEF Deque!Next
<1>2. CASE Destroy
  BY <1>2, DestroyMaps DEF Deque!Next
<1>3. CASE Insertion
  <2>1. PICK e \in Element : \/ PushBack(e) \/ PushFront(e)
                             \/ EmplaceBack(e) \/ EmplaceFront(e)
    BY <1>3 DEF Insertion
  <2>2. e \in Cell
    BY DEF Cell
  <2>3. \E c \in Cell : Deque!PushBack(c) \/ Deque!PushFront(c)
    BY <2>1, <2>2, PushBackMaps, PushFrontMaps, EmplaceBackMaps, EmplaceFrontMaps
  <2> QED BY <2>3 DEF Deque!Next, Deque!Cell, Cell
<1>4. CASE Deletion
  <2>1. CASE PopBack
    BY <2>1, PopBackMaps DEF Deque!Next
  <2>2. CASE PopFront
    BY <2>2, PopFrontMaps DEF Deque!Next
  <2>3. CASE Clear
    BY <2>3, ClearMaps DEF Deque!Next
  <2>4. CASE live /\ Refuse("SUCCESS")
    <3>1. PICK s : Held(Memory, s)
      BY <2>4 DEF ListInv
    <3>2. Deque!Reject({"SUCCESS"})
      BY <2>4, <3>1, RefuseMaps
    <3> QED BY <3>2 DEF Deque!Next
  <2> QED BY <1>4, <2>1, <2>2, <2>3, <2>4 DEF Deletion, Remove, RemoveRange
<1>5. CASE Resize
  <2>1. \E n \in 1..MaxSize : Deque!ResizeEx(n, << >>)
    BY <1>5, ResizeMaps DEF Resize
  <2> QED BY <2>1 DEF Deque!Next
<1>6. ASSUME NEW n \in InList, NEW e \in Element, SetNodeData(n, e)
      PROVE  Deque!Next
  <2>1. PICK s : Held(Memory, s)
    BY <1>6 DEF SetNodeData, ListInv
  <2>2. PICK i \in 1..Len(Chain) : n = Chain[i]
    BY <2>1, HeldWalks DEF Of
  <2>3. Deque!Assign(i, e) /\ i \in 1..Len(Seen)
    BY <1>6, <2>2, AssignMaps
  <2> QED BY <2>3 DEF Deque!Next, Seen
<1>7. CASE UNCHANGED vars
  <2>1. Memory' = Memory
    BY <1>7 DEF vars, Memory
  <2>2. Chain' = Chain
    BY <2>1 DEF Chain
  <2>3. Seen' = Seen
    BY <1>7, <2>1, <2>2 DEF vars, Seen
  <2>4. UNCHANGED Deque!vars
    BY <1>7, <2>3 DEF vars, Deque!vars, Seen
  <2> QED BY <2>4
<1> QED BY <1>1, <1>2, <1>3, <1>4, <1>5, <1>6, <1>7 DEF Next

\* What CallsImplement says of a step
CallsMap ==
  /\ \A e \in Element : /\ PushBack(e) => Deque!PushBack(e)
                        /\ PushFront(e) => Deque!PushFront(e)
                        /\ EmplaceBack(e) => Deque!EmplaceBack(e)
                        /\ EmplaceFront(e) => Deque!EmplaceFront(e)
  /\ PopBack => Deque!PopBack
  /\ PopFront => Deque!PopFront
  /\ Clear => Deque!Clear
  /\ \A i \in 1..Len(Chain), e \in Element :
       SetNodeData(Chain[i], e) => Deque!Assign(i, e)
  /\ \A n \in 1..MaxSize, e \in Element \cup {NULL} :
       ResizeEx(n, e) => Deque!ResizeEx(n, e)

LEMMA CallMaps ==
  ASSUME ListInv
  PROVE  CallsMap
<1>1. ASSUME NEW e \in Element
      PROVE  /\ PushBack(e) => Deque!PushBack(e)
             /\ PushFront(e) => Deque!PushFront(e)
             /\ EmplaceBack(e) => Deque!EmplaceBack(e)
             /\ EmplaceFront(e) => Deque!EmplaceFront(e)
  BY PushBackMaps, PushFrontMaps, EmplaceBackMaps, EmplaceFrontMaps
<1>2. \A i \in 1..Len(Chain), e \in Element :
        SetNodeData(Chain[i], e) => Deque!Assign(i, e)
  BY AssignMaps
<1>3. \A n \in 1..MaxSize, e \in Element \cup {NULL} :
        ResizeEx(n, e) => Deque!ResizeEx(n, e)
  BY ResizeMaps
<1> QED BY <1>1, <1>2, <1>3, PopBackMaps, PopFrontMaps, ClearMaps DEF CallsMap

\* The list implements ElementDeque: seen through its items from the head on,
\* each of its steps is one of a sequence that grows and shrinks at both ends,
\* in which elements that leave are destroyed once and a refused call changes
\* nothing.
THEOREM ListImplementsDeque == Spec => ImplementsDeque
<1>1. ListInv /\ [Next]_vars => [Deque!Next]_Deque!vars
  BY StepMaps
<1> QED BY ListInvHolds, InitMaps, <1>1, PTL DEF Spec, ImplementsDeque, Deque!Spec

\* Each call of the list does what its namesake of ElementDeque does: at its
\* end of the sequence, with its answer, destroying what leaves.
THEOREM ListCallsAreDequeCalls == Spec => CallsImplement
<1>1. ListInv => [CallsMap]_vars
  BY CallMaps
<1> QED BY ListInvHolds, <1>1, PTL DEF Spec, CallsImplement, CallsMap
=============================================================================
