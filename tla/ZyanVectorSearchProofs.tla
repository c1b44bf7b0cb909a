----------------------- MODULE ZyanVectorSearchProofs -----------------------
(***************************************************************************)
(* Proofs about ZyanVectorSearch, for all vectors, elements and ranges:    *)
(* what the two searches answer is right.                                  *)
(*                                                                         *)
(* The inductive invariant says what the loops have found out so far: the  *)
(* elements in front of the first search's position differ from the one    *)
(* searched; those in front of the second's lower bound are less and those *)
(* behind its upper bound are not, the nearest of them being the match.    *)
(***************************************************************************)
EXTENDS ZyanVectorSearch, FiniteSetTheorems, TLAPS

\* The first search has passed elements that differ
Passed == pc = "find" =>
  /\ index <= l /\ l <= index + count
  /\ \A p \in index..(l - 1) : At(p) # element

\* The bounds of the second
Bounds == pc = "bisect" =>
  /\ index <= l /\ l <= h + 1 /\ h + 1 <= index + count
  /\ status \in {"TRUE", "FALSE"}

\* What it has ruled out, and what it has seen
RuledOut == pc = "bisect" /\ Sorted =>
  /\ \A p \in index..(l - 1) : At(p) < element
  /\ \A p \in (h + 1)..(index + count - 1) : At(p) >= element
Seen == pc = "bisect" /\ Sorted =>
  /\ status = "TRUE" => h + 1 < index + count /\ At(h + 1) = element
  /\ status = "FALSE" =>
       \A p \in (h + 1)..(index + count - 1) : At(p) # element

SearchInv == TypeOK /\ Passed /\ Bounds /\ RuledOut /\ Seen
               /\ FindsFirst /\ PlacesElement

-----------------------------------------------------------------------------
\* A position of the range is one of an element.
LEMMA Positions ==
  ASSUME TypeOK, pc \in {"find", "bisect"}
  PROVE  /\ Span \subseteq Nat
         /\ \A p \in Span : At(p) \in Element /\ At(p) \in Int
         /\ element \in Int
<1>1. index + count <= Len(vector) /\ index \in Nat /\ count \in Nat
  BY DEF TypeOK, size
<1>2. Span \subseteq Nat /\ \A p \in Span : p + 1 \in 1..Len(vector)
  BY <1>1 DEF Span
<1>3. \A p \in Span : At(p) \in Element
  BY <1>2 DEF TypeOK, At
<1> QED BY <1>2, <1>3, SearchAssumption DEF TypeOK

\* A call that begins leaves the invariant in place.
LEMMA Begin ==
  ASSUME SearchInv, NEW e \in Element, NEW i \in 0..(size + 1),
         NEW n \in 0..(size + 1), FindEx(e, i, n) \/ BinarySearchEx(e, i, n)
  PROVE  SearchInv'
<1> USE DEF arguments, Answer, Start, size
<1>1. TypeOK'
  BY DEF SearchInv, TypeOK, FindEx, BinarySearchEx
<1>2. Passed'
  BY DEF SearchInv, TypeOK, Passed, FindEx, BinarySearchEx
<1>3. Bounds'
  BY DEF SearchInv, TypeOK, Bounds, FindEx, BinarySearchEx
<1>4. RuledOut' /\ Seen'
  BY DEF SearchInv, TypeOK, RuledOut, Seen, FindEx, BinarySearchEx
<1>5. FindsFirst'
  BY DEF SearchInv, TypeOK, FindsFirst, Matches, Span, FindEx, BinarySearchEx
<1>6. PlacesElement'
  BY DEF SearchInv, TypeOK, PlacesElement, Matches, Span, FindEx,
         BinarySearchEx
<1> QED BY <1>1, <1>2, <1>3, <1>4, <1>5, <1>6 DEF SearchInv

\* A step of ZyanVectorFind passes an element that differs, or answers.
LEMMA FindKeeps == SearchInv /\ FindStep => SearchInv'
<1> SUFFICES ASSUME SearchInv, FindStep PROVE SearchInv'
  OBVIOUS
<1> USE DEF arguments, Answer, size
<1>1. TypeOK'
  BY DEF SearchInv, TypeOK, FindStep, Counted
<1>2. Passed'
  BY DEF SearchInv, TypeOK, Passed, FindStep, Equals, At
<1>3. Bounds' /\ RuledOut' /\ Seen' /\ PlacesElement'
  BY DEF FindStep, Bounds, RuledOut, Seen, PlacesElement
<1>4. FindsFirst'
  <2>1. CASE l >= index + count
    BY <2>1 DEF SearchInv, TypeOK, Passed, FindsFirst, FindStep, Matches,
                Span, At
  <2>2. CASE l < index + count
    BY <2>2 DEF SearchInv, TypeOK, Passed, FindsFirst, FindStep, Matches,
                Span, At, Equals
  <2> QED BY <2>1, <2>2 DEF SearchInv, TypeOK, Passed, FindStep
<1> QED BY <1>1, <1>2, <1>3, <1>4 DEF SearchInv

\* A comparison of ZyanVectorBinarySearch moves one bound past the middle.
LEMMA BisectKeeps == SearchInv /\ Bisect => SearchInv'
<1> SUFFICES ASSUME SearchInv, Bisect PROVE SearchInv'
  OBVIOUS
<1> USE DEF arguments, size
<1> DEFINE mid == l + (h - l) \div 2
           cmp == Compare(At(mid), element)
<1>1. /\ pc = "bisect" /\ l <= h
      /\ l \in Nat /\ h \in Int /\ index \in Nat /\ count \in Nat
      /\ index + count <= Len(vector)
  BY DEF SearchInv, TypeOK, Bisect
<1>2. mid \in Int /\ l <= mid /\ mid <= h
  BY <1>1, SMT
<1>3. mid \in Span
  BY <1>1, <1>2 DEF SearchInv, Bounds, Span
<1>4. /\ Span \subseteq Nat
      /\ \A p \in Span : At(p) \in Int
      /\ element \in Int
  BY <1>1, Positions DEF SearchInv
<1>5. /\ At(mid) < element  <=> cmp < 0
      /\ At(mid) = element  <=> cmp = 0
      /\ cmp < 0 => l' = mid + 1 /\ h' = h /\ status' = status
      /\ ~(cmp < 0) => /\ h' = mid - 1 /\ l' = l
                       /\ status' = IF cmp = 0 THEN "TRUE" ELSE status
      /\ UNCHANGED <<vector, element, index, count, pc, found_index>>
  BY <1>3, <1>4 DEF Bisect, Compare
<1> HIDE DEF mid, cmp
<1>6. TypeOK'
  <2>1. comparisons' \in Nat
    BY DEF SearchInv, TypeOK, Bisect, Counted
  <2> QED
    BY <1>1, <1>2, <1>3, <1>5, <2>1 DEF SearchInv, TypeOK, Span, Bisect
<1>7. Passed' /\ FindsFirst' /\ PlacesElement'
  BY <1>1, <1>5 DEF Passed, FindsFirst, PlacesElement
<1>8. Bounds'
  BY <1>1, <1>2, <1>3, <1>5 DEF SearchInv, Bounds, Span
<1>9. RuledOut' /\ Seen'
  <2> SUFFICES ASSUME Sorted PROVE RuledOut' /\ Seen'
    <3>1. Sorted' = Sorted
      BY <1>5 DEF Sorted, Span, At
    <3> QED BY <3>1 DEF RuledOut, Seen
  <2>1. /\ \A p \in index..(l - 1) : At(p) < element
        /\ \A p \in (h + 1)..(index + count - 1) : At(p) >= element
    BY <1>1 DEF SearchInv, RuledOut
  <2>2. \A p \in Span : p < mid => At(p) <= At(mid)
    BY <1>3 DEF Sorted
  <2>3. \A p \in Span : mid < p => At(mid) <= At(p)
    BY <1>3 DEF Sorted
  <2>4. index <= l /\ l <= h + 1 /\ h + 1 <= index + count
    BY <1>1 DEF SearchInv, Bounds
  <2>5. CASE cmp < 0
    <3>1. \A p \in index..mid : At(p) < element
      <4>1. \A p \in index..mid : p \in Span
        BY <1>1, <1>2, <2>4 DEF Span
      <4> QED BY <4>1, <2>2, <2>5, <1>3, <1>4, <1>5, <1>2, <1>1
    <3>2. l' = mid + 1 /\ h' = h /\ status' = status
      BY <2>5, <1>5
    <3>3. RuledOut'
      BY <3>1, <3>2, <2>1, <1>1, <1>2, <1>5 DEF RuledOut, At
    <3>4. Seen'
      BY <3>2, <1>1, <1>5 DEF SearchInv, Seen, At
    <3> QED BY <3>3, <3>4
  <2>6. CASE ~(cmp < 0)
    <3>1. \A p \in mid..(index + count - 1) : p \in Span
      BY <1>1, <1>2, <2>4 DEF Span
    <3>2. \A p \in mid..(index + count - 1) : At(p) >= element
      BY <3>1, <2>3, <2>6, <1>3, <1>4, <1>5, <1>2, <1>1
    <3>3. RuledOut'
      BY <3>2, <2>1, <2>6, <1>1, <1>2, <1>5 DEF RuledOut, At
    <3>4. CASE cmp = 0
      BY <3>3, <3>4, <2>6, <1>1, <1>2, <1>3, <1>5 DEF Seen, At, Span
    <3>5. CASE cmp # 0
      <4>1. At(mid) > element
        BY <3>5, <2>6, <1>3, <1>4, <1>5
      <4>2. \A p \in mid..(index + count - 1) : At(p) # element
        BY <4>1, <3>1, <2>3, <1>3, <1>4, <1>2, <1>1
      <4>3. status' = status
        BY <3>5, <2>6, <1>5
      <4>4. status # "TRUE"
        <5> SUFFICES ASSUME status = "TRUE" PROVE FALSE
          OBVIOUS
        <5>1. h + 1 < index + count /\ At(h + 1) = element
          BY <1>1 DEF SearchInv, Seen
        <5> QED BY <5>1, <4>2, <1>1, <1>2
      <4> QED BY <3>3, <4>2, <4>3, <4>4, <2>6, <1>1, <1>2, <1>5 DEF Seen, At
    <3> QED BY <3>3, <3>4, <3>5
  <2> QED BY <2>5, <2>6
<1> QED BY <1>6, <1>7, <1>8, <1>9 DEF SearchInv

\* Once the bounds have met, the answer is right.
LEMMA PlaceKeeps == SearchInv /\ Place => SearchInv'
<1> SUFFICES ASSUME SearchInv, Place PROVE SearchInv'
  OBVIOUS
<1> USE DEF arguments, Answer, size
<1>1. TypeOK'
  BY DEF SearchInv, TypeOK, Place
<1>2. Passed' /\ Bounds' /\ RuledOut' /\ Seen' /\ FindsFirst'
  BY DEF Passed, Bounds, RuledOut, Seen, FindsFirst, Place
<1>3. PlacesElement'
  <2> SUFFICES ASSUME Sorted PROVE PlacesElement'
    BY DEF PlacesElement, Sorted, Span, At, Place
  <2>1. /\ pc = "bisect" /\ l = h + 1
        /\ index \in Nat /\ count \in Nat /\ l \in Nat /\ h \in Int
        /\ index <= l /\ l <= index + count
        /\ status \in {"TRUE", "FALSE"}
    BY DEF SearchInv, TypeOK, Bounds, Place
  <2>2. /\ Span \subseteq Nat
        /\ \A p \in Span : At(p) \in Int
        /\ element \in Int
    BY <2>1, Positions DEF SearchInv
  <2>3. /\ \A p \in index..(l - 1) : At(p) < element
        /\ \A p \in l..(index + count - 1) : At(p) >= element
    BY <2>1 DEF SearchInv, RuledOut
  <2>4. \A p \in Span : At(p) < element <=> p < l
    BY <2>1, <2>2, <2>3 DEF Span
  <2>5. (status = "TRUE") = (Matches # {})
    <3>1. CASE status = "TRUE"
      BY <3>1, <2>1 DEF SearchInv, Seen, Matches, Span
    <3>2. CASE status = "FALSE"
      BY <3>2, <2>1, <2>2, <2>3 DEF SearchInv, Seen, Matches, Span
    <3> QED BY <2>1, <3>1, <3>2
  <2>6. /\ UNCHANGED <<vector, element, index, count>>
        /\ found_index' = l /\ status' = status
    BY DEF Place
  <2>7. Matches' = Matches /\ Span' = Span
    BY <2>6 DEF Matches, Span, At
  <2> QED BY <2>1, <2>4, <2>5, <2>6, <2>7 DEF PlacesElement, At
<1> QED BY <1>1, <1>2, <1>3 DEF SearchInv

\* Nothing is known before the first call.
LEMMA Initially == Init => SearchInv
BY SearchAssumption DEF Init, SearchInv, TypeOK, Passed, Bounds, RuledOut,
   Seen, FindsFirst, PlacesElement

\* Every step keeps the invariant.
LEMMA Inductive == SearchInv /\ [Next]_vars => SearchInv'
<1> SUFFICES ASSUME SearchInv, [Next]_vars PROVE SearchInv'
  OBVIOUS
<1>1. CASE Calls
  BY <1>1, Begin DEF Calls
<1>2. CASE Steps
  BY <1>2, FindKeeps, BisectKeeps, PlaceKeeps DEF Steps
<1>3. CASE Again
  BY <1>3 DEF Again, SearchInv, TypeOK, Passed, Bounds, RuledOut, Seen,
     FindsFirst, PlacesElement, size
<1>4. CASE UNCHANGED vars
  BY <1>4 DEF vars, SearchInv, TypeOK, Passed, Bounds, RuledOut, Seen,
     FindsFirst, PlacesElement, Sorted, Matches, Span, At, size
<1> QED BY <1>1, <1>2, <1>3, <1>4 DEF Next

-----------------------------------------------------------------------------
\* Each variable keeps its type, and the searches stay within their range.
THEOREM TypeCorrect == Spec => []TypeOK
<1>1. SearchInv => TypeOK
  BY DEF SearchInv
<1> QED BY Initially, Inductive, <1>1, PTL DEF Spec

\* ZyanVectorFind answers with the first match, whatever the vector.
THEOREM FindCorrect == Spec => []FindsFirst
<1>1. SearchInv => FindsFirst
  BY DEF SearchInv
<1> QED BY Initially, Inductive, <1>1, PTL DEF Spec

\* ZyanVectorBinarySearch answers with the place of the element, in every
\* range that is sorted, however often an element is in it.
THEOREM BinarySearchCorrect == Spec => []PlacesElement
<1>1. SearchInv => PlacesElement
  BY DEF SearchInv
<1> QED BY Initially, Inductive, <1>1, PTL DEF Spec

-----------------------------------------------------------------------------
(* How often the binary search compares                                    *)

\* The powers of two, which are known as the numbers of subsets: a set with
\* one element more has twice as many, those without the element and those
\* with it.
LEMMA SubsetsDouble ==
  ASSUME NEW A, IsFiniteSet(A), NEW x, x \notin A
  PROVE  Cardinality(SUBSET (A \cup {x})) = 2 * Cardinality(SUBSET A)
<1> DEFINE B == SUBSET A
           C == {S \cup {x} : S \in SUBSET A}
           f == [S \in B |-> S \cup {x}]
<1>1. IsFiniteSet(B)
  BY FS_SUBSET
<1>2. SUBSET (A \cup {x}) = B \cup C
  <2>1. ASSUME NEW S \in SUBSET (A \cup {x}) PROVE S \in B \cup C
    <3>1. CASE x \in S
      <4>1. S = (S \ {x}) \cup {x} /\ S \ {x} \in SUBSET A
        BY <3>1
      <4> QED BY <4>1
    <3>2. CASE x \notin S
      BY <3>2
    <3> QED BY <3>1, <3>2
  <2>2. ASSUME NEW S \in B \cup C PROVE S \in SUBSET (A \cup {x})
    OBVIOUS
  <2> QED BY <2>1, <2>2
<1>3. B \cap C = {}
  OBVIOUS
<1>4. f \in Bijection(B, C)
  <2>1. f \in [B -> C]
    OBVIOUS
  <2>2. ASSUME NEW S \in B, NEW T \in B, f[S] = f[T] PROVE S = T
    <3>1. S \cup {x} = T \cup {x} /\ x \notin S /\ x \notin T
      BY <2>2
    <3> QED BY <3>1
  <2>3. \A T \in C : \E S \in B : f[S] = T
    OBVIOUS
  <2> HIDE DEF f, B, C
  <2> QED BY <2>1, <2>2, <2>3, Zenon DEF Bijection, Injection, Surjection, IsInjective
<1> HIDE DEF f, B, C
<1>5. IsFiniteSet(C) /\ Cardinality(C) = Cardinality(B)
  BY <1>1, <1>4, FS_Bijection, Zenon DEF ExistsBijection
<1>6. Cardinality(B \cup C) = Cardinality(B) + Cardinality(C) - Cardinality(B \cap C)
  BY <1>1, <1>5, FS_Union
<1>7. Cardinality(B \cap C) = 0 /\ Cardinality(B) \in Nat
  BY <1>1, <1>3, FS_EmptySet, FS_CardinalityType
<1>8. Cardinality(B \cup C) = 2 * Cardinality(B)
  BY <1>5, <1>6, <1>7
<1> QED BY <1>2, <1>8 DEF B

LEMMA PowersOfTwo ==
  ASSUME NEW c \in Nat
  PROVE  2 ^ c \in Nat /\ 2 ^ (c + 1) = 2 * 2 ^ c
<1> DEFINE A == 1..c
           x == c + 1
           a == Cardinality(A)
           b == Cardinality(A \cup {x})
<1>1. IsFiniteSet(A) /\ a = c /\ x \notin A
  BY FS_Interval
<1> HIDE DEF A
<1>2. IsFiniteSet(A \cup {x}) /\ b = c + 1
  BY <1>1, FS_AddElement
<1>3. Cardinality(SUBSET (A \cup {x})) = 2 * Cardinality(SUBSET A)
  BY <1>1, SubsetsDouble
<1>4. Cardinality(SUBSET A) = 2 ^ a /\ Cardinality(SUBSET (A \cup {x})) = 2 ^ b
  BY <1>1, <1>2, FS_SUBSET
<1>5. Cardinality(SUBSET A) \in Nat
  BY <1>1, FS_SUBSET, FS_CardinalityType
<1> HIDE DEF a, b
<1>6. 2 ^ a = 2 ^ c /\ 2 ^ b = 2 ^ (c + 1)
  BY <1>1, <1>2, Zenon
<1> QED BY <1>3, <1>4, <1>5, <1>6

LEMMA Halved ==
  ASSUME NEW a \in Nat, NEW b \in Nat, NEW p \in Nat, NEW n \in Nat, 2 * a <= b,
         b * p <= n
  PROVE  a * (2 * p) <= n /\ a * p <= n
<1>1. a * (2 * p) = (2 * a) * p
  OBVIOUS
<1>2. \A i, j \in Nat : i <= j => i * p <= j * p
  OBVIOUS
<1>3. 2 * a \in Nat /\ a <= b /\ a * p \in Nat /\ (2 * a) * p \in Nat /\ b * p \in Nat
  OBVIOUS
<1> QED BY <1>1, <1>2, <1>3

LEMMA HalvesLeft ==
  ASSUME SearchInv, Logarithmic, Bisect
  PROVE  Logarithmic'
<1> DEFINE mid == l + (h - l) \div 2
           left == h - l + 1
           left1 == h' - l' + 1
           p == 2 ^ comparisons
<1>1. /\ pc = "bisect" /\ pc' = "bisect" /\ count' = count
      /\ l <= h /\ l \in Nat /\ h \in Int /\ comparisons \in Nat /\ count \in Nat
  BY DEF SearchInv, TypeOK, Bisect, arguments
<1>2. (l' = mid + 1 /\ h' = h) \/ (l' = l /\ h' = mid - 1)
  BY DEF Bisect
<1>3. left \in Nat /\ left1 \in Nat /\ 2 * left1 <= left
  BY <1>1, <1>2
<1>4. left * p <= count
  BY <1>1 DEF Logarithmic
<1>5. p \in Nat /\ 2 ^ (comparisons + 1) = 2 * p
  BY <1>1, PowersOfTwo
<1> HIDE DEF left, left1, p
<1>6. left1 * (2 * p) <= count /\ left1 * p <= count
  BY <1>1, <1>3, <1>4, <1>5, Halved
<1>7. comparisons' = comparisons \/ comparisons' = comparisons + 1
  BY DEF Bisect, Counted
<1>8. 2 ^ comparisons' = p \/ 2 ^ comparisons' = 2 * p
  BY <1>5, <1>7, Zenon DEF p
<1>9. left1 * 2 ^ comparisons' <= count
  BY <1>6, <1>8
<1> QED BY <1>1, <1>9 DEF Logarithmic, left1

\* A binary search halves what is left with every comparison it makes, whether
\* the range is sorted or not, and so makes logarithmically many of them.
THEOREM ComparesLogarithmically == Spec => []Logarithmic
<1>1. Init => Logarithmic
  BY DEF Init, Logarithmic
<1>2. ASSUME SearchInv, Logarithmic, [Next]_vars PROVE Logarithmic'
  <2>1. ASSUME NEW e \in Element, NEW i \in 0..(size + 1), NEW n \in 0..(size + 1),
               FindEx(e, i, n) \/ BinarySearchEx(e, i, n)
        PROVE  Logarithmic'
    <3> SUFFICES ASSUME pc' = "bisect"
                 PROVE  (h' - l' + 1) * 2 ^ comparisons' <= count'
      BY DEF Logarithmic
    <3>1. l' = i /\ h' = i + n - 1 /\ count' = n /\ comparisons' = 0
      BY <2>1 DEF FindEx, BinarySearchEx, Answer, Start
    <3>2. h' - l' + 1 = n /\ n \in Nat /\ n * 1 = n
      BY <1>2, <3>1 DEF SearchInv, TypeOK, size
    <3>3. 2 ^ comparisons' = 2 ^ 0 /\ 2 ^ 0 = 1
      <4>1. 2 ^ comparisons' = 2 ^ 0
        BY <3>1, Zenon
      <4> QED BY <4>1
    <3> QED BY <3>1, <3>2, <3>3
  <2>2. CASE FindStep
    BY <2>2 DEF FindStep, Answer, Logarithmic
  <2>3. CASE Bisect
    BY <1>2, <2>3, HalvesLeft
  <2>4. CASE Place
    BY <2>4 DEF Place, Answer, Logarithmic
  <2>5. CASE Again
    BY <2>5 DEF Again, Logarithmic
  <2>6. CASE UNCHANGED vars
    BY <1>2, <2>6 DEF vars, Logarithmic
  <2> QED BY <1>2, <2>1, <2>2, <2>3, <2>4, <2>5, <2>6 DEF Next, Calls, Steps
<1> QED BY Initially, Inductive, <1>1, <1>2, PTL DEF Spec
=============================================================================
