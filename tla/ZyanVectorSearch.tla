-------------------------- MODULE ZyanVectorSearch --------------------------
(***************************************************************************)
(* The two searches of a vector, ZyanVectorFindEx and                      *)
(* ZyanVectorBinarySearchEx (src/src/Vector.c), with the comparisons of    *)
(* Comparison.h.                                                           *)
(*                                                                         *)
(* A step of a loop is one action, for in each the callback of the user    *)
(* is called.  Positions count from 0; l and h are signed, as in the code, *)
(* since h may end up in front of the first element.                       *)
(***************************************************************************)
EXTENDS Integers, Sequences

CONSTANTS Element,            \* the values compared, as numbers
          Vectors             \* the contents of the vectors searched

ASSUME SearchAssumption == Element \subseteq Int /\ Vectors \subseteq Seq(Element)

VARIABLES vector,             \* the elements
          pc,                 \* "ready", "find", "bisect", "found", "placed"
                              \* or "refused"
          element, index, count,        \* arguments of the call
          l, h,               \* the code's i, when it is "find", is l
          status, found_index,
          comparisons         \* history: calls of the comparison

arguments == <<vector, element, index, count>>
vars == <<vector, pc, element, index, count, l, h, status, found_index,
          comparisons>>

size == Len(vector)
At(p) == vector[p + 1]

Equals(left, right) == left = right

\* Mutant: the operands of the comparison swapped
CompareSwapped(left, right) == CASE left > right -> -1
                                 [] left < right -> 1
                                 [] OTHER -> 0

Compare(left, right) == CASE left < right -> -1
                          [] left > right -> 1
                          [] OTHER -> 0

-----------------------------------------------------------------------------
Init == /\ vector \in Vectors
        /\ pc = "ready"
        /\ element \in Element /\ index = 0 /\ count = 0
        /\ l = 0 /\ h = 0
        /\ status = "FALSE" /\ found_index = -1 /\ comparisons = 0

Start(e, i, n) == /\ element' = e /\ index' = i /\ count' = n
                  /\ comparisons' = 0
                  /\ UNCHANGED vector

\* The call ends with what it has found
Answer(where, s, p) == /\ pc' = where /\ status' = s /\ found_index' = p

\* One comparison more; more than one of each element are all the same
Counted == IF comparisons > size THEN comparisons ELSE comparisons + 1

FindEx(e, i, n) ==
  /\ pc = "ready"
  /\ Start(e, i, n)
  /\ IF i + n > size \/ i = size
       THEN Answer("refused", "OUT_OF_RANGE", found_index) /\ UNCHANGED <<l, h>>
     ELSE IF n = 0 THEN Answer("found", "FALSE", -1) /\ UNCHANGED <<l, h>>
     ELSE /\ pc' = "find" /\ l' = i
          /\ UNCHANGED <<h, status, found_index>>

\* Mutant: the last element of the range is not looked at
FindStepShort ==
  /\ pc = "find"
  /\ UNCHANGED <<arguments, h>>
  /\ IF l + 1 >= index + count
       THEN Answer("found", "FALSE", -1) /\ UNCHANGED <<l, comparisons>>
     ELSE /\ comparisons' = Counted
          /\ IF Equals(At(l), element)
               THEN Answer("found", "TRUE", l) /\ UNCHANGED l
               ELSE l' = l + 1 /\ UNCHANGED <<pc, status, found_index>>

FindStep ==
  /\ pc = "find"
  /\ UNCHANGED <<arguments, h>>
  /\ IF l >= index + count
       THEN Answer("found", "FALSE", -1) /\ UNCHANGED <<l, comparisons>>
     ELSE /\ comparisons' = Counted
          /\ IF Equals(At(l), element)
               THEN Answer("found", "TRUE", l) /\ UNCHANGED l
               ELSE l' = l + 1 /\ UNCHANGED <<pc, status, found_index>>

\* Mutant: the upper bound is the end of the range
BinarySearchOver(e, i, n) ==
  /\ pc = "ready"
  /\ Start(e, i, n)
  /\ IF (i >= size /\ n > 0) \/ i + n > size
       THEN Answer("refused", "OUT_OF_RANGE", found_index) /\ UNCHANGED <<l, h>>
     ELSE IF n = 0 THEN Answer("placed", "FALSE", i) /\ UNCHANGED <<l, h>>
     ELSE /\ pc' = "bisect" /\ status' = "FALSE"
          /\ l' = i /\ h' = i + n
          /\ UNCHANGED found_index

BinarySearchEx(e, i, n) ==
  /\ pc = "ready"
  /\ Start(e, i, n)
  /\ IF (i >= size /\ n > 0) \/ i + n > size
       THEN Answer("refused", "OUT_OF_RANGE", found_index) /\ UNCHANGED <<l, h>>
     ELSE IF n = 0 THEN Answer("placed", "FALSE", i) /\ UNCHANGED <<l, h>>
     ELSE /\ pc' = "bisect" /\ status' = "FALSE"
          /\ l' = i /\ h' = i + n - 1
          /\ UNCHANGED found_index

\* Mutants: the upper half keeps its middle; the search ends when it hits;
\* the middle is taken from the wrong end
BisectKeeping ==
  LET mid == l + (h - l) \div 2
      cmp == Compare(At(mid), element)
  IN
  /\ pc = "bisect" /\ l <= h
  /\ comparisons' = Counted
  /\ IF cmp < 0 THEN l' = mid + 1 /\ UNCHANGED <<h, status>>
     ELSE /\ h' = (IF cmp > 0 THEN mid ELSE mid - 1)
          /\ status' = IF cmp = 0 THEN "TRUE" ELSE status
          /\ UNCHANGED l
  /\ UNCHANGED <<arguments, pc, found_index>>

BisectLast ==
  LET mid == l + (h - l) \div 2
      cmp == Compare(At(mid), element)
  IN
  /\ pc = "bisect" /\ l <= h
  /\ comparisons' = Counted
  /\ IF cmp <= 0 THEN l' = mid + 1 /\ UNCHANGED h
                 ELSE h' = mid - 1 /\ UNCHANGED l
  /\ status' = IF cmp = 0 THEN "TRUE" ELSE status
  /\ UNCHANGED <<arguments, pc, found_index>>

BisectLinear ==
  LET mid == l
      cmp == Compare(At(mid), element)
  IN
  /\ pc = "bisect" /\ l <= h
  /\ comparisons' = Counted
  /\ IF cmp < 0 THEN l' = mid + 1 /\ UNCHANGED <<h, status>>
     ELSE /\ h' = mid - 1
          /\ status' = IF cmp = 0 THEN "TRUE" ELSE status
          /\ UNCHANGED l
  /\ UNCHANGED <<arguments, pc, found_index>>

Bisect ==
  LET mid == l + (h - l) \div 2
      cmp == Compare(At(mid), element)
  IN
  /\ pc = "bisect" /\ l <= h
  /\ comparisons' = Counted
  /\ IF cmp < 0 THEN l' = mid + 1 /\ UNCHANGED <<h, status>>
     ELSE /\ h' = mid - 1
          /\ status' = IF cmp = 0 THEN "TRUE" ELSE status
          /\ UNCHANGED l
  /\ UNCHANGED <<arguments, pc, found_index>>

Place == /\ pc = "bisect" /\ l > h
         /\ Answer("placed", status, l)
         /\ UNCHANGED <<arguments, l, h, comparisons>>

Ended == pc \in {"found", "placed", "refused"}

\* The next call has variables of its own
Again == /\ Ended
         /\ pc' = "ready"
         /\ index' = 0 /\ count' = 0 /\ l' = 0 /\ h' = 0
         /\ status' = "FALSE" /\ found_index' = -1 /\ comparisons' = 0
         /\ UNCHANGED <<vector, element>>

Calls == \E e \in Element, i, n \in 0..(size + 1) :
           FindEx(e, i, n) \/ BinarySearchEx(e, i, n)
Steps == FindStep \/ Bisect \/ Place

Next == Calls \/ Steps \/ Again

\* A loop that has begun goes on, as the thread that called it does; nobody
\* has to call.
Spec == Init /\ [][Next]_vars /\ WF_vars(Steps)

-----------------------------------------------------------------------------
(* Properties *)

Span == index..(index + count - 1)
Sorted == \A p, q \in Span : p < q => At(p) <= At(q)
Matches == {p \in Span : At(p) = element}

\* Every variable holds a value of its type, and the bounds of the search,
\* which the middle lies between, stay within the vector.
TypeOK == /\ vector \in Seq(Element)
          /\ pc \in {"ready", "find", "bisect", "found", "placed", "refused"}
          /\ element \in Element /\ index \in Nat /\ count \in Nat
          /\ l \in Nat /\ h \in Int
          /\ status \in {"TRUE", "FALSE", "OUT_OF_RANGE"}
          /\ found_index \in Int /\ comparisons \in Nat
          /\ pc \in {"find", "bisect"} => index + count <= size
          /\ pc = "bisect" => l >= index /\ h < index + count

\* ZyanVectorFind answers with the first match of its range, and says there
\* is none only when there is none.
FindsFirst ==
  pc = "found" =>
    IF Matches = {} THEN status = "FALSE" /\ found_index = -1
    ELSE /\ status = "TRUE" /\ found_index \in Matches
         /\ \A p \in Matches : found_index <= p

\* In a sorted range, ZyanVectorBinarySearch answers with the first position
\* whose element is not less, whether there are several or none, and knows
\* whether it is a match (Vector.h:609: "contains the index of the first
\* entry larger than `element`").
PlacesElement ==
  pc = "placed" /\ Sorted =>
    /\ found_index \in index..(index + count)
    /\ \A p \in Span : At(p) < element <=> p < found_index
    /\ (status = "TRUE") = (Matches # {})

\* A binary search compares a logarithmic number of times, even when the
\* range is not sorted: each comparison halves what is left.
Logarithmic == pc = "bisect" => (h - l + 1) * 2 ^ comparisons <= count

\* A call returns, whatever the comparison says.
Returns == pc \in {"find", "bisect"} ~> Ended
=============================================================================
