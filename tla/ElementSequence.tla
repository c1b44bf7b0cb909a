-------------------------- MODULE ElementSequence --------------------------
(***************************************************************************)
(* What a vector promises, call by call: a sequence of elements that calls *)
(* splice, where every element that leaves is handed to the destructor,    *)
(* exactly once and in order, and a call that is refused changes nothing.  *)
(* There is no memory here, no capacity and no policy: a call that adds    *)
(* elements may find no room.  Indices count from zero.                    *)
(*                                                                         *)
(* Two promises are as weak as the code makes them.  A constructor that    *)
(* fails leaves a sequence of the old length whose elements from the index *)
(* on are moved up (EmplaceEx).  Where the allocator can fail, a call that *)
(* removes elements can fail late: DeleteRange and PopBack then have       *)
(* removed them, ResizeEx has destroyed but not removed them.              *)
(***************************************************************************)
EXTENDS Integers, Sequences

CONSTANTS Element, Undef, AllocatorMayFail, MaxSize

VARIABLES alive, owning, seq, destroyed, status

vars == <<alive, owning, seq, destroyed, status>>

Cell == Element \cup {Undef}
NoMemory == IF AllocatorMayFail THEN {"NOT_ENOUGH_MEMORY"} ELSE {}
NoRoom == {"INSUFFICIENT_BUFFER_SIZE"} \cup NoMemory

Init == /\ ~alive /\ ~owning /\ seq = << >> /\ destroyed = << >>
        /\ status = "SUCCESS"

\* A sequence comes to life as a copy of another one, or not at all
Duplicate(cells) ==
  /\ ~alive
  /\ \/ alive' /\ seq' = cells /\ status' = "SUCCESS"
     \/ ~alive' /\ seq' = << >> /\ status' \in {"INVALID_ARGUMENT"} \cup NoRoom
  /\ owning' \in BOOLEAN /\ destroyed' = << >>

Create == Duplicate(<< >>)

Given(cells) == IF owning THEN cells ELSE << >>

Destroy == /\ alive
           /\ alive' = FALSE /\ seq' = << >> /\ destroyed' = Given(seq)
           /\ status' = "SUCCESS" /\ UNCHANGED owning

\* The sequence becomes s, the elements `gone` are destroyed
Becomes(s, gone, result) ==
  /\ alive
  /\ seq' = s /\ destroyed' = Given(gone) /\ status' = result
  /\ UNCHANGED <<alive, owning>>

Reject(results) == \E s \in results : /\ status' = s /\ destroyed' = << >>
                                      /\ UNCHANGED <<alive, owning, seq>>

\* `count` elements from `index` on are replaced by `cells`
Splice(index, count, cells) ==
  SubSeq(seq, 1, index) \o cells \o SubSeq(seq, index + count + 1, Len(seq))

InsertRange(index, cells) ==
  IF cells = << >> THEN Reject({"INVALID_ARGUMENT"})
  ELSE IF index > Len(seq) THEN Reject({"OUT_OF_RANGE"})
  ELSE \/ Becomes(Splice(index, 0, cells), << >>, "SUCCESS")
       \/ Reject(NoRoom)

PushBack(c) == InsertRange(Len(seq), <<c>>)

EmplaceEx(index, e, constructor) ==
  IF index > Len(seq) THEN Reject({"OUT_OF_RANGE"})
  ELSE \/ Reject(NoRoom)
       \/ /\ constructor = "succeeds"
          /\ Becomes(Splice(index, 0, <<e>>), << >>, "SUCCESS")
       \/ /\ constructor = "none"
          /\ \E c \in Cell : Becomes(Splice(index, 0, <<c>>), << >>, "SUCCESS")
       \/ /\ constructor = "fails"
          /\ \E c \in Cell :
               Becomes(SubSeq(Splice(index, 0, <<c>>), 1, Len(seq)),
                       << >>, "FAILED")

Set(index, e) ==
  IF index >= Len(seq) THEN Reject({"OUT_OF_RANGE"})
  ELSE Becomes(Splice(index, 1, <<e>>), <<seq[index + 1]>>, "SUCCESS")

SwapElements(i, j) ==
  IF i >= Len(seq) \/ j >= Len(seq) THEN Reject({"OUT_OF_RANGE"})
  ELSE \/ Reject(NoRoom)
       \/ Becomes([seq EXCEPT ![i + 1] = seq[j + 1], ![j + 1] = seq[i + 1]],
                  << >>, "SUCCESS")

DeleteRange(index, count) ==
  IF count = 0 THEN Reject({"INVALID_ARGUMENT"})
  ELSE IF index + count > Len(seq) THEN Reject({"OUT_OF_RANGE"})
  ELSE \E s \in {"SUCCESS"} \cup NoMemory :
         Becomes(Splice(index, count, << >>),
                 SubSeq(seq, index + 1, index + count), s)

PopBack == IF seq = << >> THEN Reject({"OUT_OF_RANGE"})
           ELSE DeleteRange(Len(seq) - 1, 1)

\* New elements are copies of the initializer, or arbitrary without one (the
\* empty sequence)
ResizeEx(n, initializer) ==
  LET gone == SubSeq(seq, n + 1, Len(seq)) IN
  \/ n = Len(seq) /\ Reject({"SUCCESS"})
  \/ n < Len(seq) /\ Becomes(SubSeq(seq, 1, n), gone, "SUCCESS")
  \/ n < Len(seq) /\ \E s \in NoMemory : Becomes(seq, gone, s)
  \/ n > Len(seq) /\ Reject(NoRoom)
  \/ /\ n > Len(seq)
     /\ Becomes(seq', << >>, "SUCCESS")
     /\ Len(seq') = n /\ SubSeq(seq', 1, Len(seq)) = seq
     /\ initializer # << >> => \A i \in (Len(seq) + 1)..n : seq'[i] = initializer

\* Calls that are about capacity only
Manage == alive /\ Reject({"SUCCESS"} \cup NoRoom)

Indices == 0..(MaxSize + 1)

Next ==
  \/ Create \/ Destroy \/ PopBack \/ Manage
  \/ \E n \in 0..2 : \E cells \in [1..n -> Element] :
       Duplicate(cells) \/ \E i \in Indices : InsertRange(i, cells)
  \/ \E i \in Indices, e \in Element : Set(i, e)
  \/ \E i \in Indices, e \in Element, c \in {"none", "succeeds", "fails"} :
       EmplaceEx(i, e, c)
  \/ \E i, j \in Indices : SwapElements(i, j) \/ DeleteRange(i, j)
  \/ \E n \in 0..MaxSize, e \in Element \cup {<< >>} : ResizeEx(n, e)

Spec == Init /\ [][Next]_vars
=============================================================================
