---------------------------- MODULE ElementDeque ----------------------------
(***************************************************************************)
(* What a list promises, call by call: a sequence that grows and shrinks   *)
(* at both ends, where every element that leaves is handed to the          *)
(* destructor, exactly once, and a call that is refused changes nothing.   *)
(* Nodes, links and buffers are not its business.                          *)
(*                                                                         *)
(* Two promises are as weak as the code makes them.  A call that is to     *)
(* append several elements may append some and report an error (ResizeEx). *)
(* An element whose constructor fails is added all the same, with whatever *)
(* its node held (Emplace).                                                *)
(***************************************************************************)
EXTENDS Integers, SequencesExt

CONSTANTS Element, Undef, MaxSize

VARIABLES alive, owning, seq, destroyed, status

vars == <<alive, owning, seq, destroyed, status>>

Cell == Element \cup {Undef}
NoRoom == {"INSUFFICIENT_BUFFER_SIZE", "NOT_ENOUGH_MEMORY"}
Given(cells) == IF owning THEN cells ELSE << >>

Init == /\ ~alive /\ ~owning /\ seq = << >> /\ destroyed = << >>
        /\ status = "SUCCESS"

Create == /\ ~alive /\ alive' = TRUE /\ owning' \in BOOLEAN
          /\ seq' = << >> /\ destroyed' = << >> /\ status' = "SUCCESS"

Destroy == /\ alive /\ alive' = FALSE
           /\ seq' = << >> /\ destroyed' = Given(seq) /\ status' = "SUCCESS"
           /\ UNCHANGED owning

\* The list becomes s, the elements in `gone` are destroyed
Becomes(s, gone) ==
  /\ alive
  /\ status' = "SUCCESS" /\ seq' = s /\ destroyed' = Given(gone)
  /\ UNCHANGED <<alive, owning>>

Reject(results) == \E s \in results : /\ status' = s /\ destroyed' = << >>
                                      /\ UNCHANGED <<alive, owning, seq>>

PushBack(e) == Becomes(Append(seq, e), << >>) \/ Reject(NoRoom)
PushFront(e) == Becomes(<<e>> \o seq, << >>) \/ Reject(NoRoom)
EmplaceBack(e) == \E c \in {e} \cup Cell : PushBack(c)
EmplaceFront(e) == \E c \in {e} \cup Cell : PushFront(c)

PopBack == IF seq = << >> THEN Reject({"INVALID_OPERATION"})
           ELSE Becomes(Front(seq), <<Last(seq)>>)
PopFront == IF seq = << >> THEN Reject({"INVALID_OPERATION"})
            ELSE Becomes(Tail(seq), <<Head(seq)>>)

\* The element at position i is replaced
Assign(i, e) == Becomes([seq EXCEPT ![i] = e], <<seq[i]>>)

Clear == IF seq = << >> THEN Reject({"SUCCESS"}) ELSE Becomes(<< >>, seq)

\* New elements are copies of the initializer, or arbitrary without one (the
\* empty sequence)
ResizeEx(n, initializer) ==
  \/ n = Len(seq) /\ Reject({"SUCCESS"})
  \/ n < Len(seq) /\ Becomes(SubSeq(seq, 1, n),
                             Reverse(SubSeq(seq, n + 1, Len(seq))))
  \/ /\ n > Len(seq) /\ alive /\ destroyed' = << >>
     /\ UNCHANGED <<alive, owning>>
     /\ IsPrefix(seq, seq')
     /\ IF Len(seq') = n THEN status' = "SUCCESS"
                         ELSE Len(seq') < n /\ status' \in NoRoom
     /\ initializer # << >>
          => \A i \in (Len(seq) + 1)..Len(seq') : seq'[i] = initializer

\* What is emplaced may be any cell, and what a resize without an initializer
\* appends, too: these two cover the other insertions and resizes.
Next ==
  \/ Create \/ Destroy \/ Reject({"SUCCESS"})
  \/ \E c \in Cell : PushBack(c) \/ PushFront(c)
  \/ \E n \in 1..MaxSize : ResizeEx(n, << >>)
  \/ \E i \in 1..Len(seq), e \in Element : Assign(i, e)
  \/ PopBack \/ PopFront \/ Clear

Spec == Init /\ [][Next]_vars
=============================================================================
