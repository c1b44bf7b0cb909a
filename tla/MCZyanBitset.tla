---------------------------- MODULE MCZyanBitset ----------------------------
(* Instances of ZyanBitset small enough for TLC; the .cfg files choose. *)
EXTENDS ZyanBitsetCount

\* The ends of both bytes, and one past the last bit
Edges == {0, 7, 8, 9}
\* No bits, a part of a byte, a byte, and a byte and a part of one
WholeOrPart == {0, 4, 8, 9}
HeapOrByte == {Dynamic, 0, 1}
Masks == {[size |-> 3, bytes |-> <<{7, 5, 2}>>],
          [size |-> 10, bytes |-> <<{6, 4, 3, 0}, {7, 3}>>]}
=============================================================================
