-------------------------- MODULE MCVectorExample ---------------------------
(***************************************************************************)
(* Two users of a vector, for TLC: one who makes any calls, and the        *)
(* example program.  What a vector's elements hold does not matter to the  *)
(* first, how many there are does; he stops at MaxCalled elements, where   *)
(* MaxSize lets the program go on to its 20.                               *)
(***************************************************************************)
EXTENDS VectorExample

CONSTANT MaxCalled           \* bound: elements any call may bring the vector to

TestStructs == [u32 : 0..99]
On == {TRUE}
ZeroOrTwo == {0, 2}
NoneFourFive == {0, 4, 5}
ZeroOrThree == {0, 3}

Calls == INSTANCE ZyanVector WITH Element <- {TestData(0)}, MaxSize <- MaxCalled

AnyCall == /\ step = "any"
           /\ Calls!Next
           /\ UNCHANGED <<test, step, i, value, searched, inserted>>

MemorySpec == (Begin("any") \/ Start) /\ [][AnyCall \/ Program]_allvars
=============================================================================
