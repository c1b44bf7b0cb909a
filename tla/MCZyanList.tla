----------------------------- MODULE MCZyanList -----------------------------
(* Instances of ZyanList small enough for TLC; the .cfg files choose. *)
EXTENDS ZyanList

Both == {"dynamic", "none"}
On == {TRUE}
TwoOrThree == {2, 3}
=============================================================================
