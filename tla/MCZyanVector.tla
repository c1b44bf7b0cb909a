---------------------------- MODULE MCZyanVector ----------------------------
(* Instances of ZyanVector small enough for TLC; the .cfg files choose. *)
EXTENDS ZyanVector

On == {TRUE}
Nothing == {}
Zero == {0}
Two == {2}
Four == {4}
=============================================================================
