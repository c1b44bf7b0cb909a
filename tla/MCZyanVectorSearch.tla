------------------------- MODULE MCZyanVectorSearch -------------------------
(***************************************************************************)
(* Instance of ZyanVectorSearch for TLC: every vector of up to MaxLength   *)
(* elements, sorted or not.                                                *)
(***************************************************************************)
EXTENDS ZyanVectorSearch

CONSTANT MaxLength            \* bound: elements in a vector

ShortVectors == UNION {[1..n -> Element] : n \in 0..MaxLength}
=============================================================================
