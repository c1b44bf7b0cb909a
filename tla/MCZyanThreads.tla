--------------------------- MODULE MCZyanThreads ----------------------------
(* The constants of ZyanThreads for TLC. *)
EXTENDS ZyanThreads

CONSTANTS t1, t2, t3, k1, k2

ThreeThreads == {t1, t2, t3}
TwoSlots == {k1, k2}
=============================================================================
