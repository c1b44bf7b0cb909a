--------------------------- MODULE RecursiveLock ----------------------------
(***************************************************************************)
(* What a recursive lock promises its callers, without a mutex or an       *)
(* owner: how often each has entered it.  It is made once and deleted      *)
(* once, and from the one to the other it can be entered again and again   *)
(* by whoever is in it alone.                                              *)
(***************************************************************************)
EXTENDS Integers

CONSTANT Threads

VARIABLES state,      \* "raw", "live" or "deleted"
          entered     \* the calls that let each thread in and not yet out

vars == <<state, entered>>

Alone(t) == \A u \in Threads \ {t} : entered[u] = 0

Init == state = "raw" /\ entered = [t \in Threads |-> 0]

Make == state = "raw" /\ state' = "live" /\ UNCHANGED entered

Enter(t) == /\ state = "live" /\ Alone(t)
            /\ entered' = [entered EXCEPT ![t] = @ + 1]
            /\ UNCHANGED state

Leave(t) == /\ state = "live" /\ entered[t] > 0
            /\ entered' = [entered EXCEPT ![t] = @ - 1]
            /\ UNCHANGED state

Delete == /\ state = "live" /\ \A t \in Threads : entered[t] = 0
          /\ state' = "deleted"
          /\ UNCHANGED entered

Next == Make \/ Delete \/ \E t \in Threads : Enter(t) \/ Leave(t)

Spec == Init /\ [][Next]_vars
=============================================================================
