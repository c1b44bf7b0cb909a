-------------------------- MODULE ZyanThreadsProofs --------------------------
(***************************************************************************)
(* Mutual exclusion for any number of threads, and what it is good for,    *)
(* for any number of slots and places: the section is used only while it   *)
(* lives, the slot it protects is allocated once, no more threads store    *)
(* data than there are places, and all of it is given back when the        *)
(* threads have ended.  As its callers see it the section is a recursive   *)
(* lock, and a thread that waits for it waits for one that does not.       *)
(*                                                                         *)
(* The account of a thread can only be wrong when the section is made anew *)
(* under it, so the invariant also says that the compare-exchange lets one *)
(* thread at most initialise the section, and only while no thread is      *)
(* beyond.  Three layers stand on it: Nesting ties where a thread is to    *)
(* how often it entered; Lifetime ties the state of the section to the     *)
(* words "once" and "users"; Storing ties the slots, the values under them *)
(* and the word "stored" to where the threads are.  Made says what the     *)
(* initialisation finds and makes, on which the lock's promises rest.      *)
(***************************************************************************)
EXTENDS ZyanThreads, FiniteSetTheorems, TLAPS

Early == {"initialise", "publish", "abandon"}

\* The word "once" tells how far the initialisation is.
OnceTells ==
  /\ once \in 0 .. 3
  /\ once = 0 => \A t \in Threads : at[t] = "begin"
  /\ once = 1 => \A t \in Threads : at[t] \in Early \cup {"begin"}
  /\ once \in 2 .. 3 => \A t \in Threads : at[t] \notin Early
  /\ \A t, u \in Threads : at[t] \in Early /\ at[u] \in Early => t = u

SectionType ==
  [state : {"raw", "live", "deleted"}, recursive : BOOLEAN,
   owner : Threads \cup {NoThread}, depth : Nat]

Owner(t) == IF section.owner = t THEN section.depth ELSE 0

\* The section and the accounts of its callers agree.
Accounts ==
  /\ section \in SectionType
  /\ section.owner = NoThread <=> section.depth = 0
  /\ held \in [Threads -> Nat]
  /\ \A t \in Threads : held[t] = Owner(t)
  /\ \A t \in Threads : at[t] \in Early \cup {"begin"} => held[t] = 0

IInv == at \in [Threads -> Points] /\ OnceTells /\ Accounts

Kept(outcome, s) == outcome.section = s /\ outcome.status # "SUCCESS"

-----------------------------------------------------------------------------
(* What the calls of a section do, read off the errors of the mutex.       *)

\* Either call that enters takes the section, which was free or the caller's
\* own, and says so, or it leaves the section as it is and does not.
LEMMA Entering ==
  ASSUME NEW s \in SectionType, NEW t \in Threads,
         NEW outcome \in Enter(s, t) \cup TryEnter(s, t)
  PROVE  \/ /\ outcome.status = "SUCCESS" /\ s.owner \in {NoThread, t}
            /\ outcome.section = Taken(s, t)
         \/ Kept(outcome, s)
<1>1. ASSUME NEW o \in MutexTryLock(s, t)
      PROVE  \/ o.error = "none" /\ s.owner \in {NoThread, t} /\ o.section = Taken(s, t)
             \/ o.error \in {"EAGAIN", "EBUSY"} /\ o.section = s
  BY DEF MutexTryLock, MutexLock, Gains, Exhausted, Free, Owned, Outcome
<1>2. MutexLock(s, t) \subseteq MutexTryLock(s, t)
  BY DEF MutexTryLock
<1>3. PICK o \in MutexTryLock(s, t) :
        /\ outcome.section = o.section
        /\ outcome.status \in {EnterStatus(o.error), TryEnterStatus(o.error)}
  BY <1>2 DEF Enter, TryEnter
<1> QED
  BY <1>1, <1>3 DEF EnterStatus, TryEnterStatus, Kept

\* Only the owner leaves, and frees the section with its last call.
LEMMA Leaving ==
  ASSUME NEW s \in SectionType, NEW t \in Threads, NEW outcome \in Leave(s, t)
  PROVE  \/ /\ outcome.status = "SUCCESS" /\ s.owner = t
            /\ outcome.section = [s EXCEPT !.owner = IF s.depth = 1 THEN NoThread ELSE t, !.depth = @ - 1]
         \/ Kept(outcome, s)
  BY DEF Leave, MutexUnlock, LeaveStatus, Outcome, Kept

\* A failing initialisation leaves the section as it is, a succeeding one
\* makes a new mutex.
LEMMA Initializing ==
  ASSUME NEW s, NEW outcome \in Initialize(s)
  PROVE  \/ outcome.section = s /\ outcome.status # "SUCCESS"
         \/ /\ outcome.status = "SUCCESS"
            /\ \E recursive \in AttributeKinds : outcome.section = NewMutex(recursive)
<1>1. CASE outcome \in AttributeFails(s)
  BY <1>1 DEF AttributeFails
<1>2. ASSUME NEW recursive \in AttributeKinds, NEW o \in MutexInit(s, recursive),
             outcome = [section |-> o.section, status |-> InitializeStatus(o.error)]
      PROVE  \/ outcome.section = s /\ outcome.status # "SUCCESS"
             \/ outcome.status = "SUCCESS" /\ outcome.section = NewMutex(recursive)
  BY <1>2 DEF MutexInit, Outcome, InitializeStatus
<1>3. outcome \notin AttributeFails(s)
        => \E recursive \in AttributeKinds : \E o \in MutexInit(s, recursive) :
             outcome = [section |-> o.section, status |-> InitializeStatus(o.error)]
  BY DEF Initialize, Initializations
<1> QED
  BY <1>1, <1>2, <1>3

\* A mutex just made lives, nobody is in it, and it is recursive unless the
\* system may refuse that.
LEMMA NewMutexIs ==
  ASSUME NEW recursive \in AttributeKinds
  PROVE  LET new == NewMutex(recursive) IN
           /\ new \in SectionType /\ new.state = "live" /\ new.owner = NoThread /\ new.depth = 0
           /\ ~KindRefused => new.recursive
<1>1. recursive \in BOOLEAN /\ (~KindRefused => recursive = TRUE)
  BY DEF AttributeKinds
<1>2. PICK new : new = NewMutex(recursive)
  OBVIOUS
<1>3. ASSUME NEW kind \in {TRUE, FALSE}, recursive = kind
      PROVE  new = [state |-> "live", recursive |-> kind, owner |-> NoThread, depth |-> 0]
  <2>1. CASE kind = TRUE
    BY <1>2, <1>3, <2>1 DEF NewMutex, Raw
  <2>2. CASE kind = FALSE
    BY <1>2, <1>3, <2>2 DEF NewMutex, Raw
  <2> QED
    BY <2>1, <2>2
<1>4. ASSUME NEW kind \in {TRUE, FALSE}, recursive = kind, ~KindRefused => kind = TRUE
      PROVE  /\ new \in SectionType /\ new.state = "live" /\ new.owner = NoThread /\ new.depth = 0
             /\ ~KindRefused => new.recursive
  <2>1. new = [state |-> "live", recursive |-> kind, owner |-> NoThread, depth |-> 0]
    BY <1>3, <1>4
  <2>2. new.recursive = kind /\ kind \in BOOLEAN
    BY <2>1
  <2> QED
    BY <1>4, <2>1, <2>2 DEF SectionType
<1> QED
  BY <1>1, <1>2, <1>4

\* Deleting changes neither the owner nor the depth.
LEMMA Deleting ==
  ASSUME NEW s, NEW outcome \in Delete(s)
  PROVE  outcome.section \in {s, [s EXCEPT !.state = "deleted"]}
  BY DEF Delete, MutexDestroy, Outcome

-----------------------------------------------------------------------------
(* The invariant holds in the initial states.                              *)

LEMMA Initially == Init => IInv
<1> SUFFICES ASSUME Init PROVE IInv
  OBVIOUS
<1>1. at \in [Threads -> Points] /\ \A t \in Threads : at[t] = "begin"
  BY DEF Init, Points
<1>2. OnceTells
  BY <1>1 DEF Init, OnceTells, Early
<1>3. Accounts
  BY NoThreadAssumption DEF Init, Accounts, Owner, Raw, SectionType
<1> QED
  BY <1>1, <1>2, <1>3 DEF IInv

-----------------------------------------------------------------------------
(* Every step preserves it.                                                *)

\* Most steps move one thread among the points beyond the initialisation.
LEMMA Moving ==
  ASSUME IInv, NEW t \in Threads, NEW to \in Points \ (Early \cup {"begin"}),
         at[t] \notin Early \cup {"begin"}, at' = [at EXCEPT ![t] = to], UNCHANGED once
  PROVE  /\ at' \in [Threads -> Points]
         /\ OnceTells'
         /\ \A u \in Threads : at'[u] \in Early \cup {"begin"} => at[u] \in Early \cup {"begin"} /\ u # t
<1>1. at' \in [Threads -> Points]
  BY DEF IInv
<1>2. \A u \in Threads : at'[u] = IF u = t THEN to ELSE at[u]
  BY DEF IInv
<1>3. once \in 2 .. 3
  BY DEF IInv, OnceTells
<1>4. OnceTells'
  BY <1>2, <1>3 DEF IInv, OnceTells
<1> QED
  BY <1>1, <1>2, <1>4

\* A step that leaves the section and the accounts alone.
LEMMA Untouched ==
  ASSUME Accounts, UNCHANGED <<section, held>>,
         \A u \in Threads : at'[u] \in Early \cup {"begin"} => at[u] \in Early \cup {"begin"}
  PROVE  Accounts'
  BY DEF Accounts, Owner

LEMMA Claiming ==
  ASSUME IInv, NEW t \in Threads, ClaimOnce(t)
  PROVE  IInv'
<1> DEFINE to == CASE once = 0 -> "initialise" [] once = 2 -> "outside"
                   [] once = 3 -> "closing"    [] OTHER    -> "begin"
<1>1. /\ at[t] = "begin" /\ at' = [at EXCEPT ![t] = to] /\ UNCHANGED <<section, held>>
      /\ once' = IF once = 0 THEN 1 ELSE once
  BY DEF ClaimOnce, CompareExchange, Goes
<1>2. at' \in [Threads -> Points]
  BY <1>1 DEF IInv, Points
<1>3. \A u \in Threads : at'[u] = IF u = t THEN to ELSE at[u]
  BY <1>1 DEF IInv
<1>4. OnceTells'
  <2>1. CASE once = 0
    BY <1>1, <1>3, <2>1 DEF IInv, OnceTells, Early
  <2>2. CASE once # 0
    <3>1. to \notin Early
      BY <2>2 DEF IInv, OnceTells, Early
    <3>2. once' = once /\ once \in 1 .. 3
      BY <1>1, <2>2 DEF IInv, OnceTells
    <3>3. once = 1 => to = "begin"
      OBVIOUS
    <3> QED
      BY <1>3, <3>1, <3>2, <3>3 DEF IInv, OnceTells
  <2> QED
    BY <2>1, <2>2
<1>5. Accounts'
  <2>1. \A u \in Threads : at'[u] \in Early \cup {"begin"} => at[u] \in Early \cup {"begin"}
    BY <1>1, <1>3
  <2> QED
    BY <1>1, <2>1, Untouched DEF IInv
<1> QED
  BY <1>2, <1>4, <1>5 DEF IInv

\* Nobody is in the section when it is made: no thread is beyond.
LEMMA Making ==
  ASSUME IInv, NEW t \in Threads, InitializeSection(t)
  PROVE  IInv'
<1>1. PICK outcome \in Initialize(section) :
        /\ section' = outcome.section
        /\ Goes(t, "initialise", IF outcome.status = "SUCCESS" THEN "publish" ELSE "abandon")
        /\ UNCHANGED <<once, held>>
  BY DEF InitializeSection, words
<1>2. PICK to \in {"publish", "abandon"} :
        at[t] = "initialise" /\ at' = [at EXCEPT ![t] = to]
  BY <1>1 DEF Goes
<1>3. at' \in [Threads -> Points] /\ \A u \in Threads : at'[u] = IF u = t THEN to ELSE at[u]
  BY <1>2 DEF IInv, Points
<1>4. once = 1
  BY <1>2 DEF IInv, OnceTells, Early
<1>5. \A u \in Threads : at[u] \in Early \cup {"begin"} /\ held[u] = 0
  BY <1>4 DEF IInv, OnceTells, Accounts
<1>6. OnceTells'
  BY <1>1, <1>2, <1>3, <1>4 DEF IInv, OnceTells, Early
<1>7. section.depth = 0 /\ section.owner = NoThread
  BY <1>5 DEF IInv, Accounts, Owner, SectionType
<1>8. Accounts'
  <2>1. section' = section \/ \E recursive \in AttributeKinds : section' = NewMutex(recursive)
    BY <1>1, Initializing
  <2>2. section \in SectionType
    BY DEF IInv, Accounts
  <2>4. section' \in SectionType /\ section'.owner = NoThread /\ section'.depth = 0
    BY <1>7, <2>1, <2>2, NewMutexIs
  <2> QED
    BY <1>1, <1>5, <2>4, NoThreadAssumption DEF IInv, Accounts, Owner
<1> QED
  BY <1>3, <1>6, <1>8 DEF IInv

LEMMA Publishing ==
  ASSUME IInv, NEW t \in Threads, Publish(t)
  PROVE  IInv'
<1>1. PICK to \in {"outside", "closing"}, new \in {2, 3} :
        /\ at[t] \in {"publish", "abandon"} /\ at' = [at EXCEPT ![t] = to]
        /\ once' = IF once = 1 THEN new ELSE once
        /\ UNCHANGED <<section, held>>
  BY DEF Publish, Goes, CompareExchange
<1>2. at' \in [Threads -> Points] /\ \A u \in Threads : at'[u] = IF u = t THEN to ELSE at[u]
  BY <1>1 DEF IInv, Points
<1>3. once = 1
  BY <1>1 DEF IInv, OnceTells, Early
<1>4. \A u \in Threads : at'[u] \notin Early
  BY <1>1, <1>2 DEF IInv, OnceTells, Early
<1>5. OnceTells'
  BY <1>1, <1>3, <1>4 DEF OnceTells
<1>6. \A u \in Threads : at'[u] \in Early \cup {"begin"} => at[u] \in Early \cup {"begin"}
  BY <1>2 DEF Early
<1>7. Accounts'
  BY <1>1, <1>6, Untouched DEF IInv
<1> QED
  BY <1>2, <1>5, <1>7 DEF IInv

\* The calls that enter and leave change the account with the section.
LEMMA Counting ==
  ASSUME IInv, NEW t \in Threads, TryEnterSection(t) \/ EnterSection(t) \/ LeaveSection(t)
  PROVE  IInv'
<1>1. PICK to \in Points \ (Early \cup {"begin"}) :
        at[t] \notin Early \cup {"begin"} /\ at' = [at EXCEPT ![t] = to] /\ UNCHANGED once
  <2>1. CASE TryEnterSection(t)
    BY <2>1 DEF TryEnterSection, Points, Early, words
  <2>2. CASE EnterSection(t)
    BY <2>2 DEF EnterSection, Goes, Points, Early, words
  <2>3. CASE LeaveSection(t)
    BY <2>3 DEF LeaveSection, Points, Early, words
  <2> QED
    BY <2>1, <2>2, <2>3
<1>2. /\ at' \in [Threads -> Points] /\ OnceTells'
      /\ \A u \in Threads : at'[u] \in Early \cup {"begin"} => at[u] \in Early \cup {"begin"} /\ u # t
  BY <1>1, Moving
<1>3. \/ /\ section.owner \in {NoThread, t} /\ section' = Taken(section, t)
         /\ held' = [held EXCEPT ![t] = @ + 1]
      \/ /\ section.owner = t /\ held' = [held EXCEPT ![t] = @ - 1]
         /\ section' = [section EXCEPT !.owner = IF section.depth = 1 THEN NoThread ELSE t, !.depth = @ - 1]
      \/ UNCHANGED <<section, held>>
  <2>1. section \in SectionType /\ held \in [Threads -> Nat]
    BY DEF IInv, Accounts
  <2>2. CASE TryEnterSection(t) \/ EnterSection(t)
    <3>1. PICK outcome \in Enter(section, t) \cup TryEnter(section, t) :
            /\ section' = outcome.section
            /\ held' = [held EXCEPT ![t] = IF outcome.status = "SUCCESS" THEN @ + 1 ELSE @]
      BY <2>2 DEF TryEnterSection, EnterSection
    <3> QED
      BY <2>1, <3>1, Entering DEF Kept
  <2>3. CASE LeaveSection(t)
    <3>1. PICK outcome \in Leave(section, t) :
            /\ section' = outcome.section
            /\ held' = [held EXCEPT ![t] = IF outcome.status = "SUCCESS" THEN @ - 1 ELSE @]
      BY <2>3 DEF LeaveSection
    <3> QED
      BY <2>1, <3>1, Leaving DEF Kept
  <2> QED
    BY <2>2, <2>3
<1>4. /\ section \in SectionType /\ held \in [Threads -> Nat]
      /\ section.owner = NoThread <=> section.depth = 0
      /\ \A u \in Threads : held[u] = IF section.owner = u THEN section.depth ELSE 0
      /\ NoThread # t
  BY NoThreadAssumption DEF IInv, Accounts, Owner
<1>5. /\ section' \in SectionType /\ held' \in [Threads -> Nat]
      /\ section'.owner = NoThread <=> section'.depth = 0
      /\ \A u \in Threads : held'[u] = IF section'.owner = u THEN section'.depth ELSE 0
      /\ \A u \in Threads \ {t} : held'[u] = held[u]
  <2>1. CASE section.owner \in {NoThread, t} /\ section' = Taken(section, t)
               /\ held' = [held EXCEPT ![t] = @ + 1]
    <3>1. section.depth \in Nat /\ held[t] = section.depth
      BY <1>4, <2>1 DEF SectionType
    <3>2. /\ section'.owner = t /\ section'.depth = section.depth + 1 /\ section' \in SectionType
      <4>1. PICK depth \in Nat : depth = section.depth + 1
        BY <3>1
      <4>2. section' = [section EXCEPT !.owner = t, !.depth = depth]
        BY <2>1, <4>1 DEF Taken
      <4> QED
        BY <1>4, <4>1, <4>2 DEF SectionType
    <3>3. held'[t] = section.depth + 1 /\ held' \in [Threads -> Nat]
      BY <1>4, <2>1, <3>1
    <3>4. \A u \in Threads \ {t} : held'[u] = held[u] /\ held[u] = 0
      BY <1>4, <2>1, NoThreadAssumption
    <3> QED
      BY <1>4, <3>1, <3>2, <3>3, <3>4
  <2>2. CASE section.owner = t /\ held' = [held EXCEPT ![t] = @ - 1]
               /\ section' = [section EXCEPT !.owner = IF section.depth = 1 THEN NoThread ELSE t, !.depth = @ - 1]
    <3>1. section.depth \in Nat \ {0} /\ held[t] = section.depth
      BY <1>4, <2>2 DEF SectionType
    <3>2. /\ section'.owner = IF section.depth = 1 THEN NoThread ELSE t
          /\ section'.depth = section.depth - 1 /\ section' \in SectionType
      <4>1. PICK depth \in Nat : depth = section.depth - 1
        BY <3>1
      <4>2. PICK owner \in Threads \cup {NoThread} :
              owner = IF section.depth = 1 THEN NoThread ELSE t
        OBVIOUS
      <4>3. section' = [section EXCEPT !.owner = owner, !.depth = depth]
        BY <2>2, <4>1, <4>2
      <4> QED
        BY <1>4, <4>1, <4>2, <4>3 DEF SectionType
    <3>3. held'[t] = section.depth - 1 /\ held' \in [Threads -> Nat]
      BY <1>4, <2>2, <3>1
    <3>4. NoThread \notin Threads /\ \A u \in Threads \ {t} : held'[u] = held[u] /\ held[u] = 0
      BY <1>4, <2>2, NoThreadAssumption
    <3> QED
      BY <1>4, <3>2, <3>4, <3>1, <3>3
  <2>3. CASE UNCHANGED <<section, held>>
    BY <1>4, <2>3
  <2> QED
    BY <1>3, <2>1, <2>2, <2>3
<1>6. Accounts'
  BY <1>2, <1>5 DEF IInv, Accounts, Owner
<1> QED
  BY <1>2, <1>6 DEF IInv

LEMMA Removing ==
  ASSUME IInv, NEW t \in Threads, DeleteSection(t)
  PROVE  IInv'
<1>1. PICK outcome \in Delete(section) : section' = outcome.section
  BY DEF DeleteSection
<1>2. PICK to \in {"ending", "inside"} :
        at[t] \in {"deleting", "inside"} /\ at' = [at EXCEPT ![t] = to]
        /\ UNCHANGED <<once, held>>
  BY DEF DeleteSection, Goes, words
<1>3. /\ at' \in [Threads -> Points] /\ OnceTells'
      /\ \A u \in Threads : at'[u] \in Early \cup {"begin"} => at[u] \in Early \cup {"begin"}
  BY <1>2, Moving DEF Points, Early
<1>4. Accounts'
  BY <1>1, <1>2, <1>3, Deleting DEF IInv, Accounts, Owner, SectionType
<1> QED
  BY <1>3, <1>4 DEF IInv

LEMMA Working ==
  ASSUME IInv, NEW t \in Threads, Await(t) \/ Storage(t) \/ Close(t) \/ End(t)
  PROVE  IInv'
<1>1. PICK to \in Points \ (Early \cup {"begin"}) :
        /\ at[t] \notin Early \cup {"begin"} /\ at' = [at EXCEPT ![t] = to]
        /\ UNCHANGED <<once, section, held>>
  <2>1. CASE Await(t)
    BY <2>1 DEF Await, Goes, Points, Early, words
  <2>2. CASE AllocateSlot(t)
    BY <2>2 DEF AllocateSlot, Goes, Points, Early, words
  <2>3. CASE RecordSlot(t)
    BY <2>3 DEF RecordSlot, Goes, Points, Early, words
  <2>4. CASE UseSlot(t)
    BY <2>4 DEF UseSlot, Goes, Points, Early, words
  <2>5. CASE ClaimPlace(t)
    BY <2>5 DEF ClaimPlace, Goes, Points, Early
  <2>6. CASE Store(t)
    BY <2>6 DEF Store, Goes, Points, Early, words
  <2>7. CASE ReturnPlace(t)
    BY <2>7 DEF ReturnPlace, Goes, Points, Early
  <2>8. CASE Close(t)
    BY <2>8 DEF Close, Goes, Points, Early
  <2>9. CASE End(t)
    BY <2>9 DEF End, Goes, Points, Early
  <2> QED
    BY <2>1, <2>2, <2>3, <2>4, <2>5, <2>6, <2>7, <2>8, <2>9 DEF Storage
<1>2. /\ at' \in [Threads -> Points] /\ OnceTells'
      /\ \A u \in Threads : at'[u] \in Early \cup {"begin"} => at[u] \in Early \cup {"begin"}
  BY <1>1, Moving
<1>3. Accounts'
  BY <1>1, <1>2, Untouched DEF IInv
<1> QED
  BY <1>2, <1>3 DEF IInv

LEMMA Inductive == IInv /\ [Next]_vars => IInv'
<1> SUFFICES ASSUME IInv, [Next]_vars PROVE IInv'
  OBVIOUS
<1>1. CASE FreeSlot \/ UNCHANGED vars
  <2>1. UNCHANGED <<section, once, at, held>>
    BY <1>1 DEF FreeSlot, vars, words
  <2> QED
    BY <2>1 DEF IInv, OnceTells, Accounts, Owner
<1>2. ASSUME NEW t \in Threads, Thread(t) PROVE IInv'
  BY <1>2, Claiming, Making, Publishing, Counting, Removing, Working
  DEF Thread, Initialization, Synchronization
<1> QED
  BY <1>1, <1>2 DEF Next

-----------------------------------------------------------------------------
(* The theorem.                                                            *)

\* However the calls of any number of threads are interleaved, and whichever
\* of them fail, at most one thread is in the section, and the mutex and
\* what the calls returned to their callers agree.
THEOREM MutualExclusion == Spec => []Exclusive
<1>1. IInv => Exclusive
  BY DEF IInv, Accounts, Owner, Exclusive
<1> QED
  BY Initially, Inductive, <1>1, PTL DEF Spec

-----------------------------------------------------------------------------
(* The life of the section and of the storage *)

Inner == {"inside", "record", "claim", "store", "unclaim", "leaving"}

\* A thread knows from where it is whether it has entered.
Nesting ==
  /\ section.depth <= MaxRecursion
  /\ \A t \in Threads :
       /\ held[t] <= MaxNest
       /\ at[t] \in Inner => held[t] > 0
       /\ at[t] = "waiting" => held[t] < MaxNest
       /\ at[t] \notin Inner \cup {"waiting"} => held[t] = 0

Closed == {"deleting", "ending", "done"}

Open == {t \in Threads : at[t] \notin Closed}

\* The section lives from its initialisation to the last thread's deletion.
Lifetime ==
  /\ users = Cardinality(Open)
  /\ \A t \in Threads :
       /\ at[t] \in Inner \cup {"outside", "waiting", "deleting"} => once = 2
       /\ at[t] = "deleting" => Open = {}
       /\ at[t] = "publish" => section.state = "live"
  /\ once = 2 /\ Open # {} => section.state = "live"
  /\ section.state = "live"
       => \/ \E t \in Threads : at[t] = "publish"
          \/ once = 2 /\ (Open # {} \/ \E t \in Threads : at[t] = "deleting")

\* The threads that have stored data, and those that hold a place for it.
Data == {t \in Threads : \E k \in Slots : tls.values[t][k] # Null}

Holders == Data \cup {t \in Threads : at[t] \in {"store", "unclaim"}}

SlotsType ==
  /\ tls \in Storages(Threads)
  /\ index \in Slots \cup {Null}
  /\ slot \in [Threads -> Slots \cup {Null}]

\* A slot in use is the recorded one, or one thread is about to record it.
OneSlot ==
  /\ \A k \in Slots : tls.slots[k] # "free"
                        => k = index \/ \E t \in Threads : at[t] = "record" /\ slot[t] = k
  /\ index # Null => tls.slots[index] = "finalised"
  /\ \A t \in Threads :
       /\ at[t] = "record" => index = Null /\ slot[t] \in Slots /\ tls.slots[slot[t]] = "finalised"
       /\ at[t] \in {"claim", "store", "unclaim"} => index # Null

\* Data lies under the recorded slot, and only of threads on their way out.
OwnData ==
  \A t \in Threads, k \in Slots :
    tls.values[t][k] # Null
      => /\ tls.values[t][k] = t /\ k = index
         /\ at[t] \in {"leaving", "closing", "deleting", "ending"}

\* The word "stored" counts the places held, without ever wrapping around.
PlacesHeld ==
  /\ stored = Cardinality(Holders)
  /\ Cardinality(Data) <= Places
  /\ \A t \in Threads : at[t] = "store" => stored <= Places

Finalised ==
  /\ finalised \in [Threads -> 0 .. 1]
  /\ \A t \in Threads : at[t] # "done" => finalised[t] = 0

Storing == SlotsType /\ OneSlot /\ OwnData /\ PlacesHeld /\ Finalised

LifeInv == IInv /\ Nesting /\ Lifetime /\ Storing

-----------------------------------------------------------------------------
(* Nesting.                                                                *)

\* A section is taken no deeper than the mutex allows, and the call that may
\* block is only refused to the owner.
LEMMA Deepening ==
  ASSUME NEW s \in SectionType, NEW t \in Threads, s.depth <= MaxRecursion,
         s.owner = NoThread => s.depth = 0
  PROVE  /\ \A o \in Enter(s, t) \cup TryEnter(s, t) :
              o.status = "SUCCESS" => s.depth < MaxRecursion
         /\ \A o \in Enter(s, t) : o.status # "SUCCESS" => s.owner = t
<1>1. \A o \in MutexLock(s, t) : \/ o.error = "none" /\ s.depth < MaxRecursion
                                 \/ o.error = "EAGAIN" /\ s.owner = t
  BY MaxRecursionAssumption DEF MutexLock, Gains, Exhausted, Free, Owned, Outcome, SectionType
<1>2. \A o \in MutexTryLock(s, t) : o.error = "none" => s.depth < MaxRecursion
  BY <1>1 DEF MutexTryLock, Outcome
<1> QED
  BY <1>1, <1>2 DEF Enter, TryEnter, EnterStatus, TryEnterStatus

LEMMA NestingInitially == Init => Nesting
  BY MaxRecursionAssumption, NestAssumption DEF Init, Nesting, Inner, Raw

\* In every step but those that enter and leave the accounts stay as they are.
LEMMA NestingKept ==
  ASSUME IInv, Nesting, NEW t \in Threads, NEW to \in Points,
         at' = [at EXCEPT ![t] = to], UNCHANGED held,
         section'.depth <= MaxRecursion,
         to \in Inner <=> at[t] \in Inner, to # "waiting", at[t] # "waiting"
  PROVE  Nesting'
  BY DEF IInv, Nesting

LEMMA NestingStep == IInv /\ Nesting /\ [Next]_vars => Nesting'
<1> SUFFICES ASSUME IInv, Nesting, [Next]_vars PROVE Nesting'
  OBVIOUS
<1>1. CASE FreeSlot \/ UNCHANGED vars
  BY <1>1 DEF FreeSlot, vars, Nesting
<1>2. ASSUME NEW t \in Threads, Thread(t) PROVE Nesting'
  <2> USE DEF Inner
  <2>1. /\ section \in SectionType /\ section.depth <= MaxRecursion /\ section.depth \in Nat
        /\ held \in [Threads -> Nat] /\ held[t] = IF section.owner = t THEN section.depth ELSE 0
        /\ section.owner = NoThread <=> section.depth = 0
        /\ at \in [Threads -> Points]
    BY DEF IInv, Accounts, SectionType, Nesting, Owner
  <2>2. CASE ClaimOnce(t)
    <3>1. PICK to \in {"initialise", "outside", "closing", "begin"} :
            at[t] = "begin" /\ at' = [at EXCEPT ![t] = to] /\ UNCHANGED <<held, section>>
      <4>1. (CASE once = 0 -> "initialise" [] once = 2 -> "outside" [] once = 3 -> "closing" [] OTHER -> "begin")
              \in {"initialise", "outside", "closing", "begin"}
        OBVIOUS
      <4> QED
        BY <2>2, <4>1 DEF ClaimOnce, CompareExchange, Goes
    <3> QED
      BY <2>1, <3>1, NestingKept DEF Points
  <2>3. CASE InitializeSection(t)
    <3>1. PICK to \in {"publish", "abandon"} :
            at[t] = "initialise" /\ at' = [at EXCEPT ![t] = to] /\ UNCHANGED held
      BY <2>3 DEF InitializeSection, Goes
    <3>2. section' = section \/ section'.depth = 0
      BY <2>3, Initializing, NewMutexIs DEF InitializeSection
    <3>3. section'.depth <= MaxRecursion
      BY <2>1, <3>2, MaxRecursionAssumption
    <3> QED
      BY <3>1, <3>3, NestingKept DEF Points
  <2>4. CASE Publish(t)
    <3>1. PICK to \in {"outside", "closing"} :
            at[t] \in {"publish", "abandon"} /\ at' = [at EXCEPT ![t] = to] /\ UNCHANGED <<held, section>>
      BY <2>4 DEF Publish, Goes
    <3> QED
      BY <2>1, <3>1, NestingKept DEF Points
  <2>5. CASE TryEnterSection(t)
    <3>1. PICK outcome \in TryEnter(section, t) :
            /\ section' = outcome.section
            /\ held' = [held EXCEPT ![t] = IF outcome.status = "SUCCESS" THEN @ + 1 ELSE @]
            /\ at' = [at EXCEPT ![t] = IF outcome.status = "SUCCESS" THEN "inside" ELSE @]
      BY <2>5 DEF TryEnterSection
    <3>2. held[t] < MaxNest
      BY <2>5 DEF TryEnterSection
    <3>3. CASE outcome.status = "SUCCESS"
      <4>1. section' = Taken(section, t) /\ section.depth < MaxRecursion
        BY <2>1, <3>1, <3>3, Entering, Deepening DEF Kept
      <4>2. section'.depth = section.depth + 1
        BY <2>1, <4>1 DEF Taken, SectionType
      <4> QED
        BY <2>1, <3>1, <3>2, <3>3, <4>1, <4>2, NestAssumption, MaxRecursionAssumption DEF Nesting
    <3>4. CASE outcome.status # "SUCCESS"
      <4>1. UNCHANGED <<section, held, at>>
        BY <2>1, <3>1, <3>4, Entering DEF Kept
      <4> QED
        BY <4>1 DEF Nesting
    <3> QED
      BY <3>3, <3>4
  <2>6. CASE Await(t)
    BY <2>1, <2>6 DEF Await, Goes, Nesting
  <2>7. CASE EnterSection(t)
    <3>1. PICK outcome \in Enter(section, t) :
            /\ section' = outcome.section
            /\ held' = [held EXCEPT ![t] = IF outcome.status = "SUCCESS" THEN @ + 1 ELSE @]
            /\ at[t] = "waiting"
            /\ at' = [at EXCEPT ![t] = IF outcome.status = "SUCCESS" THEN "inside" ELSE "leaving"]
      BY <2>7 DEF EnterSection, Goes
    <3>2. held[t] < MaxNest
      BY <3>1 DEF Nesting
    <3>3. CASE outcome.status = "SUCCESS"
      <4>1. section' = Taken(section, t) /\ section.depth < MaxRecursion
        BY <2>1, <3>1, <3>3, Entering, Deepening DEF Kept
      <4>2. section'.depth = section.depth + 1
        BY <2>1, <4>1 DEF Taken, SectionType
      <4> QED
        BY <2>1, <3>1, <3>2, <3>3, <4>1, <4>2, NestAssumption, MaxRecursionAssumption DEF Nesting
    <3>4. CASE outcome.status # "SUCCESS"
      <4>1. UNCHANGED <<section, held>> /\ section.owner = t
        BY <2>1, <3>1, <3>4, Entering, Deepening DEF Kept
      <4>2. held[t] > 0 /\ at' = [at EXCEPT ![t] = "leaving"]
        BY <2>1, <3>1, <3>4, <4>1, NoThreadAssumption
      <4> QED
        BY <2>1, <4>1, <4>2 DEF Nesting
    <3> QED
      BY <3>3, <3>4
  <2>8. CASE LeaveSection(t)
    <3>1. PICK outcome \in Leave(section, t) :
            /\ section' = outcome.section
            /\ held' = [held EXCEPT ![t] = IF outcome.status = "SUCCESS" THEN @ - 1 ELSE @]
            /\ at[t] \in {"leaving", "outside"}
            /\ at' = [at EXCEPT ![t] = IF @ = "leaving" /\ outcome.status = "SUCCESS" /\ held[t] = 1
                                       THEN "closing" ELSE @]
      BY <2>8 DEF LeaveSection
    <3>2. CASE outcome.status = "SUCCESS"
      <4>1. section.owner = t /\ section'.depth = section.depth - 1
        <5>1. /\ section.owner = t
              /\ section' = [section EXCEPT !.owner = IF section.depth = 1 THEN NoThread ELSE t, !.depth = @ - 1]
          <6>1. \/ /\ outcome.status = "SUCCESS" /\ section.owner = t
                   /\ outcome.section = [section EXCEPT !.owner = IF section.depth = 1 THEN NoThread ELSE t, !.depth = @ - 1]
                \/ Kept(outcome, section)
            BY <2>1, Leaving
          <6> QED
            BY <3>1, <3>2, <6>1 DEF Kept
        <5> QED
          BY <2>1, <5>1 DEF SectionType
      <4>2. held[t] = section.depth /\ held[t] > 0 /\ at[t] = "leaving"
        BY <2>1, <3>1, <4>1, NoThreadAssumption DEF Nesting
      <4>3. held'[t] = held[t] - 1 /\ \A u \in Threads \ {t} : held'[u] = held[u] /\ at'[u] = at[u]
        BY <2>1, <3>1, <3>2
      <4>4. at'[t] = IF held[t] = 1 THEN "closing" ELSE "leaving"
        BY <2>1, <3>1, <3>2, <4>2
      <4> QED
        BY <2>1, <4>1, <4>2, <4>3, <4>4, NestAssumption, MaxRecursionAssumption DEF Nesting
    <3>3. CASE outcome.status # "SUCCESS"
      <4>1. UNCHANGED <<section, held, at>>
        BY <2>1, <3>1, <3>3, Leaving DEF Kept
      <4> QED
        BY <4>1 DEF Nesting
    <3> QED
      BY <3>2, <3>3
  <2>9. CASE DeleteSection(t)
    <3>1. PICK to \in {"ending", "inside"} :
            /\ at[t] = (IF to = "ending" THEN "deleting" ELSE "inside")
            /\ at' = [at EXCEPT ![t] = to] /\ UNCHANGED held
      BY <2>9 DEF DeleteSection, Goes
    <3>2. section'.depth = section.depth
      BY <2>1, <2>9, Deleting DEF DeleteSection, SectionType
    <3> QED
      BY <2>1, <3>1, <3>2, NestingKept DEF Points
  <2>10. CASE Storage(t)
    <3>1. PICK to \in Inner : at[t] \in Inner /\ at' = [at EXCEPT ![t] = to] /\ UNCHANGED <<held, section>>
      BY <2>10 DEF Storage, AllocateSlot, RecordSlot, UseSlot, ClaimPlace, Store, ReturnPlace, Goes, words
    <3> QED
      BY <2>1, <3>1, NestingKept DEF Points
  <2>11. CASE Close(t) \/ End(t)
    <3>1. PICK to \in {"deleting", "ending", "done"} :
            at[t] \in {"closing", "ending"} /\ at' = [at EXCEPT ![t] = to] /\ UNCHANGED <<held, section>>
      BY <2>11 DEF Close, End, Goes
    <3> QED
      BY <2>1, <3>1, NestingKept DEF Points
  <2> QED
    BY <1>2, <2>2, <2>3, <2>4, <2>5, <2>6, <2>7, <2>8, <2>9, <2>10, <2>11
    DEF Thread, Initialization, Synchronization
<1> QED
  BY <1>1, <1>2 DEF Next

-----------------------------------------------------------------------------
(* Lifetime.                                                               *)

\* The words never wrap around: they count threads, fewer than a word can.
LEMMA WordIsItself == \A n \in 0 .. Word - 1 : n % Word = n
  BY WordAssumption

LEMMA Counted ==
  ASSUME NEW S \in SUBSET Threads
  PROVE  /\ IsFiniteSet(S) /\ Cardinality(S) \in 0 .. Word - 1 /\ (Cardinality(S) = 0 <=> S = {})
         /\ \A t \in Threads \ S : Increment(Cardinality(S)).value = Cardinality(S \cup {t})
         /\ \A t \in S : Decrement(Cardinality(S)).value = Cardinality(S \ {t})
<1>1. \A T \in SUBSET Threads : IsFiniteSet(T) /\ Cardinality(T) \in 0 .. Word - 1
  BY ThreadsAssumption, FS_Subset, FS_CardinalityType, WordAssumption
<1>2. Cardinality(S) = 0 <=> S = {}
  BY <1>1, FS_EmptySet
<1>3. ASSUME NEW t \in Threads \ S
      PROVE  Increment(Cardinality(S)).value = Cardinality(S \cup {t})
  <2>1. Cardinality(S \cup {t}) = Cardinality(S) + 1
    BY <1>1, <1>3, FS_AddElement
  <2>2. S \cup {t} \in SUBSET Threads
    OBVIOUS
  <2> QED
    BY <1>1, <2>1, <2>2, WordIsItself DEF Increment
<1>4. ASSUME NEW t \in S
      PROVE  Decrement(Cardinality(S)).value = Cardinality(S \ {t})
  <2>1. Cardinality(S \ {t}) = Cardinality(S) - 1
    BY <1>1, <1>4, FS_RemoveElement
  <2>2. S \ {t} \in SUBSET Threads
    OBVIOUS
  <2> QED
    BY <1>1, <2>1, <2>2, WordIsItself DEF Decrement
<1> QED
  BY <1>1, <1>2, <1>3, <1>4

LEMMA LifetimeInitially == Init => Lifetime
<1> SUFFICES ASSUME Init PROVE Lifetime
  OBVIOUS
<1>1. \A t \in Threads : at[t] = "begin"
  BY DEF Init
<1>2. Open = Threads
  BY <1>1 DEF Open, Closed
<1> QED
  BY <1>1, <1>2 DEF Init, Lifetime, Inner, Raw

\* A step of a thread that neither comes to the section's beginning nor to its
\* end, and leaves its state alone.
LEMMA LifetimeKept ==
  ASSUME IInv, Lifetime, NEW t \in Threads, NEW to \in Points \ (Closed \cup {"publish"}),
         at' = [at EXCEPT ![t] = to], at[t] \notin Closed \cup {"publish"},
         to \in Inner \cup {"outside", "waiting"} => once = 2,
         UNCHANGED <<once, users>>, section'.state = section.state
  PROVE  Lifetime'
<1>1. \A u \in Threads : at'[u] = IF u = t THEN to ELSE at[u]
  BY DEF IInv
<1>2. Open' = Open
  BY <1>1 DEF Open
<1> QED
  BY <1>1, <1>2 DEF Lifetime, Closed

\* Entering and leaving do not change the state of the section.
LEMMA StateKept ==
  ASSUME IInv, NEW t \in Threads, TryEnterSection(t) \/ EnterSection(t) \/ LeaveSection(t)
  PROVE  section'.state = section.state
<1>1. section \in SectionType
  BY DEF IInv, Accounts
<1>2. \A new : new = Taken(section, t) => new.state = section.state
  BY <1>1 DEF Taken, SectionType
<1>3. CASE TryEnterSection(t) \/ EnterSection(t)
  <2>1. section' = Taken(section, t) \/ section' = section
    BY <1>1, <1>3, Entering DEF TryEnterSection, EnterSection, Kept
  <2> QED
    BY <1>2, <2>1
<1>4. CASE LeaveSection(t)
  <2>1. PICK outcome \in Leave(section, t) : section' = outcome.section
    BY <1>4 DEF LeaveSection
  <2>2. \/ section' = [section EXCEPT !.owner = IF section.depth = 1 THEN NoThread ELSE t, !.depth = @ - 1]
        \/ section' = section
    BY <1>1, <2>1, Leaving DEF Kept
  <2> QED
    BY <1>1, <2>2 DEF SectionType
<1> QED
  BY <1>3, <1>4

\* A section nobody is in is deleted, one that somebody is in is not.
LEMMA Deletes ==
  ASSUME NEW s \in SectionType, NEW outcome \in Delete(s)
  PROVE  IF s.owner = NoThread THEN outcome.section.state = "deleted" ELSE outcome.section = s
  BY DEF Delete, MutexDestroy, Outcome, Free, SectionType

LEMMA LifetimeStep == IInv /\ Nesting /\ Lifetime /\ [Next]_vars => Lifetime'
<1> SUFFICES ASSUME IInv, Nesting, Lifetime, [Next]_vars PROVE Lifetime'
  OBVIOUS
<1>1. CASE FreeSlot \/ UNCHANGED vars
  <2>1. UNCHANGED <<section, once, users, at>>
    BY <1>1 DEF FreeSlot, vars, words
  <2> QED
    BY <2>1 DEF Lifetime, Open
<1>2. ASSUME NEW t \in Threads, Thread(t) PROVE Lifetime'
  <2>1. at \in [Threads -> Points] /\ once \in 0 .. 3 /\ section \in SectionType
    BY DEF IInv, OnceTells, Accounts
  <2>2. CASE ClaimOnce(t)
    <3> DEFINE to == CASE once = 0 -> "initialise" [] once = 2 -> "outside"
                       [] once = 3 -> "closing"    [] OTHER    -> "begin"
    <3>1. /\ at[t] = "begin" /\ at' = [at EXCEPT ![t] = to] /\ UNCHANGED <<section, users>>
          /\ once' = IF once = 0 THEN 1 ELSE once
      BY <2>2 DEF ClaimOnce, CompareExchange, Goes
    <3>2. to \in {"initialise", "outside", "closing", "begin"} /\ (to = "outside" => once = 2)
      OBVIOUS
    <3> HIDE DEF to
    <3>3. \A u \in Threads : at'[u] = IF u = t THEN to ELSE at[u]
      BY <2>1, <3>1
    <3>4. Open' = Open
      BY <3>1, <3>2, <3>3 DEF Open, Closed
    <3>5. once = 0 => \A u \in Threads : at[u] = "begin"
      BY DEF IInv, OnceTells
    <3>6. \A u \in Threads : at'[u] \in Inner \cup {"outside", "waiting", "deleting"} => once' = 2
      BY <3>1, <3>2, <3>3, <3>5 DEF Lifetime, Inner
    <3>7. \A u \in Threads : /\ at'[u] = "publish" <=> at[u] = "publish"
                             /\ at'[u] = "deleting" <=> at[u] = "deleting"
      BY <3>1, <3>2, <3>3
    <3>8. once' = 2 <=> once = 2
      BY <2>1, <3>1
    <3> QED
      BY <3>1, <3>4, <3>6, <3>7, <3>8 DEF Lifetime
  <2>3. CASE InitializeSection(t)
    <3>1. PICK outcome \in Initialize(section) :
            /\ section' = outcome.section
            /\ at[t] = "initialise"
            /\ at' = [at EXCEPT ![t] = IF outcome.status = "SUCCESS" THEN "publish" ELSE "abandon"]
            /\ UNCHANGED <<once, users>>
      BY <2>3 DEF InitializeSection, Goes, words
    <3>2. once = 1 /\ \A u \in Threads : at[u] \in Early \cup {"begin"} /\ (u # t => at[u] = "begin")
      BY <3>1 DEF IInv, OnceTells, Early
    <3>3. section.state # "live"
      BY <3>1, <3>2 DEF Lifetime
    <3>4. /\ at'[t] \in {"publish", "abandon"}
          /\ \A u \in Threads \ {t} : at'[u] = "begin"
      BY <2>1, <3>1, <3>2
    <3>5. Open' = Open
      BY <3>2, <3>4 DEF Open, Closed, Early
    <3>6. IF at'[t] = "publish" THEN section'.state = "live" ELSE section'.state # "live"
      <4>1. CASE outcome.section = section /\ outcome.status # "SUCCESS"
        BY <2>1, <3>1, <3>3, <4>1
      <4>2. CASE /\ outcome.status = "SUCCESS"
                 /\ \E recursive \in AttributeKinds : outcome.section = NewMutex(recursive)
        <5>1. outcome.section.state = "live"
          BY <4>2, NewMutexIs
        <5> QED
          BY <2>1, <3>1, <4>2, <5>1
      <4> QED
        BY <4>1, <4>2, Initializing
    <3> QED
      BY <3>1, <3>2, <3>4, <3>5, <3>6 DEF Lifetime, Inner
  <2>4. CASE Publish(t)
    <3>1. PICK to \in {"outside", "closing"} :
            /\ at[t] = (IF to = "outside" THEN "publish" ELSE "abandon")
            /\ at' = [at EXCEPT ![t] = to] /\ UNCHANGED <<section, users>>
            /\ once' = IF once = 1 THEN (IF to = "outside" THEN 2 ELSE 3) ELSE once
      BY <2>4 DEF Publish, Goes, CompareExchange
    <3>2. once = 1 /\ \A u \in Threads : at[u] \in Early \cup {"begin"} /\ (u # t => at[u] = "begin")
      BY <3>1 DEF IInv, OnceTells, Early
    <3>3. /\ at'[t] = to
          /\ \A u \in Threads \ {t} : at'[u] = "begin"
      BY <2>1, <3>1, <3>2
    <3>4. Open' = Open
      BY <3>2, <3>3 DEF Open, Closed, Early
    <3>5. section.state = "live" <=> to = "outside"
      BY <3>1, <3>2 DEF Lifetime
    <3>6. t \in Open'
      BY <3>3 DEF Open, Closed
    <3> QED
      BY <3>1, <3>2, <3>3, <3>4, <3>5, <3>6 DEF Lifetime, Inner
  <2>5. CASE TryEnterSection(t) \/ EnterSection(t) \/ LeaveSection(t) \/ Await(t) \/ Storage(t)
    <3>1. PICK to \in Inner \cup {"outside", "waiting", "closing"} :
            /\ at[t] \in Inner \cup {"outside", "waiting"}
            /\ at' = [at EXCEPT ![t] = to] /\ UNCHANGED <<once, users>>
      <4>1. CASE TryEnterSection(t)
        BY <4>1 DEF TryEnterSection, Inner, words
      <4>2. CASE EnterSection(t)
        BY <4>2 DEF EnterSection, Goes, Inner, words
      <4>3. CASE LeaveSection(t)
        BY <4>3 DEF LeaveSection, Inner, words
      <4>4. CASE Await(t)
        BY <4>4 DEF Await, Goes, Inner, words
      <4>5. CASE Storage(t)
        BY <4>5 DEF Storage, AllocateSlot, RecordSlot, UseSlot, ClaimPlace, Store, ReturnPlace, Goes, words, Inner
      <4> QED
        BY <2>5, <4>1, <4>2, <4>3, <4>4, <4>5
    <3>2. section'.state = section.state
      <4>1. CASE Await(t) \/ Storage(t)
        BY <4>1 DEF Await, Storage, AllocateSlot, RecordSlot, UseSlot, ClaimPlace, Store, ReturnPlace
      <4> QED
        BY <2>5, <4>1, StateKept
    <3>3. once = 2
      BY <3>1 DEF Lifetime
    <3> QED
      BY <3>1, <3>2, <3>3, LifetimeKept DEF Points, Closed, Inner
  <2>6. CASE DeleteSection(t)
    <3>1. PICK outcome \in Delete(section) : section' = outcome.section
      BY <2>6 DEF DeleteSection
    <3>2. UNCHANGED <<once, users>>
      BY <2>6 DEF DeleteSection, words
    <3>3. CASE Goes(t, "inside", "inside")
      <4>1. at' = at /\ held[t] > 0
        BY <2>1, <3>3 DEF Goes, Nesting, Inner
      <4>2. section.owner # NoThread
        BY <4>1, NoThreadAssumption DEF IInv, Accounts, Owner
      <4>3. section' = section
        BY <2>1, <3>1, <4>2, Deletes
      <4> QED
        BY <3>2, <4>1, <4>3 DEF Lifetime, Open
    <3>4. CASE Goes(t, "deleting", "ending")
      <4>1. Open = {} /\ once = 2 /\ \A u \in Threads : at'[u] = IF u = t THEN "ending" ELSE at[u]
        BY <2>1, <3>4 DEF Goes, Lifetime
      <4>2. \A u \in Threads : held[u] = 0
        BY <4>1 DEF Nesting, Open, Inner, Closed
      <4>3. section.owner = NoThread
        BY <2>1, <4>2 DEF IInv, Accounts, Owner, SectionType
      <4>4. section'.state = "deleted"
        BY <2>1, <3>1, <4>3, Deletes
      <4>5. Open' = {}
        BY <4>1 DEF Open, Closed
      <4> QED
        BY <3>2, <4>1, <4>4, <4>5 DEF Lifetime, Open, Closed, Inner
    <3> QED
      BY <2>6, <3>3, <3>4 DEF DeleteSection
  <2>7. CASE Close(t)
    <3>1. PICK to \in {"deleting", "ending"} :
            /\ at[t] = "closing" /\ at' = [at EXCEPT ![t] = to]
            /\ to = "deleting" <=> Decrement(users).value = 0 /\ once = 2
            /\ users' = Decrement(users).value /\ UNCHANGED <<section, once>>
      BY <2>7 DEF Close, Goes, Decrement
    <3>2. \A u \in Threads : at'[u] = IF u = t THEN to ELSE at[u]
      BY <2>1, <3>1
    <3>3. t \in Open /\ Open' = Open \ {t} /\ Open \in SUBSET Threads
      BY <3>1, <3>2 DEF Open, Closed
    <3>4. users' = Cardinality(Open')
      BY <3>1, <3>3, Counted DEF Lifetime
    <3>5. users' = 0 <=> Open' = {}
      BY <3>3, <3>4, Counted
    <3>6. once \in 2 .. 3
      BY <3>1 DEF IInv, OnceTells, Early
    <3> QED
      BY <3>1, <3>2, <3>3, <3>4, <3>5, <3>6 DEF Lifetime, Inner
  <2>8. CASE End(t)
    <3>1. at[t] = "ending" /\ at' = [at EXCEPT ![t] = "done"] /\ UNCHANGED <<section, once, users>>
      BY <2>8 DEF End, Goes
    <3>2. \A u \in Threads : at'[u] = IF u = t THEN "done" ELSE at[u]
      BY <2>1, <3>1
    <3>3. Open' = Open
      BY <3>1, <3>2 DEF Open, Closed
    <3> QED
      BY <3>1, <3>2, <3>3 DEF Lifetime, Inner
  <2> QED
    BY <1>2, <2>2, <2>3, <2>4, <2>5, <2>6, <2>7, <2>8
    DEF Thread, Initialization, Synchronization
<1> QED
  BY <1>1, <1>2 DEF Next

-----------------------------------------------------------------------------
(* What the calls of the thread-local storage do.                          *)

\* A slot is allocated with a destructor, and null in every thread.
LEMMA Allocating ==
  ASSUME NEW s \in Storages(Threads), NEW outcome \in TlsAlloc(s)
  PROVE  \/ /\ outcome.status = "SUCCESS" /\ outcome.index \in Slots
            /\ s.slots[outcome.index] = "free"
            /\ outcome.storage \in Storages(Threads)
            /\ outcome.storage.slots = [s.slots EXCEPT ![outcome.index] = "finalised"]
            /\ \A t \in Threads, k \in Slots :
                 outcome.storage.values[t][k] = IF k = outcome.index THEN Null ELSE s.values[t][k]
         \/ outcome.status # "SUCCESS" /\ outcome.index = Null /\ outcome.storage = s
<1>1. PICK created \in KeyCreate(s, "finalised") :
        /\ outcome.storage = created.storage /\ outcome.index = created.index
        /\ outcome.status = AllocStatus(created.error)
  BY DEF TlsAlloc, Allocations
<1>2. CASE created.error # "none"
  BY <1>1, <1>2 DEF KeyCreate, AllocStatus
<1>3. CASE created.error = "none"
  <2>1. PICK k \in Slots :
          /\ s.slots[k] = "free" /\ created.index = k
          /\ created.storage = [slots  |-> [s.slots EXCEPT ![k] = "finalised"],
                                values |-> [t \in Threads |-> [s.values[t] EXCEPT ![k] = Null]]]
    <3>1. created \in {[storage |-> [slots  |-> [s.slots EXCEPT ![k] = "finalised"],
                                      values |-> [t \in Threads |-> [s.values[t] EXCEPT ![k] = Null]]],
                        index |-> k, error |-> "none"] : k \in {k \in Slots : s.slots[k] = "free"}}
      BY <1>3 DEF KeyCreate
    <3>2. PICK k \in Slots :
            /\ s.slots[k] = "free"
            /\ created = [storage |-> [slots  |-> [s.slots EXCEPT ![k] = "finalised"],
                                      values |-> [t \in Threads |-> [s.values[t] EXCEPT ![k] = Null]]],
                         index |-> k, error |-> "none"]
      BY <3>1, Zenon
    <3>3. created.index = k
      BY <3>2
    <3>4. created.storage = [slots  |-> [s.slots EXCEPT ![k] = "finalised"],
                             values |-> [t \in Threads |-> [s.values[t] EXCEPT ![k] = Null]]]
      BY <3>2, Zenon
    <3> QED
      BY <3>2, <3>3, <3>4
  <2>2. s.slots \in [Slots -> {"free", "plain", "finalised"}]
        /\ s.values \in [Threads -> [Slots -> Threads \cup {Null}]]
    BY DEF Storages
  <2>3. [s.slots EXCEPT ![k] = "finalised"] \in [Slots -> {"free", "plain", "finalised"}]
    BY <2>2
  <2>4. [t \in Threads |-> [s.values[t] EXCEPT ![k] = Null]] \in [Threads -> [Slots -> Threads \cup {Null}]]
    BY <2>2
  <2>5. created.storage \in Storages(Threads)
    BY <2>1, <2>3, <2>4 DEF Storages
  <2>6. \A t \in Threads, j \in Slots :
          created.storage.values[t][j] = IF j = k THEN Null ELSE s.values[t][j]
    BY <2>1, <2>2
  <2> QED
    BY <1>1, <1>3, <2>1, <2>5, <2>6 DEF AllocStatus
<1> QED
  BY <1>2, <1>3

\* Under a slot in use a thread stores its value or, when memory is short, nothing.
LEMMA Setting ==
  ASSUME NEW s \in Storages(Threads), NEW t \in Threads, NEW k \in Slots, s.slots[k] # "free",
         NEW outcome \in TlsSetValue(s, t, k, t)
  PROVE  \/ /\ outcome.status = "SUCCESS"
            /\ outcome.storage \in Storages(Threads) /\ outcome.storage.slots = s.slots
            /\ \A u \in Threads, j \in Slots :
                 outcome.storage.values[u][j] = IF u = t /\ j = k THEN t ELSE s.values[u][j]
         \/ outcome.status # "SUCCESS" /\ outcome.storage = s
<1>1. PICK set \in KeySet(s, t, k, t) :
        outcome.storage = set.storage /\ outcome.status = SetStatus(set.error)
  BY DEF TlsSetValue
<1>2. s.values \in [Threads -> [Slots -> Threads \cup {Null}]] /\ DOMAIN s = {"slots", "values"}
      /\ s.slots \in [Slots -> {"free", "plain", "finalised"}]
      /\ s = [slots |-> s.slots, values |-> s.values]
  BY DEF Storages
<1>3. CASE set.error # "none"
  BY <1>1, <1>3 DEF KeySet, SetStatus
<1>4. CASE set.error = "none"
  <2>1. set.storage = [s EXCEPT !.values[t][k] = t]
    BY <1>4 DEF KeySet
  <2>2. set.storage = [slots |-> s.slots, values |-> [s.values EXCEPT ![t][k] = t]]
    BY <1>2, <2>1
  <2>3. [s.values EXCEPT ![t][k] = t] \in [Threads -> [Slots -> Threads \cup {Null}]]
    BY <1>2
  <2>4. set.storage \in Storages(Threads)
    BY <1>2, <2>2, <2>3 DEF Storages
  <2>5. \A u \in Threads, j \in Slots :
          set.storage.values[u][j] = IF u = t /\ j = k THEN t ELSE s.values[u][j]
    BY <1>2, <2>2
  <2> QED
    BY <1>1, <1>4, <2>2, <2>4, <2>5 DEF SetStatus
<1> QED
  BY <1>3, <1>4

\* A slot in use is freed; freeing one that is not is refused.
LEMMA Freeing ==
  ASSUME NEW s \in Storages(Threads), NEW k \in Slots, NEW outcome \in TlsFree(s, k)
  PROVE  IF s.slots[k] = "free" THEN outcome.storage = s /\ outcome.status # "SUCCESS"
         ELSE /\ outcome.status = "SUCCESS"
              /\ outcome.storage \in Storages(Threads) /\ outcome.storage.values = s.values
              /\ \A j \in Slots : outcome.storage.slots[j] = IF j = k THEN "free" ELSE s.slots[j]
<1>1. /\ s.values \in [Threads -> [Slots -> Threads \cup {Null}]]
      /\ s.slots \in [Slots -> {"free", "plain", "finalised"}]
      /\ s = [slots |-> s.slots, values |-> s.values]
  BY DEF Storages
<1>2. CASE s.slots[k] = "free"
  BY <1>2 DEF TlsFree, KeyDelete, FreeStatus
<1>3. CASE s.slots[k] # "free"
  <2>1. PICK free : free = outcome.storage
    OBVIOUS
  <2>2. outcome.status = "SUCCESS" /\ free = [s EXCEPT !.slots[k] = "free"]
    BY <1>3, <2>1 DEF TlsFree, KeyDelete, FreeStatus
  <2>3. DOMAIN s = {"slots", "values"}
    BY DEF Storages
  <2>4. free = [slots |-> [s.slots EXCEPT ![k] = "free"], values |-> s.values]
    BY <1>1, <2>2, <2>3
  <2>5. [s.slots EXCEPT ![k] = "free"] \in [Slots -> {"free", "plain", "finalised"}]
    BY <1>1
  <2> QED
    BY <1>1, <1>3, <2>1, <2>2, <2>4, <2>5 DEF Storages
<1> QED
  BY <1>2, <1>3

LEMMA Ending ==
  ASSUME NEW s \in Storages(Threads), NEW t \in Threads
  PROVE  /\ Ended(s, t) \in Storages(Threads) /\ Ended(s, t).slots = s.slots
         /\ \A u \in Threads, k \in Slots :
              Ended(s, t).values[u][k] = IF u = t THEN Null ELSE s.values[u][k]
<1>1. /\ s.values \in [Threads -> [Slots -> Threads \cup {Null}]]
      /\ s.slots \in [Slots -> {"free", "plain", "finalised"}]
      /\ s = [slots |-> s.slots, values |-> s.values]
  BY DEF Storages
<1>2. PICK ended, nothing : ended = Ended(s, t) /\ nothing = [k \in Slots |-> Null]
  OBVIOUS
<1>3. DOMAIN s = {"slots", "values"} /\ ended = [s EXCEPT !.values[t] = nothing]
  BY <1>2 DEF Ended, Storages
<1>4. ended = [slots |-> s.slots, values |-> [s.values EXCEPT ![t] = nothing]]
  BY <1>1, <1>3
<1>5. [s.values EXCEPT ![t] = nothing] \in [Threads -> [Slots -> Threads \cup {Null}]]
  BY <1>1, <1>2
<1> QED
  BY <1>1, <1>2, <1>4, <1>5 DEF Storages

-----------------------------------------------------------------------------
(* Storing.                                                                *)

\* A thread past the store, whose data may lie under the slot.
Late == {"leaving", "closing", "deleting", "ending"}

\* One thread at most is inside the section.
LEMMA Alone ==
  ASSUME IInv, Nesting, NEW t \in Threads, NEW u \in Threads, at[t] \in Inner, at[u] \in Inner
  PROVE  t = u
<1>1. held[t] > 0 /\ held[u] > 0
  BY DEF Nesting
<1> QED
  BY <1>1, NoThreadAssumption DEF IInv, Accounts, Owner

LEMMA StoringInitially == Init => Storing
<1> SUFFICES ASSUME Init PROVE Storing
  OBVIOUS
<1>1. tls \in Storages(Threads) /\ \A t \in Threads, k \in Slots : tls.values[t][k] = Null
  BY DEF Init, Fresh, Storages
<1>2. \A t \in Threads : at[t] = "begin"
  BY DEF Init
<1>3. Data = {} /\ Holders = {}
  BY <1>1, <1>2 DEF Data, Holders
<1>4. PlacesHeld
  BY <1>2, <1>3, FS_EmptySet, PlacesAssumption DEF Init, PlacesHeld
<1> QED
  BY <1>1, <1>2, <1>4 DEF Init, Fresh, Storing, SlotsType, OneSlot, OwnData, Finalised

\* Most steps leave the storage alone, and move no thread to where it matters.
LEMMA StoringKept ==
  ASSUME IInv, Storing, NEW t \in Threads, NEW to \in Points \ {"record", "store", "unclaim", "done"},
         at' = [at EXCEPT ![t] = to], at[t] \notin {"record", "store", "unclaim", "done"},
         UNCHANGED <<tls, index, slot, stored, finalised>>,
         at[t] \in Late => to \in Late, to = "claim" => index # Null
  PROVE  Storing'
<1>1. \A u \in Threads : at'[u] = IF u = t THEN to ELSE at[u]
  BY DEF IInv
<1>2. Holders' = Holders /\ Data' = Data
  BY <1>1 DEF Holders, Data
<1>3. PlacesHeld'
  BY <1>1, <1>2 DEF Storing, PlacesHeld
<1>4. OneSlot'
  BY <1>1 DEF Storing, OneSlot
<1>5. OwnData'
  BY <1>1 DEF Storing, OwnData, Late
<1> QED
  BY <1>1, <1>3, <1>4, <1>5 DEF Storing, SlotsType, Finalised

LEMMA StoringAllocation ==
  ASSUME IInv, Nesting, Storing, NEW t \in Threads, AllocateSlot(t)
  PROVE  Storing'
<1>1. PICK outcome \in TlsAlloc(tls) :
        /\ index = Null /\ tls' = outcome.storage
        /\ slot' = [slot EXCEPT ![t] = outcome.index]
        /\ at[t] = "inside"
        /\ at' = [at EXCEPT ![t] = IF outcome.status = "SUCCESS" THEN "record" ELSE "leaving"]
        /\ UNCHANGED <<index, stored, finalised>>
  BY DEF AllocateSlot, Goes, words
<1>2. /\ tls \in Storages(Threads) /\ slot \in [Threads -> Slots \cup {Null}]
      /\ at \in [Threads -> Points] /\ Null \notin Slots
  BY NoThreadAssumption DEF IInv, Storing, SlotsType
<1>3. \A u \in Threads \ {t} : at[u] \notin Inner
  BY <1>1, Alone DEF Inner
<1>4. /\ \A k \in Slots : tls.slots[k] = "free"
      /\ \A u \in Threads, k \in Slots : tls.values[u][k] = Null
  BY <1>1, <1>2, <1>3 DEF Storing, OneSlot, OwnData, Inner
<1>5. \A u \in Threads : at'[u] = IF u = t THEN IF outcome.status = "SUCCESS" THEN "record" ELSE "leaving" ELSE at[u]
  BY <1>1, <1>2
<1>6. /\ tls' \in Storages(Threads) /\ \A u \in Threads, k \in Slots : tls'.values[u][k] = Null
      /\ IF outcome.status = "SUCCESS"
         THEN /\ outcome.index \in Slots
              /\ tls'.slots = [tls.slots EXCEPT ![outcome.index] = "finalised"]
         ELSE outcome.index = Null /\ tls' = tls
  <2>1. CASE outcome.status = "SUCCESS"
    <3>1. /\ outcome.index \in Slots
          /\ tls' \in Storages(Threads)
          /\ tls'.slots = [tls.slots EXCEPT ![outcome.index] = "finalised"]
          /\ \A u \in Threads, k \in Slots :
               tls'.values[u][k] = IF k = outcome.index THEN Null ELSE tls.values[u][k]
      BY <1>1, <1>2, <2>1, Allocating, ZenonT(40)
    <3> QED
      BY <1>4, <2>1, <3>1
  <2>2. CASE outcome.status # "SUCCESS"
    <3>1. outcome.index = Null /\ tls' = tls
      BY <1>1, <1>2, <2>2, Allocating
    <3> QED
      BY <1>2, <1>4, <2>2, <3>1
  <2> QED
    BY <2>1, <2>2
<1>7. Data' = {} /\ Data = {} /\ Holders' = Holders
  BY <1>1, <1>4, <1>5, <1>6 DEF Data, Holders
<1>8. slot'[t] = outcome.index /\ slot' \in [Threads -> Slots \cup {Null}]
  BY <1>1, <1>2, <1>6
<1>9. OneSlot'
  <2>1. CASE outcome.status = "SUCCESS"
    <3>1. outcome.index \in Slots /\ tls'.slots = [tls.slots EXCEPT ![outcome.index] = "finalised"]
      BY <1>6, <2>1
    <3>2. \A k \in Slots : tls'.slots[k] = IF k = outcome.index THEN "finalised" ELSE "free"
      BY <1>2, <1>4, <3>1 DEF Storages
    <3> QED
      BY <1>1, <1>3, <1>5, <1>8, <2>1, <3>1, <3>2 DEF OneSlot, Inner
  <2>2. CASE outcome.status # "SUCCESS"
    BY <1>1, <1>2, <1>3, <1>4, <1>5, <1>6, <2>2 DEF OneSlot, Inner
  <2> QED
    BY <2>1, <2>2
<1>10. PlacesHeld'
  BY <1>1, <1>5, <1>7 DEF Storing, PlacesHeld
<1> QED
  BY <1>1, <1>5, <1>6, <1>8, <1>9, <1>10 DEF Storing, SlotsType, OwnData, Finalised

LEMMA StoringRecord ==
  ASSUME IInv, Nesting, Storing, NEW t \in Threads, RecordSlot(t)
  PROVE  Storing'
<1>1. /\ at[t] = "record" /\ at' = [at EXCEPT ![t] = "claim"] /\ index' = slot[t]
      /\ UNCHANGED <<tls, slot, stored, finalised>>
  BY DEF RecordSlot, Goes, words
<1>2. /\ tls \in Storages(Threads) /\ slot \in [Threads -> Slots \cup {Null}]
      /\ at \in [Threads -> Points] /\ Null \notin Slots
  BY NoThreadAssumption DEF IInv, Storing, SlotsType
<1>3. \A u \in Threads \ {t} : at[u] \notin Inner
  BY <1>1, Alone DEF Inner
<1>4. \A u \in Threads : at'[u] = IF u = t THEN "claim" ELSE at[u]
  BY <1>1, <1>2
<1>5. index = Null /\ slot[t] \in Slots /\ tls.slots[slot[t]] = "finalised"
      /\ \A k \in Slots : tls.slots[k] # "free" => k = slot[t]
      /\ \A u \in Threads, j \in Slots : tls.values[u][j] = Null
  BY <1>1, <1>2, <1>3 DEF Storing, OneSlot, OwnData, Inner
<1>6. Data' = Data /\ Holders' = Holders
  BY <1>1, <1>4 DEF Data, Holders
<1>7. OneSlot'
  BY <1>1, <1>2, <1>3, <1>4, <1>5 DEF OneSlot, Inner
<1>8. PlacesHeld'
  BY <1>1, <1>4, <1>6 DEF Storing, PlacesHeld
<1> QED
  BY <1>1, <1>4, <1>5, <1>7, <1>8 DEF Storing, SlotsType, OwnData, Finalised

LEMMA StoringClaim ==
  ASSUME IInv, Nesting, Storing, NEW t \in Threads, ClaimPlace(t)
  PROVE  Storing'
<1>1. PICK to \in {"store", "unclaim"} :
        /\ at[t] = "claim" /\ at' = [at EXCEPT ![t] = to]
        /\ stored' = Increment(stored).value
        /\ to = "store" <=> stored' <= Places
        /\ UNCHANGED <<tls, index, slot, finalised>>
  BY DEF ClaimPlace, Goes, Increment
<1>2. at \in [Threads -> Points]
  BY DEF IInv
<1>3. \A u \in Threads \ {t} : at[u] \notin Inner
  BY <1>1, Alone DEF Inner
<1>4. \A u \in Threads : at'[u] = IF u = t THEN to ELSE at[u]
  BY <1>1, <1>2
<1>5. t \notin Holders /\ Holders' = Holders \cup {t} /\ Data' = Data /\ Holders \in SUBSET Threads
  BY <1>1, <1>4 DEF Storing, OwnData, Holders, Data
<1>6. stored' = Cardinality(Holders')
  BY <1>1, <1>5, Counted DEF Storing, PlacesHeld
<1>7. PlacesHeld'
  BY <1>1, <1>3, <1>4, <1>5, <1>6 DEF Storing, PlacesHeld, Inner
<1>8. OneSlot'
  BY <1>1, <1>4 DEF Storing, OneSlot
<1> QED
  BY <1>1, <1>4, <1>7, <1>8 DEF Storing, SlotsType, OwnData, Finalised

LEMMA StoringData ==
  ASSUME IInv, Nesting, Storing, NEW t \in Threads, Store(t)
  PROVE  Storing'
<1>1. PICK outcome \in TlsSetValue(tls, t, index, t) :
        /\ tls' = outcome.storage
        /\ at[t] = "store"
        /\ at' = [at EXCEPT ![t] = IF outcome.status = "SUCCESS" THEN "leaving" ELSE "unclaim"]
        /\ UNCHANGED <<stored, index, slot, finalised>>
  BY DEF Store, Goes, words
<1>2. at \in [Threads -> Points] /\ tls \in Storages(Threads) /\ index \in Slots
      /\ tls.slots[index] # "free" /\ Null \notin Threads
  BY <1>1, NoThreadAssumption DEF IInv, Storing, SlotsType, OneSlot
<1>3. \A u \in Threads \ {t} : at[u] \notin Inner
  BY <1>1, Alone DEF Inner
<1>4. \A u \in Threads : at'[u] = IF u = t THEN IF outcome.status = "SUCCESS" THEN "leaving" ELSE "unclaim" ELSE at[u]
  BY <1>1, <1>2
<1>5. CASE outcome.status = "SUCCESS"
  <2>1. /\ tls' \in Storages(Threads) /\ tls'.slots = tls.slots
        /\ \A u \in Threads, k \in Slots :
             tls'.values[u][k] = IF u = t /\ k = index THEN t ELSE tls.values[u][k]
    BY <1>1, <1>2, <1>5, Setting
  <2>2. Data' = Data \cup {t} /\ Holders' = Holders /\ Data' \in SUBSET Holders' /\ Holders \in SUBSET Threads
    BY <1>1, <1>2, <1>4, <1>5, <2>1 DEF Data, Holders
  <2>3. Cardinality(Data') <= stored /\ Cardinality(Data') \in Nat /\ stored \in Nat /\ stored <= Places
    BY <1>1, <2>2, Counted, FS_Subset, WordAssumption DEF Storing, PlacesHeld
  <2>4. PlacesHeld'
    BY <1>1, <1>3, <1>4, <1>5, <2>2, <2>3, PlacesAssumption DEF Storing, PlacesHeld, Inner
  <2>5. OneSlot'
    BY <1>1, <1>4, <2>1 DEF Storing, OneSlot
  <2>6. OwnData'
    BY <1>1, <1>4, <1>5, <2>1 DEF Storing, OwnData
  <2> QED
    BY <1>1, <1>4, <2>1, <2>4, <2>5, <2>6 DEF Storing, SlotsType, Finalised
<1>6. CASE outcome.status # "SUCCESS"
  <2>1. tls' = tls
    BY <1>1, <1>2, <1>6, Setting
  <2>2. Holders' = Holders /\ Data' = Data
    BY <1>1, <1>4, <1>6, <2>1 DEF Holders, Data
  <2>3. PlacesHeld'
    BY <1>1, <1>4, <1>6, <2>2 DEF Storing, PlacesHeld
  <2>4. OneSlot'
    BY <1>1, <1>2, <1>4, <1>6, <2>1, NoThreadAssumption DEF Storing, OneSlot
  <2>5. OwnData'
    BY <1>1, <1>4, <1>6, <2>1 DEF Storing, OwnData
  <2> QED
    BY <1>1, <1>4, <1>6, <2>1, <2>3, <2>4, <2>5 DEF Storing, SlotsType, Finalised
<1> QED
  BY <1>5, <1>6

LEMMA StoringReturn ==
  ASSUME IInv, Storing, NEW t \in Threads, ReturnPlace(t)
  PROVE  Storing'
<1>1. /\ at[t] = "unclaim" /\ at' = [at EXCEPT ![t] = "leaving"]
      /\ stored' = Decrement(stored).value /\ UNCHANGED <<tls, index, slot, finalised>>
  BY DEF ReturnPlace, Goes
<1>2. \A u \in Threads : at'[u] = IF u = t THEN "leaving" ELSE at[u]
  BY <1>1 DEF IInv
<1>3. t \in Holders /\ Holders' = Holders \ {t} /\ Data' = Data /\ Holders \in SUBSET Threads
  BY <1>1, <1>2 DEF Storing, OwnData, Holders, Data
<1>4. stored' = Cardinality(Holders') /\ stored' <= stored
  <2>1. stored' = Cardinality(Holders') /\ Cardinality(Holders') = stored - 1 /\ stored \in Nat
    BY <1>1, <1>3, Counted, FS_RemoveElement, WordAssumption DEF Storing, PlacesHeld
  <2> QED
    BY <2>1
<1>5. stored \in Nat /\ stored' \in Nat
  BY <1>3, <1>4, Counted, WordAssumption DEF Storing, PlacesHeld
<1>6. PlacesHeld'
  BY <1>1, <1>2, <1>3, <1>4, <1>5, PlacesAssumption DEF Storing, PlacesHeld
<1>7. OneSlot'
  BY <1>1, <1>2 DEF Storing, OneSlot
<1>8. OwnData'
  BY <1>1, <1>2 DEF Storing, OwnData
<1> QED
  BY <1>1, <1>2, <1>6, <1>7, <1>8 DEF Storing, SlotsType, Finalised

\* The destructor meets the data of a thread that has stored some, once.
LEMMA StoringEnd ==
  ASSUME IInv, Storing, NEW t \in Threads, End(t)
  PROVE  Storing'
<1> DEFINE met == Cardinality(Destructors(tls, t))
<1>1. /\ at[t] = "ending" /\ at' = [at EXCEPT ![t] = "done"]
      /\ tls' = Ended(tls, t)
      /\ finalised' = [finalised EXCEPT ![t] = @ + met]
      /\ stored' = IF met = 0 THEN stored ELSE Decrement(stored).value
      /\ UNCHANGED <<index, slot>>
  BY DEF End, Goes
<1>2. /\ \A u \in Threads : at'[u] = IF u = t THEN "done" ELSE at[u]
      /\ tls \in Storages(Threads) /\ finalised[t] = 0 /\ finalised \in [Threads -> 0 .. 1]
      /\ Null \notin Threads /\ Null \notin Slots
  BY <1>1, NoThreadAssumption DEF IInv, Storing, SlotsType, Finalised
<1>3. /\ tls' \in Storages(Threads) /\ tls'.slots = tls.slots
      /\ \A u \in Threads, k \in Slots :
           tls'.values[u][k] = IF u = t THEN Null ELSE tls.values[u][k]
  BY <1>1, <1>2, Ending
<1>4. Holders \in SUBSET Threads /\ Data' = Data \ {t} /\ Holders' = Holders \ {t} /\ (t \in Holders <=> t \in Data)
  BY <1>1, <1>2, <1>3 DEF Data, Holders
<1>5. Destructors(tls, t) = IF t \in Data THEN {t} ELSE {}
  <2>1. CASE t \in Data
    <3>1. index \in Slots /\ tls.values[t][index] = t /\ tls.slots[index] = "finalised"
      BY <1>2, <2>1 DEF Data, Storing, OwnData, OneSlot
    <3>2. \A k \in Slots : tls.values[t][k] \in {t, Null}
      BY DEF Storing, OwnData
    <3> QED
      BY <1>2, <2>1, <3>1, <3>2 DEF Destructors
  <2>2. CASE t \notin Data
    BY <2>2 DEF Data, Destructors
  <2> QED
    BY <2>1, <2>2
<1>6. met = IF t \in Data THEN 1 ELSE 0
  BY <1>5, FS_EmptySet, FS_Singleton
<1>7. stored' = Cardinality(Holders')
  <2> HIDE DEF met
  <2>1. stored = Cardinality(Holders)
    BY DEF Storing, PlacesHeld
  <2>2. CASE t \in Data
    BY <1>1, <1>4, <1>6, <2>1, <2>2, Counted
  <2>3. CASE t \notin Data
    <3>1. Holders' = Holders
      BY <1>4, <2>3
    <3> QED
      BY <1>1, <1>6, <2>1, <2>3, <3>1
  <2> QED
    BY <2>2, <2>3
<1>8. \A u \in Threads : at'[u] = "store" => stored' <= Places
  <2>1. stored' <= stored /\ stored' \in Nat /\ stored \in Nat
    <3>1. Holders' \in SUBSET Holders
      BY <1>4
    <3> QED
      BY <1>4, <1>7, <3>1, Counted, FS_Subset, WordAssumption DEF Storing, PlacesHeld
  <2> QED
    BY <1>2, <2>1, PlacesAssumption DEF Storing, PlacesHeld
<1>9. Cardinality(Data') <= Places
  <2>1. Data \in SUBSET Threads /\ Data' \in SUBSET Data
    BY <1>4 DEF Data
  <2>2. Cardinality(Data') <= Cardinality(Data) /\ Cardinality(Data) \in Nat /\ Cardinality(Data') \in Nat
    BY <2>1, Counted, FS_Subset, WordAssumption
  <2> QED
    BY <2>2, PlacesAssumption DEF Storing, PlacesHeld
<1>10. OneSlot'
  BY <1>1, <1>2, <1>3 DEF Storing, OneSlot
<1>11. OwnData'
  BY <1>1, <1>2, <1>3 DEF Storing, OwnData
<1>12. Finalised'
  <2> HIDE DEF met
  <2>1. met \in 0 .. 1
    BY <1>6
  <2> QED
    BY <1>1, <1>2, <2>1 DEF Storing, Finalised
<1> QED
  BY <1>1, <1>3, <1>7, <1>8, <1>9, <1>10, <1>11, <1>12 DEF Storing, SlotsType, PlacesHeld

LEMMA StoringFree ==
  ASSUME IInv, Storing, FreeSlot
  PROVE  Storing'
<1>1. /\ \A t \in Threads : at[t] = "done"
      /\ UNCHANGED <<at, slot, stored, finalised>>
  BY DEF FreeSlot, words
<1>2. PICK t \in Threads : /\ slot[t] # Null
                          /\ \E outcome \in TlsFree(tls, slot[t]) :
                               /\ tls' = outcome.storage
                               /\ index' = IF outcome.status = "SUCCESS" THEN Null ELSE index
  BY DEF FreeSlot
<1>3. PICK outcome \in TlsFree(tls, slot[t]) :
        tls' = outcome.storage /\ index' = IF outcome.status = "SUCCESS" THEN Null ELSE index
  BY <1>2
<1>4. /\ tls \in Storages(Threads) /\ slot[t] \in Slots
      /\ \A u \in Threads, k \in Slots : tls.values[u][k] = Null
  BY <1>1, <1>2 DEF Storing, SlotsType, OwnData
<1>5. CASE tls.slots[slot[t]] = "free"
  <2>1. UNCHANGED <<tls, index>>
    BY <1>3, <1>4, <1>5, Freeing
  <2> QED
    BY <1>1, <2>1 DEF Storing, SlotsType, OneSlot, OwnData, PlacesHeld, Finalised, Data, Holders
<1>6. CASE tls.slots[slot[t]] # "free"
  <2>1. /\ tls' \in Storages(Threads) /\ tls'.values = tls.values /\ index' = Null
        /\ \A k \in Slots : tls'.slots[k] = IF k = slot[t] THEN "free" ELSE tls.slots[k]
    BY <1>3, <1>4, <1>6, Freeing
  <2>2. slot[t] = index
    BY <1>1, <1>4, <1>6 DEF Storing, OneSlot
  <2>3. Data' = Data /\ Holders' = Holders
    BY <1>1, <2>1 DEF Data, Holders
  <2>4. OneSlot'
    BY <1>1, <2>1, <2>2 DEF Storing, OneSlot
  <2>5. PlacesHeld'
    BY <1>1, <2>3 DEF Storing, PlacesHeld
  <2> QED
    BY <1>1, <1>4, <2>1, <2>4, <2>5 DEF Storing, SlotsType, OwnData, Finalised
<1> QED
  BY <1>5, <1>6

LEMMA StoringStep == IInv /\ Nesting /\ Storing /\ [Next]_vars => Storing'
<1> SUFFICES ASSUME IInv, Nesting, Storing, [Next]_vars PROVE Storing'
  OBVIOUS
<1>1. CASE UNCHANGED vars
  BY <1>1 DEF vars, Storing, SlotsType, OneSlot, OwnData, PlacesHeld, Finalised, Data, Holders
<1>2. CASE FreeSlot
  BY <1>2, StoringFree
<1>3. ASSUME NEW t \in Threads, Thread(t) PROVE Storing'
  <2>1. CASE ClaimOnce(t)
    <3>1. (CASE once = 0 -> "initialise" [] once = 2 -> "outside" [] once = 3 -> "closing" [] OTHER -> "begin")
            \in {"initialise", "outside", "closing", "begin"}
      OBVIOUS
    <3>2. PICK to \in {"initialise", "outside", "closing", "begin"} :
            at[t] = "begin" /\ at' = [at EXCEPT ![t] = to]
      BY <2>1, <3>1 DEF ClaimOnce, CompareExchange, Goes
    <3>3. UNCHANGED <<tls, index, slot, stored, finalised>>
      BY <2>1 DEF ClaimOnce
    <3> QED
      BY <3>2, <3>3, StoringKept DEF Points, Late
  <2>2. CASE InitializeSection(t) \/ Publish(t)
    <3>1. PICK to \in {"publish", "abandon", "outside", "closing"} :
            /\ at[t] \in {"initialise", "publish", "abandon"} /\ at' = [at EXCEPT ![t] = to]
            /\ UNCHANGED <<tls, index, slot, stored, finalised>>
      BY <2>2 DEF InitializeSection, Publish, Goes, words
    <3> QED
      BY <3>1, StoringKept DEF Points, Late
  <2>3. CASE Synchronization(t)
    <3>1. UNCHANGED <<tls, index, slot, stored, finalised>>
      BY <2>3 DEF Synchronization, TryEnterSection, Await, EnterSection, LeaveSection, DeleteSection, words
    <3>2. PICK to \in {"outside", "waiting", "inside", "leaving", "closing", "ending"} :
            /\ at[t] \in {"outside", "waiting", "inside", "leaving", "deleting"}
            /\ at' = [at EXCEPT ![t] = to]
            /\ at[t] \in Late => to \in Late
      <4>1. CASE TryEnterSection(t)
        BY <4>1 DEF TryEnterSection, Late
      <4>2. CASE Await(t)
        BY <4>2 DEF Await, Goes, Late
      <4>3. CASE EnterSection(t)
        BY <4>3 DEF EnterSection, Goes, Late
      <4>4. CASE LeaveSection(t)
        BY <4>4 DEF LeaveSection, Late
      <4>5. CASE DeleteSection(t)
        BY <4>5 DEF DeleteSection, Goes, Late
      <4> QED
        BY <2>3, <4>1, <4>2, <4>3, <4>4, <4>5 DEF Synchronization
    <3> QED
      BY <3>1, <3>2, StoringKept DEF Points
  <2>4. CASE UseSlot(t) \/ Close(t)
    <3>1. PICK to \in {"claim", "deleting", "ending"} :
            /\ at[t] = (IF to = "claim" THEN "inside" ELSE "closing")
            /\ to = "claim" => index # Null
            /\ at' = [at EXCEPT ![t] = to] /\ UNCHANGED <<tls, index, slot, stored, finalised>>
      BY <2>4 DEF UseSlot, Close, Goes, words
    <3> QED
      BY <3>1, StoringKept DEF Points, Late
  <2> QED
    BY <1>3, <2>1, <2>2, <2>3, <2>4, StoringAllocation, StoringRecord, StoringClaim, StoringData, StoringReturn, StoringEnd
    DEF Thread, Initialization, Storage
<1> QED
  BY <1>1, <1>2, <1>3 DEF Next

-----------------------------------------------------------------------------
(***************************************************************************)
(* The section as a lock: every step is one of the abstract lock or leaves *)
(* it as it is, and whoever has to wait waits for someone who has not.     *)
(* Both need that the one initialisation finds the section untouched; the  *)
(* second also that what it makes is recursive, which it is unless the     *)
(* system refuses that and the code goes on with what there is.            *)
(***************************************************************************)
Made ==
  /\ section.state # "raw" /\ ~KindRefused => section.recursive
  /\ once = 0 => section.state = "raw"
  /\ once = 2 => section.state # "raw"
  /\ \A t \in Threads : at[t] = "initialise" => section.state = "raw"

LockInv == IInv /\ Nesting /\ Lifetime /\ Made

LEMMA MadeInitially == Init => Made
  BY DEF Init, Made, Raw

\* Only the initialisation changes the kind of the section, and nothing that
\* follows it makes the section untouched again.
LEMMA KindKept ==
  ASSUME IInv, NEW t \in Threads,
         TryEnterSection(t) \/ EnterSection(t) \/ LeaveSection(t) \/ DeleteSection(t)
  PROVE  section'.recursive = section.recursive /\ section'.state \in {section.state, "deleted"}
<1>1. section \in SectionType
  BY DEF IInv, Accounts
<1>2. CASE TryEnterSection(t) \/ EnterSection(t)
  <2>1. section' = Taken(section, t) \/ section' = section
    BY <1>1, <1>2, Entering DEF TryEnterSection, EnterSection, Kept
  <2>2. \A new : new = Taken(section, t) => new.state = section.state /\ new.recursive = section.recursive
    BY <1>1 DEF Taken, SectionType
  <2> QED
    BY <2>1, <2>2
<1>3. CASE LeaveSection(t)
  <2>1. PICK outcome \in Leave(section, t) : section' = outcome.section
    BY <1>3 DEF LeaveSection
  <2>2. \/ section' = [section EXCEPT !.owner = IF section.depth = 1 THEN NoThread ELSE t, !.depth = @ - 1]
        \/ section' = section
    BY <1>1, <2>1, Leaving DEF Kept
  <2> QED
    BY <1>1, <2>2 DEF SectionType
<1>4. CASE DeleteSection(t)
  <2>1. section' = section \/ section' = [section EXCEPT !.state = "deleted"]
    BY <1>4, Deleting DEF DeleteSection
  <2> QED
    BY <1>1, <2>1 DEF SectionType
<1> QED
  BY <1>2, <1>3, <1>4

LEMMA MadeStep == LockInv /\ [Next]_vars => Made'
<1> SUFFICES ASSUME LockInv, [Next]_vars PROVE Made'
  OBVIOUS
<1>1. IInv /\ Lifetime /\ Made /\ IInv'
  BY Inductive DEF LockInv
<1>2. CASE FreeSlot \/ UNCHANGED vars
  <2>1. UNCHANGED <<section, once, at>>
    BY <1>2 DEF FreeSlot, vars, words
  <2> QED
    BY <1>1, <2>1 DEF Made
<1>3. ASSUME NEW t \in Threads, Thread(t) PROVE Made'
  <2>1. CASE ClaimOnce(t)
    <3> DEFINE to == CASE once = 0 -> "initialise" [] once = 2 -> "outside"
                       [] once = 3 -> "closing"    [] OTHER    -> "begin"
    <3>1. /\ at' = [at EXCEPT ![t] = to] /\ UNCHANGED section
          /\ once' = IF once = 0 THEN 1 ELSE once
      BY <2>1 DEF ClaimOnce, CompareExchange, Goes
    <3>2. to = "initialise" => once = 0
      OBVIOUS
    <3> HIDE DEF to
    <3>3. \A u \in Threads : at'[u] = "initialise" => at[u] = "initialise" \/ once = 0
      BY <1>1, <3>1, <3>2 DEF IInv
    <3> QED
      BY <1>1, <3>1, <3>3 DEF Made
  <2>2. CASE InitializeSection(t)
    <3>1. PICK outcome \in Initialize(section) :
            /\ section' = outcome.section
            /\ at[t] = "initialise"
            /\ at' = [at EXCEPT ![t] = IF outcome.status = "SUCCESS" THEN "publish" ELSE "abandon"]
            /\ UNCHANGED once
      BY <2>2 DEF InitializeSection, Goes, words
    <3>2. once = 1 /\ \A u \in Threads : at'[u] # "initialise"
      BY <1>1, <3>1 DEF IInv, OnceTells, Early
    <3>3. section.state = "raw"
      BY <1>1, <3>1 DEF Made
    <3>4. section'.state # "raw" /\ ~KindRefused => section'.recursive
      BY <3>1, <3>3, Initializing, NewMutexIs
    <3> QED
      BY <3>1, <3>2, <3>4 DEF Made
  <2>3. CASE Publish(t)
    <3>1. PICK to \in {"outside", "closing"} :
            /\ at[t] = (IF to = "outside" THEN "publish" ELSE "abandon")
            /\ at' = [at EXCEPT ![t] = to] /\ UNCHANGED section
            /\ once' = IF once = 1 THEN (IF to = "outside" THEN 2 ELSE 3) ELSE once
      BY <2>3 DEF Publish, Goes, CompareExchange
    <3>2. once = 1 /\ \A u \in Threads : at'[u] # "initialise"
      BY <1>1, <3>1 DEF IInv, OnceTells, Early
    <3>3. to = "outside" => section.state = "live"
      BY <1>1, <3>1 DEF Lifetime
    <3> QED
      BY <1>1, <3>1, <3>2, <3>3 DEF Made
  <2>4. CASE Synchronization(t) \/ Storage(t) \/ Close(t) \/ End(t)
    <3>1. once' = once /\ at[t] \notin Early \cup {"begin"}
      <4>1. CASE Synchronization(t)
        BY <4>1 DEF Synchronization, TryEnterSection, Await, EnterSection, LeaveSection, DeleteSection, Goes, words, Early
      <4>2. CASE Storage(t)
        BY <4>2 DEF Storage, AllocateSlot, RecordSlot, UseSlot, ClaimPlace, Store, ReturnPlace, Goes, words, Early
      <4>3. CASE Close(t) \/ End(t)
        BY <4>3 DEF Close, End, Goes, Early
      <4> QED
        BY <2>4, <4>1, <4>2, <4>3
    <3>2. once \in 2 .. 3
      BY <1>1, <3>1 DEF IInv, OnceTells
    <3>3. \A u \in Threads : at'[u] # "initialise"
      BY <1>1, <3>1, <3>2 DEF IInv, OnceTells, Early
    <3>4. \/ section' = section
          \/ /\ once = 2
             /\ section'.recursive = section.recursive /\ section'.state \in {section.state, "deleted"}
      <4>1. CASE TryEnterSection(t) \/ EnterSection(t) \/ LeaveSection(t) \/ DeleteSection(t)
        <5>1. at[t] \in Inner \cup {"outside", "waiting", "deleting"}
          BY <4>1 DEF TryEnterSection, EnterSection, LeaveSection, DeleteSection, Goes, Inner
        <5> QED
          BY <1>1, <4>1, <5>1, KindKept DEF Lifetime
      <4>2. CASE Await(t) \/ Storage(t) \/ Close(t) \/ End(t)
        BY <4>2 DEF Await, Storage, AllocateSlot, RecordSlot, UseSlot, ClaimPlace, Store, ReturnPlace, Close, End
      <4> QED
        BY <2>4, <4>1, <4>2 DEF Synchronization
    <3> QED
      BY <1>1, <3>1, <3>2, <3>3, <3>4 DEF Made
  <2> QED
    BY <1>3, <2>1, <2>2, <2>3, <2>4 DEF Thread, Initialization
<1> QED
  BY <1>2, <1>3 DEF Next

LEMMA LockInvHolds == Spec => []LockInv
<1>1. Init => LockInv
  BY Initially, NestingInitially, LifetimeInitially, MadeInitially DEF LockInv
<1>2. LockInv /\ [Next]_vars => LockInv'
  BY Inductive, NestingStep, LifetimeStep, MadeStep DEF LockInv
<1> QED
  BY <1>1, <1>2, PTL DEF Spec

\* A call that enters is the lock's, or it leaves the lock as it is.
LEMMA EnteringMaps ==
  ASSUME LockInv, NEW t \in Threads, TryEnterSection(t) \/ EnterSection(t)
  PROVE  Lock!Enter(t) \/ UNCHANGED <<section, held>>
<1>1. section \in SectionType /\ held \in [Threads -> Nat] /\ \A u \in Threads : held[u] = Owner(u)
  BY DEF LockInv, IInv, Accounts
<1>2. PICK outcome \in Enter(section, t) \cup TryEnter(section, t) :
        /\ section' = outcome.section
        /\ held' = [held EXCEPT ![t] = IF outcome.status = "SUCCESS" THEN @ + 1 ELSE @]
  BY DEF TryEnterSection, EnterSection
<1>3. CASE Kept(outcome, section)
  BY <1>1, <1>2, <1>3 DEF Kept
<1>4. CASE /\ outcome.status = "SUCCESS" /\ section.owner \in {NoThread, t}
           /\ outcome.section = Taken(section, t)
  <2>1. section.state = "live"
    <3>1. at[t] \in {"outside", "inside", "waiting"}
      BY DEF TryEnterSection, EnterSection, Goes
    <3> QED
      BY <3>1 DEF LockInv, Lifetime, Inner, Open, Closed
  <2>2. section'.state = section.state
    BY StateKept DEF LockInv
  <2>3. \A u \in Threads \ {t} : held[u] = 0
    BY <1>1, <1>4, NoThreadAssumption DEF Owner
  <2>4. held' = [held EXCEPT ![t] = @ + 1]
    BY <1>2, <1>4
  <2> QED
    BY <2>1, <2>2, <2>3, <2>4 DEF Lock!Enter, Lock!Alone
<1> QED
  BY <1>1, <1>2, <1>3, <1>4, Entering

LEMMA LeavingMaps ==
  ASSUME LockInv, NEW t \in Threads, LeaveSection(t)
  PROVE  Lock!Leave(t) \/ UNCHANGED <<section, held>>
<1>1. /\ section \in SectionType /\ held \in [Threads -> Nat] /\ \A u \in Threads : held[u] = Owner(u)
      /\ section.owner = NoThread <=> section.depth = 0
  BY DEF LockInv, IInv, Accounts
<1>2. PICK outcome \in Leave(section, t) :
        /\ section' = outcome.section
        /\ held' = [held EXCEPT ![t] = IF outcome.status = "SUCCESS" THEN @ - 1 ELSE @]
  BY DEF LeaveSection
<1>3. CASE Kept(outcome, section)
  BY <1>1, <1>2, <1>3 DEF Kept
<1>4. CASE outcome.status = "SUCCESS" /\ section.owner = t
  <2>1. section.state = "live"
    <3>1. at[t] \in {"outside", "leaving"}
      BY DEF LeaveSection
    <3> QED
      BY <3>1 DEF LockInv, Lifetime, Inner, Open, Closed
  <2>2. section'.state = section.state
    BY StateKept DEF LockInv
  <2>3. held[t] > 0
    BY <1>1, <1>4, NoThreadAssumption DEF Owner, SectionType
  <2>4. held' = [held EXCEPT ![t] = @ - 1]
    BY <1>2, <1>4
  <2> QED
    BY <2>1, <2>2, <2>3, <2>4 DEF Lock!Leave
<1> QED
  BY <1>1, <1>2, <1>3, <1>4, Leaving

LEMMA MakingMaps ==
  ASSUME LockInv, NEW t \in Threads, InitializeSection(t)
  PROVE  Lock!Make \/ UNCHANGED <<section, held>>
<1>1. PICK outcome \in Initialize(section) : section' = outcome.section
  BY DEF InitializeSection
<1>2. at[t] = "initialise" /\ UNCHANGED held
  BY DEF InitializeSection, Goes
<1>3. section.state = "raw"
  BY <1>2 DEF LockInv, Made
<1>4. section' = section \/ section'.state = "live"
  BY <1>1, Initializing, NewMutexIs
<1> QED
  BY <1>2, <1>3, <1>4 DEF Lock!Make

LEMMA DeletingMaps ==
  ASSUME LockInv, NEW t \in Threads, DeleteSection(t)
  PROVE  Lock!Delete \/ UNCHANGED <<section.state, held>>
<1>1. PICK outcome \in Delete(section) : section' = outcome.section
  BY DEF DeleteSection
<1>2. UNCHANGED held /\ at[t] \in {"inside", "deleting"}
  BY DEF DeleteSection, Goes
<1>3. section \in SectionType /\ \A u \in Threads : held[u] = Owner(u)
  BY DEF LockInv, IInv, Accounts
<1>4. CASE section.owner = NoThread
  <2>1. section'.state = "deleted"
    BY <1>1, <1>3, <1>4, Deletes
  <2>2. \A u \in Threads : held[u] = 0
    BY <1>3, <1>4, NoThreadAssumption DEF Owner
  <2>3. section.state \in {"live", "deleted"}
    BY <1>2, <1>3 DEF LockInv, Lifetime, Made, Inner, SectionType
  <2> QED
    BY <1>2, <2>1, <2>2, <2>3 DEF Lock!Delete
<1>5. CASE section.owner # NoThread
  BY <1>1, <1>2, <1>3, <1>5, Deletes
<1> QED
  BY <1>4, <1>5

LEMMA LockStep == LockInv /\ [Next]_vars => [Lock!Next]_(Lock!vars)
<1> SUFFICES ASSUME LockInv, [Next]_vars PROVE Lock!Next \/ UNCHANGED <<section.state, held>>
  BY DEF Lock!vars
<1>1. CASE FreeSlot \/ UNCHANGED vars
  BY <1>1 DEF FreeSlot, vars
<1>2. ASSUME NEW t \in Threads, Thread(t)
      PROVE  Lock!Next \/ UNCHANGED <<section.state, held>>
  <2>1. CASE InitializeSection(t)
    BY <2>1, MakingMaps DEF Lock!Next
  <2>2. CASE TryEnterSection(t) \/ EnterSection(t)
    BY <2>2, EnteringMaps DEF Lock!Next
  <2>3. CASE LeaveSection(t)
    BY <2>3, LeavingMaps DEF Lock!Next
  <2>4. CASE DeleteSection(t)
    BY <2>4, DeletingMaps DEF Lock!Next
  <2>5. CASE ClaimOnce(t) \/ Publish(t) \/ Await(t) \/ Storage(t) \/ Close(t) \/ End(t)
    BY <2>5 DEF ClaimOnce, Publish, Await, Storage, AllocateSlot, RecordSlot, UseSlot, ClaimPlace,
                Store, ReturnPlace, Close, End
  <2> QED
    BY <1>2, <2>1, <2>2, <2>3, <2>4, <2>5 DEF Thread, Initialization, Synchronization
<1> QED
  BY <1>1, <1>2 DEF Next

\* As far as the statuses tell the section is a recursive lock: made once,
\* entered by a thread that is in it alone, deleted when nobody is in it.
THEOREM SectionIsLock == Spec => ImplementsLock
<1>1. Init => Lock!Init
  BY DEF Init, Raw, Lock!Init
<1> QED
  BY <1>1, LockInvHolds, LockStep, PTL DEF Spec, ImplementsLock, Lock!Spec

\* No deadlock, where the system does not refuse the recursive kind: a thread
\* that has to wait for the section waits for another one that is in it and
\* could enter it again.
THEOREM NoDeadlock ==
  ASSUME ~KindRefused
  PROVE  Spec => []WaitsForOther
<1>1. LockInv => WaitsForOther
  <2> SUFFICES ASSUME LockInv, NEW t \in Threads, at[t] = "waiting", Enter(section, t) = {}
               PROVE  \E u \in Threads \ {t} : held[u] > 0 /\ Enter(section, u) # {}
    BY DEF WaitsForOther
  <2>1. section.recursive
    BY DEF LockInv, Lifetime, Made
  <2>2. section \in SectionType /\ section.depth <= MaxRecursion
    BY DEF LockInv, IInv, Accounts, Nesting
  <2>3. \A v : section.owner = v => MutexLock(section, v) # {}
    BY <2>1, <2>2, MaxRecursionAssumption DEF MutexLock, Gains, Exhausted, Owned, SectionType
  <2>4. \A v : Enter(section, v) = {} <=> MutexLock(section, v) = {}
    BY DEF Enter
  <2>5. section.owner # t /\ section.owner # NoThread
    <3>1. section.owner = NoThread => MutexLock(section, t) # {}
      BY DEF MutexLock, Gains, Free
    <3> QED
      BY <2>3, <2>4, <3>1
  <2>6. section.owner \in Threads \ {t}
    BY <2>2, <2>5 DEF SectionType
  <2>7. held[section.owner] > 0
    BY <2>2, <2>5, <2>6 DEF LockInv, IInv, Accounts, Owner, SectionType
  <2> QED
    BY <2>3, <2>4, <2>6, <2>7
<1> QED
  BY <1>1, LockInvHolds, PTL

-----------------------------------------------------------------------------
(* The theorems.                                                           *)

LEMMA LifeInvHolds == Spec => []LifeInv
<1>1. Init => LifeInv
  BY Initially, NestingInitially, LifetimeInitially, StoringInitially DEF LifeInv
<1>2. LifeInv /\ [Next]_vars => LifeInv'
  BY Inductive, NestingStep, LifetimeStep, StoringStep DEF LifeInv
<1> QED
  BY <1>1, <1>2, PTL DEF Spec

\* The state of the program stays in its types: no word wraps around, no
\* mutex is taken deeper than it allows.
THEOREM ThreadsTypeCorrect == Spec => []TypeOK
<1>1. LifeInv => TypeOK
  <2> SUFFICES ASSUME LifeInv PROVE TypeOK
    OBVIOUS
  <2>1. section \in Sections(Threads)
    <3>1. section \in SectionType /\ section.depth \in 0 .. MaxRecursion
      BY MaxRecursionAssumption DEF LifeInv, IInv, Accounts, Nesting, SectionType
    <3> QED
      BY <3>1 DEF SectionType, Sections
  <2>2. once \in 0 .. Word - 1
    BY ThreadsAssumption, WordAssumption DEF LifeInv, IInv, OnceTells
  <2>3. users \in 0 .. Word - 1 /\ stored \in 0 .. Word - 1
    <3>1. Open \in SUBSET Threads /\ Holders \in SUBSET Threads
      BY DEF Open, Holders, Data
    <3> QED
      BY <3>1, Counted DEF LifeInv, Lifetime, Storing, PlacesHeld
  <2>4. held \in [Threads -> 0 .. MaxNest]
    BY NestAssumption DEF LifeInv, IInv, Accounts, Nesting
  <2>5. finalised \in [Threads -> Nat]
    BY DEF LifeInv, Storing, Finalised
  <2> QED
    BY <2>1, <2>2, <2>3, <2>4, <2>5 DEF LifeInv, IInv, Storing, SlotsType, TypeOK
<1> QED
  BY <1>1, LifeInvHolds, PTL

\* The section is used between its initialisation and its deletion only,
\* although a thread may be in the middle of a call when others do both.
THEOREM UsedWhileLive == Spec => []OnlyLive
<1>1. LifeInv => OnlyLive
  BY DEF LifeInv, Lifetime, OnlyLive, Inner, Open, Closed
<1> QED
  BY <1>1, LifeInvHolds, PTL

\* One slot serves all threads, no more of them have data than there are
\* places, and each reads back its own.
THEOREM SharedStorage == Spec => []StorageShared
<1>1. LifeInv => StorageShared
  <2> SUFFICES ASSUME LifeInv PROVE StorageShared
    OBVIOUS
  <2> DEFINE used == {k \in Slots : tls.slots[k] # "free"}
  <2>1. \A k, j \in used : k = j
    <3> SUFFICES ASSUME NEW k \in used, NEW j \in used PROVE k = j
      OBVIOUS
    <3>1. CASE index # Null
      BY <3>1, NoThreadAssumption DEF LifeInv, Storing, OneSlot
    <3>2. CASE index = Null
      <4>1. PICK t \in Threads : at[t] = "record" /\ slot[t] = k
        BY <3>2, NoThreadAssumption DEF LifeInv, Storing, OneSlot
      <4>2. PICK u \in Threads : at[u] = "record" /\ slot[u] = j
        BY <3>2, NoThreadAssumption DEF LifeInv, Storing, OneSlot
      <4>3. t = u
        BY <4>1, <4>2, Alone DEF LifeInv, Inner
      <4> QED
        BY <4>1, <4>2, <4>3
    <3> QED
      BY <3>1, <3>2
  <2>2. Cardinality(used) <= 1
    <3> HIDE DEF used
    <3>1. CASE used = {}
      BY <3>1, FS_EmptySet
    <3>2. ASSUME NEW k \in used PROVE Cardinality(used) <= 1
      <4>1. used = {k}
        BY <2>1
      <4>2. Cardinality({k}) = 1
        BY FS_Singleton
      <4> QED
        BY <4>1, <4>2
    <3> QED
      BY <3>1, <3>2
  <2>3. Cardinality({t \in Threads : \E k \in Slots : tls.values[t][k] # Null}) <= Places
    BY DEF LifeInv, Storing, PlacesHeld, Data
  <2>4. ASSUME index # Null
        PROVE  tls.slots[index] # "free" /\ \A t \in Threads : TlsGetValue(tls, t, index) \in {t, Null}
    BY <2>4 DEF LifeInv, Storing, SlotsType, OneSlot, OwnData, TlsGetValue
  <2> QED
    BY <2>2, <2>3, <2>4 DEF StorageShared
<1> QED
  BY <1>1, LifeInvHolds, PTL

\* When all threads have ended every place is given back, no data is left,
\* none met the destructor twice, and the section is deleted.
THEOREM AllCleanedUp == Spec => []CleanedUp
<1>1. LifeInv => CleanedUp
  <2> SUFFICES ASSUME LifeInv, \A t \in Threads : at[t] = "done"
               PROVE  /\ stored = 0 /\ users = 0
                      /\ \A t \in Threads : finalised[t] <= 1 /\ \A k \in Slots : tls.values[t][k] = Null
                      /\ section.state # "live"
    BY DEF CleanedUp
  <2>1. \A t \in Threads, k \in Slots : tls.values[t][k] = Null
    BY DEF LifeInv, Storing, OwnData
  <2>2. Open = {} /\ Holders = {}
    BY <2>1 DEF Open, Closed, Holders, Data
  <2>3. stored = 0 /\ users = 0
    BY <2>2, FS_EmptySet DEF LifeInv, Lifetime, Storing, PlacesHeld
  <2>4. section.state # "live"
    BY <2>2 DEF LifeInv, Lifetime
  <2>5. \A t \in Threads : finalised[t] <= 1
    BY DEF LifeInv, Storing, Finalised
  <2> QED
    BY <2>1, <2>3, <2>4, <2>5
<1> QED
  BY <1>1, LifeInvHolds, PTL
=============================================================================
