---------------------------- MODULE ZyanThreads -----------------------------
(***************************************************************************)
(* The three pieces zycore has for programs with threads put together: a   *)
(* critical section, thread-local storage and atomic words.  Nothing in    *)
(* the repository uses them, so the program is one they are made for.      *)
(*                                                                         *)
(* Every thread claims the initialisation with a compare-exchange; the one *)
(* that wins initialises the section, the others wait for it.  Inside the  *)
(* section, which a thread may enter again, the first one allocates the    *)
(* TLS slot.  A thread then takes one of Places places with an increment,  *)
(* stores its data, and leaves; the last to decrement "users" deletes the  *)
(* section.  Its data is finalised when the thread ends, and the slot is   *)
(* freed when all of them have.  Between any two of these calls the other  *)
(* threads may run, and every call may fail in each way the code reports.  *)
(***************************************************************************)
EXTENDS ZyanAtomic, ZyanCriticalSection, ZyanThread, FiniteSets

CONSTANTS Places,     \* how many threads may store data
          MaxNest     \* how often a thread enters without leaving

ASSUME PlacesAssumption  == Places \in Nat
ASSUME NestAssumption    == MaxNest \in Nat
ASSUME ThreadsAssumption == IsFiniteSet(Threads) /\ Cardinality(Threads) < Word /\ 3 < Word
ASSUME NoThreadAssumption == NoThread \notin Threads /\ Null \notin Threads /\ Null \notin Slots

VARIABLES section,    \* the critical section
          tls,        \* the thread-local storage
          once,       \* an atomic word: 0 untouched, 1 claimed, 2 ready, 3 failed
          users,      \* an atomic word: the threads not yet closing
          stored,     \* an atomic word: the places taken
          index,      \* the slot, shared and protected by the section
          at,         \* where each thread is
          held,       \* the calls that let it in, less those that let it out
          slot,       \* the slot it has just allocated
          finalised   \* how often its data met the destructor

vars == <<section, tls, once, users, stored, index, at, held, slot, finalised>>

words == <<once, users, stored>>

Points == {"begin", "initialise", "publish", "abandon", "outside", "waiting", "inside", "record", "claim",
           "store", "unclaim", "leaving", "closing", "deleting", "ending", "done"}

Init ==
  /\ section = Raw
  /\ tls = Fresh
  /\ once = 0
  /\ users = Cardinality(Threads)
  /\ stored = 0
  /\ index = Null
  /\ at = [t \in Threads |-> "begin"]
  /\ held = [t \in Threads |-> 0]
  /\ slot = [t \in Threads |-> Null]
  /\ finalised = [t \in Threads |-> 0]

Goes(t, from, to) == at[t] = from /\ at' = [at EXCEPT ![t] = to]

-----------------------------------------------------------------------------
(* The one-time initialisation.                                            *)

ClaimOnce(t) ==
  LET exchange == CompareExchange(once, 0, 1) IN
  /\ once' = exchange.value
  /\ Goes(t, "begin", CASE exchange.result = 0 -> "initialise"
                        [] exchange.result = 2 -> "outside"
                        [] exchange.result = 3 -> "closing"
                        [] OTHER               -> "begin")
  /\ UNCHANGED <<section, tls, users, stored, index, held, slot, finalised>>

InitializeSection(t) ==
  \E outcome \in Initialize(section) :
    /\ section' = outcome.section
    /\ Goes(t, "initialise", IF outcome.status = "SUCCESS" THEN "publish" ELSE "abandon")
    /\ UNCHANGED <<tls, words, index, held, slot, finalised>>

Publish(t) ==
  /\ \/ Goes(t, "publish", "outside") /\ once' = CompareExchange(once, 1, 2).value
     \/ Goes(t, "abandon", "closing") /\ once' = CompareExchange(once, 1, 3).value
  /\ UNCHANGED <<section, tls, users, stored, index, held, slot, finalised>>

-----------------------------------------------------------------------------
(* The critical section.  A thread that enters, by either call, counts it. *)

TryEnterSection(t) ==
  /\ at[t] \in {"outside", "inside"}
  /\ held[t] < MaxNest
  /\ \E outcome \in TryEnter(section, t) :
       /\ section' = outcome.section
       /\ held' = [held EXCEPT ![t] = IF outcome.status = "SUCCESS" THEN @ + 1 ELSE @]
       /\ at' = [at EXCEPT ![t] = IF outcome.status = "SUCCESS" THEN "inside" ELSE @]
  /\ UNCHANGED <<tls, words, index, slot, finalised>>

\* The call has begun: from here the thread can only get in or be refused.
Await(t) ==
  /\ held[t] < MaxNest
  /\ Goes(t, "outside", "waiting") \/ Goes(t, "inside", "waiting")
  /\ UNCHANGED <<section, tls, words, index, held, slot, finalised>>

EnterSection(t) ==
  /\ \E outcome \in Enter(section, t) :
       /\ section' = outcome.section
       /\ held' = [held EXCEPT ![t] = IF outcome.status = "SUCCESS" THEN @ + 1 ELSE @]
       /\ Goes(t, "waiting", IF outcome.status = "SUCCESS" THEN "inside" ELSE "leaving")
  /\ UNCHANGED <<tls, words, index, slot, finalised>>

\* One call more than a thread entered with is an error it may well make.
LeaveSection(t) ==
  /\ at[t] = "leaving" \/ at[t] = "outside"
  /\ \E outcome \in Leave(section, t) :
       /\ section' = outcome.section
       /\ held' = [held EXCEPT ![t] = IF outcome.status = "SUCCESS" THEN @ - 1 ELSE @]
       /\ at' = [at EXCEPT ![t] = IF @ = "leaving" /\ outcome.status = "SUCCESS" /\ held[t] = 1
                                  THEN "closing" ELSE @]
  /\ UNCHANGED <<tls, words, index, slot, finalised>>

\* The last thread deletes the section; one inside it is told that it cannot.
DeleteSection(t) ==
  /\ \E outcome \in Delete(section) :
       /\ section' = outcome.section
       /\ Goes(t, "deleting", "ending") \/ Goes(t, "inside", "inside")
  /\ UNCHANGED <<tls, words, index, held, slot, finalised>>

-----------------------------------------------------------------------------
(* Inside the section: the slot, the place and the data.                   *)

AllocateSlot(t) ==
  /\ index = Null
  /\ \E outcome \in TlsAlloc(tls) :
       /\ tls' = outcome.storage
       /\ slot' = [slot EXCEPT ![t] = outcome.index]
       /\ Goes(t, "inside", IF outcome.status = "SUCCESS" THEN "record" ELSE "leaving")
  /\ UNCHANGED <<section, words, index, held, finalised>>

RecordSlot(t) ==
  /\ Goes(t, "record", "claim")
  /\ index' = slot[t]
  /\ UNCHANGED <<section, tls, words, held, slot, finalised>>

UseSlot(t) ==
  /\ index # Null
  /\ Goes(t, "inside", "claim")
  /\ UNCHANGED <<section, tls, words, index, held, slot, finalised>>

ClaimPlace(t) ==
  /\ stored' = Increment(stored).value
  /\ Goes(t, "claim", IF Increment(stored).result <= Places THEN "store" ELSE "unclaim")
  /\ UNCHANGED <<section, tls, once, users, index, held, slot, finalised>>

Store(t) ==
  /\ at[t] = "store"
  /\ \E outcome \in TlsSetValue(tls, t, index, t) :
       /\ tls' = outcome.storage
       /\ Goes(t, "store", IF outcome.status = "SUCCESS" THEN "leaving" ELSE "unclaim")
  /\ UNCHANGED <<section, words, index, held, slot, finalised>>

ReturnPlace(t) ==
  /\ stored' = Decrement(stored).value
  /\ Goes(t, "unclaim", "leaving")
  /\ UNCHANGED <<section, tls, once, users, index, held, slot, finalised>>

-----------------------------------------------------------------------------
(* The end of the threads.                                                 *)

Close(t) ==
  /\ users' = Decrement(users).value
  /\ Goes(t, "closing", IF Decrement(users).result = 0 /\ once = 2 THEN "deleting" ELSE "ending")
  /\ UNCHANGED <<section, tls, once, stored, index, held, slot, finalised>>

\* The destructor gives the place of the data back.
End(t) ==
  LET met == Cardinality(Destructors(tls, t)) IN
  /\ Goes(t, "ending", "done")
  /\ tls' = Ended(tls, t)
  /\ finalised' = [finalised EXCEPT ![t] = @ + met]
  /\ stored' = IF met = 0 THEN stored ELSE Decrement(stored).value
  /\ UNCHANGED <<section, once, users, index, held, slot>>

\* A slot freed once more is an error that the program is told of.
FreeSlot ==
  /\ \A t \in Threads : at[t] = "done"
  /\ \E t \in Threads :
       /\ slot[t] # Null
       /\ \E outcome \in TlsFree(tls, slot[t]) :
            /\ tls' = outcome.storage
            /\ index' = IF outcome.status = "SUCCESS" THEN Null ELSE index
  /\ UNCHANGED <<section, words, at, held, slot, finalised>>

Initialization(t) == ClaimOnce(t) \/ InitializeSection(t) \/ Publish(t)
Synchronization(t) ==
  TryEnterSection(t) \/ Await(t) \/ EnterSection(t) \/ LeaveSection(t) \/ DeleteSection(t)
Storage(t) ==
  AllocateSlot(t) \/ RecordSlot(t) \/ UseSlot(t) \/ ClaimPlace(t) \/ Store(t) \/ ReturnPlace(t)

Thread(t) == Initialization(t) \/ Synchronization(t) \/ Storage(t) \/ Close(t) \/ End(t)

Next == FreeSlot \/ \E t \in Threads : Thread(t)

\* A thread the system does not suspend for ever goes on: it takes a step it
\* can take.  Nothing is assumed of the order in which waiters get in.
Spec == Init /\ [][Next]_vars /\ WF_vars(FreeSlot) /\ \A t \in Threads : WF_vars(Thread(t))

-----------------------------------------------------------------------------
(* Properties.                                                             *)

TypeOK ==
  /\ section \in Sections(Threads)
  /\ tls \in Storages(Threads)
  /\ once \in 0 .. Word - 1 /\ users \in 0 .. Word - 1 /\ stored \in 0 .. Word - 1
  /\ index \in Slots \cup {Null}
  /\ at \in [Threads -> Points]
  /\ held \in [Threads -> 0 .. MaxNest]
  /\ slot \in [Threads -> Slots \cup {Null}]
  /\ finalised \in [Threads -> Nat]

\* Mutual exclusion, as the callers can tell: by the statuses the calls
\* returned at most one thread is in the section, and no call is unaccounted
\* for in the mutex.
Exclusive ==
  /\ \A t, u \in Threads : held[t] > 0 /\ held[u] > 0 => t = u
  /\ \A t \in Threads : held[t] = IF section.owner = t THEN section.depth ELSE 0

\* As far as the statuses tell, the section is a recursive lock: made once,
\* entered only by a thread that is in it alone, and deleted only when nobody
\* is in it, whatever the calls report and whoever makes them.
Lock == INSTANCE RecursiveLock WITH state <- section.state, entered <- held
ImplementsLock == Lock!Spec

\* No deadlock: a thread that has to wait waits for another one, which is in
\* the section and would not have to wait itself if it entered once more.
WaitsForOther ==
  \A t \in Threads :
    at[t] = "waiting" /\ Enter(section, t) = {}
      => \E u \in Threads \ {t} : held[u] > 0 /\ Enter(section, u) # {}

\* A thread uses the section only between its initialisation, which succeeded,
\* and its deletion, although each of the two is the business of another thread.
OnlyLive ==
  \A t \in Threads :
    at[t] \in {"publish", "outside", "waiting", "inside", "leaving"} => section.state = "live"

\* What the section and the counter protect: the check that there is no slot
\* and the allocation of one, several steps apart, are never done by two
\* threads at once, so that one slot serves them all; no more threads store
\* data than there are places; and each reads back its own.
StorageShared ==
  /\ Cardinality({k \in Slots : tls.slots[k] # "free"}) <= 1
  /\ index # Null => tls.slots[index] # "free"
  /\ Cardinality({t \in Threads : \E k \in Slots : tls.values[t][k] # Null}) <= Places
  /\ \A t \in Threads : index # Null => TlsGetValue(tls, t, index) \in {t, Null}

\* When all have ended each place is given back, by the thread or by the
\* destructor, which met no data twice; no data is left behind; the
\* section, if there ever was one, is deleted.
CleanedUp ==
  (\A t \in Threads : at[t] = "done")
    => /\ stored = 0 /\ users = 0
       /\ \A t \in Threads : finalised[t] <= 1 /\ \A k \in Slots : tls.values[t][k] = Null
       /\ section.state # "live"

\* Whatever the calls report every thread comes to its end, those waiting for
\* the section included, and the slot is free again.
Finishes == <>[](\A t \in Threads : at[t] = "done" /\ index = Null)
=============================================================================
