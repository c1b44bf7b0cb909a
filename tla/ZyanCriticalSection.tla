------------------------ MODULE ZyanCriticalSection -------------------------
(***************************************************************************)
(* API/Synchronization.c on POSIX: a critical section is a pthread mutex   *)
(* of the recursive kind.  Every operator maps a section and the calling   *)
(* thread to the set of outcomes of the call, each with the section it     *)
(* leaves and the status it returns; a call that blocks has no outcome.    *)
(* The mutex is not part of the repository: it is the operators whose name *)
(* begins with Mutex, as the functions here use them.                      *)
(***************************************************************************)
EXTENDS Integers

CONSTANTS NoThread,       \* the owner of a section nobody is in
          MaxRecursion,   \* how often its owner can enter a mutex
          KindRefused     \* whether a system may refuse the recursive kind

ASSUME MaxRecursionAssumption == MaxRecursion \in Nat \ {0}
ASSUME KindRefusedAssumption  == KindRefused \in BOOLEAN

Sections(Threads) ==
  [state : {"raw", "live", "deleted"}, recursive : BOOLEAN,
   owner : Threads \cup {NoThread}, depth : 0 .. MaxRecursion]

Raw == [state |-> "raw", recursive |-> FALSE, owner |-> NoThread, depth |-> 0]

Outcome(section, error) == [section |-> section, error |-> error]

\* A mutex just made, recursive or of the default kind.
NewMutex(recursive) == [Raw EXCEPT !.state = "live", !.recursive = recursive]

MutexInit(s, recursive) ==
  {Outcome(NewMutex(recursive), "none")}
    \cup {Outcome(s, error) : error \in {"ENOMEM", "EAGAIN", "EPERM", "EBUSY", "EINVAL", "other"}}

Taken(s, t) == [s EXCEPT !.owner = t, !.depth = @ + 1]

Free(s) == s.owner = NoThread

Owned(s, t) == s.owner = t /\ s.recursive

Gains(s, t) ==
  IF Free(s) \/ (Owned(s, t) /\ s.depth < MaxRecursion)
  THEN {Outcome(Taken(s, t), "none")} ELSE {}

Exhausted(s, t) ==
  IF Owned(s, t) /\ s.depth = MaxRecursion THEN {Outcome(s, "EAGAIN")} ELSE {}

MutexLock(s, t) == Gains(s, t) \cup Exhausted(s, t)

MutexTryLock(s, t) ==
  MutexLock(s, t) \cup IF MutexLock(s, t) = {} THEN {Outcome(s, "EBUSY")} ELSE {}

MutexUnlock(s, t) ==
  IF s.owner = t
  THEN {Outcome([s EXCEPT !.owner = IF s.depth = 1 THEN NoThread ELSE t,
                          !.depth = @ - 1], "none")}
  ELSE {Outcome(s, "EPERM")}

MutexDestroy(s) ==
  {IF Free(s) THEN Outcome([s EXCEPT !.state = "deleted"], "none") ELSE Outcome(s, "EBUSY")}

-----------------------------------------------------------------------------
(* The status of a call is that of the error the system reports.           *)

InitializeStatus(error) ==
  CASE error = "none"               -> "SUCCESS"
    [] error = "EAGAIN"             -> "OUT_OF_RESOURCES"
    [] error = "ENOMEM"             -> "NOT_ENOUGH_MEMORY"
    [] error = "EPERM"              -> "ACCESS_DENIED"
    [] error \in {"EBUSY", "EINVAL"} -> "INVALID_ARGUMENT"
    [] OTHER                        -> "BAD_SYSTEMCALL"

EnterStatus(error) ==
  CASE error = "none"   -> "SUCCESS"
    [] error = "EINVAL" -> "INVALID_ARGUMENT"
    [] error = "EAGAIN" -> "INVALID_OPERATION"
    [] OTHER            -> "BAD_SYSTEMCALL"

TryEnterStatus(error) == IF error = "none" THEN "SUCCESS" ELSE "FALSE"

LeaveStatus(error) ==
  CASE error = "none"   -> "SUCCESS"
    [] error = "EINVAL" -> "INVALID_ARGUMENT"
    [] error = "EPERM"  -> "INVALID_OPERATION"
    [] OTHER            -> "BAD_SYSTEMCALL"

DeleteStatus(error) ==
  CASE error = "none"               -> "SUCCESS"
    [] error \in {"EBUSY", "EINVAL"} -> "INVALID_ARGUMENT"
    [] OTHER                        -> "BAD_SYSTEMCALL"

\* The attribute that asks for a recursive mutex can itself fail to be
\* initialised; only that of memory has a status of its own.
AttributeFails(s) ==
  {[section |-> s, status |-> status] : status \in {"NOT_ENOUGH_MEMORY", "BAD_SYSTEMCALL"}}

\* Whether the attribute asks for a recursive mutex once its type is set: the
\* result of pthread_mutexattr_settype is ignored, so that a refusal leaves
\* the default kind and the initialisation goes on.
AttributeKinds == IF KindRefused THEN BOOLEAN ELSE {TRUE}

Initializations(made) ==
  {[section |-> o.section, status |-> InitializeStatus(o.error)] : o \in made}

\* Mutant: pthread_mutexattr_settype is not called.
InitializePlain(s) == AttributeFails(s) \cup Initializations(MutexInit(s, FALSE))

\* Mutant: the result of pthread_mutex_init is not looked at.
InitializeUnchecked(s) ==
  AttributeFails(s)
    \cup {[section |-> o.section, status |-> "SUCCESS"] : o \in MutexInit(s, TRUE)}

Initialize(s) ==
  AttributeFails(s)
    \cup UNION {Initializations(MutexInit(s, recursive)) : recursive \in AttributeKinds}

Enter(s, t) ==
  {[section |-> o.section, status |-> EnterStatus(o.error)] : o \in MutexLock(s, t)}

\* Mutant: the two results of the conditional expression swapped.
TryEnterSwapped(s, t) ==
  {[section |-> o.section, status |-> IF o.error = "none" THEN "FALSE" ELSE "SUCCESS"]
     : o \in MutexTryLock(s, t)}

TryEnter(s, t) ==
  {[section |-> o.section, status |-> TryEnterStatus(o.error)] : o \in MutexTryLock(s, t)}

\* Mutant: leaving a section of someone else reported as done.
LeaveIgnoring(s, t) ==
  {[section |-> o.section, status |-> "SUCCESS"] : o \in MutexUnlock(s, t)}

Leave(s, t) ==
  {[section |-> o.section, status |-> LeaveStatus(o.error)] : o \in MutexUnlock(s, t)}

\* Mutant: the error of a section still in use is not looked at.
DeleteUnchecked(s) ==
  {[section |-> [o.section EXCEPT !.state = "deleted"], status |-> "SUCCESS"] : o \in MutexDestroy(s)}

Delete(s) ==
  {[section |-> o.section, status |-> DeleteStatus(o.error)] : o \in MutexDestroy(s)}
=============================================================================
