----------------------------- MODULE ZyanThread -----------------------------
(***************************************************************************)
(* The thread-local storage of API/Thread.c on POSIX: a slot is a pthread  *)
(* key.  "slots" says which keys are in use, and with a destructor or not; *)
(* "values" holds what each thread keeps under each key.  As in            *)
(* ZyanCriticalSection an operator gives the outcomes of a call, and the   *)
(* operators named Key... and Destructors stand for the system.            *)
(***************************************************************************)
CONSTANTS Threads, Slots,
          Null       \* the value of a slot nothing was stored in

Storages(Data) ==
  [slots : [Slots -> {"free", "plain", "finalised"}],
   values : [Threads -> [Slots -> Data \cup {Null}]]]

Fresh == [slots  |-> [k \in Slots |-> "free"],
          values |-> [t \in Threads |-> [k \in Slots |-> Null]]]

\* A new key has the null value in every thread, whatever an earlier use of
\* it left behind.
KeyCreate(tls, kind) ==
  {[storage |-> [slots  |-> [tls.slots EXCEPT ![k] = kind],
                 values |-> [t \in Threads |-> [tls.values[t] EXCEPT ![k] = Null]]],
    index |-> k, error |-> "none"] : k \in {k \in Slots : tls.slots[k] = "free"}}
  \cup {[storage |-> tls, index |-> Null, error |-> error] : error \in {"EAGAIN", "ENOMEM", "other"}}

AllocStatus(error) ==
  CASE error = "none"   -> "SUCCESS"
    [] error = "EAGAIN" -> "OUT_OF_RESOURCES"
    [] error = "ENOMEM" -> "NOT_ENOUGH_MEMORY"
    [] OTHER            -> "BAD_SYSTEMCALL"

SetStatus(error) ==
  CASE error = "none"   -> "SUCCESS"
    [] error = "EINVAL" -> "INVALID_ARGUMENT"
    [] OTHER            -> "BAD_SYSTEMCALL"

Allocations(created) ==
  {[storage |-> o.storage, index |-> o.index, status |-> AllocStatus(o.error)] : o \in created}

\* Mutant: the destructor is not handed on to pthread_key_create.
TlsAllocPlain(tls) == Allocations(KeyCreate(tls, "plain"))

\* A slot with a destructor; the index is written on success only.
TlsAlloc(tls) == Allocations(KeyCreate(tls, "finalised"))

\* Deleting a key calls no destructor; one that is not in use is refused.
KeyDelete(tls, k) ==
  {IF tls.slots[k] = "free" THEN [storage |-> tls, error |-> "EINVAL"]
   ELSE [storage |-> [tls EXCEPT !.slots[k] = "free"], error |-> "none"]}

FreeStatus(error) == IF error = "none" THEN "SUCCESS" ELSE "BAD_SYSTEMCALL"

TlsFree(tls, k) ==
  {[storage |-> o.storage, status |-> FreeStatus(o.error)] : o \in KeyDelete(tls, k)}

TlsGetValue(tls, t, k) == tls.values[t][k]

KeySet(tls, t, k, data) ==
  IF tls.slots[k] = "free" THEN {[storage |-> tls, error |-> "EINVAL"]}
  ELSE {[storage |-> [tls EXCEPT !.values[t][k] = data], error |-> "none"],
        [storage |-> tls, error |-> "ENOMEM"]}

\* Mutant: the result of pthread_setspecific is not looked at.
TlsSetValueUnchecked(tls, t, k, data) ==
  {[storage |-> o.storage, status |-> "SUCCESS"] : o \in KeySet(tls, t, k, data)}

TlsSetValue(tls, t, k, data) ==
  {[storage |-> o.storage, status |-> SetStatus(o.error)] : o \in KeySet(tls, t, k, data)}

\* The values a thread that ends hands to the destructors: those that are
\* not null, in the slots that have one.
Destructors(tls, t) ==
  {tls.values[t][k] : k \in {k \in Slots : tls.slots[k] = "finalised"}} \ {Null}

\* The storage without the values of a thread that has ended.
Ended(tls, t) == [tls EXCEPT !.values[t] = [k \in Slots |-> Null]]
=============================================================================
