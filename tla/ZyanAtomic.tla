----------------------------- MODULE ZyanAtomic -----------------------------
(***************************************************************************)
(* The interlocked operations of Internal/AtomicGNU.h: each of them is one *)
(* indivisible step on a word.  An operator gives the word after the step, *)
(* "value", and what the function returns, "result".  Word is the number   *)
(* of values of the type: the pointer-sized, the 32-bit and the 64-bit     *)
(* functions differ in nothing else.                                       *)
(***************************************************************************)
EXTENDS Integers

CONSTANT Word

ASSUME WordAssumption == Word \in Nat \ {0}

\* Mutant: the result is the value left behind.
CompareExchangeNew(word, comparand, new) ==
  LET left == IF word = comparand THEN new ELSE word
  IN  [value |-> left, result |-> left]

\* __sync_val_compare_and_swap: the result is the value found, and the
\* exchange took place exactly when that is the comparand.
CompareExchange(word, comparand, new) ==
  [value |-> IF word = comparand THEN new ELSE word, result |-> word]

\* Mutant: the result of __sync_fetch_and_add without the one added to it.
IncrementOld(word) == [value |-> (word + 1) % Word, result |-> word]

Increment(word) ==
  LET new == (word + 1) % Word IN [value |-> new, result |-> new]

\* Mutant: __sync_fetch_and_sub instead of __sync_sub_and_fetch.
DecrementOld(word) == [value |-> (word - 1) % Word, result |-> word]

Decrement(word) ==
  LET new == (word - 1) % Word IN [value |-> new, result |-> new]
=============================================================================
