--------------------------- MODULE ZyanAllocator ---------------------------
(***************************************************************************)
(* Memory blocks and the allocator interface (src/src/Allocator.c).        *)
(*                                                                         *)
(* A block is the sequence of the cells it holds, one cell per element, so *)
(* that a model that forgets to ask for memory runs out of the sequence's  *)
(* domain.  The null pointer is the empty block: no operation ever         *)
(* allocates zero elements.  Positions count from zero, as in the code.    *)
(*                                                                         *)
(* The callbacks of an allocator are nondeterministic: an operator         *)
(* returns the set of the outcomes its C function may have.                *)
(***************************************************************************)
EXTENDS Integers, Sequences

CONSTANTS Element,            \* the values an element can hold
          Undef,              \* what a cell holds that nobody wrote
          AllocatorFailures   \* which requests may be refused: none ("never"),
                              \* those for more memory ("growing"), or any

Cell == Element \cup {Undef}
Block == Seq(Cell)
NULL == << >>

ASSUME AllocatorAssumption == /\ NULL \notin Cell
                              /\ AllocatorFailures \in {"never", "growing", "any"}

MayRefuse(old, new) == \/ AllocatorFailures = "any"
                       \/ AllocatorFailures = "growing" /\ new > old

(***************************************************************************)
(* ZyanAllocatorDefaultAllocate: n fresh cells, or no block at all.        *)
(***************************************************************************)
Allocate(n) ==
  {[status |-> "SUCCESS", p |-> [i \in 1..n |-> Undef]]}
    \cup IF MayRefuse(0, n)
           THEN {[status |-> "NOT_ENOUGH_MEMORY", p |-> NULL]} ELSE {}

(***************************************************************************)
(* ZyanAllocatorDefaultReallocate: *p moves to a block of n cells that     *)
(* starts with the old ones; when it fails, *p keeps its value.            *)
(***************************************************************************)
Resized(p, n) == [i \in 1..n |-> IF i <= Len(p) THEN p[i] ELSE Undef]

Realloc(p, n) ==
  {[status |-> "SUCCESS", p |-> Resized(p, n)]}
    \cup IF MayRefuse(Len(p), n)
           THEN {[status |-> "NOT_ENOUGH_MEMORY", p |-> p]} ELSE {}

-----------------------------------------------------------------------------
(***************************************************************************)
(* The C library's block operations.  InBlock says that an access to the n *)
(* cells from position pos stays inside the block; outside, what the       *)
(* program does is undefined.                                              *)
(***************************************************************************)
InBlock(p, pos, n) == n = 0 \/ pos + n <= Len(p)

\* ZYAN_MEMCPY of the elements `cells` to position pos
MemCpy(p, pos, cells) ==
  [i \in 1..Len(p) |-> IF i \in (pos + 1)..(pos + Len(cells))
                         THEN cells[i - pos] ELSE p[i]]

\* ZYAN_MEMMOVE of n elements from position src to position dst
MemMove(p, dst, src, n) ==
  [i \in 1..Len(p) |-> IF i \in (dst + 1)..(dst + n)
                         THEN p[i - dst + src] ELSE p[i]]
=============================================================================
