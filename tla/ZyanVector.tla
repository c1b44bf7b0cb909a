----------------------------- MODULE ZyanVector -----------------------------
(***************************************************************************)
(* One ZyanVector (src/src/Vector.c): a block of memory of which the first *)
(* `size` cells are elements, grown and shrunk through an allocator, or a  *)
(* fixed buffer of the caller.                                             *)
(*                                                                         *)
(* A call of the API is one action, the whole function with everything it  *)
(* calls.  `status` and `destroyed` report on the last call: the code it   *)
(* returned and the elements its destructor was invoked on, in order.      *)
(* `overrun` is raised when a call accesses memory outside its block; what *)
(* the program does then is undefined and the model stops there.           *)
(*                                                                         *)
(* The operations of the model are called on an initialised vector only    *)
(* (data # NULL), as the ZYAN_ASSERTs of the code demand, and with         *)
(* pointers that are not null.  A vector that is duplicated is another one: *)
(* of it the model knows the elements.                                     *)
(***************************************************************************)
EXTENDS ZyanAllocator

CONSTANTS MaxSize,            \* bound: elements a call may bring the vector to
          MaxCapacity,        \* bound: capacity Reserve is asked for
          GrowthFactors,      \* parameters InitEx is called with
          ShrinkThresholds,
          Capacities,
          BufferCapacities,   \* lengths of the buffers for InitCustomBuffer
          Destructors         \* whether Init is given a destructor

ASSUME VectorAssumption == /\ MaxSize \in Nat
                           /\ MaxCapacity \in Nat
                           /\ GrowthFactors \subseteq Nat
                           /\ ShrinkThresholds \subseteq Nat
                           /\ Capacities \subseteq Nat
                           /\ BufferCapacities \subseteq Nat
                           /\ Destructors \subseteq BOOLEAN

VARIABLES allocator,          \* "none" for a custom buffer
          growth_factor,
          shrink_threshold,
          size,
          capacity,
          destructor,         \* is there one?
          data,
          status,
          destroyed,
          overrun

config == <<allocator, growth_factor, shrink_threshold, destructor>>
vector == <<config, size, capacity, data>>
vars == <<allocator, growth_factor, shrink_threshold, size, capacity,
          destructor, data, status, destroyed, overrun>>

MinCapacity == 1

Max2(a, b) == IF a >= b THEN a ELSE b

Live == data # NULL /\ ~overrun

\* ZyanVectorGet and GetPointer: the element at an index, if there is one
Get(index) == IF index >= size THEN NULL
              ELSE IF index < Len(data) THEN data[index + 1] ELSE Undef

\* The elements of the vector, as its users see them
Contents == [i \in 1..size |-> Get(i - 1)]

\* Mutant: the destructor loop is off by one
DoomedOffByOne(index, count) ==
  IF destructor THEN [i \in 1..count |-> Get(index + i)] ELSE << >>

\* What the destructor is called on when `count` elements from `index` go
Doomed(index, count) ==
  IF destructor THEN [i \in 1..count |-> Get(index + i - 1)] ELSE << >>

-----------------------------------------------------------------------------
(* The allocation policy *)

\* Mutant: room for one element less
ShouldGrowLate(n) == n - 1 > capacity

ShouldGrow(n) == n > capacity
ShouldShrink(n) == shrink_threshold # 0 /\ n * shrink_threshold < capacity

\* Mutant: a custom buffer is taken to grow
ReallocateBuffer(p, n) ==
  LET c == Max2(n, MinCapacity) IN
  {[status |-> r.status, capacity |-> c,
    p |-> IF allocator = "none" THEN p ELSE r.p] : r \in Realloc(p, c)}

\* The outcomes of ZyanVectorReallocate for n elements, the block being p
Reallocate(p, n) ==
  IF allocator = "none"
    THEN {[status   |-> IF capacity < n THEN "INSUFFICIENT_BUFFER_SIZE"
                                        ELSE "SUCCESS",
           capacity |-> capacity, p |-> p]}
  ELSE IF n < MinCapacity /\ capacity <= MinCapacity
    THEN {[status |-> "SUCCESS", capacity |-> capacity, p |-> p]}
  ELSE LET c == Max2(n, MinCapacity)
       IN  {[status |-> r.status, capacity |-> c, p |-> r.p] :
              r \in Realloc(p, c)}

Kept(p) == {[status |-> "SUCCESS", capacity |-> capacity, p |-> p]}

\* Mutants: the capacity grows by the new size; growth unconditional
GrowToMore(n) ==
  IF ShouldGrow(n) THEN Reallocate(data, (capacity + n) * growth_factor)
                   ELSE Kept(data)
GrowAlways(n) == Reallocate(data, Max2(1, n * growth_factor))

\* Room for n elements in all before some are added
GrowTo(n) ==
  IF ShouldGrow(n) THEN Reallocate(data, Max2(1, n * growth_factor))
                   ELSE Kept(data)

\* Mutant: the size before the deletion decides
ShrinkToLate(p, n) ==
  IF ShouldShrink(n + 1) THEN Reallocate(p, Max2(1, n * growth_factor))
                         ELSE Kept(p)

\* Memory is given back once p holds n elements
ShrinkTo(p, n) ==
  IF ShouldShrink(n) THEN Reallocate(p, Max2(1, n * growth_factor))
                     ELSE Kept(p)

-----------------------------------------------------------------------------
(* How a call ends *)

Return(s) == status' = s /\ destroyed' = << >>

\* The call changes nothing
Refuse(s) == Return(s) /\ UNCHANGED <<vector, overrun>>

\* Mutant: the element is counted before the reallocation is checked
FailCounted(r) == /\ Return(r.status)
                  /\ capacity' = r.capacity
                  /\ data' = r.p
                  /\ size' = size + 1
                  /\ UNCHANGED <<config, overrun>>

\* Reallocation r failed before the call had changed an element
Fail(r) == /\ Return(r.status)
           /\ capacity' = r.capacity
           /\ data' = r.p
           /\ UNCHANGED <<config, size, overrun>>

\* The call leaves n elements in the cells `cells`, its last reallocation
\* having been r
Finish(r, cells, n) == /\ status' = r.status
                       /\ capacity' = r.capacity
                       /\ data' = cells
                       /\ size' = n
                       /\ UNCHANGED <<config, overrun>>

\* The call accesses memory outside of the block
Crash == overrun' = TRUE /\ UNCHANGED <<vector, status, destroyed>>

-----------------------------------------------------------------------------
(* Construction and destruction *)

\* A vector the caller has set to ZYAN_VECTOR_INITIALIZER
Init == /\ allocator = "none" /\ growth_factor = 0 /\ shrink_threshold = 0
        /\ size = 0 /\ capacity = 0 /\ destructor = FALSE /\ data = NULL
        /\ status = "SUCCESS" /\ destroyed = << >> /\ overrun = FALSE

\* A vector of its own memory, with room for c elements, that starts with
\* `elements`
InitWith(elements, c, growth, threshold, dtor) ==
  /\ data = NULL
  /\ IF growth < 1 THEN Refuse("INVALID_ARGUMENT")
     ELSE \E r \in Allocate(Max2(MinCapacity, c)) :
       IF r.status = "SUCCESS" /\ ~InBlock(r.p, 0, Len(elements)) THEN Crash
       ELSE /\ allocator' = "dynamic"
            /\ growth_factor' = growth
            /\ shrink_threshold' = threshold
            /\ size' = IF r.status = "SUCCESS" THEN Len(elements) ELSE 0
            /\ capacity' = Max2(MinCapacity, c)
            /\ destructor' = dtor
            /\ data' = MemCpy(r.p, 0, elements)
            /\ Return(r.status)
            /\ UNCHANGED overrun

InitEx(c, growth, threshold, dtor) ==
  InitWith(<< >>, c, growth, threshold, dtor)

\* Mutant: the capacity asked for is taken as it is
DuplicateExactly(elements, c, growth, threshold, dtor) ==
  InitWith(elements, c, growth, threshold, dtor)

\* The source is another vector, of the elements `elements`; the duplicate
\* has its destructor
DuplicateEx(elements, c, growth, threshold, dtor) ==
  InitWith(elements, Max2(c, Len(elements)), growth, threshold, dtor)

BufferWith(elements, c, dtor) ==
  /\ data = NULL
  /\ IF c = 0 THEN Refuse("INVALID_ARGUMENT")
     ELSE IF c < Len(elements) THEN Crash
     ELSE /\ allocator' = "none"
          /\ growth_factor' = 1
          /\ shrink_threshold' = 0
          /\ size' = Len(elements)
          /\ capacity' = c
          /\ destructor' = dtor
          /\ data' = MemCpy([i \in 1..c |-> Undef], 0, elements)
          /\ Return("SUCCESS")
          /\ UNCHANGED overrun

InitCustomBuffer(c, dtor) == BufferWith(<< >>, c, dtor)

DuplicateCustomBuffer(elements, c, dtor) ==
  IF c < Len(elements)
    THEN data = NULL /\ Refuse("INSUFFICIENT_BUFFER_SIZE")
    ELSE BufferWith(elements, c, dtor)

\* size and capacity keep their values; deallocation cannot fail
Destroy ==
  /\ Live
  /\ IF destructor /\ ~InBlock(data, 0, size) THEN Crash
     ELSE /\ data' = NULL
          /\ destroyed' = Doomed(0, size)
          /\ status' = "SUCCESS"
          /\ UNCHANGED <<config, size, capacity, overrun>>

-----------------------------------------------------------------------------
(* Insertion *)

PushBack(e) ==
  /\ Live /\ size + 1 <= MaxSize
  /\ \E r \in GrowTo(size + 1) :
       IF r.status # "SUCCESS" THEN Fail(r)
       ELSE IF ~InBlock(r.p, size, 1) THEN Crash
       ELSE /\ Finish(r, MemCpy(r.p, size, <<e>>), size + 1)
            /\ destroyed' = << >>

\* ZyanVectorShiftRight: make room for count elements at index
ShiftRight(p, index, count) ==
  IF index < size THEN MemMove(p, index + count, index, size - index) ELSE p

InsertRange(index, elements) ==
  LET count == Len(elements) IN
  /\ Live /\ size + count <= MaxSize
  /\ IF count = 0 THEN Refuse("INVALID_ARGUMENT")
     ELSE IF index > size THEN Refuse("OUT_OF_RANGE")
     ELSE \E r \in GrowTo(size + count) :
            IF r.status # "SUCCESS" THEN Fail(r)
            ELSE IF ~InBlock(r.p, index, size - index + count) THEN Crash
            ELSE /\ Finish(r, MemCpy(ShiftRight(r.p, index, count),
                                     index, elements),
                           size + count)
                 /\ destroyed' = << >>

\* The constructor's own status is what the call returns
Failed(r) == [status |-> "FAILED", capacity |-> r.capacity, p |-> r.p]

\* The new cell is handed out as it is, or to a constructor first
EmplaceEx(index, e, constructor) ==
  /\ Live /\ size + 1 <= MaxSize
  /\ IF index > size THEN Refuse("OUT_OF_RANGE")
     ELSE \E r \in GrowTo(size + 1) :
       LET shifted == ShiftRight(r.p, index, 1)
           built == MemCpy(shifted, index, <<e>>)
       IN IF r.status # "SUCCESS" THEN Fail(r)
          ELSE IF ~InBlock(r.p, index, size - index + 1) THEN Crash
          ELSE /\ destroyed' = << >>
               /\ \/ /\ constructor = "none"
                     /\ Finish(r, shifted, size + 1)
                  \/ /\ constructor = "succeeds"
                     /\ Finish(r, built, size + 1)
                  \/ /\ constructor = "fails"
                     /\ \E cells \in {shifted, built} :
                          Finish(Failed(r), cells, size)

-----------------------------------------------------------------------------
(* Modification *)

Set(index, e) ==
  /\ Live
  /\ IF index >= size THEN Refuse("OUT_OF_RANGE")
     ELSE IF ~InBlock(data, index, 1) THEN Crash
     ELSE /\ data' = MemCpy(data, index, <<e>>)
          /\ destroyed' = Doomed(index, 1)
          /\ status' = "SUCCESS"
          /\ UNCHANGED <<config, size, capacity, overrun>>

\* The cell after the last element is the temporary
SwapElements(first, second) ==
  LET t == MemCpy(data, size, <<Get(first)>>)
      a == MemCpy(t, first, <<Get(second)>>)
  IN
  /\ Live
  /\ IF first >= size \/ second >= size THEN Refuse("OUT_OF_RANGE")
     ELSE IF size = capacity THEN Refuse("INSUFFICIENT_BUFFER_SIZE")
     ELSE IF ~InBlock(data, size, 1) THEN Crash
     ELSE /\ data' = MemCpy(a, second, <<a[size + 1]>>)
          /\ Return("SUCCESS")
          /\ UNCHANGED <<config, size, capacity, overrun>>

-----------------------------------------------------------------------------
(* Deletion *)

\* Mutant: the last element is not moved
ShiftLeftShort(p, index, count) ==
  IF index + count < size
    THEN MemMove(p, index, index + count, size - index - count - 1) ELSE p

\* ZyanVectorShiftLeft: close the gap of count cells at index
ShiftLeft(p, index, count) ==
  IF index + count < size
    THEN MemMove(p, index, index + count, size - index - count) ELSE p

DeleteRange(index, count) ==
  LET touched == IF index + count < size THEN size - index
                 ELSE IF destructor THEN count ELSE 0 IN
  /\ Live
  /\ IF count = 0 THEN Refuse("INVALID_ARGUMENT")
     ELSE IF index + count > size THEN Refuse("OUT_OF_RANGE")
     ELSE IF ~InBlock(data, index, touched) THEN Crash
     ELSE /\ destroyed' = Doomed(index, count)
          /\ \E r \in ShrinkTo(ShiftLeft(data, index, count), size - count) :
               Finish(r, r.p, size - count)

PopBack ==
  /\ Live
  /\ IF size = 0 THEN Refuse("OUT_OF_RANGE")
     ELSE IF destructor /\ ~InBlock(data, size - 1, 1) THEN Crash
     ELSE /\ destroyed' = Doomed(size - 1, 1)
          /\ \E r \in ShrinkTo(data, size - 1) : Finish(r, r.p, size - 1)

-----------------------------------------------------------------------------
(* Memory management *)

\* The block for exactly n elements, when they were not n before
Resizing(n) == IF ShouldGrow(n) \/ ShouldShrink(n)
                 THEN Reallocate(data, n * growth_factor)
                 ELSE Kept(data)

\* The block for a reserve of n elements
Reserving(n) == IF n > capacity THEN Reallocate(data, n) ELSE Kept(data)

\* An empty initializer stands for ZYAN_NULL: new elements are what their
\* cells hold.  The destructor runs before the reallocation can fail.
ResizeEx(n, initializer) ==
  LET doomed == IF n < size THEN Doomed(n, size - n) ELSE << >>
      fresh == [i \in 1..(n - size) |-> initializer]
  IN
  /\ Live /\ n <= MaxSize
  /\ IF n = size THEN Refuse("SUCCESS")
     ELSE IF n < size /\ destructor /\ ~InBlock(data, n, size - n) THEN Crash
     ELSE \E r \in Resizing(n) :
       IF r.status # "SUCCESS"
         THEN Finish(r, r.p, size) /\ destroyed' = doomed
       ELSE IF n > size /\ initializer # NULL
         THEN IF ~InBlock(r.p, size, n - size) THEN Crash
              ELSE /\ Finish(r, MemCpy(r.p, size, fresh), n)
                   /\ destroyed' = << >>
       ELSE Finish(r, r.p, n) /\ destroyed' = doomed

\* Mutant: no check that the capacity grows
ReserveAlways(n) ==
  /\ Live
  /\ \E r \in Reallocate(data, n) : Finish(r, r.p, size) /\ destroyed' = << >>

Reserve(n) ==
  /\ Live
  /\ \E r \in Reserving(n) : Finish(r, r.p, size) /\ destroyed' = << >>

ShrinkToFit ==
  /\ Live
  /\ \E r \in Reallocate(data, size) :
       Finish(r, r.p, size) /\ destroyed' = << >>

-----------------------------------------------------------------------------
(* One past the last element is an index the checks must turn away. *)
Indices == 0..(size + 1)
Runs == UNION {[1..n -> Element] : n \in 0..2}

Construct ==
  \/ \E c \in Capacities, g \in GrowthFactors, t \in ShrinkThresholds,
         d \in Destructors :
       \/ InitEx(c, g, t, d)
       \/ \E run \in Runs : DuplicateEx(run, c, g, t, d)
  \/ \E c \in BufferCapacities, d \in Destructors :
       \/ InitCustomBuffer(c, d)
       \/ \E run \in Runs : DuplicateCustomBuffer(run, c, d)

Insertion ==
  \/ \E e \in Element : PushBack(e)
  \/ \E i \in Indices, run \in Runs : InsertRange(i, run)
  \/ \E i \in Indices, e \in Element, c \in {"none", "succeeds", "fails"} :
       EmplaceEx(i, e, c)

Modification ==
  \/ \E i \in Indices, e \in Element : Set(i, e)
  \/ \E i, j \in Indices : SwapElements(i, j)

Deletion ==
  \/ \E i, n \in Indices : DeleteRange(i, n)
  \/ PopBack

Management ==
  \/ \E n \in 0..MaxSize, e \in Element \cup {NULL} : ResizeEx(n, e)
  \/ \E n \in 0..MaxCapacity : Reserve(n)
  \/ ShrinkToFit

Next == \/ Construct \/ Destroy \/ Insertion \/ Modification
        \/ Deletion \/ Management

Spec == Init /\ [][Next]_vars
-----------------------------------------------------------------------------
(* Properties *)

Statuses == {"SUCCESS", "INVALID_ARGUMENT", "OUT_OF_RANGE", "FAILED",
             "INSUFFICIENT_BUFFER_SIZE", "NOT_ENOUGH_MEMORY"}

\* Every variable holds a value of its type.
TypeOK == /\ allocator \in {"none", "dynamic"}
          /\ growth_factor \in Nat
          /\ shrink_threshold \in Nat
          /\ size \in Nat
          /\ capacity \in Nat
          /\ destructor \in BOOLEAN
          /\ data \in Block
          /\ status \in Statuses
          /\ destroyed \in Seq(Cell)
          /\ overrun \in BOOLEAN

\* The capacity an initialised vector records, the number every check of the
\* code goes by, is that of cells its block really has (Vector.h:94: "The
\* maximum capacity (number of elements)"), and the elements are within it.
CapacityAllocated == Live => size <= capacity /\ capacity <= Len(data)

\* No call of the API reads or writes memory outside the vector's block: the
\* shifts, copies and the swap's temporary stay within what was allocated, and
\* every call leaves the vector with a capacity that the next can go by.
MemorySafe == ~overrun /\ CapacityAllocated

\* The growth and shrink policies do not chase each other: after the block
\* has grown for one more element, removing it does not shrink the block;
\* after it has shrunk for one element less, adding one does not grow it.
NoThrashing ==
  [][LET moved == Live /\ allocator = "dynamic" /\ status' = "SUCCESS" IN
     /\ moved /\ size' = size + 1 /\ Len(data') > Len(data)
          => shrink_threshold = 0 \/ Len(data') <= size * shrink_threshold
     /\ moved /\ data' # NULL /\ size' = size - 1 /\ Len(data') < Len(data)
          => size <= Len(data')]_vars

\* With dynamic shrinking on, a deletion never leaves a vector holding more
\* than shrink_threshold times the memory its elements need.
WasteBounded ==
  [][Live /\ data' # NULL /\ size' < size /\ shrink_threshold # 0
       => capacity' <= Max2(1, size' * shrink_threshold)]_vars

\* With shrinking off, a call that adds elements never gives back capacity
\* the vector already has: what Reserve made room for is still there
\* (Vector.h:675: "The new minimum capacity of the vector").
ReservationKept ==
  [][Live /\ shrink_threshold = 0 /\ size' > size => capacity' >= capacity]_vars

\* The vector implements the sequence of elements.
Sequence ==
  INSTANCE ElementSequence
    WITH AllocatorMayFail <- AllocatorFailures # "never",
         alive <- data # NULL, owning <- destructor,
         seq <- IF data # NULL THEN Contents ELSE << >>
ImplementsSequence == Sequence!Spec

\* Each call does what its namesake of the sequence does: it splices in what
\* it was given where it was told to, answers what it should, and destroys
\* the elements that leave, in order and no others.
CallsImplement ==
  [][~overrun' =>
     /\ \A e \in Element : PushBack(e) => Sequence!PushBack(e)
     /\ \A i \in Indices, run \in Runs :
          InsertRange(i, run) => Sequence!InsertRange(i, run)
     /\ \A i \in Indices, e \in Element, c \in {"none", "succeeds", "fails"} :
          EmplaceEx(i, e, c) => Sequence!EmplaceEx(i, e, c)
     /\ \A i \in Indices, e \in Element : Set(i, e) => Sequence!Set(i, e)
     /\ \A i, j \in Indices :
          /\ SwapElements(i, j) => Sequence!SwapElements(i, j)
          /\ DeleteRange(i, j) => Sequence!DeleteRange(i, j)
     /\ PopBack => Sequence!PopBack
     /\ \A n \in 0..MaxSize, e \in Element \cup {NULL} :
          ResizeEx(n, e) => Sequence!ResizeEx(n, e)
     /\ \A run \in Runs, c \in Capacities, g \in GrowthFactors,
            t \in ShrinkThresholds, d \in Destructors :
          DuplicateEx(run, c, g, t, d) => Sequence!Duplicate(run)
     /\ \A run \in Runs, c \in BufferCapacities, d \in Destructors :
          DuplicateCustomBuffer(run, c, d) => Sequence!Duplicate(run)
     /\ Destroy => Sequence!Destroy]_vars
=============================================================================
