-------------------------- MODULE ZyanVectorProofs --------------------------
(***************************************************************************)
(* Theorems about ZyanVector, for every value of its constants: that its   *)
(* block is there and well formed, what a call may do to the block, by the *)
(* policies it grows and shrinks by, and which call of ElementSequence the *)
(* call implements.                                                        *)
(***************************************************************************)
EXTENDS ZyanVector, SequenceTheorems, TLAPS

-----------------------------------------------------------------------------
(* The block operations yield blocks, of the length one expects. *)

LEMMA FreshType ==
  ASSUME NEW n \in Nat
  PROVE  /\ [i \in 1..n |-> Undef] \in Block
         /\ Len([i \in 1..n |-> Undef]) = n
BY DEF Block, Cell

LEMMA ResizedType ==
  ASSUME NEW p \in Block, NEW n \in Nat
  PROVE  Resized(p, n) \in Block /\ Len(Resized(p, n)) = n
BY DEF Resized, Block, Cell

LEMMA MemCpyType ==
  ASSUME NEW p \in Block, NEW pos \in Nat, NEW cells \in Block
  PROVE  MemCpy(p, pos, cells) \in Block /\ Len(MemCpy(p, pos, cells)) = Len(p)
BY DEF MemCpy, Block

LEMMA MemMoveType ==
  ASSUME NEW p \in Block, NEW dst \in Nat, NEW src \in Nat, NEW n \in Nat,
         src + n <= Len(p)
  PROVE  /\ MemMove(p, dst, src, n) \in Block
         /\ Len(MemMove(p, dst, src, n)) = Len(p)
BY DEF MemMove, Block

\* The two shifts stay in the block if the elements do.
LEMMA ShiftType ==
  ASSUME TypeOK, NEW p \in Block, size <= Len(p),
         NEW index \in Nat, NEW count \in Nat
  PROVE  /\ ShiftRight(p, index, count) \in Block
         /\ Len(ShiftRight(p, index, count)) = Len(p)
         /\ ShiftLeft(p, index, count) \in Block
         /\ Len(ShiftLeft(p, index, count)) = Len(p)
<1>1. size \in Nat BY DEF TypeOK
<1>2. CASE index < size
  <2>1. MemMove(p, index + count, index, size - index) \in Block
        /\ Len(MemMove(p, index + count, index, size - index)) = Len(p)
    BY <1>1, <1>2, MemMoveType
  <2>2. ASSUME index + count < size
        PROVE  /\ MemMove(p, index, index + count, size - index - count) \in Block
               /\ Len(MemMove(p, index, index + count, size - index - count))
                    = Len(p)
    BY <1>1, <2>2, MemMoveType
  <2> QED BY <1>2, <2>1, <2>2 DEF ShiftRight, ShiftLeft
<1>3. CASE ~(index < size)
  <2>1. ~(index + count < size) BY <1>1, <1>3
  <2> QED BY <1>3, <2>1 DEF ShiftRight, ShiftLeft
<1> QED BY <1>2, <1>3

\* What the destructor sees are cells.
LEMMA DoomedType ==
  ASSUME TypeOK, NEW index \in Nat, NEW count \in Nat, index + count <= size
  PROVE  Doomed(index, count) \in Seq(Cell)
<1>1. \A i \in 1..count : Get(index + i - 1) \in Cell
  BY DEF Get, TypeOK, Block, Cell
<1> QED BY <1>1 DEF Doomed

-----------------------------------------------------------------------------
(* What a reallocation can bring about. *)

LEMMA ReallocateType ==
  ASSUME TypeOK, NEW p \in Block, NEW n \in Nat, NEW r \in Reallocate(p, n)
  PROVE  r.status \in Statuses /\ r.capacity \in Nat /\ r.p \in Block
<1>1. CASE allocator = "none"
  BY <1>1 DEF Reallocate, TypeOK, Statuses
<1>2. CASE allocator # "none" /\ n < MinCapacity /\ capacity <= MinCapacity
  BY <1>2 DEF Reallocate, TypeOK, Statuses
<1>3. CASE allocator # "none" /\ ~(n < MinCapacity /\ capacity <= MinCapacity)
  <2> DEFINE c == Max2(n, MinCapacity)
  <2>1. c \in Nat BY DEF Max2, MinCapacity
  <2>2. PICK x \in Realloc(p, c) :
          r = [status |-> x.status, capacity |-> c, p |-> x.p]
    BY <1>3 DEF Reallocate
  <2>3. x.status \in Statuses /\ x.p \in Block
    BY <2>1, ResizedType, SMTT(30) DEF Realloc, Statuses
  <2> QED BY <2>1, <2>2, <2>3
<1> QED BY <1>1, <1>2, <1>3

LEMMA KeptType ==
  ASSUME TypeOK, NEW p \in Block, NEW r \in Kept(p)
  PROVE  r.status \in Statuses /\ r.capacity \in Nat /\ r.p \in Block
BY DEF Kept, TypeOK, Statuses

LEMMA RequestType ==
  ASSUME TypeOK, NEW n \in Nat
  PROVE  n * growth_factor \in Nat /\ Max2(1, n * growth_factor) \in Nat
BY DEF TypeOK, Max2

LEMMA GrowToType ==
  ASSUME TypeOK, NEW n \in Nat, NEW r \in GrowTo(n)
  PROVE  r.status \in Statuses /\ r.capacity \in Nat /\ r.p \in Block
BY ReallocateType, KeptType, RequestType DEF GrowTo, TypeOK

LEMMA ShrinkToType ==
  ASSUME TypeOK, NEW p \in Block, NEW n \in Nat, NEW r \in ShrinkTo(p, n)
  PROVE  r.status \in Statuses /\ r.capacity \in Nat /\ r.p \in Block
BY ReallocateType, KeptType, RequestType DEF ShrinkTo, TypeOK

LEMMA RunsType ==
  ASSUME NEW run \in Runs
  PROVE  run \in Seq(Element) /\ run \in Block
<1>1. PICK n \in 0..2 : run \in [1..n -> Element]
  BY DEF Runs
<1>2. run \in Seq(Element)
  BY <1>1
<1> QED BY <1>1, <1>2 DEF Block, Cell

LEMMA SingletonType ==
  ASSUME NEW e \in Cell
  PROVE  <<e>> \in Block /\ Len(<<e>>) = 1
BY DEF Block

-----------------------------------------------------------------------------
(* The ends of a call keep the types. *)

LEMMA RefuseType ==
  ASSUME TypeOK, NEW s \in Statuses, Refuse(s)
  PROVE  TypeOK'
BY DEF TypeOK, Refuse, Return, vector, config

LEMMA FailType ==
  ASSUME TypeOK, NEW r, Fail(r),
         r.status \in Statuses, r.capacity \in Nat, r.p \in Block
  PROVE  TypeOK'
BY DEF TypeOK, Fail, Return, config

LEMMA FinishType ==
  ASSUME TypeOK, NEW r, NEW cells \in Block, NEW n \in Nat,
         r.status \in Statuses, r.capacity \in Nat,
         Finish(r, cells, n), destroyed' \in Seq(Cell)
  PROVE  TypeOK'
BY DEF TypeOK, Finish, config

LEMMA CrashType ==
  ASSUME TypeOK, Crash
  PROVE  TypeOK'
BY DEF TypeOK, Crash, vector, config

-----------------------------------------------------------------------------
(* Every call keeps the types, whatever the allocator does. *)

LEMMA AllocateType ==
  ASSUME NEW n \in Nat, NEW r \in Allocate(n)
  PROVE  /\ r.status \in Statuses /\ r.p \in Block
         /\ r.status = "SUCCESS" => Len(r.p) = n
<1>1. \/ r = [status |-> "SUCCESS", p |-> [i \in 1..n |-> Undef]]
      \/ r = [status |-> "NOT_ENOUGH_MEMORY", p |-> NULL]
  BY DEF Allocate
<1>2. NULL \in Block BY DEF NULL, Block
<1> QED BY <1>1, <1>2, FreshType DEF Statuses

LEMMA InitWithType ==
  ASSUME TypeOK, NEW elements \in Block, NEW c \in Nat, NEW g \in Nat,
         NEW t \in Nat, NEW d \in BOOLEAN, InitWith(elements, c, g, t, d)
  PROVE  TypeOK'
<1>1. CASE g < 1
  BY <1>1, RefuseType DEF InitWith, Statuses
<1>2. CASE ~(g < 1)
  <2> DEFINE n == Max2(MinCapacity, c)
  <2>1. n \in Nat BY DEF Max2, MinCapacity
  <2>2. PICK r \in Allocate(n) :
          IF r.status = "SUCCESS" /\ ~InBlock(r.p, 0, Len(elements)) THEN Crash
          ELSE /\ allocator' = "dynamic" /\ growth_factor' = g
               /\ shrink_threshold' = t
               /\ size' = IF r.status = "SUCCESS" THEN Len(elements) ELSE 0
               /\ capacity' = n /\ destructor' = d
               /\ data' = MemCpy(r.p, 0, elements)
               /\ Return(r.status) /\ overrun' = overrun
    BY <1>2 DEF InitWith
  <2>3. /\ r.status \in Statuses /\ r.p \in Block
        /\ Len(elements) \in Nat /\ << >> \in Seq(Cell)
    BY <2>1, AllocateType DEF Block
  <2>4. MemCpy(r.p, 0, elements) \in Block
    BY <2>3, MemCpyType
  <2>5. CASE r.status = "SUCCESS" /\ ~InBlock(r.p, 0, Len(elements))
    BY <2>2, <2>5, CrashType
  <2>6. CASE ~(r.status = "SUCCESS" /\ ~InBlock(r.p, 0, Len(elements)))
    <3> HIDE DEF n
    <3>1. /\ allocator' = "dynamic" /\ growth_factor' = g
          /\ shrink_threshold' = t /\ capacity' = n /\ destructor' = d
          /\ size' = IF r.status = "SUCCESS" THEN Len(elements) ELSE 0
          /\ data' = MemCpy(r.p, 0, elements)
          /\ status' = r.status /\ destroyed' = << >> /\ overrun' = overrun
      BY <2>2, <2>6 DEF Return
    <3>2. size' \in Nat BY <2>3, <3>1
    <3> QED BY <2>1, <2>3, <2>4, <3>1, <3>2 DEF TypeOK
  <2> QED BY <2>5, <2>6
<1> QED BY <1>1, <1>2

LEMMA BufferWithType ==
  ASSUME TypeOK, NEW elements \in Block, NEW c \in Nat, NEW d \in BOOLEAN,
         BufferWith(elements, c, d)
  PROVE  TypeOK'
<1>1. CASE c = 0
  BY <1>1, RefuseType DEF BufferWith, Statuses
<1>2. CASE c # 0 /\ c < Len(elements)
  BY <1>2, CrashType DEF BufferWith
<1>3. CASE c # 0 /\ ~(c < Len(elements))
  <2>1. /\ allocator' = "none" /\ growth_factor' = 1
        /\ shrink_threshold' = 0 /\ size' = Len(elements) /\ capacity' = c
        /\ destructor' = d
        /\ data' = MemCpy([i \in 1..c |-> Undef], 0, elements)
        /\ Return("SUCCESS") /\ overrun' = overrun
    BY <1>3 DEF BufferWith
  <2>2. MemCpy([i \in 1..c |-> Undef], 0, elements) \in Block
    BY FreshType, MemCpyType
  <2>3. Len(elements) \in Nat /\ << >> \in Seq(Cell)
    BY DEF Block
  <2> QED BY <2>1, <2>2, <2>3 DEF TypeOK, Return, Statuses
<1> QED BY <1>1, <1>2, <1>3

LEMMA ConstructType ==
  ASSUME TypeOK, Construct
  PROVE  TypeOK'
<1>1. ASSUME NEW c \in Capacities, NEW g \in GrowthFactors,
             NEW t \in ShrinkThresholds, NEW d \in Destructors,
             InitEx(c, g, t, d) \/ \E run \in Runs : DuplicateEx(run, c, g, t, d)
      PROVE  TypeOK'
  <2>1. c \in Nat /\ g \in Nat /\ t \in Nat /\ d \in BOOLEAN
    BY VectorAssumption
  <2>2. << >> \in Block BY DEF Block
  <2>3. ASSUME NEW run \in Runs, DuplicateEx(run, c, g, t, d)
        PROVE  TypeOK'
    <3>1. run \in Block /\ Len(run) \in Nat BY RunsType DEF Block
    <3>2. Max2(c, Len(run)) \in Nat BY <2>1, <3>1 DEF Max2
    <3> QED BY <2>1, <2>3, <3>1, <3>2, InitWithType DEF DuplicateEx
  <2> QED BY <1>1, <2>1, <2>2, <2>3, InitWithType DEF InitEx
<1>2. ASSUME NEW c \in BufferCapacities, NEW d \in Destructors,
             InitCustomBuffer(c, d)
               \/ \E run \in Runs : DuplicateCustomBuffer(run, c, d)
      PROVE  TypeOK'
  <2>1. c \in Nat /\ d \in BOOLEAN BY VectorAssumption
  <2>2. << >> \in Block BY DEF Block
  <2>3. ASSUME NEW run \in Runs, DuplicateCustomBuffer(run, c, d)
        PROVE  TypeOK'
    <3>1. run \in Block BY RunsType
    <3>2. CASE c < Len(run)
      <4>1. Refuse("INSUFFICIENT_BUFFER_SIZE")
        BY <2>3, <3>2 DEF DuplicateCustomBuffer
      <4>2. "INSUFFICIENT_BUFFER_SIZE" \in Statuses BY DEF Statuses
      <4> QED BY <4>1, <4>2, RefuseType
    <3>3. CASE ~(c < Len(run))
      BY <2>1, <2>3, <3>1, <3>3, BufferWithType DEF DuplicateCustomBuffer
    <3> QED BY <3>2, <3>3
  <2> QED BY <1>2, <2>1, <2>2, <2>3, BufferWithType DEF InitCustomBuffer
<1> QED BY <1>1, <1>2 DEF Construct

LEMMA DestroyType ==
  ASSUME TypeOK, Destroy
  PROVE  TypeOK'
<1>1. CASE destructor /\ ~InBlock(data, 0, size)
  BY <1>1, CrashType DEF Destroy
<1>2. CASE ~(destructor /\ ~InBlock(data, 0, size))
  <2>1. Doomed(0, size) \in Seq(Cell)
    BY DoomedType DEF TypeOK
  <2>2. /\ data' = NULL /\ destroyed' = Doomed(0, size)
        /\ status' = "SUCCESS"
        /\ UNCHANGED <<config, size, capacity, overrun>>
    BY <1>2 DEF Destroy
  <2> QED BY <2>1, <2>2 DEF TypeOK, NULL, Block, Statuses, config
<1> QED BY <1>1, <1>2

LEMMA PushBackType ==
  ASSUME TypeOK, NEW e \in Element, PushBack(e)
  PROVE  TypeOK'
<1>1. PICK r \in GrowTo(size + 1) :
        IF r.status # "SUCCESS" THEN Fail(r)
        ELSE IF ~InBlock(r.p, size, 1) THEN Crash
        ELSE /\ Finish(r, MemCpy(r.p, size, <<e>>), size + 1)
             /\ destroyed' = << >>
  BY DEF PushBack
<1>2. r.status \in Statuses /\ r.capacity \in Nat /\ r.p \in Block
  BY GrowToType DEF TypeOK
<1>3. MemCpy(r.p, size, <<e>>) \in Block
  BY <1>2, MemCpyType, SingletonType DEF TypeOK, Cell
<1>4. << >> \in Seq(Cell) /\ size + 1 \in Nat
  BY DEF TypeOK
<1>5. CASE r.status # "SUCCESS"
  BY <1>1, <1>2, <1>5, FailType
<1>6. CASE r.status = "SUCCESS" /\ ~InBlock(r.p, size, 1)
  BY <1>1, <1>6, CrashType
<1>7. CASE r.status = "SUCCESS" /\ InBlock(r.p, size, 1)
  <2>1. Finish(r, MemCpy(r.p, size, <<e>>), size + 1) /\ destroyed' = << >>
    BY <1>1, <1>7
  <2> QED BY <2>1, <1>2, <1>3, <1>4, FinishType
<1> QED BY <1>5, <1>6, <1>7

LEMMA InsertRangeType ==
  ASSUME TypeOK, NEW index \in Nat, NEW run \in Block, InsertRange(index, run)
  PROVE  TypeOK'
<1> DEFINE count == Len(run)
<1>1. count \in Nat BY DEF Block
<1>2. CASE count = 0
  BY <1>2, RefuseType DEF InsertRange, Statuses
<1>3. CASE count # 0 /\ index > size
  BY <1>3, RefuseType DEF InsertRange, Statuses
<1>4. CASE count # 0 /\ ~(index > size)
  <2>1. PICK r \in GrowTo(size + count) :
          IF r.status # "SUCCESS" THEN Fail(r)
          ELSE IF ~InBlock(r.p, index, size - index + count) THEN Crash
          ELSE /\ Finish(r, MemCpy(ShiftRight(r.p, index, count), index, run),
                         size + count)
               /\ destroyed' = << >>
    BY <1>4 DEF InsertRange
  <2>2. /\ size + count \in Nat
        /\ r.status \in Statuses /\ r.capacity \in Nat /\ r.p \in Block
    BY <1>1, GrowToType DEF TypeOK
  <2>3. CASE r.status # "SUCCESS"
    BY <2>1, <2>2, <2>3, FailType
  <2>4. CASE r.status = "SUCCESS" /\ ~InBlock(r.p, index, size - index + count)
    BY <2>1, <2>4, CrashType
  <2>5. CASE r.status = "SUCCESS" /\ InBlock(r.p, index, size - index + count)
    <3>1. size <= Len(r.p)
      BY <1>1, <1>4, <2>2, <2>5 DEF InBlock, TypeOK, Block
    <3>2. MemCpy(ShiftRight(r.p, index, count), index, run) \in Block
      BY <1>1, <2>2, <3>1, ShiftType, MemCpyType
    <3>3. /\ Finish(r, MemCpy(ShiftRight(r.p, index, count), index, run),
                    size + count)
          /\ destroyed' = << >>
      BY <2>1, <2>5
    <3>4. << >> \in Seq(Cell) OBVIOUS
    <3> QED BY <2>2, <3>2, <3>3, <3>4, FinishType
  <2> QED BY <2>3, <2>4, <2>5
<1> QED BY <1>2, <1>3, <1>4

LEMMA EmplaceExType ==
  ASSUME TypeOK, NEW index \in Nat, NEW e \in Element, NEW constructor,
         EmplaceEx(index, e, constructor)
  PROVE  TypeOK'
<1>1. CASE index > size
  BY <1>1, RefuseType DEF EmplaceEx, Statuses
<1>2. CASE ~(index > size)
  <2>1. PICK r \in GrowTo(size + 1) :
          LET shifted == ShiftRight(r.p, index, 1)
              built == MemCpy(shifted, index, <<e>>)
          IN IF r.status # "SUCCESS" THEN Fail(r)
             ELSE IF ~InBlock(r.p, index, size - index + 1) THEN Crash
             ELSE /\ destroyed' = << >>
                  /\ \/ /\ constructor = "none"
                        /\ Finish(r, shifted, size + 1)
                     \/ /\ constructor = "succeeds"
                        /\ Finish(r, built, size + 1)
                     \/ /\ constructor = "fails"
                        /\ \E cells \in {shifted, built} :
                             Finish(Failed(r), cells, size)
    BY <1>2 DEF EmplaceEx
  <2> DEFINE shifted == ShiftRight(r.p, index, 1)
             built == MemCpy(shifted, index, <<e>>)
  <2>2. /\ size + 1 \in Nat /\ size \in Nat
        /\ r.status \in Statuses /\ r.capacity \in Nat /\ r.p \in Block
    BY GrowToType DEF TypeOK
  <2>3. CASE r.status # "SUCCESS"
    BY <2>1, <2>2, <2>3, FailType
  <2>4. CASE r.status = "SUCCESS" /\ ~InBlock(r.p, index, size - index + 1)
    BY <2>1, <2>4, CrashType
  <2>5. CASE r.status = "SUCCESS" /\ InBlock(r.p, index, size - index + 1)
    <3>1. size <= Len(r.p)
      BY <1>2, <2>2, <2>5 DEF InBlock, TypeOK, Block
    <3>2. shifted \in Block
      BY <2>2, <3>1, ShiftType
    <3>3. built \in Block
      BY <3>2, SingletonType, MemCpyType DEF Cell
    <3>4. << >> \in Seq(Cell) OBVIOUS
    <3> HIDE DEF shifted, built
    <3>5. destroyed' = << >>
      BY <2>1, <2>5 DEF shifted, built
    <3>6. CASE \E n \in {size, size + 1}, cells \in {shifted, built} :
                 Finish(r, cells, n)
      BY <2>2, <3>2, <3>3, <3>4, <3>5, <3>6, FinishType
    <3>7. CASE \E cells \in {shifted, built} :
                 Finish(Failed(r), cells, size)
      <4>1. Failed(r).status \in Statuses /\ Failed(r).capacity \in Nat
        BY <2>2 DEF Failed, Statuses
      <4> QED BY <2>2, <3>2, <3>3, <3>4, <3>5, <3>7, <4>1, FinishType
    <3> QED BY <2>1, <2>5, <3>6, <3>7 DEF shifted, built
  <2> QED BY <2>3, <2>4, <2>5
<1> QED BY <1>1, <1>2

LEMMA SetType ==
  ASSUME TypeOK, NEW index \in Nat, NEW e \in Element, Set(index, e)
  PROVE  TypeOK'
<1>1. CASE index >= size
  BY <1>1, RefuseType DEF Set, Statuses
<1>2. CASE ~(index >= size) /\ ~InBlock(data, index, 1)
  BY <1>2, CrashType DEF Set
<1>3. CASE ~(index >= size) /\ InBlock(data, index, 1)
  <2>1. /\ data' = MemCpy(data, index, <<e>>)
        /\ destroyed' = Doomed(index, 1) /\ status' = "SUCCESS"
        /\ UNCHANGED <<config, size, capacity, overrun>>
    BY <1>3 DEF Set
  <2>2. MemCpy(data, index, <<e>>) \in Block
    BY MemCpyType, SingletonType DEF TypeOK, Cell
  <2>3. Doomed(index, 1) \in Seq(Cell)
    BY <1>3, DoomedType DEF TypeOK
  <2> QED BY <2>1, <2>2, <2>3 DEF TypeOK, config, Statuses
<1> QED BY <1>1, <1>2, <1>3

LEMMA SwapElementsType ==
  ASSUME TypeOK, NEW first \in Nat, NEW second \in Nat,
         SwapElements(first, second)
  PROVE  TypeOK'
<1> DEFINE t == MemCpy(data, size, <<Get(first)>>)
           a == MemCpy(t, first, <<Get(second)>>)
           b == MemCpy(a, second, <<a[size + 1]>>)
<1>1. CASE first >= size \/ second >= size
  BY <1>1, RefuseType DEF SwapElements, Statuses
<1>2. CASE ~(first >= size \/ second >= size) /\ size = capacity
  BY <1>2, RefuseType DEF SwapElements, Statuses
<1>3. CASE /\ ~(first >= size \/ second >= size) /\ size # capacity
           /\ ~InBlock(data, size, 1)
  BY <1>3, CrashType DEF SwapElements
<1>4. CASE /\ ~(first >= size \/ second >= size) /\ size # capacity
           /\ InBlock(data, size, 1)
  <2>1. data' = b /\ Return("SUCCESS")
        /\ UNCHANGED <<config, size, capacity, overrun>>
    BY <1>4 DEF SwapElements
  <2>2. Get(first) \in Cell /\ Get(second) \in Cell /\ size \in Nat
    BY <1>4 DEF Get, TypeOK, Block, Cell
  <2>3. t \in Block /\ Len(t) = Len(data)
    BY <2>2, MemCpyType, SingletonType DEF TypeOK
  <2> HIDE DEF t
  <2>4. a \in Block /\ Len(a) = Len(data)
    BY <2>2, <2>3, MemCpyType, SingletonType
  <2> HIDE DEF a
  <2>5. a[size + 1] \in Cell
    BY <1>4, <2>2, <2>4 DEF InBlock, Block, TypeOK
  <2>6. b \in Block
    BY <2>4, <2>5, MemCpyType, SingletonType
  <2> HIDE DEF b
  <2> QED BY <2>1, <2>6 DEF TypeOK, Return, config, Statuses
<1> QED BY <1>1, <1>2, <1>3, <1>4

LEMMA DeleteRangeType ==
  ASSUME TypeOK, NEW index \in Nat, NEW count \in Nat, DeleteRange(index, count)
  PROVE  TypeOK'
<1> DEFINE touched == IF index + count < size THEN size - index
                      ELSE IF destructor THEN count ELSE 0
           left == ShiftLeft(data, index, count)
<1>1. CASE count = 0
  BY <1>1, RefuseType DEF DeleteRange, Statuses
<1>2. CASE count # 0 /\ index + count > size
  BY <1>2, RefuseType DEF DeleteRange, Statuses
<1>3. CASE /\ count # 0 /\ ~(index + count > size)
           /\ ~InBlock(data, index, touched)
  BY <1>3, CrashType DEF DeleteRange
<1>4. CASE /\ count # 0 /\ ~(index + count > size)
           /\ InBlock(data, index, touched)
  <2>1. destroyed' = Doomed(index, count)
    BY <1>4 DEF DeleteRange
  <2>2. PICK r \in ShrinkTo(left, size - count) : Finish(r, r.p, size - count)
    BY <1>4 DEF DeleteRange
  <2>3. Doomed(index, count) \in Seq(Cell) /\ size - count \in Nat
    BY <1>4, DoomedType DEF TypeOK
  <2>4. left \in Block
    <3>1. CASE index + count < size
      <4>1. size <= Len(data)
        BY <1>4, <3>1 DEF InBlock, TypeOK, Block
      <4> QED BY <4>1, ShiftType DEF TypeOK
    <3>2. CASE ~(index + count < size)
      BY <3>2 DEF ShiftLeft, TypeOK
    <3> QED BY <3>1, <3>2
  <2> HIDE DEF left
  <2>5. r.status \in Statuses /\ r.capacity \in Nat /\ r.p \in Block
    BY <2>2, <2>3, <2>4, ShrinkToType
  <2> QED BY <2>1, <2>2, <2>3, <2>5, FinishType
<1> QED BY <1>1, <1>2, <1>3, <1>4

LEMMA PopBackType ==
  ASSUME TypeOK, PopBack
  PROVE  TypeOK'
<1>1. CASE size = 0
  BY <1>1, RefuseType DEF PopBack, Statuses
<1>2. CASE size # 0 /\ destructor /\ ~InBlock(data, size - 1, 1)
  BY <1>2, CrashType DEF PopBack
<1>3. CASE size # 0 /\ ~(destructor /\ ~InBlock(data, size - 1, 1))
  <2>1. destroyed' = Doomed(size - 1, 1)
    BY <1>3 DEF PopBack
  <2>2. PICK r \in ShrinkTo(data, size - 1) : Finish(r, r.p, size - 1)
    BY <1>3 DEF PopBack
  <2>3. Doomed(size - 1, 1) \in Seq(Cell) /\ size - 1 \in Nat
    BY <1>3, DoomedType DEF TypeOK
  <2>4. r.status \in Statuses /\ r.capacity \in Nat /\ r.p \in Block
    BY <2>2, <2>3, ShrinkToType DEF TypeOK
  <2> QED BY <2>1, <2>2, <2>3, <2>4, FinishType
<1> QED BY <1>1, <1>2, <1>3

LEMMA ResizeExType ==
  ASSUME TypeOK, NEW n \in Nat, NEW initializer \in Element \cup {NULL},
         ResizeEx(n, initializer)
  PROVE  TypeOK'
<1> DEFINE doomed == IF n < size THEN Doomed(n, size - n) ELSE << >>
           fresh == [i \in 1..(n - size) |-> initializer]
<1>1. CASE n = size
  BY <1>1, RefuseType DEF ResizeEx, Statuses
<1>2. CASE n # size /\ n < size /\ destructor /\ ~InBlock(data, n, size - n)
  BY <1>2, CrashType DEF ResizeEx
<1>3. CASE n # size /\ ~(n < size /\ destructor /\ ~InBlock(data, n, size - n))
  <2>1. PICK r \in Resizing(n) :
          IF r.status # "SUCCESS"
            THEN Finish(r, r.p, size) /\ destroyed' = doomed
          ELSE IF n > size /\ initializer # NULL
            THEN IF ~InBlock(r.p, size, n - size) THEN Crash
                 ELSE /\ Finish(r, MemCpy(r.p, size, fresh), n)
                      /\ destroyed' = << >>
          ELSE Finish(r, r.p, n) /\ destroyed' = doomed
    BY <1>3 DEF ResizeEx
  <2>2. /\ r.status \in Statuses /\ r.capacity \in Nat /\ r.p \in Block
        /\ size \in Nat
    BY ReallocateType, KeptType, RequestType DEF TypeOK, Resizing
  <2>3. doomed \in Seq(Cell)
    BY DoomedType DEF TypeOK
  <2>4. << >> \in Seq(Cell) OBVIOUS
  <2>5. CASE n > size /\ initializer # NULL
    <3>1. fresh \in Block
      BY <2>2, <2>5 DEF Block, Cell
    <3>2. MemCpy(r.p, size, fresh) \in Block
      BY <2>2, <3>1, MemCpyType
    <3> HIDE DEF doomed, fresh
    <3>3. \/ Finish(r, r.p, size) /\ destroyed' = doomed
          \/ Crash
          \/ Finish(r, MemCpy(r.p, size, fresh), n) /\ destroyed' = << >>
      BY <2>1, <2>5 DEF doomed, fresh
    <3> QED BY <2>2, <2>3, <2>4, <3>2, <3>3, FinishType, CrashType
  <2>6. CASE ~(n > size /\ initializer # NULL)
    <3>1. \E m \in {size, n} : Finish(r, r.p, m) /\ destroyed' = doomed
      BY <2>1, <2>6
    <3> HIDE DEF doomed, fresh
    <3> QED BY <2>2, <2>3, <3>1, FinishType
  <2> QED BY <2>5, <2>6
<1> QED BY <1>1, <1>2, <1>3

LEMMA CapacityCallType ==
  ASSUME TypeOK, (\E n \in Nat : Reserve(n)) \/ ShrinkToFit
  PROVE  TypeOK'
<1>1. PICK n \in Nat : \E r \in Reallocate(data, n) \cup Kept(data) :
        Finish(r, r.p, size) /\ destroyed' = << >>
  BY DEF Reserve, Reserving, ShrinkToFit, TypeOK
<1>2. PICK r \in Reallocate(data, n) \cup Kept(data) :
        Finish(r, r.p, size) /\ destroyed' = << >>
  BY <1>1
<1>3. r.status \in Statuses /\ r.capacity \in Nat /\ r.p \in Block
  BY ReallocateType, KeptType DEF TypeOK
<1>4. << >> \in Seq(Cell) /\ size \in Nat BY DEF TypeOK
<1> QED BY <1>2, <1>3, <1>4, FinishType

LEMMA InitType == Init => TypeOK
<1>1. NULL \in Block /\ << >> \in Seq(Cell)
  BY DEF NULL, Block
<1>2. ASSUME Init
      PROVE  /\ allocator \in {"none", "dynamic"} /\ destructor \in BOOLEAN
             /\ status \in Statuses /\ overrun \in BOOLEAN
  BY <1>2 DEF Init, Statuses
<1>3. ASSUME Init
      PROVE  /\ growth_factor \in Nat /\ shrink_threshold \in Nat
             /\ size \in Nat /\ capacity \in Nat
  BY <1>3 DEF Init
<1>4. ASSUME Init PROVE data \in Block /\ destroyed \in Seq(Cell)
  BY <1>1, <1>4 DEF Init
<1> QED BY <1>2, <1>3, <1>4 DEF TypeOK

LEMMA NextType == TypeOK /\ [Next]_vars => TypeOK'
<1> SUFFICES ASSUME TypeOK, [Next]_vars PROVE TypeOK'
  OBVIOUS
<1>1. CASE Construct
  BY <1>1, ConstructType
<1>2. CASE Destroy
  BY <1>2, DestroyType
<1>3. CASE Insertion
  <2>1. ASSUME NEW i \in Indices, NEW run \in Runs, InsertRange(i, run)
        PROVE  TypeOK'
    BY <2>1, RunsType, InsertRangeType DEF Indices, TypeOK
  <2>2. ASSUME NEW i \in Indices, NEW e \in Element,
               NEW c \in {"none", "succeeds", "fails"}, EmplaceEx(i, e, c)
        PROVE  TypeOK'
    BY <2>2, EmplaceExType DEF Indices, TypeOK
  <2> QED BY <1>3, <2>1, <2>2, PushBackType DEF Insertion
<1>4. CASE Modification
  <2>1. \A i \in Indices : i \in Nat
    BY DEF Indices, TypeOK
  <2> QED BY <1>4, <2>1, SetType, SwapElementsType DEF Modification
<1>5. CASE Deletion
  <2>1. \A i \in Indices : i \in Nat
    BY DEF Indices, TypeOK
  <2> QED BY <1>5, <2>1, DeleteRangeType, PopBackType DEF Deletion
<1>6. CASE Management
  BY <1>6, VectorAssumption, ResizeExType, CapacityCallType DEF Management
<1>7. CASE UNCHANGED vars
  BY <1>7 DEF vars, TypeOK
<1> QED BY <1>1, <1>2, <1>3, <1>4, <1>5, <1>6, <1>7 DEF Next

\* Type correctness, under every allocator: whatever fails and however the
\* calls are ordered, each field keeps a value of its type.
THEOREM TypeCorrect == Spec => []TypeOK
BY InitType, NextType, PTL DEF Spec

-----------------------------------------------------------------------------
(***************************************************************************)
(* Memory safety, when the allocator does not fail.  MemorySafe is not     *)
(* inductive: that no access leaves the block follows from size being      *)
(* within the capacity, from the capacity being the block's length, and    *)
(* from a growth factor of at least one, which makes every request for n   *)
(* elements bring room for n.                                              *)
(***************************************************************************)
Layout == data # NULL => /\ size <= capacity
                         /\ capacity = Len(data)
                         /\ growth_factor >= 1

SafeInv == TypeOK /\ ~overrun /\ Layout

LEMMA RequestCovers ==
  ASSUME NEW n \in Nat, NEW g \in Nat, g >= 1
  PROVE  n <= n * g /\ n <= Max2(1, n * g)
<1>1. PICK k \in Nat : g = k + 1
  <2>1. g - 1 \in Nat /\ g = (g - 1) + 1 OBVIOUS
  <2> QED BY <2>1
<1>2. n * g = n * k + n /\ n * k \in Nat BY <1>1
<1> QED BY <1>2 DEF Max2

\* A reallocation that succeeds brings room for what was asked; the others
\* leave the vector as it was.
LEMMA ReallocateSafe ==
  ASSUME AllocatorFailures = "never", TypeOK, NEW p \in Block,
         Len(p) = capacity, NEW n \in Nat, NEW r \in Reallocate(p, n)
  PROVE  /\ r.capacity = Len(r.p)
         /\ r.status = "SUCCESS" => n <= r.capacity
         /\ r.status # "SUCCESS" => r.capacity = capacity
<1>1. CASE allocator = "none"
  BY <1>1 DEF Reallocate, TypeOK
<1>2. CASE allocator # "none" /\ n < MinCapacity /\ capacity <= MinCapacity
  BY <1>2 DEF Reallocate, TypeOK, MinCapacity
<1>3. CASE allocator # "none" /\ ~(n < MinCapacity /\ capacity <= MinCapacity)
  <2> DEFINE c == Max2(n, MinCapacity)
  <2>1. c \in Nat /\ n <= c BY DEF Max2, MinCapacity
  <2>2. PICK x \in Realloc(p, c) :
          r = [status |-> x.status, capacity |-> c, p |-> x.p]
    BY <1>3 DEF Reallocate
  <2>3. x.status = "SUCCESS" /\ Len(x.p) = c
    BY <2>1, ResizedType DEF Realloc, MayRefuse
  <2> QED BY <2>1, <2>2, <2>3
<1> QED BY <1>1, <1>2, <1>3

LEMMA GrowToSafe ==
  ASSUME AllocatorFailures = "never", SafeInv, data # NULL,
         NEW n \in Nat, NEW r \in GrowTo(n)
  PROVE  /\ r.capacity = Len(r.p)
         /\ r.status = "SUCCESS" => n <= r.capacity
         /\ r.status # "SUCCESS" => r.capacity = capacity
<1> USE DEF SafeInv, Layout
<1>1. CASE ShouldGrow(n)
  <2>1. r \in Reallocate(data, Max2(1, n * growth_factor))
    BY <1>1 DEF GrowTo
  <2>2. Max2(1, n * growth_factor) \in Nat /\ n <= Max2(1, n * growth_factor)
    BY RequestType, RequestCovers DEF TypeOK
  <2>3. /\ r.capacity = Len(r.p)
        /\ r.status = "SUCCESS" => Max2(1, n * growth_factor) <= r.capacity
        /\ r.status # "SUCCESS" => r.capacity = capacity
    BY <2>1, <2>2, ReallocateSafe DEF TypeOK
  <2>4. r.capacity \in Nat
    BY <2>1, <2>2, ReallocateType DEF TypeOK
  <2> QED BY <2>2, <2>3, <2>4
<1>2. CASE ~ShouldGrow(n)
  BY <1>2 DEF GrowTo, Kept, ShouldGrow, TypeOK
<1> QED BY <1>1, <1>2

LEMMA ShrinkToSafe ==
  ASSUME AllocatorFailures = "never", SafeInv, data # NULL,
         NEW p \in Block, Len(p) = capacity,
         NEW n \in Nat, n <= size, NEW r \in ShrinkTo(p, n)
  PROVE  r.capacity = Len(r.p) /\ n <= r.capacity
<1> USE DEF SafeInv, Layout
<1>1. CASE ShouldShrink(n)
  <2>1. r \in Reallocate(p, Max2(1, n * growth_factor))
    BY <1>1 DEF ShrinkTo
  <2>2. Max2(1, n * growth_factor) \in Nat /\ n <= Max2(1, n * growth_factor)
    BY RequestType, RequestCovers DEF TypeOK
  <2>3. /\ r.capacity = Len(r.p)
        /\ r.status = "SUCCESS" => Max2(1, n * growth_factor) <= r.capacity
        /\ r.status # "SUCCESS" => r.capacity = capacity
    BY <2>1, <2>2, ReallocateSafe
  <2>4. r.capacity \in Nat
    BY <2>1, <2>2, ReallocateType
  <2> QED BY <2>2, <2>3, <2>4 DEF TypeOK
<1>2. CASE ~ShouldShrink(n)
  BY <1>2 DEF ShrinkTo, Kept, TypeOK
<1> QED BY <1>1, <1>2

LEMMA RefuseSafe ==
  ASSUME SafeInv, NEW s, Refuse(s)
  PROVE  ~overrun' /\ Layout'
BY DEF SafeInv, Layout, Refuse, vector, config

LEMMA FailSafe ==
  ASSUME SafeInv, data # NULL, NEW r, Fail(r),
         r.capacity = Len(r.p), r.capacity = capacity
  PROVE  ~overrun' /\ Layout'
BY DEF SafeInv, Layout, Fail, config

LEMMA FinishSafe ==
  ASSUME SafeInv, data # NULL, NEW r, NEW cells, NEW n, Finish(r, cells, n),
         r.capacity = Len(cells), n <= r.capacity
  PROVE  ~overrun' /\ Layout'
BY DEF SafeInv, Layout, Finish, config

-----------------------------------------------------------------------------
(* Each call stays in the block and leaves the layout as it should be. *)

LEMMA InitWithSafe ==
  ASSUME AllocatorFailures = "never", SafeInv, NEW elements \in Block,
         NEW c \in Nat, Len(elements) <= c, NEW g \in Nat, NEW t \in Nat,
         NEW d \in BOOLEAN, InitWith(elements, c, g, t, d)
  PROVE  ~overrun' /\ Layout'
<1>1. CASE g < 1
  BY <1>1, RefuseSafe DEF InitWith
<1>2. CASE ~(g < 1)
  <2> DEFINE n == Max2(MinCapacity, c)
  <2>1. n \in Nat /\ Len(elements) <= n /\ Len(elements) \in Nat
    BY DEF Max2, MinCapacity, Block
  <2>2. PICK r \in Allocate(n) :
          IF r.status = "SUCCESS" /\ ~InBlock(r.p, 0, Len(elements)) THEN Crash
          ELSE /\ growth_factor' = g
               /\ size' = IF r.status = "SUCCESS" THEN Len(elements) ELSE 0
               /\ capacity' = n /\ data' = MemCpy(r.p, 0, elements)
               /\ overrun' = overrun
    BY <1>2 DEF InitWith
  <2>3. r.status = "SUCCESS" /\ r.p \in Block /\ Len(r.p) = n
    BY <2>1, AllocateType DEF Allocate, MayRefuse
  <2>4. InBlock(r.p, 0, Len(elements))
    BY <2>1, <2>3 DEF InBlock
  <2>5. Len(MemCpy(r.p, 0, elements)) = n
    BY <2>3, MemCpyType
  <2> HIDE DEF n
  <2> QED BY <1>2, <2>1, <2>2, <2>3, <2>4, <2>5 DEF SafeInv, Layout
<1> QED BY <1>1, <1>2

LEMMA BufferWithSafe ==
  ASSUME SafeInv, NEW elements \in Block, NEW c \in Nat, Len(elements) <= c,
         NEW d \in BOOLEAN, BufferWith(elements, c, d)
  PROVE  ~overrun' /\ Layout'
<1>1. CASE c = 0
  BY <1>1, RefuseSafe DEF BufferWith
<1>2. CASE c # 0
  <2>1. Len(elements) \in Nat BY DEF Block
  <2>2. /\ growth_factor' = 1 /\ size' = Len(elements) /\ capacity' = c
        /\ data' = MemCpy([i \in 1..c |-> Undef], 0, elements)
        /\ overrun' = overrun
    BY <1>2, <2>1 DEF BufferWith
  <2>3. Len(MemCpy([i \in 1..c |-> Undef], 0, elements)) = c
    BY FreshType, MemCpyType
  <2> QED BY <2>1, <2>2, <2>3 DEF SafeInv, Layout
<1> QED BY <1>1, <1>2

LEMMA ConstructSafe ==
  ASSUME AllocatorFailures = "never", SafeInv, Construct
  PROVE  ~overrun' /\ Layout'
<1>0. << >> \in Block /\ Len(<< >>) = 0 BY DEF Block
<1>1. ASSUME NEW c \in Capacities, NEW g \in GrowthFactors,
             NEW t \in ShrinkThresholds, NEW d \in Destructors,
             InitEx(c, g, t, d) \/ \E run \in Runs : DuplicateEx(run, c, g, t, d)
      PROVE  ~overrun' /\ Layout'
  <2>1. c \in Nat /\ g \in Nat /\ t \in Nat /\ d \in BOOLEAN
    BY VectorAssumption
  <2>2. ASSUME NEW run \in Runs, DuplicateEx(run, c, g, t, d)
        PROVE  ~overrun' /\ Layout'
    <3>1. run \in Block /\ Len(run) \in Nat BY RunsType DEF Block
    <3>2. Max2(c, Len(run)) \in Nat /\ Len(run) <= Max2(c, Len(run))
      BY <2>1, <3>1 DEF Max2
    <3> QED BY <2>1, <2>2, <3>1, <3>2, InitWithSafe DEF DuplicateEx
  <2> QED BY <1>0, <1>1, <2>1, <2>2, InitWithSafe DEF InitEx
<1>2. ASSUME NEW c \in BufferCapacities, NEW d \in Destructors,
             InitCustomBuffer(c, d)
               \/ \E run \in Runs : DuplicateCustomBuffer(run, c, d)
      PROVE  ~overrun' /\ Layout'
  <2>1. c \in Nat /\ d \in BOOLEAN BY VectorAssumption
  <2>2. ASSUME NEW run \in Runs, DuplicateCustomBuffer(run, c, d)
        PROVE  ~overrun' /\ Layout'
    <3>1. run \in Block /\ Len(run) \in Nat BY RunsType DEF Block
    <3> QED BY <2>1, <2>2, <3>1, BufferWithSafe, RefuseSafe
            DEF DuplicateCustomBuffer
  <2> QED BY <1>0, <1>2, <2>1, <2>2, BufferWithSafe DEF InitCustomBuffer
<1> QED BY <1>1, <1>2 DEF Construct

LEMMA DestroySafe ==
  ASSUME SafeInv, Destroy
  PROVE  ~overrun' /\ Layout'
<1>1. InBlock(data, 0, size)
  BY DEF SafeInv, Layout, Destroy, Live, InBlock, TypeOK
<1>2. data' = NULL /\ overrun' = overrun
  BY <1>1 DEF Destroy
<1> QED BY <1>2 DEF SafeInv, Layout

LEMMA PushBackSafe ==
  ASSUME AllocatorFailures = "never", SafeInv, NEW e \in Element, PushBack(e)
  PROVE  ~overrun' /\ Layout'
<1>1. PICK r \in GrowTo(size + 1) :
        IF r.status # "SUCCESS" THEN Fail(r)
        ELSE IF ~InBlock(r.p, size, 1) THEN Crash
        ELSE /\ Finish(r, MemCpy(r.p, size, <<e>>), size + 1)
             /\ destroyed' = << >>
  BY DEF PushBack
<1>2. /\ data # NULL /\ size + 1 \in Nat /\ r.p \in Block
      /\ r.capacity = Len(r.p)
      /\ r.status = "SUCCESS" => size + 1 <= r.capacity
      /\ r.status # "SUCCESS" => r.capacity = capacity
  BY GrowToSafe, GrowToType DEF PushBack, Live, SafeInv, TypeOK
<1>3. CASE r.status # "SUCCESS"
  BY <1>1, <1>2, <1>3, FailSafe
<1>4. CASE r.status = "SUCCESS"
  <2>1. Len(MemCpy(r.p, size, <<e>>)) = Len(r.p)
    BY <1>2, MemCpyType, SingletonType DEF SafeInv, TypeOK, Cell
  <2>2. InBlock(r.p, size, 1)
    BY <1>2, <1>4 DEF InBlock
  <2>3. Finish(r, MemCpy(r.p, size, <<e>>), size + 1)
    BY <1>1, <1>4, <2>2
  <2> QED BY <1>2, <1>4, <2>1, <2>3, FinishSafe
<1> QED BY <1>3, <1>4

LEMMA InsertRangeSafe ==
  ASSUME AllocatorFailures = "never", SafeInv,
         NEW index \in Nat, NEW run \in Block, InsertRange(index, run)
  PROVE  ~overrun' /\ Layout'
<1> DEFINE count == Len(run)
<1>1. count \in Nat BY DEF Block
<1>2. CASE count = 0
  BY <1>2, RefuseSafe DEF InsertRange
<1>3. CASE count # 0 /\ index > size
  BY <1>3, RefuseSafe DEF InsertRange
<1>4. CASE count # 0 /\ ~(index > size)
  <2>1. PICK r \in GrowTo(size + count) :
          IF r.status # "SUCCESS" THEN Fail(r)
          ELSE IF ~InBlock(r.p, index, size - index + count) THEN Crash
          ELSE /\ Finish(r, MemCpy(ShiftRight(r.p, index, count), index, run),
                         size + count)
               /\ destroyed' = << >>
    BY <1>4 DEF InsertRange
  <2>2. /\ data # NULL /\ size \in Nat /\ size + count \in Nat /\ r.p \in Block
        /\ r.capacity = Len(r.p)
        /\ r.status = "SUCCESS" => size + count <= r.capacity
        /\ r.status # "SUCCESS" => r.capacity = capacity
    BY <1>1, GrowToSafe, GrowToType DEF InsertRange, Live, SafeInv, TypeOK
  <2>3. CASE r.status # "SUCCESS"
    BY <2>1, <2>2, <2>3, FailSafe
  <2>4. CASE r.status = "SUCCESS"
    <3> DEFINE cells == MemCpy(ShiftRight(r.p, index, count), index, run)
    <3>1. size <= Len(r.p) BY <1>1, <2>2, <2>4
    <3>2. Len(cells) = Len(r.p)
      BY <1>1, <2>2, <3>1, ShiftType, MemCpyType DEF SafeInv
    <3>3. InBlock(r.p, index, size - index + count)
      BY <1>1, <1>4, <2>2, <2>4 DEF InBlock
    <3>4. Finish(r, cells, size + count)
      BY <2>1, <2>4, <3>3
    <3> QED BY <2>2, <2>4, <3>2, <3>4, FinishSafe
  <2> QED BY <2>3, <2>4
<1> QED BY <1>2, <1>3, <1>4

LEMMA EmplaceExSafe ==
  ASSUME AllocatorFailures = "never", SafeInv, NEW index \in Nat,
         NEW e \in Element, NEW constructor, EmplaceEx(index, e, constructor)
  PROVE  ~overrun' /\ Layout'
<1>1. CASE index > size
  BY <1>1, RefuseSafe DEF EmplaceEx
<1>2. CASE ~(index > size)
  <2>1. PICK r \in GrowTo(size + 1) :
          LET shifted == ShiftRight(r.p, index, 1)
              built == MemCpy(shifted, index, <<e>>)
          IN IF r.status # "SUCCESS" THEN Fail(r)
             ELSE IF ~InBlock(r.p, index, size - index + 1) THEN Crash
             ELSE /\ destroyed' = << >>
                  /\ \/ /\ constructor = "none"
                        /\ Finish(r, shifted, size + 1)
                     \/ /\ constructor = "succeeds"
                        /\ Finish(r, built, size + 1)
                     \/ /\ constructor = "fails"
                        /\ \E cells \in {shifted, built} :
                             Finish(Failed(r), cells, size)
    BY <1>2 DEF EmplaceEx
  <2> DEFINE shifted == ShiftRight(r.p, index, 1)
             built == MemCpy(shifted, index, <<e>>)
  <2>2. /\ data # NULL /\ size \in Nat /\ size + 1 \in Nat /\ r.p \in Block
        /\ r.capacity = Len(r.p)
        /\ r.status = "SUCCESS" => size + 1 <= r.capacity
        /\ r.status # "SUCCESS" => r.capacity = capacity
    BY GrowToSafe, GrowToType DEF EmplaceEx, Live, SafeInv, TypeOK
  <2>3. CASE r.status # "SUCCESS"
    BY <2>1, <2>2, <2>3, FailSafe
  <2>4. CASE r.status = "SUCCESS"
    <3>1. size <= Len(r.p) BY <2>2, <2>4
    <3>2. shifted \in Block /\ Len(shifted) = Len(r.p)
      BY <2>2, <3>1, ShiftType DEF SafeInv
    <3>3. Len(built) = Len(r.p)
      BY <3>2, SingletonType, MemCpyType DEF Cell
    <3>4. InBlock(r.p, index, size - index + 1)
      BY <1>2, <2>2, <2>4 DEF InBlock
    <3> HIDE DEF shifted, built
    <3>5. PICK cells \in {shifted, built}, n \in {size, size + 1},
               s \in {r, Failed(r)} : Finish(s, cells, n)
      BY <2>1, <2>4, <3>4 DEF shifted, built
    <3>6. s.capacity = r.capacity
      BY <3>5 DEF Failed
    <3>7. s.capacity = Len(cells) /\ n <= s.capacity
      BY <2>2, <2>4, <3>2, <3>3, <3>5, <3>6
    <3> QED BY <2>2, <3>5, <3>7, FinishSafe
  <2> QED BY <2>3, <2>4
<1> QED BY <1>1, <1>2

LEMMA SetSafe ==
  ASSUME SafeInv, NEW index \in Nat, NEW e \in Element, Set(index, e)
  PROVE  ~overrun' /\ Layout'
<1>1. CASE index >= size
  BY <1>1, RefuseSafe DEF Set
<1>2. CASE ~(index >= size)
  <2>1. InBlock(data, index, 1)
    BY <1>2 DEF Set, Live, SafeInv, Layout, InBlock, TypeOK
  <2>2. /\ data' = MemCpy(data, index, <<e>>)
        /\ UNCHANGED <<config, size, capacity, overrun>>
    BY <1>2, <2>1 DEF Set
  <2>3. Len(MemCpy(data, index, <<e>>)) = Len(data)
    BY MemCpyType, SingletonType DEF SafeInv, TypeOK, Cell
  <2> QED BY <2>2, <2>3 DEF SafeInv, Layout, Set, Live, config
<1> QED BY <1>1, <1>2

LEMMA SwapElementsSafe ==
  ASSUME SafeInv, NEW first \in Nat, NEW second \in Nat,
         SwapElements(first, second)
  PROVE  ~overrun' /\ Layout'
<1> DEFINE t == MemCpy(data, size, <<Get(first)>>)
           a == MemCpy(t, first, <<Get(second)>>)
           b == MemCpy(a, second, <<a[size + 1]>>)
<1>1. CASE first >= size \/ second >= size
  BY <1>1, RefuseSafe DEF SwapElements
<1>2. CASE ~(first >= size \/ second >= size) /\ size = capacity
  BY <1>2, RefuseSafe DEF SwapElements
<1>3. CASE ~(first >= size \/ second >= size) /\ size # capacity
  <2>1. size < Len(data) /\ size \in Nat /\ data # NULL
    BY <1>3 DEF SwapElements, Live, SafeInv, Layout, TypeOK
  <2>2. InBlock(data, size, 1)
    BY <2>1 DEF InBlock, SafeInv, TypeOK, Block
  <2>3. data' = b /\ UNCHANGED <<config, size, capacity, overrun>>
    BY <1>3, <2>2 DEF SwapElements
  <2>4. Get(first) \in Cell /\ Get(second) \in Cell
    BY <1>3 DEF Get, SafeInv, TypeOK, Block, Cell
  <2>5. t \in Block /\ Len(t) = Len(data)
    BY <2>1, <2>4, MemCpyType, SingletonType DEF SafeInv, TypeOK
  <2> HIDE DEF t
  <2>6. a \in Block /\ Len(a) = Len(data)
    BY <2>4, <2>5, MemCpyType, SingletonType
  <2> HIDE DEF a
  <2>7. a[size + 1] \in Cell
    BY <2>1, <2>6 DEF Block
  <2>8. Len(b) = Len(data)
    BY <2>6, <2>7, MemCpyType, SingletonType
  <2> HIDE DEF b
  <2> QED BY <2>1, <2>3, <2>8 DEF SafeInv, Layout, config
<1> QED BY <1>1, <1>2, <1>3

LEMMA DeleteRangeSafe ==
  ASSUME AllocatorFailures = "never", SafeInv,
         NEW index \in Nat, NEW count \in Nat, DeleteRange(index, count)
  PROVE  ~overrun' /\ Layout'
<1> DEFINE touched == IF index + count < size THEN size - index
                      ELSE IF destructor THEN count ELSE 0
           left == ShiftLeft(data, index, count)
<1>1. CASE count = 0
  BY <1>1, RefuseSafe DEF DeleteRange
<1>2. CASE count # 0 /\ index + count > size
  BY <1>2, RefuseSafe DEF DeleteRange
<1>3. CASE count # 0 /\ ~(index + count > size)
  <2>1. /\ data # NULL /\ size \in Nat /\ size <= Len(data)
        /\ data \in Block /\ Len(data) = capacity
    BY DEF DeleteRange, Live, SafeInv, Layout, TypeOK
  <2>2. InBlock(data, index, touched)
    BY <1>3, <2>1 DEF InBlock, Block
  <2>3. PICK r \in ShrinkTo(left, size - count) : Finish(r, r.p, size - count)
    BY <1>3, <2>2 DEF DeleteRange
  <2>4. left \in Block /\ Len(left) = capacity
    BY <2>1, ShiftType DEF SafeInv
  <2>5. size - count \in Nat /\ size - count <= size
    BY <1>3, <2>1
  <2> HIDE DEF left
  <2>6. r.capacity = Len(r.p) /\ size - count <= r.capacity
    BY <2>1, <2>3, <2>4, <2>5, ShrinkToSafe
  <2> QED BY <2>1, <2>3, <2>6, FinishSafe
<1> QED BY <1>1, <1>2, <1>3

LEMMA PopBackSafe ==
  ASSUME AllocatorFailures = "never", SafeInv, PopBack
  PROVE  ~overrun' /\ Layout'
<1>1. CASE size = 0
  BY <1>1, RefuseSafe DEF PopBack
<1>2. CASE size # 0
  <2>1. /\ data # NULL /\ size \in Nat /\ size <= Len(data)
        /\ data \in Block /\ Len(data) = capacity
        /\ size - 1 \in Nat /\ size - 1 <= size
    BY <1>2 DEF PopBack, Live, SafeInv, Layout, TypeOK
  <2>2. InBlock(data, size - 1, 1)
    BY <2>1 DEF InBlock
  <2>3. PICK r \in ShrinkTo(data, size - 1) : Finish(r, r.p, size - 1)
    BY <1>2, <2>2 DEF PopBack
  <2>4. r.capacity = Len(r.p) /\ size - 1 <= r.capacity
    BY <2>1, <2>3, ShrinkToSafe
  <2> QED BY <2>1, <2>3, <2>4, FinishSafe
<1> QED BY <1>1, <1>2

LEMMA ResizeExSafe ==
  ASSUME AllocatorFailures = "never", SafeInv, NEW n \in Nat,
         NEW initializer \in Element \cup {NULL}, ResizeEx(n, initializer)
  PROVE  ~overrun' /\ Layout'
<1> DEFINE doomed == IF n < size THEN Doomed(n, size - n) ELSE << >>
           fresh == [i \in 1..(n - size) |-> initializer]
<1>1. CASE n = size
  BY <1>1, RefuseSafe DEF ResizeEx
<1>2. CASE n # size
  <2>1. /\ data # NULL /\ size \in Nat /\ size <= capacity
        /\ data \in Block /\ Len(data) = capacity
        /\ n * growth_factor \in Nat /\ n <= n * growth_factor
    BY RequestType, RequestCovers DEF ResizeEx, Live, SafeInv, Layout, TypeOK
  <2>2. ~(n < size /\ destructor /\ ~InBlock(data, n, size - n))
    BY <2>1 DEF InBlock
  <2>3. PICK r \in Resizing(n) :
          IF r.status # "SUCCESS"
            THEN Finish(r, r.p, size) /\ destroyed' = doomed
          ELSE IF n > size /\ initializer # NULL
            THEN IF ~InBlock(r.p, size, n - size) THEN Crash
                 ELSE /\ Finish(r, MemCpy(r.p, size, fresh), n)
                      /\ destroyed' = << >>
          ELSE Finish(r, r.p, n) /\ destroyed' = doomed
    BY <1>2, <2>2 DEF ResizeEx
  <2>4. /\ r.p \in Block /\ r.capacity = Len(r.p)
        /\ r.status = "SUCCESS" => n <= r.capacity
        /\ r.status # "SUCCESS" => r.capacity = capacity
    <3>1. CASE ShouldGrow(n) \/ ShouldShrink(n)
      <4>1. r \in Reallocate(data, n * growth_factor)
        BY <2>3, <3>1 DEF Resizing
      <4>2. /\ r.p \in Block /\ r.capacity = Len(r.p) /\ r.capacity \in Nat
            /\ r.status = "SUCCESS" => n * growth_factor <= r.capacity
            /\ r.status # "SUCCESS" => r.capacity = capacity
        BY <2>1, <4>1, ReallocateSafe, ReallocateType DEF SafeInv
      <4> QED BY <2>1, <4>2
    <3>2. CASE ~(ShouldGrow(n) \/ ShouldShrink(n))
      BY <2>1, <2>3, <3>2 DEF Resizing, Kept, ShouldGrow, SafeInv, TypeOK
    <3> QED BY <3>1, <3>2
  <2>5. CASE r.status # "SUCCESS"
    BY <2>1, <2>3, <2>4, <2>5, FinishSafe
  <2>6. CASE r.status = "SUCCESS" /\ n > size /\ initializer # NULL
    <3>1. fresh \in Block /\ Len(fresh) = n - size
      BY <2>1, <2>6 DEF Block, Cell
    <3>2. Len(MemCpy(r.p, size, fresh)) = Len(r.p)
      BY <2>1, <2>4, <3>1, MemCpyType
    <3>3. InBlock(r.p, size, n - size)
      BY <2>1, <2>4, <2>6 DEF InBlock
    <3>4. Finish(r, MemCpy(r.p, size, fresh), n)
      BY <2>3, <2>6, <3>3
    <3> QED BY <2>1, <2>4, <2>6, <3>2, <3>4, FinishSafe
  <2>7. CASE r.status = "SUCCESS" /\ ~(n > size /\ initializer # NULL)
    <3>1. Finish(r, r.p, n)
      BY <2>3, <2>7
    <3> QED BY <2>1, <2>4, <2>7, <3>1, FinishSafe
  <2> QED BY <2>5, <2>6, <2>7
<1> QED BY <1>1, <1>2

LEMMA CapacityCallSafe ==
  ASSUME AllocatorFailures = "never", SafeInv,
         (\E n \in Nat : Reserve(n)) \/ ShrinkToFit
  PROVE  ~overrun' /\ Layout'
<1>1. /\ data # NULL /\ size \in Nat /\ capacity \in Nat /\ size <= capacity
      /\ data \in Block /\ Len(data) = capacity
  BY DEF Reserve, Reserving, ShrinkToFit, Live, SafeInv, Layout, TypeOK
<1>2. PICK n \in Nat : /\ n >= size
                       /\ \E r \in Reallocate(data, n) \cup Kept(data) :
                            Finish(r, r.p, size)
  BY <1>1 DEF Reserve, Reserving, ShrinkToFit, Kept
<1>3. PICK r \in Reallocate(data, n) \cup Kept(data) : Finish(r, r.p, size)
  BY <1>2
<1>4. CASE r \in Kept(data)
  BY <1>1, <1>3, <1>4, FinishSafe DEF Kept
<1>5. CASE r \in Reallocate(data, n)
  <2>1. /\ r.capacity = Len(r.p) /\ r.capacity \in Nat
        /\ r.status = "SUCCESS" => n <= r.capacity
        /\ r.status # "SUCCESS" => r.capacity = capacity
    BY <1>1, <1>5, ReallocateSafe, ReallocateType DEF SafeInv
  <2>2. size <= r.capacity
    BY <1>1, <1>2, <2>1
  <2> QED BY <1>1, <1>3, <2>1, <2>2, FinishSafe
<1> QED BY <1>3, <1>4, <1>5

LEMMA SafeStep ==
  ASSUME AllocatorFailures = "never", SafeInv, [Next]_vars
  PROVE  ~overrun' /\ Layout'
<1>1. \A i \in Indices : i \in Nat
  BY DEF Indices, SafeInv, TypeOK
<1>2. CASE Construct
  BY <1>2, ConstructSafe
<1>3. CASE Destroy
  BY <1>3, DestroySafe
<1>4. CASE Insertion
  BY <1>1, <1>4, RunsType, PushBackSafe, InsertRangeSafe, EmplaceExSafe
     DEF Insertion
<1>5. CASE Modification
  BY <1>1, <1>5, SetSafe, SwapElementsSafe DEF Modification
<1>6. CASE Deletion
  BY <1>1, <1>6, DeleteRangeSafe, PopBackSafe DEF Deletion
<1>7. CASE Management
  BY <1>7, VectorAssumption, ResizeExSafe, CapacityCallSafe DEF Management
<1>8. CASE UNCHANGED vars
  BY <1>8 DEF vars, SafeInv, Layout
<1> QED BY <1>2, <1>3, <1>4, <1>5, <1>6, <1>7, <1>8 DEF Next

LEMMA SafeInvariant ==
  ASSUME AllocatorFailures = "never"
  PROVE  Spec => []SafeInv
<1>1. Init => SafeInv
  <2>1. Init => TypeOK
    BY InitType
  <2> QED BY <2>1 DEF Init, SafeInv, Layout
<1>2. SafeInv /\ [Next]_vars => SafeInv'
  BY SafeStep, NextType DEF SafeInv
<1> QED BY <1>1, <1>2, PTL DEF Spec

\* As long as the allocator does not fail, the capacity the vector records is
\* never more than what its block holds, and its size never more than that.
THEOREM CapacityCorrect ==
  ASSUME AllocatorFailures = "never"
  PROVE  Spec => []CapacityAllocated
<1>1. SafeInv => CapacityAllocated
  BY DEF SafeInv, Layout, CapacityAllocated, Live, TypeOK
<1> QED BY <1>1, SafeInvariant, PTL

\* As long as the allocator does not fail, no sequence of calls, for any
\* element type, capacity, growth factor and shrink threshold, accesses
\* memory outside of the vector's block or leaves it with a capacity that it
\* has not got.
THEOREM NeverOverrun ==
  ASSUME AllocatorFailures = "never"
  PROVE  Spec => []MemorySafe
<1>1. SafeInv => ~overrun
  BY DEF SafeInv
<1> QED BY <1>1, SafeInvariant, CapacityCorrect, PTL DEF MemorySafe

-----------------------------------------------------------------------------
(***************************************************************************)
(* Only the calls that construct a vector write its configuration.         *)
(***************************************************************************)
Configured ==
  data # NULL =>
    \/ /\ allocator = "none" /\ growth_factor = 1 /\ shrink_threshold = 0
    \/ /\ allocator = "dynamic" /\ growth_factor >= 1
       /\ growth_factor \in GrowthFactors
       /\ shrink_threshold \in ShrinkThresholds

LEMMA ConstructConfigures ==
  ASSUME TypeOK, Configured, Construct
  PROVE  Configured'
<1>1. ASSUME NEW elements, NEW c, NEW g \in GrowthFactors,
             NEW t \in ShrinkThresholds, NEW d,
             InitWith(elements, c, g, t, d)
      PROVE  Configured'
  <2>1. g \in Nat BY VectorAssumption
  <2> QED BY <1>1, <2>1
          DEF InitWith, Refuse, Crash, vector, config, Configured
<1>2. ASSUME NEW elements, NEW c, NEW d, BufferWith(elements, c, d)
      PROVE  Configured'
  BY <1>2 DEF BufferWith, Refuse, Crash, vector, config, Configured
<1>3. ASSUME NEW c, NEW elements, Refuse("INSUFFICIENT_BUFFER_SIZE")
      PROVE  Configured'
  BY <1>3 DEF Refuse, vector, config, Configured
<1> QED BY <1>1, <1>2, <1>3 DEF Construct, InitEx, DuplicateEx,
           InitCustomBuffer, DuplicateCustomBuffer

\* Every call but a construction needs an initialised vector and leaves its
\* configuration alone.
LEMMA CallKeepsConfig ==
  ASSUME Destroy \/ Insertion \/ Modification \/ Deletion \/ Management
  PROVE  data # NULL /\ UNCHANGED config
<1> USE DEF Live, Refuse, Fail, Finish, Crash, vector
<1>1. CASE Destroy
  BY <1>1 DEF Destroy
<1>2. CASE Insertion
  <2>1. ASSUME NEW e \in Element, PushBack(e)
        PROVE  data # NULL /\ UNCHANGED config
    BY <2>1 DEF PushBack
  <2>2. ASSUME NEW i \in Indices, NEW run \in Runs, InsertRange(i, run)
        PROVE  data # NULL /\ UNCHANGED config
    BY <2>2 DEF InsertRange
  <2>3. ASSUME NEW i \in Indices, NEW e \in Element,
               NEW c \in {"none", "succeeds", "fails"}, EmplaceEx(i, e, c)
        PROVE  data # NULL /\ UNCHANGED config
    BY <2>3 DEF EmplaceEx
  <2> QED BY <1>2, <2>1, <2>2, <2>3 DEF Insertion
<1>3. CASE Modification
  BY <1>3 DEF Modification, Set, SwapElements
<1>4. CASE Deletion
  BY <1>4 DEF Deletion, DeleteRange, PopBack
<1>5. CASE Management
  BY <1>5 DEF Management, ResizeEx, Reserve, ShrinkToFit
<1> QED BY <1>1, <1>2, <1>3, <1>4, <1>5

LEMMA ConfiguredStep ==
  ASSUME TypeOK, Configured, [Next]_vars
  PROVE  Configured'
<1>1. CASE Construct
  BY <1>1, ConstructConfigures
<1>2. CASE Destroy \/ Insertion \/ Modification \/ Deletion \/ Management
  BY <1>2, CallKeepsConfig DEF Configured, config
<1>3. CASE UNCHANGED vars
  BY <1>3 DEF vars, Configured
<1> QED BY <1>1, <1>2, <1>3 DEF Next

LEMMA ConfiguredInvariant == Spec => [](TypeOK /\ Configured)
<1>1. Init => TypeOK /\ Configured
  BY InitType DEF Init, Configured
<1>2. TypeOK /\ Configured /\ [Next]_vars => (TypeOK /\ Configured)'
  BY ConfiguredStep, NextType
<1> QED BY <1>1, <1>2, PTL DEF Spec

-----------------------------------------------------------------------------
(***************************************************************************)
(* A call that changes the size of an initialised vector does so through   *)
(* one of three requests.                                                  *)
(***************************************************************************)
Grew == \E r \in GrowTo(size') :
          /\ size' > size /\ r.status = "SUCCESS"
          /\ capacity' = r.capacity /\ Len(data') = Len(r.p)

Shrank == \E p \in Block : \E r \in ShrinkTo(p, size') :
            /\ size' < size /\ Len(p) = Len(data)
            /\ capacity' = r.capacity /\ data' = r.p

Sized == \E r \in Resizing(size') :
           /\ r.status = "SUCCESS"
           /\ capacity' = r.capacity /\ Len(data') = Len(r.p)

\* Copies and moves do not change the length of a block.
LEMMA BlockLength ==
  ASSUME NEW p \in Block
  PROVE  /\ \A pos, cells : Len(MemCpy(p, pos, cells)) = Len(p)
         /\ \A dst, src, n : Len(MemMove(p, dst, src, n)) = Len(p)
BY DEF MemCpy, MemMove, Block

LEMMA ShiftLength ==
  ASSUME NEW p \in Block
  PROVE  \A index, count : /\ Len(ShiftRight(p, index, count)) = Len(p)
                           /\ Len(ShiftLeft(p, index, count)) = Len(p)
BY BlockLength DEF ShiftRight, ShiftLeft

LEMMA PushBackSizes ==
  ASSUME TypeOK, NEW e \in Element, PushBack(e), size' # size
  PROVE  Grew
<1>1. PICK r \in GrowTo(size + 1) :
        IF r.status # "SUCCESS" THEN Fail(r)
        ELSE IF ~InBlock(r.p, size, 1) THEN Crash
        ELSE /\ Finish(r, MemCpy(r.p, size, <<e>>), size + 1)
             /\ destroyed' = << >>
  BY DEF PushBack
<1>2. r.status = "SUCCESS" /\ Finish(r, MemCpy(r.p, size, <<e>>), size + 1)
  BY <1>1 DEF Fail, Crash, vector
<1>3. r.p \in Block /\ size \in Nat
  BY GrowToType DEF TypeOK
<1> QED BY <1>2, <1>3, BlockLength DEF Grew, Finish

LEMMA InsertRangeSizes ==
  ASSUME TypeOK, NEW index \in Nat, NEW run \in Block,
         InsertRange(index, run), size' # size
  PROVE  Grew
<1> DEFINE count == Len(run)
           cells(r) == MemCpy(ShiftRight(r.p, index, count), index, run)
<1>1. PICK r \in GrowTo(size + count) :
        r.status = "SUCCESS" /\ Finish(r, cells(r), size + count)
  BY DEF InsertRange, Refuse, Fail, Crash, vector
<1>2. size \in Nat /\ count \in Nat /\ count # 0
  BY DEF TypeOK, Block, InsertRange, Refuse, vector
<1>3. r.p \in Block
  BY <1>2, GrowToType
<1>4. Len(cells(r)) = Len(r.p)
  <2>1. ShiftRight(r.p, index, count) \in Block
    BY <1>2, <1>3 DEF ShiftRight, MemMove, Block
  <2> QED BY <1>3, <2>1, BlockLength, ShiftLength
<1> HIDE DEF cells
<1> QED BY <1>1, <1>2, <1>4 DEF Grew, Finish

LEMMA EmplaceExSizes ==
  ASSUME TypeOK, NEW index \in Nat, NEW e \in Element, NEW constructor,
         EmplaceEx(index, e, constructor), size' # size
  PROVE  Grew
<1> DEFINE shifted(r) == ShiftRight(r.p, index, 1)
           built(r) == MemCpy(shifted(r), index, <<e>>)
<1>1. PICK r \in GrowTo(size + 1) :
        /\ r.status = "SUCCESS"
        /\ Finish(r, shifted(r), size + 1) \/ Finish(r, built(r), size + 1)
  BY DEF EmplaceEx, Refuse, Fail, Crash, vector, Finish
<1>2. size \in Nat /\ size + 1 \in Nat
  BY DEF TypeOK
<1>3. r.p \in Block
  BY <1>2, GrowToType
<1>4. Len(shifted(r)) = Len(r.p)
  BY <1>3, ShiftLength
<1>5. Len(built(r)) = Len(r.p)
  <2>1. shifted(r) \in Block
    BY <1>2, <1>3 DEF ShiftRight, MemMove, Block
  <2> QED BY <1>4, <2>1, BlockLength
<1> HIDE DEF shifted, built
<1> QED BY <1>1, <1>2, <1>4, <1>5 DEF Grew, Finish

LEMMA DeletionSizes ==
  ASSUME TypeOK, Deletion, size' # size
  PROVE  Shrank
<1>1. ASSUME NEW i \in Nat, NEW n \in Nat, DeleteRange(i, n)
      PROVE  Shrank
  <2> DEFINE left == ShiftLeft(data, i, n)
             touched == IF i + n < size THEN size - i
                        ELSE IF destructor THEN n ELSE 0
  <2>0. size \in Nat /\ data \in Block
    BY DEF TypeOK
  <2>1. /\ ~Refuse("INVALID_ARGUMENT") /\ ~Refuse("OUT_OF_RANGE") /\ ~Crash
    BY <1>1 DEF Refuse, Crash, vector
  <2>2. /\ n # 0 /\ i + n <= size /\ InBlock(data, i, touched)
        /\ \E r \in ShrinkTo(left, size - n) : Finish(r, r.p, size - n)
    BY <1>1, <2>0, <2>1 DEF DeleteRange
  <2>3. PICK r \in ShrinkTo(left, size - n) : Finish(r, r.p, size - n)
    BY <2>2
  <2>4. left \in Block /\ Len(left) = Len(data)
    <3>1. CASE i + n < size
      BY <2>0, <2>2, <3>1, ShiftType DEF InBlock, Block
    <3>2. CASE ~(i + n < size)
      BY <2>0, <3>2 DEF ShiftLeft
    <3> QED BY <3>1, <3>2
  <2> HIDE DEF left
  <2> QED BY <2>0, <2>2, <2>3, <2>4 DEF Shrank, Finish
<1>2. CASE PopBack
  <2>1. size # 0
    BY <1>2 DEF PopBack, Refuse, vector
  <2>2. PICK r \in ShrinkTo(data, size - 1) : Finish(r, r.p, size - 1)
    BY <1>2, <2>1 DEF PopBack, Crash, vector
  <2> QED BY <2>1, <2>2 DEF Shrank, Finish, TypeOK
<1>3. \A i \in Indices : i \in Nat
  BY DEF Indices, TypeOK
<1> QED BY <1>1, <1>2, <1>3 DEF Deletion

LEMMA ManagementSizes ==
  ASSUME TypeOK, Management, size' # size
  PROVE  Sized
<1>1. ASSUME NEW n \in Nat, NEW e, ResizeEx(n, e)
      PROVE  Sized
  <2> DEFINE fresh == [i \in 1..(n - size) |-> e]
  <2>1. PICK r \in Resizing(n) :
          /\ r.status = "SUCCESS"
          /\ Finish(r, r.p, n) \/ Finish(r, MemCpy(r.p, size, fresh), n)
    BY <1>1 DEF ResizeEx, Refuse, Crash, Finish, vector
  <2>2. r.p \in Block
    BY ReallocateType, KeptType, RequestType DEF TypeOK, Resizing
  <2>3. Len(MemCpy(r.p, size, fresh)) = Len(r.p)
    BY <2>2, BlockLength
  <2> HIDE DEF fresh
  <2> QED BY <2>1, <2>3 DEF Sized, Finish
<1>2. CASE (\E n \in 0..MaxCapacity : Reserve(n)) \/ ShrinkToFit
  BY <1>2 DEF Reserve, ShrinkToFit, Finish
<1> QED BY <1>1, <1>2, VectorAssumption DEF Management

\* The three requests are all there is.
LEMMA SizeChanges ==
  ASSUME TypeOK, Next, Live, size' # size
  PROVE  Grew \/ Shrank \/ Sized
<1>1. \A i \in Indices : i \in Nat
  BY DEF Indices, TypeOK
<1>2. CASE Construct
  BY <1>2 DEF Live, Construct, InitEx, DuplicateEx, InitWith,
     InitCustomBuffer, DuplicateCustomBuffer, BufferWith
<1>3. CASE Destroy
  BY <1>3 DEF Destroy, Crash, vector
<1>4. CASE Insertion
  BY <1>1, <1>4, RunsType, PushBackSizes, InsertRangeSizes, EmplaceExSizes
     DEF Insertion
<1>5. CASE Modification
  BY <1>5 DEF Modification, Set, SwapElements, Refuse, Crash, vector
<1>6. CASE Deletion
  BY <1>6, DeletionSizes
<1>7. CASE Management
  BY <1>7, ManagementSizes
<1> QED BY <1>2, <1>3, <1>4, <1>5, <1>6, <1>7 DEF Next

-----------------------------------------------------------------------------
(* Multiplication, as far as the policies need it. *)

LEMMA ProductMonotone ==
  ASSUME NEW n \in Nat, NEW g \in Nat, NEW t \in Nat, g <= t
  PROVE  /\ n * g \in Nat /\ n * t \in Nat
         /\ n * g <= n * t
<1>1. PICK k \in Nat : t = g + k
  <2>1. t - g \in Nat /\ t = g + (t - g) OBVIOUS
  <2> QED BY <2>1
<1>2. n * t = n * g + n * k /\ n * k \in Nat /\ n * g \in Nat BY <1>1
<1> QED BY <1>2

\* Half of the threshold leaves room for one element more.
LEMMA HalfThreshold ==
  ASSUME NEW n \in Nat, n # 0, NEW g \in Nat, NEW t \in Nat, 2 * g <= t
  PROVE  (n + 1) * g <= n * t
<1>1. g <= n * g
  <2>1. PICK m \in Nat : n = m + 1
    <3>1. n - 1 \in Nat /\ n = (n - 1) + 1 OBVIOUS
    <3> QED BY <3>1
  <2>2. n * g = m * g + g /\ m * g \in Nat BY <2>1
  <2> QED BY <2>2
<1>2. (n + 1) * g = n * g + g /\ n * (2 * g) = n * g + n * g /\ n * g \in Nat
  OBVIOUS
<1>3. n * (2 * g) <= n * t
  BY ProductMonotone
<1>4. n * t \in Nat OBVIOUS
<1> QED BY <1>1, <1>2, <1>3, <1>4

\* Twice the elements leave room for one more.
LEMMA Doubled ==
  ASSUME NEW n \in Nat, n # 0, NEW g \in Nat, 2 <= g
  PROVE  n + 1 <= n * g
<1>1. n * 2 <= n * g /\ n * g \in Nat
  BY ProductMonotone
<1> QED BY <1>1

-----------------------------------------------------------------------------
(* What a reallocation makes of the capacity the vector records. *)

LEMMA ReallocateCapacity ==
  ASSUME NEW p, NEW n \in Nat, NEW r \in Reallocate(p, n)
  PROVE  \/ r.capacity = Max2(n, MinCapacity) /\ allocator # "none"
         \/ r.capacity = capacity /\ allocator = "none"
         \/ r.capacity = capacity /\ capacity <= MinCapacity
BY DEF Reallocate

LEMMA GrowToCapacity ==
  ASSUME TypeOK, growth_factor >= 1, NEW n \in Nat, NEW r \in GrowTo(n)
  PROVE  r.capacity >= capacity
<1>1. CASE ShouldGrow(n)
  <2> DEFINE m == Max2(1, n * growth_factor)
  <2>1. m \in Nat /\ n <= m /\ growth_factor \in Nat /\ capacity \in Nat
    BY RequestType, RequestCovers DEF TypeOK
  <2>2. r \in Reallocate(data, m)
    BY <1>1 DEF GrowTo
  <2> HIDE DEF m
  <2>3. r.capacity = Max2(m, 1) \/ r.capacity = capacity
    BY <2>1, <2>2, ReallocateCapacity DEF MinCapacity
  <2> QED BY <1>1, <2>1, <2>3 DEF ShouldGrow, Max2
<1>2. CASE ~ShouldGrow(n)
  BY <1>2 DEF GrowTo, Kept, TypeOK
<1> QED BY <1>1, <1>2

LEMMA ResizingCapacity ==
  ASSUME TypeOK, growth_factor >= 1, NEW n \in Nat, ~ShouldShrink(n),
         NEW r \in Resizing(n)
  PROVE  r.capacity >= capacity
<1>1. CASE ShouldGrow(n)
  <2> DEFINE m == n * growth_factor
  <2>1. m \in Nat /\ n <= m /\ growth_factor \in Nat /\ capacity \in Nat
    BY RequestType, RequestCovers DEF TypeOK
  <2>2. r \in Reallocate(data, m)
    BY <1>1 DEF Resizing
  <2> HIDE DEF m
  <2>3. r.capacity = Max2(m, 1) \/ r.capacity = capacity
    BY <2>1, <2>2, ReallocateCapacity DEF MinCapacity
  <2> QED BY <1>1, <2>1, <2>3 DEF ShouldGrow, Max2
<1>2. CASE ~ShouldGrow(n)
  BY <1>2 DEF Resizing, Kept, TypeOK
<1> QED BY <1>1, <1>2

\* With shrinking off, a call that adds elements never gives back capacity
\* the vector has, under every allocator and every growth factor.
THEOREM ReservationHolds == Spec => ReservationKept
<1> DEFINE Adding == Live /\ shrink_threshold = 0 /\ size' > size
<1>1. ASSUME TypeOK, Configured, [Next]_vars, Adding
      PROVE  capacity' >= capacity
  <2>1. /\ data # NULL /\ growth_factor >= 1
        /\ size \in Nat /\ capacity \in Nat /\ growth_factor \in Nat
    BY <1>1 DEF Live, Configured, TypeOK
  <2>2. Next /\ size' # size
    BY <1>1, <2>1 DEF vars
  <2>3. TypeOK'
    BY <1>1, NextType
  <2>4. size' \in Nat
    BY <2>3 DEF TypeOK
  <2>5. CASE Grew
    BY <1>1, <2>1, <2>4, <2>5, GrowToCapacity DEF Grew
  <2>6. CASE Shrank
    BY <1>1, <2>1, <2>4, <2>6 DEF Shrank
  <2>7. CASE Sized
    <3>1. ~ShouldShrink(size')
      BY <1>1 DEF ShouldShrink
    <3> QED BY <1>1, <2>1, <2>4, <2>7, <3>1, ResizingCapacity DEF Sized
  <2> QED BY <1>1, <2>2, <2>5, <2>6, <2>7, SizeChanges
<1>2. TypeOK /\ Configured /\ [Next]_vars => (Adding => capacity' >= capacity)
  BY <1>1
<1> QED BY <1>2, ConfiguredInvariant, PTL DEF Spec, ReservationKept

-----------------------------------------------------------------------------
(***************************************************************************)
(* The parameters that make the policies sensible; the defaults of         *)
(* Vector.h, a growth factor of 2 and a shrink threshold of 4, satisfy     *)
(* both, the second one without anything to spare.                         *)
(***************************************************************************)
ThresholdAboveFactor ==
  \A g \in GrowthFactors, t \in ShrinkThresholds : t # 0 => g <= t

Hysteresis ==
  \A g \in GrowthFactors, t \in ShrinkThresholds :
    g >= 1 /\ t # 0 => 2 <= g /\ 2 * g <= t

LEMMA ShrinkToCapacity ==
  ASSUME TypeOK, growth_factor <= shrink_threshold, shrink_threshold # 0,
         allocator # "none", NEW p, NEW n \in Nat, NEW r \in ShrinkTo(p, n)
  PROVE  r.capacity <= Max2(1, n * shrink_threshold)
<1>1. /\ n * growth_factor \in Nat /\ n * shrink_threshold \in Nat
      /\ n * growth_factor <= n * shrink_threshold
      /\ capacity \in Nat
  BY ProductMonotone DEF TypeOK
<1> DEFINE bound == n * shrink_threshold
           m == n * growth_factor
<1>2. CASE ShouldShrink(n)
  <2>1. r \in Reallocate(p, Max2(1, m)) /\ Max2(1, m) \in Nat
    BY <1>1, <1>2 DEF ShrinkTo, Max2
  <2>2. r.capacity = Max2(Max2(1, m), 1) \/ (r.capacity = capacity /\ capacity <= 1)
    BY <2>1, ReallocateCapacity DEF MinCapacity
  <2> HIDE DEF m, bound
  <2> QED BY <1>1, <2>2 DEF Max2, m, bound
<1>3. CASE ~ShouldShrink(n)
  <2>1. r.capacity = capacity
    BY <1>3 DEF ShrinkTo, Kept
  <2> QED BY <1>1, <1>3, <2>1 DEF ShouldShrink, Max2
<1> QED BY <1>2, <1>3

LEMMA SmallerSizing ==
  ASSUME TypeOK, growth_factor <= shrink_threshold, shrink_threshold # 0,
         allocator # "none", NEW n \in Nat, NEW r \in Resizing(n)
  PROVE  r.capacity <= Max2(1, n * shrink_threshold)
<1> DEFINE bound == n * shrink_threshold
           m == n * growth_factor
<1>1. bound \in Nat /\ m \in Nat /\ m <= bound /\ capacity \in Nat
  BY ProductMonotone DEF TypeOK
<1>2. CASE ShouldGrow(n) \/ ShouldShrink(n)
  <2>1. r \in Reallocate(data, m)
    BY <1>2 DEF Resizing
  <2> HIDE DEF m, bound
  <2>2. r.capacity = Max2(m, 1) \/ (r.capacity = capacity /\ capacity <= 1)
    BY <1>1, <2>1, ReallocateCapacity DEF MinCapacity
  <2> QED BY <1>1, <2>2 DEF Max2, bound
<1>3. CASE ~(ShouldGrow(n) \/ ShouldShrink(n))
  <2>1. r.capacity = capacity
    BY <1>3 DEF Resizing, Kept
  <2> QED BY <1>1, <1>3, <2>1 DEF ShouldShrink, Max2
<1> QED BY <1>2, <1>3

\* With dynamic shrinking on and a threshold not below the growth factor, a
\* deletion never leaves more than shrink_threshold times the memory the
\* elements need, under every allocator.
THEOREM WasteIsBounded ==
  ASSUME ThresholdAboveFactor
  PROVE  Spec => WasteBounded
<1> DEFINE Removing == /\ Live /\ data' # NULL
                       /\ size' < size /\ shrink_threshold # 0
           Bounded == capacity' <= Max2(1, size' * shrink_threshold)
<1>1. ASSUME TypeOK, Configured, [Next]_vars, Removing
      PROVE  Bounded
  <2>1. /\ allocator # "none" /\ growth_factor <= shrink_threshold
        /\ data # NULL /\ size \in Nat
    BY <1>1 DEF Live, Configured, TypeOK, ThresholdAboveFactor
  <2>2. TypeOK'
    BY <1>1, NextType
  <2>3. size' \in Nat
    BY <2>2 DEF TypeOK
  <2>4. Next /\ size' # size
    BY <1>1, <2>1 DEF vars
  <2>5. CASE Grew
    BY <1>1, <2>1, <2>3, <2>5 DEF Grew
  <2>6. CASE Shrank
    BY <1>1, <2>1, <2>3, <2>6, ShrinkToCapacity DEF Shrank
  <2>7. CASE Sized
    BY <1>1, <2>1, <2>3, <2>7, SmallerSizing DEF Sized
  <2> QED BY <1>1, <2>4, <2>5, <2>6, <2>7, SizeChanges
<1>2. TypeOK /\ Configured /\ [Next]_vars => (Removing => Bounded)
  BY <1>1
<1> QED BY <1>2, ConfiguredInvariant, PTL DEF Spec, WasteBounded

-----------------------------------------------------------------------------
(***************************************************************************)
(* The block's length is the capacity (SafeInv), so the policies can be    *)
(* read off the capacities alone.                                          *)
(***************************************************************************)
LEMMA GrownForOne ==
  ASSUME TypeOK, capacity >= 1, growth_factor >= 1,
         shrink_threshold # 0, 2 * growth_factor <= shrink_threshold,
         NEW n \in Nat, n = size + 1,
         NEW r \in GrowTo(n) \cup Resizing(n), r.capacity > capacity
  PROVE  r.capacity <= size * shrink_threshold
<1> DEFINE m == n * growth_factor
           bound == size * shrink_threshold
<1>1. /\ size \in Nat /\ capacity \in Nat /\ growth_factor \in Nat
      /\ shrink_threshold \in Nat /\ m \in Nat /\ bound \in Nat
  BY DEF TypeOK
<1>2. PICK k \in {m, Max2(1, m)} :
        r \in Reallocate(data, k) /\ (ShouldGrow(n) \/ ShouldShrink(n))
  BY <1>1 DEF GrowTo, Resizing, Kept
<1>3. m <= n * shrink_threshold /\ n * shrink_threshold \in Nat
  BY <1>1, ProductMonotone
<1>4. size # 0 => m <= bound
  BY <1>1, HalfThreshold
<1>5. size # 0 => bound >= 1
  <2>1. size * 1 <= bound
    BY <1>1, ProductMonotone
  <2> QED BY <1>1, <2>1
<1> HIDE DEF m, bound
<1>6. r.capacity = Max2(m, 1)
  <2>1. k \in Nat /\ Max2(k, 1) = Max2(m, 1)
    BY <1>1, <1>2 DEF Max2
  <2> QED BY <1>1, <1>2, <2>1, ReallocateCapacity DEF MinCapacity
<1>7. ShouldGrow(n)
  BY <1>1, <1>2, <1>3, <1>6 DEF ShouldShrink, Max2
<1>8. size # 0
  BY <1>1, <1>7 DEF ShouldGrow
<1> QED BY <1>1, <1>4, <1>5, <1>6, <1>8 DEF Max2, bound

LEMMA ShrunkByOne ==
  ASSUME TypeOK, size <= capacity, growth_factor >= 1,
         shrink_threshold # 0 => growth_factor >= 2,
         NEW p, NEW n \in Nat, size = n + 1,
         NEW r \in ShrinkTo(p, n) \cup Resizing(n), r.capacity < capacity
  PROVE  size <= r.capacity
<1> DEFINE m == n * growth_factor
<1>1. /\ size \in Nat /\ capacity \in Nat /\ growth_factor \in Nat
      /\ m \in Nat
  BY DEF TypeOK
<1>2. /\ ShouldShrink(n)
      /\ \E q \in {p, data}, k \in {m, Max2(1, m)} : r \in Reallocate(q, k)
  BY <1>1 DEF ShrinkTo, Resizing, Kept, ShouldGrow
<1>3. n # 0 => n + 1 <= m
  BY <1>1, <1>2, Doubled DEF ShouldShrink
<1> HIDE DEF m
<1>4. PICK q \in {p, data}, k \in {m, Max2(1, m)} : r \in Reallocate(q, k)
  BY <1>2
<1>5. k \in Nat /\ Max2(k, 1) = Max2(m, 1)
  BY <1>1, <1>4 DEF Max2
<1>6. r.capacity = Max2(m, 1)
  BY <1>1, <1>4, <1>5, ReallocateCapacity DEF MinCapacity
<1> QED BY <1>1, <1>3, <1>6 DEF Max2

\* The growth and shrink policies do not chase each other, for any growth
\* factor of at least two and any threshold of at least twice that: a block
\* that grew for one element is not shrunk when it goes, one that shrank is
\* not grown when it comes back.
THEOREM PoliciesDoNotThrash ==
  ASSUME AllocatorFailures = "never", Hysteresis
  PROVE  Spec => NoThrashing
<1> DEFINE moved == Live /\ allocator = "dynamic" /\ status' = "SUCCESS"
           Growing == moved /\ size' = size + 1 /\ Len(data') > Len(data)
           Shrinking == /\ moved /\ data' # NULL
                        /\ size' = size - 1 /\ Len(data') < Len(data)
           Calm == /\ Growing => \/ shrink_threshold = 0
                                 \/ Len(data') <= size * shrink_threshold
                   /\ Shrinking => size <= Len(data')
<1>1. ASSUME SafeInv, Configured, SafeInv', [Next]_vars
      PROVE  Calm
  <2>1. TypeOK /\ Layout /\ TypeOK' /\ Layout'
    BY <1>1 DEF SafeInv
  <2>2. /\ size \in Nat /\ size' \in Nat /\ capacity \in Nat
        /\ data \in Block /\ data' \in Block
    BY <2>1 DEF TypeOK
  <2>3. ASSUME moved
        PROVE  /\ capacity = Len(data) /\ capacity >= 1 /\ size <= capacity
               /\ growth_factor >= 1
               /\ shrink_threshold # 0 =>
                    growth_factor >= 2 /\ 2 * growth_factor <= shrink_threshold
    <3>1. data # NULL BY <2>3 DEF Live
    <3>2. capacity = Len(data) /\ size <= capacity
      BY <2>1, <3>1 DEF Layout
    <3>3. capacity >= 1
      BY <2>2, <3>1, <3>2 DEF Block, NULL
    <3>4. /\ growth_factor \in GrowthFactors /\ growth_factor >= 1
          /\ shrink_threshold \in ShrinkThresholds
      BY <1>1, <2>3, <3>1 DEF Configured
    <3> QED BY <3>2, <3>3, <3>4 DEF Hysteresis
  <2>4. ASSUME moved, size' # size
        PROVE  Grew \/ Shrank \/ Sized
    <3>1. Next BY <1>1, <2>4 DEF vars
    <3> QED BY <2>1, <2>4, <3>1, SizeChanges
  <2>5. data' # NULL => capacity' = Len(data')
    BY <2>1 DEF Layout
  <2>6. ASSUME Growing, shrink_threshold # 0
        PROVE  Len(data') <= size * shrink_threshold
    <3>1. data' # NULL
      BY <2>2, <2>6 DEF Block, NULL
    <3>2. capacity' > capacity /\ size' > size
      BY <2>2, <2>3, <2>5, <2>6, <3>1
    <3>3. PICK r \in GrowTo(size') \cup Resizing(size') : capacity' = r.capacity
      BY <2>2, <2>4, <2>6, <3>2 DEF Grew, Shrank, Sized
    <3>4. r.capacity <= size * shrink_threshold
      BY <2>1, <2>2, <2>3, <2>6, <3>2, <3>3, GrownForOne
    <3> QED BY <2>5, <3>1, <3>3, <3>4
  <2>7. ASSUME Shrinking
        PROVE  size <= Len(data')
    <3>1. capacity' < capacity /\ size' < size /\ size = size' + 1
      BY <2>2, <2>3, <2>5, <2>7
    <3>2. PICK p : \E r \in ShrinkTo(p, size') \cup Resizing(size') :
                     capacity' = r.capacity
      BY <2>2, <2>4, <2>7, <3>1 DEF Grew, Shrank, Sized
    <3>3. PICK r \in ShrinkTo(p, size') \cup Resizing(size') :
                     capacity' = r.capacity
      BY <3>2
    <3>4. size <= r.capacity
      BY <2>1, <2>2, <2>3, <2>7, <3>1, <3>3, ShrunkByOne
    <3> QED BY <2>5, <2>7, <3>3, <3>4
  <2> QED BY <2>6, <2>7
<1>2. SafeInv /\ Configured /\ SafeInv' /\ [Next]_vars => Calm
  BY <1>1
<1> QED BY <1>2, SafeInvariant, ConfiguredInvariant, PTL DEF Spec, NoThrashing

-----------------------------------------------------------------------------
(***************************************************************************)
(* The refinement of ElementSequence holds for an allocator that refuses   *)
(* none but requests for more memory.  A vector whose reallocation was     *)
(* refused records a capacity its block does not have, and can come to     *)
(* have a size the block does not have either: the cells beyond it read as *)
(* Undef.  What makes later calls keep every element all the same is that  *)
(* the recorded capacity never falls below the elements the block holds.   *)
(***************************************************************************)
Recorded == data # NULL => /\ size <= capacity \/ Len(data) <= capacity
                           /\ allocator = "none" => size <= capacity

CallInv == TypeOK /\ Configured /\ Recorded

\* The elements are the block's first cells, as Resized delivers them.
LEMMA ContentsAre == TypeOK => Contents = Resized(data, size)
BY DEF TypeOK, Contents, Get, Resized, Block

LEMMA ContentsBecome == TypeOK' => Contents' = Resized(data', size')
BY DEF TypeOK, Contents, Get, Resized, Block

\* A block cut to c cells still has its first k, if it had no more than c.
LEMMA ResizedTwice ==
  ASSUME NEW p \in Block, NEW c \in Nat, NEW k \in Nat, k <= c \/ Len(p) <= c
  PROVE  Resized(Resized(p, c), k) = Resized(p, k)
<1> DEFINE q == Resized(p, c)
<1>1. Len(q) = c /\ Len(p) \in Nat
  BY ResizedType DEF Block
<1>2. \A i \in 1..c : q[i] = IF i <= Len(p) THEN p[i] ELSE Undef
  BY DEF Resized
<1> HIDE DEF q
<1>3. \A i \in 1..k : (IF i <= Len(q) THEN q[i] ELSE Undef)
                        = (IF i <= Len(p) THEN p[i] ELSE Undef)
  BY <1>1, <1>2
<1>4. Resized(q, k) = Resized(p, k)
  BY <1>3 DEF Resized
<1> QED BY <1>4 DEF q

-----------------------------------------------------------------------------
(* What a request for memory can come to. *)

\* Reallocation r of block p for n elements: there was nothing to do, a
\* custom buffer is too small, the block moved, or the allocator refused.
Outcome(p, n, r) ==
  \/ /\ r.status = "SUCCESS" /\ r.p = p /\ r.capacity = capacity
     /\ n <= capacity \/ n = 0
  \/ /\ r.status = "INSUFFICIENT_BUFFER_SIZE" /\ r.p = p
     /\ r.capacity = capacity /\ allocator = "none" /\ capacity < n
  \/ /\ r.status = "SUCCESS" /\ allocator # "none"
     /\ r.capacity >= 1 /\ r.capacity >= n /\ r.p = Resized(p, r.capacity)
  \/ /\ r.status = "NOT_ENOUGH_MEMORY" /\ AllocatorFailures # "never"
     /\ allocator # "none" /\ r.p = p
     /\ r.capacity >= n /\ r.capacity > Len(p)

LEMMA ReallocateOutcome ==
  ASSUME AllocatorFailures # "any", TypeOK, NEW p \in Block, NEW n \in Nat,
         NEW r \in Reallocate(p, n)
  PROVE  Outcome(p, n, r)
<1>0. capacity \in Nat
  BY DEF TypeOK
<1>1. CASE allocator = "none"
  BY <1>0, <1>1 DEF Reallocate, Outcome
<1>2. CASE allocator # "none" /\ n < MinCapacity /\ capacity <= MinCapacity
  BY <1>2 DEF Reallocate, MinCapacity, Outcome
<1>3. CASE allocator # "none" /\ ~(n < MinCapacity /\ capacity <= MinCapacity)
  <2> DEFINE c == Max2(n, MinCapacity)
  <2>1. c \in Nat /\ n <= c /\ 1 <= c BY DEF Max2, MinCapacity
  <2>2. PICK x \in Realloc(p, c) :
          r = [status |-> x.status, capacity |-> c, p |-> x.p]
    BY <1>3 DEF Reallocate
  <2> HIDE DEF c
  <2>3. \/ x.status = "SUCCESS" /\ x.p = Resized(p, c)
        \/ /\ x.status = "NOT_ENOUGH_MEMORY" /\ x.p = p /\ MayRefuse(Len(p), c)
    BY DEF Realloc
  <2> QED BY <1>3, <2>1, <2>2, <2>3 DEF Outcome, MayRefuse
<1> QED BY <1>1, <1>2, <1>3

\* An outcome keeps the first k cells if k are asked for, or if the recorded
\* capacity covers what the block holds of them.
LEMMA OutcomeKeeps ==
  ASSUME TypeOK, NEW p \in Block, p # NULL, NEW n \in Nat, NEW r,
         Outcome(p, n, r), r.capacity \in Nat,
         NEW k \in Nat, k <= n \/ (Len(p) <= capacity /\ capacity <= n)
  PROVE  r.p \in Block /\ r.p # NULL /\ Resized(r.p, k) = Resized(p, k)
<1>1. CASE r.p = p
  BY <1>1
<1>2. CASE r.p = Resized(p, r.capacity) /\ r.capacity >= 1 /\ r.capacity >= n
  <2>1. k <= r.capacity \/ Len(p) <= r.capacity
    BY <1>2 DEF Block, TypeOK
  <2> QED BY <1>2, <2>1, ResizedTwice, ResizedType DEF NULL
<1> QED BY <1>1, <1>2 DEF Outcome

\* Asking for room for n elements, n the vector's size or more
LEMMA GrowToOutcome ==
  ASSUME AllocatorFailures # "any", CallInv, data # NULL,
         NEW n \in Nat, size <= n, NEW r \in GrowTo(n)
  PROVE  /\ r.p \in Block /\ r.p # NULL /\ r.capacity \in Nat
         /\ Resized(r.p, size) = Resized(data, size)
         /\ r.status \in {"SUCCESS"} \cup Sequence!NoRoom
         /\ size <= r.capacity \/ Len(r.p) <= r.capacity
         /\ allocator = "none" => size <= r.capacity
         /\ r.status = "SUCCESS" => n <= r.capacity
<1> DEFINE m == Max2(1, n * growth_factor)
<1>1. /\ TypeOK /\ data \in Block /\ size \in Nat /\ capacity \in Nat
      /\ growth_factor \in Nat /\ growth_factor >= 1
      /\ size <= capacity \/ Len(data) <= capacity
      /\ allocator = "none" => size <= capacity
  BY DEF CallInv, Configured, Recorded, TypeOK
<1>2. r.capacity \in Nat
  BY <1>1, GrowToType
<1>3. CASE ~ShouldGrow(n)
  BY <1>1, <1>3 DEF GrowTo, Kept, ShouldGrow
<1>4. CASE ShouldGrow(n)
  <2>1. m \in Nat /\ n <= m /\ capacity < n
    BY <1>1, <1>4, RequestType, RequestCovers DEF ShouldGrow
  <2>2. r \in Reallocate(data, m)
    BY <1>4 DEF GrowTo
  <2> HIDE DEF m
  <2>3. Outcome(data, m, r)
    BY <1>1, <2>1, <2>2, ReallocateOutcome
  <2>4. size <= m
    BY <1>1, <2>1
  <2>5. r.p \in Block /\ r.p # NULL /\ Resized(r.p, size) = Resized(data, size)
    BY <1>1, <1>2, <2>1, <2>3, <2>4, OutcomeKeeps
  <2>6. r.status \in {"SUCCESS"} \cup Sequence!NoRoom
    BY <2>3 DEF Outcome, Sequence!NoRoom, Sequence!NoMemory
  <2>7. /\ size <= r.capacity \/ Len(r.p) <= r.capacity
        /\ allocator = "none" => size <= r.capacity
        /\ r.status = "SUCCESS" => n <= r.capacity
    BY <1>1, <1>2, <2>1, <2>3, <2>4 DEF Outcome
  <2> QED BY <1>2, <2>5, <2>6, <2>7
<1> QED BY <1>3, <1>4

\* Giving back what a block p of the vector does not need for n elements, n
\* the vector's size or less
LEMMA ShrinkToOutcome ==
  ASSUME AllocatorFailures # "any", CallInv, data # NULL,
         NEW p \in Block, p # NULL, Len(p) = Len(data),
         NEW n \in Nat, n <= size, NEW r \in ShrinkTo(p, n)
  PROVE  /\ r.p \in Block /\ r.p # NULL /\ r.capacity \in Nat
         /\ Resized(r.p, n) = Resized(p, n)
         /\ r.status \in {"SUCCESS"} \cup Sequence!NoMemory
         /\ n <= r.capacity \/ Len(r.p) <= r.capacity
         /\ allocator = "none" => n <= r.capacity
<1> DEFINE m == Max2(1, n * growth_factor)
<1>1. /\ TypeOK /\ size \in Nat /\ capacity \in Nat
      /\ growth_factor \in Nat /\ growth_factor >= 1
      /\ size <= capacity \/ Len(data) <= capacity
      /\ allocator = "none" => size <= capacity /\ shrink_threshold = 0
      /\ Len(p) \in Nat
  BY DEF CallInv, Configured, Recorded, TypeOK, Block
<1>2. r.capacity \in Nat
  BY <1>1, ShrinkToType
<1>3. CASE ~ShouldShrink(n)
  BY <1>1, <1>3 DEF ShrinkTo, Kept
<1>4. CASE ShouldShrink(n)
  <2>1. m \in Nat /\ n <= m /\ m >= 1 /\ allocator # "none"
    <3>1. allocator # "none"
      BY <1>1, <1>4 DEF ShouldShrink
    <3> QED BY <1>1, <3>1, RequestType, RequestCovers DEF Max2
  <2>2. r \in Reallocate(p, m)
    BY <1>4 DEF ShrinkTo
  <2> HIDE DEF m
  <2>3. Outcome(p, m, r)
    BY <1>1, <2>1, <2>2, ReallocateOutcome
  <2>4. r.p \in Block /\ r.p # NULL /\ Resized(r.p, n) = Resized(p, n)
    BY <1>1, <1>2, <2>1, <2>3, OutcomeKeeps
  <2>5. r.status \in {"SUCCESS"} \cup Sequence!NoMemory
    BY <2>1, <2>3 DEF Outcome, Sequence!NoMemory
  <2>6. n <= r.capacity \/ Len(r.p) <= r.capacity
    BY <1>1, <1>2, <2>1, <2>3 DEF Outcome
  <2> QED BY <1>2, <2>1, <2>4, <2>5, <2>6
<1> QED BY <1>3, <1>4

\* The block for exactly n elements
LEMMA ResizingOutcome ==
  ASSUME AllocatorFailures # "any", CallInv, data # NULL,
         NEW n \in Nat, NEW r \in Resizing(n)
  PROVE  /\ r.p \in Block /\ r.p # NULL /\ r.capacity \in Nat
         /\ \A k \in Nat : k <= n => Resized(r.p, k) = Resized(data, k)
         /\ r.status \in {"SUCCESS"} \cup Sequence!NoRoom
         /\ n <= size => r.status \in {"SUCCESS"} \cup Sequence!NoMemory
         /\ r.status = "SUCCESS" => n <= r.capacity
         /\ r.status # "SUCCESS"
              => /\ r.p = data
                 /\ size <= r.capacity \/ Len(r.p) <= r.capacity
                 /\ allocator = "none" => size <= r.capacity
<1> DEFINE m == n * growth_factor
<1>1. /\ TypeOK /\ data \in Block /\ size \in Nat /\ capacity \in Nat
      /\ growth_factor \in Nat /\ growth_factor >= 1
      /\ allocator = "none" => size <= capacity /\ shrink_threshold = 0
  BY DEF CallInv, Configured, Recorded, TypeOK
<1>2. CASE ~(ShouldGrow(n) \/ ShouldShrink(n))
  BY <1>1, <1>2 DEF Resizing, Kept, ShouldGrow
<1>3. CASE ShouldGrow(n) \/ ShouldShrink(n)
  <2>1. /\ m \in Nat /\ n <= m
        /\ allocator = "none" => capacity < n
    BY <1>1, <1>3, RequestCovers DEF ShouldGrow, ShouldShrink
  <2>2. r \in Reallocate(data, m)
    BY <1>3 DEF Resizing
  <2>3. allocator = "none" => capacity < m
    BY <1>1, <2>1
  <2> HIDE DEF m
  <2>4. Outcome(data, m, r) /\ r.capacity \in Nat
    BY <1>1, <2>1, <2>2, ReallocateOutcome, ReallocateType
  <2>5. r.p \in Block /\ r.p # NULL
    BY <1>1, <2>1, <2>4, OutcomeKeeps
  <2>6. ASSUME NEW k \in Nat, k <= n
        PROVE  Resized(r.p, k) = Resized(data, k)
    BY <1>1, <2>1, <2>4, <2>6, OutcomeKeeps
  <2>7. /\ r.status \in {"SUCCESS"} \cup Sequence!NoRoom
        /\ n <= size => r.status \in {"SUCCESS"} \cup Sequence!NoMemory
    BY <1>1, <2>1, <2>4 DEF Outcome, Sequence!NoRoom, Sequence!NoMemory
  <2>8. r.status = "SUCCESS" => n <= r.capacity
    BY <1>1, <2>1, <2>4 DEF Outcome
  <2>9. r.status # "SUCCESS"
              => /\ r.p = data
                 /\ size <= r.capacity \/ Len(r.p) <= r.capacity
                 /\ allocator = "none" => size <= r.capacity
    BY <1>1, <2>1, <2>4 DEF Outcome, Block
  <2> QED BY <2>4, <2>5, <2>6, <2>7, <2>8, <2>9
<1> QED BY <1>2, <1>3

-----------------------------------------------------------------------------
(* Splices of sequences, and the block operations that compute them. *)

Spliced(s, index, count, cells) ==
  SubSeq(s, 1, index) \o cells \o SubSeq(s, index + count + 1, Len(s))

LEMMA SubSeqOf ==
  ASSUME NEW s \in Seq(Cell), NEW m \in 1..(Len(s) + 1), NEW n \in 0..Len(s),
         m <= n + 1
  PROVE  /\ SubSeq(s, m, n) \in Seq(Cell)
         /\ Len(SubSeq(s, m, n)) = n + 1 - m
         /\ \A i \in 1..(n + 1 - m) : SubSeq(s, m, n)[i] = s[m + i - 1]
<1>1. \A i \in m..n : s[i] \in Cell
  OBVIOUS
<1>2. m \in Int /\ n \in Int
  OBVIOUS
<1>3. /\ SubSeq(s, m, n) \in Seq(Cell)
      /\ Len(SubSeq(s, m, n)) = IF m <= n THEN n - m + 1 ELSE 0
      /\ \A i \in 1..(n - m + 1) : SubSeq(s, m, n)[i] = s[m + i - 1]
  BY <1>1, <1>2, SubSeqProperties
<1> QED BY <1>2, <1>3

LEMMA SplicedIs ==
  ASSUME NEW s \in Seq(Cell), NEW cells \in Seq(Cell),
         NEW index \in Nat, NEW count \in Nat, index + count <= Len(s)
  PROVE  LET t == Spliced(s, index, count, cells) IN
         /\ t \in Seq(Cell) /\ Len(t) = Len(s) - count + Len(cells)
         /\ \A i \in 1..(Len(s) - count + Len(cells)) :
              t[i] = IF i <= index THEN s[i]
                     ELSE IF i <= index + Len(cells) THEN cells[i - index]
                     ELSE s[i - Len(cells) + count]
<1> DEFINE before == SubSeq(s, 1, index)
           after == SubSeq(s, index + count + 1, Len(s))
<1>1. Len(s) \in Nat /\ Len(cells) \in Nat
  OBVIOUS
<1>2. /\ before \in Seq(Cell) /\ Len(before) = index
      /\ \A i \in 1..index : before[i] = s[i]
  BY <1>1, SubSeqOf
<1>3. /\ after \in Seq(Cell) /\ Len(after) = Len(s) - index - count
      /\ \A i \in 1..(Len(s) - index - count) :
           after[i] = s[index + count + i]
  <2>1. /\ index + count + 1 \in 1..(Len(s) + 1) /\ Len(s) \in 0..Len(s)
        /\ index + count + 1 <= Len(s) + 1
    BY <1>1
  <2>2. Len(s) + 1 - (index + count + 1) = Len(s) - index - count
    BY <1>1
  <2>3. /\ after \in Seq(Cell) /\ Len(after) = Len(s) + 1 - (index + count + 1)
        /\ \A i \in 1..(Len(s) + 1 - (index + count + 1)) :
             after[i] = s[(index + count + 1) + i - 1]
    BY <2>1, SubSeqOf
  <2> HIDE DEF after
  <2>4. ASSUME NEW i \in 1..(Len(s) - index - count)
        PROVE  after[i] = s[index + count + i]
    <3>1. (index + count + 1) + i - 1 = index + count + i
      OBVIOUS
    <3> QED BY <2>2, <2>3, <3>1
  <2> QED BY <2>2, <2>3, <2>4
<1> HIDE DEF before, after
<1> DEFINE u == before \o cells
<1>4. /\ u \in Seq(Cell) /\ Len(u) = index + Len(cells)
      /\ \A i \in 1..(index + Len(cells)) :
           u[i] = IF i <= index THEN before[i] ELSE cells[i - index]
  <2>1. /\ u \in Seq(Cell) /\ Len(u) = Len(before) + Len(cells)
        /\ \A i \in 1..(Len(before) + Len(cells)) : u[i] =
             IF i <= Len(before) THEN before[i] ELSE cells[i - Len(before)]
    BY <1>2, ConcatProperties
  <2> HIDE DEF u
  <2> QED BY <1>2, <2>1
<1> HIDE DEF u
<1> DEFINE t == u \o after
<1>5. /\ t \in Seq(Cell) /\ Len(t) = Len(u) + Len(after)
      /\ \A i \in 1..(Len(u) + Len(after)) : t[i] =
           IF i <= Len(u) THEN u[i] ELSE after[i - Len(u)]
  <2>1. u \in Seq(Cell) /\ after \in Seq(Cell)
    BY <1>3, <1>4
  <2> QED BY <2>1, ConcatProperties
<1>6. t = Spliced(s, index, count, cells)
  BY DEF u, t, before, after, Spliced
<1> HIDE DEF t
<1>7. Len(t) = Len(s) - count + Len(cells)
  BY <1>1, <1>3, <1>4, <1>5
<1>8. ASSUME NEW i \in 1..(Len(s) - count + Len(cells))
      PROVE  t[i] = IF i <= index THEN s[i]
                    ELSE IF i <= index + Len(cells) THEN cells[i - index]
                    ELSE s[i - Len(cells) + count]
  <2>1. Len(u) + Len(after) = Len(s) - count + Len(cells)
        /\ Len(u) = index + Len(cells)
    BY <1>1, <1>3, <1>4
  <2>2. t[i] = IF i <= Len(u) THEN u[i] ELSE after[i - Len(u)]
    BY <1>5, <2>1
  <2>3. CASE i <= index + Len(cells)
    <3>1. t[i] = u[i]
      BY <2>1, <2>2, <2>3
    <3>2. u[i] = IF i <= index THEN before[i] ELSE cells[i - index]
      BY <1>1, <1>4, <2>3
    <3> QED BY <1>1, <1>2, <2>3, <3>1, <3>2
  <2>4. CASE ~(i <= index + Len(cells))
    <3>1. i - Len(u) \in 1..(Len(s) - index - count)
      BY <1>1, <2>1, <2>4
    <3>2. t[i] = s[index + count + (i - Len(u))]
      BY <1>3, <2>1, <2>2, <2>4, <3>1
    <3>3. index + count + (i - Len(u)) = i - Len(cells) + count
      BY <1>1, <2>1
    <3>4. ~(i <= index)
      BY <1>1, <2>4
    <3> QED BY <2>4, <3>2, <3>3, <3>4
  <2> QED BY <2>3, <2>4
<1> QED BY <1>5, <1>6, <1>7, <1>8

LEMMA ResizedCells ==
  ASSUME NEW p \in Block, NEW n \in Nat
  PROVE  /\ Resized(p, n) \in Seq(Cell) /\ Len(Resized(p, n)) = n
         /\ \A i \in 1..n :
              Resized(p, n)[i] = IF i <= Len(p) THEN p[i] ELSE Undef
BY ResizedType DEF Resized, Block

\* The first n cells of block q read as a splice of s does.
ReadsAs(q, n, s, index, count, cells) ==
  \A i \in 1..n : (IF i <= Len(q) THEN q[i] ELSE Undef) =
                    IF i <= index THEN s[i]
                    ELSE IF i <= index + Len(cells) THEN cells[i - index]
                    ELSE s[i - Len(cells) + count]

LEMMA SpliceEqual ==
  ASSUME NEW q \in Block, NEW n \in Nat,
         NEW s \in Seq(Cell), NEW cells \in Seq(Cell),
         NEW index \in Nat, NEW count \in Nat, index + count <= Len(s),
         n = Len(s) - count + Len(cells), ReadsAs(q, n, s, index, count, cells)
  PROVE  Resized(q, n) = Spliced(s, index, count, cells)
<1> DEFINE t == Spliced(s, index, count, cells)
           u == Resized(q, n)
<1>1. /\ t \in Seq(Cell) /\ Len(t) = n
      /\ \A i \in 1..n : t[i] = IF i <= index THEN s[i]
                         ELSE IF i <= index + Len(cells) THEN cells[i - index]
                         ELSE s[i - Len(cells) + count]
  BY SplicedIs
<1>2. /\ u \in Seq(Cell) /\ Len(u) = n
      /\ \A i \in 1..n : u[i] = IF i <= Len(q) THEN q[i] ELSE Undef
  BY ResizedCells
<1> HIDE DEF t, u
<1>3. \A i \in 1..Len(u) : u[i] = t[i]
  BY <1>1, <1>2 DEF ReadsAs
<1>4. u = t
  BY <1>1, <1>2, <1>3, SeqEqual
<1> QED BY <1>4 DEF t, u

LEMMA ShiftRightCells ==
  ASSUME NEW p \in Block, size \in Nat, NEW index \in Nat, index <= size,
         NEW count \in Nat
  PROVE  /\ ShiftRight(p, index, count) \in Block
         /\ Len(ShiftRight(p, index, count)) = Len(p)
         /\ \A i \in 1..Len(p) : ShiftRight(p, index, count)[i] =
              IF i \in (index + count + 1)..(size + count)
                THEN p[i - count] ELSE p[i]
<1> DEFINE q == ShiftRight(p, index, count)
<1>1. Len(p) \in Nat
  BY DEF Block
<1>2. q = [i \in 1..Len(p) |-> IF i \in (index + count + 1)..(size + count)
                                 THEN p[i - count] ELSE p[i]]
  <2>1. CASE index < size
    <3>1. /\ (index + count) + (size - index) = size + count
          /\ \A i \in 1..Len(p) : i - (index + count) + index = i - count
      BY <1>1
    <3> QED BY <1>1, <2>1, <3>1 DEF ShiftRight, MemMove
  <2>2. CASE ~(index < size)
    <3>1. \A i \in 1..Len(p) : i \notin (index + count + 1)..(size + count)
      BY <1>1, <2>2
    <3>2. p = [i \in 1..Len(p) |-> p[i]]
      BY DEF Block
    <3> QED BY <2>2, <3>1, <3>2 DEF ShiftRight
  <2> QED BY <2>1, <2>2
<1> HIDE DEF q
<1>3. \A i \in 1..Len(p) : i \in (index + count + 1)..(size + count)
                             => i - count \in 1..Len(p)
  BY <1>1
<1>4. \A i \in 1..Len(p) : p[i] \in Cell
  BY DEF Block
<1>5. q \in Block /\ Len(q) = Len(p)
  BY <1>1, <1>2, <1>3, <1>4 DEF Block
<1> QED BY <1>2, <1>5 DEF q

LEMMA ShiftLeftCells ==
  ASSUME NEW p \in Block, size \in Nat, NEW index \in Nat, NEW count \in Nat,
         index + count <= size, index + count < size => size <= Len(p)
  PROVE  /\ ShiftLeft(p, index, count) \in Block
         /\ Len(ShiftLeft(p, index, count)) = Len(p)
         /\ \A i \in 1..Len(p) : ShiftLeft(p, index, count)[i] =
              IF i \in (index + 1)..(size - count)
                THEN p[i + count] ELSE p[i]
<1> DEFINE q == ShiftLeft(p, index, count)
<1>1. Len(p) \in Nat
  BY DEF Block
<1>2. q = [i \in 1..Len(p) |-> IF i \in (index + 1)..(size - count)
                                 THEN p[i + count] ELSE p[i]]
  <2>1. CASE index + count < size
    <3>1. /\ index + (size - index - count) = size - count
          /\ \A i \in 1..Len(p) : i - index + (index + count) = i + count
      BY <1>1
    <3> QED BY <1>1, <2>1, <3>1 DEF ShiftLeft, MemMove
  <2>2. CASE ~(index + count < size)
    <3>1. \A i \in 1..Len(p) : i \notin (index + 1)..(size - count)
      BY <1>1, <2>2
    <3>2. p = [i \in 1..Len(p) |-> p[i]]
      BY DEF Block
    <3> QED BY <2>2, <3>1, <3>2 DEF ShiftLeft
  <2> QED BY <2>1, <2>2
<1> HIDE DEF q
<1>3. \A i \in 1..Len(p) : i \in (index + 1)..(size - count)
                             => i + count \in 1..Len(p)
  BY <1>1
<1>4. \A i \in 1..Len(p) : p[i] \in Cell
  BY DEF Block
<1>5. q \in Block /\ Len(q) = Len(p)
  BY <1>1, <1>2, <1>3, <1>4 DEF Block
<1> QED BY <1>2, <1>5 DEF q

LEMMA MemCpyCells ==
  ASSUME NEW p \in Block, NEW pos \in Nat, NEW cells \in Block
  PROVE  /\ MemCpy(p, pos, cells) \in Block
         /\ Len(MemCpy(p, pos, cells)) = Len(p)
         /\ \A i \in 1..Len(p) : MemCpy(p, pos, cells)[i] =
              IF i \in (pos + 1)..(pos + Len(cells)) THEN cells[i - pos]
                                                     ELSE p[i]
BY MemCpyType DEF MemCpy

\* In block q the cells of p from an index on have moved up for `cells`.
Opened(p, q, n, index, cells) ==
  \A i \in 1..(n + Len(cells)) :
    q[i] = IF i <= index THEN p[i]
           ELSE IF i <= index + Len(cells) THEN cells[i - index]
           ELSE p[i - Len(cells)]

LEMMA GapSplices ==
  ASSUME NEW p \in Block, NEW q \in Block, Len(q) = Len(p),
         NEW n \in Nat, NEW index \in Nat, index <= n,
         NEW cells \in Block, n + Len(cells) <= Len(p),
         Opened(p, q, n, index, cells)
  PROVE  Resized(q, n + Len(cells)) = Spliced(Resized(p, n), index, 0, cells)
<1> DEFINE s == Resized(p, n)
           m == n + Len(cells)
<1>1. /\ Len(p) \in Nat /\ Len(cells) \in Nat /\ m \in Nat
      /\ cells \in Seq(Cell) /\ n <= Len(p)
  BY DEF Block
<1>2. /\ s \in Seq(Cell) /\ Len(s) = n
      /\ \A i \in 1..n : s[i] = IF i <= Len(p) THEN p[i] ELSE Undef
  BY ResizedCells
<1> HIDE DEF s
<1>3. \A i \in 1..n : s[i] = p[i]
  BY <1>1, <1>2
<1>4. m = Len(s) - 0 + Len(cells)
  BY <1>1, <1>2
<1>5. ASSUME NEW i \in 1..m
      PROVE  (IF i <= Len(q) THEN q[i] ELSE Undef) =
               IF i <= index THEN s[i]
               ELSE IF i <= index + Len(cells) THEN cells[i - index]
               ELSE s[i - Len(cells) + 0]
  <2>1. i <= Len(q)
    BY <1>1
  <2>2. i <= index => s[i] = p[i]
    BY <1>1, <1>3
  <2>3. ~(i <= index) /\ ~(i <= index + Len(cells)) =>
          s[i - Len(cells) + 0] = p[i - Len(cells)]
    <3>1. i - Len(cells) + 0 = i - Len(cells)
      BY <1>1
    <3>2. ~(i <= index + Len(cells)) => i - Len(cells) \in 1..n
      BY <1>1
    <3> QED BY <1>3, <3>1, <3>2
  <2> QED BY <1>1, <2>1, <2>2, <2>3 DEF Opened
<1> HIDE DEF m
<1>6. Resized(q, m) = Spliced(s, index, 0, cells)
  <2>1. ReadsAs(q, m, s, index, 0, cells)
    BY <1>5 DEF ReadsAs
  <2>2. s \in Seq(Cell) /\ index + 0 <= Len(s) /\ m \in Nat
    BY <1>1, <1>2 DEF m
  <2> QED BY <1>1, <1>4, <2>1, <2>2, SpliceEqual
<1> QED BY <1>6 DEF s, m

LEMMA InsertSplices ==
  ASSUME TypeOK, NEW p \in Block, NEW index \in Nat, index <= size,
         NEW cells \in Block, size + Len(cells) <= Len(p)
  PROVE  LET q == MemCpy(ShiftRight(p, index, Len(cells)), index, cells) IN
         /\ q \in Block /\ Len(q) = Len(p)
         /\ Resized(q, size + Len(cells)) =
              Spliced(Resized(p, size), index, 0, cells)
<1> DEFINE k == Len(cells)
           t == ShiftRight(p, index, k)
           q == MemCpy(t, index, cells)
<1>1. size \in Nat /\ k \in Nat /\ Len(p) \in Nat
  BY DEF TypeOK, Block
<1>2. /\ t \in Block /\ Len(t) = Len(p)
      /\ \A i \in 1..Len(p) : t[i] = IF i \in (index + k + 1)..(size + k)
                                       THEN p[i - k] ELSE p[i]
  BY <1>1, ShiftRightCells
<1> HIDE DEF t
<1>3. /\ q \in Block /\ Len(q) = Len(p)
      /\ \A i \in 1..Len(p) : q[i] = IF i \in (index + 1)..(index + k)
                                       THEN cells[i - index] ELSE t[i]
  BY <1>2, MemCpyCells
<1> HIDE DEF q
<1>4. Opened(p, q, size, index, cells)
  BY <1>1, <1>2, <1>3 DEF Opened
<1>5. Resized(q, size + k) = Spliced(Resized(p, size), index, 0, cells)
  <2>1. q \in Block /\ Len(q) = Len(p)
    BY <1>3
  <2> QED BY <1>1, <1>4, <2>1, GapSplices
<1> QED BY <1>3, <1>5 DEF q, t

\* The gap left as it is holds some cell.
LEMMA EmplaceSplices ==
  ASSUME TypeOK, NEW p \in Block, NEW index \in Nat, index <= size,
         size + 1 <= Len(p)
  PROVE  LET q == ShiftRight(p, index, 1) IN
         /\ q \in Block /\ Len(q) = Len(p)
         /\ \E c \in Cell : Resized(q, size + 1) =
                              Spliced(Resized(p, size), index, 0, <<c>>)
<1> DEFINE q == ShiftRight(p, index, 1)
<1>1. size \in Nat /\ Len(p) \in Nat
  BY DEF TypeOK, Block
<1>2. /\ q \in Block /\ Len(q) = Len(p)
      /\ \A i \in 1..Len(p) : q[i] = IF i \in (index + 1 + 1)..(size + 1)
                                       THEN p[i - 1] ELSE p[i]
  BY <1>1, ShiftRightCells
<1> HIDE DEF q
<1>3. q[index + 1] \in Cell
  BY <1>1, <1>2 DEF Block
<1> DEFINE cells == <<q[index + 1]>>
<1>4. cells \in Block /\ Len(cells) = 1 /\ cells[1] = q[index + 1]
  BY <1>3, SingletonType
<1> HIDE DEF cells
<1>5. Opened(p, q, size, index, cells)
  BY <1>1, <1>2, <1>4 DEF Opened
<1>6. Resized(q, size + 1) = Spliced(Resized(p, size), index, 0, cells)
  <2>1. q \in Block /\ Len(q) = Len(p)
    BY <1>2
  <2>2. /\ cells \in Block /\ size + Len(cells) = size + 1
        /\ size + Len(cells) <= Len(p)
    BY <1>1, <1>4
  <2>3. Resized(q, size + Len(cells)) =
          Spliced(Resized(p, size), index, 0, cells)
    BY <1>1, <1>5, <2>1, <2>2, GapSplices
  <2> QED BY <2>2, <2>3
<1> QED BY <1>2, <1>3, <1>6 DEF q, cells

-----------------------------------------------------------------------------
(***************************************************************************)
(* The ends of a call, seen as ends of the call of the sequence.  `Safe'   *)
(* names what each call has to show: it implements its namesake and leaves *)
(* a record the later calls can rely on.                                   *)
(***************************************************************************)
LEMMA SequenceIs ==
  ASSUME TypeOK, data # NULL
  PROVE  /\ Contents = Resized(data, size)
         /\ Len(Contents) = size /\ Contents \in Seq(Cell)
BY ContentsAre, ResizedCells DEF TypeOK

LEMMA BecomesMaps ==
  ASSUME TypeOK, TypeOK', data # NULL, data' # NULL, UNCHANGED config,
         NEW s, Resized(data', size') = s,
         NEW gone, destroyed' = IF destructor THEN gone ELSE << >>,
         NEW result, status' = result
  PROVE  Sequence!Becomes(s, gone, result)
BY ContentsBecome DEF Sequence!Becomes, Sequence!Given, config

LEMMA RejectMaps ==
  ASSUME TypeOK, TypeOK', data # NULL, data' # NULL, UNCHANGED config,
         Resized(data', size') = Resized(data, size), destroyed' = << >>,
         NEW results, status' \in results
  PROVE  Sequence!Reject(results)
BY ContentsAre, ContentsBecome DEF Sequence!Reject, config

LEMMA RefuseMaps ==
  ASSUME CallInv, data # NULL, NEW s, Refuse(s), NEW results, s \in results
  PROVE  Sequence!Reject(results) /\ Recorded'
<1>1. Contents' = Contents
  BY DEF Refuse, vector, Contents, Get
<1>2. Recorded'
  BY DEF Refuse, vector, config, Recorded, CallInv
<1> QED BY <1>1, <1>2 DEF Refuse, Return, vector, config, Sequence!Reject

LEMMA FailMaps ==
  ASSUME AllocatorFailures # "any", CallInv, TypeOK', data # NULL,
         NEW n \in Nat, size <= n, NEW r \in GrowTo(n),
         r.status # "SUCCESS", Fail(r)
  PROVE  Sequence!Reject(Sequence!NoRoom) /\ Recorded'
<1>1. /\ r.p # NULL /\ Resized(r.p, size) = Resized(data, size)
      /\ r.status \in Sequence!NoRoom
      /\ size <= r.capacity \/ Len(r.p) <= r.capacity
      /\ allocator = "none" => size <= r.capacity
  BY GrowToOutcome
<1>2. /\ UNCHANGED <<config, size>> /\ data' = r.p /\ capacity' = r.capacity
      /\ destroyed' = << >> /\ status' = r.status
  BY DEF Fail, Return
<1>3. Recorded'
  BY <1>1, <1>2 DEF Recorded, config
<1> QED BY <1>1, <1>2, <1>3, RejectMaps DEF CallInv

\* The calls of the sequence, case by case
LEMMA SequenceInserts ==
  ASSUME TypeOK, data # NULL, NEW index \in Nat, NEW cells \in Block
  PROVE  /\ cells = << >> /\ Sequence!Reject({"INVALID_ARGUMENT"})
              => Sequence!InsertRange(index, cells)
         /\ cells # << >> /\ index > size /\ Sequence!Reject({"OUT_OF_RANGE"})
              => Sequence!InsertRange(index, cells)
         /\ cells # << >> /\ index <= size
            /\ \/ Sequence!Reject(Sequence!NoRoom)
               \/ Sequence!Becomes(Spliced(Resized(data, size), index, 0, cells),
                                   << >>, "SUCCESS")
              => Sequence!InsertRange(index, cells)
<1>1. size \in Nat
  BY DEF TypeOK
<1>2. Len(Contents) = size
  BY SequenceIs
<1>3. Sequence!Splice(index, 0, cells) =
        Spliced(Resized(data, size), index, 0, cells)
  BY SequenceIs DEF Sequence!Splice, Spliced
<1>4. ASSUME cells = << >>, Sequence!Reject({"INVALID_ARGUMENT"})
      PROVE  Sequence!InsertRange(index, cells)
  BY <1>4 DEF Sequence!InsertRange
<1>5. ASSUME cells # << >>, index > size, Sequence!Reject({"OUT_OF_RANGE"})
      PROVE  Sequence!InsertRange(index, cells)
  BY <1>2, <1>5 DEF Sequence!InsertRange
<1>6. ASSUME cells # << >>, index <= size,
             \/ Sequence!Reject(Sequence!NoRoom)
             \/ Sequence!Becomes(Spliced(Resized(data, size), index, 0, cells),
                                 << >>, "SUCCESS")
      PROVE  Sequence!InsertRange(index, cells)
  BY <1>1, <1>2, <1>3, <1>6 DEF Sequence!InsertRange
<1> QED BY <1>4, <1>5, <1>6

LEMMA InsertRangeMaps ==
  ASSUME AllocatorFailures # "any", CallInv, TypeOK',
         NEW index \in Nat, NEW run \in Block, InsertRange(index, run)
  PROVE  (Sequence!InsertRange(index, run) /\ Recorded') \/ Crash
<1> DEFINE count == Len(run)
           cells(r) == MemCpy(ShiftRight(r.p, index, count), index, run)
<1>1. /\ TypeOK /\ data # NULL /\ size \in Nat /\ count \in Nat
      /\ (count = 0 <=> run = << >>)
  BY DEF CallInv, TypeOK, InsertRange, Live, Block
<1>2. CASE count = 0
  BY <1>1, <1>2, RefuseMaps, SequenceInserts DEF InsertRange
<1>3. CASE count # 0 /\ index > size
  BY <1>1, <1>3, RefuseMaps, SequenceInserts DEF InsertRange
<1>4. CASE count # 0 /\ index <= size
  <2>1. PICK r \in GrowTo(size + count) :
          IF r.status # "SUCCESS" THEN Fail(r)
          ELSE IF ~InBlock(r.p, index, size - index + count) THEN Crash
          ELSE Finish(r, cells(r), size + count) /\ destroyed' = << >>
    BY <1>1, <1>4 DEF InsertRange
  <2>2. size + count \in Nat /\ size <= size + count
    BY <1>1
  <2>3. /\ r.p \in Block /\ r.p # NULL /\ r.capacity \in Nat
        /\ Resized(r.p, size) = Resized(data, size)
        /\ r.status = "SUCCESS" => size + count <= r.capacity
    BY <1>1, <2>1, <2>2, GrowToOutcome
  <2>4. CASE r.status # "SUCCESS"
    BY <1>1, <1>4, <2>1, <2>2, <2>4, FailMaps, SequenceInserts
  <2>5. CASE r.status = "SUCCESS" /\ ~InBlock(r.p, index, size - index + count)
    BY <2>1, <2>5
  <2>6. CASE r.status = "SUCCESS" /\ InBlock(r.p, index, size - index + count)
    <3>1. size + count <= Len(r.p) /\ Len(r.p) \in Nat
      BY <1>1, <1>4, <2>3, <2>6 DEF InBlock, Block
    <3>2. /\ cells(r) \in Block /\ Len(cells(r)) = Len(r.p)
          /\ Resized(cells(r), size + count) =
               Spliced(Resized(data, size), index, 0, run)
      BY <1>1, <1>4, <2>3, <3>1, InsertSplices
    <3>3. Finish(r, cells(r), size + count) /\ destroyed' = << >>
      BY <2>1, <2>6
    <3> HIDE DEF cells
    <3>4. /\ data' = cells(r) /\ size' = size + count /\ status' = "SUCCESS"
          /\ capacity' = r.capacity /\ UNCHANGED config
      BY <2>6, <3>3 DEF Finish
    <3>5. data' # NULL
      BY <1>1, <1>4, <3>1, <3>2, <3>4 DEF NULL
    <3>6. Recorded'
      BY <2>3, <2>6, <3>4 DEF Recorded
    <3>7. Sequence!Becomes(Spliced(Resized(data, size), index, 0, run),
                           << >>, "SUCCESS")
      BY <1>1, <3>2, <3>3, <3>4, <3>5, BecomesMaps
    <3> QED BY <1>1, <1>4, <3>6, <3>7, SequenceInserts
  <2> QED BY <2>4, <2>5, <2>6
<1> QED BY <1>1, <1>2, <1>3, <1>4

\* Pushing is inserting after the last element.
LEMMA PushBackInserts ==
  ASSUME TypeOK, NEW e \in Element, PushBack(e)
  PROVE  InsertRange(size, <<e>>)
<1>1. size \in Nat /\ Len(<<e>>) = 1 /\ size - size + 1 = 1
  BY DEF TypeOK
<1>2. \A p : ShiftRight(p, size, 1) = p
  BY <1>1 DEF ShiftRight
<1> QED BY <1>1, <1>2 DEF PushBack, InsertRange

LEMMA PushBackMaps ==
  ASSUME AllocatorFailures # "any", CallInv, TypeOK',
         NEW e \in Element, PushBack(e)
  PROVE  (Sequence!PushBack(e) /\ Recorded') \/ Crash
<1>1. TypeOK /\ size \in Nat /\ data # NULL /\ <<e>> \in Block
  BY SingletonType DEF CallInv, TypeOK, PushBack, Live, Cell
<1>2. InsertRange(size, <<e>>)
  BY <1>1, PushBackInserts
<1>3. Len(Contents) = size
  BY <1>1, SequenceIs
<1>4. (Sequence!InsertRange(size, <<e>>) /\ Recorded') \/ Crash
  BY <1>1, <1>2, InsertRangeMaps
<1> QED BY <1>1, <1>3, <1>4 DEF Sequence!PushBack

LEMMA SequenceEmplaces ==
  ASSUME TypeOK, data # NULL, NEW index \in Nat, NEW e, NEW c
  PROVE  /\ (index > size /\ Sequence!Reject({"OUT_OF_RANGE"}))
              => Sequence!EmplaceEx(index, e, c)
         /\ (index <= size /\ Sequence!Reject(Sequence!NoRoom))
              => Sequence!EmplaceEx(index, e, c)
         /\ (index <= size /\ c = "succeeds"
               /\ Sequence!Becomes(Spliced(Resized(data, size), index, 0, <<e>>),
                                   << >>, "SUCCESS"))
              => Sequence!EmplaceEx(index, e, c)
         /\ \A x \in Cell :
              (index <= size /\ c = "none"
                 /\ Sequence!Becomes(Spliced(Resized(data, size), index, 0, <<x>>),
                                     << >>, "SUCCESS"))
                => Sequence!EmplaceEx(index, e, c)
         /\ \A x \in Cell :
              (index <= size /\ c = "fails"
                 /\ Sequence!Becomes(
                      SubSeq(Spliced(Resized(data, size), index, 0, <<x>>),
                             1, size), << >>, "FAILED"))
                => Sequence!EmplaceEx(index, e, c)
<1>1. size \in Nat /\ Len(Contents) = size
  BY SequenceIs DEF TypeOK
<1>2. \A cells : Sequence!Splice(index, 0, cells) =
                   Spliced(Resized(data, size), index, 0, cells)
  BY SequenceIs DEF Sequence!Splice, Spliced
<1>3. Sequence!Cell = Cell
  BY DEF Sequence!Cell, Cell
<1>4. ASSUME index > size, Sequence!Reject({"OUT_OF_RANGE"})
      PROVE  Sequence!EmplaceEx(index, e, c)
  BY <1>1, <1>4 DEF Sequence!EmplaceEx
<1>5. ASSUME index <= size, Sequence!Reject(Sequence!NoRoom)
      PROVE  Sequence!EmplaceEx(index, e, c)
  BY <1>1, <1>5 DEF Sequence!EmplaceEx
<1>6. ASSUME index <= size, c = "succeeds", Sequence!Becomes(
               Spliced(Resized(data, size), index, 0, <<e>>), << >>, "SUCCESS")
      PROVE  Sequence!EmplaceEx(index, e, c)
  BY <1>1, <1>2, <1>6 DEF Sequence!EmplaceEx
<1>7. ASSUME index <= size, c = "none", NEW x \in Cell, Sequence!Becomes(
               Spliced(Resized(data, size), index, 0, <<x>>), << >>, "SUCCESS")
      PROVE  Sequence!EmplaceEx(index, e, c)
  <2>1. Sequence!Becomes(Sequence!Splice(index, 0, <<x>>), << >>, "SUCCESS")
    BY <1>2, <1>7
  <2> QED BY <1>1, <1>3, <1>7, <2>1 DEF Sequence!EmplaceEx
<1>8. ASSUME index <= size, c = "fails", NEW x \in Cell, Sequence!Becomes(
               SubSeq(Spliced(Resized(data, size), index, 0, <<x>>), 1, size),
               << >>, "FAILED")
      PROVE  Sequence!EmplaceEx(index, e, c)
  <2>1. Sequence!Becomes(SubSeq(Sequence!Splice(index, 0, <<x>>), 1,
                                Len(Contents)), << >>, "FAILED")
    BY <1>1, <1>2, <1>8
  <2> QED BY <1>1, <1>3, <1>8, <2>1 DEF Sequence!EmplaceEx
<1> QED BY <1>4, <1>5, <1>6, <1>7, <1>8

\* The first k cells of a block, of which more were read
LEMMA ResizedPrefix ==
  ASSUME NEW p \in Block, NEW m \in Nat, NEW k \in Nat, k <= m
  PROVE  SubSeq(Resized(p, m), 1, k) = Resized(p, k)
<1> DEFINE s == Resized(p, m)
           t == SubSeq(s, 1, k)
           u == Resized(p, k)
<1>1. /\ s \in Seq(Cell) /\ Len(s) = m
      /\ \A i \in 1..m : s[i] = IF i <= Len(p) THEN p[i] ELSE Undef
  BY ResizedCells
<1>2. /\ u \in Seq(Cell) /\ Len(u) = k
      /\ \A i \in 1..k : u[i] = IF i <= Len(p) THEN p[i] ELSE Undef
  BY ResizedCells
<1> HIDE DEF s, u
<1>3. /\ t \in Seq(Cell) /\ Len(t) = k
      /\ \A i \in 1..k : t[i] = s[i]
  <2>1. 1 \in 1..(Len(s) + 1) /\ k \in 0..Len(s) /\ 1 <= k + 1 /\ s \in Seq(Cell)
    BY <1>1
  <2>2. /\ t \in Seq(Cell) /\ Len(t) = k + 1 - 1
        /\ \A i \in 1..(k + 1 - 1) : t[i] = s[1 + i - 1]
    BY <2>1, SubSeqOf
  <2> HIDE DEF t
  <2>3. ASSUME NEW i \in 1..k
        PROVE  t[i] = s[i]
    <3>1. 1 + i - 1 = i
      OBVIOUS
    <3> QED BY <2>2, <3>1
  <2> QED BY <2>2, <2>3
<1> HIDE DEF t
<1>4. \A i \in 1..Len(t) : t[i] = u[i]
  BY <1>1, <1>2, <1>3
<1>5. t = u
  BY <1>2, <1>3, <1>4, SeqEqual
<1> QED BY <1>5 DEF t, u, s

LEMMA EmplaceExMaps ==
  ASSUME AllocatorFailures # "any", CallInv, TypeOK',
         NEW index \in Nat, NEW e \in Element, NEW constructor,
         EmplaceEx(index, e, constructor)
  PROVE  (Sequence!EmplaceEx(index, e, constructor) /\ Recorded') \/ Crash
<1> DEFINE shifted(r) == ShiftRight(r.p, index, 1)
           built(r) == MemCpy(shifted(r), index, <<e>>)
           s == Resized(data, size)
<1>1. /\ TypeOK /\ data # NULL /\ size \in Nat
      /\ <<e>> \in Block /\ Len(<<e>>) = 1 /\ e \in Cell
  BY SingletonType DEF CallInv, TypeOK, EmplaceEx, Live, Cell
<1>2. CASE index > size
  BY <1>1, <1>2, RefuseMaps, SequenceEmplaces DEF EmplaceEx
<1>3. CASE index <= size
  <2>1. PICK r \in GrowTo(size + 1) :
          IF r.status # "SUCCESS" THEN Fail(r)
          ELSE IF ~InBlock(r.p, index, size - index + 1) THEN Crash
          ELSE /\ destroyed' = << >>
               /\ \/ constructor = "none" /\ Finish(r, shifted(r), size + 1)
                  \/ constructor = "succeeds" /\ Finish(r, built(r), size + 1)
                  \/ /\ constructor = "fails"
                     /\ \E cells \in {shifted(r), built(r)} :
                          Finish(Failed(r), cells, size)
    BY <1>1, <1>3 DEF EmplaceEx
  <2>2. size + 1 \in Nat /\ size <= size + 1
    BY <1>1
  <2>3. /\ r.p \in Block /\ r.p # NULL /\ r.capacity \in Nat
        /\ Resized(r.p, size) = s
        /\ size <= r.capacity \/ Len(r.p) <= r.capacity
        /\ r.status = "SUCCESS" => size + 1 <= r.capacity
    BY <1>1, <2>1, <2>2, GrowToOutcome
  <2>4. CASE r.status # "SUCCESS"
    BY <1>1, <1>3, <2>1, <2>2, <2>4, FailMaps, SequenceEmplaces
  <2>5. CASE r.status = "SUCCESS" /\ ~InBlock(r.p, index, size - index + 1)
    BY <2>1, <2>5
  <2>6. CASE r.status = "SUCCESS" /\ InBlock(r.p, index, size - index + 1)
    <3>1. size + 1 <= Len(r.p) /\ Len(r.p) \in Nat
      BY <1>1, <1>3, <2>3, <2>6 DEF InBlock, Block
    <3>2. /\ shifted(r) \in Block /\ Len(shifted(r)) = Len(r.p)
          /\ \E x \in Cell : Resized(shifted(r), size + 1) =
                               Spliced(s, index, 0, <<x>>)
      <4>1. /\ ShiftRight(r.p, index, 1) \in Block
            /\ Len(ShiftRight(r.p, index, 1)) = Len(r.p)
            /\ \E x \in Cell : Resized(ShiftRight(r.p, index, 1), size + 1) =
                                 Spliced(Resized(r.p, size), index, 0, <<x>>)
        BY <1>1, <1>3, <2>3, <3>1, EmplaceSplices
      <4> QED BY <2>3, <4>1
    <3>3. /\ built(r) \in Block /\ Len(built(r)) = Len(r.p)
          /\ Resized(built(r), size + 1) = Spliced(s, index, 0, <<e>>)
      <4>1. size + Len(<<e>>) = size + 1
        BY <1>1
      <4>2. /\ MemCpy(ShiftRight(r.p, index, Len(<<e>>)), index, <<e>>) \in Block
            /\ Len(MemCpy(ShiftRight(r.p, index, Len(<<e>>)), index, <<e>>))
                 = Len(r.p)
            /\ Resized(MemCpy(ShiftRight(r.p, index, Len(<<e>>)), index, <<e>>),
                       size + Len(<<e>>))
                 = Spliced(Resized(r.p, size), index, 0, <<e>>)
        BY <1>1, <1>3, <2>3, <3>1, <4>1, InsertSplices
      <4> QED BY <1>1, <2>3, <4>1, <4>2
    <3> HIDE DEF shifted, built
    <3>4. ASSUME NEW cells \in {shifted(r), built(r)}
          PROVE  /\ cells \in Block /\ cells # NULL
                 /\ \E x \in Cell : Resized(cells, size + 1) =
                                      Spliced(s, index, 0, <<x>>)
      BY <1>1, <3>1, <3>2, <3>3 DEF NULL
    <3>5. destroyed' = << >>
      BY <2>1, <2>6
    <3>6. CASE \E cells \in {shifted(r), built(r)} : Finish(r, cells, size + 1)
      <4>1. PICK cells \in {shifted(r), built(r)} : Finish(r, cells, size + 1)
        BY <3>6
      <4>2. /\ data' = cells /\ size' = size + 1 /\ status' = "SUCCESS"
            /\ capacity' = r.capacity /\ UNCHANGED config
        BY <2>6, <4>1 DEF Finish
      <4>3. Recorded'
        BY <2>3, <2>6, <4>2 DEF Recorded
      <4>4. \A t : Resized(cells, size + 1) = t
                     => Sequence!Becomes(t, << >>, "SUCCESS")
        BY <1>1, <3>4, <3>5, <4>2, BecomesMaps
      <4> QED
        <5>1. CASE constructor = "none"
          BY <1>1, <1>3, <3>4, <4>3, <4>4, <5>1, SequenceEmplaces
        <5>2. CASE constructor = "succeeds" /\ Finish(r, built(r), size + 1)
          <6>1. cells = built(r)
            BY <4>2, <5>2 DEF Finish
          <6> QED BY <1>1, <1>3, <3>3, <4>3, <4>4, <5>2, <6>1, SequenceEmplaces
        <5>3. CASE constructor = "fails"
          <6>1. size' = size
            BY <2>1, <2>6, <5>3 DEF Finish
          <6> QED BY <1>1, <4>2, <6>1
        <5> QED BY <2>1, <2>6, <5>1, <5>2, <5>3
    <3>7. CASE constructor = "fails" /\ \E cells \in {shifted(r), built(r)} :
                                         Finish(Failed(r), cells, size)
      <4>1. PICK cells \in {shifted(r), built(r)} :
              Finish(Failed(r), cells, size)
        BY <3>7
      <4>2. /\ data' = cells /\ size' = size /\ status' = "FAILED"
            /\ capacity' = r.capacity /\ UNCHANGED config
        BY <4>1 DEF Finish, Failed
      <4>3. Recorded'
        BY <1>1, <2>3, <2>6, <4>2 DEF Recorded
      <4>4. PICK x \in Cell : Resized(cells, size + 1) =
                                Spliced(s, index, 0, <<x>>)
        BY <3>4
      <4>5. Resized(cells, size) = SubSeq(Resized(cells, size + 1), 1, size)
        BY <1>1, <2>2, <3>4, ResizedPrefix
      <4>6. Sequence!Becomes(SubSeq(Spliced(s, index, 0, <<x>>), 1, size),
                             << >>, "FAILED")
        BY <1>1, <3>4, <3>5, <4>2, <4>4, <4>5, BecomesMaps
      <4> QED BY <1>1, <1>3, <3>7, <4>3, <4>6, SequenceEmplaces
    <3> QED BY <2>1, <2>6, <3>6, <3>7
  <2> QED BY <2>4, <2>5, <2>6
<1> QED BY <1>1, <1>2, <1>3

-----------------------------------------------------------------------------
(* Modification *)

\* The elements a destructor is given are those that leave.
LEMMA DoomedAre ==
  ASSUME TypeOK, NEW index \in Nat, NEW count \in Nat, index + count <= size
  PROVE  Doomed(index, count) =
           IF destructor
             THEN SubSeq(Resized(data, size), index + 1, index + count)
             ELSE << >>
<1> DEFINE s == Resized(data, size)
           t == SubSeq(s, index + 1, index + count)
           d == [i \in 1..count |-> Get(index + i - 1)]
<1>1. size \in Nat /\ data \in Block
  BY DEF TypeOK
<1>2. /\ s \in Seq(Cell) /\ Len(s) = size
      /\ \A i \in 1..size : s[i] = IF i <= Len(data) THEN data[i] ELSE Undef
  BY <1>1, ResizedCells
<1>3. /\ t \in Seq(Cell) /\ Len(t) = count
      /\ \A i \in 1..count : t[i] = s[index + i]
  <2> HIDE DEF s
  <2>1. /\ index + 1 \in 1..(Len(s) + 1) /\ index + count \in 0..Len(s)
        /\ index + 1 <= (index + count) + 1 /\ s \in Seq(Cell)
    BY <1>1, <1>2
  <2>2. /\ t \in Seq(Cell) /\ Len(t) = (index + count) + 1 - (index + 1)
        /\ \A i \in 1..((index + count) + 1 - (index + 1)) :
             t[i] = s[(index + 1) + i - 1]
    BY <2>1, SubSeqOf
  <2> HIDE DEF t
  <2>3. (index + count) + 1 - (index + 1) = count
    OBVIOUS
  <2>4. ASSUME NEW i \in 1..count
        PROVE  t[i] = s[index + i]
    <3>1. (index + 1) + i - 1 = index + i
      OBVIOUS
    <3> QED BY <2>2, <2>3, <3>1
  <2> QED BY <2>2, <2>3, <2>4
<1>4. ASSUME NEW i \in 1..count
      PROVE  Get(index + i - 1) \in Cell /\ Get(index + i - 1) = s[index + i]
  <2>1. /\ index + i \in 1..size /\ ~(index + i - 1 >= size)
        /\ index + i - 1 + 1 = index + i
        /\ (index + i - 1 < Len(data) <=> index + i <= Len(data))
    BY <1>1 DEF Block
  <2>2. s[index + i] \in Cell
    BY <1>2, <2>1
  <2> HIDE DEF s
  <2> QED BY <1>2, <2>1, <2>2 DEF Get
<1> HIDE DEF s, t
<1>5. /\ d \in Seq(Cell) /\ Len(d) = count
      /\ \A i \in 1..count : d[i] = s[index + i]
  <2>1. \A i \in 1..count : d[i] = Get(index + i - 1)
    OBVIOUS
  <2>2. d \in [1..count -> Cell]
    BY <1>4
  <2>3. Len(d) = count /\ d \in Seq(Cell)
    <3> HIDE DEF d
    <3> QED BY <2>2
  <2> HIDE DEF d
  <2> QED BY <1>4, <2>1, <2>3
<1> HIDE DEF d
<1>6. \A i \in 1..Len(d) : d[i] = t[i]
  BY <1>3, <1>5
<1>7. d = t
  BY <1>3, <1>5, <1>6, SeqEqual
<1> QED BY <1>7 DEF Doomed, d, t, s

\* Overwriting is splicing one element for another.
LEMMA SetSplices ==
  ASSUME TypeOK, NEW index \in Nat, index < size, NEW e \in Element
  PROVE  /\ MemCpy(data, index, <<e>>) \in Block
         /\ Len(MemCpy(data, index, <<e>>)) = Len(data)
         /\ index + 1 <= Len(data) =>
              Resized(MemCpy(data, index, <<e>>), size) =
                Spliced(Resized(data, size), index, 1, <<e>>)
<1> DEFINE q == MemCpy(data, index, <<e>>)
           s == Resized(data, size)
           one == <<e>>
<1>1. /\ size \in Nat /\ data \in Block /\ Len(data) \in Nat
      /\ one \in Block /\ one \in Seq(Cell) /\ Len(one) = 1
      /\ one[1] = e
  BY SingletonType DEF TypeOK, Block, Cell
<1>2. /\ q \in Block /\ Len(q) = Len(data)
      /\ \A i \in 1..Len(data) : q[i] =
           IF i \in (index + 1)..(index + Len(one)) THEN one[i - index]
                                                    ELSE data[i]
  BY <1>1, MemCpyCells
<1>3. /\ s \in Seq(Cell) /\ Len(s) = size
      /\ \A i \in 1..size : s[i] = IF i <= Len(data) THEN data[i] ELSE Undef
  BY <1>1, ResizedCells
<1> HIDE DEF q, s, one
<1>4. ASSUME index + 1 <= Len(data)
      PROVE  Resized(q, size) = Spliced(s, index, 1, one)
  <2>1. ReadsAs(q, size, s, index, 1, one)
    <3>1. ASSUME NEW i \in 1..size
          PROVE  (IF i <= Len(q) THEN q[i] ELSE Undef) =
                    IF i <= index THEN s[i]
                    ELSE IF i <= index + Len(one) THEN one[i - index]
                    ELSE s[i - Len(one) + 1]
      <4>1. i - Len(one) + 1 = i
        BY <1>1
      <4>2. i <= index + Len(one) /\ ~(i <= index) => i = index + 1
        BY <1>1
      <4> QED BY <1>1, <1>2, <1>3, <1>4, <4>1, <4>2
    <3> QED BY <3>1 DEF ReadsAs
  <2> DEFINE k == 1
  <2>2. /\ index + k <= Len(s) /\ size = Len(s) - k + Len(one)
        /\ s \in Seq(Cell) /\ q \in Block /\ k \in Nat /\ size \in Nat
        /\ one \in Seq(Cell) /\ ReadsAs(q, size, s, index, k, one)
    BY <1>1, <1>2, <1>3, <2>1
  <2> HIDE DEF k
  <2>3. Resized(q, size) = Spliced(s, index, k, one)
    BY <2>2, SpliceEqual
  <2> QED BY <2>3 DEF k
<1> QED BY <1>2, <1>4 DEF q, s, one

LEMMA SubSeqOne ==
  ASSUME NEW s \in Seq(Cell), NEW m \in 1..Len(s)
  PROVE  SubSeq(s, m, m) = <<s[m]>>
<1> DEFINE t == SubSeq(s, m, m)
           u == <<s[m]>>
<1>1. m \in 1..(Len(s) + 1) /\ m \in 0..Len(s) /\ m <= m + 1 /\ m + 1 - m = 1
      /\ m + 1 - 1 = m /\ s[m] \in Cell
  OBVIOUS
<1>2. /\ t \in Seq(Cell) /\ Len(t) = 1
      /\ \A i \in 1..1 : t[i] = s[m + i - 1]
  BY <1>1, SubSeqOf
<1>3. u \in Seq(Cell) /\ Len(u) = 1 /\ u[1] = s[m]
  BY <1>1
<1> HIDE DEF t, u
<1>4. \A i \in 1..Len(t) : t[i] = u[i]
  BY <1>1, <1>2, <1>3
<1>5. t = u
  BY <1>2, <1>3, <1>4, SeqEqual
<1> QED BY <1>5 DEF t, u

LEMMA SetMaps ==
  ASSUME CallInv, TypeOK',
         NEW index \in Nat, NEW e \in Element, Set(index, e)
  PROVE  (Sequence!Set(index, e) /\ Recorded') \/ Crash
<1> DEFINE s == Resized(data, size)
           q == MemCpy(data, index, <<e>>)
<1>1. /\ TypeOK /\ data # NULL /\ size \in Nat /\ Contents = s
      /\ Len(Contents) = size /\ data \in Block /\ Len(data) \in Nat
  BY SequenceIs DEF CallInv, TypeOK, Set, Live, Block
<1>2. CASE index >= size
  <2>1. Sequence!Reject({"OUT_OF_RANGE"}) /\ Recorded'
    BY <1>1, <1>2, RefuseMaps DEF Set
  <2> QED BY <1>1, <1>2, <2>1 DEF Sequence!Set
<1>3. CASE ~(index >= size) /\ ~InBlock(data, index, 1)
  BY <1>3 DEF Set
<1>4. CASE ~(index >= size) /\ InBlock(data, index, 1)
  <2>1. /\ data' = q /\ destroyed' = Doomed(index, 1) /\ status' = "SUCCESS"
        /\ UNCHANGED <<config, size, capacity>>
    BY <1>4 DEF Set
  <2>2. index + 1 <= Len(data) /\ index + 1 <= size
    BY <1>1, <1>4 DEF InBlock
  <2>3. /\ q \in Block /\ Len(q) = Len(data)
        /\ Resized(q, size) = Spliced(s, index, 1, <<e>>)
    BY <1>1, <1>4, <2>2, SetSplices
  <2>4. data' # NULL
    BY <1>1, <2>1, <2>2, <2>3 DEF NULL
  <2>5. Recorded'
    BY <1>1, <2>1, <2>3 DEF CallInv, Recorded, config
  <2>6. Doomed(index, 1) = IF destructor THEN <<s[index + 1]>> ELSE << >>
    <3>1. SubSeq(s, index + 1, index + 1) = <<s[index + 1]>>
      <4>1. /\ s \in Seq(Cell) /\ Len(s) = size
        BY <1>1, ResizedCells
      <4> HIDE DEF s
      <4>2. index + 1 \in 1..Len(s)
        BY <1>1, <2>2, <4>1
      <4> QED BY <4>1, <4>2, SubSeqOne
    <3> QED BY <1>1, <2>2, <3>1, DoomedAre
  <2> HIDE DEF s, q
  <2>7. Sequence!Becomes(Spliced(s, index, 1, <<e>>), <<s[index + 1]>>, "SUCCESS")
    BY <1>1, <2>1, <2>3, <2>4, <2>6, BecomesMaps
  <2>8. Sequence!Splice(index, 1, <<e>>) = Spliced(s, index, 1, <<e>>)
    BY <1>1 DEF Sequence!Splice, Spliced
  <2> QED BY <1>1, <1>4, <2>5, <2>7, <2>8 DEF Sequence!Set
<1> QED BY <1>2, <1>3, <1>4

\* The cell after the last element serves the swap as a temporary.
LEMMA SwapSwaps ==
  ASSUME TypeOK, NEW first \in Nat, first < size,
         NEW second \in Nat, second < size, size + 1 <= Len(data)
  PROVE  LET t == MemCpy(data, size, <<Get(first)>>)
             a == MemCpy(t, first, <<Get(second)>>)
             b == MemCpy(a, second, <<a[size + 1]>>)
             s == Resized(data, size)
         IN  /\ b \in Block /\ Len(b) = Len(data)
             /\ Resized(b, size) = [s EXCEPT ![first + 1] = s[second + 1],
                                             ![second + 1] = s[first + 1]]
<1> DEFINE t == MemCpy(data, size, <<Get(first)>>)
           a == MemCpy(t, first, <<Get(second)>>)
           b == MemCpy(a, second, <<a[size + 1]>>)
           s == Resized(data, size)
           x == Get(first)
           y == Get(second)
           u == [s EXCEPT ![first + 1] = s[second + 1],
                          ![second + 1] = s[first + 1]]
<1>1. /\ size \in Nat /\ data \in Block /\ Len(data) \in Nat
      /\ first + 1 \in 1..size /\ second + 1 \in 1..size
  BY DEF TypeOK, Block
<1>2. /\ s \in Seq(Cell) /\ Len(s) = size
      /\ \A i \in 1..size : s[i] = data[i]
  <2>1. /\ s \in Seq(Cell) /\ Len(s) = size
        /\ \A i \in 1..size : s[i] = IF i <= Len(data) THEN data[i] ELSE Undef
    BY <1>1, ResizedCells
  <2> HIDE DEF s
  <2>2. \A i \in 1..size : i <= Len(data)
    BY <1>1
  <2> QED BY <2>1, <2>2
<1>3. x = s[first + 1] /\ y = s[second + 1]
  BY <1>1, <1>2 DEF Get
<1> HIDE DEF s
<1>4. x \in Cell /\ y \in Cell
  BY <1>1, <1>2, <1>3
<1> HIDE DEF x, y
<1>5. \A z \in Cell : <<z>> \in Block /\ Len(<<z>>) = 1 /\ <<z>>[1] = z
  BY SingletonType
<1>6. /\ t \in Block /\ Len(t) = Len(data) /\ t[size + 1] = x
      /\ \A i \in 1..size : t[i] = data[i]
  <2> DEFINE one == <<x>>
  <2>1. one \in Block /\ Len(one) = 1 /\ one[1] = x
    BY <1>4, <1>5
  <2> HIDE DEF one
  <2>2. /\ MemCpy(data, size, one) \in Block
        /\ Len(MemCpy(data, size, one)) = Len(data)
        /\ \A i \in 1..Len(data) : MemCpy(data, size, one)[i] =
             IF i \in (size + 1)..(size + Len(one)) THEN one[i - size] ELSE data[i]
    BY <1>1, <2>1, MemCpyCells
  <2>3. t = MemCpy(data, size, one)
    BY DEF one, x
  <2> HIDE DEF t
  <2>4. t[size + 1] = x
    <3> DEFINE k == size + 1
    <3>1. k \in 1..Len(data) /\ k - size = 1 /\ k \in (size + 1)..(size + Len(one))
      BY <1>1, <2>1
    <3> HIDE DEF k
    <3>2. t[k] = one[k - size]
      BY <2>2, <2>3, <3>1
    <3> QED BY <2>1, <3>1, <3>2 DEF k
  <2> QED BY <1>1, <2>1, <2>2, <2>3, <2>4
<1> HIDE DEF t
<1>7. /\ a \in Block /\ Len(a) = Len(data) /\ a[size + 1] = x
      /\ \A i \in 1..size : a[i] = IF i = first + 1 THEN y ELSE data[i]
  <2> DEFINE one == <<y>>
  <2>1. one \in Block /\ Len(one) = 1 /\ one[1] = y
    BY <1>4, <1>5
  <2> HIDE DEF one
  <2>2. /\ MemCpy(t, first, one) \in Block
        /\ Len(MemCpy(t, first, one)) = Len(t)
        /\ \A i \in 1..Len(t) : MemCpy(t, first, one)[i] =
             IF i \in (first + 1)..(first + Len(one)) THEN one[i - first] ELSE t[i]
    BY <1>6, <2>1, MemCpyCells
  <2>3. a = MemCpy(t, first, one)
    BY DEF one, y
  <2> HIDE DEF a
  <2>4. \A i \in 1..Len(t) : i \in (first + 1)..(first + Len(one))
                               <=> i = first + 1
    BY <1>1, <1>6, <2>1
  <2>5. first + 1 - first = 1 /\ size + 1 # first + 1 /\ size + 1 \in 1..Len(t)
    BY <1>1, <1>6
  <2> QED BY <1>1, <1>6, <2>1, <2>2, <2>3, <2>4, <2>5
<1> HIDE DEF a
<1>8. /\ b \in Block /\ Len(b) = Len(data)
      /\ \A i \in 1..size : b[i] = IF i = second + 1 THEN x
                                   ELSE IF i = first + 1 THEN y ELSE data[i]
  <2> DEFINE one == <<a[size + 1]>>
  <2>1. one \in Block /\ Len(one) = 1 /\ one[1] = x
    BY <1>4, <1>5, <1>7
  <2> HIDE DEF one
  <2>2. /\ MemCpy(a, second, one) \in Block
        /\ Len(MemCpy(a, second, one)) = Len(a)
        /\ \A i \in 1..Len(a) : MemCpy(a, second, one)[i] =
             IF i \in (second + 1)..(second + Len(one)) THEN one[i - second]
                                                        ELSE a[i]
    BY <1>7, <2>1, MemCpyCells
  <2>3. b = MemCpy(a, second, one)
    BY DEF one
  <2> HIDE DEF b
  <2>4. \A i \in 1..Len(a) : i \in (second + 1)..(second + Len(one))
                               <=> i = second + 1
    BY <1>1, <1>7, <2>1
  <2>5. second + 1 - second = 1
    BY <1>1
  <2> QED BY <1>1, <1>7, <2>1, <2>2, <2>3, <2>4, <2>5
<1> HIDE DEF b
<1>9. /\ u \in Seq(Cell) /\ Len(u) = size
      /\ \A i \in 1..size : u[i] = IF i = second + 1 THEN x
                                   ELSE IF i = first + 1 THEN y ELSE s[i]
  BY <1>1, <1>2, <1>3, <1>4
<1> DEFINE v == Resized(b, size)
<1>10. /\ v \in Seq(Cell) /\ Len(v) = size
       /\ \A i \in 1..size : v[i] = IF i <= Len(b) THEN b[i] ELSE Undef
  BY <1>1, <1>8, ResizedCells
<1> HIDE DEF u, v
<1>11. \A i \in 1..Len(v) : v[i] = u[i]
  BY <1>1, <1>2, <1>8, <1>9, <1>10
<1>12. v = u
  BY <1>9, <1>10, <1>11, SeqEqual
<1> QED BY <1>8, <1>12 DEF b, a, t, s, u, v

LEMMA SwapElementsMaps ==
  ASSUME CallInv, TypeOK',
         NEW first \in Nat, NEW second \in Nat, SwapElements(first, second)
  PROVE  (Sequence!SwapElements(first, second) /\ Recorded') \/ Crash
<1> DEFINE s == Resized(data, size)
           t == MemCpy(data, size, <<Get(first)>>)
           a == MemCpy(t, first, <<Get(second)>>)
           b == MemCpy(a, second, <<a[size + 1]>>)
           swapped == [s EXCEPT ![first + 1] = s[second + 1],
                                ![second + 1] = s[first + 1]]
<1>1. /\ TypeOK /\ data # NULL /\ size \in Nat /\ Contents = s
      /\ Len(Contents) = size /\ data \in Block /\ Len(data) \in Nat
  BY SequenceIs DEF CallInv, TypeOK, SwapElements, Live, Block
<1>2. CASE first >= size \/ second >= size
  <2>1. Sequence!Reject({"OUT_OF_RANGE"}) /\ Recorded'
    BY <1>1, <1>2, RefuseMaps DEF SwapElements
  <2> QED BY <1>1, <1>2, <2>1 DEF Sequence!SwapElements
<1>3. CASE ~(first >= size \/ second >= size) /\ size = capacity
  <2>1. Sequence!Reject(Sequence!NoRoom) /\ Recorded'
    BY <1>1, <1>3, RefuseMaps DEF SwapElements, Sequence!NoRoom
  <2> QED BY <1>1, <1>3, <2>1 DEF Sequence!SwapElements
<1>4. CASE /\ ~(first >= size \/ second >= size) /\ size # capacity
           /\ ~InBlock(data, size, 1)
  BY <1>4 DEF SwapElements
<1>5. CASE /\ ~(first >= size \/ second >= size) /\ size # capacity
           /\ InBlock(data, size, 1)
  <2>1. /\ data' = b /\ status' = "SUCCESS" /\ destroyed' = << >>
        /\ UNCHANGED <<config, size, capacity>>
    BY <1>5 DEF SwapElements, Return
  <2>2. size + 1 <= Len(data) /\ first < size /\ second < size
    BY <1>1, <1>5 DEF InBlock
  <2>3. b \in Block /\ Len(b) = Len(data) /\ Resized(b, size) = swapped
    BY <1>1, <2>2, SwapSwaps
  <2> HIDE DEF b, a, t, swapped
  <2>4. data' # NULL
    BY <1>1, <2>1, <2>2, <2>3 DEF NULL
  <2>5. Recorded'
    BY <1>1, <2>1, <2>3 DEF CallInv, Recorded, config
  <2>6. Sequence!Becomes(swapped, << >>, "SUCCESS")
    BY <1>1, <2>1, <2>3, <2>4, BecomesMaps
  <2> QED BY <1>1, <1>5, <2>2, <2>5, <2>6 DEF Sequence!SwapElements, swapped
<1> QED BY <1>2, <1>3, <1>4, <1>5

-----------------------------------------------------------------------------
(* Deletion *)

LEMMA DeleteSplices ==
  ASSUME TypeOK, NEW index \in Nat, NEW count \in Nat, index + count <= size,
         index + count < size => size <= Len(data)
  PROVE  LET q == ShiftLeft(data, index, count) IN
         /\ q \in Block /\ Len(q) = Len(data)
         /\ Resized(q, size - count) =
              Spliced(Resized(data, size), index, count, << >>)
<1> DEFINE q == ShiftLeft(data, index, count)
           s == Resized(data, size)
           n == size - count
           none == << >>
<1>1. /\ size \in Nat /\ data \in Block /\ Len(data) \in Nat /\ n \in Nat
      /\ none \in Seq(Cell) /\ Len(none) = 0
  BY DEF TypeOK, Block
<1>2. /\ q \in Block /\ Len(q) = Len(data)
      /\ \A i \in 1..Len(data) : q[i] =
           IF i \in (index + 1)..(size - count) THEN data[i + count] ELSE data[i]
  BY <1>1, ShiftLeftCells
<1>3. /\ s \in Seq(Cell) /\ Len(s) = size
      /\ \A i \in 1..size : s[i] = IF i <= Len(data) THEN data[i] ELSE Undef
  BY <1>1, ResizedCells
<1> HIDE DEF q, s, none
<1>4. ASSUME NEW i \in 1..n
      PROVE  (IF i <= Len(q) THEN q[i] ELSE Undef) =
                IF i <= index THEN s[i]
                ELSE IF i <= index + Len(none) THEN none[i - index]
                ELSE s[i - Len(none) + count]
  <2>1. CASE i <= index
    BY <1>1, <1>2, <1>3, <2>1
  <2>2. CASE ~(i <= index)
    <3>1. /\ index + count < size /\ i + count \in 1..size
          /\ i \in (index + 1)..(size - count) /\ i \in 1..Len(data)
          /\ i - Len(none) + count = i + count
          /\ ~(i <= index + Len(none))
      BY <1>1, <2>2
    <3>2. q[i] = data[i + count] /\ s[i + count] = data[i + count]
      BY <1>1, <1>2, <1>3, <3>1
    <3> QED BY <1>1, <1>2, <2>2, <3>1, <3>2
  <2> QED BY <2>1, <2>2
<1>5. /\ ReadsAs(q, n, s, index, count, none)
      /\ n = Len(s) - count + Len(none) /\ index + count <= Len(s)
      /\ s \in Seq(Cell) /\ q \in Block /\ none \in Seq(Cell) /\ n \in Nat
  <2>1. ReadsAs(q, n, s, index, count, none)
    BY <1>4 DEF ReadsAs
  <2> QED BY <1>1, <1>2, <1>3, <2>1
<1> HIDE DEF n
<1>6. Resized(q, n) = Spliced(s, index, count, none)
  BY <1>5, SpliceEqual
<1> QED BY <1>2, <1>6 DEF q, s, none, n

LEMMA DeleteRangeMaps ==
  ASSUME AllocatorFailures # "any", CallInv, TypeOK',
         NEW index \in Nat, NEW count \in Nat, DeleteRange(index, count)
  PROVE  (Sequence!DeleteRange(index, count) /\ Recorded') \/ Crash
<1> DEFINE s == Resized(data, size)
           left == ShiftLeft(data, index, count)
           touched == IF index + count < size THEN size - index
                      ELSE IF destructor THEN count ELSE 0
<1>1. /\ TypeOK /\ data # NULL /\ size \in Nat /\ Contents = s
      /\ Len(Contents) = size /\ data \in Block /\ Len(data) \in Nat
  BY SequenceIs DEF CallInv, TypeOK, DeleteRange, Live, Block
<1>2. CASE count = 0
  <2>1. Sequence!Reject({"INVALID_ARGUMENT"}) /\ Recorded'
    BY <1>1, <1>2, RefuseMaps DEF DeleteRange
  <2> QED BY <1>2, <2>1 DEF Sequence!DeleteRange
<1>3. CASE count # 0 /\ index + count > size
  <2>1. Sequence!Reject({"OUT_OF_RANGE"}) /\ Recorded'
    BY <1>1, <1>3, RefuseMaps DEF DeleteRange
  <2> QED BY <1>1, <1>3, <2>1 DEF Sequence!DeleteRange
<1>4. CASE /\ count # 0 /\ ~(index + count > size)
           /\ ~InBlock(data, index, touched)
  BY <1>4 DEF DeleteRange
<1>5. CASE /\ count # 0 /\ ~(index + count > size)
           /\ InBlock(data, index, touched)
  <2>1. destroyed' = Doomed(index, count)
    BY <1>5 DEF DeleteRange
  <2>2. PICK r \in ShrinkTo(left, size - count) : Finish(r, r.p, size - count)
    BY <1>5 DEF DeleteRange
  <2>3. /\ index + count <= size /\ size - count \in Nat /\ size - count <= size
        /\ index + count < size => size <= Len(data)
    BY <1>1, <1>5 DEF InBlock
  <2>4. /\ left \in Block /\ Len(left) = Len(data)
        /\ Resized(left, size - count) = Spliced(s, index, count, << >>)
    BY <1>1, <2>3, DeleteSplices
  <2>5. left # NULL
    BY <1>1, <2>4 DEF Block, NULL
  <2> HIDE DEF left
  <2>6. /\ r.p # NULL /\ Resized(r.p, size - count) = Resized(left, size - count)
        /\ r.status \in {"SUCCESS"} \cup Sequence!NoMemory
        /\ size - count <= r.capacity \/ Len(r.p) <= r.capacity
        /\ allocator = "none" => size - count <= r.capacity
    BY <1>1, <2>2, <2>3, <2>4, <2>5, ShrinkToOutcome
  <2>7. /\ data' = r.p /\ size' = size - count /\ status' = r.status
        /\ capacity' = r.capacity /\ UNCHANGED config
    BY <2>2 DEF Finish
  <2>8. Recorded'
    BY <2>6, <2>7 DEF Recorded, config
  <2>9. destroyed' = IF destructor THEN SubSeq(s, index + 1, index + count)
                                   ELSE << >>
    BY <1>1, <2>1, <2>3, DoomedAre
  <2> HIDE DEF s
  <2>10. Sequence!Becomes(Spliced(s, index, count, << >>),
                          SubSeq(s, index + 1, index + count), r.status)
    BY <1>1, <2>4, <2>6, <2>7, <2>9, BecomesMaps
  <2>11. Sequence!Splice(index, count, << >>) = Spliced(s, index, count, << >>)
    BY <1>1 DEF Sequence!Splice, Spliced
  <2> QED BY <1>1, <1>5, <2>6, <2>8, <2>10, <2>11 DEF Sequence!DeleteRange
<1> QED BY <1>2, <1>3, <1>4, <1>5

\* Popping is deleting the last element.
LEMMA PopBackDeletes ==
  ASSUME TypeOK, size # 0, PopBack
  PROVE  DeleteRange(size - 1, 1)
<1>1. /\ size \in Nat /\ size - 1 + 1 = size /\ ~(size - 1 + 1 > size)
      /\ ~(size - 1 + 1 < size)
  BY DEF TypeOK
<1>2. ShiftLeft(data, size - 1, 1) = data
  BY <1>1 DEF ShiftLeft
<1>3. InBlock(data, size - 1, 0)
  BY DEF InBlock
<1> QED BY <1>1, <1>2, <1>3 DEF PopBack, DeleteRange

LEMMA PopBackMaps ==
  ASSUME AllocatorFailures # "any", CallInv, TypeOK', PopBack
  PROVE  (Sequence!PopBack /\ Recorded') \/ Crash
<1>1. /\ TypeOK /\ data # NULL /\ size \in Nat /\ Contents \in Seq(Cell)
      /\ Len(Contents) = size
  BY SequenceIs DEF CallInv, TypeOK, PopBack, Live
<1>2. CASE size = 0
  <2>1. Sequence!Reject({"OUT_OF_RANGE"}) /\ Recorded'
    BY <1>1, <1>2, RefuseMaps DEF PopBack
  <2>2. Contents = << >>
    BY <1>1, <1>2
  <2> QED BY <1>1, <2>1, <2>2 DEF Sequence!PopBack
<1>3. CASE size # 0
  <2>1. DeleteRange(size - 1, 1) /\ size - 1 \in Nat
    BY <1>1, <1>3, PopBackDeletes
  <2>2. (Sequence!DeleteRange(size - 1, 1) /\ Recorded') \/ Crash
    BY <2>1, DeleteRangeMaps
  <2>3. Contents # << >>
    BY <1>1, <1>3
  <2> QED BY <1>1, <2>2, <2>3 DEF Sequence!PopBack
<1> QED BY <1>2, <1>3

-----------------------------------------------------------------------------
(* Management, destruction and construction *)

LEMMA SequenceResizes ==
  ASSUME CallInv, data # NULL, NEW n \in Nat, NEW e
  PROVE  /\ (n = size /\ Sequence!Reject({"SUCCESS"})) => Sequence!ResizeEx(n, e)
         /\ (n < size /\ Sequence!Becomes(SubSeq(Contents, 1, n),
               SubSeq(Contents, n + 1, size), "SUCCESS"))
              => Sequence!ResizeEx(n, e)
         /\ \A s \in Sequence!NoMemory :
              (n < size /\ Sequence!Becomes(Contents,
                 SubSeq(Contents, n + 1, size), s))
                => Sequence!ResizeEx(n, e)
         /\ (n > size /\ Sequence!Reject(Sequence!NoRoom))
              => Sequence!ResizeEx(n, e)
<1>1. TypeOK
  BY DEF CallInv
<1>2. Len(Contents) = size
  BY <1>1, SequenceIs
<1> QED BY <1>2 DEF Sequence!ResizeEx

LEMMA ResizeShrinks ==
  ASSUME AllocatorFailures # "any", CallInv, TypeOK', data # NULL,
         NEW n \in Nat, n < size, NEW r \in Resizing(n),
         destroyed' = Doomed(n, size - n),
         IF r.status # "SUCCESS" THEN Finish(r, r.p, size) ELSE Finish(r, r.p, n),
         NEW initializer
  PROVE  Sequence!ResizeEx(n, initializer) /\ Recorded'
<1> DEFINE s == Resized(data, size)
           gone == SubSeq(s, n + 1, size)
<1>1. /\ TypeOK /\ size \in Nat /\ Contents = s /\ Len(Contents) = size
      /\ data \in Block /\ n + (size - n) = size /\ size - n \in Nat
  BY SequenceIs DEF CallInv, TypeOK
<1>2. /\ r.p # NULL /\ \A k \in Nat : k <= n => Resized(r.p, k) = Resized(data, k)
      /\ r.status \in {"SUCCESS"} \cup Sequence!NoMemory
      /\ r.status = "SUCCESS" => n <= r.capacity
      /\ r.status # "SUCCESS"
              => /\ r.p = data
                 /\ size <= r.capacity \/ Len(r.p) <= r.capacity
                 /\ allocator = "none" => size <= r.capacity
  BY <1>1, ResizingOutcome
<1>3. destroyed' = IF destructor THEN gone ELSE << >>
  <2> DEFINE k == size - n
  <2>1. k \in Nat /\ n + k = size
    BY <1>1
  <2>2. destroyed' = Doomed(n, k)
    OBVIOUS
  <2> HIDE DEF k
  <2>3. n + k <= size
    BY <1>1, <2>1
  <2>4. Doomed(n, k) = IF destructor THEN SubSeq(s, n + 1, n + k) ELSE << >>
    BY <1>1, <2>1, <2>3, DoomedAre
  <2> QED BY <2>1, <2>2, <2>4
<1>4. SubSeq(s, 1, n) = Resized(data, n)
  BY <1>1, ResizedPrefix
<1> HIDE DEF s, gone
<1>5. CASE r.status # "SUCCESS"
  <2>1. /\ data' = data /\ size' = size /\ status' = r.status
        /\ capacity' = r.capacity /\ UNCHANGED config
    BY <1>2, <1>5 DEF Finish
  <2>2. Recorded'
    BY <1>2, <1>5, <2>1 DEF Recorded, config
  <2>3. Sequence!Becomes(s, gone, r.status) /\ r.status \in Sequence!NoMemory
    BY <1>1, <1>2, <1>3, <1>5, <2>1, BecomesMaps DEF s
  <2> QED BY <1>1, <2>2, <2>3, SequenceResizes DEF gone
<1>6. CASE r.status = "SUCCESS"
  <2>1. /\ data' = r.p /\ size' = n /\ status' = "SUCCESS"
        /\ capacity' = r.capacity /\ UNCHANGED config
    BY <1>6 DEF Finish
  <2>2. Recorded'
    BY <1>2, <1>6, <2>1 DEF Recorded
  <2>3. Resized(r.p, n) = Resized(data, n)
    BY <1>2
  <2>4. Sequence!Becomes(SubSeq(s, 1, n), gone, "SUCCESS")
    BY <1>1, <1>2, <1>3, <1>4, <2>1, <2>3, BecomesMaps
  <2> QED BY <1>1, <2>2, <2>4, SequenceResizes DEF gone
<1> QED BY <1>5, <1>6

\* New cells at the end leave the elements before them.
LEMMA ResizeGrows ==
  ASSUME CallInv, TypeOK', data # NULL, NEW n \in Nat, n > size,
         data' # NULL, size' = n, status' = "SUCCESS", destroyed' = << >>,
         UNCHANGED config, Resized(data', size) = Resized(data, size),
         NEW initializer,
         initializer # << >> =>
           \A i \in (size + 1)..n : i <= Len(data') /\ data'[i] = initializer
  PROVE  Sequence!ResizeEx(n, initializer)
<1> DEFINE s == Resized(data, size)
           t == Resized(data', n)
<1>1. /\ TypeOK /\ size \in Nat /\ Contents = s /\ Len(Contents) = size
      /\ data' \in Block /\ Contents' = t
  BY SequenceIs, ContentsBecome DEF CallInv, TypeOK
<1>2. /\ t \in Seq(Cell) /\ Len(t) = n
      /\ \A i \in 1..n : t[i] = IF i <= Len(data') THEN data'[i] ELSE Undef
  BY <1>1, ResizedCells
<1>3. SubSeq(t, 1, size) = s
  BY <1>1, ResizedPrefix
<1> HIDE DEF s, t
<1>4. initializer # << >> => \A i \in (size + 1)..n : t[i] = initializer
  BY <1>1, <1>2
<1>5. Sequence!Becomes(t, << >>, "SUCCESS")
  BY <1>1, BecomesMaps DEF t
<1> QED BY <1>1, <1>2, <1>3, <1>4, <1>5 DEF Sequence!ResizeEx

LEMMA ResizeExMaps ==
  ASSUME AllocatorFailures # "any", CallInv, TypeOK', NEW n \in Nat,
         NEW initializer \in Element \cup {NULL}, ResizeEx(n, initializer)
  PROVE  (Sequence!ResizeEx(n, initializer) /\ Recorded') \/ Crash
<1> DEFINE doomed == IF n < size THEN Doomed(n, size - n) ELSE << >>
           fresh == [i \in 1..(n - size) |-> initializer]
<1>1. /\ TypeOK /\ data # NULL /\ size \in Nat /\ data \in Block
  BY DEF CallInv, TypeOK, ResizeEx, Live
<1>2. CASE n = size
  <2>1. Sequence!Reject({"SUCCESS"}) /\ Recorded'
    BY <1>1, <1>2, RefuseMaps DEF ResizeEx
  <2> QED BY <1>1, <1>2, <2>1, SequenceResizes
<1>3. CASE n < size /\ destructor /\ ~InBlock(data, n, size - n)
  BY <1>1, <1>3 DEF ResizeEx
<1>4. CASE n < size /\ ~(destructor /\ ~InBlock(data, n, size - n))
  <2>1. PICK r \in Resizing(n) :
          IF r.status # "SUCCESS"
            THEN Finish(r, r.p, size) /\ destroyed' = doomed
          ELSE Finish(r, r.p, n) /\ destroyed' = doomed
    BY <1>1, <1>4 DEF ResizeEx
  <2>2. destroyed' = Doomed(n, size - n)
    BY <1>4, <2>1
  <2> HIDE DEF doomed
  <2>3. IF r.status # "SUCCESS" THEN Finish(r, r.p, size) ELSE Finish(r, r.p, n)
    BY <2>1
  <2> QED BY <1>1, <1>4, <2>2, <2>3, ResizeShrinks
<1>5. CASE n > size
  <2>1. PICK r \in Resizing(n) :
          IF r.status # "SUCCESS"
            THEN Finish(r, r.p, size) /\ destroyed' = << >>
          ELSE IF initializer # NULL
            THEN IF ~InBlock(r.p, size, n - size) THEN Crash
                 ELSE /\ Finish(r, MemCpy(r.p, size, fresh), n)
                      /\ destroyed' = << >>
          ELSE Finish(r, r.p, n) /\ destroyed' = << >>
    BY <1>1, <1>5 DEF ResizeEx
  <2>2. /\ r.p \in Block /\ r.p # NULL /\ r.capacity \in Nat
        /\ r.status \in {"SUCCESS"} \cup Sequence!NoRoom
        /\ r.status = "SUCCESS" => n <= r.capacity
        /\ r.status # "SUCCESS"
              => /\ r.p = data
                 /\ size <= r.capacity \/ Len(r.p) <= r.capacity
                 /\ allocator = "none" => size <= r.capacity
    BY <1>1, ResizingOutcome
  <2>3. Resized(r.p, size) = Resized(data, size)
    <3>1. \A k \in Nat : k <= n => Resized(r.p, k) = Resized(data, k)
      BY <1>1, ResizingOutcome
    <3> QED BY <1>1, <1>5, <3>1
  <2>4. CASE r.status # "SUCCESS"
    <3>1. /\ data' = r.p /\ size' = size /\ status' = r.status
          /\ capacity' = r.capacity /\ UNCHANGED config /\ destroyed' = << >>
      BY <2>1, <2>4 DEF Finish
    <3>2. Recorded'
      BY <2>2, <2>4, <3>1 DEF Recorded, config
    <3>3. Sequence!Reject(Sequence!NoRoom)
      BY <1>1, <2>2, <2>3, <2>4, <3>1, RejectMaps
    <3> QED BY <1>1, <1>5, <3>2, <3>3, SequenceResizes
  <2>5. CASE r.status = "SUCCESS" /\ initializer = NULL
    <3>1. /\ data' = r.p /\ size' = n /\ status' = "SUCCESS"
          /\ capacity' = r.capacity /\ UNCHANGED config /\ destroyed' = << >>
      BY <2>1, <2>5 DEF Finish
    <3>2. Recorded'
      BY <2>2, <2>5, <3>1 DEF Recorded
    <3>3. Sequence!ResizeEx(n, initializer)
      BY <1>1, <1>5, <2>2, <2>3, <2>5, <3>1, ResizeGrows DEF NULL
    <3> QED BY <3>2, <3>3
  <2>6. CASE /\ r.status = "SUCCESS" /\ initializer # NULL
             /\ ~InBlock(r.p, size, n - size)
    BY <2>1, <2>6
  <2>7. CASE /\ r.status = "SUCCESS" /\ initializer # NULL
             /\ InBlock(r.p, size, n - size)
    <3> DEFINE q == MemCpy(r.p, size, fresh)
    <3>1. /\ data' = q /\ size' = n /\ status' = "SUCCESS"
          /\ capacity' = r.capacity /\ UNCHANGED config /\ destroyed' = << >>
      BY <2>1, <2>7 DEF Finish
    <3>2. Recorded'
      BY <2>2, <2>7, <3>1 DEF Recorded
    <3>3. n <= Len(r.p) /\ Len(r.p) \in Nat /\ n - size \in Nat
      BY <1>1, <1>5, <2>2, <2>7 DEF InBlock, Block
    <3>4. /\ fresh \in Block /\ Len(fresh) = n - size
          /\ \A i \in 1..(n - size) : fresh[i] = initializer
      <4>1. fresh \in [1..(n - size) -> Cell]
        BY <2>7 DEF Cell
      <4>2. \A i \in 1..(n - size) : fresh[i] = initializer
        OBVIOUS
      <4> HIDE DEF fresh
      <4> QED BY <3>3, <4>1, <4>2 DEF Block
    <3> HIDE DEF fresh
    <3>5. /\ q \in Block /\ Len(q) = Len(r.p)
          /\ \A i \in 1..Len(r.p) : q[i] =
               IF i \in (size + 1)..(size + Len(fresh)) THEN fresh[i - size]
                                                        ELSE r.p[i]
      BY <1>1, <2>2, <3>4, MemCpyCells
    <3> HIDE DEF q
    <3>6. Resized(q, size) = Resized(r.p, size)
      <4>1. \A i \in 1..size : (IF i <= Len(q) THEN q[i] ELSE Undef)
                                 = (IF i <= Len(r.p) THEN r.p[i] ELSE Undef)
        BY <1>1, <1>5, <3>3, <3>5
      <4> QED BY <4>1 DEF Resized
    <3>7. ASSUME NEW i \in (size + 1)..n
          PROVE  i <= Len(q) /\ q[i] = initializer
      <4>1. /\ i \in 1..Len(r.p) /\ i \in (size + 1)..(size + Len(fresh))
            /\ i - size \in 1..(n - size)
        BY <1>1, <1>5, <3>3, <3>4
      <4> QED BY <3>3, <3>4, <3>5, <4>1
    <3>8. q # NULL
      BY <1>1, <1>5, <3>3, <3>5 DEF NULL
    <3>9. /\ data' # NULL /\ Resized(data', size) = Resized(data, size)
          /\ \A i \in (size + 1)..n : i <= Len(data') /\ data'[i] = initializer
      BY <2>3, <3>1, <3>6, <3>7, <3>8
    <3>10. Sequence!ResizeEx(n, initializer)
      BY <1>5, <1>1, <3>1, <3>9, ResizeGrows
    <3> QED BY <3>2, <3>10
  <2> QED BY <2>4, <2>5, <2>6, <2>7
<1> QED BY <1>1, <1>2, <1>3, <1>4, <1>5

LEMMA CapacityCallMaps ==
  ASSUME AllocatorFailures # "any", CallInv, TypeOK',
         (\E n \in Nat : Reserve(n)) \/ ShrinkToFit
  PROVE  Sequence!Manage /\ Recorded'
<1>1. /\ TypeOK /\ data # NULL /\ size \in Nat /\ capacity \in Nat
      /\ data \in Block /\ Len(data) \in Nat
      /\ size <= capacity \/ Len(data) <= capacity
      /\ allocator = "none" => size <= capacity
  BY DEF CallInv, Recorded, TypeOK, Block, Reserve, ShrinkToFit, Live
<1>2. PICK n \in Nat : \E r \in Reallocate(data, n) \cup Kept(data) :
         /\ Finish(r, r.p, size) /\ destroyed' = << >>
         /\ n >= size \/ (Len(data) <= capacity /\ capacity <= n)
  BY <1>1 DEF Reserve, Reserving, ShrinkToFit
<1>3. PICK r \in Reallocate(data, n) \cup Kept(data) :
         /\ Finish(r, r.p, size) /\ destroyed' = << >>
         /\ n >= size \/ (Len(data) <= capacity /\ capacity <= n)
  BY <1>2
<1>4. /\ data' = r.p /\ size' = size /\ status' = r.status
      /\ capacity' = r.capacity /\ UNCHANGED config
  BY <1>3 DEF Finish
<1>5. CASE r \in Kept(data)
  <2>1. r.p = data /\ r.capacity = capacity /\ r.status = "SUCCESS"
    BY <1>5 DEF Kept
  <2>2. Recorded'
    BY <1>1, <1>4, <2>1 DEF Recorded, config
  <2>3. Sequence!Reject({"SUCCESS"} \cup Sequence!NoRoom)
    BY <1>1, <1>3, <1>4, <2>1, RejectMaps
  <2> QED BY <1>1, <2>2, <2>3 DEF Sequence!Manage
<1>6. CASE r \in Reallocate(data, n)
  <2>1. Outcome(data, n, r) /\ r.capacity \in Nat
    BY <1>1, <1>6, ReallocateOutcome, ReallocateType
  <2>2. r.p # NULL /\ Resized(r.p, size) = Resized(data, size)
    BY <1>1, <1>3, <2>1, OutcomeKeeps
  <2>3. r.status \in {"SUCCESS"} \cup Sequence!NoRoom
    BY <2>1 DEF Outcome, Sequence!NoRoom, Sequence!NoMemory
  <2>4. Recorded'
    <3>1. /\ size <= r.capacity \/ Len(r.p) <= r.capacity
          /\ allocator = "none" => size <= r.capacity
      <4>1. CASE r.p = Resized(data, r.capacity) /\ allocator # "none"
        <5>1. Len(r.p) = r.capacity
          BY <1>1, <2>1, <4>1, ResizedType
        <5> QED BY <2>1, <4>1, <5>1
      <4>2. CASE r.p = data
        BY <1>1, <1>3, <2>1, <4>2 DEF Outcome
      <4> QED BY <2>1, <4>1, <4>2 DEF Outcome
    <3> QED BY <1>4, <3>1 DEF Recorded, config
  <2>5. Sequence!Reject({"SUCCESS"} \cup Sequence!NoRoom)
    BY <1>1, <1>3, <1>4, <2>2, <2>3, RejectMaps
  <2> QED BY <1>1, <2>4, <2>5 DEF Sequence!Manage
<1> QED BY <1>3, <1>5, <1>6

LEMMA DestroyMaps ==
  ASSUME CallInv, Destroy
  PROVE  (Sequence!Destroy /\ Recorded') \/ Crash
<1>1. /\ TypeOK /\ data # NULL /\ size \in Nat /\ Contents = Resized(data, size)
      /\ Contents \in Seq(Cell) /\ Len(Contents) = size
  BY SequenceIs DEF CallInv, TypeOK, Destroy, Live
<1>2. CASE destructor /\ ~InBlock(data, 0, size)
  BY <1>2 DEF Destroy
<1>3. CASE ~(destructor /\ ~InBlock(data, 0, size))
  <2>1. /\ data' = NULL /\ destroyed' = Doomed(0, size) /\ status' = "SUCCESS"
        /\ UNCHANGED config
    BY <1>3 DEF Destroy
  <2>2. Doomed(0, size) = IF destructor THEN Contents ELSE << >>
    <3>1. 0 + 1 = 1 /\ 0 + size = size /\ 0 + size <= size /\ 0 \in Nat
      BY <1>1
    <3>2. SubSeq(Contents, 1, size) = Contents
      BY <1>1, SubSeqFull
    <3> QED BY <1>1, <3>1, <3>2, DoomedAre
  <2>3. Recorded'
    BY <2>1 DEF Recorded
  <2> QED BY <1>1, <2>1, <2>2, <2>3
          DEF Sequence!Destroy, Sequence!Given, config
<1> QED BY <1>2, <1>3

\* Construction
LEMMA DuplicateMaps ==
  ASSUME TypeOK', data = NULL, data' # NULL, status' = "SUCCESS",
         destroyed' = << >>, NEW cells, Resized(data', size') = cells
  PROVE  Sequence!Duplicate(cells)
BY ContentsBecome DEF Sequence!Duplicate, TypeOK

LEMMA NoDuplicateMaps ==
  ASSUME TypeOK', data = NULL, data' = NULL, destroyed' = << >>,
         status' \in {"INVALID_ARGUMENT"} \cup Sequence!NoRoom,
         NEW cells
  PROVE  Sequence!Duplicate(cells)
BY DEF Sequence!Duplicate, TypeOK

\* The block of a new vector starts with the elements it is given.
LEMMA FreshCopy ==
  ASSUME NEW p \in Block, NEW elements \in Block, Len(elements) <= Len(p)
  PROVE  Resized(MemCpy(p, 0, elements), Len(elements)) = elements
<1> DEFINE n == Len(elements)
           q == MemCpy(p, 0, elements)
<1>1. /\ n \in Nat /\ Len(p) \in Nat /\ n <= Len(p) /\ Len(q) = Len(p)
      /\ q \in Block
  BY MemCpyType DEF Block
<1>2. \A i \in 1..n : q[i] = elements[i]
  BY <1>1 DEF MemCpy
<1> HIDE DEF q
<1>3. Resized(q, n) = [i \in 1..n |-> elements[i]]
  BY <1>1, <1>2 DEF Resized
<1>4. [i \in 1..n |-> elements[i]] = elements
  BY DEF Block
<1> QED BY <1>3, <1>4 DEF q

LEMMA InitWithMaps ==
  ASSUME CallInv, TypeOK', NEW elements \in Block, NEW c \in Nat,
         Len(elements) <= Max2(MinCapacity, c), NEW g, NEW t, NEW d,
         InitWith(elements, c, g, t, d)
  PROVE  (Sequence!Duplicate(elements) /\ Recorded') \/ Crash
<1> DEFINE n == Max2(MinCapacity, c)
           fresh == [i \in 1..n |-> Undef]
<1>1. /\ n \in Nat /\ n >= 1 /\ Len(elements) \in Nat /\ data = NULL
      /\ Len(elements) <= n
  BY DEF Max2, MinCapacity, Block, InitWith
<1>2. CASE Refuse("INVALID_ARGUMENT")
  BY <1>1, <1>2, NoDuplicateMaps
     DEF Refuse, Return, vector, config, Recorded
<1>3. ASSUME NEW r \in Allocate(n),
             /\ allocator' = "dynamic"
             /\ size' = IF r.status = "SUCCESS" THEN Len(elements) ELSE 0
             /\ capacity' = n
             /\ data' = MemCpy(r.p, 0, elements)
             /\ Return(r.status)
      PROVE  Sequence!Duplicate(elements) /\ Recorded'
  <2> HIDE DEF n
  <2>1. \/ r = [status |-> "SUCCESS", p |-> fresh]
        \/ /\ r = [status |-> "NOT_ENOUGH_MEMORY", p |-> NULL]
           /\ AllocatorFailures # "never"
    BY <1>3 DEF Allocate, MayRefuse
  <2>2. Recorded'
    BY <1>1, <1>3 DEF Recorded
  <2>3. CASE r = [status |-> "SUCCESS", p |-> fresh]
    <3>1. fresh \in Block /\ Len(fresh) = n
      BY <1>1, FreshType
    <3> HIDE DEF fresh
    <3>2. /\ data' = MemCpy(fresh, 0, elements) /\ size' = Len(elements)
          /\ status' = "SUCCESS" /\ destroyed' = << >>
      BY <1>3, <2>3 DEF Return
    <3>3. Resized(data', size') = elements
      BY <1>1, <3>1, <3>2, FreshCopy
    <3>4. Len(data') = n
      BY <3>1, <3>2, MemCpyType
    <3>5. data' # NULL
      BY <1>1, <3>4 DEF NULL
    <3> QED BY <1>1, <2>2, <3>2, <3>3, <3>5, DuplicateMaps
  <2>4. CASE /\ r = [status |-> "NOT_ENOUGH_MEMORY", p |-> NULL]
             /\ AllocatorFailures # "never"
    <3>1. /\ data' = MemCpy(NULL, 0, elements)
          /\ status' = "NOT_ENOUGH_MEMORY" /\ destroyed' = << >>
      BY <1>3, <2>4 DEF Return
    <3>2. MemCpy(NULL, 0, elements) = NULL
      BY DEF MemCpy, NULL
    <3> QED BY <1>1, <2>2, <2>4, <3>1, <3>2, NoDuplicateMaps
            DEF Sequence!NoRoom, Sequence!NoMemory
  <2> QED BY <2>1, <2>3, <2>4
<1> QED BY <1>2, <1>3 DEF InitWith

LEMMA BufferWithMaps ==
  ASSUME CallInv, TypeOK', NEW elements \in Block, NEW c \in Nat, NEW d,
         BufferWith(elements, c, d)
  PROVE  (Sequence!Duplicate(elements) /\ Recorded') \/ Crash
<1> DEFINE fresh == [i \in 1..c |-> Undef]
<1>1. Len(elements) \in Nat /\ data = NULL
  BY DEF Block, BufferWith
<1>2. CASE Refuse("INVALID_ARGUMENT")
  BY <1>1, <1>2, NoDuplicateMaps
     DEF Refuse, Return, vector, config, Recorded
<1>3. CASE c # 0 /\ ~(c < Len(elements)) /\ ~Crash
  <2>1. /\ size' = Len(elements) /\ capacity' = c
        /\ data' = MemCpy(fresh, 0, elements)
        /\ status' = "SUCCESS" /\ destroyed' = << >>
    BY <1>3 DEF BufferWith, Return
  <2>2. Recorded'
    BY <1>1, <1>3, <2>1 DEF Recorded
  <2>3. fresh \in Block /\ Len(fresh) = c
    BY FreshType
  <2> HIDE DEF fresh
  <2>4. Resized(data', size') = elements
    BY <1>1, <1>3, <2>1, <2>3, FreshCopy
  <2>5. Len(data') = c
    BY <2>1, <2>3, MemCpyType
  <2>6. data' # NULL
    BY <1>3, <2>5 DEF NULL
  <2> QED BY <1>1, <2>1, <2>2, <2>4, <2>6, DuplicateMaps
<1> QED BY <1>2, <1>3 DEF BufferWith

LEMMA DuplicateExMaps ==
  ASSUME CallInv, TypeOK', NEW elements \in Block, NEW c \in Nat,
         NEW g, NEW t, NEW d, DuplicateEx(elements, c, g, t, d)
  PROVE  (Sequence!Duplicate(elements) /\ Recorded') \/ Crash
<1> DEFINE m == Max2(c, Len(elements))
<1>1. Len(elements) \in Nat
  BY DEF Block
<1>2. m \in Nat /\ Len(elements) <= Max2(MinCapacity, m)
  BY <1>1 DEF Max2, MinCapacity
<1>3. InitWith(elements, m, g, t, d)
  BY DEF DuplicateEx
<1> HIDE DEF m
<1> QED BY <1>2, <1>3, InitWithMaps

LEMMA InitExMaps ==
  ASSUME CallInv, TypeOK', NEW c \in Nat, NEW g, NEW t, NEW d,
         InitEx(c, g, t, d)
  PROVE  (Sequence!Duplicate(<< >>) /\ Recorded') \/ Crash
<1>1. << >> \in Block /\ Len(<< >>) = 0
  BY DEF Block
<1>2. 0 <= Max2(MinCapacity, c)
  BY DEF Max2, MinCapacity
<1>3. InitWith(<< >>, c, g, t, d)
  BY DEF InitEx
<1> QED BY <1>1, <1>2, <1>3, InitWithMaps

LEMMA DuplicateCustomBufferMaps ==
  ASSUME CallInv, TypeOK', NEW elements \in Block, NEW c \in Nat, NEW d,
         DuplicateCustomBuffer(elements, c, d)
  PROVE  (Sequence!Duplicate(elements) /\ Recorded') \/ Crash
<1>1. CASE data = NULL /\ Refuse("INSUFFICIENT_BUFFER_SIZE")
  BY <1>1, NoDuplicateMaps
     DEF Refuse, Return, vector, config, Recorded, Sequence!NoRoom
<1>2. CASE BufferWith(elements, c, d)
  BY <1>2, BufferWithMaps
<1> QED BY <1>1, <1>2 DEF DuplicateCustomBuffer

LEMMA ConstructMaps ==
  ASSUME CallInv, TypeOK', Construct
  PROVE  \/ /\ Recorded'
            /\ \/ Sequence!Duplicate(<< >>)
               \/ \E run \in Runs : Sequence!Duplicate(run)
         \/ Crash
<1>1. ASSUME NEW c \in Capacities, NEW g, NEW t, NEW d, InitEx(c, g, t, d)
      PROVE  (Sequence!Duplicate(<< >>) /\ Recorded') \/ Crash
  <2>1. c \in Nat
    BY VectorAssumption
  <2> QED BY <1>1, <2>1, InitExMaps
<1>2. ASSUME NEW c \in Capacities, NEW g, NEW t, NEW d, NEW run \in Runs,
             DuplicateEx(run, c, g, t, d)
      PROVE  (Sequence!Duplicate(run) /\ Recorded') \/ Crash
  <2>1. c \in Nat /\ run \in Block
    BY VectorAssumption, RunsType
  <2> QED BY <1>2, <2>1, DuplicateExMaps
<1>3. ASSUME NEW c \in BufferCapacities, NEW d, InitCustomBuffer(c, d)
      PROVE  (Sequence!Duplicate(<< >>) /\ Recorded') \/ Crash
  <2>1. c \in Nat /\ << >> \in Block
    BY VectorAssumption DEF Block
  <2>2. BufferWith(<< >>, c, d)
    BY <1>3 DEF InitCustomBuffer
  <2> QED BY <2>1, <2>2, BufferWithMaps
<1>4. ASSUME NEW c \in BufferCapacities, NEW d, NEW run \in Runs,
             DuplicateCustomBuffer(run, c, d)
      PROVE  (Sequence!Duplicate(run) /\ Recorded') \/ Crash
  <2>1. c \in Nat /\ run \in Block
    BY VectorAssumption, RunsType
  <2> QED BY <1>4, <2>1, DuplicateCustomBufferMaps
<1> QED BY <1>1, <1>2, <1>3, <1>4 DEF Construct

-----------------------------------------------------------------------------
(***************************************************************************)
(* Together: what the calls rely on is invariant, and each of them does    *)
(* what its namesake of the sequence does.                                 *)
(***************************************************************************)
LEMMA CrashMaps ==
  ASSUME CallInv, Crash
  PROVE  UNCHANGED Sequence!vars /\ Recorded'
<1>1. UNCHANGED <<allocator, destructor, size, capacity, data, status, destroyed>>
  BY DEF Crash, vector, config
<1>2. Contents' = Contents
  BY <1>1 DEF Contents, Get
<1> QED BY <1>1, <1>2 DEF CallInv, Recorded, Sequence!vars

\* The step a call takes in the sequence
Mapped == Sequence!Next \/ UNCHANGED Sequence!vars

LEMMA ConstructStep ==
  ASSUME CallInv, TypeOK', Construct
  PROVE  Mapped /\ Recorded'
<1>1. CASE Crash
  BY <1>1, CrashMaps DEF Mapped
<1>2. CASE Recorded' /\ Sequence!Duplicate(<< >>)
  BY <1>2 DEF Mapped, Sequence!Next, Sequence!Create
<1>3. CASE Recorded' /\ \E run \in Runs : Sequence!Duplicate(run)
  BY <1>3 DEF Mapped, Sequence!Next, Runs
<1> QED BY <1>1, <1>2, <1>3, ConstructMaps

LEMMA IndicesCovered ==
  ASSUME TypeOK, size <= MaxSize, NEW i \in Indices
  PROVE  i \in Sequence!Indices /\ i \in Nat
BY VectorAssumption DEF TypeOK, Indices, Sequence!Indices

LEMMA InsertionStep ==
  ASSUME AllocatorFailures # "any", CallInv, TypeOK', size <= MaxSize, Insertion
  PROVE  Mapped /\ Recorded'
<1>1. ASSUME NEW e \in Element, PushBack(e)
      PROVE  Mapped /\ Recorded'
  <2>1. CASE Crash
    BY <2>1, CrashMaps DEF Mapped
  <2>2. CASE Sequence!PushBack(e) /\ Recorded'
    <3>1. TypeOK /\ data # NULL /\ size \in Nat /\ MaxSize \in Nat
      BY <1>1, VectorAssumption DEF CallInv, TypeOK, PushBack, Live
    <3>2. Len(Contents) = size
      BY <3>1, SequenceIs
    <3>3. size \in Sequence!Indices
      BY <3>1 DEF Sequence!Indices
    <3>4. Sequence!InsertRange(size, <<e>>)
      BY <2>2, <3>1, <3>2 DEF Sequence!PushBack
    <3>5. <<e>> \in [1..1 -> Element] /\ 1 \in 0..2
      OBVIOUS
    <3>6. Sequence!Next
      BY <3>3, <3>4, <3>5 DEF Sequence!Next
    <3> QED BY <2>2, <3>6 DEF Mapped
  <2> QED BY <1>1, <2>1, <2>2, PushBackMaps
<1>2. ASSUME NEW i \in Indices, NEW run \in Runs, InsertRange(i, run)
      PROVE  Mapped /\ Recorded'
  <2>1. CASE Crash
    BY <2>1, CrashMaps DEF Mapped
  <2>2. CASE Sequence!InsertRange(i, run) /\ Recorded'
    <3>1. i \in Sequence!Indices
      BY IndicesCovered DEF CallInv
    <3>2. PICK n \in 0..2 : run \in [1..n -> Element]
      BY DEF Runs
    <3> QED BY <2>2, <3>1, <3>2 DEF Mapped, Sequence!Next
  <2>3. i \in Nat /\ run \in Block
    BY IndicesCovered, RunsType DEF CallInv
  <2> QED BY <1>2, <2>1, <2>2, <2>3, InsertRangeMaps
<1>3. ASSUME NEW i \in Indices, NEW e \in Element,
             NEW c \in {"none", "succeeds", "fails"}, EmplaceEx(i, e, c)
      PROVE  Mapped /\ Recorded'
  <2>1. CASE Crash
    BY <2>1, CrashMaps DEF Mapped
  <2>2. i \in Nat /\ i \in Sequence!Indices
    BY IndicesCovered DEF CallInv
  <2>3. CASE Sequence!EmplaceEx(i, e, c) /\ Recorded'
    BY <2>2, <2>3 DEF Mapped, Sequence!Next
  <2> QED BY <1>3, <2>1, <2>2, <2>3, EmplaceExMaps
<1> QED BY <1>1, <1>2, <1>3 DEF Insertion

LEMMA ModificationStep ==
  ASSUME CallInv, TypeOK', size <= MaxSize, Modification
  PROVE  Mapped /\ Recorded'
<1>1. ASSUME NEW i \in Indices, NEW e \in Element, Set(i, e)
      PROVE  Mapped /\ Recorded'
  <2>1. CASE Crash
    BY <2>1, CrashMaps DEF Mapped
  <2>2. i \in Nat /\ i \in Sequence!Indices
    BY IndicesCovered DEF CallInv
  <2>3. CASE Sequence!Set(i, e) /\ Recorded'
    BY <2>2, <2>3 DEF Mapped, Sequence!Next
  <2> QED BY <1>1, <2>1, <2>2, <2>3, SetMaps
<1>2. ASSUME NEW i \in Indices, NEW j \in Indices, SwapElements(i, j)
      PROVE  Mapped /\ Recorded'
  <2>1. CASE Crash
    BY <2>1, CrashMaps DEF Mapped
  <2>2. /\ i \in Nat /\ i \in Sequence!Indices
        /\ j \in Nat /\ j \in Sequence!Indices
    BY IndicesCovered DEF CallInv
  <2>3. CASE Sequence!SwapElements(i, j) /\ Recorded'
    BY <2>2, <2>3 DEF Mapped, Sequence!Next
  <2> QED BY <1>2, <2>1, <2>2, <2>3, SwapElementsMaps
<1> QED BY <1>1, <1>2 DEF Modification

LEMMA DeletionStep ==
  ASSUME AllocatorFailures # "any", CallInv, TypeOK', size <= MaxSize, Deletion
  PROVE  Mapped /\ Recorded'
<1>1. ASSUME NEW i \in Indices, NEW n \in Indices, DeleteRange(i, n)
      PROVE  Mapped /\ Recorded'
  <2>1. CASE Crash
    BY <2>1, CrashMaps DEF Mapped
  <2>2. /\ i \in Nat /\ i \in Sequence!Indices
        /\ n \in Nat /\ n \in Sequence!Indices
    BY IndicesCovered DEF CallInv
  <2>3. CASE Sequence!DeleteRange(i, n) /\ Recorded'
    BY <2>2, <2>3 DEF Mapped, Sequence!Next
  <2> QED BY <1>1, <2>1, <2>2, <2>3, DeleteRangeMaps
<1>2. CASE PopBack
  <2>1. CASE Crash
    BY <2>1, CrashMaps DEF Mapped
  <2>2. CASE Sequence!PopBack /\ Recorded'
    BY <2>2 DEF Mapped, Sequence!Next
  <2> QED BY <1>2, <2>1, <2>2, PopBackMaps
<1> QED BY <1>1, <1>2 DEF Deletion

LEMMA ManagementStep ==
  ASSUME AllocatorFailures # "any", CallInv, TypeOK', Management
  PROVE  Mapped /\ Recorded'
<1>1. ASSUME NEW n \in 0..MaxSize, NEW e \in Element \cup {NULL}, ResizeEx(n, e)
      PROVE  Mapped /\ Recorded'
  <2>1. CASE Crash
    BY <2>1, CrashMaps DEF Mapped
  <2>2. n \in Nat /\ e \in Element \cup {<< >>}
    BY VectorAssumption DEF NULL
  <2>3. CASE Sequence!ResizeEx(n, e) /\ Recorded'
    BY <2>2, <2>3 DEF Mapped, Sequence!Next
  <2> QED BY <1>1, <2>1, <2>2, <2>3, ResizeExMaps
<1>2. CASE (\E n \in 0..MaxCapacity : Reserve(n)) \/ ShrinkToFit
  <2>1. (\E n \in Nat : Reserve(n)) \/ ShrinkToFit
    BY <1>2, VectorAssumption
  <2>2. Sequence!Manage /\ Recorded'
    BY <2>1, CapacityCallMaps
  <2> QED BY <2>2 DEF Mapped, Sequence!Next
<1> QED BY <1>1, <1>2 DEF Management

\* A call brings the vector to MaxSize elements at most, a construction to two.
LEMMA SizeBound ==
  ASSUME MaxSize >= 2, TypeOK, size <= MaxSize, [Next]_vars
  PROVE  size' <= MaxSize
<1>0. size \in Nat /\ MaxSize \in Nat
  BY VectorAssumption DEF TypeOK
<1>1. CASE Construct
  <2>1. ASSUME NEW elements, NEW c, NEW g, NEW t, NEW d,
               Len(elements) \in 0..2,
               InitWith(elements, c, g, t, d) \/ BufferWith(elements, c, d)
        PROVE  size' <= MaxSize
    <3>1. Len(elements) <= MaxSize /\ 0 <= MaxSize
      <4>1. PICK n \in 0..2 : Len(elements) = n
        BY <2>1
      <4>2. n <= MaxSize /\ 0 <= MaxSize
        BY <1>0
      <4> QED BY <4>1, <4>2
    <3>2. size' \in {size, 0, Len(elements)}
      <4>1. CASE BufferWith(elements, c, d)
        BY <4>1 DEF BufferWith, Refuse, Crash, vector
      <4>2. CASE InitWith(elements, c, g, t, d)
        BY <4>2 DEF InitWith, Refuse, Crash, vector
      <4> QED BY <2>1, <4>1, <4>2
    <3> QED BY <3>1, <3>2
  <2>2. \A run \in Runs : Len(run) \in 0..2
    BY DEF Runs
  <2>3. Len(<< >>) \in 0..2
    OBVIOUS
  <2>4. Refuse("INSUFFICIENT_BUFFER_SIZE") => size' <= MaxSize
    BY <1>0 DEF Refuse, vector
  <2> QED BY <1>1, <2>1, <2>2, <2>3, <2>4
          DEF Construct, InitEx, DuplicateEx, InitCustomBuffer,
              DuplicateCustomBuffer
<1>2. CASE Destroy
  BY <1>0, <1>2 DEF Destroy, Crash, vector
<1>3. CASE Insertion
  <2>1. ASSUME NEW e, PushBack(e) PROVE size' <= MaxSize
    BY <1>0, <2>1 DEF PushBack, Fail, Crash, Finish, vector
  <2>2. ASSUME NEW i, NEW run, InsertRange(i, run) PROVE size' <= MaxSize
    BY <1>0, <2>2 DEF InsertRange, Refuse, Fail, Crash, Finish, vector
  <2>3. ASSUME NEW i, NEW e, NEW c, EmplaceEx(i, e, c) PROVE size' <= MaxSize
    BY <1>0, <2>3 DEF EmplaceEx, Refuse, Fail, Crash, Finish, vector
  <2> QED BY <1>3, <2>1, <2>2, <2>3 DEF Insertion
<1>4. CASE Modification
  BY <1>0, <1>4 DEF Modification, Set, SwapElements, Refuse, Crash, vector
<1>5. CASE Deletion
  <2>1. ASSUME NEW i \in Indices, NEW n \in Indices, DeleteRange(i, n)
        PROVE  size' <= MaxSize
    <3>1. n \in Nat
      BY <1>0 DEF Indices
    <3> QED BY <1>0, <2>1, <3>1 DEF DeleteRange, Refuse, Crash, Finish, vector
  <2>2. PopBack => size' <= MaxSize
    BY <1>0 DEF PopBack, Refuse, Crash, Finish, vector
  <2> QED BY <1>5, <2>1, <2>2 DEF Deletion
<1>6. CASE Management
  <2>1. ASSUME NEW n, NEW e, ResizeEx(n, e) PROVE size' <= MaxSize
    BY <1>0, <2>1 DEF ResizeEx, Refuse, Crash, Finish, vector
  <2>2. (\E n \in 0..MaxCapacity : Reserve(n)) \/ ShrinkToFit
          => size' <= MaxSize
    BY <1>0 DEF Reserve, ShrinkToFit, Finish
  <2> QED BY <1>6, <2>1, <2>2 DEF Management
<1>7. CASE UNCHANGED vars
  BY <1>0, <1>7 DEF vars
<1> QED BY <1>1, <1>2, <1>3, <1>4, <1>5, <1>6, <1>7 DEF Next

LEMMA CallStep ==
  ASSUME AllocatorFailures # "any", CallInv, TypeOK', size <= MaxSize,
         [Next]_vars
  PROVE  Mapped /\ Recorded'
<1>1. CASE Destroy
  <2>1. CASE Crash
    BY <2>1, CrashMaps DEF Mapped
  <2>2. CASE Sequence!Destroy /\ Recorded'
    BY <2>2 DEF Mapped, Sequence!Next
  <2> QED BY <1>1, <2>1, <2>2, DestroyMaps
<1>2. CASE UNCHANGED vars
  <2>1. Contents' = Contents
    BY <1>2 DEF vars, Contents, Get
  <2> QED BY <1>2, <2>1 DEF vars, CallInv, Recorded, Mapped, Sequence!vars
<1> QED BY <1>1, <1>2, ConstructStep, InsertionStep, ModificationStep,
           DeletionStep, ManagementStep DEF Next

\* Recorded is preserved whatever size the model's bound allows.
LEMMA CallInvariant ==
  ASSUME AllocatorFailures # "any", MaxSize >= 2
  PROVE  Spec => [](CallInv /\ size <= MaxSize)
<1>1. Init => CallInv /\ size <= MaxSize
  BY InitType, VectorAssumption DEF Init, CallInv, Configured, Recorded
<1>2. CallInv /\ size <= MaxSize /\ [Next]_vars => (CallInv /\ size <= MaxSize)'
  BY CallStep, SizeBound, ConfiguredStep, NextType DEF CallInv
<1> QED BY <1>1, <1>2, PTL DEF Spec

(***************************************************************************)
(* ZyanVector implements ElementSequence: an initialised vector is a       *)
(* sequence of elements, and whatever the block, the capacity and the      *)
(* policies do, a call of Vector.c is one call of the sequence, or leaves  *)
(* it alone.  It does not hold of an allocator that may refuse even to     *)
(* make a block smaller: Resize then records a capacity below its size,    *)
(* and a later Reserve moves fewer elements than there are.  MaxSize       *)
(* bounds the exploration: a construction can give a vector two elements,  *)
(* so that a smaller bound is exceeded at once.                            *)
(***************************************************************************)
THEOREM VectorImplementsSequence ==
  ASSUME AllocatorFailures # "any", MaxSize >= 2
  PROVE  Spec => ImplementsSequence
<1>1. Init => Sequence!Init
  BY DEF Init, Sequence!Init, NULL
<1>2. CallInv /\ size <= MaxSize /\ (CallInv /\ size <= MaxSize)' /\ [Next]_vars
        => [Sequence!Next]_(Sequence!vars)
  <2>1. ASSUME CallInv, size <= MaxSize, TypeOK', [Next]_vars
        PROVE  [Sequence!Next]_(Sequence!vars)
    BY <2>1, CallStep DEF Mapped
  <2> QED BY <2>1 DEF CallInv
<1> QED BY <1>1, <1>2, CallInvariant, PTL
        DEF Spec, ImplementsSequence, Sequence!Spec

\* Whichever call is made, the sequence's call of the same name and arguments
\* is the one that describes what it did.
Implements ==
  ~overrun' =>
     /\ \A e \in Element : PushBack(e) => Sequence!PushBack(e)
     /\ \A i \in Indices, run \in Runs :
          InsertRange(i, run) => Sequence!InsertRange(i, run)
     /\ \A i \in Indices, e \in Element, c \in {"none", "succeeds", "fails"} :
          EmplaceEx(i, e, c) => Sequence!EmplaceEx(i, e, c)
     /\ \A i \in Indices, e \in Element : Set(i, e) => Sequence!Set(i, e)
     /\ \A i, j \in Indices :
          /\ SwapElements(i, j) => Sequence!SwapElements(i, j)
          /\ DeleteRange(i, j) => Sequence!DeleteRange(i, j)
     /\ PopBack => Sequence!PopBack
     /\ \A n \in 0..MaxSize, e \in Element \cup {NULL} :
          ResizeEx(n, e) => Sequence!ResizeEx(n, e)
     /\ \A run \in Runs, c \in Capacities, g \in GrowthFactors,
            t \in ShrinkThresholds, d \in Destructors :
          DuplicateEx(run, c, g, t, d) => Sequence!Duplicate(run)
     /\ \A run \in Runs, c \in BufferCapacities, d \in Destructors :
          DuplicateCustomBuffer(run, c, d) => Sequence!Duplicate(run)
     /\ Destroy => Sequence!Destroy

LEMMA CallsMap ==
  ASSUME AllocatorFailures # "any", CallInv, TypeOK'
  PROVE  Implements
<1> SUFFICES ASSUME ~overrun' PROVE Implements
  BY DEF Implements
<1>0. ~Crash
  BY DEF Crash
<1>1. \A i \in Indices : i \in Nat
  BY DEF Indices, CallInv, TypeOK
<1>2. ASSUME NEW e \in Element, PushBack(e) PROVE Sequence!PushBack(e)
  BY <1>0, <1>2, PushBackMaps
<1>3. ASSUME NEW i \in Indices, NEW run \in Runs, InsertRange(i, run)
      PROVE  Sequence!InsertRange(i, run)
  BY <1>0, <1>1, <1>3, RunsType, InsertRangeMaps
<1>4. ASSUME NEW i \in Indices, NEW e \in Element,
             NEW c \in {"none", "succeeds", "fails"}, EmplaceEx(i, e, c)
      PROVE  Sequence!EmplaceEx(i, e, c)
  BY <1>0, <1>1, <1>4, EmplaceExMaps
<1>5. ASSUME NEW i \in Indices, NEW e \in Element, Set(i, e)
      PROVE  Sequence!Set(i, e)
  BY <1>0, <1>1, <1>5, SetMaps
<1>6. ASSUME NEW i \in Indices, NEW j \in Indices, SwapElements(i, j)
      PROVE  Sequence!SwapElements(i, j)
  BY <1>0, <1>1, <1>6, SwapElementsMaps
<1>7. ASSUME NEW i \in Indices, NEW j \in Indices, DeleteRange(i, j)
      PROVE  Sequence!DeleteRange(i, j)
  BY <1>0, <1>1, <1>7, DeleteRangeMaps
<1>8. PopBack => Sequence!PopBack
  BY <1>0, PopBackMaps
<1>9. ASSUME NEW n \in 0..MaxSize, NEW e \in Element \cup {NULL}, ResizeEx(n, e)
      PROVE  Sequence!ResizeEx(n, e)
  BY <1>0, <1>9, VectorAssumption, ResizeExMaps
<1>10. ASSUME NEW run \in Runs, NEW c \in Capacities, NEW g, NEW t, NEW d,
              DuplicateEx(run, c, g, t, d)
       PROVE  Sequence!Duplicate(run)
  <2>1. c \in Nat /\ run \in Block
    BY VectorAssumption, RunsType
  <2> QED BY <1>0, <1>10, <2>1, DuplicateExMaps
<1>11. ASSUME NEW run \in Runs, NEW c \in BufferCapacities, NEW d,
              DuplicateCustomBuffer(run, c, d)
       PROVE  Sequence!Duplicate(run)
  <2>1. c \in Nat /\ run \in Block
    BY VectorAssumption, RunsType
  <2> QED BY <1>0, <1>11, <2>1, DuplicateCustomBufferMaps
<1>12. Destroy => Sequence!Destroy
  BY <1>0, DestroyMaps
<1> QED BY <1>2, <1>3, <1>4, <1>5, <1>6, <1>7, <1>8, <1>9, <1>10, <1>11, <1>12
        DEF Implements

(***************************************************************************)
(* Each call does what its namesake of the sequence does: it splices in    *)
(* what it was given where it was told to, answers what it should, and     *)
(* destroys the elements that leave, in order and no others.               *)
(***************************************************************************)
THEOREM CallsAreSequenceCalls ==
  ASSUME AllocatorFailures # "any", MaxSize >= 2
  PROVE  Spec => CallsImplement
<1>1. CallInv /\ CallInv' /\ [Next]_vars => [Implements]_vars
  BY CallsMap DEF CallInv
<1> QED BY <1>1, CallInvariant, PTL DEF Spec, CallsImplement, Implements
=============================================================================
