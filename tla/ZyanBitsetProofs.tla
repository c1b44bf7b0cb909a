-------------------------- MODULE ZyanBitsetProofs --------------------------
(***************************************************************************)
(* Type correctness of the bitset, that no call costs it a byte its bits   *)
(* need, that a call which reports an error leaves the bits alone, that    *)
(* the calls do to the bits what those of a string of bits do, and that    *)
(* the count, made of pairwise sums in each byte, misses no bit.           *)
(*                                                                         *)
(* The bytes are kept as long as a bitset is not popped when it is empty,  *)
(* which counts its size around to the largest number, and its memory      *)
(* grows, whatever its size: in a buffer that is full it counts a bit that *)
(* has no byte.  They are those the bits need if it is made with a whole   *)
(* number of bytes, too: made with four bits a bitset has no byte at all.  *)
(* What is said of the calls is said of a bitset that has its bytes, and   *)
(* needs them of the second operand of a bytewise call (SourcesFit).       *)
(***************************************************************************)
EXTENDS ZyanBitsetCount, SequenceTheorems, FiniteSetTheorems, TLAPS

\* The assumptions about the callers
NoEmptyPops == PopsEmpty = FALSE
WholeBytes == \A n \in Counts : n % 8 = 0

\* A bitset with memory of its own
OnHeap == live /\ capacity = Dynamic

\* What the steps rely on: the size never wraps, and there is no byte too many
FitInv == size <= MaxBits /\ (OnHeap => Missing >= 0)

\* ZyanUSize wraps around into its range, and not at all below the bound.
LEMMA WordInRange == \A n \in Int : Word(n) \in 0..(USizeRange - 1)
BY BitsetAssumption DEF Word

LEMMA WordIsItself == \A n \in 0..MaxBits : Word(n) = n
BY BitsetAssumption DEF Word

\* The numbers the model computes with
LEMMA Numbers == /\ 0 \in 0..(USizeRange - 1) /\ USizeRange \in Nat /\ MaxBits \in Nat
                 /\ 0..MaxBits \subseteq 0..(USizeRange - 1)
                 /\ Counts \subseteq 0..MaxBits
                 /\ Buffers \subseteq Nat \cup {Dynamic}
BY BitsetAssumption

LEMMA NoBytes == << >> \in Seq(Byte) /\ Len(<< >>) = 0
OBVIOUS

\* Replacing a byte keeps the number of bytes, and their type.
LEMMA ReplacedByte ==
  ASSUME NEW bs \in Seq(Byte), NEW i \in 1..Len(bs), NEW byte \in Byte
  PROVE  /\ [bs EXCEPT ![i] = byte] \in Seq(Byte)
         /\ Len([bs EXCEPT ![i] = byte]) = Len(bs)
OBVIOUS

\* So does a call that works on one bit, whatever the index.
Keeps(r, bs) == /\ r.bytes \in Seq(Byte) /\ Len(r.bytes) = Len(bs)
                /\ r.status \in {"SUCCESS", "OUT_OF_RANGE"}

LEMMA WrittenKeeps ==
  ASSUME NEW bs \in Seq(Byte), NEW n \in Nat, NEW index \in Nat
  PROVE  /\ Keeps(Written(bs, n, index, SetBit), bs)
         /\ Keeps(Written(bs, n, index, ResetBit), bs)
         /\ Keeps(Written(bs, n, index, ToggleBit), bs)
<1> DEFINE i == index \div 8 + 1
           Outside == index >= n \/ index \div 8 >= Len(bs)
<1>1. CASE Outside
  BY <1>1 DEF Written, Keeps
<1>2. CASE ~Outside
  <2>1. i \in 1..Len(bs)
    BY <1>2
  <2>2. Bit(index) \in 0..7
    BY DEF Bit
  <2>3. bs[i] \in Byte
    BY <2>1
  <2>4. /\ SetBit(bs[i], Bit(index)) \in Byte
        /\ ResetBit(bs[i], Bit(index)) \in Byte
        /\ ToggleBit(bs[i], Bit(index)) \in Byte
    BY <2>2, <2>3 DEF SetBit, ResetBit, ToggleBit, Byte
  <2>5. Keeps(Written(bs, n, index, SetBit), bs)
    BY <1>2, <2>1, <2>4, ReplacedByte DEF Written, Keeps
  <2>6. Keeps(Written(bs, n, index, ResetBit), bs)
    BY <1>2, <2>1, <2>4, ReplacedByte DEF Written, Keeps
  <2>7. Keeps(Written(bs, n, index, ToggleBit), bs)
    BY <1>2, <2>1, <2>4, ReplacedByte DEF Written, Keeps
  <2> QED BY <2>5, <2>6, <2>7
<1> QED BY <1>1, <1>2

LEMMA AssignedKeeps ==
  ASSUME NEW bs \in Seq(Byte), NEW n \in Nat, NEW index \in Nat, NEW v \in BOOLEAN
  PROVE  Keeps(Assigned(bs, n, index, v), bs)
BY WrittenKeeps DEF Assigned

-----------------------------------------------------------------------------
\* Most calls leave as many bytes as there were.
SameLength == /\ bytes' \in Seq(Byte) /\ Len(bytes') = Len(bytes)
              /\ UNCHANGED <<size, capacity, live>>

LEMMA AccessKeeps == ASSUME TypeOK, Access PROVE SameLength /\ TypeOK'
<1>1. PICK i \in Indices : \/ Set(i) \/ Reset(i) \/ Toggle(i) \/ Test(i)
                           \/ \E v \in BOOLEAN : Assign(i, v)
  BY DEF Access
<1>2. i \in Nat /\ size \in Nat /\ bytes \in Seq(Byte)
  BY BitsetAssumption DEF TypeOK
<1>3. ASSUME NEW r, Keeps(r, bytes), Store(r) PROVE SameLength /\ TypeOK'
  BY <1>3 DEF TypeOK, Keeps, Store, SameLength
<1>4. CASE Set(i) \/ Reset(i) \/ Toggle(i)
  BY <1>2, <1>3, <1>4, WrittenKeeps DEF Set, Reset, Toggle
<1>5. CASE Test(i)
  BY <1>5 DEF Test, Answer, TypeOK, SameLength
<1>6. CASE \E v \in BOOLEAN : Assign(i, v)
  BY <1>2, <1>3, <1>6, AssignedKeeps DEF Assign
<1> QED BY <1>1, <1>4, <1>5, <1>6

LEMMA BytewiseKeeps == ASSUME TypeOK, Bytewise PROVE SameLength /\ TypeOK'
<1>1. ASSUME NEW bs \in Seq(Byte), Len(bs) = Len(bytes), Become(bs)
      PROVE  SameLength /\ TypeOK'
  BY <1>1 DEF TypeOK, Become, SameLength
<1>2. CASE SetAll
  BY <1>1, <1>2 DEF SetAll, EachByte, TypeOK, Byte
<1>3. CASE ResetAll
  BY <1>1, <1>3 DEF ResetAll, EachByte, TypeOK, Byte
<1>4. CASE Flip
  BY <1>1, <1>4 DEF Flip, EachByte, TypeOK, Byte
<1>5. ASSUME NEW s \in Sources,
             AND(s) \/ OR(s) \/ XOR(s)
      PROVE  SameLength /\ TypeOK'
  <2>1. s.bytes \in Seq(Byte) /\ bytes \in Seq(Byte)
    BY BitsetAssumption DEF TypeOK, Byte
  <2>2. ASSUME NEW v1 \in Byte, NEW v2 \in Byte
        PROVE  /\ OperationAND(v1, v2) \in Byte /\ OperationOR(v1, v2) \in Byte
               /\ OperationXOR(v1, v2) \in Byte
    BY DEF OperationAND, OperationOR, OperationXOR, Byte
  <2>3. CASE AND(s)
    BY <1>1, <2>1, <2>2, <2>3 DEF AND, PerformByteOperation
  <2>4. CASE OR(s)
    BY <1>1, <2>1, <2>2, <2>4 DEF OR, PerformByteOperation
  <2>5. CASE XOR(s)
    BY <1>1, <2>1, <2>2, <2>5 DEF XOR, PerformByteOperation
  <2> QED BY <1>5, <2>3, <2>4, <2>5
<1> QED BY <1>2, <1>3, <1>4, <1>5 DEF Bytewise

LEMMA QueryKeeps == ASSUME TypeOK, Query PROVE SameLength /\ TypeOK'
BY DEF Query, TestMSB, TestLSB, Test, Check, Answer, TypeOK, SameLength

\* Zero bytes, as many as asked for
LEMMA ZerosType == \A n \in Nat : Zeros(n) \in Seq(Byte) /\ Len(Zeros(n)) = n
BY DEF Zeros, Byte

LEMMA BitsToBytesNat == \A n \in Nat : BitsToBytes(n) \in Nat
BY DEF BitsToBytes

-----------------------------------------------------------------------------
\* Pushing a bit leaves typed bytes; how many, PushFits says.
LEMMA PushType == ASSUME TypeOK, NEW v \in BOOLEAN, Push(v) PROVE TypeOK'
<1> DEFINE grown == IF size % 8 = 0 THEN Append(bytes, {}) ELSE bytes
           index == Word(Word(size + 1) - 1)
<1>1. grown \in Seq(Byte)
  BY DEF TypeOK, Byte
<1>2. size' = Word(size + 1) /\ size' \in 0..(USizeRange - 1)
  BY WordInRange DEF Push, TypeOK
<1>3. index \in Nat /\ Word(size + 1) \in Nat
  BY <1>2, WordInRange
<1>4. Keeps(Assigned(grown, Word(size + 1), index, v), grown)
  BY <1>1, <1>3, AssignedKeeps
<1>5. \/ bytes' = Assigned(grown, Word(size + 1), index, v).bytes
         /\ status' = Assigned(grown, Word(size + 1), index, v).status
      \/ bytes' = bytes /\ status' = "INSUFFICIENT_BUFFER_SIZE"
  BY DEF Push
<1>6. bytes' \in Seq(Byte) /\ status' \in {"SUCCESS", "OUT_OF_RANGE",
                                          "INSUFFICIENT_BUFFER_SIZE"}
  BY <1>4, <1>5 DEF Keeps, TypeOK
<1>7. UNCHANGED <<capacity, live>>
  BY DEF Push
<1> QED BY <1>2, <1>6, <1>7 DEF TypeOK

LEMMA TypeInit == Init => TypeOK
BY Numbers, NoBytes DEF Init, TypeOK

LEMMA TypeStep == TypeOK /\ [Next]_vars => TypeOK'
<1> SUFFICES ASSUME TypeOK, [Next]_vars PROVE TypeOK'
  OBVIOUS
<1>1. CASE Construct
  <2>0. ASSUME NEW n \in Counts
        PROVE  n \in 0..(USizeRange - 1) /\ Zeros(BitsToBytes(n)) \in Seq(Byte)
    <3>1. n \in 0..(USizeRange - 1) /\ n \in Nat
      BY Numbers
    <3> QED BY <3>1, ZerosType, BitsToBytesNat
  <2>1. ASSUME NEW n \in Counts, NEW g \in {0, 2}, InitEx(n, g) PROVE TypeOK'
    BY <2>0, <2>1 DEF InitEx, TypeOK
  <2>2. ASSUME NEW n \in Counts, NEW c \in Buffers \ {Dynamic}, InitBuffer(n, c)
        PROVE  TypeOK'
    BY <2>0, <2>2, Numbers DEF InitBuffer, Answer, TypeOK
  <2> QED BY <1>1, <2>1, <2>2 DEF Construct
<1>2. CASE Destroy
  BY <1>2, NoBytes DEF Destroy, TypeOK
<1>3. CASE Access
  BY <1>3, AccessKeeps
<1>4. CASE Bytewise
  BY <1>4, BytewiseKeeps
<1>5. CASE Resize
  <2>1. ASSUME NEW v \in BOOLEAN, Push(v) PROVE TypeOK'
    BY <2>1, PushType
  <2>2. CASE Pop
    <3>1. size' \in 0..(USizeRange - 1)
      BY <2>2, WordInRange DEF Pop, TypeOK
    <3>2. bytes' \in Seq(Byte)
      BY <2>2 DEF Pop, TypeOK
    <3> QED BY <2>2, <3>1, <3>2 DEF Pop, TypeOK
  <2>3. CASE Clear
    BY <2>3, Numbers, NoBytes DEF Clear, TypeOK
  <2>4. CASE ShrinkToFit \/ \E n \in Counts : Reserve(n)
    BY <2>4 DEF ShrinkToFit, Reserve, Answer, TypeOK
  <2> QED BY <1>5, <2>1, <2>2, <2>3, <2>4 DEF Resize
<1>6. CASE Query
  BY <1>6, QueryKeeps
<1>7. CASE UNCHANGED vars
  BY <1>7 DEF vars, TypeOK
<1> QED BY <1>1, <1>2, <1>3, <1>4, <1>5, <1>6, <1>7 DEF Next

\* Every reachable state of a bitset is well typed: in particular its size
\* wraps around where ZyanUSize does, and its bytes stay bytes.
THEOREM TypeCorrect == Spec => []TypeOK
<1>1. Init => TypeOK
  BY TypeInit
<1>2. TypeOK /\ [Next]_vars => TypeOK'
  BY TypeStep
<1> QED BY <1>1, <1>2, PTL DEF Spec

-----------------------------------------------------------------------------
\* The bytes a bitset is short of, by its variables
LEMMA MissingIs ==
  /\ Missing = (size + 7) \div 8 - Len(bytes)
  /\ Missing' = (size' + 7) \div 8 - Len(bytes')
BY DEF Missing, GetSize, GetSizeBytes

\* A push takes the byte its bit needs, and no other.
LEMMA PushFits ==
  ASSUME TypeOK, OnHeap, NEW v \in BOOLEAN, Push(v)
  PROVE  Missing' = Missing
<1> DEFINE grown == IF size % 8 = 0 THEN Append(bytes, {}) ELSE bytes
<1>1. size \in Nat /\ bytes \in Seq(Byte) /\ size < MaxBits
  BY DEF TypeOK, Push
<1>2. Word(size + 1) = size + 1 /\ Word(Word(size + 1) - 1) = size
  BY <1>1, WordIsItself, BitsetAssumption
<1>3. grown \in Seq(Byte)
  BY <1>1 DEF Byte
<1>4. Keeps(Assigned(grown, size + 1, size, v), grown)
  <2>1. size + 1 \in Nat /\ size \in Nat
    BY <1>1
  <2> HIDE DEF grown
  <2> QED BY <1>3, <2>1, AssignedKeeps
<1>5. size' = size + 1 /\ bytes' = Assigned(grown, size + 1, size, v).bytes
  BY <1>1, <1>2 DEF Push, Full, OnHeap
<1>6. Len(bytes') = Len(grown)
  BY <1>4, <1>5 DEF Keeps
<1>7. CASE size % 8 = 0
  <2>1. Len(grown) = Len(bytes) + 1
    BY <1>1, <1>7
  <2>2. (size + 8) \div 8 = (size + 7) \div 8 + 1
    BY <1>1, <1>7
  <2>3. Len(bytes) \in Nat
    BY <1>1
  <2> HIDE DEF grown
  <2> QED BY <1>1, <1>5, <1>6, <2>1, <2>2, <2>3, MissingIs
<1>8. CASE size % 8 # 0
  <2>1. Len(grown) = Len(bytes)
    BY <1>8
  <2>2. (size + 8) \div 8 = (size + 7) \div 8
    BY <1>1, <1>8
  <2> HIDE DEF grown
  <2> QED BY <1>1, <1>5, <1>6, <2>1, <2>2, MissingIs
<1> QED BY <1>7, <1>8

\* A pop gives back the byte that holds no bit any more; one that finds no
\* byte to give back is short of one less.
LEMMA PopFits ==
  ASSUME NoEmptyPops, TypeOK, FitInv, OnHeap, Pop
  PROVE  Missing' \in 0..Missing
<1>1. size \in Nat /\ size > 0 /\ bytes \in Seq(Byte) /\ size <= MaxBits
  BY DEF TypeOK, Pop, NoEmptyPops, FitInv
<1>2. size' = size - 1
  BY <1>1, WordIsItself, BitsetAssumption DEF Pop
<1>3. Missing \in Nat
  <2>1. (size + 7) \div 8 - Len(bytes) \in Int
    BY <1>1
  <2> QED BY <2>1, MissingIs DEF FitInv
<1>4. CASE size' % 8 # 0
  <2>1. bytes' = bytes
    BY <1>4 DEF Pop
  <2>2. (size - 1 + 7) \div 8 = (size + 7) \div 8
    BY <1>1, <1>2, <1>4
  <2>3. Missing' = Missing
    BY <1>2, <2>1, <2>2, MissingIs
  <2> QED BY <1>3, <2>3
<1>5. CASE size' % 8 = 0
  <2>1. (size - 1 + 7) \div 8 = (size + 7) \div 8 - 1 /\ (size + 7) \div 8 \in Nat \ {0}
    BY <1>1, <1>2, <1>5
  <2>2. CASE bytes = << >>
    <3>1. Len(bytes) = 0 /\ Len(bytes') = 0
      BY <1>5, <2>2 DEF Pop
    <3>2. Missing' = Missing - 1 /\ Missing # 0
      BY <1>2, <2>1, <3>1, MissingIs
    <3> QED BY <1>3, <3>2
  <2>3. CASE bytes # << >>
    <3>1. bytes' = [i \in 1..(Len(bytes) - 1) |-> bytes[i]]
      BY <1>5, <2>3 DEF Pop
    <3>2. Len(bytes) \in Nat \ {0}
      BY <1>1, <2>3
    <3>3. Len(bytes') = Len(bytes) - 1
      BY <3>1, <3>2
    <3>4. Missing' = Missing
      BY <1>2, <2>1, <3>2, <3>3, MissingIs
    <3> QED BY <1>3, <3>4
  <2> QED BY <2>2, <2>3
<1> QED BY <1>4, <1>5

\* What a step does to the number of bytes a bitset is short of
KeepsBytes == live /\ live' /\ capacity = Dynamic => Missing' \in 0..Missing

StepFits == /\ size' <= MaxBits
            /\ KeepsBytes
            /\ live /\ live' => capacity' = capacity
            /\ ~live /\ live' /\ capacity' = Dynamic =>
                 Missing' >= 0 /\ (WholeBytes => Missing' = 0)

LEMMA FitStep ==
  ASSUME NoEmptyPops
  PROVE  TypeOK /\ FitInv /\ [Next]_vars => StepFits
<1> SUFFICES ASSUME TypeOK, FitInv, [Next]_vars PROVE StepFits
  OBVIOUS
<1>0. size \in Nat /\ Len(bytes) \in Nat /\ size <= MaxBits /\ MaxBits \in Nat
  BY Numbers DEF TypeOK, FitInv
<1>a. Missing \in Int /\ (OnHeap => Missing \in Nat)
  BY <1>0, MissingIs DEF FitInv
<1>b. ASSUME SameLength PROVE StepFits
  <2>1. Missing' = Missing /\ size' = size /\ capacity' = capacity /\ live' = live
    BY <1>b, MissingIs DEF SameLength
  <2> QED BY <1>0, <1>a, <2>1 DEF StepFits, KeepsBytes, OnHeap
<1>1. CASE Construct
  <2>1. PICK n \in Counts : \/ \E g \in {0, 2} : InitEx(n, g)
                            \/ \E c \in Buffers \ {Dynamic} : InitBuffer(n, c)
    BY <1>1 DEF Construct
  <2>2. n \in Nat /\ n <= MaxBits
    BY BitsetAssumption
  <2>3. Len(Zeros(BitsToBytes(n))) = n \div 8
    BY <2>2, ZerosType, BitsToBytesNat DEF BitsToBytes
  <2>4. ~live /\ size' <= MaxBits
    BY <1>0, <2>1, <2>2 DEF InitEx, InitBuffer, Answer
  <2>5. ASSUME live', capacity' = Dynamic
        PROVE  size' = n /\ Len(bytes') = n \div 8
    BY <2>1, <2>3, <2>4, <2>5 DEF InitEx, InitBuffer, Answer
  <2>6. /\ (n + 7) \div 8 - n \div 8 >= 0
        /\ n % 8 = 0 => (n + 7) \div 8 - n \div 8 = 0
    BY <2>2
  <2>7. WholeBytes => n % 8 = 0
    BY DEF WholeBytes
  <2> QED BY <2>4, <2>5, <2>6, <2>7, MissingIs DEF StepFits, KeepsBytes
<1>2. CASE Destroy
  BY <1>0, <1>2 DEF Destroy, StepFits, KeepsBytes
<1>3. CASE Access \/ Bytewise \/ Query
  BY <1>b, <1>3, AccessKeeps, BytewiseKeeps, QueryKeeps
<1>4. CASE Resize
  <2>1. ASSUME NEW v \in BOOLEAN, Push(v) PROVE StepFits
    <3>1. size' = size + 1 /\ size < MaxBits /\ live /\ UNCHANGED <<capacity, live>>
      BY <1>0, <2>1, WordIsItself DEF Push
    <3>2. OnHeap => Missing' = Missing
      BY <2>1, PushFits
    <3> QED BY <1>0, <1>a, <3>1, <3>2 DEF StepFits, KeepsBytes, OnHeap
  <2>2. CASE Pop
    <3>1. size > 0 /\ live /\ UNCHANGED <<capacity, live>>
      BY <1>0, <2>2 DEF Pop, NoEmptyPops
    <3>2. size' = size - 1
      BY <1>0, <2>2, <3>1, WordIsItself DEF Pop
    <3>3. OnHeap => Missing' \in 0..Missing
      BY <2>2, PopFits
    <3> QED BY <1>0, <3>1, <3>2, <3>3 DEF StepFits, KeepsBytes, OnHeap
  <2>3. CASE Clear
    <3>1. size' = 0 /\ Len(bytes') = 0 /\ live /\ UNCHANGED <<capacity, live>>
      BY <2>3 DEF Clear
    <3>2. Missing' = 0
      BY <3>1, MissingIs
    <3> QED BY <1>0, <1>a, <3>1, <3>2 DEF StepFits, KeepsBytes, OnHeap
  <2>4. CASE ShrinkToFit \/ \E n \in Counts : Reserve(n)
    BY <1>b, <2>4 DEF ShrinkToFit, Reserve, Answer, SameLength, TypeOK
  <2> QED BY <1>4, <2>1, <2>2, <2>3, <2>4 DEF Resize
<1>5. CASE UNCHANGED vars
  BY <1>b, <1>5 DEF vars, SameLength, TypeOK
<1> QED BY <1>1, <1>2, <1>3, <1>4, <1>5 DEF Next

LEMMA FitInit == Init => FitInv
BY Numbers DEF Init, FitInv, OnHeap

LEMMA FitKept ==
  ASSUME NoEmptyPops
  PROVE  TypeOK /\ FitInv /\ [Next]_vars => FitInv'
<1> SUFFICES ASSUME TypeOK, FitInv, [Next]_vars PROVE FitInv'
  OBVIOUS
<1>1. StepFits
  BY FitStep
<1>2. live \in BOOLEAN
  BY DEF TypeOK
<1>3. ASSUME OnHeap' PROVE Missing' >= 0
  <2>1. CASE live
    <3>1. Missing' \in 0..Missing
      BY <1>1, <1>3, <2>1 DEF StepFits, KeepsBytes, OnHeap
    <3> QED BY <3>1
  <2>2. CASE ~live
    BY <1>1, <1>3, <2>2 DEF StepFits, OnHeap
  <2> QED BY <2>1, <2>2
<1> QED BY <1>1, <1>3 DEF FitInv, StepFits

\* Whatever a bitset was made with and whatever its size, no call takes a byte
\* its bits need or leaves one they do not need: it is never short of more
\* bytes than before.  It must not be popped when it is empty.
THEOREM BytesNeverLost == ASSUME NoEmptyPops PROVE Spec => BytesKept
<1>1. Init => TypeOK /\ FitInv
  BY TypeInit, FitInit
<1>2. TypeOK /\ FitInv /\ [Next]_vars => TypeOK' /\ FitInv'
  BY TypeStep, FitKept
<1>3. TypeOK /\ FitInv /\ [Next]_vars => [KeepsBytes]_vars
  BY FitStep DEF StepFits
<1>4. [KeepsBytes]_vars
        <=> [live /\ live' /\ capacity = Dynamic => Missing' \in 0..Missing]_vars
  BY DEF KeepsBytes
<1> QED BY <1>1, <1>2, <1>3, <1>4, PTL DEF Spec, BytesKept

\* If it is made with whole bytes, too, it always has exactly the bytes its
\* bits need, after any pushes, pops and clears.
THEOREM BytesAlwaysFit == ASSUME NoEmptyPops, WholeBytes PROVE Spec => []BytesFit
<1>0. /\ TypeOK => (BytesFit <=> (OnHeap => Missing = 0))
      /\ TypeOK' => (BytesFit' <=> (OnHeap' => Missing' = 0))
  <2>1. \A m, n \in Int : m - n = 0 <=> n = m
    OBVIOUS
  <2>2. TypeOK => (BytesFit <=> (OnHeap => Missing = 0))
    <3>1. TypeOK => (size + 7) \div 8 \in Int /\ Len(bytes) \in Int
      BY DEF TypeOK
    <3> QED BY <2>1, <3>1, MissingIs DEF BytesFit, OnHeap, GetSize, GetSizeBytes
  <2>3. TypeOK' => (BytesFit' <=> (OnHeap' => Missing' = 0))
    <3>1. TypeOK' => (size' + 7) \div 8 \in Int /\ Len(bytes') \in Int
      BY DEF TypeOK
    <3> QED BY <2>1, <3>1, MissingIs DEF BytesFit, OnHeap, GetSize, GetSizeBytes
  <2> QED BY <2>2, <2>3
<1>1. Init => TypeOK /\ FitInv /\ BytesFit
  BY TypeInit, FitInit DEF Init, BytesFit
<1>2. TypeOK /\ FitInv /\ [Next]_vars => TypeOK' /\ FitInv'
  BY TypeStep, FitKept
<1>3. TypeOK /\ FitInv /\ BytesFit /\ [Next]_vars => BytesFit'
  <2> SUFFICES ASSUME TypeOK, FitInv, BytesFit, [Next]_vars, OnHeap'
               PROVE  Missing' = 0
    BY <1>0, <1>2
  <2>1. StepFits
    BY FitStep
  <2>2. CASE live
    <3>1. OnHeap /\ Missing' \in 0..Missing
      BY <2>1, <2>2 DEF StepFits, KeepsBytes, OnHeap
    <3>2. Missing = 0
      BY <1>0, <3>1
    <3> QED BY <3>1, <3>2
  <2>3. CASE ~live
    BY <2>1, <2>3 DEF StepFits, OnHeap
  <2> QED BY <2>2, <2>3
<1> QED BY <1>1, <1>2, <1>3, PTL DEF Spec

-----------------------------------------------------------------------------
(***************************************************************************)
(* The bits a call leaves                                                  *)
(***************************************************************************)

\* A bit is found by its byte and its place in the byte.
LEMMA Places ==
  ASSUME NEW i \in Nat, NEW j \in Nat
  PROVE  /\ i \div 8 \in Nat /\ Bit(i) \in 0..7
         /\ i \div 8 = j \div 8 /\ Bit(i) = Bit(j) => i = j
BY DEF Bit

\* Replacing the byte of a bit by one that differs in that bit alone
LEMMA ReplacedBits ==
  ASSUME NEW bs \in Seq(Byte), NEW index \in Nat, index \div 8 < Len(bs),
         NEW byte \in Byte,
         \A k \in 0..7 : k # Bit(index) => (k \in byte <=> k \in bs[index \div 8 + 1])
  PROVE  \A i \in Nat :
           BitOf([bs EXCEPT ![index \div 8 + 1] = byte], i)
             <=> IF i = index THEN Bit(index) \in byte ELSE BitOf(bs, i)
<1> DEFINE p == index \div 8 + 1
           new == [bs EXCEPT ![p] = byte]
<1>1. Len(bs) \in Nat /\ p \in 1..Len(bs)
  BY Places
<1>2. /\ Len(new) = Len(bs) /\ new[p] = byte
      /\ \A q \in 1..Len(bs) : q # p => new[q] = bs[q]
  BY <1>1
<1> HIDE DEF new
<1> SUFFICES ASSUME NEW i \in Nat
             PROVE  BitOf(new, i) <=> IF i = index THEN Bit(index) \in byte
                                                   ELSE BitOf(bs, i)
  BY DEF new
<1>3. CASE i = index
  BY <1>2, <1>3 DEF BitOf
<1>4. CASE i # index /\ i \div 8 = index \div 8
  <2>1. Bit(i) \in 0..7 /\ Bit(i) # Bit(index)
    BY <1>4, Places
  <2> QED BY <1>2, <1>4, <2>1 DEF BitOf
<1>5. CASE i # index /\ i \div 8 # index \div 8
  <2>1. PICK q \in Nat : q = i \div 8
    BY Places
  <2>2. PICK r \in Nat : r = index \div 8
    BY Places
  <2>3. q < Len(bs) => q + 1 \in 1..Len(bs) /\ q + 1 # r + 1
    BY <1>1, <1>5, <2>1, <2>2
  <2>4. q < Len(bs) => new[q + 1] = bs[q + 1]
    BY <1>2, <2>2, <2>3
  <2>5. BitOf(new, i) <=> BitOf(bs, i)
    BY <1>2, <2>1, <2>4 DEF BitOf
  <2> QED BY <1>5, <2>5
<1> QED BY <1>3, <1>4, <1>5

\* What a call that works on one bit makes of the bits
Turned(bs, index, r, bit) ==
  r.status = "SUCCESS" /\ \A i \in Nat : BitOf(r.bytes, i)
                                           <=> IF i = index THEN bit ELSE BitOf(bs, i)

LEMMA WrittenBits ==
  ASSUME NEW bs \in Seq(Byte), NEW n \in Nat, NEW index \in Nat, index < n,
         index \div 8 < Len(bs)
  PROVE  /\ Turned(bs, index, Written(bs, n, index, SetBit), TRUE)
         /\ Turned(bs, index, Written(bs, n, index, ResetBit), FALSE)
         /\ Turned(bs, index, Written(bs, n, index, ToggleBit), ~BitOf(bs, index))
<1> DEFINE p == index \div 8 + 1
           b == Bit(index)
<1>1. p \in 1..Len(bs) /\ b \in 0..7 /\ bs[p] \in Byte
  BY Places
<1>2. ~(index >= n \/ index \div 8 >= Len(bs))
  BY <1>1
<1>3. BitOf(bs, index) <=> b \in bs[p]
  BY DEF BitOf
<1>4. /\ SetBit(bs[p], b) \in Byte /\ ResetBit(bs[p], b) \in Byte
      /\ ToggleBit(bs[p], b) \in Byte
  BY <1>1 DEF SetBit, ResetBit, ToggleBit, Byte
<1>5. /\ b \in SetBit(bs[p], b) /\ b \notin ResetBit(bs[p], b)
      /\ b \in ToggleBit(bs[p], b) <=> b \notin bs[p]
      /\ \A k \in 0..7 : k # b => /\ k \in SetBit(bs[p], b) <=> k \in bs[p]
                                  /\ k \in ResetBit(bs[p], b) <=> k \in bs[p]
                                  /\ k \in ToggleBit(bs[p], b) <=> k \in bs[p]
  BY DEF SetBit, ResetBit, ToggleBit
<1>6. Turned(bs, index, Written(bs, n, index, SetBit), TRUE)
  <2> DEFINE byte == SetBit(bs[p], b)
             r == Written(bs, n, index, SetBit)
  <2>1. r = [status |-> "SUCCESS", bytes |-> [bs EXCEPT ![p] = byte]]
    BY <1>1, <1>2 DEF Written
  <2>2. byte \in Byte /\ b \in byte /\ \A k \in 0..7 : k # b => (k \in byte <=> k \in bs[p])
    BY <1>4, <1>5
  <2> HIDE DEF byte, r
  <2>3. \A i \in Nat : BitOf([bs EXCEPT ![p] = byte], i)
                         <=> IF i = index THEN b \in byte ELSE BitOf(bs, i)
    BY <2>2, ReplacedBits
  <2>4. Turned(bs, index, r, TRUE)
    BY <2>1, <2>2, <2>3 DEF Turned
  <2> QED BY <2>4 DEF r
<1>7. Turned(bs, index, Written(bs, n, index, ResetBit), FALSE)
  <2> DEFINE byte == ResetBit(bs[p], b)
             r == Written(bs, n, index, ResetBit)
  <2>1. r = [status |-> "SUCCESS", bytes |-> [bs EXCEPT ![p] = byte]]
    BY <1>1, <1>2 DEF Written
  <2>2. byte \in Byte /\ b \notin byte /\ \A k \in 0..7 : k # b => (k \in byte <=> k \in bs[p])
    BY <1>4, <1>5
  <2> HIDE DEF byte, r
  <2>3. \A i \in Nat : BitOf([bs EXCEPT ![p] = byte], i)
                         <=> IF i = index THEN b \in byte ELSE BitOf(bs, i)
    BY <2>2, ReplacedBits
  <2>4. Turned(bs, index, r, FALSE)
    BY <2>1, <2>2, <2>3 DEF Turned
  <2> QED BY <2>4 DEF r
<1>8. Turned(bs, index, Written(bs, n, index, ToggleBit), ~BitOf(bs, index))
  <2> DEFINE byte == ToggleBit(bs[p], b)
             r == Written(bs, n, index, ToggleBit)
  <2>1. r = [status |-> "SUCCESS", bytes |-> [bs EXCEPT ![p] = byte]]
    BY <1>1, <1>2 DEF Written
  <2>2. /\ byte \in Byte /\ (b \in byte <=> ~BitOf(bs, index))
        /\ \A k \in 0..7 : k # b => (k \in byte <=> k \in bs[p])
    BY <1>3, <1>4, <1>5
  <2> HIDE DEF byte, r
  <2>3. \A i \in Nat : BitOf([bs EXCEPT ![p] = byte], i)
                         <=> IF i = index THEN b \in byte ELSE BitOf(bs, i)
    BY <2>2, ReplacedBits
  <2>4. Turned(bs, index, r, ~BitOf(bs, index))
    BY <2>1, <2>2, <2>3 DEF Turned
  <2> QED BY <2>4 DEF r
<1> QED BY <1>6, <1>7, <1>8

LEMMA AssignedBits ==
  ASSUME NEW bs \in Seq(Byte), NEW n \in Nat, NEW index \in Nat, index < n,
         index \div 8 < Len(bs), NEW v \in BOOLEAN
  PROVE  Turned(bs, index, Assigned(bs, n, index, v), v)
<1>1. CASE v = TRUE
  BY <1>1, WrittenBits DEF Assigned
<1>2. CASE v = FALSE
  BY <1>2, WrittenBits DEF Assigned
<1> QED BY <1>1, <1>2

\* A call that works on one bit reports an error only if it wrote nothing.
LEMMA RefusedBits ==
  ASSUME NEW bs \in Seq(Byte), NEW n \in Nat, NEW index \in Nat, NEW v \in BOOLEAN
  PROVE  /\ Written(bs, n, index, SetBit).status # "SUCCESS"
              => Written(bs, n, index, SetBit).bytes = bs
         /\ Written(bs, n, index, ResetBit).status # "SUCCESS"
              => Written(bs, n, index, ResetBit).bytes = bs
         /\ Written(bs, n, index, ToggleBit).status # "SUCCESS"
              => Written(bs, n, index, ToggleBit).bytes = bs
         /\ Assigned(bs, n, index, v).status # "SUCCESS"
              => Assigned(bs, n, index, v).bytes = bs
<1>1. CASE index >= n \/ index \div 8 >= Len(bs)
  BY <1>1 DEF Written, Assigned
<1>2. CASE ~(index >= n \/ index \div 8 >= Len(bs))
  <2> DEFINE new(byte) == [status |-> "SUCCESS",
                           bytes  |-> [bs EXCEPT ![index \div 8 + 1] = byte]]
             old == bs[index \div 8 + 1]
  <2>1. /\ Written(bs, n, index, SetBit) = new(SetBit(old, Bit(index)))
        /\ Written(bs, n, index, ResetBit) = new(ResetBit(old, Bit(index)))
        /\ Written(bs, n, index, ToggleBit) = new(ToggleBit(old, Bit(index)))
    BY <1>2, Zenon DEF Written
  <2>2. \A byte : new(byte).status = "SUCCESS"
    OBVIOUS
  <2> HIDE DEF new
  <2> QED BY <2>1, <2>2 DEF Assigned
<1> QED BY <1>1, <1>2

-----------------------------------------------------------------------------
(***************************************************************************)
(* A call that reports an error                                            *)
(***************************************************************************)
SameBits == \A i \in Nat : BitOf(bytes', i) <=> BitOf(bytes, i)
Failed == status' \notin {"SUCCESS", "TRUE", "FALSE"}

\* A byte that is added for a bit to come holds none.
LEMMA GrownBits ==
  ASSUME NEW bs \in Seq(Byte)
  PROVE  /\ Append(bs, {}) \in Seq(Byte) /\ Len(Append(bs, {})) = Len(bs) + 1
         /\ \A i \in Nat : BitOf(Append(bs, {}), i) <=> BitOf(bs, i)
<1> DEFINE g == Append(bs, {})
<1>1. {} \in Byte /\ Len(bs) \in Nat
  BY DEF Byte
<1>2. /\ g \in Seq(Byte) /\ Len(g) = Len(bs) + 1 /\ g[Len(bs) + 1] = {}
      /\ \A p \in 1..Len(bs) : g[p] = bs[p]
  BY <1>1, AppendProperties
<1> HIDE DEF g
<1>3. ASSUME NEW i \in Nat PROVE BitOf(g, i) <=> BitOf(bs, i)
  <2>1. PICK q \in Nat : q = i \div 8
    BY Places
  <2>2. CASE q < Len(bs)
    <3>1. q < Len(g) /\ q + 1 \in 1..Len(bs)
      BY <1>1, <1>2, <2>2
    <3> QED BY <1>2, <2>1, <2>2, <3>1 DEF BitOf
  <2>3. CASE ~(q < Len(bs))
    <3>1. q < Len(g) => q + 1 = Len(bs) + 1
      BY <1>1, <1>2, <2>3
    <3>2. ~BitOf(g, i)
      BY <1>2, <2>1, <3>1 DEF BitOf
    <3> QED BY <2>1, <2>3, <3>2 DEF BitOf
  <2> QED BY <2>2, <2>3
<1> QED BY <1>2, <1>3 DEF g

LEMMA AssignedRefused ==
  ASSUME NEW bs \in Seq(Byte), NEW n \in Nat, NEW index \in Nat, NEW v \in BOOLEAN
  PROVE  Assigned(bs, n, index, v).status # "SUCCESS"
           => Assigned(bs, n, index, v).bytes = bs
BY RefusedBits

LEMMA AccessRefused ==
  ASSUME TypeOK, Access, Failed
  PROVE  SameBits
<1>1. PICK i \in Indices : \/ Set(i) \/ Reset(i) \/ Toggle(i) \/ Test(i)
                           \/ \E v \in BOOLEAN : Assign(i, v)
  BY DEF Access
<1>2. i \in Nat /\ size \in Nat /\ bytes \in Seq(Byte)
  BY BitsetAssumption DEF TypeOK
<1>3. ASSUME NEW r, Store(r), r.status # "SUCCESS" => r.bytes = bytes
      PROVE  SameBits
  BY <1>3 DEF Store, Failed, SameBits
<1>4. TRUE \in BOOLEAN
  OBVIOUS
<1>5. CASE Set(i)
  BY <1>2, <1>3, <1>4, <1>5, RefusedBits DEF Set
<1>6. CASE Reset(i)
  BY <1>2, <1>3, <1>4, <1>6, RefusedBits DEF Reset
<1>7. CASE Toggle(i)
  BY <1>2, <1>3, <1>4, <1>7, RefusedBits DEF Toggle
<1>8. CASE Test(i)
  BY <1>8 DEF Test, Answer, SameBits
<1>9. ASSUME NEW v \in BOOLEAN, Assign(i, v) PROVE SameBits
  BY <1>2, <1>3, <1>9, RefusedBits DEF Assign
<1> QED BY <1>1, <1>5, <1>6, <1>7, <1>8, <1>9

LEMMA PushRefused ==
  ASSUME TypeOK, NEW v \in BOOLEAN, Push(v), Failed
  PROVE  SameBits
<1> DEFINE grown == IF size % 8 = 0 THEN Append(bytes, {}) ELSE bytes
           n == Word(size + 1)
           index == Word(Word(size + 1) - 1)
           r == Assigned(grown, n, index, v)
<1>1. bytes \in Seq(Byte) /\ size \in Nat
  BY DEF TypeOK
<1>2. n \in Nat /\ index \in Nat
  <2>1. \A k \in Int : Word(k) \in Nat
    BY WordInRange, Numbers
  <2>2. n \in Nat
    <3>1. size + 1 \in Int
      BY <1>1
    <3> QED BY <2>1, <3>1
  <2>3. n - 1 \in Int
    BY <2>2
  <2>4. index = Word(n - 1)
    OBVIOUS
  <2> HIDE DEF n, index
  <2> QED BY <2>1, <2>2, <2>3, <2>4
<1>3. grown \in Seq(Byte) /\ \A i \in Nat : BitOf(grown, i) <=> BitOf(bytes, i)
  BY <1>1, GrownBits
<1>4. \/ bytes' = bytes
      \/ status' = r.status /\ bytes' = r.bytes
  BY DEF Push
<1> HIDE DEF grown, n, index
<1>5. r.status # "SUCCESS" => r.bytes = grown
  BY <1>2, <1>3, AssignedRefused
<1> HIDE DEF r
<1> QED BY <1>3, <1>4, <1>5 DEF Failed, SameBits

LEMMA RefusedKeeps ==
  ASSUME TypeOK, Next, live, live', Failed
  PROVE  SameBits
<1>1. CASE Construct
  BY <1>1 DEF Construct, InitEx, InitBuffer
<1>2. CASE Destroy
  BY <1>2 DEF Destroy
<1>3. CASE Access
  BY <1>3, AccessRefused
<1>4. CASE Bytewise
  BY <1>4 DEF Bytewise, SetAll, ResetAll, Flip, EachByte, AND, OR, XOR,
              PerformByteOperation, Become, Failed
<1>5. CASE Resize
  <2>1. ASSUME NEW v \in BOOLEAN, Push(v) PROVE SameBits
    BY <2>1, PushRefused
  <2>2. CASE Pop \/ Clear \/ ShrinkToFit \/ \E n \in Counts : Reserve(n)
    BY <2>2 DEF Pop, Clear, ShrinkToFit, Reserve, Answer, Failed, SameBits
  <2> QED BY <1>5, <2>1, <2>2 DEF Resize
<1>6. CASE Query
  BY <1>6 DEF Query, TestMSB, TestLSB, Test, Check, Answer, SameBits
<1> QED BY <1>1, <1>2, <1>3, <1>4, <1>5, <1>6 DEF Next

\* What ErrorsKeepBits says of a step
KeepsOnError == live /\ live' /\ Failed
                  => \A i \in SetBits \cup SetBits' :
                       i < size /\ i < size' => (i \in SetBits <=> i \in SetBits')

LEMMA ErrorKeeps == TypeOK /\ TypeOK' /\ [Next]_vars => [KeepsOnError]_vars
<1> SUFFICES ASSUME TypeOK, TypeOK', Next, live, live', Failed,
                    NEW i \in SetBits \cup SetBits', i < size, i < size'
             PROVE  i \in SetBits <=> i \in SetBits'
  BY DEF KeepsOnError
<1>1. SameBits
  BY RefusedKeeps
<1>2. size \in Nat /\ size' \in Nat
  BY DEF TypeOK
<1>3. SetBits' = {k \in 0..(size' - 1) : BitOf(bytes', k)}
  BY DEF SetBits
<1>4. i \in 0..(size - 1) \/ i \in 0..(size' - 1)
  BY <1>3 DEF SetBits
<1>5. i \in Nat /\ i \in 0..(size - 1) /\ i \in 0..(size' - 1)
  BY <1>2, <1>4
<1> QED BY <1>1, <1>3, <1>5 DEF SetBits, SameBits

\* A call of a bitset that reports an error leaves every bit that is still
\* there as it was, also one that ran out of buffer, or of bytes, halfway, and
\* also when the size has wrapped around.
THEOREM ErrorsKeep == Spec => ErrorsKeepBits
<1>1. TypeOK /\ [Next]_vars => TypeOK'
  BY TypeStep
<1>2. [KeepsOnError]_vars
        <=> [live /\ live' /\ status' \notin {"SUCCESS", "TRUE", "FALSE"}
              => \A i \in SetBits \cup SetBits' :
                   i < size /\ i < size' => (i \in SetBits <=> i \in SetBits')]_vars
  BY DEF KeepsOnError, Failed
<1> QED BY TypeCorrect, <1>1, <1>2, ErrorKeeps, PTL DEF Spec, ErrorsKeepBits

-----------------------------------------------------------------------------
(***************************************************************************)
(* The bits behind a bitset's calls: BitString sees the contents, whatever *)
(* the bits behind the end of the last byte hold.                          *)
(***************************************************************************)

\* The operands of the bytewise calls are bitsets with memory of their own.
SourcesFit == \A s \in Sources : /\ s.size \in Nat
                                 /\ Len(s.bytes) = (s.size + 7) \div 8

\* A bitset with memory of its own and the bytes its bits need
Grows == OnHeap /\ TypeOK /\ Missing = 0 /\ size <= MaxBits

LEMMA ByteOfBit ==
  ASSUME Grows
  PROVE  /\ \A i \in Nat : i < size => i \div 8 < Len(bytes)
         /\ size \in Nat /\ bytes \in Seq(Byte) /\ Len(bytes) = (size + 7) \div 8
<1>1. size \in Nat /\ bytes \in Seq(Byte) /\ Len(bytes) = (size + 7) \div 8
  BY MissingIs DEF Grows, TypeOK
<1>2. \A n, i \in Nat : i < n => i \div 8 < (n + 7) \div 8
  OBVIOUS
<1> QED BY <1>1, <1>2

LEMMA ContentsAre ==
  ASSUME size \in Nat
  PROVE  /\ Contents \in Seq(BOOLEAN) /\ Len(Contents) = size
         /\ \A i \in 1..size : Contents[i] <=> BitOf(bytes, i - 1)
<1>1. \A i \in 1..size : BitOf(bytes, i - 1) \in BOOLEAN
  BY DEF BitOf
<1>2. Contents = [i \in 1..size |-> BitOf(bytes, i - 1)]
  BY DEF Contents
<1>3. Contents \in [1..size -> BOOLEAN]
  BY <1>1, <1>2
<1>4. \A i \in 1..size : Contents[i] = BitOf(bytes, i - 1)
  BY <1>2
<1> HIDE DEF Contents
<1>5. Contents \in Seq(BOOLEAN) /\ Len(Contents) = size
  BY <1>3
<1> QED BY <1>4, <1>5

\* What the contents are after a call
LEMMA ContentsBecome ==
  ASSUME size' \in Nat, NEW b \in Seq(BOOLEAN), Len(b) = size',
         \A i \in 1..size' : b[i] <=> BitOf(bytes', i - 1)
  PROVE  Contents' = b
<1> DEFINE c == [i \in 1..size' |-> BitOf(bytes', i - 1)]
<1>1. Contents' = c
  BY DEF Contents
<1>2. \A i \in 1..size' : BitOf(bytes', i - 1) \in BOOLEAN
  BY DEF BitOf
<1>3. c \in [1..size' -> BOOLEAN]
  BY <1>2
<1>4. \A i \in 1..size' : c[i] <=> BitOf(bytes', i - 1)
  OBVIOUS
<1> HIDE DEF c
<1>5. c \in Seq(BOOLEAN) /\ Len(c) = size'
  BY <1>3
<1>6. \A i \in 1..size' : c[i] \in BOOLEAN /\ b[i] \in BOOLEAN
  BY <1>3
<1>7. \A i \in 1..size' : c[i] = b[i]
  BY <1>4, <1>6
<1>8. c = b
  BY <1>5, <1>7, SeqEqual
<1> QED BY <1>1, <1>8

LEMMA ContentsStay ==
  ASSUME UNCHANGED <<bytes, size>>
  PROVE  Contents' = Contents
BY DEF Contents

-----------------------------------------------------------------------------
(* One bit *)

LEMMA TurnedMaps ==
  ASSUME Grows, NEW index \in Nat, index < size, NEW bit \in BOOLEAN,
         NEW r, Turned(bytes, index, r, bit), Store(r)
  PROVE  Bits!At(index, bit)
<1>1. size \in Nat /\ size' = size /\ bytes' = r.bytes /\ status' = "SUCCESS"
  BY ByteOfBit DEF Store, Turned
<1>2. /\ Contents \in Seq(BOOLEAN) /\ Len(Contents) = size
      /\ \A i \in 1..size : Contents[i] <=> BitOf(bytes, i - 1)
  BY <1>1, ContentsAre
<1> DEFINE b == [Contents EXCEPT ![index + 1] = bit]
<1>3. b \in Seq(BOOLEAN) /\ Len(b) = size
      /\ \A i \in 1..size : b[i] = IF i = index + 1 THEN bit ELSE Contents[i]
  BY <1>1, <1>2
<1> HIDE DEF b
<1>4. ASSUME NEW i \in 1..size PROVE b[i] <=> BitOf(bytes', i - 1)
  <2>1. i - 1 \in Nat /\ (i - 1 = index <=> i = index + 1)
    BY <1>1
  <2>2. BitOf(bytes', i - 1) <=> IF i - 1 = index THEN bit ELSE BitOf(bytes, i - 1)
    BY <1>1, <2>1 DEF Turned
  <2> QED BY <1>2, <1>3, <2>1, <2>2
<1>5. Contents' = b
  BY <1>1, <1>3, <1>4, ContentsBecome
<1>6. ~(index >= Len(Contents))
  BY <1>1, <1>2
<1> QED BY <1>1, <1>5, <1>6 DEF Bits!At, Bits!Becomes, b

LEMMA OutsideMaps ==
  ASSUME size \in Nat, NEW index \in Nat, index >= size, NEW bit,
         status' = "OUT_OF_RANGE", UNCHANGED <<bytes, size>>
  PROVE  Bits!At(index, bit)
<1>1. Contents' = Contents /\ index >= Len(Contents)
  BY ContentsStay, ContentsAre
<1> QED BY <1>1 DEF Bits!At, Bits!Answer

LEMMA BitMaps ==
  ASSUME Grows, NEW index \in Nat
  PROVE  /\ Set(index) => Bits!Set(index)
         /\ Reset(index) => Bits!Reset(index)
         /\ Toggle(index) => Bits!Toggle(index)
         /\ Test(index) => Bits!Test(index)
<1>1. size \in Nat /\ bytes \in Seq(Byte)
  BY ByteOfBit
<1>2. /\ Contents \in Seq(BOOLEAN) /\ Len(Contents) = size
      /\ \A i \in 1..size : Contents[i] <=> BitOf(bytes, i - 1)
  BY <1>1, ContentsAre
<1>3. CASE index >= size
  <2>1. ASSUME Set(index) \/ Reset(index) \/ Toggle(index)
        PROVE  status' = "OUT_OF_RANGE" /\ UNCHANGED <<bytes, size>>
    BY <1>3, <2>1 DEF Set, Reset, Toggle, Written, Store
  <2>2. Set(index) => Bits!Set(index)
    BY <1>1, <1>3, <2>1, OutsideMaps DEF Bits!Set
  <2>3. Reset(index) => Bits!Reset(index)
    BY <1>1, <1>3, <2>1, OutsideMaps DEF Bits!Reset
  <2>4. Toggle(index) => Bits!Toggle(index)
    BY <1>1, <1>3, <2>1, OutsideMaps DEF Bits!Toggle
  <2>5. Test(index) => Bits!Test(index)
    <3>1. Test(index) => status' = "OUT_OF_RANGE" /\ UNCHANGED <<bytes, size>>
      BY <1>3 DEF Test, Answer
    <3>2. Test(index) => Contents' = Contents
      BY <3>1, ContentsStay
    <3> QED BY <1>2, <1>3, <3>1, <3>2 DEF Bits!Test, Bits!Answer
  <2> QED BY <2>2, <2>3, <2>4, <2>5
<1>4. CASE index < size
  <2>0. index \div 8 < Len(bytes)
    BY <1>4, ByteOfBit
  <2>1. BitOf(bytes, index) <=> Contents[index + 1]
    <3>1. index + 1 \in 1..size /\ (index + 1) - 1 = index
      BY <1>1, <1>4
    <3>2. Contents[index + 1] <=> BitOf(bytes, (index + 1) - 1)
      BY <1>2, <3>1
    <3> QED BY <3>1, <3>2
  <2>2. Set(index) => Bits!Set(index)
    <3> DEFINE r == Written(bytes, size, index, SetBit)
    <3>1. Turned(bytes, index, r, TRUE)
      BY <1>1, <1>4, <2>0, WrittenBits
    <3>2. Set(index) => Store(r)
      BY DEF Set
    <3> HIDE DEF r
    <3> QED BY <1>4, <3>1, <3>2, TurnedMaps DEF Bits!Set
  <2>3. Reset(index) => Bits!Reset(index)
    <3> DEFINE r == Written(bytes, size, index, ResetBit)
    <3>1. Turned(bytes, index, r, FALSE)
      BY <1>1, <1>4, <2>0, WrittenBits
    <3>2. Reset(index) => Store(r)
      BY DEF Reset
    <3> HIDE DEF r
    <3> QED BY <1>4, <3>1, <3>2, TurnedMaps DEF Bits!Reset
  <2>4. Toggle(index) => Bits!Toggle(index)
    <3> DEFINE r == Written(bytes, size, index, ToggleBit)
    <3>1. Turned(bytes, index, r, ~BitOf(bytes, index))
      BY <1>1, <1>4, <2>0, WrittenBits
    <3>2. Toggle(index) => Store(r)
      BY DEF Toggle
    <3> HIDE DEF r
    <3>3. Turned(bytes, index, r, ~Contents[index + 1])
      BY <2>1, <3>1 DEF Turned
    <3>4. (~Contents[index + 1]) \in BOOLEAN
      OBVIOUS
    <3> QED BY <1>4, <3>2, <3>3, <3>4, TurnedMaps DEF Bits!Toggle
  <2>5. Test(index) => Bits!Test(index)
    <3>1. Test(index) => /\ status' = IF BitOf(bytes, index) THEN "TRUE" ELSE "FALSE"
                         /\ UNCHANGED <<bytes, size>>
      BY <1>1, <1>4, <2>0 DEF Test, Answer
    <3>2. Test(index) => Contents' = Contents
      BY <3>1, ContentsStay
    <3>3. ~(index >= Len(Contents))
      BY <1>1, <1>2, <1>4
    <3> QED BY <2>1, <3>1, <3>2, <3>3 DEF Bits!Test, Bits!Answer
  <2> QED BY <2>2, <2>3, <2>4, <2>5
<1> QED BY <1>1, <1>3, <1>4

-----------------------------------------------------------------------------
(* All the bits *)

\* Every byte is replaced by one that the operation makes of it.
LEMMA MappedBits ==
  ASSUME Grows, NEW bs, bs \in Seq(Byte), Len(bs) = Len(bytes), Become(bs),
         NEW b \in Seq(BOOLEAN), Len(b) = size,
         \A p \in 1..Len(bytes), k \in 0..7, i \in 1..size :
           (p = (i - 1) \div 8 + 1 /\ k = Bit(i - 1)) => (b[i] <=> k \in bs[p])
  PROVE  Bits!Becomes(b)
<1>1. /\ bytes' = bs /\ size' = size /\ status' = "SUCCESS" /\ size \in Nat
  BY ByteOfBit DEF Become
<1>2. ASSUME NEW i \in 1..size PROVE b[i] <=> BitOf(bytes', i - 1)
  <2>1. PICK j \in Nat : i = j + 1 /\ i - 1 = j /\ j < size
    BY <1>1
  <2>2. PICK q \in Nat : q = j \div 8
    BY Places
  <2>3. q < Len(bytes) /\ Len(bytes) \in Nat /\ Bit(j) \in 0..7
    BY <2>1, <2>2, ByteOfBit, Places
  <2>4. q + 1 \in 1..Len(bytes) /\ q < Len(bs)
    BY <2>3
  <2>5. b[i] <=> Bit(j) \in bs[q + 1]
    BY <2>1, <2>2, <2>3, <2>4
  <2>6. BitOf(bs, j) <=> Bit(j) \in bs[q + 1]
    BY <2>2, <2>4 DEF BitOf
  <2> QED BY <1>1, <2>1, <2>5, <2>6
<1>3. Contents' = b
  BY <1>1, <1>2, ContentsBecome
<1> QED BY <1>1, <1>3 DEF Bits!Becomes

\* The contents bit by bit, in terms of the bytes
LEMMA BitInByte ==
  ASSUME Grows
  PROVE  \A p \in 1..Len(bytes), k \in 0..7, i \in 1..size :
           (p = (i - 1) \div 8 + 1 /\ k = Bit(i - 1))
             => (Contents[i] <=> k \in bytes[p])
<1>1. /\ size \in Nat /\ bytes \in Seq(Byte)
      /\ \A i \in 1..size : Contents[i] <=> BitOf(bytes, i - 1)
  BY ByteOfBit, ContentsAre
<1> SUFFICES ASSUME NEW p \in 1..Len(bytes), NEW k \in 0..7, NEW i \in 1..size,
                    p = (i - 1) \div 8 + 1, k = Bit(i - 1)
             PROVE  Contents[i] <=> k \in bytes[p]
  OBVIOUS
<1>2. PICK j \in Nat : i - 1 = j
  BY <1>1
<1>3. PICK q \in Nat : q = j \div 8
  BY Places
<1>4. p = q + 1 /\ q < Len(bytes)
  BY <1>1, <1>2, <1>3
<1>5. BitOf(bytes, j) <=> k \in bytes[p]
  BY <1>2, <1>3, <1>4 DEF BitOf
<1> QED BY <1>1, <1>2, <1>5

LEMMA AllBitsMap ==
  ASSUME Grows
  PROVE  /\ SetAll => Bits!SetAll
         /\ ResetAll => Bits!ResetAll
         /\ Flip => Bits!Flip
<1>1. /\ Contents \in Seq(BOOLEAN) /\ Len(Contents) = size /\ size \in Nat
      /\ bytes \in Seq(Byte) /\ Len(bytes) \in Nat
  BY ByteOfBit, ContentsAre
<1>2. SetAll => Bits!SetAll
  <2> DEFINE bs == [p \in 1..Len(bytes) |-> 0..7]
             b == [i \in 1..Len(Contents) |-> TRUE]
  <2>1. SetAll => Become(bs)
    BY DEF SetAll, EachByte
  <2>2. /\ bs \in Seq(Byte) /\ Len(bs) = Len(bytes)
        /\ \A p \in 1..Len(bytes) : bs[p] = 0..7
    BY <1>1 DEF Byte
  <2>3. /\ b \in Seq(BOOLEAN) /\ Len(b) = size /\ \A i \in 1..size : b[i] = TRUE
    BY <1>1
  <2> HIDE DEF bs, b
  <2>4. SetAll => Bits!Becomes(b)
    BY <2>1, <2>2, <2>3, MappedBits
  <2> QED BY <2>4 DEF Bits!SetAll, b
<1>3. ResetAll => Bits!ResetAll
  <2> DEFINE bs == [p \in 1..Len(bytes) |-> {}]
             b == [i \in 1..Len(Contents) |-> FALSE]
  <2>1. ResetAll => Become(bs)
    BY DEF ResetAll, EachByte
  <2>2. /\ bs \in Seq(Byte) /\ Len(bs) = Len(bytes)
        /\ \A p \in 1..Len(bytes) : bs[p] = {}
    BY <1>1 DEF Byte
  <2>3. /\ b \in Seq(BOOLEAN) /\ Len(b) = size /\ \A i \in 1..size : b[i] = FALSE
    BY <1>1
  <2> HIDE DEF bs, b
  <2>4. ResetAll => Bits!Becomes(b)
    BY <2>1, <2>2, <2>3, MappedBits
  <2> QED BY <2>4 DEF Bits!ResetAll, b
<1>4. Flip => Bits!Flip
  <2> DEFINE bs == [p \in 1..Len(bytes) |-> (0..7) \ bytes[p]]
             b == [i \in 1..Len(Contents) |-> ~Contents[i]]
  <2>1. Flip => Become(bs)
    BY DEF Flip, EachByte
  <2>2. /\ bs \in Seq(Byte) /\ Len(bs) = Len(bytes)
        /\ \A p \in 1..Len(bytes) : bs[p] = (0..7) \ bytes[p]
    BY <1>1 DEF Byte
  <2>3. /\ b \in Seq(BOOLEAN) /\ Len(b) = size
        /\ \A i \in 1..size : b[i] <=> ~Contents[i]
    <3>1. b = [i \in 1..size |-> ~Contents[i]]
      BY <1>1
    <3>2. \A i \in 1..size : (~Contents[i]) \in BOOLEAN
      OBVIOUS
    <3>3. b \in [1..size -> BOOLEAN] /\ \A i \in 1..size : b[i] = ~Contents[i]
      BY <3>1, <3>2, Zenon
    <3> HIDE DEF b
    <3>4. b \in Seq(BOOLEAN) /\ Len(b) = size
      BY <1>1, <3>3
    <3> QED BY <3>3, <3>4
  <2> HIDE DEF bs, b
  <2>4. \A p \in 1..Len(bytes), k \in 0..7, i \in 1..size :
          (p = (i - 1) \div 8 + 1 /\ k = Bit(i - 1)) => (b[i] <=> k \in bs[p])
    BY <2>2, <2>3, BitInByte, SMTT(30)
  <2>5. Flip => Bits!Becomes(b)
    BY <2>1, <2>2, <2>3, <2>4, MappedBits
  <2> QED BY <2>5 DEF Bits!Flip, b
<1> QED BY <1>2, <1>3, <1>4
-----------------------------------------------------------------------------
(* Two bitsets *)

\* What becomes of a bit both operands have is told by the byte that holds it
LEMMA CombinedBits ==
  ASSUME Grows, NEW s, s.bytes \in Seq(Byte), s.size \in Nat,
         Len(s.bytes) = (s.size + 7) \div 8,
         NEW bs \in Seq(Byte), Len(bs) = Len(bytes), Become(bs)
  PROVE  /\ status' = "SUCCESS" /\ Contents' \in Seq(BOOLEAN)
         /\ Len(Contents') = Len(Contents) /\ Len(Contents) = size /\ size \in Nat
         /\ \A i \in 1..size : i <= s.size =>
              \E p \in 1..Len(bytes), k \in 0..7 :
                 /\ p <= Len(s.bytes)
                 /\ Contents[i] <=> k \in bytes[p]
                 /\ BitOf(s.bytes, i - 1) <=> k \in s.bytes[p]
                 /\ Contents'[i] <=> k \in bs[p]
<1>1. /\ bytes' = bs /\ size' = size /\ status' = "SUCCESS" /\ size \in Nat
      /\ \A i \in Nat : i < size => i \div 8 < Len(bytes)
      /\ Len(bytes) \in Nat /\ Len(s.bytes) \in Nat
  BY ByteOfBit DEF Become
<1>2. /\ Contents \in Seq(BOOLEAN) /\ Len(Contents) = size
      /\ \A i \in 1..size : Contents[i] <=> BitOf(bytes, i - 1)
  BY <1>1, ContentsAre
<1> DEFINE b == [i \in 1..size |-> BitOf(bs, i - 1)]
<1>3. /\ b \in Seq(BOOLEAN) /\ Len(b) = size
      /\ \A i \in 1..size : b[i] <=> BitOf(bs, i - 1)
  <2>1. \A i \in 1..size : BitOf(bs, i - 1) \in BOOLEAN
    BY DEF BitOf
  <2>2. b \in [1..size -> BOOLEAN] /\ \A i \in 1..size : b[i] = BitOf(bs, i - 1)
    BY <2>1, Zenon
  <2> HIDE DEF b
  <2>3. b \in Seq(BOOLEAN) /\ Len(b) = size
    BY <1>1, <2>2
  <2> QED BY <2>2, <2>3
<1> HIDE DEF b
<1>4. Contents' = b
  BY <1>1, <1>3, ContentsBecome
<1>5. ASSUME NEW i \in 1..size, i <= s.size
      PROVE  \E p \in 1..Len(bytes), k \in 0..7 :
                /\ p <= Len(s.bytes)
                /\ Contents[i] <=> k \in bytes[p]
                /\ BitOf(s.bytes, i - 1) <=> k \in s.bytes[p]
                /\ Contents'[i] <=> k \in bs[p]
  <2>1. PICK j \in Nat : i - 1 = j /\ j < size /\ j < s.size
    BY <1>1, <1>5
  <2>2. PICK q \in Nat : q = j \div 8
    BY Places
  <2>3. q < Len(bytes)
    BY <1>1, <2>1, <2>2
  <2>4. q < Len(s.bytes)
    BY <2>1, <2>2
  <2>5. q + 1 \in 1..Len(bytes) /\ q + 1 <= Len(s.bytes)
    BY <1>1, <2>3, <2>4
  <2>6. Bit(j) \in 0..7
    BY Places
  <2>7. /\ BitOf(bytes, j) <=> Bit(j) \in bytes[q + 1]
        /\ BitOf(s.bytes, j) <=> Bit(j) \in s.bytes[q + 1]
        /\ BitOf(bs, j) <=> Bit(j) \in bs[q + 1]
    BY <2>2, <2>3, <2>4 DEF BitOf
  <2>8. /\ Contents[i] <=> Bit(j) \in bytes[q + 1]
        /\ BitOf(s.bytes, i - 1) <=> Bit(j) \in s.bytes[q + 1]
        /\ Contents'[i] <=> Bit(j) \in bs[q + 1]
    BY <1>2, <1>3, <1>4, <2>1, <2>7
  <2> QED BY <2>5, <2>6, <2>8
<1> QED BY <1>1, <1>2, <1>3, <1>4, <1>5

\* The bits of the second operand
SourceBits(s) == [i \in 1..s.size |-> BitOf(s.bytes, i - 1)]

LEMMA SourceBitsAre ==
  ASSUME NEW s, s.size \in Nat
  PROVE  /\ Len(SourceBits(s)) = s.size
         /\ \A i \in 1..s.size : SourceBits(s)[i] <=> BitOf(s.bytes, i - 1)
         /\ \A i \in 1..s.size : SourceBits(s)[i] \in BOOLEAN
<1> DEFINE b == SourceBits(s)
<1>1. \A i \in 1..s.size : BitOf(s.bytes, i - 1) \in BOOLEAN
  BY DEF BitOf
<1>2. b \in [1..s.size -> BOOLEAN] /\ \A i \in 1..s.size : b[i] = BitOf(s.bytes, i - 1)
  BY <1>1, Zenon DEF SourceBits
<1> HIDE DEF b
<1>3. b \in Seq(BOOLEAN) /\ Len(b) = s.size
  BY <1>2
<1> QED BY <1>2, <1>3 DEF b

\* A bytewise operation, in terms of what it does to one bit
LEMMA OperationMaps ==
  ASSUME Grows, SourcesFit, NEW s \in Sources
  PROVE  /\ AND(s) => Bits!And(SourceBits(s))
         /\ OR(s) => Bits!Or(SourceBits(s))
         /\ XOR(s) => Bits!Xor(SourceBits(s))
<1>1. /\ s.bytes \in Seq(Byte) /\ s.size \in Nat /\ Len(s.bytes) = (s.size + 7) \div 8
      /\ bytes \in Seq(Byte) /\ Len(bytes) \in Nat /\ Len(s.bytes) \in Nat
  BY BitsetAssumption, ByteOfBit DEF SourcesFit, Byte
<1>2. /\ \A p \in 1..Len(bytes) : bytes[p] \in Byte
      /\ \A p \in 1..Len(s.bytes) : s.bytes[p] \in Byte
  BY <1>1
<1>3. AND(s) => Bits!And(SourceBits(s))
  <2> DEFINE bs == [p \in 1..Len(bytes) |-> IF p <= Len(s.bytes) THEN OperationAND(bytes[p], s.bytes[p])
                                                       ELSE bytes[p]]
  <2>1. AND(s) => Become(bs)
    BY DEF AND, PerformByteOperation
  <2>2. /\ bs \in Seq(Byte) /\ Len(bs) = Len(bytes)
        /\ \A p \in 1..Len(bytes) : p <= Len(s.bytes) =>
             \A k : k \in bs[p] <=> (k \in bytes[p] /\ k \in s.bytes[p])
    BY <1>1, <1>2 DEF OperationAND, Byte
  <2> HIDE DEF bs
  <2> SUFFICES ASSUME AND(s)
               PROVE  Bits!And(SourceBits(s))
    OBVIOUS
  <2>3. /\ status' = "SUCCESS" /\ Contents' \in Seq(BOOLEAN)
        /\ Len(Contents') = Len(Contents) /\ Len(Contents) = size /\ size \in Nat
        /\ \A i \in 1..size : i <= s.size =>
              \E p \in 1..Len(bytes), k \in 0..7 :
                 /\ p <= Len(s.bytes)
                 /\ Contents[i] <=> k \in bytes[p]
                 /\ BitOf(s.bytes, i - 1) <=> k \in s.bytes[p]
                 /\ Contents'[i] <=> k \in bs[p]
    BY <1>1, <2>1, <2>2, CombinedBits
  <2>4. ASSUME NEW i \in 1..size, i <= Len(SourceBits(s))
        PROVE  Contents'[i] = (Contents[i] /\ SourceBits(s)[i])
    <3>1. i <= s.size /\ i \in 1..s.size
      BY <1>1, <2>3, <2>4, SourceBitsAre
    <3>2. Contents'[i] <=> (Contents[i] /\ BitOf(s.bytes, i - 1))
      BY <2>2, <2>3, <3>1
    <3>3. Contents'[i] \in BOOLEAN
      BY <2>3
    <3> QED BY <1>1, <3>1, <3>2, <3>3, SourceBitsAre
  <2> QED BY <2>3, <2>4 DEF Bits!And, Bits!Combine, Bits!Both
<1>4. OR(s) => Bits!Or(SourceBits(s))
  <2> DEFINE bs == [p \in 1..Len(bytes) |-> IF p <= Len(s.bytes) THEN OperationOR(bytes[p], s.bytes[p])
                                                       ELSE bytes[p]]
  <2>1. OR(s) => Become(bs)
    BY DEF OR, PerformByteOperation
  <2>2. /\ bs \in Seq(Byte) /\ Len(bs) = Len(bytes)
        /\ \A p \in 1..Len(bytes) : p <= Len(s.bytes) =>
             \A k : k \in bs[p] <=> (k \in bytes[p] \/ k \in s.bytes[p])
    BY <1>1, <1>2, SMTT(30) DEF OperationOR, Byte
  <2> HIDE DEF bs
  <2> SUFFICES ASSUME OR(s)
               PROVE  Bits!Or(SourceBits(s))
    OBVIOUS
  <2>3. /\ status' = "SUCCESS" /\ Contents' \in Seq(BOOLEAN)
        /\ Len(Contents') = Len(Contents) /\ Len(Contents) = size /\ size \in Nat
        /\ \A i \in 1..size : i <= s.size =>
              \E p \in 1..Len(bytes), k \in 0..7 :
                 /\ p <= Len(s.bytes)
                 /\ Contents[i] <=> k \in bytes[p]
                 /\ BitOf(s.bytes, i - 1) <=> k \in s.bytes[p]
                 /\ Contents'[i] <=> k \in bs[p]
    BY <1>1, <2>1, <2>2, CombinedBits
  <2>4. ASSUME NEW i \in 1..size, i <= Len(SourceBits(s))
        PROVE  Contents'[i] = (Contents[i] \/ SourceBits(s)[i])
    <3>1. i <= s.size /\ i \in 1..s.size
      BY <1>1, <2>3, <2>4, SourceBitsAre
    <3>2. Contents'[i] <=> (Contents[i] \/ BitOf(s.bytes, i - 1))
      BY <2>2, <2>3, <3>1
    <3>3. Contents'[i] \in BOOLEAN
      BY <2>3
    <3> QED BY <1>1, <3>1, <3>2, <3>3, SourceBitsAre
  <2> QED BY <2>3, <2>4 DEF Bits!Or, Bits!Combine, Bits!Either
<1>5. XOR(s) => Bits!Xor(SourceBits(s))
  <2> DEFINE bs == [p \in 1..Len(bytes) |-> IF p <= Len(s.bytes) THEN OperationXOR(bytes[p], s.bytes[p])
                                                       ELSE bytes[p]]
  <2>1. XOR(s) => Become(bs)
    BY DEF XOR, PerformByteOperation
  <2>2. /\ bs \in Seq(Byte) /\ Len(bs) = Len(bytes)
        /\ \A p \in 1..Len(bytes) : p <= Len(s.bytes) =>
             \A k : k \in bs[p] <=> ~(k \in bytes[p] <=> k \in s.bytes[p])
    BY <1>1, <1>2 DEF OperationXOR, Byte
  <2> HIDE DEF bs
  <2> SUFFICES ASSUME XOR(s)
               PROVE  Bits!Xor(SourceBits(s))
    OBVIOUS
  <2>3. /\ status' = "SUCCESS" /\ Contents' \in Seq(BOOLEAN)
        /\ Len(Contents') = Len(Contents) /\ Len(Contents) = size /\ size \in Nat
        /\ \A i \in 1..size : i <= s.size =>
              \E p \in 1..Len(bytes), k \in 0..7 :
                 /\ p <= Len(s.bytes)
                 /\ Contents[i] <=> k \in bytes[p]
                 /\ BitOf(s.bytes, i - 1) <=> k \in s.bytes[p]
                 /\ Contents'[i] <=> k \in bs[p]
    BY <1>1, <2>1, <2>2, CombinedBits
  <2>4. ASSUME NEW i \in 1..size, i <= Len(SourceBits(s))
        PROVE  Contents'[i] = (Contents[i] # SourceBits(s)[i])
    <3>1. i <= s.size /\ i \in 1..s.size
      BY <1>1, <2>3, <2>4, SourceBitsAre
    <3>2. Contents'[i] <=> ~(Contents[i] <=> BitOf(s.bytes, i - 1))
      BY <2>2, <2>3, <3>1
    <3>3. Contents'[i] \in BOOLEAN /\ Contents[i] \in BOOLEAN
      BY <2>3, ContentsAre
    <3>4. /\ SourceBits(s)[i] \in BOOLEAN
          /\ SourceBits(s)[i] <=> BitOf(s.bytes, i - 1)
      BY <1>1, <3>1, SourceBitsAre
    <3> QED BY <3>2, <3>3, <3>4
  <2> QED BY <2>3, <2>4 DEF Bits!Xor, Bits!Combine, Bits!Different
<1> QED BY <1>3, <1>4, <1>5

-----------------------------------------------------------------------------
(* The last bit *)

LEMMA PushMaps ==
  ASSUME Grows, NEW v \in BOOLEAN, Push(v)
  PROVE  Bits!Push(v)
<1>1. /\ size \in Nat /\ bytes \in Seq(Byte) /\ Len(bytes) = (size + 7) \div 8
      /\ size < MaxBits /\ Word(size + 1) = size + 1 /\ Word(size) = size
      /\ ~Full(Len(bytes) + 1)
  <2>1. size \in Nat /\ MaxBits \in Nat /\ size < MaxBits
    BY ByteOfBit, Numbers DEF Push
  <2>2. size \in 0..MaxBits /\ size + 1 \in 0..MaxBits
    BY <2>1
  <2> QED BY <2>1, <2>2, ByteOfBit, WordIsItself DEF Grows, OnHeap, Full
<1> DEFINE grown == IF size % 8 = 0 THEN Append(bytes, {}) ELSE bytes
           r == Assigned(grown, size + 1, size, v)
<1>2. grown \in Seq(Byte) /\ \A i \in Nat : BitOf(grown, i) <=> BitOf(bytes, i)
  BY <1>1, GrownBits
<1>3. size \div 8 < Len(grown)
  <2>1. CASE size % 8 = 0
    <3>1. Len(grown) = Len(bytes) + 1
      BY <1>1, <2>1, GrownBits
    <3> HIDE DEF grown
    <3> QED BY <1>1, <2>1, <3>1
  <2>2. CASE size % 8 # 0
    BY <1>1, <2>2
  <2> QED BY <2>1, <2>2
<1>4. size' = size + 1 /\ status' = r.status /\ bytes' = r.bytes
  <2>1. (size + 1) - 1 = size
    BY <1>1
  <2>2. /\ Word(Word(size + 1) - 1) = size /\ Word(size + 1) = size + 1
    BY <1>1, <2>1
  <2> QED BY <1>1, <2>2 DEF Push
<1> HIDE DEF grown
<1>5. Turned(grown, size, r, v)
  BY <1>1, <1>2, <1>3, AssignedBits
<1> HIDE DEF r
<1>6. /\ status' = "SUCCESS"
      /\ \A i \in Nat : BitOf(bytes', i) <=> IF i = size THEN v ELSE BitOf(bytes, i)
  BY <1>2, <1>4, <1>5 DEF Turned
<1>7. /\ Contents \in Seq(BOOLEAN) /\ Len(Contents) = size
      /\ \A i \in 1..size : Contents[i] <=> BitOf(bytes, i - 1)
  BY <1>1, ContentsAre
<1> DEFINE b == Append(Contents, v)
<1>8. /\ b \in Seq(BOOLEAN) /\ Len(b) = size + 1 /\ b[size + 1] = v
      /\ \A i \in 1..size : b[i] = Contents[i]
  BY <1>7, AppendProperties
<1> HIDE DEF b
<1>9. ASSUME NEW i \in 1..size' PROVE b[i] <=> BitOf(bytes', i - 1)
  <2>1. CASE i = size + 1
    BY <1>1, <1>6, <1>8, <2>1
  <2>2. CASE i \in 1..size
    <3>1. i - 1 \in Nat /\ i - 1 # size
      BY <1>1, <2>2
    <3> QED BY <1>6, <1>7, <1>8, <2>2, <3>1
  <2> QED BY <1>1, <1>4, <2>1, <2>2
<1>10. Contents' = b
  BY <1>1, <1>4, <1>8, <1>9, ContentsBecome
<1> QED BY <1>6, <1>10 DEF Bits!Push, Bits!Becomes, b

LEMMA PopMaps ==
  ASSUME Grows, NoEmptyPops, Pop
  PROVE  Bits!Pop
<1>1. /\ size \in Nat /\ bytes \in Seq(Byte) /\ Len(bytes) = (size + 7) \div 8
      /\ Len(bytes) \in Nat /\ size > 0
  BY ByteOfBit DEF Pop, NoEmptyPops
<1>2. size' = size - 1 /\ size - 1 \in Nat
  <2>1. size - 1 \in 0..MaxBits
    BY <1>1, Numbers DEF Grows
  <2> QED BY <1>1, <2>1, WordIsItself DEF Pop
<1>3. /\ status' = "SUCCESS"
      /\ \A j \in Nat : j < size - 1 => (BitOf(bytes', j) <=> BitOf(bytes, j))
  <2>1. CASE size' % 8 # 0
    BY <2>1 DEF Pop
  <2>2. CASE size' % 8 = 0
    <3> DEFINE bs == [i \in 1..(Len(bytes) - 1) |-> bytes[i]]
    <3>1. Len(bytes) > 0 /\ Len(bytes) - 1 = (size - 1) \div 8
      BY <1>1, <1>2, <2>2
    <3>2. status' = "SUCCESS" /\ bytes' = bs
      BY <1>1, <2>2, <3>1, NoBytes DEF Pop
    <3>3. /\ Len(bs) = Len(bytes) - 1
          /\ \A i \in 1..(Len(bytes) - 1) : bs[i] = bytes[i]
      BY <1>1, <3>1
    <3> HIDE DEF bs
    <3>4. ASSUME NEW j \in Nat, j < size - 1 PROVE BitOf(bs, j) <=> BitOf(bytes, j)
      <4>1. PICK q \in Nat : q = j \div 8
        BY Places
      <4>2. q < Len(bytes) - 1
        BY <1>1, <1>2, <2>2, <3>1, <3>4, <4>1
      <4>3. q + 1 \in 1..(Len(bytes) - 1) /\ q < Len(bytes) /\ q < Len(bs)
        BY <1>1, <3>3, <4>2
      <4> QED BY <3>3, <4>1, <4>3 DEF BitOf
    <3> QED BY <3>2, <3>4
  <2> QED BY <2>1, <2>2
<1>4. /\ Contents \in Seq(BOOLEAN) /\ Len(Contents) = size
      /\ \A i \in 1..size : Contents[i] <=> BitOf(bytes, i - 1)
  BY <1>1, ContentsAre
<1> DEFINE b == SubSeq(Contents, 1, Len(Contents) - 1)
<1>5. /\ b \in Seq(BOOLEAN) /\ Len(b) = size - 1
      /\ \A i \in 1..(size - 1) : b[i] = Contents[i]
  BY <1>1, <1>2, <1>4
<1> HIDE DEF b
<1>6. ASSUME NEW i \in 1..size' PROVE b[i] <=> BitOf(bytes', i - 1)
  <2>1. i - 1 \in Nat /\ i - 1 < size - 1 /\ i \in 1..(size - 1) /\ i \in 1..size
    BY <1>1, <1>2
  <2> QED BY <1>3, <1>4, <1>5, <2>1
<1>7. Contents' = b
  BY <1>2, <1>5, <1>6, ContentsBecome
<1> QED BY <1>3, <1>7 DEF Bits!Pop, Bits!Becomes, b

LEMMA ClearMaps == ASSUME Clear PROVE Bits!Clear
<1>1. size' = 0 /\ status' = "SUCCESS" /\ size' \in Nat
  BY DEF Clear
<1> DEFINE b == << >>
<1>2. b \in Seq(BOOLEAN) /\ Len(b) = size' /\ \A i \in 1..size' : b[i] <=> BitOf(bytes', i - 1)
  BY <1>1
<1> HIDE DEF b
<1>3. Contents' = b
  BY <1>1, <1>2, ContentsBecome
<1> QED BY <1>1, <1>3 DEF Bits!Clear, Bits!Becomes, b

-----------------------------------------------------------------------------
\* What CallsImplement says of a step
CallsMap ==
  capacity = Dynamic /\ Missing = 0 =>
    /\ \A i \in Indices : /\ Set(i) => Bits!Set(i)
                          /\ Reset(i) => Bits!Reset(i)
                          /\ Toggle(i) => Bits!Toggle(i)
                          /\ Test(i) => Bits!Test(i)
    /\ SetAll => Bits!SetAll
    /\ ResetAll => Bits!ResetAll
    /\ Flip => Bits!Flip
    /\ \A v \in BOOLEAN : Push(v) => Bits!Push(v)
    /\ Pop => Bits!Pop
    /\ Clear => Bits!Clear
    /\ \A s \in Sources :
         /\ AND(s) => Bits!And(SourceBits(s))
         /\ OR(s) => Bits!Or(SourceBits(s))
         /\ XOR(s) => Bits!Xor(SourceBits(s))

LEMMA EachCallMaps ==
  ASSUME NoEmptyPops, SourcesFit, TypeOK, size <= MaxBits
  PROVE  CallsMap
<1> SUFFICES ASSUME capacity = Dynamic, Missing = 0
             PROVE  CallsMap
  BY DEF CallsMap
<1>1. CASE live
  <2>1. Grows
    BY <1>1 DEF Grows, OnHeap
  <2>2. \A i \in Indices : i \in Nat
    BY BitsetAssumption
  <2>3. \A i \in Indices : /\ Set(i) => Bits!Set(i)
                           /\ Reset(i) => Bits!Reset(i)
                           /\ Toggle(i) => Bits!Toggle(i)
                           /\ Test(i) => Bits!Test(i)
    BY <2>1, <2>2, BitMaps
  <2>4. \A v \in BOOLEAN : Push(v) => Bits!Push(v)
    BY <2>1, PushMaps
  <2>5. Pop => Bits!Pop
    BY <2>1, PopMaps
  <2>6. \A s \in Sources :
          /\ AND(s) => Bits!And(SourceBits(s))
          /\ OR(s) => Bits!Or(SourceBits(s))
          /\ XOR(s) => Bits!Xor(SourceBits(s))
    BY <2>1, OperationMaps
  <2>7. /\ SetAll => Bits!SetAll
        /\ ResetAll => Bits!ResetAll
        /\ Flip => Bits!Flip
    BY <2>1, AllBitsMap
  <2> QED BY <2>3, <2>4, <2>5, <2>6, <2>7, ClearMaps DEF CallsMap
<1>2. CASE ~live
  <2>1. \A i \in Indices : ~Set(i) /\ ~Reset(i) /\ ~Toggle(i) /\ ~Test(i)
    BY <1>2 DEF Set, Reset, Toggle, Test
  <2>2. ~SetAll /\ ~ResetAll /\ ~Flip /\ ~Pop /\ ~Clear /\ \A v \in BOOLEAN : ~Push(v)
    BY <1>2 DEF SetAll, ResetAll, Flip, EachByte, Pop, Clear, Push
  <2>3. \A s \in Sources : ~AND(s) /\ ~OR(s) /\ ~XOR(s)
    BY <1>2 DEF AND, OR, XOR, PerformByteOperation
  <2> QED BY <2>1, <2>2, <2>3 DEF CallsMap
<1> QED BY <1>1, <1>2

\* Each call on a bitset with memory of its own that has the bytes it needs
\* and is not popped when it is empty does to the string of its bits what its
\* namesake does, although it works on bytes whose bits behind the end hold
\* anything.
THEOREM BitsetCallsAreStringCalls ==
  ASSUME NoEmptyPops, SourcesFit PROVE Spec => CallsImplement
<1>1. TypeOK /\ FitInv /\ [Next]_vars => [CallsMap]_vars
  BY EachCallMaps DEF FitInv
<1>2. [CallsMap]_vars
        <=> [capacity = Dynamic /\ Missing = 0 =>
               /\ \A i \in Indices : /\ Set(i) => Bits!Set(i)
                                     /\ Reset(i) => Bits!Reset(i)
                                     /\ Toggle(i) => Bits!Toggle(i)
                                     /\ Test(i) => Bits!Test(i)
               /\ SetAll => Bits!SetAll
               /\ ResetAll => Bits!ResetAll
               /\ Flip => Bits!Flip
               /\ \A v \in BOOLEAN : Push(v) => Bits!Push(v)
               /\ Pop => Bits!Pop
               /\ Clear => Bits!Clear
               /\ \A s \in Sources :
                    LET source == [i \in 1..s.size |-> BitOf(s.bytes, i - 1)] IN
                    /\ AND(s) => Bits!And(source)
                    /\ OR(s) => Bits!Or(source)
                    /\ XOR(s) => Bits!Xor(source)]_vars
  BY DEF CallsMap, SourceBits
<1>3. Init => TypeOK /\ FitInv
  BY TypeInit, FitInit
<1>4. TypeOK /\ FitInv /\ [Next]_vars => TypeOK' /\ FitInv'
  BY TypeStep, FitKept
<1> QED BY <1>1, <1>2, <1>3, <1>4, PTL DEF Spec, CallsImplement
-----------------------------------------------------------------------------
(***************************************************************************)
(* The count.  The pairwise sums of a byte's digits are the number of its  *)
(* bits, and the bytes together have every bit of the bitset in them.      *)
(***************************************************************************)
One(p) == IF p THEN 1 ELSE 0

\* The digits of a number below 256 are those it was put together from.
LEMMA DigitsAre ==
  \A a, b, c, d, e, f, g, h \in {0, 1}, n \in Nat :
    n = a + 2 * b + 4 * c + 8 * d + 16 * e + 32 * f + 64 * g + 128 * h
      => /\ Digit(n, 0) = a /\ Digit(n, 1) = b /\ Digit(n, 2) = c /\ Digit(n, 3) = d
         /\ Digit(n, 4) = e /\ Digit(n, 5) = f /\ Digit(n, 6) = g /\ Digit(n, 7) = h
BY DEF Digit

\* Every number below 256 is put together from eight digits.
LEMMA HasDigits ==
  ASSUME NEW n \in 0..255
  PROVE  /\ \A k \in 0..7 : Digit(n, k) \in {0, 1}
         /\ n = Digit(n, 0) + 2 * Digit(n, 1) + 4 * Digit(n, 2) + 8 * Digit(n, 3)
                  + 16 * Digit(n, 4) + 32 * Digit(n, 5) + 64 * Digit(n, 6) + 128 * Digit(n, 7)
<1>1. \A k \in 0..7 : Digit(n, k) \in {0, 1}
  <2>1. \A k \in 0..7 : k \in {0, 1, 2, 3, 4, 5, 6, 7}
    OBVIOUS
  <2>2. /\ Digit(n, 0) \in {0, 1} /\ Digit(n, 1) \in {0, 1} /\ Digit(n, 2) \in {0, 1} /\ Digit(n, 3) \in {0, 1}
        /\ Digit(n, 4) \in {0, 1} /\ Digit(n, 5) \in {0, 1} /\ Digit(n, 6) \in {0, 1} /\ Digit(n, 7) \in {0, 1}
    BY DEF Digit
  <2> QED BY <2>1, <2>2
<1>2. n = Digit(n, 0) + 2 * Digit(n, 1) + 4 * Digit(n, 2) + 8 * Digit(n, 3)
            + 16 * Digit(n, 4) + 32 * Digit(n, 5) + 64 * Digit(n, 6) + 128 * Digit(n, 7)
  <2>1. PICK m \in 0..63, u \in 0..15 : m = n \div 4 /\ u = n \div 16
    OBVIOUS
  <2>2. n = Digit(n, 0) + 2 * Digit(n, 1) + 4 * m
    BY <2>1 DEF Digit
  <2>3. m = Digit(n, 2) + 2 * Digit(n, 3) + 4 * u
    BY <2>1 DEF Digit
  <2>4. u = Digit(n, 4) + 2 * Digit(n, 5) + 4 * Digit(n, 6) + 8 * Digit(n, 7)
    BY <2>1 DEF Digit
  <2>5. /\ Digit(n, 0) \in Int /\ Digit(n, 1) \in Int /\ Digit(n, 2) \in Int /\ Digit(n, 3) \in Int
        /\ Digit(n, 4) \in Int /\ Digit(n, 5) \in Int /\ Digit(n, 6) \in Int /\ Digit(n, 7) \in Int
    BY <1>1
  <2> QED BY <2>2, <2>3, <2>4, <2>5
<1> QED BY <1>1, <1>2

\* What the three masks leave of a number
LEMMA MasksKeep ==
  ASSUME NEW n \in 0..255
  PROVE  /\ And(n, 85) = Digit(n, 0) + 4 * Digit(n, 2) + 16 * Digit(n, 4) + 64 * Digit(n, 6)
         /\ And(n, 51) = Digit(n, 0) + 2 * Digit(n, 1) + 16 * Digit(n, 4) + 32 * Digit(n, 5)
         /\ And(n, 15) = Digit(n, 0) + 2 * Digit(n, 1) + 4 * Digit(n, 2) + 8 * Digit(n, 3)
<1>1. /\ Digit(85, 0) = 1 /\ Digit(85, 1) = 0 /\ Digit(85, 2) = 1 /\ Digit(85, 3) = 0
      /\ Digit(85, 4) = 1 /\ Digit(85, 5) = 0 /\ Digit(85, 6) = 1 /\ Digit(85, 7) = 0
  BY DEF Digit
<1>2. /\ Digit(51, 0) = 1 /\ Digit(51, 1) = 1 /\ Digit(51, 2) = 0 /\ Digit(51, 3) = 0
      /\ Digit(51, 4) = 1 /\ Digit(51, 5) = 1 /\ Digit(51, 6) = 0 /\ Digit(51, 7) = 0
  BY DEF Digit
<1>3. /\ Digit(15, 0) = 1 /\ Digit(15, 1) = 1 /\ Digit(15, 2) = 1 /\ Digit(15, 3) = 1
      /\ Digit(15, 4) = 0 /\ Digit(15, 5) = 0 /\ Digit(15, 6) = 0 /\ Digit(15, 7) = 0
  BY DEF Digit
<1>4. /\ Digit(n, 0) \in Int /\ Digit(n, 1) \in Int /\ Digit(n, 2) \in Int /\ Digit(n, 3) \in Int
      /\ Digit(n, 4) \in Int /\ Digit(n, 5) \in Int /\ Digit(n, 6) \in Int /\ Digit(n, 7) \in Int
  <2>1. \A k \in 0..7 : Digit(n, k) \in {0, 1}
    BY HasDigits
  <2> QED BY <2>1
<1>5. And(n, 85) = Digit(n, 0) + 4 * Digit(n, 2) + 16 * Digit(n, 4) + 64 * Digit(n, 6)
  BY <1>1, <1>4 DEF And, Number
<1>6. And(n, 51) = Digit(n, 0) + 2 * Digit(n, 1) + 16 * Digit(n, 4) + 32 * Digit(n, 5)
  BY <1>2, <1>4 DEF And, Number
<1>7. And(n, 15) = Digit(n, 0) + 2 * Digit(n, 1) + 4 * Digit(n, 2) + 8 * Digit(n, 3)
  BY <1>3, <1>4 DEF And, Number
<1> QED BY <1>5, <1>6, <1>7

\* Sums of pairs in two digits, then of fours in three, then of all in four
LEMMA PopcntCounts ==
  \A a, b, c, d, e, f, g, h \in {0, 1}, n \in Nat :
    n = a + 2 * b + 4 * c + 8 * d + 16 * e + 32 * f + 64 * g + 128 * h
      => Popcnt(n) = a + b + c + d + e + f + g + h
<1> SUFFICES ASSUME NEW a \in {0, 1}, NEW b \in {0, 1}, NEW c \in {0, 1}, NEW d \in {0, 1},
                    NEW e \in {0, 1}, NEW f \in {0, 1}, NEW g \in {0, 1}, NEW h \in {0, 1},
                    NEW n \in Nat,
                    n = a + 2 * b + 4 * c + 8 * d + 16 * e + 32 * f + 64 * g + 128 * h
             PROVE  Popcnt(n) = a + b + c + d + e + f + g + h
  OBVIOUS
<1> DEFINE pairs == And(n, 85) + And(n \div 2, 85)
           fours == And(pairs, 51) + And(pairs \div 4, 51)
<1>1. pairs = (a + b) + 4 * (c + d) + 16 * (e + f) + 64 * (g + h)
  <2>1. n \in 0..255 /\ n \div 2 \in 0..255
    OBVIOUS
  <2>2. n \div 2 = b + 2 * c + 4 * d + 8 * e + 16 * f + 32 * g + 64 * h + 128 * 0
    OBVIOUS
  <2>3. And(n, 85) = a + 4 * c + 16 * e + 64 * g
    <3>1. Digit(n, 0) = a /\ Digit(n, 2) = c /\ Digit(n, 4) = e /\ Digit(n, 6) = g
      BY DigitsAre
    <3> QED BY <2>1, <3>1, MasksKeep
  <2>4. And(n \div 2, 85) = b + 4 * d + 16 * f + 64 * h
    <3> DEFINE m == n \div 2
    <3>1. m \in Nat /\ m \in 0..255 /\ m = b + 2 * c + 4 * d + 8 * e + 16 * f + 32 * g + 64 * h + 128 * 0
      BY <2>1, <2>2
    <3> HIDE DEF m
    <3>2. Digit(m, 0) = b /\ Digit(m, 2) = d /\ Digit(m, 4) = f /\ Digit(m, 6) = h
      BY <3>1, DigitsAre
    <3>3. And(m, 85) = b + 4 * d + 16 * f + 64 * h
      BY <3>1, <3>2, MasksKeep
    <3> QED BY <3>3 DEF m
  <2> QED BY <2>3, <2>4
<1> HIDE DEF pairs
<1>2. fours = (a + b + c + d) + 16 * (e + f + g + h)
  <2>1. PICK p, q, r, s \in {0, 1, 2} : p = a + b /\ q = c + d /\ r = e + f /\ s = g + h
    OBVIOUS
  <2>2. pairs = p + 4 * q + 16 * r + 64 * s /\ pairs \in 0..255
    BY <1>1, <2>1
  <2>3. And(pairs, 51) = p + 16 * r
    <3>1. Digit(pairs, 0) + 2 * Digit(pairs, 1) = p /\ Digit(pairs, 4) + 2 * Digit(pairs, 5) = r
      BY <2>2 DEF Digit
    <3>2. \A k \in 0..7 : Digit(pairs, k) \in {0, 1}
      BY <2>2, HasDigits
    <3> QED BY <2>2, <3>1, <3>2, MasksKeep
  <2>4. And(pairs \div 4, 51) = q + 16 * s
    <3> DEFINE m == pairs \div 4
    <3>1. m = q + 4 * r + 16 * s /\ m \in 0..255
      BY <2>1, <2>2
    <3> HIDE DEF m
    <3>2. Digit(m, 0) + 2 * Digit(m, 1) = q /\ Digit(m, 4) + 2 * Digit(m, 5) = s
      BY <3>1 DEF Digit
    <3>3. \A k \in 0..7 : Digit(m, k) \in {0, 1}
      BY <3>1, HasDigits
    <3>4. And(m, 51) = q + 16 * s
      BY <3>1, <3>2, <3>3, MasksKeep
    <3> QED BY <3>4 DEF m
  <2> QED BY <2>1, <2>3, <2>4
<1> HIDE DEF fours
<1>3. And(fours, 15) + And(fours \div 16, 15) = (a + b + c + d) + (e + f + g + h)
  <2>1. PICK p, q \in 0..4 : p = a + b + c + d /\ q = e + f + g + h
    OBVIOUS
  <2>2. fours = p + 16 * q /\ fours \in 0..255 /\ fours \div 16 = q /\ q \in 0..255
    BY <1>2, <2>1
  <2>3. And(fours, 15) = p
    <3>1. Digit(fours, 0) + 2 * Digit(fours, 1) + 4 * Digit(fours, 2) + 8 * Digit(fours, 3) = p
      BY <2>2 DEF Digit
    <3> QED BY <2>2, <3>1, MasksKeep
  <2>4. And(q, 15) = q
    <3>1. Digit(q, 0) + 2 * Digit(q, 1) + 4 * Digit(q, 2) + 8 * Digit(q, 3) = q
      BY <2>1 DEF Digit
    <3> QED BY <2>2, <3>1, MasksKeep
  <2> QED BY <2>1, <2>2, <2>3, <2>4
<1>4. Popcnt(n) = And(fours, 15) + And(fours \div 16, 15)
  BY DEF Popcnt, fours, pairs
<1> QED BY <1>3, <1>4

\* The population count of a byte is the number of its bits.
LEMMA PopcntOfByte ==
  ASSUME NEW byte \in Byte
  PROVE  Popcnt(Value(byte)) = One(0 \in byte) + One(1 \in byte) + One(2 \in byte) + One(3 \in byte)
                                 + One(4 \in byte) + One(5 \in byte) + One(6 \in byte) + One(7 \in byte)
<1>1. \A k \in 0..7 : One(k \in byte) \in {0, 1}
  BY DEF One
<1>2. Value(byte) = One(0 \in byte) + 2 * One(1 \in byte) + 4 * One(2 \in byte) + 8 * One(3 \in byte)
                      + 16 * One(4 \in byte) + 32 * One(5 \in byte) + 64 * One(6 \in byte) + 128 * One(7 \in byte)
  BY DEF Value, Number, One
<1>3. Value(byte) \in Nat
  BY <1>1, <1>2
<1> HIDE DEF One
<1> QED BY <1>1, <1>2, <1>3, PopcntCounts

-----------------------------------------------------------------------------
(* The bytes together.  The sum over the first i bytes is the number of    *)
(* bits among the first 8 * i.                                             *)

LEMMA LeastNatural ==
  ASSUME NEW T \in SUBSET Nat, T # {}
  PROVE  \E m \in T : \A n \in T : m <= n
<1> DEFINE R == StrictSubsetOrdering(Nat)
           F == {0 .. n : n \in T}
<1>1. F \subseteq FiniteSubsetsOf(Nat) /\ F # {}
  <2>1. \A n \in T : 0 .. n \in SUBSET Nat /\ IsFiniteSet(0 .. n)
    BY FS_Interval
  <2> QED
    BY <2>1 DEF FiniteSubsetsOf
<1>2. \E x \in F : \A y \in F : ~(<<y, x>> \in R)
  <2> HIDE DEF R, F
  <2>1. IsWellFoundedOn(R, FiniteSubsetsOf(Nat))
    BY FS_StrictSubsetOrderingWellFounded DEF R
  <2> QED
    BY <1>1, <2>1, WFMin
<1>3. PICK m \in T : \A n \in T : ~(<<0 .. n, 0 .. m>> \in R)
  BY <1>2
<1>4. ASSUME NEW n \in T, n < m PROVE FALSE
  <2>1. /\ 0 .. n \in SUBSET Nat /\ 0 .. m \in SUBSET Nat
        /\ 0 .. n \subseteq 0 .. m /\ m \in 0 .. m /\ m \notin 0 .. n
    BY <1>4
  <2>2. <<0 .. n, 0 .. m>> \in R
    BY <2>1 DEF StrictSubsetOrdering
  <2> QED
    BY <1>3, <2>2
<1> QED
  BY <1>4

\* What holds of zero, and of n + 1 whenever it holds of n
LEMMA Induction ==
  ASSUME NEW T \in SUBSET Nat, 0 \in T, \A n \in T : n + 1 \in T
  PROVE  T = Nat
<1> SUFFICES ASSUME Nat \ T # {} PROVE FALSE
  OBVIOUS
<1>1. PICK m \in Nat \ T : \A n \in Nat \ T : m <= n
  BY LeastNatural
<1>2. m - 1 \in T /\ m = (m - 1) + 1
  BY <1>1
<1> QED
  BY <1>1, <1>2

\* The bits among the first n of a sequence of bytes
Among(bs, n) == {k \in 0..(n - 1) : BitOf(bs, k)}

LEMMA AmongFinite ==
  ASSUME NEW bs, NEW n \in Nat
  PROVE  IsFiniteSet(Among(bs, n)) /\ Cardinality(Among(bs, n)) \in Nat
<1>1. Among(bs, n) \in SUBSET (0..(n - 1)) /\ IsFiniteSet(0..(n - 1))
  BY FS_Interval DEF Among
<1> QED BY <1>1, FS_Subset, FS_CardinalityType

LEMMA OneMore ==
  ASSUME NEW bs, NEW n \in Nat
  PROVE  Cardinality(Among(bs, n + 1)) = Cardinality(Among(bs, n)) + One(BitOf(bs, n))
<1>1. IsFiniteSet(Among(bs, n)) /\ Cardinality(Among(bs, n)) \in Nat
  BY AmongFinite
<1>2. n \notin Among(bs, n)
  BY DEF Among
<1>3. CASE BitOf(bs, n)
  <2>1. Among(bs, n + 1) = Among(bs, n) \cup {n}
    BY <1>3 DEF Among
  <2> QED BY <1>1, <1>2, <1>3, <2>1, FS_AddElement DEF One
<1>4. CASE ~BitOf(bs, n)
  <2>1. Among(bs, n + 1) = Among(bs, n)
    BY <1>4 DEF Among
  <2> QED BY <1>1, <1>4, <2>1 DEF One
<1> QED BY <1>3, <1>4

\* Eight more bits are those of the next byte.
LEMMA ByteMore ==
  ASSUME NEW bs \in Seq(Byte), NEW i \in 1..Len(bs)
  PROVE  Cardinality(Among(bs, 8 * i))
           = Cardinality(Among(bs, 8 * (i - 1))) + Popcnt(Value(bs[i]))
<1> DEFINE n == 8 * (i - 1)
           sum(k) == Cardinality(Among(bs, n + k))
           p == Popcnt(Value(bs[i]))
<1>1. n \in Nat /\ 8 * i = n + 8 /\ n = n + 0
  OBVIOUS
<1>2. PICK a \in Nat, b \in Nat, c \in Nat, d \in Nat, e \in Nat, f \in Nat, g \in Nat, h \in Nat :
             /\ a = One(0 \in bs[i]) /\ b = One(1 \in bs[i]) /\ c = One(2 \in bs[i]) /\ d = One(3 \in bs[i])
             /\ e = One(4 \in bs[i]) /\ f = One(5 \in bs[i]) /\ g = One(6 \in bs[i]) /\ h = One(7 \in bs[i])
  BY DEF One
<1>3. p = a + b + c + d + e + f + g + h
  <2>1. bs[i] \in Byte
    OBVIOUS
  <2> QED BY <1>2, <2>1, PopcntOfByte
<1>4. \A k \in 0..7 : BitOf(bs, n + k) <=> (7 - k) \in bs[i]
  <2> SUFFICES ASSUME NEW k \in 0..7 PROVE BitOf(bs, n + k) <=> (7 - k) \in bs[i]
    OBVIOUS
  <2>1. (n + k) \div 8 = i - 1 /\ (n + k) % 8 = k
    OBVIOUS
  <2>2. i - 1 < Len(bs) /\ (i - 1) + 1 = i
    OBVIOUS
  <2> HIDE DEF n
  <2> QED BY <2>1, <2>2 DEF BitOf, Bit
<1>5. \A k \in 0..7 : sum(k + 1) = sum(k) + One((7 - k) \in bs[i])
  <2>1. \A k \in 0..7 : n + k \in Nat /\ (n + k) + 1 = n + (k + 1)
    BY <1>1
  <2> SUFFICES ASSUME NEW k \in 0..7 PROVE sum(k + 1) = sum(k) + One((7 - k) \in bs[i])
    OBVIOUS
  <2>2. sum(k + 1) = sum(k) + One(BitOf(bs, n + k))
    <3> HIDE DEF n
    <3>1. Cardinality(Among(bs, (n + k) + 1)) = Cardinality(Among(bs, n + k)) + One(BitOf(bs, n + k))
      BY <2>1, OneMore
    <3> QED BY <2>1, <3>1
  <2> QED BY <1>4, <2>2 DEF One
<1>6. sum(0) \in Nat
  <2> HIDE DEF n
  <2> QED BY <1>1, AmongFinite
<1> HIDE DEF n, sum, p
<1>7. /\ sum(1) = sum(0) + h /\ sum(2) = sum(1) + g /\ sum(3) = sum(2) + f /\ sum(4) = sum(3) + e
      /\ sum(5) = sum(4) + d /\ sum(6) = sum(5) + c /\ sum(7) = sum(6) + b /\ sum(8) = sum(7) + a
  BY <1>2, <1>5
<1>8. sum(8) = sum(0) + p
  <2>1. PICK s \in Nat : s = sum(0)
    BY <1>6
  <2>2. sum(2) = s + h + g
    BY <1>7, <2>1
  <2>3. sum(4) = s + h + g + f + e
    BY <1>7, <2>2
  <2>4. sum(6) = s + h + g + f + e + d + c
    BY <1>7, <2>3
  <2>5. sum(8) = s + h + g + f + e + d + c + b + a
    BY <1>7, <2>4
  <2>6. s + h + g + f + e + d + c + b + a = s + (a + b + c + d + e + f + g + h)
    OBVIOUS
  <2> QED BY <1>3, <2>1, <2>5, <2>6
<1> QED BY <1>1, <1>8 DEF n, sum, p

\* ZyanBitsetCount: as many bits as the bytes have, but not more than the size
LEMMA CountIs ==
  ASSUME bytes \in Seq(Byte)
  PROVE  LET n == Cardinality(Among(bytes, 8 * Len(bytes)))
         IN  Count = IF n <= size THEN n ELSE size
<1> DEFINE L == Len(bytes)
           g == [i \in 0..L |-> Cardinality(Among(bytes, 8 * i))]
           sum == CHOOSE f : f = [i \in 0..L |-> IF i = 0 THEN 0 ELSE f[i - 1] + Popcnt(Value(bytes[i]))]
<1>1. L \in Nat
  OBVIOUS
<1>2. \A i \in 0..L : g[i] = IF i = 0 THEN 0 ELSE g[i - 1] + Popcnt(Value(bytes[i]))
  <2> SUFFICES ASSUME NEW i \in 0..L
               PROVE  g[i] = IF i = 0 THEN 0 ELSE g[i - 1] + Popcnt(Value(bytes[i]))
    OBVIOUS
  <2>1. CASE i = 0
    <3>1. Among(bytes, 8 * 0) = {}
      BY DEF Among
    <3> QED BY <1>1, <2>1, <3>1, FS_EmptySet
  <2>2. CASE i # 0
    <3>1. i \in 1..Len(bytes) /\ i - 1 \in 0..L
      BY <2>2
    <3>2. Cardinality(Among(bytes, 8 * i)) = Cardinality(Among(bytes, 8 * (i - 1))) + Popcnt(Value(bytes[i]))
      BY <3>1, ByteMore
    <3> QED BY <2>2, <3>1, <3>2
  <2> QED BY <2>1, <2>2
<1>3. g = [i \in 0..L |-> g[i]]
  OBVIOUS
<1>4. Count = IF sum[L] <= size THEN sum[L] ELSE size
  BY Zenon DEF Count
<1>5. g[L] = Cardinality(Among(bytes, 8 * L))
  BY <1>1
<1> HIDE DEF g
<1>6. g = [i \in 0..L |-> IF i = 0 THEN 0 ELSE g[i - 1] + Popcnt(Value(bytes[i]))]
  BY <1>2, <1>3
<1>7. sum = [i \in 0..L |-> IF i = 0 THEN 0 ELSE sum[i - 1] + Popcnt(Value(bytes[i]))]
  BY <1>6, Zenon
<1> HIDE DEF sum, L
<1>8. \A i \in 0..L : sum[i] = IF i = 0 THEN 0 ELSE sum[i - 1] + Popcnt(Value(bytes[i]))
  BY <1>7, Zenon
<1> DEFINE T == {i \in Nat : i <= L => sum[i] = g[i]}
<1>9. 0 \in T
  BY <1>1, <1>2, <1>8
<1>10. ASSUME NEW i \in T PROVE i + 1 \in T
  <2>1. i \in Nat /\ (i <= L => sum[i] = g[i]) /\ (i + 1) - 1 = i
    OBVIOUS
  <2>2. ASSUME i + 1 <= L PROVE sum[i + 1] = g[i + 1]
    <3>1. i <= L /\ i + 1 \in 0..L /\ i + 1 # 0
      BY <1>1, <2>1, <2>2
    <3> QED BY <1>2, <1>8, <2>1, <3>1
  <2> QED BY <2>1, <2>2
<1> HIDE DEF T
<1>11. T = Nat
  BY <1>9, <1>10, Induction DEF T
<1>12. sum[L] = g[L]
  BY <1>1, <1>11 DEF T
<1> QED BY <1>4, <1>5, <1>12 DEF L

\* ZyanBitsetCount misses no bit, of any bitset whatever its size and what was
\* done to it: a set bit is in a byte, where the popcount finds it, and there
\* are no more of them than the size the sum is cut to.
THEOREM EveryBitCounted == Spec => []CountMissesNone
<1>1. TypeOK => CountMissesNone
  <2> SUFFICES ASSUME TypeOK PROVE Count >= Cardinality(SetBits)
    BY DEF CountMissesNone
  <2> DEFINE n == Cardinality(Among(bytes, 8 * Len(bytes)))
  <2>1. bytes \in Seq(Byte) /\ Len(bytes) \in Nat /\ size \in Nat
    BY DEF TypeOK
  <2>2. SetBits \in SUBSET Among(bytes, 8 * Len(bytes))
    <3>1. \A k, m \in Nat : k \div 8 < m => k < 8 * m
      OBVIOUS
    <3> QED BY <2>1, <3>1 DEF SetBits, BitOf, Among
  <2>3. SetBits \in SUBSET (0..(size - 1)) /\ IsFiniteSet(0..(size - 1)) /\ Cardinality(0..(size - 1)) = size
    <3>1. SetBits \in SUBSET (0..(size - 1))
      BY DEF SetBits
    <3>2. 0 \in Int /\ size - 1 \in Int
      BY <2>1
    <3>3. /\ IsFiniteSet(0..(size - 1))
          /\ Cardinality(0..(size - 1)) = IF 0 > size - 1 THEN 0 ELSE (size - 1) - 0 + 1
      BY <3>2, FS_Interval
    <3>4. Cardinality(0..(size - 1)) = size
      BY <2>1, <3>3
    <3> QED BY <3>1, <3>3, <3>4
  <2>4. Cardinality(SetBits) <= size /\ Cardinality(SetBits) \in Nat
    BY <2>3, FS_Subset, FS_CardinalityType
  <2>5. 8 * Len(bytes) \in Nat
    BY <2>1
  <2>6. n \in Nat /\ Cardinality(SetBits) <= n
    BY <2>2, <2>5, AmongFinite, FS_Subset
  <2>7. Count = IF n <= size THEN n ELSE size
    BY <2>1, CountIs
  <2> HIDE DEF n
  <2> QED BY <2>1, <2>4, <2>6, <2>7
<1> QED BY <1>1, TypeCorrect, PTL
=============================================================================
