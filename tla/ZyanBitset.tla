----------------------------- MODULE ZyanBitset -----------------------------
(***************************************************************************)
(* One ZyanBitset (src/src/Bitset.c): a number of bits and a vector of the *)
(* bytes that hold them, the first bit in the top bit of the first byte.   *)
(*                                                                         *)
(* The vector is what module ElementSequence promises of one: a sequence   *)
(* of bytes to which a push appends, unless a fixed buffer is full.  The   *)
(* allocator never refuses memory here; ZyanVector shows what a vector     *)
(* does after that.  A byte is the set of its bits that are 1, bit k being *)
(* worth 2^k.  A call is one action; `status` is what the last returned.   *)
(***************************************************************************)
EXTENDS Integers, Sequences

CONSTANTS MaxBits,      \* bound: bits a push may bring the bitset to
          USizeRange,   \* how many values a ZyanUSize has, a power of two
          Counts,       \* numbers of bits Init is asked for
          Buffers,      \* capacities in bytes; Dynamic stands for no buffer
          Indices,      \* indices a bit is accessed at
          Sources,      \* second operands of AND, OR and XOR
          PopsEmpty     \* do callers pop an empty bitset?

Dynamic == -1

ASSUME BitsetAssumption == /\ MaxBits \in Nat /\ USizeRange \in Nat
                           /\ MaxBits < USizeRange /\ USizeRange % 8 = 0
                           /\ Counts \subseteq 0..MaxBits
                           /\ Indices \subseteq Nat
                           /\ Buffers \subseteq Nat \cup {Dynamic}
                           /\ \A s \in Sources : s.bytes \in Seq(SUBSET (0..7))
                           /\ PopsEmpty \in BOOLEAN

VARIABLES size, bytes, capacity, live, status

vars == <<size, bytes, capacity, live, status>>

Byte == SUBSET (0..7)

\* Mutant: the bits of a byte are counted from one
BitFromOne(index) == 8 - (index % 8)
Bit(index) == 7 - (index % 8)            \* ZYAN_BITSET_BIT_OFFSET
Word(n) == n % USizeRange

\* The bit at an index, by the layout of the bytes
BitOf(bs, index) == /\ index \div 8 < Len(bs)
                    /\ Bit(index) \in bs[index \div 8 + 1]

\* ZyanBitsetGetSize and the others that tell a number
GetSize == size
GetSizeBytes == Len(bytes)

Contents == [i \in 1..size |-> BitOf(bytes, i - 1)]

\* ZYAN_BITSET_BITS_TO_BYTES: the division is one of integers, so there is
\* nothing left for ZYAN_BITSET_CEIL to round up
BitsToBytes(count) == count \div 8

-----------------------------------------------------------------------------
(* How a call ends *)

Answer(s) == status' = s /\ UNCHANGED <<size, bytes, capacity, live>>
Become(bs) == bytes' = bs /\ status' = "SUCCESS" /\ UNCHANGED <<size, capacity, live>>

\* Only the vector looks at the capacity
Full(n) == capacity # Dynamic /\ n > capacity

-----------------------------------------------------------------------------
(* Construction and destruction *)

Init == /\ size = 0 /\ bytes = << >> /\ capacity = Dynamic
        /\ live = FALSE /\ status = "SUCCESS"

Zeros(n) == [i \in 1..n |-> {}]

InitEx(count, growth_factor) ==
  /\ ~live
  /\ size' = count
  /\ IF growth_factor < 1
       THEN status' = "INVALID_ARGUMENT" /\ UNCHANGED <<bytes, capacity, live>>
       ELSE /\ bytes' = Zeros(BitsToBytes(count)) /\ capacity' = Dynamic
            /\ live' = TRUE /\ status' = "SUCCESS"

InitBuffer(count, c) ==
  /\ ~live
  /\ IF c < BitsToBytes(count) THEN Answer("INSUFFICIENT_BUFFER_SIZE")
     ELSE /\ size' = count
          /\ IF c = 0
               THEN status' = "INVALID_ARGUMENT" /\ UNCHANGED <<bytes, capacity, live>>
               ELSE /\ bytes' = Zeros(BitsToBytes(count)) /\ capacity' = c
                    /\ live' = TRUE /\ status' = "SUCCESS"

\* The vector's memory is gone; the bitset keeps its size
Destroy == /\ live /\ live' = FALSE /\ bytes' = << >> /\ status' = "SUCCESS"
           /\ UNCHANGED <<size, capacity>>

-----------------------------------------------------------------------------
(* Bit access.  Two checks guard an access: the bitset's, that the bit is   *)
(* below its size, and the vector's, that the byte exists.                  *)

\* Byte Op(byte, bit) replaces the one that holds the bit at index, in a
\* bitset of n bits
Written(bs, n, index, Op(_, _)) ==
  IF index >= n \/ index \div 8 >= Len(bs)
    THEN [status |-> "OUT_OF_RANGE", bytes |-> bs]
    ELSE [status |-> "SUCCESS",
          bytes  |-> [bs EXCEPT ![index \div 8 + 1] = Op(@, Bit(index))]]

SetBit(byte, bit) == byte \cup {bit}
ResetBit(byte, bit) == byte \ {bit}
ToggleBit(byte, bit) == IF bit \in byte THEN byte \ {bit} ELSE byte \cup {bit}

Assigned(bs, n, index, value) == IF value THEN Written(bs, n, index, SetBit)
                                          ELSE Written(bs, n, index, ResetBit)

Store(r) == /\ status' = r.status /\ bytes' = r.bytes
            /\ UNCHANGED <<size, capacity, live>>

\* Mutant: an index behind the end is noticed after the last byte was written
SetFirst(index) ==
  /\ live
  /\ IF index < size THEN Store(Written(bytes, size, index, SetBit))
     ELSE /\ status' = "OUT_OF_RANGE"
          /\ bytes' = IF bytes = << >> THEN bytes
                      ELSE [bytes EXCEPT ![Len(bytes)] = @ \cup {Bit(index)}]
          /\ UNCHANGED <<size, capacity, live>>

Set(index) == live /\ Store(Written(bytes, size, index, SetBit))
Reset(index) == live /\ Store(Written(bytes, size, index, ResetBit))
Assign(index, value) == live /\ Store(Assigned(bytes, size, index, value))
Toggle(index) == live /\ Store(Written(bytes, size, index, ToggleBit))

Test(index) ==
  /\ live
  /\ Answer(IF index >= size \/ index \div 8 >= Len(bytes) THEN "OUT_OF_RANGE"
            ELSE IF BitOf(bytes, index) THEN "TRUE" ELSE "FALSE")

TestMSB == Test(Word(size - 1))
TestLSB == Test(0)

-----------------------------------------------------------------------------
(* Whole bytes *)

EachByte(Op(_)) == live /\ Become([i \in 1..Len(bytes) |-> Op(bytes[i])])

SetAll == EachByte(LAMBDA byte : 0..7)
ResetAll == EachByte(LAMBDA byte : {})
Flip == EachByte(LAMBDA byte : (0..7) \ byte)

OperationAND(v1, v2) == v1 \cap v2
OperationOR(v1, v2) == v1 \cup v2
OperationXOR(v1, v2) == (v1 \cup v2) \ (v1 \cap v2)

\* The bytes both have; those only the destination has stay as they are
PerformByteOperation(source, operation(_, _)) ==
  /\ live
  /\ Become([i \in 1..Len(bytes) |->
               IF i <= Len(source.bytes) THEN operation(bytes[i], source.bytes[i])
                                         ELSE bytes[i]])

AND(source) == PerformByteOperation(source, OperationAND)
OR(source) == PerformByteOperation(source, OperationOR)
XOR(source) == PerformByteOperation(source, OperationXOR)

-----------------------------------------------------------------------------
(* Size management *)

\* Mutant: the new bit is left as the byte has it
PushUnassigned(value) ==
  /\ live /\ size < MaxBits
  /\ size' = Word(size + 1)
  /\ status' = "SUCCESS"
  /\ bytes' = IF size % 8 = 0 THEN Append(bytes, {}) ELSE bytes
  /\ UNCHANGED <<capacity, live>>

\* The size is counted up before the vector is asked for a byte
Push(value) ==
  LET grown == IF size % 8 = 0 THEN Append(bytes, {}) ELSE bytes
      r == Assigned(grown, Word(size + 1), Word(Word(size + 1) - 1), value)
  IN
  /\ live /\ size < MaxBits
  /\ size' = Word(size + 1)
  /\ IF size % 8 = 0 /\ Full(Len(bytes) + 1)
       THEN status' = "INSUFFICIENT_BUFFER_SIZE" /\ UNCHANGED bytes
       ELSE status' = r.status /\ bytes' = r.bytes
  /\ UNCHANGED <<capacity, live>>

\* Mutant: the byte of the last bit is kept
PopKeepingByte ==
  /\ live /\ (size > 0 \/ PopsEmpty)
  /\ size' = Word(size - 1)
  /\ status' = "SUCCESS"
  /\ UNCHANGED <<bytes, capacity, live>>

\* The size is counted down without a look at it
Pop ==
  /\ live /\ (size > 0 \/ PopsEmpty)
  /\ size' = Word(size - 1)
  /\ IF size' % 8 # 0 THEN status' = "SUCCESS" /\ UNCHANGED bytes
     ELSE IF bytes = << >> THEN status' = "OUT_OF_RANGE" /\ UNCHANGED bytes
     ELSE status' = "SUCCESS" /\ bytes' = [i \in 1..(Len(bytes) - 1) |-> bytes[i]]
  /\ UNCHANGED <<capacity, live>>

Clear == /\ live /\ size' = 0 /\ bytes' = << >> /\ status' = "SUCCESS"
         /\ UNCHANGED <<capacity, live>>

Reserve(count) ==
  live /\ Answer(IF Full(BitsToBytes(count)) THEN "INSUFFICIENT_BUFFER_SIZE"
                                             ELSE "SUCCESS")
ShrinkToFit == live /\ Answer("SUCCESS")

-----------------------------------------------------------------------------
(* Checking *)

BitsOf(value) == {k \in 0..7 : (value \div 2^k) % 2 = 1}

\* The bits of the last byte the checks look at: ~(8 - size % 8), as a byte
Mask == BitsOf(255 - (8 - (size % 8)))

\* What a check demands of byte i is demanded of the last one's masked bits
Looked(i) == IF i < Len(bytes) THEN 0..7 ELSE Mask

All == \A i \in 1..Len(bytes) : Looked(i) \subseteq bytes[i]
Any == \E i \in 1..Len(bytes) : Looked(i) \cap bytes[i] # {}
None == \A i \in 1..Len(bytes) : Looked(i) \cap bytes[i] = {}

Check(holds) == live /\ Answer(IF holds THEN "TRUE" ELSE "FALSE")

-----------------------------------------------------------------------------
Construct == \E n \in Counts : \/ \E g \in {0, 2} : Dynamic \in Buffers /\ InitEx(n, g)
                               \/ \E c \in Buffers \ {Dynamic} : InitBuffer(n, c)

Access == \E i \in Indices : \/ Set(i) \/ Reset(i) \/ Toggle(i) \/ Test(i)
                             \/ \E v \in BOOLEAN : Assign(i, v)

Bytewise == \/ SetAll \/ ResetAll \/ Flip
            \/ \E s \in Sources : AND(s) \/ OR(s) \/ XOR(s)

Resize == \/ \E v \in BOOLEAN : Push(v)
          \/ Pop \/ Clear \/ ShrinkToFit
          \/ \E n \in Counts : Reserve(n)

Query == TestMSB \/ TestLSB \/ Check(All) \/ Check(Any) \/ Check(None)

Next == Construct \/ Destroy \/ Access \/ Bytewise \/ Resize \/ Query

Spec == Init /\ [][Next]_vars
-----------------------------------------------------------------------------
(* Properties *)

\* Every variable holds a value of its type.
TypeOK == /\ size \in 0..(USizeRange - 1)
          /\ bytes \in Seq(Byte)
          /\ capacity \in Nat \cup {Dynamic}
          /\ live \in BOOLEAN
          /\ status \in {"SUCCESS", "TRUE", "FALSE", "INVALID_ARGUMENT",
                         "OUT_OF_RANGE", "INSUFFICIENT_BUFFER_SIZE"}

\* The bytes of a bitset with memory of its own are exactly those needed to
\* fit its bits (Bitset.c:56: "The amount of bytes needed to fit `x` bits.").
\* They are not when it is made with a part of a byte: the division cuts that
\* part off.
BytesFit == live /\ capacity = Dynamic => GetSizeBytes = (GetSize + 7) \div 8

\* The bytes a bitset is short of
Missing == (GetSize + 7) \div 8 - GetSizeBytes

\* No call on such a bitset takes a byte its bits need or leaves one they do
\* not need, whatever it was made with and whatever was pushed, popped and
\* cleared: it is never short of more bytes than before, and never has one
\* too many.
BytesKept == [][live /\ live' /\ capacity = Dynamic => Missing' \in 0..Missing]_vars

\* The bits that are set in the bitset, those behind its end left out
SetBits == {i \in 0..(size - 1) : BitOf(bytes, i)}

\* A call that reports an error leaves every bit that is still there as it
\* was, also when the buffer ran full in the middle of it.
ErrorsKeepBits ==
  [][live /\ live' /\ status' \notin {"SUCCESS", "TRUE", "FALSE"}
       => \A i \in SetBits \cup SetBits' :
            i < size /\ i < size' => (i \in SetBits <=> i \in SetBits')]_vars

\* Each call on a bitset that has the bytes it needs does to the string of
\* bits what its namesake does, although it works on whole bytes whose bits
\* behind the end hold anything.
Bits == INSTANCE BitString WITH bits <- Contents
CallsImplement ==
  [][capacity = Dynamic /\ Missing = 0 =>
     /\ \A i \in Indices : /\ Set(i) => Bits!Set(i)
                           /\ Reset(i) => Bits!Reset(i)
                           /\ Toggle(i) => Bits!Toggle(i)
                           /\ Test(i) => Bits!Test(i)
     /\ SetAll => Bits!SetAll
     /\ ResetAll => Bits!ResetAll
     /\ Flip => Bits!Flip
     /\ \A v \in BOOLEAN : Push(v) => Bits!Push(v)
     /\ Pop => Bits!Pop
     /\ Clear => Bits!Clear
     /\ \A s \in Sources :
          LET source == [i \in 1..s.size |-> BitOf(s.bytes, i - 1)] IN
          /\ AND(s) => Bits!And(source)
          /\ OR(s) => Bits!Or(source)
          /\ XOR(s) => Bits!Xor(source)]_vars
=============================================================================
