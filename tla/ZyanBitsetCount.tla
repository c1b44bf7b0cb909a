-------------------------- MODULE ZyanBitsetCount --------------------------
(***************************************************************************)
(* ZyanBitsetCount, the query of a bitset that works on its bytes as       *)
(* numbers.  It changes nothing.                                           *)
(***************************************************************************)
EXTENDS ZyanBitset, FiniteSets

\* The number that has eight binary digits, and the digit of a number
Number(digit) ==
  digit[0] + 2 * digit[1] + 4 * digit[2] + 8 * digit[3]
    + 16 * digit[4] + 32 * digit[5] + 64 * digit[6] + 128 * digit[7]

Digit(value, k) == (value \div 2^k) % 2

\* A byte as a number
Value(byte) == Number([k \in 0..7 |-> IF k \in byte THEN 1 ELSE 0])

\* The bitwise AND of two bytes
And(x, y) == Number([k \in 0..7 |-> Digit(x, k) * Digit(y, k)])

\* Mutant: the last step takes the upper half twice
PopcntTwice(value) ==
  LET b == And(value, 85) + And(value \div 2, 85)
      c == And(b, 51) + And(b \div 4, 51)
  IN  And(c \div 16, 15) + And(c \div 16, 15)

\* The population count of a byte, summed up pairwise (0x55, 0x33, 0x0F)
Popcnt(value) ==
  LET b == And(value, 85) + And(value \div 2, 85)
      c == And(b, 51) + And(b \div 4, 51)
  IN  And(c, 15) + And(c \div 16, 15)

Count == LET sum[i \in 0..Len(bytes)] ==
               IF i = 0 THEN 0 ELSE sum[i - 1] + Popcnt(Value(bytes[i]))
         IN  IF sum[Len(bytes)] <= size THEN sum[Len(bytes)] ELSE size

-----------------------------------------------------------------------------
(* Properties *)

\* ZyanBitsetCount misses no bit, the popcount arithmetic and the cap by the
\* size included.  It may count too many: bits behind the end that a pop or a
\* flip left set are counted, too, up to the size.
CountMissesNone == live => Count >= Cardinality(SetBits)
=============================================================================
