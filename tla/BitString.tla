----------------------------- MODULE BitString -----------------------------
(***************************************************************************)
(* What a bitset promises, call by call: a string of bits, counted from    *)
(* zero, without bytes and without bits behind the last.                   *)
(***************************************************************************)
EXTENDS Integers, Sequences

VARIABLES bits, status

Answer(s) == status' = s /\ UNCHANGED bits
Becomes(b) == bits' = b /\ status' = "SUCCESS"

At(index, value) == IF index >= Len(bits) THEN Answer("OUT_OF_RANGE")
                    ELSE Becomes([bits EXCEPT ![index + 1] = value])

Set(index) == At(index, TRUE)
Reset(index) == At(index, FALSE)
Toggle(index) == At(index, ~bits[index + 1])
Test(index) == IF index >= Len(bits) THEN Answer("OUT_OF_RANGE")
               ELSE Answer(IF bits[index + 1] THEN "TRUE" ELSE "FALSE")

SetAll == Becomes([i \in 1..Len(bits) |-> TRUE])
ResetAll == Becomes([i \in 1..Len(bits) |-> FALSE])
Flip == Becomes([i \in 1..Len(bits) |-> ~bits[i]])

Push(value) == Becomes(Append(bits, value))
Pop == Becomes(SubSeq(bits, 1, Len(bits) - 1))
Clear == Becomes(<< >>)

\* Bits behind the end of the source are undefined afterwards
Combine(source, Op(_, _)) ==
  /\ status' = "SUCCESS" /\ Len(bits') = Len(bits)
  /\ \A i \in 1..Len(bits') :
        /\ bits'[i] \in BOOLEAN
        /\ i <= Len(source) => bits'[i] = Op(bits[i], source[i])

Both(a, b) == a /\ b
Either(a, b) == a \/ b
Different(a, b) == a # b

And(source) == Combine(source, Both)
Or(source) == Combine(source, Either)
Xor(source) == Combine(source, Different)
=============================================================================
