-------------------------------- MODULE Text --------------------------------
(***************************************************************************)
(* What a string promises its users (Zycore/String.h, Format.h): a text    *)
(* that calls change, or refuse to change.  A string in a buffer of its    *)
(* user has a limit, and a call whose text would be longer is refused.     *)
(*                                                                         *)
(* A text is a record of its characters, the number it may have, and the   *)
(* status of the last call; each call is a function on such records.       *)
(***************************************************************************)
EXTENDS Integers, Sequences

CONSTANTS Char,
          Undef               \* stands for any character

Unlimited == -1

Fits(t, n) == t.limit = Unlimited \/ n <= t.limit
Refused(t, why) == [t EXCEPT !.status = why]

Become(t, chars) ==
  IF t.status # "SUCCESS" THEN t
  ELSE IF Fits(t, Len(chars)) THEN [t EXCEPT !.chars = chars]
  ELSE Refused(t, "INSUFFICIENT_BUFFER_SIZE")

\* count characters from index on make way for others
Splice(t, index, count, chars) ==
  Become(t, SubSeq(t.chars, 1, index) \o chars
              \o SubSeq(t.chars, index + count + 1, Len(t.chars)))

AppendChars(t, chars) == Splice(t, Len(t.chars), 0, chars)

\* The place after the terminator is taken for the end, and so is an insertion
\* of nothing at it the only one that is no mistake
Insert(t, index, chars) ==
  CASE index = Len(t.chars) + 1 -> AppendChars(t, chars)
    [] index > Len(t.chars) + 1 -> Refused(t, "OUT_OF_RANGE")
    [] index <= Len(t.chars) /\ chars = << >> -> Refused(t, "INVALID_ARGUMENT")
    [] OTHER -> Splice(t, index, 0, chars)

\* The same for a part of some other text
Part(chars, index, count) == SubSeq(chars, index + 1, index + count)
AppendPart(t, chars, index, count) ==
  IF index + count > Len(chars) THEN Refused(t, "OUT_OF_RANGE")
  ELSE AppendChars(t, Part(chars, index, count))
InsertPart(t, at, chars, index, count) ==
  IF index + count > Len(chars) THEN Refused(t, "OUT_OF_RANGE")
  ELSE Insert(t, at, Part(chars, index, count))

Delete(t, index, count) ==
  CASE index + count > Len(t.chars) -> Refused(t, "OUT_OF_RANGE")
    [] count = 0 /\ index <= Len(t.chars) -> Refused(t, "INVALID_ARGUMENT")
    [] OTHER -> Splice(t, index, count, << >>)

Truncate(t, index) ==
  IF index > Len(t.chars) THEN Refused(t, "OUT_OF_RANGE")
  ELSE Delete(t, index, Len(t.chars) - index)

Clear(t) == Become(t, << >>)

GetChar(t, index) ==
  IF index < Len(t.chars) THEN [value |-> t.chars[index + 1], status |-> "SUCCESS"]
                          ELSE [value |-> Undef, status |-> "OUT_OF_RANGE"]

SetChar(t, index, c) ==
  IF index >= Len(t.chars) THEN Refused(t, "OUT_OF_RANGE")
  ELSE Splice(t, index, 1, <<c>>)

\* Letters of one range are moved to the other
Shift(c, from, to) == IF c \in from..(from + 25) THEN c - from + to ELSE c
Recased(t, index, count, from, to) ==
  IF index + count > Len(t.chars) THEN Refused(t, "OUT_OF_RANGE")
  ELSE Splice(t, index, count,
              [i \in 1..count |->
                 IF t.chars[index + i] \in Char
                   THEN Shift(t.chars[index + i], from, to) ELSE Undef])
ToLowerCase(t, index, count) == Recased(t, index, count, 65, 97)
ToUpperCase(t, index, count) == Recased(t, index, count, 97, 65)

\* Characters a text gains by a resize are anything
Resize(t, n) ==
  IF n <= Len(t.chars) THEN Become(t, SubSeq(t.chars, 1, n))
  ELSE AppendChars(t, [i \in 1..(n - Len(t.chars)) |-> Undef])

\* The terminator is part of what is reserved
Reserve(t, n) ==
  IF Fits(t, n - 1) THEN t ELSE Refused(t, "INSUFFICIENT_BUFFER_SIZE")

ShrinkToFit(t) == t

-----------------------------------------------------------------------------
(* Numbers *)

Figure(k, letters) == IF k < 10 THEN 48 + k ELSE letters + k - 10

\* The figures of n in a base, most significant first, no zero in front
Figures(n, base, letters) ==
  LET power[i \in Nat] == IF i = 0 THEN 1 ELSE base * power[i - 1]
      last == CHOOSE i \in 0..19 : n < power[i + 1] /\ (i = 0 \/ n >= power[i])
  IN  [i \in 1..(last + 1) |->
         Figure((n \div power[last + 1 - i]) % base, letters)]

\* At least n figures, with zeros in front
Padded(chars, n) ==
  [i \in 1..(n - Len(chars)) |-> 48] \o chars

AppendDecimal(t, n, padding) ==
  AppendChars(t, Padded(Figures(n, 10, 97), padding))

AppendHexadecimal(t, n, padding, letters) ==
  AppendChars(t, Padded(Figures(n, 16, letters), padding))

\* A sign and a prefix come before a number; what fits of the three stays
Signed(t, n, force_sign, prefix) ==
  LET sign == IF n < 0 THEN <<45>> ELSE IF force_sign THEN <<43>> ELSE << >>
  IN  AppendChars(AppendChars(t, sign), prefix)

Magnitude(n) == IF n < 0 THEN -n ELSE n
=============================================================================
