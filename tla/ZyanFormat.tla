----------------------------- MODULE ZyanFormat -----------------------------
(***************************************************************************)
(* The calls that append numbers and formatted text to a string            *)
(* (src/src/Format.c), and with them the whole life of one string.         *)
(*                                                                         *)
(* What vsnprintf makes of a format and its arguments is one of            *)
(* FormatTexts, NoText being a failure before the first character.         *)
(***************************************************************************)
EXTENDS ZyanString

CONSTANTS DecValues,          \* numbers the calls are given
          HexValues,
          Paddings,
          Prefixes,           \* views, or NoPrefix for ZYAN_NULL
          NoPrefix,
          FormatTexts,
          NoText,
          FormatFits          \* only text that fits the capacity is formatted

ASSUME FormatAssumption ==
  /\ DecValues \subseteq Int /\ HexValues \subseteq Int /\ Paddings \subseteq Nat
  /\ \A p \in Prefixes : p = NoPrefix \/ /\ p.size \in Nat /\ p.data \in Seq(Char)
                                         /\ p.size <= Len(p.data) + 1
  /\ \A c \in FormatTexts : c = NoText \/ c \in Seq(Char)
  /\ FormatFits \in BOOLEAN

Smaller(a, b) == IF a <= b THEN a ELSE b
Magnitude(n) == IF n < 0 THEN -n ELSE n

Zeros(n) == [i \in 1..n |-> 48]

-----------------------------------------------------------------------------
(* Decimal *)

\* Mutant: a full hundred is taken for a pair of figures
DecimalFiguresShort(v) ==
  LET pair(k) == <<48 + ((k % 100) \div 10), 48 + (k % 10)>>
      pairs[k \in Nat] == IF k > 100 THEN pairs[k \div 100] \o pair(k) ELSE pair(k)
  IN  IF pairs[v][1] = 48 THEN Tail(pairs[v]) ELSE pairs[v]

\* Two figures at a time, as DECIMAL_LOOKUP holds them; the zero of a first
\* pair that is below ten is left out
DecimalFigures(v) ==
  LET pair(k) == <<48 + ((k % 100) \div 10), 48 + (k % 10)>>
      pairs[k \in Nat] == IF k >= 100 THEN pairs[k \div 100] \o pair(k) ELSE pair(k)
  IN  IF pairs[v][1] = 48 THEN Tail(pairs[v]) ELSE pairs[v]

AppendDecU(s, v, padding) ==
  LET figures == DecimalFigures(v)
      total == Larger(Len(figures), padding)
      grown == IF s.size + total > Len(s.data) THEN ResizeTo(s, s.size + total)
                                               ELSE s
  IN  IF grown.status # "SUCCESS" THEN grown
      ELSE Store(grown, grown.data, s.size - 1,
                 Zeros(total - Len(figures)) \o figures, s.size + total)

-----------------------------------------------------------------------------
(* Hexadecimal *)

\* Mutant: the figures take the place of the padding's end
HexFiguresShifted(v, uppercase) ==
  LET shifted[i \in 0..15] == IF i = 0 THEN v ELSE shifted[i - 1] \div 16
      nibble == [i \in 0..15 |-> shifted[i] % 16]
      top == CHOOSE i \in 0..15 : \A j \in 0..15 :
               /\ i = 0 \/ nibble[i] # 0
               /\ j > i => nibble[j] = 0
      letter == IF uppercase THEN 55 ELSE 87
  IN  [k \in 1..(top + 1) |->
         IF nibble[top + 1 - k] <= 10 THEN 48 + nibble[top + 1 - k]
                                      ELSE letter + nibble[top + 1 - k]]

\* The figures from the first of 16 nibbles that is not zero on
HexFigures(v, uppercase) ==
  LET shifted[i \in 0..15] == IF i = 0 THEN v ELSE shifted[i - 1] \div 16
      nibble == [i \in 0..15 |-> shifted[i] % 16]
      top == CHOOSE i \in 0..15 : \A j \in 0..15 :
               /\ i = 0 \/ nibble[i] # 0
               /\ j > i => nibble[j] = 0
      letter == IF uppercase THEN 55 ELSE 87
  IN  [k \in 1..(top + 1) |->
         IF nibble[top + 1 - k] < 10 THEN 48 + nibble[top + 1 - k]
                                     ELSE letter + nibble[top + 1 - k]]

\* Mutant: room for the terminator's neighbour is counted twice
AppendHexUTight(s, v, padding, uppercase) ==
  LET figures == HexFigures(v, uppercase)
      n == IF v = 0 THEN Larger(padding, 1) ELSE Len(figures)
      padded == IF Len(s.data) - s.size < padding
                  THEN ResizeTo(s, s.size + padding) ELSE s
      remaining == IF Len(s.data) - s.size < padding
                     THEN padding ELSE Len(s.data) - s.size
      grown == IF padded.status = "SUCCESS" /\ remaining < n - 1
                 THEN ResizeTo(padded, padded.size + n) ELSE padded
      total == Larger(Len(figures), padding)
  IN  IF grown.status # "SUCCESS" THEN grown
      ELSE Store(grown, grown.data, s.size - 1,
                 Zeros(total - Len(figures)) \o figures, s.size + total)

\* The string is first made larger for the padding, and then, if what remains
\* does not do for the figures, for these
AppendHexU(s, v, padding, uppercase) ==
  LET figures == HexFigures(v, uppercase)
      n == IF v = 0 THEN Larger(padding, 1) ELSE Len(figures)
      padded == IF Len(s.data) - s.size < padding
                  THEN ResizeTo(s, s.size + padding) ELSE s
      remaining == IF Len(s.data) - s.size < padding
                     THEN padding ELSE Len(s.data) - s.size
      grown == IF padded.status = "SUCCESS" /\ remaining < n
                 THEN ResizeTo(padded, padded.size + n) ELSE padded
      total == Larger(Len(figures), padding)
  IN  IF grown.status # "SUCCESS" THEN grown
      ELSE Store(grown, grown.data, s.size - 1,
                 Zeros(total - Len(figures)) \o figures, s.size + total)

-----------------------------------------------------------------------------
(* Signed numbers: a sign, a prefix and a number, each a call of its own *)

Sign(c) == [data |-> <<c, NUL>>, size |-> 2]

\* Mutant: the prefix comes first
SignedPrefixFirst(s, v, force_sign, prefix) ==
  LET prefixed == IF prefix = NoPrefix THEN s ELSE StringAppend(s, prefix)
  IN  IF v < 0 THEN StringAppend(prefixed, Sign(45))
      ELSE IF force_sign THEN StringAppend(prefixed, Sign(43)) ELSE prefixed

Signed(s, v, force_sign, prefix) ==
  LET signed == IF v < 0 THEN StringAppend(s, Sign(45))
                ELSE IF force_sign THEN StringAppend(s, Sign(43)) ELSE s
  IN  IF prefix = NoPrefix THEN signed ELSE StringAppend(signed, prefix)

AppendDecS(s, v, padding, force_sign, prefix) ==
  LET t == Signed(s, v, force_sign, prefix) IN
  IF t.status # "SUCCESS" THEN t ELSE AppendDecU(t, Magnitude(v), padding)

AppendHexS(s, v, padding, uppercase, force_sign, prefix) ==
  LET t == Signed(s, v, force_sign, prefix) IN
  IF t.status # "SUCCESS" THEN t
  ELSE AppendHexU(t, Magnitude(v), padding, uppercase)

-----------------------------------------------------------------------------
(* Formatted text *)

\* The text is written to the capacity there is; when it does not fit, what
\* fits has overwritten the NUL before the string is made larger.  The second
\* vsnprintf is given arguments that the first has read: it writes any text at
\* all and may fail, which is what `again` tells; the string stays larger.
AppendFormat(s, chars, again) ==
  LET w == Len(chars)
      room == Len(s.data) - s.size
      cut == [s EXCEPT !.data = V(s)!MemCpy(s.data, s.size - 1,
                                  SubSeq(chars, 1, Smaller(w, room)) \o <<NUL>>)]
      grown == ResizeTo(cut, s.size + w)
  IN  IF chars = NoText THEN Fails(s, "FAILED")
      ELSE IF w <= room THEN [cut EXCEPT !.size = s.size + w]
      ELSE IF grown.status # "SUCCESS" THEN grown
      ELSE [grown EXCEPT !.status = again,
                         !.data = [i \in DOMAIN grown.data |->
              IF i \in s.size..(s.size + Len(grown.data) - grown.size)
                THEN Undef ELSE grown.data[i]]]

-----------------------------------------------------------------------------
Unsigned(n) ==
  \/ \E v \in DecValues : v >= 0 /\ Call(AppendDecU(This, v, n))
  \/ \E v \in HexValues, up \in BOOLEAN :
       v >= 0 /\ Call(AppendHexU(This, v, n, up))

WithSign(n) ==
  \E force \in BOOLEAN, prefix \in Prefixes :
    \/ \E v \in DecValues : Call(AppendDecS(This, v, n, force, prefix))
    \/ \E v \in HexValues, up \in BOOLEAN :
         Call(AppendHexS(This, v, n, up, force, prefix))

Numbers == Live /\ \E n \in Paddings : Unsigned(n) \/ WithSign(n)

Fits(chars) == chars = NoText \/ Len(chars) <= Len(data) - size

\* What the second vsnprintf leads to
Again == {"SUCCESS", "FAILED"}

Formatting ==
  /\ Live
  /\ \E chars \in {c \in FormatTexts : FormatFits => Fits(c)}, again \in Again :
       Call(AppendFormat(This, chars, again))

Next == Calls \/ Numbers \/ Formatting

Spec == Init /\ [][Next]_vars

-----------------------------------------------------------------------------
(* Properties *)

\* A string ends with a NUL after every call, one that reported an error
\* included (String.h:91: "null-termination is guaranteed at all times").
Terminated == Live => size \in 1..Len(data) /\ data[size] = NUL

Promise == INSTANCE Text

\* What a string means to its users
Meaning(s) ==
  [chars |-> SubSeq(GetData(s), 1, GetSize(s)), status |-> s.status,
   limit |-> IF fixed THEN GetCapacity(s) ELSE Promise!Unlimited]

\* A string that is made of others has exactly their characters, in their
\* order, when it is made at all (ZyanStringDuplicate*, ZyanStringConcat*).
CreatedWith(chars) ==
  status' = "SUCCESS" => SubSeq(data', 1, size' - 1) = chars
Creates ==
  [][data = << >> =>
       \A v \in Sources, c \in Capacities \cup BufferCapacities,
          g \in GrowthFactors, t \in ShrinkThresholds :
         /\ InitEx(c, g, t) \/ InitCustomBuffer(c) => CreatedWith(<< >>)
         /\ DuplicateEx(v, c, g, t) \/ DuplicateCustomBuffer(v, c)
              => CreatedWith(Shown(v))
         /\ \A w \in Sources :
              ConcatEx(v, w, c, g, t) \/ ConcatCustomBuffer(v, w, c)
                => CreatedWith(Shown(v) \o Shown(w))]_vars

\* A call that takes text does to the string's text what it promises, or
\* refuses for the reason it promises and leaves the text alone: whatever the
\* growth of the block and the way of the terminator.
TextCallsImplement ==
  Live => LET m == Meaning(This) IN \A v \in Sources :
    /\ Meaning(StringAppend(This, v)) = Promise!AppendChars(m, Shown(v))
    /\ \A i, n \in 0..v.size : Meaning(AppendEx(This, v, i, n))
                               = Promise!AppendPart(m, Shown(v), i, n)
    /\ \A k \in Indices :
         /\ Meaning(Insert(This, k, v)) = Promise!Insert(m, k, Shown(v))
         /\ k <= Len(m.chars) + 1 => \A i, n \in 0..v.size :
              Meaning(InsertEx(This, k, v, i, n))
                = Promise!InsertPart(m, k, Shown(v), i, n)

\* So does every call that reads, deletes or changes characters or the block.
ChangesImplement ==
  Live => LET m == Meaning(This) IN
    /\ \A i, n \in Indices :
         /\ Meaning(Delete(This, i, n)) = Promise!Delete(m, i, n)
         /\ Meaning(ToLowerCaseEx(This, i, n)) = Promise!ToLowerCase(m, i, n)
         /\ Meaning(ToUpperCaseEx(This, i, n)) = Promise!ToUpperCase(m, i, n)
    /\ \A i \in Indices :
         /\ GetChar(This, i) = Promise!GetChar(m, i)
         /\ Meaning(Truncate(This, i)) = Promise!Truncate(m, i)
         /\ \A c \in Letters :
              Meaning(SetChar(This, i, c)) = Promise!SetChar(m, i, c)
    /\ \A n \in Indices :
         /\ Meaning(Resize(This, n)).status = Promise!Resize(m, n).status
         /\ size > n => Meaning(Resize(This, n)) = Promise!Resize(m, n)
    /\ \A c \in Capacities : Meaning(Reserve(This, c)) = Promise!Reserve(m, c)
    /\ Meaning(ShrinkToFit(This)) = Promise!ShrinkToFit(m)
    /\ Meaning(Clear(This)) = Promise!Clear(m)

\* A number is appended with the figures it has in its base, zeros in front up
\* to the padding, and behind its sign and prefix; of a number that does not
\* fit, the sign and the prefix stay if they do.
NumbersImplement ==
  Live => LET m == Meaning(This)
              letters(up) == IF up THEN 65 ELSE 97 IN
    \A n \in Paddings :
      /\ \A v \in DecValues : v >= 0 =>
           Meaning(AppendDecU(This, v, n)) = Promise!AppendDecimal(m, v, n)
      /\ \A v \in HexValues, up \in BOOLEAN : v >= 0 =>
           Meaning(AppendHexU(This, v, n, up))
             = Promise!AppendHexadecimal(m, v, n, letters(up))
      /\ \A force \in BOOLEAN, prefix \in Prefixes :
           LET front == IF prefix = NoPrefix THEN << >> ELSE Shown(prefix)
               begun(v) == Promise!Signed(m, v, force, front) IN
           /\ \A v \in DecValues :
                Meaning(AppendDecS(This, v, n, force, prefix))
                  = Promise!AppendDecimal(begun(v), Magnitude(v), n)
           /\ \A v \in HexValues, up \in BOOLEAN :
                Meaning(AppendHexS(This, v, n, up, force, prefix))
                  = Promise!AppendHexadecimal(begun(v), Magnitude(v), n,
                                              letters(up))

\* Formatted text that fits is appended, and nothing is when there is none.
FormatImplements ==
  Live => LET m == Meaning(This) IN
    \A chars \in FormatTexts, again \in Again : Fits(chars) =>
      Meaning(AppendFormat(This, chars, again))
        = IF chars = NoText THEN Promise!Refused(m, "FAILED")
          ELSE Promise!AppendChars(m, chars)

\* In every state, each call of String.c and Format.c, whatever it is given,
\* does to the text what it promises, however the block grows and the
\* terminator moves, or refuses for the reason it promises; and none writes
\* outside the block, which no promise has for a status.
CallsImplement ==
  TextCallsImplement /\ ChangesImplement /\ NumbersImplement /\ FormatImplements
=============================================================================
