-------------------------- MODULE ZyanStringSearch --------------------------
(***************************************************************************)
(* Searching a string and comparing it with others (src/src/String.c).     *)
(* `fold` tells the variant that ignores the case of letters: ZyanStringL- *)
(* PosIEx is LPosEx with fold.                                             *)
(*                                                                         *)
(* An answer is the index that is found, -1, or a status.  Each loop of    *)
(* the code is a recursive function of its counter.                        *)
(***************************************************************************)
EXTENDS ZyanString

NotFound == -1
OutOfRange == -2                    \* ZYAN_STATUS_OUT_OF_RANGE

\* The character at a position that counts from 0
At(view, k) == IF k < Len(view.data) THEN view.data[k + 1] ELSE Undef

\* c ^ 32 and c | 32
Flipped(c) == IF (c \div 32) % 2 = 0 THEN c + 32 ELSE c - 32
Lowered(c) == IF (c \div 32) % 2 = 0 THEN c + 32 ELSE c

\* Mutant: only an upper case character of the needle matches both
SameUpper(c, d, fold) == c = d \/ (fold /\ d < 97 /\ Flipped(c) = d)

Same(c, d, fold) == c = d \/ (fold /\ Flipped(c) = d)

\* There is nothing to search
Hopeless(h, needle) == h.size = 1 \/ needle.size = 1 \/ h.size < needle.size

\* How the needle goes with what stands at s, in the characters up to `end`:
\* the needle is read up to its NUL
LMatch(h, needle, s, end, fold) ==
  LET match[k \in Nat] ==
        IF s + k > end THEN "left"
        ELSE IF At(needle, k) = NUL THEN "found"
        ELSE IF ~Same(At(h, s + k), At(needle, k), fold) THEN "no"
        ELSE match[k + 1]
  IN  match[0]

\* Mutant: the range is one too long
LPosLong(h, needle, index, count, fold) ==
  LET scan[s \in Nat] ==
        IF s + 1 >= h.size THEN NotFound
        ELSE IF ~Same(At(h, s), At(needle, 0), fold) THEN scan[s + 1]
        ELSE CASE LMatch(h, needle, s, index + count + 1, fold) = "left"  -> NotFound
               [] LMatch(h, needle, s, index + count + 1, fold) = "found" -> s
               [] OTHER -> scan[s + 1]
  IN  IF index + count >= h.size THEN OutOfRange
      ELSE IF Hopeless(h, needle) THEN NotFound
      ELSE scan[index]

\* A match that leaves the range ends the search
LPosEx(h, needle, index, count, fold) ==
  LET scan[s \in Nat] ==
        IF s + 1 >= h.size THEN NotFound
        ELSE IF ~Same(At(h, s), At(needle, 0), fold) THEN scan[s + 1]
        ELSE CASE LMatch(h, needle, s, index + count, fold) = "left"  -> NotFound
               [] LMatch(h, needle, s, index + count, fold) = "found" -> s
               [] OTHER -> scan[s + 1]
  IN  IF index + count >= h.size THEN OutOfRange
      ELSE IF Hopeless(h, needle) THEN NotFound
      ELSE scan[index]

LPos(h, needle, fold) == LPosEx(h, needle, 0, h.size - 1, fold)

\* How the needle goes with what ends at s, in the characters from `begin` on:
\* the needle is read from its end to its first character
RMatch(h, needle, s, begin, fold) ==
  LET last == needle.size - 2
      match[k \in Nat] ==
        IF k > last THEN "found"
        ELSE IF s - k < begin THEN "left"
        ELSE IF ~Same(At(h, s - k), At(needle, last - k), fold) THEN "no"
        ELSE match[k + 1]
  IN  match[0]

RPosEx(h, needle, index, count, fold) ==
  LET last == needle.size - 2
      scan[s \in Nat \cup {-1}] ==
        IF s < 0 THEN NotFound
        ELSE IF ~Same(At(h, s), At(needle, last), fold) THEN scan[s - 1]
        ELSE CASE RMatch(h, needle, s, index - count, fold) = "left"  -> NotFound
               [] RMatch(h, needle, s, index - count, fold) = "found" -> s - last
               [] OTHER -> scan[s - 1]
  IN  IF index >= h.size \/ count > index THEN OutOfRange
      ELSE IF index = 0 \/ count = 0 \/ Hopeless(h, needle) THEN NotFound
      ELSE scan[index - 1]

RPos(h, needle, fold) == RPosEx(h, needle, h.size - 1, h.size - 1, fold)

\* Mutant: the loop stops one character early
CompareShort(s1, s2, fold) ==
  LET i == CHOOSE i \in 0..s1.size :
             /\ \/ i + 2 >= s1.size
                \/ ~Same(At(s1, i), At(s2, i), fold)
             /\ \A j \in 0..(i - 1) : /\ j + 2 < s1.size
                                      /\ Same(At(s1, j), At(s2, j), fold)
  IN  IF s1.size < s2.size THEN -1
      ELSE IF s1.size > s2.size THEN 1
      ELSE IF At(s1, i) = At(s2, i) THEN 0
      ELSE IF Lowered(At(s1, i)) < Lowered(At(s2, i)) THEN -1 ELSE 1

\* The shorter string is the lesser one; of two as long, the first position i
\* that differs decides, or the one behind the end
Compare(s1, s2, fold) ==
  LET i == CHOOSE i \in 0..s1.size :
             /\ \/ i + 1 >= s1.size
                \/ ~Same(At(s1, i), At(s2, i), fold)
             /\ \A j \in 0..(i - 1) : /\ j + 1 < s1.size
                                      /\ Same(At(s1, j), At(s2, j), fold)
  IN  IF s1.size < s2.size THEN -1
      ELSE IF s1.size > s2.size THEN 1
      ELSE IF At(s1, i) = At(s2, i) THEN 0
      ELSE IF Lowered(At(s1, i)) < Lowered(At(s2, i)) THEN -1 ELSE 1

-----------------------------------------------------------------------------
(* Properties *)

\* The string as what is searched: its characters are known
Searched == [data |-> SubSeq(data, 1, size), size |-> size]
Searchable == Live /\ \A i \in 1..size : data[i] # Undef

Folded(chars, fold) ==
  [i \in DOMAIN chars |-> IF fold THEN Lower[chars[i]] ELSE chars[i]]

\* Where a needle occurs within the characters from..to - 1
Occurrences(needle, from, to, fold) ==
  LET h == Folded(Shown(Searched), fold)
      n == Folded(Shown(needle), fold)
  IN  {p \in from..(to - Len(n)) : n # << >> /\ SubSeq(h, p + 1, p + Len(n)) = n}

First(ps) == IF ps = {} THEN NotFound
             ELSE CHOOSE p \in ps : \A q \in ps : p <= q
Last(ps) == IF ps = {} THEN NotFound
            ELSE CHOOSE p \in ps : \A q \in ps : p >= q

\* In a text of letters, a search from the left finds the first occurrence that
\* lies within its range, one from the right the last; the shortcuts of the
\* loops (the end of the range, the check of the first character) never make
\* them miss one, and a needle longer than what is left is not found.
SearchesFind ==
  Searchable => \A needle \in Sources, fold \in BOOLEAN :
    /\ \A index \in 0..size, count \in 0..size :
         /\ index + count < size =>
              LPosEx(Searched, needle, index, count, fold)
                = First(Occurrences(needle, index, index + count, fold))
         /\ index < size /\ count <= index =>
              RPosEx(Searched, needle, index, count, fold)
                = Last(Occurrences(needle, index - count, index, fold))
    /\ LPos(Searched, needle, fold)
         = First(Occurrences(needle, 0, size - 1, fold))
    /\ RPos(Searched, needle, fold)
         = Last(Occurrences(needle, 0, size - 1, fold))

\* Two strings as long, and the first character in which they differ is the
\* same letter in both cases
CaseDecides(s1, s2) ==
  /\ s1.size = s2.size
  /\ \E i \in 0..(s1.size - 2) :
       /\ At(s1, i) # At(s2, i) /\ Lowered(At(s1, i)) = Lowered(At(s2, i))
       /\ \A j \in 0..(i - 1) : At(s1, j) = At(s2, j)

\* Two strings compare equal when their texts are the same, up to the case of
\* letters in the variant that ignores it, and then only; which is the lesser
\* one does not depend on which is named first, unless the variant that does
\* not ignore the case has nothing but a case to decide by.
ComparisonsOrder ==
  Searchable => \A v \in Sources, fold \in BOOLEAN :
    /\ (Compare(Searched, v, fold) = 0)
         = (Folded(Shown(Searched), fold) = Folded(Shown(v), fold))
    /\ fold \/ ~CaseDecides(Searched, v) =>
         Compare(Searched, v, fold) = -Compare(v, Searched, fold)

\* Both variants order the strings they are given: the first is the lesser one
\* of the two just when the second is the greater one if they are exchanged
\* (String.h:836-840: "`result  < 0` -> The first character that does not match
\* has a lower value in `s1` than in `s2`", "`result  > 0` -> The first
\* character that does not match has a greater value in `s1` than in `s2`").
\* ZyanStringCompare, too, sets the case bit before it compares: of "a" and "A"
\* each is greater than the other.
ComparisonsExchange ==
  Searchable => \A v \in Sources, fold \in BOOLEAN :
    Compare(Searched, v, fold) = -Compare(v, Searched, fold)
=============================================================================
