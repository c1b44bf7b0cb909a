------------------------ MODULE ZyanStringCallProofs ------------------------
(***************************************************************************)
(* What each call on a string does to its text is what Text promises, for  *)
(* every allocation policy, buffer, text and number of 64 bits.            *)
(*                                                                         *)
(* A call asks for room, which only the buffer of a user refuses, and then *)
(* makes the cells those of the text promised; BecomesStored and SpliceIs  *)
(* say so once for the calls that add text, the others are seen cell by    *)
(* cell.  The figures of a number are compared with those that the powers  *)
(* of its base give.                                                       *)
(***************************************************************************)
EXTENDS ZyanStringProofs

-----------------------------------------------------------------------------
(***************************************************************************)
(* The calls and what is promised of them.  A string means the text before *)
(* its NUL, its status, and, in a buffer, the room there is.               *)
(***************************************************************************)

\* A buffer of the caller is never asked for more than is needed
Buffered == fixed => growth_factor = 1 /\ shrink_threshold = 0

LEMMA SameCells ==
  ASSUME NEW p, NEW q, IsCells(p), IsCells(q), Len(p) = Len(q),
         \A i \in 1..Len(p) : p[i] = q[i]
  PROVE  p = q
<1>1. p = [i \in 1..Len(p) |-> p[i]] /\ q = [i \in 1..Len(q) |-> q[i]]
  BY SeqIsFunction
<1> QED BY <1>1

LEMMA MeaningIs ==
  ASSUME NEW s, IsString(s)
  PROVE  LET m == Meaning(s) IN
           /\ m = [chars |-> m.chars, status |-> m.status, limit |-> m.limit]
           /\ m.status = s.status /\ m.limit = IF fixed THEN Len(s.data) - 1 ELSE -1
           /\ IsCells(m.chars) /\ Len(m.chars) = s.size - 1
           /\ \A i \in 1..(s.size - 1) : m.chars[i] = s.data[i]
<1> DEFINE q == SubSeq(s.data, 1, s.size - 1)
           why == s.status
           limit == IF fixed THEN Len(s.data) - 1 ELSE -1
<1>1. Meaning(s) = [chars |-> q, status |-> why, limit |-> limit]
  BY DEF Meaning, GetData, GetSize, GetCapacity, Promise!Unlimited
<1>2. IsCells(q) /\ Len(q) = s.size - 1 /\ \A i \in 1..(s.size - 1) : q[i] = s.data[i]
  <2> DEFINE d == s.data
             n == s.size - 1
  <2>1. IsCells(d) /\ n \in Nat /\ n <= Len(d) /\ 1 \in Nat \ {0} /\ 1 <= n + 1
    BY StringNumbers DEF IsString
  <2> HIDE DEF d, n
  <2>2. /\ IsCells(SubSeq(d, 1, n)) /\ Len(SubSeq(d, 1, n)) = n + 1 - 1
        /\ \A i \in 1..(n + 1 - 1) : SubSeq(d, 1, n)[i] = d[1 + i - 1]
    BY <2>1, PartIsSeq
  <2>3. n + 1 - 1 = n /\ \A i \in 1..n : 1 + i - 1 = i
    BY <2>1
  <2>4. \A i \in 1..n : SubSeq(d, 1, n)[i] = d[i]
    BY <2>2, <2>3
  <2> QED BY <2>2, <2>3, <2>4 DEF d, n
<1> HIDE DEF q, why, limit
<1> QED BY <1>1, <1>2 DEF why, limit

\* A string with the same block and size means the same text
LEMMA RefusedIs ==
  ASSUME NEW s, IsString(s), NEW why
  PROVE  Meaning(Fails(s, why)) = Promise!Refused(Meaning(s), why)
<1> DEFINE q == SubSeq(s.data, 1, s.size - 1)
           limit == IF fixed THEN Len(s.data) - 1 ELSE -1
           d == s.data
           n == s.size
           old == s.status
<1>1. Meaning(s) = [chars |-> q, status |-> old, limit |-> limit]
  BY DEF Meaning, GetData, GetSize, GetCapacity, Promise!Unlimited
<1>2. Fails(s, why) = [data |-> d, size |-> n, status |-> why]
  BY RecordParts DEF Fails, IsString
<1> DEFINE t == Fails(s, why)
<1>3. t.data = d /\ t.size = n /\ t.status = why
  BY <1>2
<1> HIDE DEF t
<1>4. Meaning(t) = [chars |-> q, status |-> why, limit |-> limit]
  BY <1>3 DEF Meaning, GetData, GetSize, GetCapacity, Promise!Unlimited
<1> HIDE DEF q, limit, d, n, old
<1>5. Promise!Refused(Meaning(s), why) = [chars |-> q, status |-> why, limit |-> limit]
  BY <1>1 DEF Promise!Refused
<1> QED BY <1>4, <1>5 DEF t

LEMMA BecomesIs ==
  ASSUME NEW s, IsString(s), s.status = "SUCCESS", NEW q, IsCells(q),
         NEW t, IsString(t), t.status = "SUCCESS", t.size = Len(q) + 1,
         fixed => Len(t.data) = Len(s.data),
         \A i \in 1..Len(q) : t.data[i] = q[i]
  PROVE  Meaning(t) = Promise!Become(Meaning(s), q)
<1> DEFINE m == Meaning(s)
           r == Meaning(t)
<1>1. /\ m = [chars |-> m.chars, status |-> m.status, limit |-> m.limit]
      /\ m.status = "SUCCESS" /\ m.limit = IF fixed THEN Len(s.data) - 1 ELSE -1
  BY MeaningIs
<1>2. /\ r = [chars |-> r.chars, status |-> r.status, limit |-> r.limit]
      /\ r.status = "SUCCESS" /\ r.limit = IF fixed THEN Len(t.data) - 1 ELSE -1
      /\ IsCells(r.chars) /\ Len(r.chars) = t.size - 1
      /\ \A i \in 1..(t.size - 1) : r.chars[i] = t.data[i]
  BY MeaningIs
<1> HIDE DEF m, r
<1>3. Len(q) \in Nat /\ t.size <= Len(t.data) /\ Len(t.data) \in Nat /\ t.size - 1 = Len(q)
  BY StringNumbers, SeqLength
<1>4. r.chars = q
  BY <1>2, <1>3, SameCells
<1>5. r.limit = m.limit
  BY <1>1, <1>2
<1>6. Promise!Fits(m, Len(q))
  BY <1>1, <1>3 DEF Promise!Fits, Promise!Unlimited
<1>7. Promise!Become(m, q) = [m EXCEPT !.chars = q]
  BY <1>1, <1>6 DEF Promise!Become
<1>8. [m EXCEPT !.chars = q] = [chars |-> q, status |-> m.status, limit |-> m.limit]
  <2> DEFINE a == m.chars
             b == m.status
             c == m.limit
  <2>1. m = [chars |-> a, status |-> b, limit |-> c]
    BY <1>1
  <2> HIDE DEF a, b, c
  <2>2. [m EXCEPT !.chars = q] = [chars |-> q, status |-> b, limit |-> c]
    BY <2>1
  <2> QED BY <2>2 DEF b, c
<1>9. r = [chars |-> q, status |-> m.status, limit |-> m.limit]
  BY <1>1, <1>2, <1>4, <1>5
<1> QED BY <1>7, <1>8, <1>9 DEF m, r

LEMMA BecomesNot ==
  ASSUME NEW s, IsString(s), s.status = "SUCCESS", NEW q, IsCells(q),
         fixed, Len(q) + 1 > Len(s.data)
  PROVE  Meaning(Fails(s, "INSUFFICIENT_BUFFER_SIZE")) = Promise!Become(Meaning(s), q)
<1> DEFINE m == Meaning(s)
<1>1. m.status = "SUCCESS" /\ m.limit = Len(s.data) - 1
  BY MeaningIs
<1> HIDE DEF m
<1>2. ~Promise!Fits(m, Len(q))
  BY <1>1, StringNumbers, SeqLength DEF Promise!Fits, Promise!Unlimited
<1>3. Promise!Become(m, q) = Promise!Refused(m, "INSUFFICIENT_BUFFER_SIZE")
  BY <1>1, <1>2 DEF Promise!Become
<1> QED BY <1>3, RefusedIs DEF m

-----------------------------------------------------------------------------
(* Whether there is room for n cells *)

Granted(r, s, n) ==
  /\ fixed => /\ Len(r.p) = Len(s.data)
              /\ r.status = IF n <= Len(s.data) THEN "SUCCESS"
                                                ELSE "INSUFFICIENT_BUFFER_SIZE"
  /\ ~fixed => r.status = "SUCCESS"

LEMMA KeptGrants ==
  ASSUME NEW s, NEW p, Len(p) = Len(s.data), NEW n \in Nat, n <= Len(s.data)
  PROVE  Granted(Outcome(V(s)!Kept(p)), s, n)
<1> DEFINE r == [status |-> "SUCCESS", capacity |-> Len(s.data), p |-> p]
<1>1. V(s)!Kept(p) = {r}
  BY DEF V!Kept
<1>2. r.p = p /\ r.status = "SUCCESS"
  OBVIOUS
<1> HIDE DEF r
<1>3. Outcome(V(s)!Kept(p)) = r
  BY <1>1, OutcomeIs
<1> QED BY <1>2, <1>3 DEF Granted

LEMMA ReallocateGrants ==
  ASSUME Configured, NEW s, NEW p, IsCells(p), Len(p) = Len(s.data),
         NEW n \in Nat, NEW m \in Nat, fixed => m = n
  PROVE  Granted(Outcome(V(s)!Reallocate(p, m)), s, n)
<1>0. Len(p) \in Nat
  BY SeqLength
<1>1. CASE fixed
  <2> DEFINE r == [status |-> IF Len(s.data) < m THEN "INSUFFICIENT_BUFFER_SIZE"
                                                 ELSE "SUCCESS",
                   capacity |-> Len(s.data), p |-> p]
  <2>1. V(s)!Reallocate(p, m) = {r}
    BY <1>1 DEF V!Reallocate
  <2>2. r.p = p /\ r.status = IF n <= Len(s.data) THEN "SUCCESS"
                                                  ELSE "INSUFFICIENT_BUFFER_SIZE"
    BY <1>0, <1>1
  <2> HIDE DEF r
  <2>3. Outcome(V(s)!Reallocate(p, m)) = r
    BY <2>1, OutcomeIs
  <2> QED BY <1>1, <2>2, <2>3 DEF Granted
<1>2. CASE ~fixed /\ m < 1 /\ Len(s.data) <= 1
  <2> DEFINE r == [status |-> "SUCCESS", capacity |-> Len(s.data), p |-> p]
  <2>1. V(s)!Reallocate(p, m) = {r}
    BY <1>2 DEF V!Reallocate, V!MinCapacity
  <2>2. r.status = "SUCCESS"
    OBVIOUS
  <2> HIDE DEF r
  <2>3. Outcome(V(s)!Reallocate(p, m)) = r
    BY <2>1, OutcomeIs
  <2> QED BY <1>2, <2>2, <2>3 DEF Granted
<1>3. CASE ~fixed /\ ~(m < 1 /\ Len(s.data) <= 1)
  <2> DEFINE c == V(s)!Max2(m, V(s)!MinCapacity)
             x == [status |-> "SUCCESS", p |-> V(s)!Resized(p, c)]
             r == [status |-> x.status, capacity |-> c, p |-> x.p]
  <2>1. V(s)!Realloc(p, c) = {x}
    BY DEF V!Realloc, V!MayRefuse
  <2>2. V(s)!Reallocate(p, m)
          = {[status |-> y.status, capacity |-> c, p |-> y.p] : y \in V(s)!Realloc(p, c)}
    BY <1>3, Zenon DEF V!Reallocate, V!MinCapacity
  <2>3. r.status = "SUCCESS"
    OBVIOUS
  <2> HIDE DEF x, c
  <2>4. V(s)!Reallocate(p, m) = {r}
    BY <2>1, <2>2
  <2> HIDE DEF r
  <2>5. Outcome(V(s)!Reallocate(p, m)) = r
    BY <2>4, OutcomeIs
  <2> QED BY <1>3, <2>3, <2>5 DEF Granted
<1> QED BY <1>1, <1>2, <1>3 DEF Configured

\* In a buffer no more is asked for than is needed
LEMMA Asked ==
  ASSUME Configured, Buffered, NEW s, NEW n \in Nat
  PROVE  /\ n * growth_factor \in Nat /\ (fixed => n * growth_factor = n)
         /\ V(s)!Max2(1, n * growth_factor) \in Nat
         /\ fixed /\ n # 0 => V(s)!Max2(1, n * growth_factor) = n
         /\ fixed => ~V(s)!ShouldShrink(n)
<1>1. n * growth_factor \in Nat /\ V(s)!Max2(1, n * growth_factor) \in Nat
  BY Requests
<1>2. CASE fixed
  <2>1. growth_factor = 1 /\ shrink_threshold = 0
    BY <1>2 DEF Buffered
  <2> QED BY <1>1, <2>1 DEF V!Max2, V!ShouldShrink
<1> QED BY <1>1, <1>2

LEMMA GrowToGrants ==
  ASSUME Configured, Buffered, NEW s, IsCells(s.data), NEW n \in Nat \ {0}
  PROVE  Granted(Outcome(V(s)!GrowTo(n)), s, n)
<1>1. CASE n > Len(s.data)
  <2>1. V(s)!GrowTo(n) = V(s)!Reallocate(s.data, V(s)!Max2(1, n * growth_factor))
    BY <1>1 DEF V!GrowTo, V!ShouldGrow
  <2> QED BY <2>1, Asked, ReallocateGrants
<1>2. CASE ~(n > Len(s.data))
  <2>1. V(s)!GrowTo(n) = V(s)!Kept(s.data)
    BY <1>2 DEF V!GrowTo, V!ShouldGrow
  <2>2. n <= Len(s.data)
    BY <1>2, SeqLength
  <2> QED BY <2>1, <2>2, KeptGrants
<1> QED BY <1>1, <1>2

LEMMA ShrinkToGrants ==
  ASSUME Configured, Buffered, NEW s, NEW p, IsCells(p), Len(p) = Len(s.data),
         NEW n \in Nat, n <= Len(p)
  PROVE  Granted(Outcome(V(s)!ShrinkTo(p, n)), s, n)
<1>1. CASE V(s)!ShouldShrink(n)
  <2>1. V(s)!ShrinkTo(p, n) = V(s)!Reallocate(p, V(s)!Max2(1, n * growth_factor))
    BY <1>1 DEF V!ShrinkTo
  <2>2. ~fixed
    BY <1>1, Asked
  <2> QED BY <2>1, <2>2, Asked, ReallocateGrants
<1>2. CASE ~V(s)!ShouldShrink(n)
  <2>1. V(s)!ShrinkTo(p, n) = V(s)!Kept(p)
    BY <1>2 DEF V!ShrinkTo
  <2> QED BY <2>1, KeptGrants
<1> QED BY <1>1, <1>2

LEMMA ResizeGrants ==
  ASSUME Configured, Buffered, NEW s, IsString(s), NEW n \in Nat
  PROVE  Granted(VectorResize(s, n), s, n)
<1>0. IsCells(s.data) /\ Len(s.data) \in Nat /\ s.size <= Len(s.data)
  BY StringNumbers DEF IsString
<1>1. CASE n = s.size
  <2>1. n <= Len(s.data)
    BY <1>0, <1>1
  <2> QED BY <1>1, <2>1, KeptGrants DEF VectorResize
<1>2. CASE n # s.size
  <2>1. VectorResize(s, n) = Outcome(V(s)!Resizing(n))
    BY <1>2 DEF VectorResize
  <2>2. CASE V(s)!ShouldGrow(n) \/ V(s)!ShouldShrink(n)
    <3>1. V(s)!Resizing(n) = V(s)!Reallocate(s.data, n * growth_factor)
      BY <2>2 DEF V!Resizing
    <3> QED BY <1>0, <2>1, <3>1, Asked, ReallocateGrants
  <2>3. CASE ~(V(s)!ShouldGrow(n) \/ V(s)!ShouldShrink(n))
    <3>1. V(s)!Resizing(n) = V(s)!Kept(s.data)
      BY <2>3 DEF V!Resizing
    <3>2. ~(n > Len(s.data))
      BY <2>3 DEF V!ShouldGrow
    <3>3. n <= Len(s.data)
      BY <1>0, <3>2
    <3> QED BY <2>1, <3>1, <3>3, KeptGrants
  <2> QED BY <2>2, <2>3
<1> QED BY <1>1, <1>2

-----------------------------------------------------------------------------
(* Text that is cut and joined *)

\* The string t has the cells p but for the characters at pos and a NUL
Stored(t, s, p, pos, chars, n) ==
  /\ IsString(t) /\ t.size = n /\ t.status = s.status /\ Len(t.data) = Len(p)
  /\ \A i \in 1..Len(p) : t.data[i]
       = IF i = n THEN NUL
         ELSE IF i \in (pos + 1)..(pos + Len(chars)) THEN chars[i - pos]
         ELSE p[i]

LEMMA StoredCells ==
  ASSUME NEW s, IsString(s), NEW p, NEW n \in Nat \ {0}, NEW r, Room(r, p, n),
         r.status = "SUCCESS", NEW pos \in Nat, NEW chars, IsCells(chars),
         pos + Len(chars) <= n
  PROVE  Stored(Store(s, r.p, pos, chars, n), s, r.p, pos, chars, n)
<1>1. IsCells(r.p) /\ Len(r.p) \in Nat /\ n <= Len(r.p)
  BY SeqLength DEF Room
<1>2. pos + Len(chars) <= Len(r.p)
  BY <1>1, SeqLength
<1>3. s = [data |-> s.data, size |-> s.size, status |-> s.status] /\ s.status \in Statuses
  BY DEF IsString
<1> QED BY <1>1, <1>2, <1>3, StoreIs DEF Stored

\* n - 1 cells, of p but for the characters at pos
Replaced(q, p, pos, chars, n) ==
  \A i \in 1..(n - 1) :
    IF i \in (pos + 1)..(pos + Len(chars)) THEN q[i] = chars[i - pos]
                                          ELSE i <= Len(p) /\ q[i] = p[i]

LEMMA BecomesStored ==
  ASSUME NEW s, IsString(s), s.status = "SUCCESS",
         NEW p, IsCells(p), Len(p) = Len(s.data), NEW n \in Nat \ {0},
         NEW r, Room(r, p, n), Granted(r, s, n),
         NEW pos \in Nat, NEW chars, IsCells(chars), pos + Len(chars) <= n,
         NEW q, IsCells(q), Len(q) = n - 1,
         Replaced(q, p, pos, chars, n)
  PROVE  Meaning(IF r.status # "SUCCESS" THEN Fails(s, r.status)
                 ELSE Store(s, r.p, pos, chars, n))
           = Promise!Become(Meaning(s), q)
<1>0. Len(p) \in Nat /\ Len(q) + 1 = n /\ Len(chars) \in Nat
  BY SeqLength
<1>1. CASE r.status # "SUCCESS"
  <2>1. fixed /\ n > Len(s.data) /\ r.status = "INSUFFICIENT_BUFFER_SIZE"
    BY <1>0, <1>1 DEF Granted
  <2>2. Meaning(Fails(s, "INSUFFICIENT_BUFFER_SIZE")) = Promise!Become(Meaning(s), q)
    BY <1>0, <2>1, BecomesNot
  <2> QED BY <1>1, <2>1, <2>2
<1>2. CASE r.status = "SUCCESS"
  <2> DEFINE t == Store(s, r.p, pos, chars, n)
  <2>1. /\ IsCells(r.p) /\ Len(r.p) \in Nat /\ n <= Len(r.p)
        /\ \A i \in 1..Len(r.p) : i <= Len(p) => r.p[i] = p[i]
    BY <1>2, SeqLength DEF Room
  <2>3. /\ IsString(t) /\ t.size = n /\ t.status = s.status /\ Len(t.data) = Len(r.p)
        /\ \A i \in 1..Len(r.p) : t.data[i]
             = IF i = n THEN NUL
               ELSE IF i \in (pos + 1)..(pos + Len(chars)) THEN chars[i - pos]
               ELSE r.p[i]
    <3>1. Stored(t, s, r.p, pos, chars, n)
      BY <1>2, StoredCells
    <3> HIDE DEF t
    <3> QED BY <3>1 DEF Stored
  <2> HIDE DEF t
  <2>4. \A i \in 1..Len(q) : t.data[i] = q[i]
    <3> SUFFICES ASSUME NEW i \in 1..(n - 1) PROVE t.data[i] = q[i]
      BY <1>0
    <3>1. i \in 1..Len(r.p) /\ i # n
      BY <2>1
    <3>2. CASE i \in (pos + 1)..(pos + Len(chars))
      BY <2>3, <3>1, <3>2 DEF Replaced
    <3>3. CASE ~(i \in (pos + 1)..(pos + Len(chars)))
      <4>1. i <= Len(p) /\ q[i] = p[i]
        BY <3>3 DEF Replaced
      <4>2. t.data[i] = r.p[i] /\ r.p[i] = p[i]
        BY <2>1, <2>3, <3>1, <3>3, <4>1
      <4> QED BY <4>1, <4>2
    <3> QED BY <3>2, <3>3
  <2>5. fixed => Len(t.data) = Len(s.data)
    BY <2>3 DEF Granted
  <2>6. Meaning(t) = Promise!Become(Meaning(s), q)
    BY <1>0, <2>3, <2>4, <2>5, BecomesIs
  <2> QED BY <1>2, <2>6 DEF t
<1> QED BY <1>1, <1>2

\* Three texts in a row
LEMMA ThreeJoined ==
  ASSUME NEW a, NEW b, NEW c, IsCells(a), IsCells(b), IsCells(c)
  PROVE  LET q == a \o b \o c IN
           /\ IsCells(q) /\ Len(q) = Len(a) + Len(b) + Len(c)
           /\ \A i \in 1..Len(q) : q[i]
                = IF i <= Len(a) THEN a[i]
                  ELSE IF i <= Len(a) + Len(b) THEN b[i - Len(a)]
                  ELSE c[i - Len(a) - Len(b)]
<1> DEFINE S == Cell
           ab == a \o b
           q == ab \o c
<1>1. a \in Seq(S) /\ b \in Seq(S) /\ c \in Seq(S)
  BY DEF IsCells
<1>2. Len(a) \in Nat /\ Len(b) \in Nat /\ Len(c) \in Nat
  BY SeqLength
<1> HIDE DEF S
<1>3. /\ ab \in Seq(S) /\ Len(ab) = Len(a) + Len(b)
      /\ \A i \in 1..(Len(a) + Len(b)) :
           ab[i] = IF i <= Len(a) THEN a[i] ELSE b[i - Len(a)]
  BY <1>1, ConcatProperties
<1> HIDE DEF ab
<1>4. /\ q \in Seq(S) /\ Len(q) = Len(ab) + Len(c)
      /\ \A i \in 1..(Len(ab) + Len(c)) :
           q[i] = IF i <= Len(ab) THEN ab[i] ELSE c[i - Len(ab)]
  <2>1. ab \in Seq(S) /\ c \in Seq(S)
    BY <1>1, <1>3
  <2> QED BY <2>1, ConcatProperties
<1> HIDE DEF q
<1>5. \A i \in 1..Len(q) : q[i]
        = IF i <= Len(a) THEN a[i]
          ELSE IF i <= Len(a) + Len(b) THEN b[i - Len(a)]
          ELSE c[i - Len(a) - Len(b)]
  <2> SUFFICES ASSUME NEW i \in 1..Len(q)
               PROVE  q[i] = IF i <= Len(a) THEN a[i]
                             ELSE IF i <= Len(a) + Len(b) THEN b[i - Len(a)]
                             ELSE c[i - Len(a) - Len(b)]
    OBVIOUS
  <2>1. i \in Nat /\ i >= 1 /\ i - (Len(a) + Len(b)) = i - Len(a) - Len(b)
    BY <1>2, <1>3, <1>4
  <2>2. CASE i <= Len(ab)
    BY <1>2, <1>3, <1>4, <2>1, <2>2
  <2>3. CASE ~(i <= Len(ab))
    BY <1>2, <1>3, <1>4, <2>1, <2>3
  <2> QED BY <2>2, <2>3
<1>6. IsCells(q) /\ Len(q) = Len(a) + Len(b) + Len(c)
  BY <1>2, <1>3, <1>4 DEF IsCells, S
<1> QED BY <1>5, <1>6 DEF q, ab

\* What is left of a text, and what comes in between
Spliced(q, s, index, count, chars) ==
  /\ IsCells(q) /\ Len(q) = s.size - 1 - count + Len(chars)
  /\ Promise!Splice(Meaning(s), index, count, chars) = Promise!Become(Meaning(s), q)
  /\ \A i \in 1..Len(q) : q[i]
       = IF i <= index THEN s.data[i]
         ELSE IF i <= index + Len(chars) THEN chars[i - index]
         ELSE s.data[i - Len(chars) + count]

LEMMA SpliceIs ==
  ASSUME NEW s, IsString(s), NEW index \in Nat, NEW count \in Nat,
         index + count <= s.size - 1, NEW chars, IsCells(chars)
  PROVE  \E q : Spliced(q, s, index, count, chars)
<1> DEFINE t == Meaning(s).chars
           a == SubSeq(t, 1, index)
           c == SubSeq(t, index + count + 1, Len(t))
           q == a \o chars \o c
<1>1. IsCells(t) /\ Len(t) = s.size - 1 /\ \A i \in 1..(s.size - 1) : t[i] = s.data[i]
  BY MeaningIs
<1>2. s.size \in Nat /\ Len(t) \in Nat /\ Len(chars) \in Nat
  BY StringNumbers, <1>1, SeqLength
<1>3. Promise!Splice(Meaning(s), index, count, chars) = Promise!Become(Meaning(s), q)
  BY DEF Promise!Splice
<1> HIDE DEF t
<1>4. IsCells(a) /\ Len(a) = index /\ \A i \in 1..index : a[i] = t[i]
  <2>1. /\ IsCells(SubSeq(t, 1, index)) /\ Len(SubSeq(t, 1, index)) = index + 1 - 1
        /\ \A i \in 1..(index + 1 - 1) : SubSeq(t, 1, index)[i] = t[1 + i - 1]
    BY <1>1, <1>2, PartIsSeq
  <2>2. index + 1 - 1 = index /\ \A i \in 1..index : 1 + i - 1 = i
    OBVIOUS
  <2> QED BY <2>1, <2>2
<1> DEFINE from == index + count + 1
           last == Len(t)
           k == last + 1 - from
<1>5. IsCells(c) /\ Len(c) = k /\ \A i \in 1..k : c[i] = t[from + i - 1]
  <2>1. from \in Nat \ {0} /\ last \in Nat /\ last <= Len(t) /\ from <= last + 1
    BY <1>1, <1>2
  <2>2. c = SubSeq(t, from, last)
    OBVIOUS
  <2> HIDE DEF from, last, c
  <2> QED BY <1>1, <2>1, <2>2, PartIsSeq
<1> HIDE DEF a, c
<1>6. /\ IsCells(q) /\ Len(q) = Len(a) + Len(chars) + Len(c)
      /\ \A i \in 1..Len(q) : q[i]
           = IF i <= Len(a) THEN a[i]
             ELSE IF i <= Len(a) + Len(chars) THEN chars[i - Len(a)]
             ELSE c[i - Len(a) - Len(chars)]
  <2>1. IsCells(a) /\ IsCells(chars) /\ IsCells(c)
    BY <1>4, <1>5
  <2> QED BY <2>1, ThreeJoined
<1> HIDE DEF q
<1>9. Len(t) = s.size - 1 /\ index + count <= s.size - 1 /\ index \in Nat /\ count \in Nat
  BY <1>1
<1>7. Len(q) = s.size - 1 - count + Len(chars)
  BY <1>1, <1>2, <1>4, <1>5, <1>6, SMTT(30)
<1>8. \A i \in 1..Len(q) : q[i]
        = IF i <= index THEN s.data[i]
          ELSE IF i <= index + Len(chars) THEN chars[i - index]
          ELSE s.data[i - Len(chars) + count]
  <2> SUFFICES ASSUME NEW i \in 1..Len(q)
               PROVE  q[i] = IF i <= index THEN s.data[i]
                             ELSE IF i <= index + Len(chars) THEN chars[i - index]
                             ELSE s.data[i - Len(chars) + count]
    OBVIOUS
  <2>1. i \in Nat /\ i >= 1 /\ i <= s.size - 1 - count + Len(chars)
    BY <1>2, <1>7
  <2>2. CASE i <= index
    <3>1. i \in 1..index /\ i \in 1..(s.size - 1)
      BY <1>2, <1>9, <2>1, <2>2
    <3>2. q[i] = a[i] /\ a[i] = t[i]
      BY <1>4, <1>6, <2>2, <3>1
    <3>3. t[i] = s.data[i]
      BY <1>1, <3>1
    <3> QED BY <2>2, <3>2, <3>3
  <2>3. CASE ~(i <= index) /\ i <= index + Len(chars)
    BY <1>4, <1>6, <2>3
  <2>4. CASE ~(i <= index + Len(chars))
    <3> DEFINE j == i - index - Len(chars)
    <3>0. i \in Nat /\ Len(chars) \in Nat /\ s.size \in Nat
      BY <1>2, <2>1
    <3>1. j \in 1..k /\ from + j - 1 = i - Len(chars) + count
          /\ i - Len(chars) + count \in 1..(s.size - 1)
      <4>1. k = s.size - 1 - index - count
        BY <1>9, <3>0
      <4>2. j \in Int /\ j >= 1 /\ j <= s.size - 1 - index - count
        <5>1. j \in Int /\ i = j + (index + Len(chars)) /\ i > index + Len(chars)
          BY <2>4, <3>0
        <5> HIDE DEF j
        <5>2. j >= 1
          BY <3>0, <5>1
        <5>3. j <= s.size - 1 - index - count
          <6>1. j + (index + Len(chars)) <= s.size - 1 - count + Len(chars)
            BY <2>1, <5>1
          <6>2. \A x, l, z \in Int : x + (index + l) <= z - 1 - count + l
                                     => x <= z - 1 - index - count
            OBVIOUS
          <6> QED BY <3>0, <5>1, <6>1, <6>2, SMTT(30)
        <5> QED BY <5>1, <5>2, <5>3
      <4>3. from + j - 1 = i - Len(chars) + count
        BY <1>9, <3>0
      <4>4. i - Len(chars) + count \in 1..(s.size - 1)
        BY <1>9, <2>1, <2>4, <3>0, SMTT(30)
      <4> HIDE DEF j, k
      <4> QED BY <4>1, <4>2, <4>3, <4>4
    <3>2. q[i] = c[j]
      BY <1>2, <1>4, <1>6, <2>1, <2>4
    <3>3. c[j] = t[i - Len(chars) + count]
      BY <1>5, <3>1
    <3>5. t[i - Len(chars) + count] = s.data[i - Len(chars) + count]
      BY <1>1, <3>1
    <3>6. ~(i <= index)
      BY <1>2, <2>1, <2>4
    <3>4. q[i] = s.data[i - Len(chars) + count] /\ ~(i <= index)
      BY <3>2, <3>3, <3>5, <3>6
    <3> QED BY <2>4, <3>4
  <2> QED BY <2>2, <2>3, <2>4
<1> QED BY <1>3, <1>6, <1>7, <1>8 DEF Spliced

LEMMA AppendCharsMeans ==
  ASSUME Configured, Buffered, NEW s, IsString(s), NEW chars, IsCells(chars)
  PROVE  Meaning(AppendChars(s, chars)) = Promise!AppendChars(Meaning(s), chars)
<1> DEFINE n == s.size + Len(chars)
           r == VectorResize(s, n)
           pos == s.size - 1
           p == s.data
<1>1. /\ n \in Nat \ {0} /\ Len(chars) \in Nat /\ s.size \in Nat /\ pos \in Nat
      /\ pos + Len(chars) <= n /\ IsCells(p) /\ s.size <= Len(p) /\ Len(p) \in Nat
  BY StringNumbers, SeqLength DEF IsString
<1>2. Room(r, p, n) /\ Granted(r, s, n)
  BY <1>1, ResizeRoom, ResizeGrants, StringNumbers
<1>3. AppendChars(s, chars) = IF s.status # "SUCCESS" THEN s
                              ELSE IF r.status # "SUCCESS" THEN Fails(s, r.status)
                              ELSE Store(s, r.p, pos, chars, n)
  BY DEF AppendChars
<1>4. Promise!AppendChars(Meaning(s), chars)
        = Promise!Splice(Meaning(s), Len(Meaning(s).chars), 0, chars)
  BY DEF Promise!AppendChars
<1>5. Len(Meaning(s).chars) = pos /\ Meaning(s).status = s.status
  BY MeaningIs
<1>9. PICK q : Spliced(q, s, pos, 0, chars)
  <2>1. pos + 0 <= s.size - 1 /\ 0 \in Nat /\ pos \in Nat
    BY <1>1
  <2> HIDE DEF pos
  <2> QED BY <2>1, SpliceIs
<1>6. /\ IsCells(q) /\ Len(q) = s.size - 1 - 0 + Len(chars)
      /\ Promise!Splice(Meaning(s), pos, 0, chars) = Promise!Become(Meaning(s), q)
      /\ \A i \in 1..Len(q) : q[i]
           = IF i <= pos THEN s.data[i]
             ELSE IF i <= pos + Len(chars) THEN chars[i - pos]
             ELSE s.data[i - Len(chars) + 0]
  BY <1>9 DEF Spliced
<1>7. CASE s.status # "SUCCESS"
  <2>1. Promise!Become(Meaning(s), q) = Meaning(s)
    BY <1>5, <1>7 DEF Promise!Become
  <2> QED BY <1>3, <1>4, <1>5, <1>6, <1>7, <2>1
<1>8. CASE s.status = "SUCCESS"
  <2>1. Len(q) = n - 1
    BY <1>1, <1>6
  <2>2. Replaced(q, p, pos, chars, n)
    <3> SUFFICES ASSUME NEW i \in 1..(n - 1)
                 PROVE  IF i \in (pos + 1)..(pos + Len(chars)) THEN q[i] = chars[i - pos]
                        ELSE i <= Len(p) /\ q[i] = p[i]
      BY DEF Replaced
    <3>1. i \in 1..Len(q) /\ i <= pos + Len(chars) /\ i \in Nat
      BY <1>1, <2>1
    <3>2. i \in (pos + 1)..(pos + Len(chars)) <=> ~(i <= pos)
      BY <1>1, <3>1
    <3>3. i <= pos => i <= Len(p)
      BY <1>1, <3>1, SMTT(30)
    <3> QED BY <1>6, <3>1, <3>2, <3>3
  <2>6. n \in Nat \ {0} /\ pos \in Nat /\ pos + Len(chars) <= n /\ IsCells(p)
    BY <1>1
  <2> HIDE DEF n, r, pos, p
  <2>3. Len(p) = Len(s.data)
    BY DEF p
  <2>4. Meaning(IF r.status # "SUCCESS" THEN Fails(s, r.status)
                ELSE Store(s, r.p, pos, chars, n)) = Promise!Become(Meaning(s), q)
    BY <1>2, <1>6, <1>8, <2>1, <2>2, <2>3, <2>6, BecomesStored
  <2>5. AppendChars(s, chars) = IF r.status # "SUCCESS" THEN Fails(s, r.status)
                                ELSE Store(s, r.p, pos, chars, n)
    BY <1>3, <1>8 DEF n, r, pos
  <2> QED BY <1>4, <1>5, <1>6, <2>4, <2>5 DEF pos
<1> QED BY <1>7, <1>8

-----------------------------------------------------------------------------
(* Text that is given as a view *)

LEMMA PartMeans ==
  ASSUME NEW v, IsView(v), NEW i \in Nat, NEW n \in Nat, ~(i + n >= v.size)
  PROVE  Promise!Part(Shown(v), i, n) = SubSeq(v.data, i + 1, i + n)
<1> DEFINE d == v.data
           a == SubSeq(d, i + 1, i + n)
           t == SubSeq(d, 1, v.size - 1)
           b == SubSeq(t, i + 1, i + n)
           k == (i + n) + 1 - (i + 1)
<1>1. /\ IsCells(d) /\ v.size - 1 \in Nat /\ v.size - 1 <= Len(d) /\ i + n <= v.size - 1
      /\ i + n <= Len(d) /\ i + n \in Nat /\ i + 1 \in Nat \ {0} /\ i + 1 <= (i + n) + 1
  BY SeqLength DEF IsView
<1>2. t = Shown(v)
  BY DEF Shown, ViewGetData, ViewGetSize
<1> HIDE DEF d
<1>3. /\ IsCells(t) /\ Len(t) = v.size - 1 /\ \A j \in 1..(v.size - 1) : t[j] = d[j]
  <2> DEFINE z == v.size - 1
  <2>1. z \in Nat /\ z <= Len(d) /\ 1 <= z + 1 /\ z + 1 - 1 = z
    BY <1>1
  <2> HIDE DEF z
  <2>2. /\ IsCells(SubSeq(d, 1, z)) /\ Len(SubSeq(d, 1, z)) = z + 1 - 1
        /\ \A j \in 1..(z + 1 - 1) : SubSeq(d, 1, z)[j] = d[1 + j - 1]
    BY <1>1, <2>1, PartIsSeq
  <2>3. \A j \in 1..z : 1 + j - 1 = j
    BY <2>1
  <2> QED BY <2>1, <2>2, <2>3 DEF z
<1> HIDE DEF t
<1>4. IsCells(a) /\ Len(a) = k /\ \A j \in 1..k : a[j] = d[(i + 1) + j - 1]
  BY <1>1, PartIsSeq
<1>5. IsCells(b) /\ Len(b) = k /\ \A j \in 1..k : b[j] = t[(i + 1) + j - 1]
  <2>1. i + n <= Len(t)
    BY <1>1, <1>3
  <2> QED BY <1>1, <1>3, <2>1, PartIsSeq
<1> HIDE DEF a, b
<1>6. \A j \in 1..k : (i + 1) + j - 1 \in 1..(v.size - 1)
  BY <1>1
<1>7. \A j \in 1..Len(a) : a[j] = b[j]
  BY <1>3, <1>4, <1>5, <1>6
<1>8. a = b
  BY <1>4, <1>5, <1>7, SameCells
<1> QED BY <1>2, <1>8 DEF Promise!Part, a, b, d

\* The views are initialised
Initialised == \A v \in Sources : v.size # 0

LEMMA StringAppendMeans ==
  ASSUME Configured, Buffered, NEW s, IsString(s), NEW v, IsView(v), v.size # 0
  PROVE  Meaning(StringAppend(s, v)) = Promise!AppendChars(Meaning(s), Shown(v))
<1>1. IsCells(Shown(v))
  BY ShownIs
<1>2. Meaning(AppendChars(s, Shown(v))) = Promise!AppendChars(Meaning(s), Shown(v))
  BY <1>1, AppendCharsMeans
<1>3. StringAppend(s, v) = AppendChars(s, Shown(v))
  BY DEF StringAppend, AppendChars
<1> QED BY <1>2, <1>3

LEMMA AppendExMeans ==
  ASSUME Configured, Buffered, NEW s, IsString(s), NEW v, IsView(v), v.size # 0,
         NEW i \in Nat, NEW n \in Nat
  PROVE  Meaning(AppendEx(s, v, i, n)) = Promise!AppendPart(Meaning(s), Shown(v), i, n)
<1>1. Len(Shown(v)) = v.size - 1 /\ v.size \in Nat
  BY ShownIs DEF IsView
<1>2. CASE i + n >= v.size
  <2>1. AppendEx(s, v, i, n) = Fails(s, "OUT_OF_RANGE")
    BY <1>2 DEF AppendEx
  <2>2. i + n > Len(Shown(v))
    BY <1>1, <1>2
  <2>3. Promise!AppendPart(Meaning(s), Shown(v), i, n)
          = Promise!Refused(Meaning(s), "OUT_OF_RANGE")
    BY <2>2 DEF Promise!AppendPart
  <2> QED BY <2>1, <2>3, RefusedIs
<1>3. CASE ~(i + n >= v.size)
  <2> DEFINE part == SubSeq(v.data, i + 1, i + n)
  <2>1. AppendEx(s, v, i, n) = AppendChars(s, part)
    BY <1>3 DEF AppendEx
  <2>2. ~(i + n > Len(Shown(v)))
    BY <1>1, <1>3
  <2>3. IsCells(part) /\ Promise!Part(Shown(v), i, n) = part
    BY <1>3, PartShown, PartMeans
  <2>4. Promise!AppendPart(Meaning(s), Shown(v), i, n) = Promise!AppendChars(Meaning(s), part)
    BY <2>2, <2>3 DEF Promise!AppendPart
  <2> HIDE DEF part
  <2> QED BY <2>1, <2>3, <2>4, AppendCharsMeans
<1> QED BY <1>2, <1>3

\* The cells behind the index move, and the characters come in between
LEMMA InsertedIs ==
  ASSUME NEW s, NEW index \in Nat, s.size \in Nat, index < s.size,
         NEW chars, IsCells(chars), NEW p, IsCells(p), s.size + Len(chars) <= Len(p)
  PROVE  LET d == V(s)!MemCpy(V(s)!ShiftRight(p, index, Len(chars)), index, chars) IN
           /\ IsCells(d) /\ Len(d) = Len(p)
           /\ \A i \in 1..(s.size + Len(chars)) : d[i]
                = IF i <= index THEN p[i]
                  ELSE IF i <= index + Len(chars) THEN chars[i - index]
                  ELSE p[i - Len(chars)]
<1> DEFINE count == Len(chars)
           dst == index + count
           k == s.size - index
           moved == V(s)!ShiftRight(p, index, count)
           d == V(s)!MemCpy(moved, index, chars)
<1>1. count \in Nat /\ Len(p) \in Nat
  BY SeqLength
<1>2. moved = V(s)!MemMove(p, dst, index, k)
  BY DEF V!ShiftRight
<1>3. dst \in Nat /\ k \in Nat /\ index + k <= Len(p)
  BY <1>1
<1> HIDE DEF moved, dst, k
<1>4. /\ IsCells(moved) /\ Len(moved) = Len(p)
      /\ \A i \in 1..Len(p) : moved[i]
           = IF i \in (dst + 1)..(dst + k) THEN p[i - dst + index] ELSE p[i]
  BY <1>2, <1>3, MemMoveIs
<1>5. /\ IsCells(d) /\ Len(d) = Len(moved)
      /\ \A i \in 1..Len(moved) : d[i]
           = IF i \in (index + 1)..(index + Len(chars)) THEN chars[i - index] ELSE moved[i]
  BY <1>4, MemCpyIs
<1> HIDE DEF d
<1>6. ASSUME NEW i \in 1..(s.size + count)
      PROVE  d[i] = IF i <= index THEN p[i]
                    ELSE IF i <= index + count THEN chars[i - index] ELSE p[i - count]
  <2>1. i \in 1..Len(p) /\ i \in Nat
    BY <1>1
  <2>2. CASE i <= index
    <3>1. ~(i \in (index + 1)..(index + count)) /\ ~(i \in (dst + 1)..(dst + k))
      BY <1>1, <2>1, <2>2 DEF dst
    <3> QED BY <1>4, <1>5, <2>1, <2>2, <3>1
  <2>3. CASE ~(i <= index) /\ i <= index + count
    <3>1. i \in (index + 1)..(index + count)
      BY <1>1, <2>1, <2>3
    <3> QED BY <1>4, <1>5, <2>1, <2>3, <3>1
  <2>4. CASE ~(i <= index + count)
    <3>1. ~(i \in (index + 1)..(index + count)) /\ ~(i <= index)
      BY <1>1, <2>1, <2>4
    <3>2. i \in (dst + 1)..(dst + k) /\ i - dst + index = i - count
      BY <1>1, <2>1, <2>4 DEF dst, k
    <3>3. d[i] = moved[i]
      BY <1>4, <1>5, <2>1, <3>1
    <3>4. moved[i] = p[i - dst + index]
      BY <1>4, <2>1, <3>2
    <3> QED BY <2>4, <3>1, <3>2, <3>3, <3>4
  <2> QED BY <2>2, <2>3, <2>4
<1> QED BY <1>4, <1>5, <1>6 DEF d, moved

LEMMA InsertCharsMeans ==
  ASSUME Configured, Buffered, NEW s, IsString(s), s.status = "SUCCESS",
         NEW index \in Nat, index < s.size, NEW chars, IsCells(chars), Len(chars) # 0
  PROVE  Meaning(InsertChars(s, index, chars)) = Promise!Splice(Meaning(s), index, 0, chars)
<1> DEFINE count == Len(chars)
           n == s.size + count
           r == Outcome(V(s)!GrowTo(n))
           d == V(s)!MemCpy(V(s)!ShiftRight(r.p, index, count), index, chars)
           t == InsertChars(s, index, chars)
<1>1. /\ count \in Nat /\ n \in Nat \ {0} /\ s.size \in Nat /\ s.size >= 1 /\ n >= s.size
      /\ s.size <= Len(s.data) /\ Len(s.data) \in Nat /\ Len(s.data) >= 1
      /\ IsCells(s.data)
  BY SeqLength, StringNumbers DEF IsString
<1>2. Room(r, s.data, n) /\ Granted(r, s, n)
  BY <1>1, GrowToRoom, GrowToGrants
<1>3. t = IF count = 0 THEN Fails(s, "INVALID_ARGUMENT")
          ELSE IF r.status # "SUCCESS" THEN Fails(s, r.status)
          ELSE IF ~V(s)!InBlock(r.p, index, s.size - index + count)
            THEN Fails(s, "OVERRUN")
          ELSE [s EXCEPT !.data = d, !.size = n]
  BY DEF InsertChars
<1>4. IsString(t)
  BY InsertCharsIs
<1>8. PICK q : Spliced(q, s, index, 0, chars)
  <2>1. index + 0 <= s.size - 1 /\ 0 \in Nat
    BY <1>1
  <2> QED BY <2>1, SpliceIs
<1>5. /\ IsCells(q) /\ Len(q) = s.size - 1 - 0 + Len(chars)
      /\ Promise!Splice(Meaning(s), index, 0, chars) = Promise!Become(Meaning(s), q)
      /\ \A i \in 1..Len(q) : q[i]
           = IF i <= index THEN s.data[i]
             ELSE IF i <= index + Len(chars) THEN chars[i - index]
             ELSE s.data[i - Len(chars) + 0]
  BY <1>8 DEF Spliced
<1> HIDE DEF n, r, d, t
<1>6. CASE r.status # "SUCCESS"
  <2>1. fixed /\ n > Len(s.data) /\ r.status = "INSUFFICIENT_BUFFER_SIZE"
    BY <1>1, <1>2, <1>6 DEF Granted
  <2>2. t = Fails(s, "INSUFFICIENT_BUFFER_SIZE")
    BY <1>3, <1>6, <2>1
  <2>3. Len(q) + 1 > Len(s.data)
    BY <1>1, <1>5, <2>1 DEF n
  <2> QED BY <1>5, <2>1, <2>2, <2>3, BecomesNot DEF t
<1>7. CASE r.status = "SUCCESS"
  <2>1. /\ IsCells(r.p) /\ Len(r.p) \in Nat /\ n <= Len(r.p)
        /\ \A i \in 1..Len(r.p) : i <= Len(s.data) => r.p[i] = s.data[i]
    BY <1>2, <1>7, SeqLength DEF Room
  <2>2. V(s)!InBlock(r.p, index, s.size - index + count)
    BY <1>1, <2>1 DEF V!InBlock, n
  <2>3. t = [data |-> d, size |-> n, status |-> s.status]
    <3>1. t = [s EXCEPT !.data = d, !.size = n]
      BY <1>3, <1>7, <2>2
    <3> QED BY <3>1, RecordParts DEF IsString
  <2>4. /\ IsCells(d) /\ Len(d) = Len(r.p)
        /\ \A i \in 1..n : d[i]
             = IF i <= index THEN r.p[i]
               ELSE IF i <= index + Len(chars) THEN chars[i - index]
               ELSE r.p[i - Len(chars)]
    <3> DEFINE p == r.p
    <3>1. IsCells(p) /\ s.size + Len(chars) <= Len(p)
      BY <2>1 DEF n
    <3>2. d = V(s)!MemCpy(V(s)!ShiftRight(p, index, Len(chars)), index, chars)
      BY DEF d
    <3> HIDE DEF p
    <3>3. /\ IsCells(d) /\ Len(d) = Len(p)
          /\ \A i \in 1..(s.size + Len(chars)) : d[i]
               = IF i <= index THEN p[i]
                 ELSE IF i <= index + Len(chars) THEN chars[i - index]
                 ELSE p[i - Len(chars)]
      BY <1>1, <3>1, <3>2, InsertedIs
    <3> QED BY <3>3 DEF p, n
  <2>5. t.data = d /\ t.size = n /\ t.status = "SUCCESS"
    BY <2>3
  <2>6. Len(q) = n - 1 /\ t.size = Len(q) + 1
    BY <1>1, <1>5, <2>5 DEF n
  <2>7. \A i \in 1..Len(q) : t.data[i] = q[i]
    <3> SUFFICES ASSUME NEW i \in 1..Len(q) PROVE d[i] = q[i]
      BY <2>5
    <3>1. i \in Nat /\ i >= 1 /\ i \in 1..n /\ i <= n - 1
      BY <1>1, <2>6
    <3>2. CASE i <= index
      <4>1. i \in 1..Len(r.p) /\ i <= Len(s.data)
        BY <1>1, <2>1, <3>1, <3>2
      <4>2. d[i] = r.p[i] /\ q[i] = s.data[i]
        BY <1>5, <2>4, <3>1, <3>2
      <4> QED BY <2>1, <4>1, <4>2
    <3>3. CASE ~(i <= index) /\ i <= index + count
      BY <1>5, <2>4, <3>1, <3>3
    <3>4. CASE ~(i <= index + count)
      <4>1. /\ i - count \in 1..Len(r.p) /\ i - count <= Len(s.data)
            /\ i - count + 0 = i - count /\ ~(i <= index)
        BY <1>1, <2>1, <3>1, <3>4, SMTT(30) DEF n
      <4>2. d[i] = r.p[i - count] /\ q[i] = s.data[i - count + 0]
        BY <1>5, <2>4, <3>1, <3>4, <4>1
      <4> QED BY <2>1, <4>1, <4>2
    <3> QED BY <3>2, <3>3, <3>4
  <2>8. fixed => Len(t.data) = Len(s.data)
    BY <1>2, <2>4, <2>5 DEF Granted
  <2>9. Meaning(t) = Promise!Become(Meaning(s), q)
    BY <1>4, <1>5, <2>5, <2>6, <2>7, <2>8, BecomesIs
  <2> QED BY <1>5, <2>9 DEF t
<1> QED BY <1>6, <1>7

LEMMA NoCells == ASSUME NEW q, IsCells(q) PROVE q = << >> <=> Len(q) = 0
BY DEF IsCells

\* An index that is in the text, or at its end
LEMMA InsertedMeans ==
  ASSUME Configured, Buffered, NEW s, IsString(s), s.status = "SUCCESS",
         NEW index \in Nat, index < s.size, NEW chars, IsCells(chars)
  PROVE  Meaning(InsertChars(s, index, chars)) = Promise!Insert(Meaning(s), index, chars)
<1>1. Len(Meaning(s).chars) = s.size - 1
  BY MeaningIs
<1>2. /\ index # Len(Meaning(s).chars) + 1 /\ ~(index > Len(Meaning(s).chars) + 1)
      /\ index <= Len(Meaning(s).chars)
  BY <1>1, StringNumbers
<1> DEFINE m == Meaning(s)
<1> HIDE DEF m
<1>3. CASE Len(chars) = 0
  <2>1. chars = << >>
    BY <1>3, NoCells
  <2>2. Promise!Insert(m, index, chars) = Promise!Refused(m, "INVALID_ARGUMENT")
    BY <1>2, <2>1 DEF Promise!Insert, m
  <2>3. InsertChars(s, index, chars) = Fails(s, "INVALID_ARGUMENT")
    BY <1>3 DEF InsertChars
  <2> QED BY <2>2, <2>3, RefusedIs DEF m
<1>4. CASE Len(chars) # 0
  <2>1. chars # << >>
    BY <1>4, NoCells
  <2>2. Promise!Insert(m, index, chars) = Promise!Splice(m, index, 0, chars)
    BY <1>2, <2>1 DEF Promise!Insert, m
  <2> QED BY <1>4, <2>2, InsertCharsMeans DEF m
<1> QED BY <1>3, <1>4

LEMMA InsertMeans ==
  ASSUME Configured, Buffered, NEW s, IsString(s), s.status = "SUCCESS",
         NEW v, IsView(v), v.size # 0, NEW index \in Nat
  PROVE  Meaning(Insert(s, index, v)) = Promise!Insert(Meaning(s), index, Shown(v))
<1> DEFINE m == Meaning(s)
           chars == Shown(v)
<1>1. Len(m.chars) = s.size - 1 /\ s.size \in Nat
  BY MeaningIs, StringNumbers
<1>2. IsCells(chars)
  BY ShownIs
<1> HIDE DEF m, chars
<1>3. CASE index = s.size
  <2>1. Insert(s, index, v) = StringAppend(s, v)
    BY <1>3 DEF Insert
  <2>2. index = Len(m.chars) + 1
    BY <1>1, <1>3
  <2>3. Promise!Insert(m, index, chars) = Promise!AppendChars(m, chars)
    BY <2>2 DEF Promise!Insert
  <2> QED BY <2>1, <2>3, StringAppendMeans DEF m, chars
<1>4. CASE index > s.size
  <2>1. Insert(s, index, v) = Fails(s, "OUT_OF_RANGE")
    BY <1>1, <1>4 DEF Insert
  <2>2. index # Len(m.chars) + 1 /\ index > Len(m.chars) + 1 /\ ~(index <= Len(m.chars))
    BY <1>1, <1>4
  <2>3. Promise!Insert(m, index, chars) = Promise!Refused(m, "OUT_OF_RANGE")
    BY <2>2 DEF Promise!Insert
  <2> QED BY <2>1, <2>3, RefusedIs DEF m, chars
<1>5. CASE index < s.size
  <2>1. Insert(s, index, v) = InsertChars(s, index, chars)
    BY <1>1, <1>5 DEF Insert, chars
  <2> QED BY <1>2, <1>5, <2>1, InsertedMeans DEF m, chars
<1> QED BY <1>1, <1>3, <1>4, <1>5

LEMMA InsertExMeans ==
  ASSUME Configured, Buffered, NEW s, IsString(s), s.status = "SUCCESS",
         NEW v, IsView(v), v.size # 0, NEW index \in Nat,
         index <= Len(Meaning(s).chars) + 1, NEW i \in Nat, NEW n \in Nat
  PROVE  Meaning(InsertEx(s, index, v, i, n))
           = Promise!InsertPart(Meaning(s), index, Shown(v), i, n)
<1> DEFINE m == Meaning(s)
           chars == Shown(v)
           part == SubSeq(v.data, i + 1, i + n)
<1>1. Len(m.chars) = s.size - 1 /\ s.size \in Nat /\ index <= s.size
  BY MeaningIs, StringNumbers
<1>2. Len(chars) = v.size - 1 /\ v.size \in Nat
  BY ShownIs DEF IsView
<1> HIDE DEF m, chars
<1>3. CASE i + n >= v.size
  <2>1. i + n > Len(chars)
    BY <1>2, <1>3
  <2>2. Promise!InsertPart(m, index, chars, i, n) = Promise!Refused(m, "OUT_OF_RANGE")
    BY <2>1 DEF Promise!InsertPart
  <2>3. InsertEx(s, index, v, i, n) = Fails(s, "OUT_OF_RANGE")
    BY <1>1, <1>3 DEF InsertEx, AppendEx
  <2> QED BY <2>2, <2>3, RefusedIs DEF m, chars
<1>4. CASE ~(i + n >= v.size)
  <2>1. ~(i + n > Len(chars))
    BY <1>2, <1>4
  <2>2. IsCells(part) /\ Promise!Part(chars, i, n) = part
    BY <1>4, PartShown, PartMeans DEF chars
  <2>3. Promise!InsertPart(m, index, chars, i, n) = Promise!Insert(m, index, part)
    BY <2>1, <2>2 DEF Promise!InsertPart
  <2>4. CASE index = s.size
    <3>1. InsertEx(s, index, v, i, n) = AppendChars(s, part)
      BY <1>4, <2>4 DEF InsertEx, AppendEx
    <3>2. index = Len(m.chars) + 1
      BY <1>1, <2>4
    <3>3. Promise!Insert(m, index, part) = Promise!AppendChars(m, part)
      BY <3>2 DEF Promise!Insert
    <3> HIDE DEF part
    <3> QED BY <2>2, <2>3, <3>1, <3>3, AppendCharsMeans DEF m, chars
  <2>5. CASE index # s.size
    <3>1. index < s.size
      BY <1>1, <2>5
    <3>2. InsertEx(s, index, v, i, n) = InsertChars(s, index, part)
      BY <1>1, <1>4, <3>1 DEF InsertEx
    <3> HIDE DEF part
    <3>3. Meaning(InsertChars(s, index, part)) = Promise!Insert(m, index, part)
      BY <2>2, <3>1, InsertedMeans DEF m
    <3> QED BY <2>3, <3>2, <3>3 DEF m, chars
  <2> QED BY <2>4, <2>5
<1> QED BY <1>3, <1>4

-----------------------------------------------------------------------------
(* Text that goes *)

\* The cells behind the gap move into it
LEMMA ClosedIs ==
  ASSUME NEW s, IsString(s), NEW index \in Nat, NEW count \in Nat,
         ~(index + count >= s.size)
  PROVE  LET p == V(s)!ShiftLeft(s.data, index, count) IN
           /\ IsCells(p) /\ Len(p) = Len(s.data)
           /\ \A i \in 1..(s.size - count) : p[i]
                = IF i <= index THEN s.data[i] ELSE s.data[i + count]
<1> DEFINE p == V(s)!ShiftLeft(s.data, index, count)
           q == s.data
           src == index + count
           k == s.size - index - count
<1>1. s.size \in Nat /\ Len(q) \in Nat /\ s.size <= Len(q) /\ index + count < s.size
      /\ IsCells(q)
  BY StringNumbers DEF IsString
<1>2. p = V(s)!MemMove(q, index, src, k)
  BY <1>1 DEF V!ShiftLeft
<1>3. src \in Nat /\ k \in Nat /\ src + k <= Len(q)
  BY <1>1
<1> HIDE DEF p, q, src, k
<1>4. /\ IsCells(p) /\ Len(p) = Len(q)
      /\ \A i \in 1..Len(q) : p[i]
           = IF i \in (index + 1)..(index + k) THEN q[i - index + src] ELSE q[i]
  BY <1>1, <1>2, <1>3, MemMoveIs
<1>5. ASSUME NEW i \in 1..(s.size - count)
      PROVE  p[i] = IF i <= index THEN q[i] ELSE q[i + count]
  <2>1. i \in 1..Len(q) /\ i \in Nat
    BY <1>1
  <2>2. i \in (index + 1)..(index + k) <=> ~(i <= index)
    BY <1>1, <2>1 DEF k
  <2>3. i - index + src = i + count
    BY <2>1 DEF src
  <2> QED BY <1>4, <2>1, <2>2, <2>3
<1> QED BY <1>4, <1>5 DEF p, q

LEMMA DeleteMeans ==
  ASSUME Configured, Buffered, NEW s, IsString(s), s.status = "SUCCESS",
         NEW index \in Nat, NEW count \in Nat
  PROVE  Meaning(Delete(s, index, count)) = Promise!Delete(Meaning(s), index, count)
<1> DEFINE m == Meaning(s)
           none == << >>
           n == s.size - count
           p == V(s)!ShiftLeft(s.data, index, count)
           r == Outcome(V(s)!ShrinkTo(p, n))
<1>1. Len(m.chars) = s.size - 1 /\ s.size \in Nat
  BY MeaningIs, StringNumbers
<1>2. Delete(s, index, count) = IF index + count >= s.size THEN Fails(s, "OUT_OF_RANGE")
                                ELSE IF count = 0 THEN Fails(s, "INVALID_ARGUMENT")
                                ELSE Store(s, r.p, 0, none, n)
  BY DEF Delete
<1>3. Promise!Delete(m, index, count)
        = CASE index + count > Len(m.chars) -> Promise!Refused(m, "OUT_OF_RANGE")
            [] count = 0 /\ index <= Len(m.chars) -> Promise!Refused(m, "INVALID_ARGUMENT")
            [] OTHER -> Promise!Splice(m, index, count, none)
  BY DEF Promise!Delete
<1> HIDE DEF m, none, n, p, r
<1>4. CASE index + count >= s.size
  <2>1. index + count > Len(m.chars) /\ ~(count = 0 /\ index <= Len(m.chars))
    BY <1>1, <1>4
  <2>2. Promise!Delete(m, index, count) = Promise!Refused(m, "OUT_OF_RANGE")
    BY <1>3, <2>1
  <2>3. Delete(s, index, count) = Fails(s, "OUT_OF_RANGE")
    BY <1>2, <1>4
  <2> QED BY <2>2, <2>3, RefusedIs DEF m
<1>5. CASE ~(index + count >= s.size) /\ count = 0
  <2>1. ~(index + count > Len(m.chars)) /\ index <= Len(m.chars)
    BY <1>1, <1>5
  <2>2. Promise!Delete(m, index, count) = Promise!Refused(m, "INVALID_ARGUMENT")
    BY <1>3, <1>5, <2>1
  <2>3. Delete(s, index, count) = Fails(s, "INVALID_ARGUMENT")
    BY <1>2, <1>5
  <2> QED BY <2>2, <2>3, RefusedIs DEF m
<1>6. CASE ~(index + count >= s.size) /\ count # 0
  <2>1. ~(index + count > Len(m.chars)) /\ index + count <= s.size - 1
    BY <1>1, <1>6
  <2>2. Promise!Delete(m, index, count) = Promise!Splice(m, index, count, none)
    BY <1>3, <1>6, <2>1
  <2>3. IsCells(none) /\ Len(none) = 0
    BY NothingIsSeq DEF none
  <2>14. PICK q : Spliced(q, s, index, count, none)
    BY <2>1, <2>3, SpliceIs
  <2>4. /\ IsCells(q) /\ Len(q) = s.size - 1 - count + Len(none)
        /\ Promise!Splice(m, index, count, none) = Promise!Become(m, q)
        /\ \A i \in 1..Len(q) : q[i]
             = IF i <= index THEN s.data[i]
               ELSE IF i <= index + Len(none) THEN none[i - index]
               ELSE s.data[i - Len(none) + count]
    BY <2>14 DEF Spliced, m
  <2>5. /\ IsCells(p) /\ Len(p) = Len(s.data)
        /\ \A i \in 1..(s.size - count) : p[i]
             = IF i <= index THEN s.data[i] ELSE s.data[i + count]
    BY <1>6, ClosedIs DEF p
  <2>6. /\ n \in Nat \ {0} /\ n <= Len(p) /\ Len(p) >= 1 /\ n - 1 = s.size - 1 - count
        /\ Len(p) \in Nat
    BY <1>1, <1>6, <2>5, StringNumbers DEF n
  <2>7. Room(r, p, n) /\ Granted(r, s, n)
    BY <2>5, <2>6, ShrinkToRoom, ShrinkToGrants DEF r
  <2>8. r.status = "SUCCESS"
    BY <2>5, <2>6, <2>7 DEF Granted
  <2>9. Len(q) = n - 1
    BY <1>1, <2>3, <2>4, <2>6
  <2>10. Replaced(q, p, 0, none, n)
    <3> SUFFICES ASSUME NEW i \in 1..(n - 1)
                 PROVE  /\ ~(i \in (0 + 1)..(0 + Len(none)))
                        /\ i <= Len(p) /\ q[i] = p[i]
      BY DEF Replaced
    <3>1. i \in Nat /\ i >= 1 /\ i <= Len(p) /\ i \in 1..Len(q) /\ i \in 1..(s.size - count)
      BY <1>1, <2>6, <2>9
    <3>2. ~(i \in (0 + 1)..(0 + Len(none)))
      BY <2>3, <3>1
    <3>3. CASE i <= index
      <4>1. q[i] = s.data[i] /\ p[i] = s.data[i]
        BY <2>4, <2>5, <3>1, <3>3
      <4> QED BY <3>1, <3>2, <4>1
    <3>4. CASE ~(i <= index)
      <4>1. ~(i <= index + Len(none)) /\ i - Len(none) + count = i + count
        BY <2>3, <3>1, <3>4
      <4>2. q[i] = s.data[i + count] /\ p[i] = s.data[i + count]
        BY <2>4, <2>5, <3>1, <3>4, <4>1
      <4> QED BY <3>1, <3>2, <4>2
    <3> QED BY <3>3, <3>4
  <2>11. 0 + Len(none) <= n /\ 0 \in Nat
    BY <2>3, <2>6
  <2>12. Meaning(IF r.status # "SUCCESS" THEN Fails(s, r.status)
                 ELSE Store(s, r.p, 0, none, n)) = Promise!Become(m, q)
    BY <2>3, <2>4, <2>5, <2>6, <2>7, <2>9, <2>10, <2>11, BecomesStored, SMTT(30) DEF m
  <2>13. Delete(s, index, count) = Store(s, r.p, 0, none, n)
    BY <1>2, <1>6
  <2> QED BY <2>2, <2>4, <2>8, <2>12, <2>13 DEF m
<1> QED BY <1>4, <1>5, <1>6

LEMMA TruncateMeans ==
  ASSUME Configured, Buffered, NEW s, IsString(s), s.status = "SUCCESS",
         NEW index \in Nat
  PROVE  Meaning(Truncate(s, index)) = Promise!Truncate(Meaning(s), index)
<1> DEFINE m == Meaning(s)
<1>1. Len(m.chars) = s.size - 1 /\ s.size \in Nat
  BY MeaningIs, StringNumbers
<1> HIDE DEF m
<1>2. CASE index >= s.size
  <2>1. index > Len(m.chars)
    BY <1>1, <1>2
  <2> QED BY <1>2, <2>1, RefusedIs DEF Truncate, Promise!Truncate, m
<1>3. CASE ~(index >= s.size)
  <2>1. /\ ~(index > Len(m.chars)) /\ s.size - index - 1 \in Nat
        /\ Len(m.chars) - index = s.size - index - 1
    BY <1>1, <1>3
  <2>2. Promise!Truncate(m, index) = Promise!Delete(m, index, s.size - index - 1)
    BY <2>1 DEF Promise!Truncate
  <2>3. Truncate(s, index) = Delete(s, index, s.size - index - 1)
    BY <1>3 DEF Truncate
  <2> QED BY <2>1, <2>2, <2>3, DeleteMeans DEF m
<1> QED BY <1>2, <1>3

-----------------------------------------------------------------------------
(* Characters that are others *)

LEMMA ForEachMeans ==
  ASSUME NEW s, IsString(s), s.status = "SUCCESS", NEW index \in Nat, NEW count \in Nat,
         NEW f \in [Char -> Char], NEW from, NEW to,
         \A c \in Char : f[c] = Promise!Shift(c, from, to)
  PROVE  Meaning(ForEach(s, index, count, f))
           = Promise!Recased(Meaning(s), index, count, from, to)
<1> DEFINE m == Meaning(s)
           old == m.chars
           chars == [i \in 1..count |-> IF old[index + i] \in Char
                                          THEN Promise!Shift(old[index + i], from, to)
                                          ELSE Undef]
<1>1. /\ Len(old) = s.size - 1 /\ s.size \in Nat
      /\ \A i \in 1..(s.size - 1) : old[i] = s.data[i]
  BY MeaningIs, StringNumbers
<1>2. Promise!Recased(m, index, count, from, to)
        = IF index + count > Len(old) THEN Promise!Refused(m, "OUT_OF_RANGE")
          ELSE Promise!Splice(m, index, count, chars)
  BY DEF Promise!Recased
<1> HIDE DEF m, old
<1>3. CASE index + count >= s.size
  <2>1. index + count > Len(old)
    BY <1>1, <1>3
  <2>2. ForEach(s, index, count, f) = Fails(s, "OUT_OF_RANGE")
    BY <1>3 DEF ForEach
  <2> QED BY <1>2, <2>1, <2>2, RefusedIs DEF m
<1>4. CASE ~(index + count >= s.size)
  <2> DEFINE p == s.data
             d == [i \in DOMAIN p |-> IF i \in (index + 1)..(index + count) /\ p[i] # Undef
                                        THEN f[p[i]] ELSE p[i]]
             t == ForEach(s, index, count, f)
  <2>1. ~(index + count > Len(old)) /\ index + count <= s.size - 1
    BY <1>1, <1>4
  <2>2. /\ IsCells(p) /\ Len(p) \in Nat /\ DOMAIN p = 1..Len(p) /\ s.size <= Len(p)
        /\ \A i \in 1..Len(p) : p[i] \in Cell
    BY SeqIsFunction, StringNumbers DEF IsString
  <2>3. t = [data |-> d, size |-> s.size, status |-> s.status]
    <3>1. t = [s EXCEPT !.data = d]
      BY <1>4 DEF ForEach
    <3> HIDE DEF d, t
    <3> QED BY <3>1, RecordParts DEF IsString
  <2>4. IsString(t)
    BY ForEachIs
  <2>5. \A i \in 1..Len(p) : d[i]
          = IF i \in (index + 1)..(index + count) /\ p[i] # Undef THEN f[p[i]] ELSE p[i]
    BY <2>2
  <2> HIDE DEF p
  <2>6. DOMAIN d = 1..Len(p)
    BY <2>2
  <2> HIDE DEF d, t
  <2>7. t.data = d /\ t.size = s.size /\ t.status = "SUCCESS"
    BY <2>3, SMTT(30)
  <2>8. Len(t.data) = Len(p)
    <3>1. IsCells(d) /\ Len(d) \in Nat /\ DOMAIN d = 1..Len(d)
      BY <2>4, <2>7, SeqLength, SeqIsFunction DEF IsString
    <3>2. 1..Len(d) = 1..Len(p)
      BY <2>6, <3>1
    <3>3. \A a, b \in Nat : 1..a = 1..b => a = b
      <4> SUFFICES ASSUME NEW a \in Nat, NEW b \in Nat, 1..a = 1..b PROVE a = b
        OBVIOUS
      <4>1. ~(a < b)
        <5>1. b > 0 => b \in 1..b
          OBVIOUS
        <5> QED BY <5>1
      <4>2. ~(b < a)
        <5>1. a > 0 => a \in 1..a
          OBVIOUS
        <5> QED BY <5>1
      <4> QED BY <4>1, <4>2
    <3> QED BY <2>2, <2>7, <3>1, <3>2, <3>3
  <2>9. \A i \in 1..count : chars[i] = d[index + i] /\ chars[i] \in Cell
    <3> SUFFICES ASSUME NEW i \in 1..count
                 PROVE  chars[i] = d[index + i] /\ chars[i] \in Cell
      OBVIOUS
    <3>1. /\ index + i \in 1..(s.size - 1) /\ index + i \in 1..Len(p)
          /\ index + i \in (index + 1)..(index + count)
      BY <1>1, <2>1, <2>2
    <3> DEFINE x == p[index + i]
    <3>2. old[index + i] = x
      BY <1>1, <3>1 DEF p
    <3>3. x \in Cell
      BY <2>2, <3>1
    <3>4. x # Undef <=> x \in Char
      BY <3>3, StringAssumption DEF Cell
    <3>5. chars[i] = IF x \in Char THEN Promise!Shift(x, from, to) ELSE Undef
      BY <3>2
    <3>6. d[index + i] = IF x # Undef THEN f[x] ELSE x
      BY <2>5, <3>1
    <3> HIDE DEF x, chars
    <3>7. CASE x \in Char
      <4>1. f[x] \in Char /\ f[x] = Promise!Shift(x, from, to)
        BY <3>7
      <4> QED BY <3>4, <3>5, <3>6, <3>7, <4>1 DEF Cell
    <3>8. CASE x \notin Char
      BY <3>4, <3>5, <3>6, <3>8 DEF Cell
    <3> QED BY <3>7, <3>8
  <2>10. IsCells(chars) /\ Len(chars) = count
    <3>1. chars = [i \in 1..count |-> chars[i]]
      OBVIOUS
    <3> HIDE DEF chars
    <3> QED BY <2>9, <3>1, FunctionIsSeq
  <2> HIDE DEF chars
  <2>11. PICK q : Spliced(q, s, index, count, chars)
    BY <2>1, <2>10, SpliceIs
  <2>12. /\ IsCells(q) /\ Len(q) = s.size - 1 - count + Len(chars)
         /\ Promise!Splice(m, index, count, chars) = Promise!Become(m, q)
         /\ \A i \in 1..Len(q) : q[i]
              = IF i <= index THEN s.data[i]
                ELSE IF i <= index + Len(chars) THEN chars[i - index]
                ELSE s.data[i - Len(chars) + count]
    BY <2>11 DEF Spliced, m
  <2>13. Len(q) = s.size - 1 /\ t.size = Len(q) + 1
    BY <1>1, <2>7, <2>10, <2>12
  <2>14. \A i \in 1..Len(q) : t.data[i] = q[i]
    <3> SUFFICES ASSUME NEW i \in 1..Len(q) PROVE d[i] = q[i]
      BY <2>7
    <3>1. i \in Nat /\ i >= 1 /\ i \in 1..Len(p)
      BY <1>1, <2>2, <2>13
    <3>2. CASE i \in (index + 1)..(index + count)
      <4>1. i - index \in 1..count /\ index + (i - index) = i /\ ~(i <= index)
            /\ i <= index + Len(chars)
        BY <2>10, <3>1, <3>2
      <4>2. q[i] = chars[i - index]
        BY <2>12, <4>1
      <4>3. chars[i - index] = d[index + (i - index)]
        BY <2>9, <4>1
      <4> QED BY <4>1, <4>2, <4>3
    <3>3. CASE ~(i \in (index + 1)..(index + count))
      <4>1. d[i] = p[i]
        BY <2>5, <3>1, <3>3
      <4>2. i <= index \/ (~(i <= index) /\ ~(i <= index + Len(chars))
                             /\ i - Len(chars) + count = i)
        BY <2>10, <3>1, <3>3
      <4>3. q[i] = s.data[i]
        BY <2>12, <4>2
      <4> QED BY <4>1, <4>3 DEF p
    <3> QED BY <3>2, <3>3
  <2>15. Meaning(t) = Promise!Become(m, q)
    BY <2>4, <2>7, <2>8, <2>12, <2>13, <2>14, BecomesIs DEF m, p
  <2> QED BY <1>2, <2>1, <2>12, <2>15 DEF t, m
<1> QED BY <1>3, <1>4

LEMMA CasesShift ==
  \A c \in Char : Lower[c] = Promise!Shift(c, 65, 97) /\ Upper[c] = Promise!Shift(c, 97, 65)
BY DEF Char, Lower, Upper, Promise!Shift

LEMMA CasesMean ==
  ASSUME NEW s, IsString(s), s.status = "SUCCESS", NEW index \in Nat, NEW count \in Nat
  PROVE  /\ Meaning(ToLowerCaseEx(s, index, count))
              = Promise!ToLowerCase(Meaning(s), index, count)
         /\ Meaning(ToUpperCaseEx(s, index, count))
              = Promise!ToUpperCase(Meaning(s), index, count)
<1>1. Meaning(ForEach(s, index, count, Lower))
        = Promise!Recased(Meaning(s), index, count, 65, 97)
  BY CasesAre, CasesShift, ForEachMeans
<1>2. Meaning(ForEach(s, index, count, Upper))
        = Promise!Recased(Meaning(s), index, count, 97, 65)
  BY CasesAre, CasesShift, ForEachMeans
<1> QED BY <1>1, <1>2 DEF ToLowerCaseEx, ToUpperCaseEx, Promise!ToLowerCase,
                          Promise!ToUpperCase

LEMMA GetCharMeans ==
  ASSUME NEW s, IsString(s), NEW index \in Nat
  PROVE  GetChar(s, index) = Promise!GetChar(Meaning(s), index)
<1> DEFINE m == Meaning(s)
<1>1. s.size \in Nat /\ s.size >= 1
  BY StringNumbers
<1>2. /\ Len(m.chars) = s.size - 1
      /\ \A i \in 1..(s.size - 1) : m.chars[i] = s.data[i]
  BY MeaningIs
<1>3. Promise!GetChar(m, index)
        = IF index < Len(m.chars)
          THEN [value |-> m.chars[index + 1], status |-> "SUCCESS"]
          ELSE [value |-> Undef, status |-> "OUT_OF_RANGE"]
  BY DEF Promise!GetChar
<1> HIDE DEF m
<1>4. CASE index + 1 >= s.size
  <2>1. ~(index < Len(m.chars))
    BY <1>1, <1>2, <1>4
  <2> QED BY <1>3, <1>4, <2>1 DEF GetChar, m
<1>5. CASE ~(index + 1 >= s.size)
  <2>1. index < Len(m.chars) /\ index + 1 \in 1..(s.size - 1)
    BY <1>1, <1>2, <1>5
  <2>2. m.chars[index + 1] = s.data[index + 1]
    BY <1>2, <2>1
  <2>3. GetChar(s, index) = [value |-> s.data[index + 1], status |-> "SUCCESS"]
    BY <1>5 DEF GetChar
  <2> QED BY <1>3, <2>1, <2>2, <2>3 DEF m
<1> QED BY <1>4, <1>5

LEMMA SetCharMeans ==
  ASSUME NEW s, IsString(s), s.status = "SUCCESS", NEW index \in Nat, NEW value \in Char
  PROVE  Meaning(SetChar(s, index, value)) = Promise!SetChar(Meaning(s), index, value)
<1> DEFINE m == Meaning(s)
           chars == <<value>>
<1>1. Len(m.chars) = s.size - 1 /\ s.size \in Nat
  BY MeaningIs, StringNumbers
<1>2. Promise!SetChar(m, index, value)
        = IF index >= Len(m.chars) THEN Promise!Refused(m, "OUT_OF_RANGE")
          ELSE Promise!Splice(m, index, 1, chars)
  BY DEF Promise!SetChar
<1> HIDE DEF m
<1>3. CASE index + 1 >= s.size
  <2>1. index >= Len(m.chars)
    BY <1>1, <1>3
  <2>2. SetChar(s, index, value) = Fails(s, "OUT_OF_RANGE")
    BY <1>3 DEF SetChar
  <2> QED BY <1>2, <2>1, <2>2, RefusedIs DEF m
<1>4. CASE ~(index + 1 >= s.size)
  <2> DEFINE p == s.data
             d == [p EXCEPT ![index + 1] = value]
             t == SetChar(s, index, value)
  <2>1. ~(index >= Len(m.chars)) /\ index + 1 <= s.size - 1
    BY <1>1, <1>4
  <2>2. /\ IsCells(p) /\ Len(p) \in Nat /\ DOMAIN p = 1..Len(p) /\ s.size <= Len(p)
        /\ p \in Seq(Cell)
    BY SeqIsFunction, StringNumbers DEF IsString, IsCells
  <2>3. t = [data |-> d, size |-> s.size, status |-> s.status]
    <3>1. t = [s EXCEPT !.data = d]
      BY <1>4 DEF SetChar
    <3> HIDE DEF d, t
    <3> QED BY <3>1, RecordParts DEF IsString
  <2>4. IsString(t)
    BY SetCharIs
  <2> HIDE DEF p, t
  <2>5. Len(d) = Len(p) /\ \A i \in 1..Len(p) : d[i] = IF i = index + 1 THEN value ELSE p[i]
    BY <2>2
  <2> HIDE DEF d
  <2>7. t.data = d /\ t.size = s.size /\ t.status = "SUCCESS"
    BY <2>3
  <2>10. IsCells(chars) /\ Len(chars) = 1 /\ chars[1] = value
    BY DEF IsCells, Cell
  <2> HIDE DEF chars
  <2>11. PICK q : Spliced(q, s, index, 1, chars)
    BY <2>1, <2>10, SpliceIs
  <2>12. /\ IsCells(q) /\ Len(q) = s.size - 1 - 1 + Len(chars)
         /\ Promise!Splice(m, index, 1, chars) = Promise!Become(m, q)
         /\ \A i \in 1..Len(q) : q[i]
              = IF i <= index THEN s.data[i]
                ELSE IF i <= index + Len(chars) THEN chars[i - index]
                ELSE s.data[i - Len(chars) + 1]
    BY <2>11 DEF Spliced, m
  <2>13. Len(q) = s.size - 1 /\ t.size = Len(q) + 1
    BY <1>1, <2>7, <2>10, <2>12
  <2>14. \A i \in 1..Len(q) : t.data[i] = q[i]
    <3> SUFFICES ASSUME NEW i \in 1..Len(q) PROVE d[i] = q[i]
      BY <2>7
    <3>1. i \in Nat /\ i >= 1 /\ i \in 1..Len(p)
      BY <1>1, <2>2, <2>13
    <3>2. CASE i = index + 1
      <4>1. i - index = 1 /\ ~(i <= index) /\ i <= index + Len(chars)
        BY <2>10, <3>1, <3>2
      <4>2. q[i] = chars[i - index]
        BY <2>12, <4>1
      <4>3. d[i] = value
        BY <2>5, <3>1, <3>2
      <4> QED BY <2>10, <4>1, <4>2, <4>3
    <3>3. CASE i # index + 1
      <4>1. d[i] = p[i]
        BY <2>5, <3>1, <3>3
      <4>2. i <= index \/ (~(i <= index) /\ ~(i <= index + Len(chars))
                             /\ i - Len(chars) + 1 = i)
        BY <2>10, <3>1, <3>3
      <4>3. q[i] = s.data[i]
        BY <2>12, <4>2
      <4> QED BY <4>1, <4>3 DEF p
    <3> QED BY <3>2, <3>3
  <2>15. Meaning(t) = Promise!Become(m, q)
    BY <2>4, <2>5, <2>7, <2>12, <2>13, <2>14, BecomesIs DEF m, p
  <2> QED BY <1>2, <2>1, <2>12, <2>15 DEF t, m
<1> QED BY <1>3, <1>4

-----------------------------------------------------------------------------
(* The block *)

LEMMA CutMeans ==
  ASSUME Configured, Buffered, NEW s, IsString(s), s.status = "SUCCESS",
         NEW n \in Nat, n <= s.size - 1
  PROVE  Meaning(Resize(s, n)) = Promise!Resize(Meaning(s), n)
<1> DEFINE m == Meaning(s)
           t == m.chars
           q == SubSeq(t, 1, n)
           none == << >>
           r == VectorResize(s, n + 1)
           p == s.data
<1>1. /\ IsCells(t) /\ Len(t) = s.size - 1 /\ \A i \in 1..(s.size - 1) : t[i] = p[i]
  BY MeaningIs
<1>2. /\ s.size \in Nat /\ s.size <= Len(p) /\ Len(p) \in Nat /\ IsCells(p) /\ Len(p) >= 1
  BY StringNumbers DEF IsString
<1>3. Promise!Resize(m, n) = Promise!Become(m, q)
  BY <1>1 DEF Promise!Resize
<1>4. Resize(s, n) = IF r.status # "SUCCESS" THEN Fails(s, r.status)
                     ELSE Store(s, r.p, 0, none, n + 1)
  BY DEF Resize, ResizeTo
<1>5. Room(r, p, n + 1) /\ Granted(r, s, n + 1)
  BY <1>2, ResizeRoom, ResizeGrants
<1>6. IsCells(none) /\ Len(none) = 0
  BY NothingIsSeq
<1> HIDE DEF m, t, none, r, p
<1>7. IsCells(q) /\ Len(q) = n /\ \A i \in 1..n : q[i] = t[i]
  <2>1. /\ IsCells(SubSeq(t, 1, n)) /\ Len(SubSeq(t, 1, n)) = n + 1 - 1
        /\ \A i \in 1..(n + 1 - 1) : SubSeq(t, 1, n)[i] = t[1 + i - 1]
    BY <1>1, <1>2, PartIsSeq
  <2>2. n + 1 - 1 = n /\ \A i \in 1..n : 1 + i - 1 = i
    OBVIOUS
  <2> QED BY <2>1, <2>2
<1> HIDE DEF q
<1>8. Replaced(q, p, 0, none, n + 1)
  <2> SUFFICES ASSUME NEW i \in 1..((n + 1) - 1)
               PROVE  /\ ~(i \in (0 + 1)..(0 + Len(none)))
                      /\ i <= Len(p) /\ q[i] = p[i]
    BY DEF Replaced
  <2>1. i \in 1..n /\ i \in 1..(s.size - 1) /\ i <= Len(p)
    BY <1>2
  <2>2. ~(i \in (0 + 1)..(0 + Len(none)))
    BY <1>6
  <2> QED BY <1>1, <1>7, <2>1, <2>2
<1>9. /\ n + 1 \in Nat \ {0} /\ 0 + Len(none) <= n + 1 /\ Len(q) = (n + 1) - 1 /\ 0 \in Nat
      /\ Len(p) = Len(s.data)
  BY <1>6, <1>7 DEF p
<1>10. Meaning(IF r.status # "SUCCESS" THEN Fails(s, r.status)
               ELSE Store(s, r.p, 0, none, n + 1)) = Promise!Become(m, q)
  <2> DEFINE z == n + 1
  <2>1. /\ Room(r, p, z) /\ Granted(r, s, z) /\ Replaced(q, p, 0, none, z)
        /\ z \in Nat \ {0} /\ 0 + Len(none) <= z /\ Len(q) = z - 1
    BY <1>5, <1>8, <1>9
  <2> HIDE DEF z
  <2>2. Meaning(IF r.status # "SUCCESS" THEN Fails(s, r.status)
                ELSE Store(s, r.p, 0, none, z)) = Promise!Become(m, q)
    BY <1>2, <1>6, <1>7, <1>9, <2>1, BecomesStored, SMTT(30) DEF m
  <2> QED BY <2>2 DEF z
<1> QED BY <1>3, <1>4, <1>10 DEF m

\* A resize reports what an appending of as many characters would
LEMMA ResizeReports ==
  ASSUME Configured, Buffered, NEW s, IsString(s), s.status = "SUCCESS", NEW n \in Nat
  PROVE  Meaning(Resize(s, n)).status = Promise!Resize(Meaning(s), n).status
<1>1. CASE n <= s.size - 1
  BY <1>1, CutMeans
<1>2. CASE ~(n <= s.size - 1)
  <2> DEFINE m == Meaning(s)
             k == n - Len(m.chars)
             chars == [i \in 1..k |-> Undef]
             r == VectorResize(s, n + 1)
             t == Resize(s, n)
  <2>1. /\ Len(m.chars) = s.size - 1 /\ s.size \in Nat /\ s.size >= 1 /\ Len(s.data) \in Nat
        /\ Len(s.data) >= 1 /\ m.status = "SUCCESS" /\ m.limit = IF fixed THEN Len(s.data) - 1 ELSE -1
        /\ m = [chars |-> m.chars, status |-> m.status, limit |-> m.limit]
    BY MeaningIs, StringNumbers
  <2>2. k \in Nat
    BY <1>2, <2>1
  <2>3. IsCells(chars) /\ Len(chars) = k
    <3>1. chars = [i \in 1..k |-> chars[i]] /\ \A i \in 1..k : chars[i] \in Cell
      BY CellsAre
    <3> HIDE DEF k, chars
    <3> QED BY <2>2, <3>1, FunctionIsSeq
  <2>4. Promise!Resize(m, n) = Promise!Splice(m, Len(m.chars), 0, chars)
    BY <1>2, <2>1 DEF Promise!Resize, Promise!AppendChars
  <2>5. Granted(r, s, n + 1)
    <3>1. n + 1 \in Nat
      OBVIOUS
    <3> QED BY <3>1, ResizeGrants
  <2>6. t = IF r.status # "SUCCESS" THEN Fails(s, r.status)
            ELSE Store(s, r.p, 0, << >>, n + 1)
    BY DEF Resize, ResizeTo
  <2>7. IsString(t)
    BY ResizeIs
  <2>8. t.status = r.status
    <3>1. CASE r.status # "SUCCESS"
      <4>1. Fails(s, r.status).status = r.status
        <5>1. Fails(s, r.status) = [data |-> s.data, size |-> s.size, status |-> r.status]
          BY RecordParts DEF Fails, IsString
        <5> QED BY <5>1
      <4> QED BY <2>6, <3>1, <4>1
    <3>2. CASE r.status = "SUCCESS"
      <4> DEFINE none == << >>
                 z == n + 1
      <4>1. Room(r, s.data, z) /\ z \in Nat \ {0} /\ IsCells(none) /\ 0 + Len(none) <= z
            /\ 0 \in Nat
        BY ResizeRoom, StringNumbers, NothingIsSeq DEF IsString
      <4>2. t = Store(s, r.p, 0, none, z)
        BY <2>6, <3>2
      <4> HIDE DEF none, z, r, t
      <4>3. Stored(t, s, r.p, 0, none, z)
        BY <3>2, <4>1, <4>2, StoredCells
      <4> QED BY <3>2, <4>3 DEF Stored
    <3> QED BY <3>1, <3>2
  <2> DEFINE pos == s.size - 1
  <2>9. PICK q : Spliced(q, s, pos, 0, chars)
    <3>1. pos + 0 <= s.size - 1 /\ 0 \in Nat /\ pos \in Nat
      BY <2>1
    <3> HIDE DEF pos, chars
    <3> QED BY <2>3, <3>1, SpliceIs
  <2>10. Promise!Resize(m, n) = Promise!Become(m, q) /\ Len(q) = n
    <3>1. Len(q) = s.size - 1 - 0 + k /\ Promise!Splice(m, pos, 0, chars) = Promise!Become(m, q)
      BY <2>3, <2>9 DEF Spliced
    <3>2. s.size - 1 - 0 + k = n
      BY <2>1
    <3> QED BY <2>1, <2>4, <3>1, <3>2
  <2> HIDE DEF m, k, chars, r, t
  <2>11. Promise!Become(m, q).status = r.status
    <3>1. CASE Promise!Fits(m, n)
      <4>1. Promise!Become(m, q) = [m EXCEPT !.chars = q]
        BY <2>1, <2>10, <3>1 DEF Promise!Become
      <4>2. [m EXCEPT !.chars = q].status = "SUCCESS"
        BY <2>1
      <4>3. r.status = "SUCCESS"
        <5>1. fixed => n + 1 <= Len(s.data)
          BY <2>1, <3>1 DEF Promise!Fits, Promise!Unlimited
        <5> QED BY <2>5, <5>1 DEF Granted
      <4> QED BY <4>1, <4>2, <4>3
    <3>2. CASE ~Promise!Fits(m, n)
      <4>1. Promise!Become(m, q) = [m EXCEPT !.status = "INSUFFICIENT_BUFFER_SIZE"]
        BY <2>1, <2>10, <3>2 DEF Promise!Become, Promise!Refused
      <4>2. [m EXCEPT !.status = "INSUFFICIENT_BUFFER_SIZE"].status
              = "INSUFFICIENT_BUFFER_SIZE"
        BY <2>1
      <4>3. fixed /\ ~(n + 1 <= Len(s.data))
        BY <2>1, <3>2 DEF Promise!Fits, Promise!Unlimited
      <4> QED BY <2>5, <4>1, <4>2, <4>3 DEF Granted
    <3> QED BY <3>1, <3>2
  <2>12. Meaning(t).status = t.status
    BY <2>7, MeaningIs
  <2> QED BY <2>8, <2>10, <2>11, <2>12 DEF t, m
<1> QED BY <1>1, <1>2

\* The block moves, and with it the text
LEMMA MovedMeans ==
  ASSUME NEW s, IsString(s), NEW r, Room(r, s.data, s.size),
         fixed => Len(r.p) = Len(s.data)
  PROVE  Meaning(Moved(s, r)) = [Meaning(s) EXCEPT !.status = r.status]
<1> DEFINE t == Moved(s, r)
           m == Meaning(s)
           z == Meaning(t)
<1>1. t = [data |-> r.p, size |-> s.size, status |-> r.status]
  <2> DEFINE d == r.p
             why == r.status
             n == s.size
             c == s.status
             x == [s EXCEPT !.data = d]
  <2>1. Moved(s, r) = [x EXCEPT !.status = why]
    BY DEF Moved
  <2> HIDE DEF d, why
  <2>2. x = [data |-> d, size |-> n, status |-> c]
    BY RecordParts DEF IsString
  <2> HIDE DEF n, c, x
  <2>3. [x EXCEPT !.status = why] = [data |-> d, size |-> n, status |-> why]
    BY <2>2
  <2> QED BY <2>1, <2>3 DEF d, why, n
<1>2. IsString(t)
  BY MovedIs
<1>3. t.data = r.p /\ t.size = s.size /\ t.status = r.status
  BY <1>1
<1> HIDE DEF t
<1>4. /\ z = [chars |-> z.chars, status |-> z.status, limit |-> z.limit]
      /\ z.status = t.status /\ z.limit = IF fixed THEN Len(t.data) - 1 ELSE -1
      /\ IsCells(z.chars) /\ Len(z.chars) = t.size - 1
      /\ \A i \in 1..(t.size - 1) : z.chars[i] = t.data[i]
  BY <1>2, MeaningIs
<1>5. /\ m = [chars |-> m.chars, status |-> m.status, limit |-> m.limit]
      /\ m.limit = IF fixed THEN Len(s.data) - 1 ELSE -1
      /\ IsCells(m.chars) /\ Len(m.chars) = s.size - 1
      /\ \A i \in 1..(s.size - 1) : m.chars[i] = s.data[i]
  BY MeaningIs
<1> HIDE DEF m, z
<1>6. \A i \in 1..(s.size - 1) : t.data[i] = s.data[i]
  <2>1. /\ s.size \in Nat /\ s.size <= Len(t.data) /\ s.size <= Len(s.data)
        /\ Len(t.data) \in Nat /\ Len(s.data) \in Nat
    BY <1>2, <1>3, StringNumbers
  <2>2. \A i \in 1..(s.size - 1) : i \in 1..Len(t.data) /\ i <= Len(s.data)
    BY <2>1
  <2> QED BY <1>3, <2>2 DEF Room
<1>7. \A i \in 1..Len(z.chars) : z.chars[i] = m.chars[i]
  BY <1>3, <1>4, <1>5, <1>6
<1>8. z.chars = m.chars
  BY <1>3, <1>4, <1>5, <1>7, SameCells
<1>9. z.limit = m.limit
  BY <1>3, <1>4, <1>5
<1> DEFINE a == m.chars
           b == m.status
           c == m.limit
           why == r.status
<1>10. z = [chars |-> a, status |-> why, limit |-> c]
  BY <1>3, <1>4, <1>8, <1>9
<1>11. m = [chars |-> a, status |-> b, limit |-> c]
  BY <1>5
<1> HIDE DEF a, b, c, why
<1>12. [m EXCEPT !.status = why] = [chars |-> a, status |-> why, limit |-> c]
  BY <1>11
<1> QED BY <1>10, <1>12 DEF z, m, t, why

\* A status that is not changed
LEMMA SameStatus ==
  ASSUME NEW s, IsString(s), s.status = "SUCCESS"
  PROVE  [Meaning(s) EXCEPT !.status = "SUCCESS"] = Meaning(s)
<1> DEFINE m == Meaning(s)
           a == m.chars
           c == m.limit
<1>1. m = [chars |-> a, status |-> "SUCCESS", limit |-> c]
  BY MeaningIs
<1> HIDE DEF m, a, c
<1>2. [m EXCEPT !.status = "SUCCESS"] = m
  BY <1>1
<1> QED BY <1>2 DEF m

LEMMA ReserveMeans ==
  ASSUME Configured, NEW s, IsString(s), s.status = "SUCCESS", NEW c \in Nat
  PROVE  Meaning(Reserve(s, c)) = Promise!Reserve(Meaning(s), c)
<1> DEFINE r == Outcome(V(s)!Reserving(c))
           m == Meaning(s)
<1>1. IsCells(s.data) /\ Len(s.data) >= 1 /\ Len(s.data) \in Nat /\ s.size \in Nat
      /\ s.size <= Len(s.data)
  BY StringNumbers DEF IsString
<1>2. Room(r, s.data, s.size) /\ Granted(r, s, c)
  <2>1. CASE c > Len(s.data)
    <3>1. V(s)!Reserving(c) = V(s)!Reallocate(s.data, c) /\ s.size <= c
      BY <1>1, <2>1 DEF V!Reserving
    <3> QED BY <1>1, <3>1, ReallocateRoom, ReallocateGrants
  <2>2. CASE ~(c > Len(s.data))
    <3>1. V(s)!Reserving(c) = V(s)!Kept(s.data) /\ c <= Len(s.data)
      BY <1>1, <2>2 DEF V!Reserving
    <3> QED BY <1>1, <3>1, KeptRoom, KeptGrants
  <2> QED BY <2>1, <2>2
<1>3. Reserve(s, c) = Moved(s, r)
  BY DEF Reserve
<1> HIDE DEF r
<1>4. Meaning(Moved(s, r)) = [m EXCEPT !.status = r.status]
  BY <1>2, MovedMeans DEF Granted
<1>5. m.limit = IF fixed THEN Len(s.data) - 1 ELSE -1
  BY MeaningIs
<1> HIDE DEF m
<1>6. CASE Promise!Fits(m, c - 1)
  <2>1. fixed => c <= Len(s.data)
    BY <1>1, <1>5, <1>6 DEF Promise!Fits, Promise!Unlimited
  <2>2. r.status = "SUCCESS"
    BY <1>2, <2>1 DEF Granted
  <2>3. Promise!Reserve(m, c) = m
    BY <1>6 DEF Promise!Reserve
  <2> QED BY <1>3, <1>4, <2>2, <2>3, SameStatus DEF m
<1>7. CASE ~Promise!Fits(m, c - 1)
  <2>1. fixed /\ ~(c <= Len(s.data))
    BY <1>1, <1>5, <1>7 DEF Promise!Fits, Promise!Unlimited
  <2>2. r.status = "INSUFFICIENT_BUFFER_SIZE"
    BY <1>2, <2>1 DEF Granted
  <2>3. Promise!Reserve(m, c) = [m EXCEPT !.status = "INSUFFICIENT_BUFFER_SIZE"]
    BY <1>7 DEF Promise!Reserve, Promise!Refused
  <2> QED BY <1>3, <1>4, <2>2, <2>3 DEF m
<1> QED BY <1>6, <1>7

LEMMA ShrinkToFitMeans ==
  ASSUME Configured, NEW s, IsString(s), s.status = "SUCCESS"
  PROVE  Meaning(ShrinkToFit(s)) = Promise!ShrinkToFit(Meaning(s))
<1> DEFINE r == Outcome(V(s)!Reallocate(s.data, s.size))
<1>1. IsCells(s.data) /\ Len(s.data) >= 1 /\ s.size \in Nat /\ s.size <= s.size
      /\ s.size <= Len(s.data)
  BY StringNumbers DEF IsString
<1>2. Room(r, s.data, s.size) /\ Granted(r, s, s.size)
  BY <1>1, ReallocateRoom, ReallocateGrants
<1>3. ShrinkToFit(s) = Moved(s, r)
  BY DEF ShrinkToFit
<1> HIDE DEF r
<1>4. Meaning(Moved(s, r)) = [Meaning(s) EXCEPT !.status = r.status]
  BY <1>2, MovedMeans DEF Granted
<1>5. r.status = "SUCCESS"
  BY <1>1, <1>2 DEF Granted
<1> QED BY <1>3, <1>4, <1>5, SameStatus DEF Promise!ShrinkToFit

LEMMA ClearMeans ==
  ASSUME Configured, Buffered, NEW s, IsString(s), s.status = "SUCCESS"
  PROVE  Meaning(Clear(s)) = Promise!Clear(Meaning(s))
<1> DEFINE r == VectorResize(s, 0)
           none == << >>
           t == Clear(s)
<1>1. Room(r, s.data, 0) /\ Granted(r, s, 0)
  BY ResizeRoom, ResizeGrants, StringNumbers DEF IsString
<1>2. r.status = "SUCCESS"
  BY <1>1, StringNumbers DEF Granted
<1>3. t = Store(s, r.p, 0, none, 1)
  BY <1>2 DEF Clear
<1>4. Room(r, s.data, 1)
  <2>1. Len(r.p) >= 1
    BY <1>1 DEF Room
  <2> QED BY <1>1, <2>1 DEF Room
<1>5. IsCells(none) /\ Len(none) = 0 /\ 0 + Len(none) <= 1 /\ 0 \in Nat /\ 1 \in Nat \ {0}
  BY NothingIsSeq
<1>6. Promise!Clear(Meaning(s)) = Promise!Become(Meaning(s), none)
  BY DEF Promise!Clear
<1> HIDE DEF r, none, t
<1>7. Stored(t, s, r.p, 0, none, 1)
  BY <1>2, <1>3, <1>4, <1>5, StoredCells
<1>8. IsString(t) /\ t.size = 1 /\ t.status = "SUCCESS" /\ Len(t.data) = Len(r.p)
  BY <1>7 DEF Stored
<1>9. /\ t.size = Len(none) + 1 /\ (fixed => Len(t.data) = Len(s.data))
      /\ \A i \in 1..Len(none) : t.data[i] = none[i]
  BY <1>1, <1>5, <1>8 DEF Granted
<1>10. Meaning(t) = Promise!Become(Meaning(s), none)
  BY <1>5, <1>8, <1>9, BecomesIs
<1> QED BY <1>6, <1>10 DEF t

-----------------------------------------------------------------------------
(* Formatted text *)

LEMMA FormattedIs ==
  ASSUME NEW s, IsString(s), NEW chars, IsCells(chars),
         Len(chars) <= Len(s.data) - s.size
  PROVE  LET w == Len(chars)
             d == V(s)!MemCpy(s.data, s.size - 1, SubSeq(chars, 1, w) \o <<NUL>>)
         IN  /\ IsCells(d) /\ Len(d) = Len(s.data) /\ d[s.size + w] = NUL
             /\ \A i \in 1..(s.size + w - 1) : d[i]
                  = IF i <= s.size - 1 THEN s.data[i] ELSE chars[i - (s.size - 1)]
<1> DEFINE w == Len(chars)
           front == SubSeq(chars, 1, w)
           end == <<NUL>>
           text == front \o end
           pos == s.size - 1
           p == s.data
           d == V(s)!MemCpy(p, pos, text)
<1>1. /\ w \in Nat /\ s.size \in Nat /\ s.size >= 1 /\ Len(p) \in Nat /\ w <= Len(p) - s.size
      /\ IsCells(p) /\ pos \in Nat
  BY SeqLength, StringNumbers DEF IsString
<1>2. IsCells(front) /\ Len(front) = w /\ \A i \in 1..w : front[i] = chars[i]
  <2>1. /\ IsCells(SubSeq(chars, 1, w)) /\ Len(SubSeq(chars, 1, w)) = w + 1 - 1
        /\ \A i \in 1..(w + 1 - 1) : SubSeq(chars, 1, w)[i] = chars[1 + i - 1]
    BY <1>1, PartIsSeq
  <2>2. w + 1 - 1 = w /\ \A i \in 1..w : 1 + i - 1 = i
    BY <1>1
  <2> HIDE DEF w
  <2> QED BY <2>1, <2>2
<1>3. IsCells(end) /\ Len(end) = 1 /\ end[1] = NUL
  BY EndIsSeq
<1> HIDE DEF w, front, end, pos, p
<1>4. /\ IsCells(text) /\ Len(text) = w + 1
      /\ \A i \in 1..(w + 1) : text[i] = IF i <= w THEN chars[i] ELSE NUL
  <2>1. IsCells(text) /\ Len(text) = w + 1
    BY <1>2, <1>3, JoinedIsSeq
  <2>2. front \in Seq(Cell) /\ end \in Seq(Cell)
    BY <1>2, <1>3 DEF IsCells
  <2>3. \A i \in 1..(Len(front) + Len(end)) :
          text[i] = IF i <= Len(front) THEN front[i] ELSE end[i - Len(front)]
    BY <2>2, ConcatProperties
  <2>4. ASSUME NEW i \in 1..(w + 1) PROVE text[i] = IF i <= w THEN chars[i] ELSE NUL
    <3>1. i \in 1..(Len(front) + Len(end)) /\ i \in Nat /\ i >= 1
      BY <1>1, <1>2, <1>3
    <3>2. i <= w => i \in 1..w
      BY <1>1, <3>1
    <3>3. ~(i <= w) => i - w = 1
      BY <1>1, <3>1
    <3> QED BY <1>2, <1>3, <2>3, <3>1, <3>2, <3>3
  <2> QED BY <2>1, <2>4
<1> HIDE DEF text
<1>5. /\ IsCells(d) /\ Len(d) = Len(p)
      /\ \A i \in 1..Len(p) : d[i]
           = IF i \in (pos + 1)..(pos + Len(text)) THEN text[i - pos] ELSE p[i]
  BY <1>1, <1>4, MemCpyIs, SMTT(30)
<1> HIDE DEF d
<1>6. d[s.size + w] = NUL
  <2> DEFINE k == s.size + w
  <2>1. /\ k \in 1..Len(p) /\ k \in (pos + 1)..(pos + Len(text))
        /\ k - pos = w + 1 /\ w + 1 \in 1..(w + 1) /\ ~(w + 1 <= w)
    BY <1>1, <1>4, SMTT(30) DEF pos
  <2> HIDE DEF k
  <2>2. d[k] = IF k \in (pos + 1)..(pos + Len(text)) THEN text[k - pos] ELSE p[k]
    BY <1>5, <2>1
  <2>3. d[k] = text[w + 1]
    BY <2>1, <2>2
  <2>4. text[w + 1] = NUL
    BY <1>4, <2>1
  <2>5. d[k] = NUL
    BY <2>3, <2>4
  <2> QED BY <2>5 DEF k
<1>7. ASSUME NEW i \in 1..(s.size + w - 1)
      PROVE  d[i] = IF i <= pos THEN p[i] ELSE chars[i - pos]
  <2>1. i \in 1..Len(p) /\ i \in Nat
    BY <1>1
  <2>2. CASE i <= pos
    <3>1. ~(i \in (pos + 1)..(pos + Len(text)))
      BY <1>1, <2>1, <2>2
    <3> QED BY <1>5, <2>1, <2>2, <3>1
  <2>3. CASE ~(i <= pos)
    <3>1. /\ i \in (pos + 1)..(pos + Len(text)) /\ i - pos \in 1..(w + 1)
          /\ i - pos <= w
      BY <1>1, <1>4, <2>1, <2>3, SMTT(30) DEF pos
    <3> QED BY <1>4, <1>5, <2>1, <2>3, <3>1
  <2> QED BY <2>2, <2>3
<1> QED BY <1>5, <1>6, <1>7 DEF d, text, front, end, pos, p, w

LEMMA AppendFormatMeans ==
  ASSUME NEW s, IsString(s), s.status = "SUCCESS", NEW chars,
         chars = NoText \/ IsCells(chars),
         chars = NoText \/ Len(chars) <= Len(s.data) - s.size, NEW again
  PROVE  Meaning(AppendFormat(s, chars, again))
           = IF chars = NoText THEN Promise!Refused(Meaning(s), "FAILED")
             ELSE Promise!AppendChars(Meaning(s), chars)
<1> DEFINE t == AppendFormat(s, chars, again)
           m == Meaning(s)
<1>1. CASE chars = NoText
  <2>1. t = Fails(s, "FAILED")
    BY <1>1 DEF AppendFormat
  <2> QED BY <1>1, <2>1, RefusedIs
<1>2. CASE chars # NoText
  <2> DEFINE w == Len(chars)
             n == s.size + w
             pos == s.size - 1
             d == V(s)!MemCpy(s.data, pos, SubSeq(chars, 1, w) \o <<NUL>>)
             cut == [s EXCEPT !.data = d]
  <2>1. IsCells(chars) /\ w <= Len(s.data) - s.size /\ w \in Nat
    BY <1>2, SeqLength
  <2>2. t = [cut EXCEPT !.size = n]
    BY <1>2, <2>1 DEF AppendFormat, Smaller
  <2>3. s.size \in Nat /\ s.size >= 1 /\ Len(m.chars) = pos /\ pos \in Nat
    BY StringNumbers, MeaningIs
  <2>4. /\ Len(d) = Len(s.data)
        /\ \A i \in 1..(s.size + w - 1) : d[i]
             = IF i <= s.size - 1 THEN s.data[i] ELSE chars[i - (s.size - 1)]
    BY <2>1, FormattedIs
  <2>5. IsString(t)
    BY AppendFormatIs
  <2>6. Promise!AppendChars(m, chars) = Promise!Splice(m, pos, 0, chars)
    BY <2>3 DEF Promise!AppendChars
  <2> HIDE DEF w, d, t, m
  <2>7. t.data = d /\ t.size = n /\ t.status = "SUCCESS"
    <3>1. cut = [data |-> d, size |-> s.size, status |-> s.status]
      BY RecordParts DEF IsString
    <3> HIDE DEF cut, n
    <3>2. t = [data |-> d, size |-> n, status |-> s.status]
      BY <2>2, <3>1
    <3> QED BY <3>2
  <2>8. PICK q : Spliced(q, s, pos, 0, chars)
    <3>1. pos + 0 <= s.size - 1 /\ 0 \in Nat
      BY <2>3
    <3> HIDE DEF pos
    <3> QED BY <2>1, <2>3, <3>1, SpliceIs
  <2>9. /\ IsCells(q) /\ Len(q) = s.size - 1 - 0 + w
        /\ Promise!Splice(m, pos, 0, chars) = Promise!Become(m, q)
        /\ \A i \in 1..Len(q) : q[i]
             = IF i <= pos THEN s.data[i]
               ELSE IF i <= pos + w THEN chars[i - pos]
               ELSE s.data[i - w + 0]
    BY <2>8 DEF Spliced, m, w
  <2>10. Len(q) = s.size + w - 1 /\ t.size = Len(q) + 1
    BY <2>1, <2>3, <2>7, <2>9
  <2>11. \A i \in 1..Len(q) : t.data[i] = q[i]
    <3> SUFFICES ASSUME NEW i \in 1..Len(q) PROVE d[i] = q[i]
      BY <2>7
    <3>1. i \in 1..(s.size + w - 1) /\ i <= pos + w
      BY <2>1, <2>3, <2>10
    <3> QED BY <2>4, <2>9, <3>1
  <2>12. Meaning(t) = Promise!Become(m, q)
    BY <2>4, <2>5, <2>7, <2>9, <2>10, <2>11, BecomesIs DEF m
  <2> QED BY <1>2, <2>6, <2>9, <2>12 DEF t, m
<1> QED BY <1>1, <1>2

-----------------------------------------------------------------------------
(* All of the calls *)

Policy == \/ UNCHANGED config
          \/ fixed' = FALSE
          \/ growth_factor' = 1 /\ shrink_threshold' = 0

LEMMA ConstructPolicy == ASSUME Construct PROVE Policy
<1>1. ASSUME NEW chars, NEW c, NEW g, NEW h, InitWith(chars, c, g, h) PROVE Policy
  <2>1. fixed' = FALSE
    BY <1>1 DEF InitWith
  <2> QED BY <2>1 DEF Policy
<1>2. ASSUME NEW why, Refuse(why) PROVE Policy
  BY <1>2 DEF Refuse, Policy
<1>3. ASSUME NEW chars, NEW c, BufferWith(chars, c) PROVE Policy
  <2>1. Refuse("INVALID_ARGUMENT") \/ (growth_factor' = 1 /\ shrink_threshold' = 0)
    BY <1>3 DEF BufferWith
  <2> QED BY <1>2, <2>1 DEF Policy
<1>4. CASE \E c \in Capacities, g \in GrowthFactors, h \in ShrinkThresholds :
             \/ InitEx(c, g, h)
             \/ \E v \in Sources : DuplicateEx(v, c, g, h)
             \/ \E v, w \in Sources : ConcatEx(v, w, c, g, h)
  BY <1>1, <1>2, <1>4 DEF InitEx, DuplicateEx, ConcatEx
<1>5. CASE \E c \in BufferCapacities :
             \/ InitCustomBuffer(c)
             \/ \E v \in Sources : DuplicateCustomBuffer(v, c)
             \/ \E v, w \in Sources : ConcatCustomBuffer(v, w, c)
  BY <1>2, <1>3, <1>5 DEF InitCustomBuffer, DuplicateCustomBuffer, ConcatCustomBuffer
<1> QED BY <1>4, <1>5 DEF Construct

LEMMA StepPolicy == ASSUME Next PROVE Policy
<1>1. ASSUME NEW s, Call(s) PROVE Policy
  BY <1>1 DEF Call, Policy
<1>2. CASE Construct
  BY <1>2, ConstructPolicy
<1>3. CASE Destroy
  BY <1>3 DEF Destroy, Policy
<1>4. CASE Extension
  BY <1>1, <1>4 DEF Extension
<1>5. CASE Deletion
  BY <1>1, <1>5 DEF Deletion
<1>6. CASE Change
  BY <1>1, <1>6 DEF Change
<1>7. CASE Management
  BY <1>1, <1>7 DEF Management
<1>8. CASE Numbers
  <2>1. \E n \in Paddings : Unsigned(n) \/ WithSign(n)
    BY <1>8 DEF Numbers
  <2>2. ASSUME NEW n, Unsigned(n) PROVE Policy
    BY <1>1, <2>2 DEF Unsigned
  <2>3. ASSUME NEW n, WithSign(n) PROVE Policy
    BY <1>1, <2>3 DEF WithSign
  <2> QED BY <2>1, <2>2, <2>3
<1>9. CASE Formatting
  BY <1>1, <1>9 DEF Formatting
<1> QED BY <1>2, <1>3, <1>4, <1>5, <1>6, <1>7, <1>8, <1>9 DEF Next, Calls

LEMMA BufferedHolds == Spec => []Buffered
<1>1. Init => Buffered
  BY DEF Init, Buffered
<1>2. Buffered /\ [Next]_vars => Buffered'
  <2> SUFFICES ASSUME Buffered, [Next]_vars PROVE Buffered'
    OBVIOUS
  <2>1. Policy
    BY StepPolicy DEF vars, config, Policy
  <2> QED BY <2>1 DEF Policy, Buffered, config
<1> QED BY <1>1, <1>2, PTL DEF Spec

LEMMA TextCallsAre ==
  ASSUME StringInv, Buffered, Initialised
  PROVE  TextCallsImplement
<1> SUFFICES ASSUME Live PROVE TextCallsImplement
  BY DEF TextCallsImplement
<1> DEFINE s == This
           m == Meaning(s)
<1>1. Configured /\ IsString(s) /\ s.status = "SUCCESS"
  BY ThisIsString DEF Live, This
<1> HIDE DEF s
<1> SUFFICES ASSUME NEW v \in Sources
             PROVE  /\ Meaning(StringAppend(s, v)) = Promise!AppendChars(m, Shown(v))
                    /\ \A i, n \in 0..v.size : Meaning(AppendEx(s, v, i, n))
                                               = Promise!AppendPart(m, Shown(v), i, n)
                    /\ \A k \in Indices :
                         /\ Meaning(Insert(s, k, v)) = Promise!Insert(m, k, Shown(v))
                         /\ k <= Len(m.chars) + 1 => \A i, n \in 0..v.size :
                              Meaning(InsertEx(s, k, v, i, n))
                                = Promise!InsertPart(m, k, Shown(v), i, n)
  BY DEF TextCallsImplement, s
<1>2. IsView(v) /\ v.size # 0
  BY Views DEF Initialised
<1>3. 0..v.size \subseteq Nat
  OBVIOUS
<1>4. Meaning(StringAppend(s, v)) = Promise!AppendChars(m, Shown(v))
  BY <1>1, <1>2, StringAppendMeans
<1>5. \A i, n \in 0..v.size :
        Meaning(AppendEx(s, v, i, n)) = Promise!AppendPart(m, Shown(v), i, n)
  BY <1>1, <1>2, <1>3, AppendExMeans
<1>6. \A k \in Indices : Meaning(Insert(s, k, v)) = Promise!Insert(m, k, Shown(v))
  BY <1>1, <1>2, IndicesAre, InsertMeans
<1>7. \A k \in Indices : k <= Len(m.chars) + 1 => \A i, n \in 0..v.size :
        Meaning(InsertEx(s, k, v, i, n)) = Promise!InsertPart(m, k, Shown(v), i, n)
  BY <1>1, <1>2, <1>3, IndicesAre, InsertExMeans
<1> QED BY <1>4, <1>5, <1>6, <1>7

LEMMA ChangesAre ==
  ASSUME StringInv, Buffered
  PROVE  ChangesImplement
<1> SUFFICES ASSUME Live PROVE ChangesImplement
  BY DEF ChangesImplement
<1> DEFINE s == This
           m == Meaning(s)
<1>1. /\ Configured /\ IsString(s) /\ s.status = "SUCCESS" /\ s.size = size /\ size \in Nat
      /\ s.size \in Nat
  BY ThisIsString, StringNumbers DEF Live, This
<1> HIDE DEF s
<1>2. \A i, n \in Indices :
        /\ Meaning(Delete(s, i, n)) = Promise!Delete(m, i, n)
        /\ Meaning(ToLowerCaseEx(s, i, n)) = Promise!ToLowerCase(m, i, n)
        /\ Meaning(ToUpperCaseEx(s, i, n)) = Promise!ToUpperCase(m, i, n)
  BY <1>1, IndicesAre, DeleteMeans, CasesMean
<1>3. \A i \in Indices :
        /\ GetChar(s, i) = Promise!GetChar(m, i)
        /\ Meaning(Truncate(s, i)) = Promise!Truncate(m, i)
        /\ \A c \in Letters : Meaning(SetChar(s, i, c)) = Promise!SetChar(m, i, c)
  BY <1>1, IndicesAre, GetCharMeans, TruncateMeans, SetCharMeans, StringAssumption
<1>4. \A n \in Indices :
        /\ Meaning(Resize(s, n)).status = Promise!Resize(m, n).status
        /\ size > n => Meaning(Resize(s, n)) = Promise!Resize(m, n)
  <2>1. \A n \in Indices : size > n => n <= s.size - 1
    BY <1>1, IndicesAre
  <2> QED BY <1>1, <2>1, IndicesAre, ResizeReports, CutMeans
<1>5. \A c \in Capacities : Meaning(Reserve(s, c)) = Promise!Reserve(m, c)
  BY <1>1, ReserveMeans, StringAssumption
<1>6. Meaning(ShrinkToFit(s)) = Promise!ShrinkToFit(m) /\ Meaning(Clear(s)) = Promise!Clear(m)
  BY <1>1, ShrinkToFitMeans, ClearMeans
<1> QED BY <1>2, <1>3, <1>4, <1>5, <1>6 DEF ChangesImplement, s

LEMMA FormatIs == ASSUME StringInv PROVE FormatImplements
<1> SUFFICES ASSUME Live, NEW chars \in FormatTexts, NEW again \in Again, Fits(chars)
             PROVE  Meaning(AppendFormat(This, chars, again))
                      = IF chars = NoText THEN Promise!Refused(Meaning(This), "FAILED")
                        ELSE Promise!AppendChars(Meaning(This), chars)
  BY DEF FormatImplements
<1> DEFINE s == This
<1>1. IsString(s) /\ s.status = "SUCCESS" /\ s.size = size /\ s.data = data
  BY ThisIsString DEF Live, This
<1> HIDE DEF s
<1>2. chars = NoText \/ IsCells(chars)
  BY FormatAssumption, TextIsSeq
<1>3. chars = NoText \/ Len(chars) <= Len(s.data) - s.size
  BY <1>1 DEF Fits
<1> QED BY <1>1, <1>2, <1>3, AppendFormatMeans DEF s

-----------------------------------------------------------------------------
(* Numbers: the room for their figures *)

\* The string s after room for n cells was asked for: its text is unharmed
Grew(g, s, n) ==
  /\ IsString(g)
  /\ g.status = "SUCCESS" =>
       /\ n <= Len(g.data)
       /\ fixed => Len(g.data) = Len(s.data)
       /\ \A i \in 1..(s.size - 1) : g.data[i] = s.data[i]
  /\ g.status # "SUCCESS" =>
       fixed /\ n > Len(s.data) /\ g = Fails(s, "INSUFFICIENT_BUFFER_SIZE")

LEMMA ResizeToGrew ==
  ASSUME Configured, Buffered, NEW s, IsString(s), s.status = "SUCCESS",
         NEW n \in Nat, n >= s.size
  PROVE  /\ Grew(ResizeTo(s, n), s, n)
         /\ ResizeTo(s, n).status = "SUCCESS" => ResizeTo(s, n).size = n
<1> DEFINE r == VectorResize(s, n)
           none == << >>
           p == s.data
<1>1. /\ n \in Nat \ {0} /\ s.size \in Nat /\ s.size >= 1 /\ IsCells(p)
      /\ s.size <= Len(p) /\ Len(p) \in Nat
  BY StringNumbers, SeqLength DEF IsString
<1>2. Room(r, p, n) /\ Granted(r, s, n)
  BY <1>1, ResizeRoom, ResizeGrants, StringNumbers
<1>3. IsCells(none) /\ Len(none) = 0
  BY NothingIsSeq
<1>4. ResizeTo(s, n) = IF r.status # "SUCCESS" THEN Fails(s, r.status)
                       ELSE Store(s, r.p, 0, none, n)
  BY DEF ResizeTo
<1>0. IsString(ResizeTo(s, n)) /\ (ResizeTo(s, n).status = "SUCCESS" => ResizeTo(s, n).size = n)
  BY <1>1, ResizeToIs
<1> HIDE DEF r, none
<1>5. CASE r.status # "SUCCESS"
  <2>1. fixed /\ n > Len(s.data) /\ r.status = "INSUFFICIENT_BUFFER_SIZE"
    BY <1>1, <1>2, <1>5 DEF Granted
  <2>2. Fails(s, r.status).status = r.status
    BY FailsIs DEF Fails, IsString
  <2> QED BY <1>0, <1>4, <1>5, <2>1, <2>2 DEF Grew
<1>6. CASE r.status = "SUCCESS"
  <2> DEFINE t == Store(s, r.p, 0, none, n)
  <2>1. Stored(t, s, r.p, 0, none, n)
    <3>1. 0 \in Nat /\ 0 + Len(none) <= n
      BY <1>1, <1>3
    <3> QED BY <1>1, <1>2, <1>3, <1>6, <3>1, StoredCells
  <2> HIDE DEF t
  <2>2. /\ IsCells(r.p) /\ Len(r.p) \in Nat /\ n <= Len(r.p)
        /\ \A i \in 1..Len(r.p) : i <= Len(p) => r.p[i] = p[i]
    BY <1>2, <1>6, SeqLength DEF Room
  <2>3. /\ Len(t.data) = Len(r.p)
        /\ \A i \in 1..Len(r.p) : t.data[i]
             = IF i = n THEN NUL
               ELSE IF i \in (0 + 1)..(0 + Len(none)) THEN none[i - 0] ELSE r.p[i]
    BY <2>1 DEF Stored
  <2>4. ASSUME NEW i \in 1..(s.size - 1) PROVE t.data[i] = s.data[i]
    <3>1. i \in 1..Len(r.p) /\ i # n /\ i <= Len(p) /\ ~(i \in (0 + 1)..(0 + Len(none)))
      BY <1>1, <1>3, <2>2
    <3>2. t.data[i] = r.p[i]
      BY <2>3, <3>1
    <3> QED BY <2>2, <3>1, <3>2
  <2>5. fixed => Len(t.data) = Len(s.data)
    BY <1>2, <2>3 DEF Granted
  <2>6. t.status = "SUCCESS" /\ ResizeTo(s, n) = t
    BY <1>4, <1>6, <2>1 DEF Stored, t
  <2> QED BY <1>0, <2>2, <2>3, <2>4, <2>5, <2>6 DEF Grew
<1> QED BY <1>5, <1>6

\* Figures with zeros in front
LEMMA PaddingIs ==
  ASSUME NEW figures, IsCells(figures), NEW padding \in Nat
  PROVE  Promise!Padded(figures, padding)
           = Zeros(Larger(Len(figures), padding) - Len(figures)) \o figures
<1> DEFINE k == Len(figures)
           z == Larger(k, padding) - k
<1>1. k \in Nat
  BY SeqLength
<1>2. 1..z = 1..(padding - k)
  BY <1>1 DEF Larger
<1> HIDE DEF k, z
<1>3. [i \in 1..(padding - k) |-> 48] = Zeros(z)
  BY <1>2 DEF Zeros
<1>4. Promise!Padded(figures, padding) = [i \in 1..(padding - k) |-> 48] \o figures
  BY DEF Promise!Padded, k
<1> QED BY <1>3, <1>4 DEF k, z

\* The figures are put behind the text when there is room for them
LEMMA NumberMeans ==
  ASSUME NEW s, IsString(s), s.status = "SUCCESS", NEW chars, IsCells(chars),
         NEW n \in Nat, n = s.size + Len(chars), NEW g, Grew(g, s, n)
  PROVE  Meaning(IF g.status # "SUCCESS" THEN g
                 ELSE Store(g, g.data, s.size - 1, chars, n))
           = Promise!AppendChars(Meaning(s), chars)
<1> DEFINE pos == s.size - 1
           m == Meaning(s)
<1>1. /\ n \in Nat \ {0} /\ Len(chars) \in Nat /\ s.size \in Nat /\ s.size >= 1
      /\ pos \in Nat /\ pos + Len(chars) <= n /\ pos + Len(chars) = n - 1
  BY StringNumbers, SeqLength
<1>2. Promise!AppendChars(m, chars) = Promise!Splice(m, Len(m.chars), 0, chars)
  BY DEF Promise!AppendChars
<1>3. Len(m.chars) = pos
  BY MeaningIs
<1>4. PICK q : Spliced(q, s, pos, 0, chars)
  <2>1. pos + 0 <= s.size - 1 /\ 0 \in Nat /\ pos \in Nat
    BY <1>1
  <2> HIDE DEF pos
  <2> QED BY <2>1, SpliceIs
<1>5. /\ IsCells(q) /\ Len(q) = s.size - 1 - 0 + Len(chars)
      /\ Promise!Splice(m, pos, 0, chars) = Promise!Become(m, q)
      /\ \A i \in 1..Len(q) : q[i]
           = IF i <= pos THEN s.data[i]
             ELSE IF i <= pos + Len(chars) THEN chars[i - pos]
             ELSE s.data[i - Len(chars) + 0]
  BY <1>4 DEF Spliced
<1>6. Len(q) = n - 1 /\ Len(q) + 1 = n
  BY <1>1, <1>5
<1> HIDE DEF m
<1>7. CASE g.status # "SUCCESS"
  <2>1. fixed /\ n > Len(s.data) /\ g = Fails(s, "INSUFFICIENT_BUFFER_SIZE")
    BY <1>7 DEF Grew
  <2>2. Meaning(g) = Promise!Become(m, q)
    BY <1>5, <1>6, <2>1, BecomesNot DEF m
  <2> QED BY <1>2, <1>3, <1>5, <1>7, <2>2 DEF m
<1>8. CASE g.status = "SUCCESS"
  <2>1. /\ IsString(g) /\ n <= Len(g.data) /\ (fixed => Len(g.data) = Len(s.data))
        /\ \A i \in 1..(s.size - 1) : g.data[i] = s.data[i]
    BY <1>8 DEF Grew
  <2> DEFINE t == Store(g, g.data, pos, chars, n)
             d == g.data
  <2>2. /\ g = [data |-> g.data, size |-> g.size, status |-> g.status]
        /\ g.status \in Statuses /\ IsCells(d) /\ Len(d) \in Nat
        /\ pos + Len(chars) <= Len(d)
    BY <1>1, <2>1, SeqLength DEF IsString
  <2>3. Stored(t, g, d, pos, chars, n)
    <3> HIDE DEF pos
    <3>1. n <= Len(d)
      BY <2>1
    <3>2. /\ IsString(t) /\ t.size = n /\ t.status = g.status /\ Len(t.data) = Len(d)
          /\ \A i \in 1..Len(d) : t.data[i]
               = IF i = n THEN NUL
                 ELSE IF i \in (pos + 1)..(pos + Len(chars)) THEN chars[i - pos]
                 ELSE d[i]
      BY <1>1, <2>2, <3>1, StoreIs, SMTT(30)
    <3> QED BY <3>2 DEF Stored
  <2>4. /\ IsString(t) /\ t.size = n /\ t.status = "SUCCESS" /\ Len(t.data) = Len(d)
        /\ \A i \in 1..Len(d) : t.data[i]
             = IF i = n THEN NUL
               ELSE IF i \in (pos + 1)..(pos + Len(chars)) THEN chars[i - pos]
               ELSE d[i]
    BY <1>8, <2>3 DEF Stored
  <2> HIDE DEF t
  <2>5. ASSUME NEW i \in 1..Len(q) PROVE t.data[i] = q[i]
    <3>1. /\ i \in 1..Len(d) /\ i # n /\ i \in Nat /\ i <= pos + Len(chars)
      BY <1>1, <1>6, <2>1, <2>2, SMTT(30)
    <3>2. CASE i <= pos
      <4>1. ~(i \in (pos + 1)..(pos + Len(chars))) /\ i \in 1..(s.size - 1)
        BY <1>1, <3>1, <3>2
      <4>2. t.data[i] = d[i] /\ d[i] = s.data[i]
        BY <2>1, <2>4, <3>1, <4>1
      <4> QED BY <1>5, <3>2, <4>2
    <3>3. CASE ~(i <= pos)
      <4>1. i \in (pos + 1)..(pos + Len(chars))
        BY <1>1, <3>1, <3>3, SMTT(30)
      <4> QED BY <1>5, <2>4, <3>1, <3>3, <4>1
    <3> QED BY <3>2, <3>3
  <2>6. Meaning(t) = Promise!Become(m, q)
    <3>1. fixed => Len(t.data) = Len(s.data)
      BY <2>1, <2>4
    <3> QED BY <1>5, <1>6, <2>4, <2>5, <3>1, BecomesIs DEF m
  <2> QED BY <1>2, <1>3, <1>5, <1>8, <2>6 DEF m, t
<1> QED BY <1>7, <1>8

LEMMA KeptGrew ==
  ASSUME NEW s, IsString(s), s.status = "SUCCESS", NEW n \in Nat, n <= Len(s.data)
  PROVE  Grew(s, s, n)
BY DEF Grew

LEMMA AppendDecUMeans ==
  ASSUME Configured, Buffered, NEW s, IsString(s), s.status = "SUCCESS", NEW v \in Nat,
         NEW padding \in Nat
  PROVE  Meaning(AppendDecU(s, v, padding))
           = Promise!AppendChars(Meaning(s), Promise!Padded(DecimalFigures(v), padding))
<1> DEFINE figures == DecimalFigures(v)
           total == Larger(Len(figures), padding)
           n == s.size + total
           grown == IF n > Len(s.data) THEN ResizeTo(s, n) ELSE s
           chars == Zeros(total - Len(figures)) \o figures
<1>1. IsCells(figures) /\ Len(figures) >= 1
  BY DecimalFiguresIs
<1>2. AppendDecU(s, v, padding) = IF grown.status # "SUCCESS" THEN grown
                                  ELSE Store(grown, grown.data, s.size - 1, chars, n)
  BY DEF AppendDecU
<1>3. Promise!Padded(figures, padding) = chars
  BY <1>1, PaddingIs
<1> HIDE DEF figures
<1>4. total \in Nat \ {0} /\ IsCells(chars) /\ Len(chars) = total
  BY <1>1, PaddedFigures
<1> HIDE DEF total, chars
<1>5. /\ n \in Nat /\ n >= s.size /\ n = s.size + Len(chars) /\ Len(s.data) \in Nat
  BY <1>4, StringNumbers
<1>6. Grew(grown, s, n)
  <2>1. CASE n > Len(s.data)
    BY <1>5, <2>1, ResizeToGrew
  <2>2. CASE ~(n > Len(s.data))
    BY <1>5, <2>2, KeptGrew
  <2> QED BY <2>1, <2>2
<1> HIDE DEF grown, n
<1>7. Meaning(IF grown.status # "SUCCESS" THEN grown
              ELSE Store(grown, grown.data, s.size - 1, chars, n))
        = Promise!AppendChars(Meaning(s), chars)
  BY <1>4, <1>5, <1>6, NumberMeans
<1> QED BY <1>2, <1>3, <1>7 DEF figures

\* Room for the padding, and then for the figures
LEMMA GrewAgain ==
  ASSUME Configured, Buffered, NEW s, IsString(s), s.status = "SUCCESS",
         NEW padding \in Nat, NEW n \in Nat \ {0}, NEW total \in Nat,
         total = n \/ (total = padding /\ padding >= n),
         total >= padding
  PROVE  LET padded == IF Len(s.data) - s.size < padding
                         THEN ResizeTo(s, s.size + padding) ELSE s
             remaining == IF Len(s.data) - s.size < padding
                            THEN padding ELSE Len(s.data) - s.size
             grown == IF padded.status = "SUCCESS" /\ remaining < n
                        THEN ResizeTo(padded, padded.size + n) ELSE padded
         IN  Grew(grown, s, s.size + total)
<1> DEFINE lacking == Len(s.data) - s.size < padding
           padded == IF lacking THEN ResizeTo(s, s.size + padding) ELSE s
           remaining == IF lacking THEN padding ELSE Len(s.data) - s.size
           grown == IF padded.status = "SUCCESS" /\ remaining < n
                      THEN ResizeTo(padded, padded.size + n) ELSE padded
           most == s.size + total
<1>1. /\ s.size \in Nat /\ s.size >= 1 /\ Len(s.data) \in Nat /\ s.size <= Len(s.data)
      /\ total >= n /\ most \in Nat
  BY StringNumbers
<1>2. CASE ~lacking
  <2>1. padded = s /\ remaining = Len(s.data) - s.size
    BY <1>2
  <2>2. CASE remaining < n
    <3>1. total = n
      BY <1>1, <1>2, <2>1, <2>2
    <3>2. grown = ResizeTo(s, most)
      BY <2>1, <2>2, <3>1
    <3> HIDE DEF grown
    <3> QED BY <1>1, <3>2, ResizeToGrew DEF grown
  <2>3. CASE ~(remaining < n)
    <3>1. grown = s
      BY <2>1, <2>3
    <3>2. most <= Len(s.data)
      BY <1>1, <1>2, <2>1, <2>3
    <3> QED BY <1>1, <3>1, <3>2, KeptGrew
  <2> QED BY <2>2, <2>3
<1>3. CASE lacking
  <2> DEFINE a == s.size + padding
             t == ResizeTo(s, a)
  <2>1. a \in Nat /\ a >= s.size /\ a > Len(s.data) /\ a <= most
    BY <1>1, <1>3
  <2>2. padded = t /\ remaining = padding
    BY <1>3
  <2>3. Grew(t, s, a) /\ (t.status = "SUCCESS" => t.size = a)
    BY <2>1, ResizeToGrew
  <2> HIDE DEF a, t, padded, remaining, most
  <2>4. CASE t.status # "SUCCESS"
    <3>1. grown = t
      BY <2>2, <2>4
    <3>2. most > Len(s.data)
      BY <1>1, <2>1
    <3>3. Grew(t, s, most)
      BY <2>3, <2>4, <3>2 DEF Grew
    <3> QED BY <3>1, <3>3 DEF a, padded, remaining, most
  <2>5. CASE t.status = "SUCCESS"
    <3>1. /\ IsString(t) /\ a <= Len(t.data) /\ (fixed => Len(t.data) = Len(s.data))
          /\ \A i \in 1..(s.size - 1) : t.data[i] = s.data[i]
      BY <2>3, <2>5 DEF Grew
    <3>2. ~fixed /\ Len(t.data) \in Nat
      BY <1>1, <2>1, <3>1, SeqLength DEF IsString
    <3>3. CASE padding < n
      <4> DEFINE b == t.size + n
                 u == ResizeTo(t, b)
      <4>1. b \in Nat /\ b >= t.size /\ b >= most /\ t.size = a
        BY <1>1, <2>1, <2>3, <2>5, <3>3 DEF a, most
      <4>2. Grew(u, t, b)
        BY <2>5, <3>1, <4>1, ResizeToGrew
      <4>3. grown = u
        BY <2>2, <2>5, <3>3
      <4> HIDE DEF u, b, grown
      <4>4. u.status = "SUCCESS" /\ IsString(u)
        BY <3>2, <4>2 DEF Grew
      <4>5. b <= Len(u.data) /\ \A i \in 1..(t.size - 1) : u.data[i] = t.data[i]
        BY <4>2, <4>4 DEF Grew
      <4>6. \A i \in 1..(s.size - 1) : i \in 1..(t.size - 1)
        BY <1>1, <2>1, <4>1
      <4>7. \A i \in 1..(s.size - 1) : u.data[i] = s.data[i]
        BY <3>1, <4>5, <4>6
      <4>8. most <= Len(u.data)
        BY <1>1, <4>1, <4>4, <4>5, SeqLength DEF IsString
      <4>9. Grew(u, s, most)
        BY <3>2, <4>4, <4>7, <4>8 DEF Grew
      <4> QED BY <4>3, <4>9 DEF grown, padded, remaining, most, a
    <3>4. CASE ~(padding < n)
      <4>1. grown = t
        BY <2>2, <2>5, <3>4
      <4>2. most = a
        BY <1>1, <3>4 DEF most, a
      <4> HIDE DEF grown
      <4> QED BY <2>3, <4>1, <4>2 DEF grown, padded, remaining, most
    <3> QED BY <3>3, <3>4
  <2> QED BY <2>4, <2>5
<1> QED BY <1>2, <1>3

LEMMA AppendHexUMeans ==
  ASSUME Configured, Buffered, NEW s, IsString(s), s.status = "SUCCESS", NEW v \in Nat,
         NEW padding \in Nat, NEW uppercase
  PROVE  Meaning(AppendHexU(s, v, padding, uppercase))
           = Promise!AppendChars(Meaning(s),
                                 Promise!Padded(HexFigures(v, uppercase), padding))
<1> DEFINE figures == HexFigures(v, uppercase)
           n == IF v = 0 THEN Larger(padding, 1) ELSE Len(figures)
           padded == IF Len(s.data) - s.size < padding
                       THEN ResizeTo(s, s.size + padding) ELSE s
           remaining == IF Len(s.data) - s.size < padding
                          THEN padding ELSE Len(s.data) - s.size
           grown == IF padded.status = "SUCCESS" /\ remaining < n
                      THEN ResizeTo(padded, padded.size + n) ELSE padded
           total == Larger(Len(figures), padding)
           chars == Zeros(total - Len(figures)) \o figures
           most == s.size + total
<1>1. IsCells(figures) /\ Len(figures) >= 1 /\ (v = 0 => Len(figures) = 1)
  BY HexFiguresIs
<1>2. AppendHexU(s, v, padding, uppercase)
        = IF grown.status # "SUCCESS" THEN grown
          ELSE Store(grown, grown.data, s.size - 1, chars, most)
  BY DEF AppendHexU
<1>3. Promise!Padded(figures, padding) = chars
  BY <1>1, PaddingIs
<1> HIDE DEF figures
<1>4. total \in Nat \ {0} /\ IsCells(chars) /\ Len(chars) = total /\ total >= padding
  BY <1>1, PaddedFigures
<1>5. n \in Nat \ {0} /\ (total = n \/ (total = padding /\ padding >= n))
  <2>1. Len(figures) \in Nat
    BY <1>1, SeqLength
  <2> DEFINE k == Len(figures)
  <2>2. CASE v = 0
    <3>1. n = Larger(padding, 1) /\ k = 1
      BY <1>1, <2>2
    <3> HIDE DEF n, k
    <3>2. total = Larger(k, padding)
      BY DEF k
    <3> HIDE DEF total
    <3> QED BY <3>1, <3>2 DEF Larger
  <2>3. CASE v # 0
    <3>1. n = k
      BY <2>3
    <3>2. total = Larger(k, padding) /\ k \in Nat /\ k >= 1
      BY <1>1, <2>1
    <3> HIDE DEF n, k, total
    <3> QED BY <3>1, <3>2 DEF Larger
  <2> QED BY <2>2, <2>3
<1> HIDE DEF total, chars, n
<1>6. Grew(grown, s, most)
  BY <1>4, <1>5, GrewAgain
<1> HIDE DEF grown
<1>7. most \in Nat /\ most = s.size + Len(chars)
  BY <1>4, StringNumbers
<1> HIDE DEF most
<1>8. Meaning(IF grown.status # "SUCCESS" THEN grown
              ELSE Store(grown, grown.data, s.size - 1, chars, most))
        = Promise!AppendChars(Meaning(s), chars)
  BY <1>4, <1>6, <1>7, NumberMeans
<1> QED BY <1>2, <1>3, <1>8 DEF figures

-----------------------------------------------------------------------------
(* A sign, a prefix and a number *)

\* To append nothing changes nothing
LEMMA AppendNothing ==
  ASSUME NEW s, IsString(s), NEW none, none = << >>
  PROVE  Promise!AppendChars(Meaning(s), none) = Meaning(s)
<1> DEFINE m == Meaning(s)
           pos == s.size - 1
<1>1. /\ m = [chars |-> m.chars, status |-> m.status, limit |-> m.limit]
      /\ m.limit = IF fixed THEN Len(s.data) - 1 ELSE -1
      /\ IsCells(m.chars) /\ Len(m.chars) = pos
      /\ \A i \in 1..pos : m.chars[i] = s.data[i]
  BY MeaningIs
<1>2. s.size \in Nat /\ s.size >= 1 /\ s.size <= Len(s.data) /\ Len(s.data) \in Nat
  BY StringNumbers
<1>3. IsCells(none) /\ Len(none) = 0
  BY NothingIsSeq
<1>4. Promise!AppendChars(m, none) = Promise!Splice(m, Len(m.chars), 0, none)
  BY DEF Promise!AppendChars
<1> HIDE DEF m
<1>5. PICK q : Spliced(q, s, pos, 0, none)
  <2>1. pos + 0 <= s.size - 1 /\ 0 \in Nat /\ pos \in Nat
    BY <1>2
  <2> HIDE DEF pos
  <2> QED BY <1>3, <2>1, SpliceIs
<1>6. /\ IsCells(q) /\ Len(q) = s.size - 1 - 0 + Len(none)
      /\ Promise!Splice(m, pos, 0, none) = Promise!Become(m, q)
      /\ \A i \in 1..Len(q) : q[i]
           = IF i <= pos THEN s.data[i]
             ELSE IF i <= pos + Len(none) THEN none[i - pos]
             ELSE s.data[i - Len(none) + 0]
  BY <1>5 DEF Spliced, m
<1>7. q = m.chars
  <2>1. Len(q) = pos /\ \A i \in 1..Len(q) : i <= pos
    BY <1>2, <1>3, <1>6
  <2>2. \A i \in 1..Len(q) : q[i] = m.chars[i]
    BY <1>1, <1>6, <2>1
  <2> QED BY <1>1, <1>6, <2>1, <2>2, SameCells
<1>8. Promise!Fits(m, Len(q))
  <2>1. Len(q) = pos
    BY <1>1, <1>7
  <2> QED BY <1>1, <1>2, <2>1 DEF Promise!Fits, Promise!Unlimited
<1>9. [m EXCEPT !.chars = q] = m
  <2> DEFINE a == m.chars
             b == m.status
             c == m.limit
  <2>1. m = [chars |-> a, status |-> b, limit |-> c]
    BY <1>1
  <2>2. q = a
    BY <1>7
  <2> HIDE DEF a, b, c
  <2>3. [m EXCEPT !.chars = q] = [chars |-> q, status |-> b, limit |-> c]
    BY <2>1
  <2> QED BY <2>1, <2>2, <2>3
<1>10. Promise!Become(m, q) = m
  BY <1>8, <1>9 DEF Promise!Become
<1> QED BY <1>1, <1>4, <1>6, <1>10 DEF m

LEMMA SignShows == \A c \in Char : Shown(Sign(c)) = <<c>>
<1> SUFFICES ASSUME NEW c \in Char PROVE Shown(Sign(c)) = <<c>>
  OBVIOUS
<1>1. Shown(Sign(c)) = SubSeq(<<c, NUL>>, 1, 1)
  BY DEF Shown, ViewGetData, ViewGetSize, Sign
<1> DEFINE d == <<c, NUL>>
           p == SubSeq(d, 1, 1)
           q == <<c>>
<1>2. IsCells(d) /\ Len(d) = 2 /\ d[1] = c
  BY CellsAre DEF Char, IsCells
<1>3. IsCells(q) /\ Len(q) = 1 /\ q[1] = c
  BY CellsAre DEF Char, IsCells
<1> HIDE DEF d, q
<1>4. IsCells(p) /\ Len(p) = 1 + 1 - 1 /\ \A i \in 1..(1 + 1 - 1) : p[i] = d[1 + i - 1]
  <2>1. 1 \in Nat \ {0} /\ 1 \in Nat /\ 1 <= Len(d) /\ 1 <= 1 + 1
    BY <1>2
  <2> QED BY <1>2, <2>1, PartIsSeq
<1> HIDE DEF p
<1>5. Len(p) = 1 /\ p[1] = c
  BY <1>2, <1>4
<1>6. \A i \in 1..Len(p) : p[i] = q[i]
  BY <1>3, <1>5
<1>7. p = q
  BY <1>3, <1>4, <1>5, <1>6, SameCells
<1> QED BY <1>1, <1>7 DEF p, q, d

LEMMA SignedMeans ==
  ASSUME Configured, Buffered, NEW s, IsString(s), NEW v \in Int, NEW force,
         NEW prefix, prefix = NoPrefix \/ (IsView(prefix) /\ prefix.size # 0),
         NEW front, front = IF prefix = NoPrefix THEN << >> ELSE Shown(prefix)
  PROVE  Meaning(Signed(s, v, force, prefix)) = Promise!Signed(Meaning(s), v, force, front)
<1> DEFINE signed == IF v < 0 THEN StringAppend(s, Sign(45))
                     ELSE IF force THEN StringAppend(s, Sign(43)) ELSE s
           sign == IF v < 0 THEN <<45>> ELSE IF force THEN <<43>> ELSE << >>
           m == Meaning(s)
<1>1. IsString(signed) /\ Meaning(signed) = Promise!AppendChars(m, sign)
  <2>1. ASSUME NEW c \in Char
        PROVE  /\ IsString(StringAppend(s, Sign(c)))
               /\ Meaning(StringAppend(s, Sign(c))) = Promise!AppendChars(m, <<c>>)
    <3>1. IsView(Sign(c)) /\ Sign(c).size # 0
      BY SignIs DEF Sign
    <3>2. Meaning(StringAppend(s, Sign(c))) = Promise!AppendChars(m, Shown(Sign(c)))
      BY <3>1, StringAppendMeans
    <3> QED BY <3>1, <3>2, SignShows, StringAppendIs
  <2>2. 45 \in Char /\ 43 \in Char
    BY DEF Char
  <2>3. CASE v < 0
    BY <2>1, <2>2, <2>3
  <2>4. CASE ~(v < 0) /\ force
    BY <2>1, <2>2, <2>4
  <2>5. CASE ~(v < 0) /\ ~force
    BY <2>5, AppendNothing
  <2> QED BY <2>3, <2>4, <2>5
<1>2. Signed(s, v, force, prefix)
        = IF prefix = NoPrefix THEN signed ELSE StringAppend(signed, prefix)
  BY DEF Signed
<1>3. Promise!Signed(m, v, force, front)
        = Promise!AppendChars(Promise!AppendChars(m, sign), front)
  BY DEF Promise!Signed
<1> HIDE DEF signed, sign, m
<1>4. CASE prefix = NoPrefix
  <2>1. front = << >>
    BY <1>4
  <2>2. Promise!AppendChars(Meaning(signed), front) = Meaning(signed)
    BY <1>1, <2>1, AppendNothing
  <2> QED BY <1>1, <1>2, <1>3, <1>4, <2>2 DEF m
<1>5. CASE prefix # NoPrefix
  <2>1. front = Shown(prefix) /\ IsView(prefix) /\ prefix.size # 0
    BY <1>5
  <2>2. Meaning(StringAppend(signed, prefix)) = Promise!AppendChars(Meaning(signed), front)
    BY <1>1, <2>1, StringAppendMeans
  <2> QED BY <1>1, <1>2, <1>3, <1>5, <2>2 DEF m
<1> QED BY <1>4, <1>5

-----------------------------------------------------------------------------
(* The figures a number has *)

\* The figures that are promised, when their number is known
FiguresUpTo(n, base, letters, last) ==
  [i \in 1..(last + 1) |->
     Promise!Figure((n \div Powers(base)[last + 1 - i]) % base, letters)]

LEMMA FiguresAre ==
  ASSUME NEW n \in Nat, NEW base \in Nat \ {0}, NEW letters, NEW last \in 0..19,
         n < Powers(base)[last + 1], last = 0 \/ n >= Powers(base)[last]
  PROVE  Promise!Figures(n, base, letters) = FiguresUpTo(n, base, letters, last)
<1> DEFINE p == Powers(base)
           chosen == CHOOSE i \in 0..19 : n < p[i + 1] /\ (i = 0 \/ n >= p[i])
<1>1. Promise!Figures(n, base, letters)
        = [i \in 1..(chosen + 1) |->
             Promise!Figure((n \div p[chosen + 1 - i]) % base, letters)]
  BY Zenon DEF Promise!Figures, Powers
<1>2. \A i \in Nat : p[i] \in Nat \ {0}
  BY PowersAre
<1>3. \A i, j \in Nat : i <= j => p[i] <= p[j]
  BY PowersGrow
<1> HIDE DEF p
<1>4. n < p[last + 1] /\ (last = 0 \/ n >= p[last])
  BY DEF p
<1> DEFINE Only(i) == i \in 0..19 /\ n < p[i + 1] /\ (i = 0 \/ n >= p[i])
<1>5. Only(chosen) /\ Only(last)
  BY <1>4
<1> HIDE DEF chosen
<1>6. ASSUME NEW i, Only(i), NEW j, Only(j) PROVE ~(i < j)
  <2> SUFFICES ASSUME i < j PROVE FALSE
    OBVIOUS
  <2>1. i + 1 \in Nat /\ j \in Nat /\ i + 1 <= j /\ j # 0
    BY <1>6
  <2>2. p[i + 1] <= p[j] /\ p[i + 1] \in Nat /\ p[j] \in Nat /\ n >= p[j]
    BY <1>2, <1>3, <1>6, <2>1
  <2> QED BY <1>6, <2>2
<1>8. chosen \in 0..19
  BY <1>5
<1> HIDE DEF Only
<1>7. chosen = last
  <2>1. ~(chosen < last) /\ ~(last < chosen)
    BY <1>5, <1>6
  <2> QED BY <1>8, <2>1
<1> QED BY <1>1, <1>7, Zenon DEF p, FiguresUpTo

\* A number of 64 bits
Wide == 18446744073709551616

LEMMA WideDecimal == Powers(10)[20] > Wide
<1> DEFINE p == Powers(10)
<1>1. p[0] = 1 /\ \A i \in Nat : p[i + 1] = 10 * p[i]
  BY PowersAre
<1> HIDE DEF p
<1>2. p[0 + 1] = 10 * p[0] /\ p[1 + 1] = 10 * p[1] /\ p[2 + 1] = 10 * p[2]
      /\ p[3 + 1] = 10 * p[3] /\ p[4 + 1] = 10 * p[4] /\ p[5 + 1] = 10 * p[5]
      /\ p[6 + 1] = 10 * p[6] /\ p[7 + 1] = 10 * p[7] /\ p[8 + 1] = 10 * p[8]
      /\ p[9 + 1] = 10 * p[9]
  BY <1>1
<1>3. p[10 + 1] = 10 * p[10] /\ p[11 + 1] = 10 * p[11] /\ p[12 + 1] = 10 * p[12]
      /\ p[13 + 1] = 10 * p[13] /\ p[14 + 1] = 10 * p[14] /\ p[15 + 1] = 10 * p[15]
      /\ p[16 + 1] = 10 * p[16] /\ p[17 + 1] = 10 * p[17] /\ p[18 + 1] = 10 * p[18]
      /\ p[19 + 1] = 10 * p[19]
  BY <1>1
<1>4. p[10] = 10000000000
  BY <1>1, <1>2
<1>5. p[20] = 100000000000000000000
  BY <1>3, <1>4
<1> QED BY <1>5 DEF Wide, p

\* The pairs of figures of k are its figures, and fill an even number of places
Paired(q, k) ==
  \E m \in Nat \ {0} :
    /\ Len(q) = 2 * m /\ k < Powers(10)[2 * m]
    /\ m = 1 \/ k >= Powers(10)[2 * m - 2]
    /\ \A j \in 1..(2 * m) : q[j] = 48 + ((k \div Powers(10)[2 * m - j]) % 10)

LEMMA Tens ==
  /\ Powers(10)[0] = 1 /\ Powers(10)[1] = 10 /\ Powers(10)[2] = 100
  /\ \A i \in Nat : Powers(10)[i] \in Nat \ {0} /\ Powers(10)[i + 2] = 100 * Powers(10)[i]
<1> DEFINE p == Powers(10)
<1>1. /\ p[0] = 1 /\ \A i \in Nat : p[i + 1] = 10 * p[i]
      /\ \A i \in Nat : p[i] \in Nat \ {0}
  BY PowersAre
<1> HIDE DEF p
<1>2. p[0 + 1] = 10 * p[0] /\ p[1 + 1] = 10 * p[1]
  BY <1>1
<1>3. ASSUME NEW i \in Nat PROVE p[i + 2] = 100 * p[i]
  <2>1. p[i + 1] = 10 * p[i] /\ p[(i + 1) + 1] = 10 * p[i + 1] /\ (i + 1) + 1 = i + 2
    BY <1>1
  <2> DEFINE a == p[i]
             b == p[i + 1]
             c == p[i + 2]
  <2>2. a \in Nat /\ b = 10 * a /\ c = 10 * b
    BY <1>1, <2>1
  <2> HIDE DEF a, b, c
  <2>3. c = 100 * a
    BY <2>2
  <2> QED BY <2>3 DEF a, c
<1> QED BY <1>1, <1>2, <1>3 DEF p

LEMMA PairFigures ==
  ASSUME NEW k \in Nat
  PROVE  /\ Len(Pair(k)) = 2 /\ Pair(k)[1] = 48 + ((k \div 10) % 10)
         /\ Pair(k)[2] = 48 + (k % 10)
<1>1. (k % 100) \div 10 = (k \div 10) % 10
  OBVIOUS
<1> DEFINE a == 48 + ((k % 100) \div 10)
           b == 48 + (k % 10)
<1>2. Pair(k) = <<a, b>>
  BY DEF Pair
<1>3. a = 48 + ((k \div 10) % 10)
  BY <1>1
<1> HIDE DEF a
<1> QED BY <1>2, <1>3

LEMMA PairedOnce == ASSUME NEW k \in Nat, k < 100 PROVE Paired(Pair(k), k)
<1> DEFINE p == Powers(10)
           q == Pair(k)
<1>1. p[0] = 1 /\ p[1] = 10 /\ p[2] = 100
  BY Tens
<1>2. Len(q) = 2 /\ q[1] = 48 + ((k \div 10) % 10) /\ q[2] = 48 + (k % 10)
  BY PairFigures
<1> HIDE DEF p, q
<1>3. 2 * 1 = 2 /\ 2 - 1 = 1 /\ 2 - 2 = 0 /\ k \div 1 = k
  OBVIOUS
<1>4. \A j \in 1..2 : q[j] = 48 + ((k \div p[2 - j]) % 10)
  <2>1. \A j \in 1..2 : j = 1 \/ j = 2
    OBVIOUS
  <2>2. (k \div p[2 - 1]) % 10 = (k \div 10) % 10
    BY <1>1, <1>3, Zenon
  <2>3. (k \div p[2 - 2]) % 10 = k % 10
    BY <1>1, <1>3, Zenon
  <2> QED BY <1>2, <2>1, <2>2, <2>3
<1>5. k < p[2]
  BY <1>1
<1>6. 1 \in Nat \ {0}
  OBVIOUS
<1> QED BY <1>2, <1>3, <1>4, <1>5, <1>6 DEF Paired, p, q

LEMMA PairedTwice ==
  ASSUME NEW k \in Nat, k >= 100, NEW q, IsCells(q), Paired(q, k \div 100)
  PROVE  Paired(q \o Pair(k), k)
<1> DEFINE p == Powers(10)
           h == k \div 100
           end == Pair(k)
           r == q \o end
<1>1. h \in Nat /\ 100 * h <= k /\ k < 100 * h + 100 /\ h >= 1
  OBVIOUS
<1>2. PICK m \in Nat \ {0} :
        /\ Len(q) = 2 * m /\ h < p[2 * m]
        /\ m = 1 \/ h >= p[2 * m - 2]
        /\ \A j \in 1..(2 * m) : q[j] = 48 + ((h \div p[2 * m - j]) % 10)
  BY DEF Paired
<1>3. \A i \in Nat, b \in Nat \ {0} : (k \div 100) \div b = k \div (100 * b)
  BY HundredFold
<1>4. \A i \in Nat : p[i] \in Nat \ {0} /\ p[i + 2] = 100 * p[i]
  BY Tens
<1>5. p[0] = 1 /\ p[1] = 10 /\ p[2] = 100
  BY Tens
<1> HIDE DEF p
<1>6. IsCells(end) /\ Len(end) = 2 /\ end[1] = 48 + ((k \div 10) % 10) /\ end[2] = 48 + (k % 10)
  BY PairFigures, PairIs
<1> HIDE DEF end
<1>7. /\ Len(r) = 2 * m + 2
      /\ \A j \in 1..(2 * m + 2) : r[j] = IF j <= 2 * m THEN q[j] ELSE end[j - 2 * m]
  <2>1. q \in Seq(Cell) /\ end \in Seq(Cell)
    BY <1>6 DEF IsCells
  <2>2. /\ Len(q \o end) = Len(q) + Len(end)
        /\ \A j \in 1..(Len(q) + Len(end)) :
             (q \o end)[j] = IF j <= Len(q) THEN q[j] ELSE end[j - Len(q)]
    BY <2>1, ConcatProperties
  <2> QED BY <1>2, <1>6, <2>2
<1> HIDE DEF r
<1> DEFINE w == 2 * m
<1>8. w \in Nat /\ w >= 2 /\ 2 * (m + 1) = w + 2 /\ (w + 2) - 2 = w /\ w - 2 \in Nat
  BY <1>2
<1>9. k < p[w + 2]
  <2>1. p[w + 2] = 100 * p[w] /\ p[w] \in Nat
    BY <1>4, <1>8
  <2> QED BY <1>1, <1>2, <2>1
<1>10. k >= p[w]
  <2>1. CASE m = 1
    BY <1>5, <2>1
  <2>2. CASE m # 1
    <3>1. h >= p[w - 2] /\ p[w - 2] \in Nat
      BY <1>2, <1>4, <1>8, <2>2
    <3>2. (w - 2) + 2 = w
      BY <1>8
    <3>3. p[w] = 100 * p[w - 2]
      BY <1>4, <1>8, <3>2
    <3> QED BY <1>1, <3>1, <3>3
  <2> QED BY <2>1, <2>2
<1>11. ASSUME NEW j \in 1..(w + 2)
       PROVE  r[j] = 48 + ((k \div p[w + 2 - j]) % 10)
  <2>1. CASE j <= w
    <3> DEFINE i == w - j
    <3>1. i \in Nat /\ w + 2 - j = i + 2 /\ j \in 1..w
      BY <1>8, <2>1
    <3> HIDE DEF i
    <3>2. p[w + 2 - j] = 100 * p[i] /\ p[i] \in Nat \ {0}
      BY <1>4, <3>1
    <3>3. h \div p[i] = k \div p[w + 2 - j]
      BY <1>3, <3>2
    <3>4. q[j] = 48 + ((h \div p[i]) % 10)
      BY <1>2, <3>1 DEF i
    <3>5. r[j] = q[j]
      BY <1>7, <2>1
    <3> QED BY <3>3, <3>4, <3>5
  <2>2. CASE j = w + 1
    <3>1. w + 2 - j = 1 /\ ~(j <= 2 * m) /\ j - 2 * m = 1
      BY <1>8, <2>2
    <3>2. r[j] = end[1]
      BY <1>7, <3>1
    <3>3. k \div p[w + 2 - j] = k \div 10
      BY <1>5, <3>1
    <3> QED BY <1>6, <3>2, <3>3
  <2>3. CASE j = w + 2
    <3>1. w + 2 - j = 0 /\ ~(j <= 2 * m) /\ j - 2 * m = 2
      BY <1>8, <2>3
    <3>2. r[j] = end[2]
      BY <1>7, <3>1
    <3>3. k \div p[w + 2 - j] = k
      BY <1>5, <3>1
    <3> QED BY <1>6, <3>2, <3>3
  <2> QED BY <1>8, <2>1, <2>2, <2>3
<1> HIDE DEF w
<1>12. /\ m + 1 \in Nat \ {0} /\ Len(r) = 2 * (m + 1) /\ k < p[2 * (m + 1)]
       /\ m + 1 = 1 \/ k >= p[2 * (m + 1) - 2]
       /\ \A j \in 1..(2 * (m + 1)) : r[j] = 48 + ((k \div p[2 * (m + 1) - j]) % 10)
  <2>1. Len(r) = w + 2
    BY <1>7 DEF w
  <2> QED BY <1>8, <1>9, <1>10, <1>11, <2>1
<1> QED BY <1>12 DEF Paired, p, r, end

\* What the calls append of a decimal number are its figures
LEMMA DecimalsAre ==
  ASSUME NEW n \in Nat, n < Wide
  PROVE  DecimalFigures(n) = Promise!Figures(n, 10, 97)
<1> DEFINE pairs == CHOOSE f : f = [k \in Nat |-> IF k >= 100 THEN f[k \div 100] \o Pair(k)
                                                 ELSE Pair(k)]
           p == Powers(10)
<1>1. DecimalFigures(n) = IF pairs[n][1] = 48 THEN Tail(pairs[n]) ELSE pairs[n]
  BY Zenon DEF DecimalFigures, Pair
<1>2. pairs = [k \in Nat |-> IF k >= 100 THEN pairs[k \div 100] \o Pair(k) ELSE Pair(k)]
  BY DecimalPairs, Zenon
<1> HIDE DEF pairs
<1>3. \A k \in Nat : pairs[k] = IF k >= 100 THEN pairs[k \div 100] \o Pair(k) ELSE Pair(k)
  BY <1>2, Zenon
<1> DEFINE Good(k) == IsCells(pairs[k]) /\ Paired(pairs[k], k)
           T == {k \in Nat : ~Good(k)}
<1>4. T = {}
  <2> SUFFICES ASSUME T # {} PROVE FALSE
    OBVIOUS
  <2> HIDE DEF Good
  <2>1. PICK m \in T : \A k \in T : m <= k
    BY LeastNatural
  <2>2. m \in Nat /\ ~Good(m)
    OBVIOUS
  <2>3. CASE m >= 100
    <3>1. m \div 100 \in Nat /\ m \div 100 < m
      BY <2>2, <2>3, Hundreds
    <3>2. Good(m \div 100)
      BY <2>1, <2>2, <3>1
    <3>3. pairs[m] = pairs[m \div 100] \o Pair(m)
      BY <1>3, <2>2, <2>3
    <3>4. IsCells(pairs[m \div 100]) /\ Paired(pairs[m \div 100], m \div 100)
      BY <3>2 DEF Good
    <3>5. Paired(pairs[m \div 100] \o Pair(m), m)
      BY <2>2, <2>3, <3>4, PairedTwice
    <3>6. IsCells(pairs[m \div 100] \o Pair(m))
      BY <2>2, <3>4, PairIs, JoinedIsSeq
    <3> QED BY <2>2, <3>3, <3>5, <3>6 DEF Good
  <2>4. CASE ~(m >= 100)
    <3>1. pairs[m] = Pair(m)
      BY <1>3, <2>2, <2>4
    <3>2. IsCells(Pair(m)) /\ Paired(Pair(m), m)
      BY <2>2, <2>4, PairIs, PairedOnce
    <3> QED BY <2>2, <3>1, <3>2 DEF Good
  <2> QED BY <2>3, <2>4
<1>5. IsCells(pairs[n]) /\ Paired(pairs[n], n)
  BY <1>4
<1> DEFINE q == pairs[n]
<1>6. PICK m \in Nat \ {0} :
        /\ Len(q) = 2 * m /\ n < p[2 * m]
        /\ m = 1 \/ n >= p[2 * m - 2]
        /\ \A j \in 1..(2 * m) : q[j] = 48 + ((n \div p[2 * m - j]) % 10)
  BY <1>5 DEF Paired
<1>7. IsCells(q)
  BY <1>5
<1> HIDE DEF q
<1>8. /\ \A i \in Nat : p[i] \in Nat \ {0} /\ p[i + 1] = 10 * p[i]
      /\ \A i, j \in Nat : i <= j => p[i] <= p[j]
  BY PowersAre, PowersGrow
<1>9. n < p[20]
  <2>1. p[20] > Wide /\ p[20] \in Nat /\ Wide \in Nat
    BY <1>8, WideDecimal DEF Wide
  <2> HIDE DEF p
  <2> QED BY <2>1
<1> HIDE DEF p
<1> DEFINE w == 2 * m
<1>10. w \in Nat /\ w >= 2 /\ w <= 20
  <2>1. w \in Nat /\ w >= 2
    OBVIOUS
  <2>2. ~(w - 2 >= 20)
    <3> SUFFICES ASSUME w - 2 >= 20 PROVE FALSE
      OBVIOUS
    <3>1. m # 1 /\ w - 2 \in Nat /\ 20 <= w - 2
      BY <2>1
    <3>2. n >= p[w - 2]
      BY <1>6, <3>1
    <3>3. p[20] <= p[w - 2] /\ p[20] \in Nat /\ p[w - 2] \in Nat
      BY <1>8, <3>1
    <3> QED BY <1>9, <3>2, <3>3
  <2>3. w # 21
    OBVIOUS
  <2> QED BY <2>1, <2>2, <2>3
<1> DEFINE d(i) == (n \div p[i]) % 10
<1>11. /\ Len(q) = w /\ n < p[w] /\ (w = 2 \/ n >= p[w - 2])
       /\ \A j \in 1..w : q[j] = 48 + d(w - j)
  BY <1>6
<1>12. \A i \in Nat : Promise!Figure(d(i), 97) = 48 + d(i)
  <2> SUFFICES ASSUME NEW i \in Nat PROVE Promise!Figure(d(i), 97) = 48 + d(i)
    OBVIOUS
  <2>1. n \div p[i] \in Nat
    BY <1>8, Quotient
  <2>2. d(i) \in 0..9
    BY <2>1
  <2> HIDE DEF d
  <2> QED BY <2>2 DEF Promise!Figure
<1> HIDE DEF w
<1> DEFINE u == w - 1
<1>13. u \in Nat /\ w = u + 1 /\ u >= 1
  BY <1>10
<1>14. p[w] = 10 * p[u] /\ p[u] \in Nat \ {0}
  BY <1>8, <1>13
<1>15. q[1] = 48 <=> n < p[u]
  <2> DEFINE a == p[u]
             x == n \div a
  <2>1. a \in Nat \ {0} /\ n < 10 * a
    BY <1>11, <1>14
  <2> HIDE DEF a
  <2>2. x \in Nat /\ a * x <= n /\ n < a * x + a
    BY <2>1, Quotient
  <2> HIDE DEF x
  <2>3. x < 10
    <3> SUFFICES ASSUME x >= 10 PROVE FALSE
      BY <2>2
    <3>1. x - 10 \in Nat /\ a * (x - 10) \in Nat /\ a * x = 10 * a + a * (x - 10)
      BY <2>1, <2>2
    <3> DEFINE y == a * x
               z == a * (x - 10)
    <3>2. z \in Nat /\ y = 10 * a + z /\ y <= n
      BY <2>2, <3>1
    <3> HIDE DEF y, z
    <3> QED BY <2>1, <3>2
  <2>4. x = 0 <=> n < a
    <3>1. x = 0 => n < a
      BY <2>1, <2>2
    <3>2. x # 0 => n >= a
      <4> SUFFICES ASSUME x # 0 PROVE n >= a
        OBVIOUS
      <4>1. x - 1 \in Nat /\ a * (x - 1) \in Nat /\ a * x = a + a * (x - 1)
        BY <2>1, <2>2
      <4> DEFINE y == a * x
                 z == a * (x - 1)
      <4>2. z \in Nat /\ y = a + z /\ y <= n
        BY <2>2, <4>1
      <4> HIDE DEF y, z
      <4> QED BY <2>1, <4>2
    <3> QED BY <2>1, <3>1, <3>2
  <2>5. x % 10 = x
    BY <2>2, <2>3
  <2>6. q[1] = 48 + d(u)
    <3>1. 1 \in 1..w /\ w - 1 = u
      BY <1>10
    <3> HIDE DEF d, u
    <3> QED BY <1>11, <3>1
  <2>7. d(u) = x
    BY <2>5 DEF x, a
  <2> HIDE DEF d, u
  <2> QED BY <2>2, <2>4, <2>6, <2>7 DEF a
<1> HIDE DEF u
<1> DEFINE promised(last) == [i \in 1..(last + 1) |-> 48 + d(last + 1 - i)]
<1>16. ASSUME NEW last \in 0..19, n < p[last + 1], last = 0 \/ n >= p[last]
       PROVE  Promise!Figures(n, 10, 97) = promised(last)
  <2>1. Promise!Figures(n, 10, 97)
          = [i \in 1..(last + 1) |-> Promise!Figure(d(last + 1 - i), 97)]
    <3>1. /\ n < Powers(10)[last + 1] /\ (last = 0 \/ n >= Powers(10)[last])
          /\ 10 \in Nat \ {0}
      BY <1>16 DEF p
    <3>2. Promise!Figures(n, 10, 97) = FiguresUpTo(n, 10, 97, last)
      BY <3>1, FiguresAre
    <3> QED BY <3>2, Zenon DEF p, FiguresUpTo
  <2>2. \A i \in 1..(last + 1) : last + 1 - i \in Nat
    OBVIOUS
  <2> HIDE DEF d
  <2>3. \A i \in 1..(last + 1) :
          Promise!Figure(d(last + 1 - i), 97) = 48 + d(last + 1 - i)
    BY <1>12, <2>2
  <2> QED BY <2>1, <2>3, Zenon
<1> HIDE DEF d
<1>17. CASE n >= p[u]
  <2>1. u \in 0..19 /\ n < p[u + 1]
    BY <1>10, <1>11, <1>13
  <2>2. Promise!Figures(n, 10, 97) = promised(u)
    BY <1>16, <1>17, <2>1
  <2>3. q = [j \in 1..w |-> q[j]]
    BY <1>7, <1>11, SeqIsFunction
  <2>4. q = promised(u)
    BY <1>11, <1>13, <2>3
  <2>5. q[1] # 48
    BY <1>14, <1>15, <1>17
  <2> QED BY <1>1, <2>2, <2>4, <2>5 DEF q
<1>18. CASE ~(n >= p[u])
  <2> DEFINE last == u - 1
             t == Tail(q)
  <2>1. last \in 0..19 /\ last + 1 = u /\ n < p[last + 1] /\ last = w - 2
    BY <1>10, <1>13, <1>14, <1>18
  <2>2. last = 0 \/ n >= p[last]
    BY <1>10, <1>11, <2>1
  <2>3. Promise!Figures(n, 10, 97) = promised(last)
    BY <1>16, <2>1, <2>2
  <2>4. q[1] = 48
    BY <1>14, <1>15, <1>18
  <2>5. IsCells(t) /\ Len(t) = u /\ \A j \in 1..u : t[j] = q[j + 1]
    <3> DEFINE S == Cell
    <3>1. q \in Seq(S)
      BY <1>7 DEF IsCells
    <3> HIDE DEF S
    <3>2. Len(q) = u + 1 /\ u + 1 - 1 = u /\ q # << >>
      BY <1>11, <1>13
    <3>3. t \in Seq(S) /\ Len(t) = u /\ \A j \in 1..u : t[j] = q[j + 1]
      BY <1>13, <3>1, <3>2
    <3> QED BY <3>3 DEF IsCells, S
  <2> HIDE DEF t
  <2>6. t = [j \in 1..u |-> t[j]]
    BY <2>5, SeqIsFunction
  <2>7. ASSUME NEW j \in 1..u PROVE t[j] = 48 + d(last + 1 - j)
    <3>1. j + 1 \in 1..w /\ w - (j + 1) = last + 1 - j
      BY <1>13, <2>1
    <3> HIDE DEF last
    <3> QED BY <1>11, <2>5, <3>1
  <2>8. t = promised(last)
    <3> HIDE DEF last
    <3> QED BY <2>1, <2>6, <2>7
  <2> QED BY <1>1, <2>3, <2>4, <2>8 DEF q, t
<1> QED BY <1>17, <1>18

LEMMA WideHexadecimal == Powers(16)[16] = Wide
<1> DEFINE p == Powers(16)
<1>1. p[0] = 1 /\ \A i \in Nat : p[i + 1] = 16 * p[i]
  BY PowersAre
<1> HIDE DEF p
<1>2. p[0 + 1] = 16 * p[0] /\ p[1 + 1] = 16 * p[1] /\ p[2 + 1] = 16 * p[2]
      /\ p[3 + 1] = 16 * p[3] /\ p[4 + 1] = 16 * p[4] /\ p[5 + 1] = 16 * p[5]
      /\ p[6 + 1] = 16 * p[6] /\ p[7 + 1] = 16 * p[7]
  BY <1>1
<1>3. p[8 + 1] = 16 * p[8] /\ p[9 + 1] = 16 * p[9] /\ p[10 + 1] = 16 * p[10]
      /\ p[11 + 1] = 16 * p[11] /\ p[12 + 1] = 16 * p[12] /\ p[13 + 1] = 16 * p[13]
      /\ p[14 + 1] = 16 * p[14] /\ p[15 + 1] = 16 * p[15]
  BY <1>1
<1>4. p[8] = 4294967296
  BY <1>1, <1>2
<1>5. p[16] = 18446744073709551616
  BY <1>3, <1>4
<1> QED BY <1>5 DEF Wide, p

\* The same for a hexadecimal number
LEMMA HexesAre ==
  ASSUME NEW v \in Nat, v < Wide, NEW uppercase
  PROVE  HexFigures(v, uppercase) = Promise!Figures(v, 16, IF uppercase THEN 65 ELSE 97)
<1> DEFINE p == Powers(16)
           nibble == Nibbles(v)
           letter == IF uppercase THEN 55 ELSE 87
           letters == IF uppercase THEN 65 ELSE 97
<1>1. PICK top \in 0..15 :
        /\ HexFigures(v, uppercase) = Hex(nibble, top, letter)
        /\ top = 0 \/ nibble[top] # 0
        /\ \A j \in 0..15 : j > top => nibble[j] = 0
  BY TopIs
<1>2. /\ \A i \in 0..15 : nibble[i] = (v \div p[i]) % 16
      /\ \A i \in 0..15 : nibble[i] \in 0..15
  BY NibblesAre
<1>3. /\ \A i \in Nat : p[i] \in Nat \ {0} /\ p[i + 1] = 16 * p[i]
      /\ \A i, j \in Nat : i <= j => p[i] <= p[j]
  BY PowersAre, PowersGrow
<1>4. v < p[16]
  BY WideHexadecimal
<1> HIDE DEF p, nibble
<1>5. v < p[top + 1]
  <2> DEFINE T == {i \in Nat : v < p[i]}
  <2>1. 16 \in T
    BY <1>4
  <2>2. PICK m \in T : \A i \in T : m <= i
    BY <2>1, LeastNatural
  <2>3. m \in Nat /\ m <= 16 /\ v < p[m]
    BY <2>1, <2>2
  <2>4. CASE m <= top + 1
    <3>1. p[m] <= p[top + 1] /\ p[m] \in Nat /\ p[top + 1] \in Nat
      BY <1>3, <2>3, <2>4
    <3> QED BY <2>3, <3>1
  <2>5. CASE ~(m <= top + 1)
    <3> DEFINE j == m - 1
    <3>1. j \in 0..15 /\ j > top /\ j + 1 = m /\ j \in Nat /\ ~(m <= j)
      BY <2>3, <2>5
    <3> HIDE DEF j
    <3>2. p[m] = 16 * p[j] /\ p[j] \in Nat \ {0}
      BY <1>3, <3>1
    <3> DEFINE a == p[j]
    <3>3. a \in Nat \ {0} /\ v < 16 * a /\ (v \div a) % 16 = 0
      BY <1>1, <1>2, <2>3, <3>1, <3>2
    <3> HIDE DEF a
    <3>4. v < a
      <4> DEFINE base == 16
      <4>1. base \in {10, 16} /\ v < base * a
        BY <3>3
      <4>2. (v \div a) % base = 0
        BY <3>3
      <4> HIDE DEF base
      <4> QED BY <3>3, <4>1, <4>2, Leading
    <3>5. j \in T
      BY <3>1, <3>4 DEF a
    <3> QED BY <2>2, <3>1, <3>5
  <2> QED BY <2>4, <2>5
<1>6. top = 0 \/ v >= p[top]
  <2> SUFFICES ASSUME top # 0, ~(v >= p[top]) PROVE FALSE
    OBVIOUS
  <2> DEFINE a == p[top]
  <2>1. a \in Nat \ {0} /\ v < a /\ (v \div a) % 16 # 0
    <3>1. top \in Nat /\ nibble[top] # 0 /\ nibble[top] = (v \div p[top]) % 16
      BY <1>1, <1>2
    <3>2. p[top] \in Nat \ {0} /\ ~(v >= p[top])
      BY <1>3, <3>1
    <3> QED BY <3>1, <3>2
  <2> HIDE DEF a
  <2>2. a * 0 <= v /\ v < a * 0 + a
    BY <2>1
  <2>3. v \div a = 0
    BY <2>1, <2>2, QuotientIs
  <2> QED BY <2>1, <2>3
<1> DEFINE d(i) == (v \div p[i]) % 16
<1>7. Promise!Figures(v, 16, letters)
        = [i \in 1..(top + 1) |-> Promise!Figure(d(top + 1 - i), letters)]
  <2>1. /\ v < Powers(16)[top + 1] /\ (top = 0 \/ v >= Powers(16)[top])
        /\ 16 \in Nat \ {0} /\ top \in 0..19
    BY <1>5, <1>6 DEF p
  <2> HIDE DEF letters
  <2>2. Promise!Figures(v, 16, letters) = FiguresUpTo(v, 16, letters, top)
    BY <2>1, FiguresAre
  <2> QED BY <2>2, Zenon DEF p, FiguresUpTo
<1>8. ASSUME NEW i \in 0..15
      PROVE  Promise!Figure(d(i), letters)
               = IF nibble[i] < 10 THEN 48 + nibble[i] ELSE letter + nibble[i]
  <2> DEFINE x == nibble[i]
  <2>1. x \in 0..15 /\ d(i) = x
    BY <1>2
  <2> HIDE DEF d, x
  <2>2. Promise!Figure(x, letters) = IF x < 10 THEN 48 + x ELSE letters + x - 10
    BY DEF Promise!Figure
  <2>3. letters + x - 10 = letter + x
    BY <2>1
  <2> QED BY <2>1, <2>2, <2>3 DEF x
<1> HIDE DEF d, letter
<1>9. \A k \in 1..(top + 1) : top + 1 - k \in 0..15
  OBVIOUS
<1>10. Hex(nibble, top, letter)
         = [k \in 1..(top + 1) |-> Promise!Figure(d(top + 1 - k), letters)]
  <2> HIDE DEF letters
  <2>1. \A k \in 1..(top + 1) : Promise!Figure(d(top + 1 - k), letters)
          = IF nibble[top + 1 - k] < 10 THEN 48 + nibble[top + 1 - k]
                                        ELSE letter + nibble[top + 1 - k]
    BY <1>8, <1>9
  <2> QED BY <2>1, Zenon DEF Hex
<1> QED BY <1>1, <1>7, <1>10

-----------------------------------------------------------------------------
(* All of the calls of Format.c *)

\* The numbers are of 64 bits, and the prefixes initialised
Representable == \A v \in DecValues \cup HexValues : Magnitude(v) < Wide
Prefixed == \A v \in Prefixes : v = NoPrefix \/ v.size # 0

\* A status other than success is kept
LEMMA KeepsStatus ==
  ASSUME NEW s, IsString(s), s.status # "SUCCESS", NEW chars
  PROVE  Promise!AppendChars(Meaning(s), chars) = Meaning(s)
<1>1. Meaning(s).status # "SUCCESS"
  BY MeaningIs
<1> QED BY <1>1 DEF Promise!AppendChars, Promise!Splice, Promise!Become

LEMMA DecimalMeans ==
  ASSUME Configured, Buffered, NEW s, IsString(s), s.status = "SUCCESS",
         NEW v \in Nat, v < Wide, NEW padding \in Nat
  PROVE  Meaning(AppendDecU(s, v, padding))
           = Promise!AppendDecimal(Meaning(s), v, padding)
BY AppendDecUMeans, DecimalsAre DEF Promise!AppendDecimal

LEMMA HexadecimalMeans ==
  ASSUME Configured, Buffered, NEW s, IsString(s), s.status = "SUCCESS",
         NEW v \in Nat, v < Wide, NEW padding \in Nat, NEW uppercase,
         NEW letters, letters = IF uppercase THEN 65 ELSE 97
  PROVE  Meaning(AppendHexU(s, v, padding, uppercase))
           = Promise!AppendHexadecimal(Meaning(s), v, padding, letters)
BY AppendHexUMeans, HexesAre DEF Promise!AppendHexadecimal

LEMMA SignedNumberMeans ==
  ASSUME Configured, Buffered, NEW s, IsString(s), NEW v \in Int, Magnitude(v) < Wide,
         NEW padding \in Nat, NEW force,
         NEW prefix, prefix = NoPrefix \/ (IsView(prefix) /\ prefix.size # 0),
         NEW front, front = IF prefix = NoPrefix THEN << >> ELSE Shown(prefix)
  PROVE  /\ Meaning(AppendDecS(s, v, padding, force, prefix))
              = Promise!AppendDecimal(Promise!Signed(Meaning(s), v, force, front),
                                      Magnitude(v), padding)
         /\ \A up \in BOOLEAN : \A letters : letters = (IF up THEN 65 ELSE 97) =>
              Meaning(AppendHexS(s, v, padding, up, force, prefix))
                = Promise!AppendHexadecimal(Promise!Signed(Meaning(s), v, force, front),
                                            Magnitude(v), padding, letters)
<1> DEFINE t == Signed(s, v, force, prefix)
           n == Magnitude(v)
<1>1. IsString(t)
  BY SignedIs
<1>2. Meaning(t) = Promise!Signed(Meaning(s), v, force, front)
  BY SignedMeans
<1>3. /\ AppendDecS(s, v, padding, force, prefix)
           = IF t.status # "SUCCESS" THEN t ELSE AppendDecU(t, n, padding)
      /\ \A up : AppendHexS(s, v, padding, up, force, prefix)
           = IF t.status # "SUCCESS" THEN t ELSE AppendHexU(t, n, padding, up)
  BY DEF AppendDecS, AppendHexS
<1>4. n \in Nat /\ n < Wide
  BY MagnitudeIs
<1> HIDE DEF t, n
<1>5. CASE t.status # "SUCCESS"
  <2>1. /\ Promise!AppendDecimal(Meaning(t), n, padding) = Meaning(t)
        /\ \A letters : Promise!AppendHexadecimal(Meaning(t), n, padding, letters)
                          = Meaning(t)
    BY <1>1, <1>5, KeepsStatus DEF Promise!AppendDecimal, Promise!AppendHexadecimal
  <2> QED BY <1>2, <1>3, <1>5, <2>1 DEF n
<1>6. CASE t.status = "SUCCESS"
  <2>1. Meaning(AppendDecU(t, n, padding)) = Promise!AppendDecimal(Meaning(t), n, padding)
    BY <1>1, <1>4, <1>6, DecimalMeans
  <2>2. \A up \in BOOLEAN : \A letters : letters = (IF up THEN 65 ELSE 97) =>
          Meaning(AppendHexU(t, n, padding, up))
            = Promise!AppendHexadecimal(Meaning(t), n, padding, letters)
    BY <1>1, <1>4, <1>6, HexadecimalMeans
  <2> QED BY <1>2, <1>3, <1>6, <2>1, <2>2 DEF n
<1> QED BY <1>5, <1>6

LEMMA NumbersAre ==
  ASSUME StringInv, Buffered, Representable, Prefixed
  PROVE  NumbersImplement
<1> SUFFICES ASSUME Live PROVE NumbersImplement
  BY DEF NumbersImplement
<1> DEFINE s == This
           m == Meaning(s)
           letters(up) == IF up THEN 65 ELSE 97
<1>1. Configured /\ IsString(s) /\ s.status = "SUCCESS"
  BY ThisIsString DEF Live, This
<1> HIDE DEF s
<1> SUFFICES ASSUME NEW n \in Paddings
             PROVE
      /\ \A v \in DecValues : v >= 0 =>
           Meaning(AppendDecU(s, v, n)) = Promise!AppendDecimal(m, v, n)
      /\ \A v \in HexValues, up \in BOOLEAN : v >= 0 =>
           Meaning(AppendHexU(s, v, n, up))
             = Promise!AppendHexadecimal(m, v, n, letters(up))
      /\ \A force \in BOOLEAN, prefix \in Prefixes :
           LET front == IF prefix = NoPrefix THEN << >> ELSE Shown(prefix)
               begun(v) == Promise!Signed(m, v, force, front) IN
           /\ \A v \in DecValues :
                Meaning(AppendDecS(s, v, n, force, prefix))
                  = Promise!AppendDecimal(begun(v), Magnitude(v), n)
           /\ \A v \in HexValues, up \in BOOLEAN :
                Meaning(AppendHexS(s, v, n, up, force, prefix))
                  = Promise!AppendHexadecimal(begun(v), Magnitude(v), n,
                                              letters(up))
  BY DEF NumbersImplement, s
<1>2. n \in Nat
  BY FormatAssumption
<1>3. ASSUME NEW v \in DecValues \cup HexValues
      PROVE  v \in Int /\ Magnitude(v) < Wide /\ (v >= 0 => Magnitude(v) = v)
  BY FormatAssumption DEF Representable, Magnitude
<1>4. \A v \in DecValues : v >= 0 =>
        Meaning(AppendDecU(s, v, n)) = Promise!AppendDecimal(m, v, n)
  <2> SUFFICES ASSUME NEW v \in DecValues, v >= 0
               PROVE  Meaning(AppendDecU(s, v, n)) = Promise!AppendDecimal(m, v, n)
    OBVIOUS
  <2>1. v \in Nat /\ v < Wide
    BY <1>3
  <2> QED BY <1>1, <1>2, <2>1, DecimalMeans
<1>5. \A v \in HexValues, up \in BOOLEAN : v >= 0 =>
        Meaning(AppendHexU(s, v, n, up)) = Promise!AppendHexadecimal(m, v, n, letters(up))
  <2> SUFFICES ASSUME NEW v \in HexValues, NEW up \in BOOLEAN, v >= 0
               PROVE  Meaning(AppendHexU(s, v, n, up))
                        = Promise!AppendHexadecimal(m, v, n, letters(up))
    OBVIOUS
  <2>1. v \in Nat /\ v < Wide
    BY <1>3
  <2> QED BY <1>1, <1>2, <2>1, HexadecimalMeans
<1>6. ASSUME NEW force \in BOOLEAN, NEW prefix \in Prefixes
      PROVE  LET front == IF prefix = NoPrefix THEN << >> ELSE Shown(prefix)
                 begun(v) == Promise!Signed(m, v, force, front) IN
             /\ \A v \in DecValues :
                  Meaning(AppendDecS(s, v, n, force, prefix))
                    = Promise!AppendDecimal(begun(v), Magnitude(v), n)
             /\ \A v \in HexValues, up \in BOOLEAN :
                  Meaning(AppendHexS(s, v, n, up, force, prefix))
                    = Promise!AppendHexadecimal(begun(v), Magnitude(v), n, letters(up))
  <2> DEFINE front == IF prefix = NoPrefix THEN << >> ELSE Shown(prefix)
  <2>1. prefix = NoPrefix \/ (IsView(prefix) /\ prefix.size # 0)
    BY FormatAssumption, TextIsSeq DEF IsView, Prefixed
  <2>2. front = IF prefix = NoPrefix THEN << >> ELSE Shown(prefix)
    OBVIOUS
  <2> HIDE DEF front
  <2>3. ASSUME NEW v \in DecValues \cup HexValues
        PROVE  /\ Meaning(AppendDecS(s, v, n, force, prefix))
                    = Promise!AppendDecimal(Promise!Signed(m, v, force, front),
                                            Magnitude(v), n)
               /\ \A up \in BOOLEAN : \A x : x = letters(up) =>
                    Meaning(AppendHexS(s, v, n, up, force, prefix))
                      = Promise!AppendHexadecimal(Promise!Signed(m, v, force, front),
                                                  Magnitude(v), n, x)
    BY <1>1, <1>2, <1>3, <2>1, <2>2, SignedNumberMeans
  <2> QED BY <2>3 DEF front
<1> QED BY <1>4, <1>5, <1>6

\* In every state, each call of String.c and Format.c changes the text as it
\* promises or refuses for the reason it promises, for every policy by which
\* the block grows and every buffer, text and number of 64 bits.  A view that
\* is not initialised has no size to speak of.
THEOREM StringKeepsPromises ==
  ASSUME FormatFits = TRUE, Initialised, Prefixed, Representable
  PROVE  Spec => []CallsImplement
<1>1. StringInv /\ Buffered => CallsImplement
  BY TextCallsAre, ChangesAre, NumbersAre, FormatIs DEF CallsImplement
<1> QED BY <1>1, StringInvHolds, BufferedHolds, PTL
=============================================================================
