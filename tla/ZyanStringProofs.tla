-------------------------- MODULE ZyanStringProofs --------------------------
(***************************************************************************)
(* A string ends with a NUL after every call, and no call leaves the block *)
(* of its vector, for every allocation policy, buffer, text and number; a  *)
(* string that is made of others has their characters.  A search finds the *)
(* first or last occurrence there is, and a comparison tells texts apart.  *)
(***************************************************************************)
EXTENDS ZyanFormat, ZyanStringSearch, FiniteSetTheorems, SequenceTheorems, TLAPS

-----------------------------------------------------------------------------
(* Sequences of characters and of cells nothing is known of *)

Cell == Char \cup {Undef}
IsCells(q) == q \in Seq(Cell)

LEMMA CellsAre == 0..127 \subseteq Cell /\ NUL \in Cell /\ Undef \in Cell
BY DEF Cell, Char, NUL

LEMMA SeqLength == ASSUME NEW q, IsCells(q) PROVE Len(q) \in Nat
BY DEF IsCells

LEMMA NothingIsSeq == IsCells(<< >>) /\ Len(<< >>) = 0
<1> DEFINE S == Cell
<1>1. << >> \in Seq(S) /\ Len(<< >>) = 0
  OBVIOUS
<1> QED BY <1>1 DEF IsCells

LEMMA EndIsSeq == IsCells(<<NUL>>) /\ Len(<<NUL>>) = 1 /\ <<NUL>>[1] = NUL
BY CellsAre DEF IsCells

LEMMA TextIsSeq == \A q : q \in Seq(Char) => IsCells(q)
<1> DEFINE S == Char
           T == Cell
<1>1. S \subseteq T
  BY DEF Cell
<1> HIDE DEF S, T
<1>2. \A q : q \in Seq(S) => q \in Seq(T)
  BY <1>1
<1> QED BY <1>2 DEF IsCells, S, T

\* A function on the first numbers is a sequence
LEMMA FunctionIsSeq ==
  ASSUME NEW n \in Nat, NEW f, f = [i \in 1..n |-> f[i]], \A i \in 1..n : f[i] \in Cell
  PROVE  IsCells(f) /\ Len(f) = n
<1>2. [i \in 1..n |-> f[i]] \in [1..n -> Cell]
  OBVIOUS
<1>3. f \in [1..n -> Cell]
  BY <1>2
<1>4. f \in Seq(Cell) /\ Len(f) = n
  BY <1>3
<1> QED BY <1>4 DEF IsCells

\* And a sequence is a function on them
LEMMA SeqIsFunction ==
  ASSUME NEW q, IsCells(q)
  PROVE  /\ q = [i \in 1..Len(q) |-> q[i]] /\ DOMAIN q = 1..Len(q)
         /\ \A i \in 1..Len(q) : q[i] \in Cell
BY DEF IsCells

LEMMA PartIsSeq ==
  ASSUME NEW q, IsCells(q), NEW a \in Nat \ {0}, NEW b \in Nat, b <= Len(q), a <= b + 1
  PROVE  /\ IsCells(SubSeq(q, a, b)) /\ Len(SubSeq(q, a, b)) = b + 1 - a
         /\ \A i \in 1..(b + 1 - a) : SubSeq(q, a, b)[i] = q[a + i - 1]
<1> DEFINE S == Cell
<1>1. q \in Seq(S)
  BY DEF IsCells
<1> HIDE DEF S
<1>2. \A i \in a..b : i \in 1..Len(q)
  BY <1>1
<1>3. SubSeq(q, a, b) \in Seq(S) /\ Len(SubSeq(q, a, b)) = b + 1 - a
      /\ \A i \in 1..(b + 1 - a) : SubSeq(q, a, b)[i] = q[a + i - 1]
  BY <1>1, <1>2
<1> QED BY <1>3 DEF IsCells, S

LEMMA JoinedIsSeq ==
  ASSUME NEW p, IsCells(p), NEW q, IsCells(q)
  PROVE  IsCells(p \o q) /\ Len(p \o q) = Len(p) + Len(q)
<1> DEFINE S == Cell
<1>3. p \in Seq(S) /\ q \in Seq(S)
  BY DEF IsCells
<1> HIDE DEF S
<1>4. p \o q \in Seq(S) /\ Len(p \o q) = Len(p) + Len(q)
  BY <1>3, ConcatProperties
<1> QED BY <1>4 DEF IsCells, S

-----------------------------------------------------------------------------
(* Numbers *)

LEMMA LeastNatural ==
  ASSUME NEW T \in SUBSET Nat, T # {}
  PROVE  \E m \in T : \A n \in T : m <= n
<1> DEFINE R == StrictSubsetOrdering(Nat)
           F == {0 .. n : n \in T}
<1>1. F \subseteq FiniteSubsetsOf(Nat) /\ F # {}
  <2>1. \A n \in T : 0 .. n \in SUBSET Nat /\ IsFiniteSet(0 .. n)
    BY FS_Interval
  <2> QED
    BY <2>1 DEF FiniteSubsetsOf
<1>2. \E x \in F : \A y \in F : ~(<<y, x>> \in R)
  <2> HIDE DEF R, F
  <2>1. IsWellFoundedOn(R, FiniteSubsetsOf(Nat))
    BY FS_StrictSubsetOrderingWellFounded DEF R
  <2> QED
    BY <1>1, <2>1, WFMin
<1>3. PICK m \in T : \A n \in T : ~(<<0 .. n, 0 .. m>> \in R)
  BY <1>2
<1>4. ASSUME NEW n \in T, n < m PROVE FALSE
  <2>1. /\ 0 .. n \in SUBSET Nat /\ 0 .. m \in SUBSET Nat
        /\ 0 .. n \subseteq 0 .. m /\ m \in 0 .. m /\ m \notin 0 .. n
    BY <1>4
  <2>2. <<0 .. n, 0 .. m>> \in R
    BY <2>1 DEF StrictSubsetOrdering
  <2> QED
    BY <1>3, <2>2
<1> QED
  BY <1>4

\* What holds of zero, and of n + 1 whenever it holds of n
LEMMA Induction ==
  ASSUME NEW T \in SUBSET Nat, 0 \in T, \A n \in T : n + 1 \in T
  PROVE  T = Nat
<1> SUFFICES ASSUME Nat \ T # {} PROVE FALSE
  OBVIOUS
<1>1. PICK m \in Nat \ T : \A n \in Nat \ T : m <= n
  BY LeastNatural
<1>2. m - 1 \in T /\ m = (m - 1) + 1
  BY <1>1
<1> QED
  BY <1>1, <1>2

-----------------------------------------------------------------------------
(* The block of the vector *)

Statuses == {"SUCCESS", "INVALID_ARGUMENT", "OUT_OF_RANGE",
             "INSUFFICIENT_BUFFER_SIZE", "FAILED"}

\* A call on an initialised string finds this
Configured == /\ fixed \in BOOLEAN /\ growth_factor \in Nat \ {0}
              /\ shrink_threshold \in Nat

LEMMA MemCpyIs ==
  ASSUME NEW s, NEW p, NEW pos \in Nat, NEW cells, IsCells(p), IsCells(cells)
  PROVE  /\ IsCells(V(s)!MemCpy(p, pos, cells))
         /\ Len(V(s)!MemCpy(p, pos, cells)) = Len(p)
         /\ \A i \in 1..Len(p) : V(s)!MemCpy(p, pos, cells)[i]
              = IF i \in (pos + 1)..(pos + Len(cells)) THEN cells[i - pos] ELSE p[i]
<1> DEFINE f == V(s)!MemCpy(p, pos, cells)
<1>1. Len(p) \in Nat
  BY SeqLength
<1>2. f = [i \in 1..Len(p) |-> IF i \in (pos + 1)..(pos + Len(cells))
                                 THEN cells[i - pos] ELSE p[i]]
  BY DEF V!MemCpy
<1>3. f = [i \in 1..Len(p) |-> f[i]]
  BY <1>2
<1>4. \A i \in 1..Len(p) : f[i] = IF i \in (pos + 1)..(pos + Len(cells))
                                    THEN cells[i - pos] ELSE p[i]
  BY <1>2
<1> HIDE DEF f
<1>5. \A i \in 1..Len(p) : f[i] \in Cell
  <2>1. \A i \in 1..Len(p) : i \in (pos + 1)..(pos + Len(cells)) => i - pos \in 1..Len(cells)
    BY <1>1, SeqLength
  <2> QED BY <1>4, <2>1, SeqIsFunction
<1>6. IsCells(f) /\ Len(f) = Len(p)
  BY <1>1, <1>3, <1>5, FunctionIsSeq
<1> QED BY <1>4, <1>6 DEF f

LEMMA MemMoveIs ==
  ASSUME NEW s, NEW p, NEW dst \in Nat, NEW src \in Nat, NEW n \in Nat,
         IsCells(p), src + n <= Len(p)
  PROVE  /\ IsCells(V(s)!MemMove(p, dst, src, n))
         /\ Len(V(s)!MemMove(p, dst, src, n)) = Len(p)
         /\ \A i \in 1..Len(p) : V(s)!MemMove(p, dst, src, n)[i]
              = IF i \in (dst + 1)..(dst + n) THEN p[i - dst + src] ELSE p[i]
<1> DEFINE f == V(s)!MemMove(p, dst, src, n)
<1>1. Len(p) \in Nat
  BY SeqLength
<1>2. f = [i \in 1..Len(p) |-> IF i \in (dst + 1)..(dst + n)
                                 THEN p[i - dst + src] ELSE p[i]]
  BY DEF V!MemMove
<1>3. f = [i \in 1..Len(p) |-> f[i]]
  BY <1>2
<1>4. \A i \in 1..Len(p) : f[i] = IF i \in (dst + 1)..(dst + n)
                                    THEN p[i - dst + src] ELSE p[i]
  BY <1>2
<1> HIDE DEF f
<1>5. \A i \in 1..Len(p) : f[i] \in Cell
  <2>1. \A i \in 1..Len(p) : i \in (dst + 1)..(dst + n) => i - dst + src \in 1..Len(p)
    BY <1>1
  <2> QED BY <1>4, <2>1, SeqIsFunction
<1>6. IsCells(f) /\ Len(f) = Len(p)
  BY <1>1, <1>3, <1>5, FunctionIsSeq
<1> QED BY <1>4, <1>6 DEF f

LEMMA OutcomeIs == ASSUME NEW x PROVE Outcome({x}) = x
<1>1. \E y \in {x} : TRUE
  OBVIOUS
<1>2. (CHOOSE y \in {x} : TRUE) \in {x}
  BY <1>1
<1> QED BY <1>2 DEF Outcome

\* What becomes of the block p when room for n cells is made
Room(r, p, n) ==
  /\ IsCells(r.p) /\ Len(r.p) >= 1 /\ r.status \in Statuses
  /\ r.status = "SUCCESS" => Len(r.p) >= n
  /\ r.p = p \/ Len(r.p) >= n
  /\ \A i \in 1..Len(r.p) : i <= Len(p) => r.p[i] = p[i]

LEMMA KeptRoom ==
  ASSUME NEW s, NEW p, IsCells(p), Len(p) >= 1, NEW n \in Nat, Len(p) >= n
  PROVE  Room(Outcome(V(s)!Kept(p)), p, n)
<1> DEFINE r == [status |-> "SUCCESS", capacity |-> Len(s.data), p |-> p]
<1>1. V(s)!Kept(p) = {r}
  BY DEF V!Kept
<1>2. r.p = p /\ r.status = "SUCCESS"
  OBVIOUS
<1> HIDE DEF r
<1>3. Outcome(V(s)!Kept(p)) = r
  BY <1>1, OutcomeIs
<1> QED BY <1>2, <1>3 DEF Room, Statuses

\* The capacity is the length of the block
LEMMA ReallocateRoom ==
  ASSUME Configured, NEW s, NEW p, IsCells(p), Len(p) >= 1, Len(p) = Len(s.data),
         NEW m \in Nat, NEW n \in Nat, n <= m
  PROVE  Room(Outcome(V(s)!Reallocate(p, m)), p, n)
<1>0. Len(p) \in Nat
  BY SeqLength
<1>1. CASE fixed
  <2> DEFINE r == [status |-> IF Len(s.data) < m THEN "INSUFFICIENT_BUFFER_SIZE"
                                                 ELSE "SUCCESS",
                   capacity |-> Len(s.data), p |-> p]
  <2>1. V(s)!Reallocate(p, m) = {r}
    BY <1>1 DEF V!Reallocate
  <2>2. r.p = p /\ r.status \in Statuses /\ (r.status = "SUCCESS" => Len(p) >= n)
    BY <1>0 DEF Statuses
  <2> HIDE DEF r
  <2>3. Outcome(V(s)!Reallocate(p, m)) = r
    BY <2>1, OutcomeIs
  <2> QED BY <2>2, <2>3 DEF Room
<1>2. CASE ~fixed /\ m < 1 /\ Len(s.data) <= 1
  <2> DEFINE r == [status |-> "SUCCESS", capacity |-> Len(s.data), p |-> p]
  <2>1. V(s)!Reallocate(p, m) = {r}
    BY <1>2 DEF V!Reallocate, V!MinCapacity
  <2>2. r.p = p /\ r.status = "SUCCESS" /\ Len(p) >= n
    BY <1>0, <1>2
  <2> HIDE DEF r
  <2>3. Outcome(V(s)!Reallocate(p, m)) = r
    BY <2>1, OutcomeIs
  <2> QED BY <2>2, <2>3 DEF Room, Statuses
<1>3. CASE ~fixed /\ ~(m < 1 /\ Len(s.data) <= 1)
  <2> DEFINE c == IF m >= 1 THEN m ELSE 1
             f == [i \in 1..c |-> IF i <= Len(p) THEN p[i] ELSE Undef]
             x == [status |-> "SUCCESS", p |-> f]
             r == [status |-> "SUCCESS", capacity |-> c, p |-> f]
  <2>1. V(s)!Realloc(p, c) = {x}
    BY DEF V!Realloc, V!MayRefuse, V!Resized
  <2>2. V(s)!Max2(m, V(s)!MinCapacity) = c
    BY DEF V!Max2, V!MinCapacity
  <2>3. V(s)!Reallocate(p, m)
          = {[status |-> y.status, capacity |-> c, p |-> y.p] : y \in V(s)!Realloc(p, c)}
    BY <1>3, <2>2, Zenon DEF V!Reallocate, V!MinCapacity
  <2>4. V(s)!Reallocate(p, m) = {r}
    <3>1. [status |-> x.status, capacity |-> c, p |-> x.p] = r
      OBVIOUS
    <3> HIDE DEF x, r, c
    <3>2. {[status |-> y.status, capacity |-> c, p |-> y.p] : y \in {x}} = {r}
      BY <3>1
    <3> QED BY <2>1, <2>3, <3>2
  <2>5. c \in Nat /\ c >= 1 /\ c >= n
    OBVIOUS
  <2>6. r.status = "SUCCESS" /\ r.p = f
    OBVIOUS
  <2> HIDE DEF r, c
  <2>7. f = [i \in 1..c |-> f[i]] /\ \A i \in 1..c : i <= Len(p) => f[i] = p[i]
    OBVIOUS
  <2>10. \A i \in 1..c : f[i] \in Cell
    <3>1. \A i \in 1..c : f[i] = IF i <= Len(p) THEN p[i] ELSE Undef
      OBVIOUS
    <3> HIDE DEF f
    <3>2. \A i \in 1..c : i <= Len(p) => i \in 1..Len(p)
      BY <1>0, <2>5
    <3> QED BY <3>1, <3>2, SeqIsFunction, CellsAre
  <2> HIDE DEF f
  <2>8. IsCells(f) /\ Len(f) = c
    BY <2>5, <2>7, <2>10, FunctionIsSeq
  <2>9. Outcome(V(s)!Reallocate(p, m)) = r
    BY <2>4, OutcomeIs
  <2> QED BY <2>5, <2>6, <2>7, <2>8, <2>9 DEF Room, Statuses
<1> QED BY <1>1, <1>2, <1>3 DEF Configured

\* A multiple of what is needed is enough
LEMMA Requests ==
  ASSUME Configured, NEW s, NEW n \in Nat
  PROVE  /\ n * growth_factor \in Nat /\ n <= n * growth_factor
         /\ V(s)!Max2(1, n * growth_factor) \in Nat
         /\ n <= V(s)!Max2(1, n * growth_factor)
<1>1. PICK g \in Nat : growth_factor = g + 1
  BY DEF Configured
<1>2. n * growth_factor = n * g + n /\ n * g \in Nat
  BY <1>1
<1> QED BY <1>2 DEF V!Max2

LEMMA GrowToRoom ==
  ASSUME Configured, NEW s, IsCells(s.data), Len(s.data) >= 1, NEW n \in Nat
  PROVE  Room(Outcome(V(s)!GrowTo(n)), s.data, n)
<1>1. CASE n > Len(s.data)
  <2>1. V(s)!GrowTo(n) = V(s)!Reallocate(s.data, V(s)!Max2(1, n * growth_factor))
    BY <1>1 DEF V!GrowTo, V!ShouldGrow
  <2> QED BY <2>1, Requests, ReallocateRoom
<1>2. CASE ~(n > Len(s.data))
  <2>1. V(s)!GrowTo(n) = V(s)!Kept(s.data)
    BY <1>2 DEF V!GrowTo, V!ShouldGrow
  <2>2. Len(s.data) >= n
    BY <1>2, SeqLength
  <2> QED BY <2>1, <2>2, KeptRoom
<1> QED BY <1>1, <1>2

LEMMA ShrinkToRoom ==
  ASSUME Configured, NEW s, NEW p, IsCells(p), Len(p) >= 1, Len(p) = Len(s.data),
         NEW n \in Nat, n <= Len(p)
  PROVE  Room(Outcome(V(s)!ShrinkTo(p, n)), p, n)
<1>1. CASE V(s)!ShouldShrink(n)
  <2>1. V(s)!ShrinkTo(p, n) = V(s)!Reallocate(p, V(s)!Max2(1, n * growth_factor))
    BY <1>1 DEF V!ShrinkTo
  <2> QED BY <2>1, Requests, ReallocateRoom
<1>2. CASE ~V(s)!ShouldShrink(n)
  <2>1. V(s)!ShrinkTo(p, n) = V(s)!Kept(p)
    BY <1>2 DEF V!ShrinkTo
  <2>2. Len(p) >= n
    BY SeqLength
  <2> QED BY <2>1, <2>2, KeptRoom
<1> QED BY <1>1, <1>2

LEMMA ResizeRoom ==
  ASSUME Configured, NEW s, IsCells(s.data), Len(s.data) >= 1, s.size <= Len(s.data),
         NEW n \in Nat
  PROVE  Room(VectorResize(s, n), s.data, n)
<1>0. Len(s.data) \in Nat
  BY SeqLength
<1>1. CASE n = s.size
  <2>1. Len(s.data) >= n
    BY <1>0, <1>1
  <2> QED BY <1>1, <2>1, KeptRoom DEF VectorResize
<1>2. CASE n # s.size
  <2>1. VectorResize(s, n) = Outcome(V(s)!Resizing(n))
    BY <1>2 DEF VectorResize
  <2>2. CASE V(s)!ShouldGrow(n) \/ V(s)!ShouldShrink(n)
    <3>1. V(s)!Resizing(n) = V(s)!Reallocate(s.data, n * growth_factor)
      BY <2>2 DEF V!Resizing
    <3> QED BY <2>1, <3>1, Requests, ReallocateRoom
  <2>3. CASE ~(V(s)!ShouldGrow(n) \/ V(s)!ShouldShrink(n))
    <3>1. V(s)!Resizing(n) = V(s)!Kept(s.data)
      BY <2>3 DEF V!Resizing
    <3>2. ~(n > Len(s.data))
      BY <2>3 DEF V!ShouldGrow
    <3>3. Len(s.data) >= n
      BY <1>0, <3>2
    <3> QED BY <2>1, <3>1, <3>3, KeptRoom
  <2> QED BY <2>2, <2>3
<1> QED BY <1>1, <1>2

-----------------------------------------------------------------------------
(* Strings *)

\* A string that a call may be given, and that it has to leave
IsString(s) ==
  /\ s = [data |-> s.data, size |-> s.size, status |-> s.status]
  /\ IsCells(s.data) /\ s.size \in 1..Len(s.data) /\ s.data[s.size] = NUL
  /\ s.status \in Statuses

LEMMA StringNumbers ==
  ASSUME NEW s, IsString(s)
  PROVE  /\ s.size \in Nat /\ s.size >= 1 /\ Len(s.data) \in Nat
         /\ s.size <= Len(s.data) /\ Len(s.data) >= 1
BY SeqLength DEF IsString

LEMMA MadeString ==
  ASSUME NEW d, IsCells(d), NEW n \in 1..Len(d), d[n] = NUL, NEW why \in Statuses
  PROVE  /\ IsString([data |-> d, size |-> n, status |-> why])
         /\ [data |-> d, size |-> n, status |-> why].data = d
         /\ [data |-> d, size |-> n, status |-> why].size = n
         /\ [data |-> d, size |-> n, status |-> why].status = why
<1> DEFINE s == [data |-> d, size |-> n, status |-> why]
<1>1. s.data = d /\ s.size = n /\ s.status = why
  OBVIOUS
<1>2. s = [data |-> s.data, size |-> s.size, status |-> s.status]
  BY <1>1
<1> HIDE DEF s
<1>3. IsString(s)
  BY <1>1, <1>2 DEF IsString
<1> QED BY <1>1, <1>3 DEF s

\* An EXCEPT of a record of these fields
LEMMA RecordParts ==
  ASSUME NEW s, s = [data |-> s.data, size |-> s.size, status |-> s.status],
         NEW d, NEW n, NEW why
  PROVE  /\ [s EXCEPT !.data = d] = [data |-> d, size |-> s.size, status |-> s.status]
         /\ [s EXCEPT !.size = n] = [data |-> s.data, size |-> n, status |-> s.status]
         /\ [s EXCEPT !.status = why]
              = [data |-> s.data, size |-> s.size, status |-> why]
         /\ [s EXCEPT !.data = d, !.size = n]
              = [data |-> d, size |-> n, status |-> s.status]
<1> DEFINE a == s.data
           b == s.size
           c == s.status
<1>1. s = [data |-> a, size |-> b, status |-> c]
  OBVIOUS
<1> HIDE DEF a, b, c
<1>2. [s EXCEPT !.data = d] = [data |-> d, size |-> b, status |-> c]
  BY <1>1
<1>3. [s EXCEPT !.size = n] = [data |-> a, size |-> n, status |-> c]
  BY <1>1
<1>4. [s EXCEPT !.status = why] = [data |-> a, size |-> b, status |-> why]
  BY <1>1
<1> DEFINE x == [s EXCEPT !.data = d]
<1>5. x = [data |-> d, size |-> b, status |-> c]
  BY <1>2
<1> HIDE DEF x
<1>6. [x EXCEPT !.size = n] = [data |-> d, size |-> n, status |-> c]
  BY <1>5
<1> QED BY <1>2, <1>3, <1>4, <1>6 DEF a, b, c, x

LEMMA FailsIs ==
  ASSUME NEW s, IsString(s), NEW why \in Statuses
  PROVE  IsString(Fails(s, why)) /\ Fails(s, why).status = why
<1>1. Fails(s, why) = [data |-> s.data, size |-> s.size, status |-> why]
  BY RecordParts DEF Fails, IsString
<1> QED BY <1>1, MadeString DEF IsString

\* p, but for the characters that are written to pos, and a NUL
Written(d, p, pos, chars, n) ==
  /\ IsCells(d) /\ Len(d) = Len(p)
  /\ \A i \in 1..Len(p) : d[i]
       = IF i = n THEN NUL
         ELSE IF i \in (pos + 1)..(pos + Len(chars)) THEN chars[i - pos]
         ELSE p[i]

LEMMA WrittenIs ==
  ASSUME NEW s, NEW p, NEW pos \in Nat, NEW chars, NEW n \in Nat \ {0},
         IsCells(p), IsCells(chars), n <= Len(p)
  PROVE  Written(V(s)!MemCpy(V(s)!MemCpy(p, pos, chars), n - 1, <<NUL>>),
                 p, pos, chars, n)
<1> DEFINE w == V(s)!MemCpy(p, pos, chars)
           d == V(s)!MemCpy(w, n - 1, <<NUL>>)
<1>1. Len(p) \in Nat /\ Len(chars) \in Nat
  BY SeqLength
<1>5. /\ IsCells(w) /\ Len(w) = Len(p)
      /\ \A i \in 1..Len(p) : w[i]
           = IF i \in (pos + 1)..(pos + Len(chars)) THEN chars[i - pos] ELSE p[i]
  BY MemCpyIs
<1> HIDE DEF w
<1>6. /\ IsCells(d) /\ Len(d) = Len(p)
      /\ \A i \in 1..Len(p) : d[i]
           = IF i \in ((n - 1) + 1)..((n - 1) + Len(<<NUL>>))
               THEN <<NUL>>[i - (n - 1)] ELSE w[i]
  <2> DEFINE nul == <<NUL>>
             m == n - 1
  <2>1. d = V(s)!MemCpy(w, m, nul)
    OBVIOUS
  <2>3. m \in Nat /\ IsCells(nul)
    BY EndIsSeq
  <2> HIDE DEF nul, m, d
  <2>2. /\ IsCells(d) /\ Len(d) = Len(w)
        /\ \A i \in 1..Len(w) : d[i]
             = IF i \in (m + 1)..(m + Len(nul)) THEN nul[i - m] ELSE w[i]
    BY <1>5, <2>1, <2>3, MemCpyIs
  <2> QED BY <1>5, <2>2 DEF nul, m
<1> HIDE DEF d
<1>7. \A i \in 1..Len(p) : d[i] = IF i = n THEN NUL ELSE w[i]
  <2>1. ASSUME NEW i \in 1..Len(p)
        PROVE  d[i] = IF i = n THEN NUL ELSE w[i]
    <3>1. Len(<<NUL>>) = 1 /\ <<NUL>>[1] = NUL
      OBVIOUS
    <3>2. i \in ((n - 1) + 1)..((n - 1) + 1) <=> i = n
      BY <1>1
    <3>3. i = n => i - (n - 1) = 1
      BY <1>1
    <3> QED BY <1>6, <3>1, <3>2, <3>3
  <2> QED BY <2>1
<1>10. \A i \in 1..Len(p) : d[i]
         = IF i = n THEN NUL
           ELSE IF i \in (pos + 1)..(pos + Len(chars)) THEN chars[i - pos] ELSE p[i]
  BY <1>5, <1>7
<1>11. Written(d, p, pos, chars, n)
  BY <1>6, <1>10 DEF Written
<1> QED BY <1>11 DEF d, w

\* What Store makes of characters that fit
LEMMA StoreIs ==
  ASSUME NEW s, s = [data |-> s.data, size |-> s.size, status |-> s.status],
         s.status \in Statuses, NEW p, IsCells(p), NEW pos \in Nat, NEW chars,
         IsCells(chars), NEW n \in Nat \ {0},
         n <= Len(p), pos + Len(chars) <= Len(p)
  PROVE  LET t == Store(s, p, pos, chars, n) IN
           /\ IsString(t) /\ t.size = n /\ t.status = s.status
           /\ Len(t.data) = Len(p)
           /\ \A i \in 1..Len(p) : t.data[i]
                = IF i = n THEN NUL
                  ELSE IF i \in (pos + 1)..(pos + Len(chars)) THEN chars[i - pos]
                  ELSE p[i]
<1> DEFINE d == V(s)!MemCpy(V(s)!MemCpy(p, pos, chars), n - 1, <<NUL>>)
<1>1. Len(p) \in Nat /\ Len(chars) \in Nat
  BY SeqLength
<1>2. V(s)!InBlock(p, pos, Len(chars)) /\ V(s)!InBlock(p, n - 1, 1)
  BY <1>1 DEF V!InBlock
<1>3. Store(s, p, pos, chars, n) = [s EXCEPT !.data = d, !.size = n]
  BY <1>2 DEF Store
<1>4. Store(s, p, pos, chars, n) = [data |-> d, size |-> n, status |-> s.status]
  BY <1>3, RecordParts
<1>5. Written(d, p, pos, chars, n)
  BY WrittenIs
<1> HIDE DEF d
<1>6. /\ IsCells(d) /\ Len(d) = Len(p)
      /\ \A i \in 1..Len(p) : d[i]
           = IF i = n THEN NUL
             ELSE IF i \in (pos + 1)..(pos + Len(chars)) THEN chars[i - pos] ELSE p[i]
  BY <1>5 DEF Written
<1>8. n \in 1..Len(d) /\ d[n] = NUL
  BY <1>1, <1>6
<1>9. LET t == [data |-> d, size |-> n, status |-> s.status] IN
        IsString(t) /\ t.data = d /\ t.size = n /\ t.status = s.status
  BY <1>6, <1>8, MadeString
<1> QED BY <1>4, <1>6, <1>9

\* The call to the vector before it: room for what is stored
LEMMA StoredInRoom ==
  ASSUME NEW s, IsString(s), NEW n \in Nat \ {0}, NEW r, Room(r, s.data, n),
         r.status = "SUCCESS", NEW pos \in Nat, NEW chars, IsCells(chars),
         pos + Len(chars) <= n
  PROVE  LET t == Store(s, r.p, pos, chars, n) IN
           /\ IsString(t) /\ t.size = n /\ t.status = s.status /\ Len(t.data) >= n
<1>1. IsCells(r.p) /\ Len(r.p) \in Nat /\ n <= Len(r.p)
  BY SeqLength DEF Room
<1>2. pos + Len(chars) <= Len(r.p)
  BY <1>1, SeqLength
<1>3. s = [data |-> s.data, size |-> s.size, status |-> s.status] /\ s.status \in Statuses
  BY DEF IsString
<1> QED BY <1>1, <1>2, <1>3, StoreIs

-----------------------------------------------------------------------------
(* Memory management *)

LEMMA ResizeToIs ==
  ASSUME Configured, NEW s, IsString(s), NEW n \in Nat \ {0}
  PROVE  LET t == ResizeTo(s, n) IN
           /\ IsString(t)
           /\ t.status = "SUCCESS" => t.size = n /\ Len(t.data) >= n
<1> DEFINE r == VectorResize(s, n)
<1>1. Room(r, s.data, n)
  BY ResizeRoom, StringNumbers DEF IsString
<1> HIDE DEF r
<1>2. CASE s.status # "SUCCESS"
  BY <1>2 DEF ResizeTo
<1>3. CASE s.status = "SUCCESS" /\ r.status # "SUCCESS"
  <2>1. ResizeTo(s, n) = Fails(s, r.status) /\ r.status \in Statuses
    BY <1>1, <1>3 DEF ResizeTo, r, Room
  <2> QED BY <1>3, <2>1, FailsIs
<1>4. CASE s.status = "SUCCESS" /\ r.status = "SUCCESS"
  <2>1. ResizeTo(s, n) = Store(s, r.p, 0, << >>, n)
    BY <1>4 DEF ResizeTo, r
  <2> DEFINE none == << >>
             t == Store(s, r.p, 0, none, n)
  <2>2. 0 \in Nat /\ IsCells(none) /\ 0 + Len(none) <= n
    BY NothingIsSeq
  <2> HIDE DEF none
  <2>3. IsString(t) /\ t.size = n /\ t.status = s.status /\ Len(t.data) >= n
    BY <1>1, <1>4, <2>2, StoredInRoom
  <2> HIDE DEF t
  <2> QED BY <1>4, <2>1, <2>3 DEF none, t
<1> QED BY <1>2, <1>3, <1>4

LEMMA ResizeIs ==
  ASSUME Configured, NEW s, IsString(s), NEW n \in Nat
  PROVE  IsString(Resize(s, n))
<1>1. n + 1 \in Nat \ {0}
  OBVIOUS
<1>2. Resize(s, n) = ResizeTo(s, n + 1)
  BY DEF Resize
<1>3. IsString(ResizeTo(s, n + 1))
  BY <1>1, ResizeToIs
<1> QED BY <1>2, <1>3

LEMMA MovedIs ==
  ASSUME NEW s, IsString(s), NEW r, Room(r, s.data, s.size)
  PROVE  IsString(Moved(s, r))
<1>1. Moved(s, r) = [data |-> r.p, size |-> s.size, status |-> r.status]
  <2> DEFINE d == r.p
             why == r.status
  <2>1. Moved(s, r) = [s EXCEPT !.data = d, !.status = why]
    BY DEF Moved
  <2> DEFINE n == s.size
             c == s.status
             x == [s EXCEPT !.data = d]
  <2> HIDE DEF d, why
  <2>2. x = [data |-> d, size |-> n, status |-> c]
    BY RecordParts DEF IsString
  <2> HIDE DEF n, c, x
  <2>3. [x EXCEPT !.status = why] = [data |-> d, size |-> n, status |-> why]
    BY <2>2
  <2> QED BY <2>1, <2>3 DEF d, why, n, x
<1>2. Len(r.p) \in Nat /\ s.size \in Nat /\ s.size >= 1 /\ s.size <= Len(s.data)
  BY SeqLength, StringNumbers DEF Room
<1>3. s.size <= Len(r.p)
  BY <1>2 DEF Room
<1>4. s.size \in 1..Len(r.p) /\ s.size \in 1..Len(s.data) /\ r.p[s.size] = NUL
  BY <1>2, <1>3 DEF Room, IsString
<1> QED BY <1>1, <1>4, MadeString DEF Room

LEMMA ReserveIs ==
  ASSUME Configured, NEW s, IsString(s), NEW c \in Nat
  PROVE  IsString(Reserve(s, c))
<1> DEFINE r == Outcome(V(s)!Reserving(c))
<1>1. IsCells(s.data) /\ Len(s.data) >= 1 /\ Len(s.data) \in Nat /\ s.size \in Nat
      /\ s.size <= Len(s.data)
  BY StringNumbers DEF IsString
<1>2. Room(r, s.data, s.size)
  <2>1. CASE c > Len(s.data)
    <3>1. V(s)!Reserving(c) = V(s)!Reallocate(s.data, c) /\ s.size <= c
      BY <1>1, <2>1 DEF V!Reserving
    <3> QED BY <1>1, <3>1, ReallocateRoom
  <2>2. CASE ~(c > Len(s.data))
    <3>1. V(s)!Reserving(c) = V(s)!Kept(s.data)
      BY <2>2 DEF V!Reserving
    <3> QED BY <1>1, <3>1, KeptRoom
  <2> QED BY <2>1, <2>2
<1> HIDE DEF r
<1>3. Reserve(s, c) = Moved(s, r)
  BY DEF Reserve, r
<1> QED BY <1>2, <1>3, MovedIs

LEMMA ShrinkToFitIs ==
  ASSUME Configured, NEW s, IsString(s)
  PROVE  IsString(ShrinkToFit(s))
<1>1. IsCells(s.data) /\ Len(s.data) >= 1 /\ s.size \in Nat /\ s.size <= s.size
  BY StringNumbers DEF IsString
<1>2. Room(Outcome(V(s)!Reallocate(s.data, s.size)), s.data, s.size)
  BY <1>1, ReallocateRoom
<1> QED BY <1>2, MovedIs DEF ShrinkToFit

LEMMA ClearIs ==
  ASSUME Configured, NEW s, IsString(s), s.status = "SUCCESS"
  PROVE  IsString(Clear(s))
<1> DEFINE r == VectorResize(s, 0)
<1>1. Room(r, s.data, 0)
  BY ResizeRoom, StringNumbers DEF IsString
<1> HIDE DEF r
<1>2. CASE r.status # "SUCCESS"
  <2>1. Clear(s) = Fails(s, r.status) /\ r.status \in Statuses
    BY <1>1, <1>2 DEF Clear, r, Room
  <2> QED BY <2>1, FailsIs
<1>3. CASE r.status = "SUCCESS"
  <2>1. Clear(s) = Store(s, r.p, 0, << >>, 1)
    BY <1>3 DEF Clear, r
  <2> DEFINE none == << >>
             t == Store(s, r.p, 0, none, 1)
  <2>2. 0 \in Nat /\ IsCells(none) /\ 0 + Len(none) <= 1 /\ 1 \in Nat \ {0}
    BY NothingIsSeq
  <2> HIDE DEF none
  <2>3. Room(r, s.data, 1)
    <3>1. Len(r.p) >= 1
      BY <1>1 DEF Room
    <3> QED BY <1>1, <3>1 DEF Room
  <2>4. IsString(t)
    BY <1>3, <2>2, <2>3, StoredInRoom
  <2> HIDE DEF t
  <2> QED BY <2>1, <2>4 DEF none, t
<1> QED BY <1>2, <1>3

-----------------------------------------------------------------------------
(* Insertion and appending *)

IsView(v) == v.size \in Nat /\ IsCells(v.data) /\ v.size <= Len(v.data) + 1

LEMMA ShownIs ==
  ASSUME NEW v, IsView(v), v.size # 0
  PROVE  IsCells(Shown(v)) /\ Len(Shown(v)) = v.size - 1
<1>1. v.size - 1 \in Nat /\ v.size - 1 <= Len(v.data) /\ IsCells(v.data)
  BY SeqLength DEF IsView
<1> DEFINE n == v.size - 1
           q == v.data
<1>2. n \in Nat /\ n <= Len(q) /\ IsCells(q) /\ 1 \in Nat \ {0}
  BY <1>1
<1> HIDE DEF n, q
<1>3. 1 <= n + 1 /\ n + 1 - 1 = n
  BY <1>2
<1>4. IsCells(SubSeq(q, 1, n)) /\ Len(SubSeq(q, 1, n)) = n + 1 - 1
  BY <1>2, <1>3, PartIsSeq
<1> QED BY <1>3, <1>4, Zenon DEF Shown, ViewGetData, ViewGetSize, n, q

LEMMA PartShown ==
  ASSUME NEW v, IsView(v), NEW i \in Nat, NEW n \in Nat, ~(i + n >= v.size)
  PROVE  IsCells(SubSeq(v.data, i + 1, i + n))
<1>1. IsCells(v.data) /\ i + n <= Len(v.data) /\ i + 1 <= (i + n) + 1
      /\ i + 1 \in Nat \ {0} /\ i + n \in Nat
  BY SeqLength DEF IsView
<1> QED BY <1>1, PartIsSeq

LEMMA AppendCharsIs ==
  ASSUME Configured, NEW s, IsString(s), NEW chars, IsCells(chars)
  PROVE  IsString(AppendChars(s, chars))
<1> DEFINE n == s.size + Len(chars)
           r == VectorResize(s, n)
<1>1. /\ n \in Nat \ {0} /\ Len(chars) \in Nat /\ s.size - 1 \in Nat
      /\ (s.size - 1) + Len(chars) <= n
  BY StringNumbers, SeqLength
<1> HIDE DEF n
<1>2. Room(r, s.data, n)
  BY <1>1, ResizeRoom, StringNumbers DEF IsString
<1> HIDE DEF r
<1>3. AppendChars(s, chars) = IF s.status # "SUCCESS" THEN s
                              ELSE IF r.status # "SUCCESS" THEN Fails(s, r.status)
                              ELSE Store(s, r.p, s.size - 1, chars, n)
  BY DEF AppendChars, n, r
<1>4. CASE s.status # "SUCCESS"
  BY <1>3, <1>4
<1>5. CASE s.status = "SUCCESS" /\ r.status # "SUCCESS"
  <2>1. IsString(Fails(s, r.status))
    BY <1>2, FailsIs DEF Room
  <2> QED BY <1>3, <1>5, <2>1
<1>6. CASE s.status = "SUCCESS" /\ r.status = "SUCCESS"
  <2>1. IsString(Store(s, r.p, s.size - 1, chars, n))
    BY <1>1, <1>2, <1>6, StoredInRoom
  <2> QED BY <1>3, <1>6, <2>1
<1> QED BY <1>4, <1>5, <1>6

LEMMA Reasons == /\ "INVALID_ARGUMENT" \in Statuses /\ "OUT_OF_RANGE" \in Statuses
                 /\ "FAILED" \in Statuses /\ "SUCCESS" \in Statuses
                 /\ "INSUFFICIENT_BUFFER_SIZE" \in Statuses
BY DEF Statuses

LEMMA StringAppendIs ==
  ASSUME Configured, NEW s, IsString(s), NEW v, IsView(v)
  PROVE  IsString(StringAppend(s, v))
<1>1. IsString(Fails(s, "INVALID_ARGUMENT"))
  BY Reasons, FailsIs
<1>2. v.size # 0 => IsString(AppendChars(s, Shown(v)))
  BY ShownIs, AppendCharsIs
<1> QED BY <1>1, <1>2 DEF StringAppend

LEMMA AppendExIs ==
  ASSUME Configured, NEW s, IsString(s), NEW v, IsView(v), NEW i \in Nat, NEW n \in Nat
  PROVE  IsString(AppendEx(s, v, i, n))
<1>1. IsString(Fails(s, "INVALID_ARGUMENT")) /\ IsString(Fails(s, "OUT_OF_RANGE"))
  BY Reasons, FailsIs
<1>2. ~(i + n >= v.size) => IsString(AppendChars(s, SubSeq(v.data, i + 1, i + n)))
  BY PartShown, AppendCharsIs
<1> QED BY <1>1, <1>2 DEF AppendEx

\* The NUL moves with the characters behind the index
LEMMA InsertCharsIs ==
  ASSUME Configured, NEW s, IsString(s), NEW index \in Nat, index < s.size,
         NEW chars, IsCells(chars)
  PROVE  IsString(InsertChars(s, index, chars))
<1> DEFINE count == Len(chars)
           n == s.size + count
           r == Outcome(V(s)!GrowTo(n))
           moved == V(s)!ShiftRight(r.p, index, count)
           d == V(s)!MemCpy(moved, index, chars)
<1>1. /\ count \in Nat /\ n \in Nat /\ s.size \in Nat /\ s.size >= 1 /\ n >= s.size
      /\ s.size <= Len(s.data) /\ Len(s.data) \in Nat /\ Len(s.data) >= 1
      /\ IsCells(s.data) /\ s.data[s.size] = NUL
  BY SeqLength, StringNumbers DEF IsString
<1>2. Room(r, s.data, n)
  BY <1>1, GrowToRoom
<1>3. InsertChars(s, index, chars)
        = IF count = 0 THEN Fails(s, "INVALID_ARGUMENT")
          ELSE IF r.status # "SUCCESS" THEN Fails(s, r.status)
          ELSE IF ~V(s)!InBlock(r.p, index, s.size - index + count)
            THEN Fails(s, "OVERRUN")
          ELSE [s EXCEPT !.data = d, !.size = n]
  BY DEF InsertChars
<1> HIDE DEF count, n, r, moved, d
<1>4. CASE count = 0 \/ r.status # "SUCCESS"
  <2>1. IsString(Fails(s, "INVALID_ARGUMENT")) /\ IsString(Fails(s, r.status))
    BY <1>2, Reasons, FailsIs DEF Room
  <2> QED BY <1>3, <1>4, <2>1
<1>5. CASE count # 0 /\ r.status = "SUCCESS"
  <2>1. IsCells(r.p) /\ Len(r.p) \in Nat /\ n <= Len(r.p)
    BY <1>2, <1>5, SeqLength DEF Room
  <2>2. V(s)!InBlock(r.p, index, s.size - index + count)
    BY <1>1, <2>1 DEF V!InBlock, n
  <2>3. InsertChars(s, index, chars) = [s EXCEPT !.data = d, !.size = n]
    BY <1>3, <1>5, <2>2
  <2>4. moved = V(s)!MemMove(r.p, index + count, index, s.size - index)
    BY DEF moved, V!ShiftRight
  <2>5. /\ IsCells(moved) /\ Len(moved) = Len(r.p)
        /\ \A i \in 1..Len(r.p) : moved[i]
             = IF i \in ((index + count) + 1)..((index + count) + (s.size - index))
                 THEN r.p[i - (index + count) + index] ELSE r.p[i]
    <3> DEFINE dst == index + count
               k == s.size - index
    <3>1. moved = V(s)!MemMove(r.p, dst, index, k)
      BY <2>4
    <3>3. dst \in Nat /\ k \in Nat /\ index + k <= Len(r.p)
      BY <1>1, <2>1
    <3> HIDE DEF dst, k
    <3>2. /\ IsCells(moved) /\ Len(moved) = Len(r.p)
          /\ \A i \in 1..Len(r.p) : moved[i]
               = IF i \in (dst + 1)..(dst + k) THEN r.p[i - dst + index] ELSE r.p[i]
      BY <2>1, <3>1, <3>3, MemMoveIs
    <3> QED BY <3>2 DEF dst, k
  <2>6. /\ IsCells(d) /\ Len(d) = Len(r.p)
        /\ \A i \in 1..Len(r.p) : d[i]
             = IF i \in (index + 1)..(index + Len(chars)) THEN chars[i - index]
               ELSE moved[i]
    BY <2>5, MemCpyIs DEF d
  <2>7. n \in 1..Len(r.p)
    BY <1>1, <2>1
  <2>8. d[n] = moved[n]
    <3>1. ~(n \in (index + 1)..(index + Len(chars)))
      BY <1>1 DEF n, count
    <3> QED BY <2>6, <2>7, <3>1
  <2>9. moved[n] = r.p[s.size]
    <3>1. /\ n \in ((index + count) + 1)..((index + count) + (s.size - index))
          /\ n - (index + count) + index = s.size
      BY <1>1, SMTT(30) DEF n
    <3> QED BY <2>5, <2>7, <3>1
  <2>10. r.p[s.size] = NUL
    <3>1. s.size \in 1..Len(r.p)
      BY <1>1, <2>1
    <3> QED BY <1>1, <1>2, <3>1 DEF Room
  <2>11. s = [data |-> s.data, size |-> s.size, status |-> s.status] /\ s.status \in Statuses
    BY DEF IsString
  <2>12. InsertChars(s, index, chars) = [data |-> d, size |-> n, status |-> s.status]
    BY <2>3, <2>11, RecordParts
  <2> QED BY <2>6, <2>7, <2>8, <2>9, <2>10, <2>11, <2>12, MadeString
<1> QED BY <1>4, <1>5

LEMMA InsertIs ==
  ASSUME Configured, NEW s, IsString(s), NEW index \in Nat, NEW v, IsView(v)
  PROVE  IsString(Insert(s, index, v))
<1>1. IsString(Fails(s, "INVALID_ARGUMENT")) /\ IsString(Fails(s, "OUT_OF_RANGE"))
  BY Reasons, FailsIs
<1>2. v.size # 0 /\ index < s.size => IsString(InsertChars(s, index, Shown(v)))
  BY ShownIs, InsertCharsIs
<1>3. index = s.size \/ index > s.size \/ index < s.size
  BY StringNumbers
<1> QED BY <1>1, <1>2, <1>3, StringAppendIs DEF Insert

LEMMA InsertExIs ==
  ASSUME Configured, NEW s, IsString(s), NEW index \in Nat, NEW v, IsView(v),
         NEW i \in Nat, NEW n \in Nat
  PROVE  IsString(InsertEx(s, index, v, i, n))
<1>1. IsString(Fails(s, "INVALID_ARGUMENT")) /\ IsString(Fails(s, "OUT_OF_RANGE"))
  BY Reasons, FailsIs
<1>2. ~(i + n >= v.size) /\ index < s.size
        => IsString(InsertChars(s, index, SubSeq(v.data, i + 1, i + n)))
  BY PartShown, InsertCharsIs
<1>3. index = s.size \/ index > s.size \/ index < s.size
  BY StringNumbers
<1> QED BY <1>1, <1>2, <1>3, AppendExIs DEF InsertEx

-----------------------------------------------------------------------------
(* Deletion *)

LEMMA DeleteIs ==
  ASSUME Configured, NEW s, IsString(s), NEW index \in Nat, NEW count \in Nat
  PROVE  IsString(Delete(s, index, count))
<1> DEFINE n == s.size - count
           p == V(s)!ShiftLeft(s.data, index, count)
           r == Outcome(V(s)!ShrinkTo(p, n))
           none == << >>
<1>1. IsString(Fails(s, "INVALID_ARGUMENT")) /\ IsString(Fails(s, "OUT_OF_RANGE"))
  BY Reasons, FailsIs
<1>2. Delete(s, index, count) = IF index + count >= s.size THEN Fails(s, "OUT_OF_RANGE")
                                ELSE IF count = 0 THEN Fails(s, "INVALID_ARGUMENT")
                                ELSE Store(s, r.p, 0, none, n)
  BY DEF Delete
<1>3. CASE ~(index + count >= s.size)
  <2>1. /\ n \in Nat \ {0} /\ s.size \in Nat /\ Len(s.data) \in Nat /\ Len(s.data) >= 1
        /\ n <= Len(s.data) /\ IsCells(s.data)
    BY <1>3, StringNumbers DEF IsString
  <2>2. IsCells(p) /\ Len(p) = Len(s.data)
    <3> DEFINE src == index + count
               k == s.size - index - count
    <3>1. p = V(s)!MemMove(s.data, index, src, k)
      <4>1. index + count < s.size
        BY <1>3, <2>1
      <4> QED BY <4>1 DEF V!ShiftLeft
    <3> DEFINE q == s.data
    <3>2. IsCells(q) /\ p = V(s)!MemMove(q, index, src, k)
      BY <2>1, <3>1
    <3>4. src \in Nat /\ k \in Nat /\ src + k <= Len(q)
      <4>1. s.size <= Len(s.data)
        BY StringNumbers
      <4> QED BY <1>3, <2>1, <4>1
    <3> HIDE DEF p, src, k, q
    <3>3. IsCells(p) /\ Len(p) = Len(q)
      BY <3>2, <3>4, MemMoveIs
    <3> QED BY <3>3 DEF q
  <2> HIDE DEF p, n
  <2>3. Room(r, p, n)
    BY <2>1, <2>2, ShrinkToRoom
  <2> HIDE DEF r
  <2>4. IsCells(r.p) /\ n <= Len(r.p) /\ Len(r.p) \in Nat
    BY <2>1, <2>2, <2>3, SeqLength DEF Room
  <2>5. 0 \in Nat /\ IsCells(none) /\ 0 + Len(none) <= Len(r.p)
    BY <2>4, NothingIsSeq
  <2> HIDE DEF none
  <2>6. s = [data |-> s.data, size |-> s.size, status |-> s.status] /\ s.status \in Statuses
    BY DEF IsString
  <2>7. IsString(Store(s, r.p, 0, none, n))
    BY <2>1, <2>4, <2>5, <2>6, StoreIs
  <2> QED BY <1>1, <1>2, <2>7
<1> HIDE DEF n, p, r, none
<1>4. CASE index + count >= s.size
  BY <1>1, <1>2, <1>4
<1> QED BY <1>3, <1>4

LEMMA TruncateIs ==
  ASSUME Configured, NEW s, IsString(s), NEW index \in Nat
  PROVE  IsString(Truncate(s, index))
<1>1. CASE index >= s.size
  BY <1>1, Reasons, FailsIs DEF Truncate
<1>2. CASE ~(index >= s.size)
  <2>1. s.size - index - 1 \in Nat
    BY <1>2, StringNumbers
  <2> QED BY <1>2, <2>1, DeleteIs DEF Truncate
<1> QED BY <1>1, <1>2

-----------------------------------------------------------------------------
(* Characters: the NUL is not one of them *)

LEMMA ForEachIs ==
  ASSUME NEW s, IsString(s), NEW index \in Nat, NEW count \in Nat,
         NEW f \in [Char -> Char]
  PROVE  IsString(ForEach(s, index, count, f))
<1>1. CASE index + count >= s.size
  BY <1>1, Reasons, FailsIs DEF ForEach
<1>2. CASE ~(index + count >= s.size)
  <2> DEFINE d == [i \in DOMAIN s.data |->
                     IF i \in (index + 1)..(index + count) /\ s.data[i] # Undef
                       THEN f[s.data[i]] ELSE s.data[i]]
  <2>1. /\ IsCells(s.data) /\ Len(s.data) \in Nat /\ DOMAIN s.data = 1..Len(s.data)
        /\ s.size \in 1..Len(s.data) /\ s.data[s.size] = NUL
        /\ s = [data |-> s.data, size |-> s.size, status |-> s.status]
        /\ s.status \in Statuses
    BY SeqIsFunction, SeqLength DEF IsString
  <2>2. ForEach(s, index, count, f) = [s EXCEPT !.data = d]
    BY <1>2 DEF ForEach
  <2>3. d = [i \in 1..Len(s.data) |-> d[i]]
    BY <2>1
  <2>4. d[s.size] = NUL
    <3>1. ~(s.size \in (index + 1)..(index + count))
      BY <1>2, <2>1
    <3> QED BY <2>1, <3>1
  <2>7. \A i \in 1..Len(s.data) : d[i] \in Cell
    <3>1. \A i \in 1..Len(s.data) : d[i] = s.data[i] \/ (s.data[i] # Undef /\ d[i] = f[s.data[i]])
      BY <2>1
    <3> HIDE DEF d
    <3> QED BY <2>1, <3>1, SeqIsFunction DEF Cell
  <2> HIDE DEF d
  <2>5. IsCells(d) /\ Len(d) = Len(s.data)
    BY <2>1, <2>3, <2>7, FunctionIsSeq
  <2>6. ForEach(s, index, count, f) = [data |-> d, size |-> s.size, status |-> s.status]
    BY <2>1, <2>2, RecordParts
  <2> QED BY <2>1, <2>4, <2>5, <2>6, MadeString
<1> QED BY <1>1, <1>2

LEMMA SetCharIs ==
  ASSUME NEW s, IsString(s), NEW index \in Nat, NEW value \in Char
  PROVE  IsString(SetChar(s, index, value))
<1>1. CASE index + 1 >= s.size
  BY <1>1, Reasons, FailsIs DEF SetChar
<1>2. CASE ~(index + 1 >= s.size)
  <2> DEFINE q == s.data
             d == [q EXCEPT ![index + 1] = value]
  <2>1. /\ IsCells(q) /\ Len(q) \in Nat /\ q = [i \in 1..Len(q) |-> q[i]]
        /\ s.size \in 1..Len(q) /\ q[s.size] = NUL
        /\ s = [data |-> q, size |-> s.size, status |-> s.status]
        /\ s.status \in Statuses
    BY SeqIsFunction, SeqLength DEF IsString
  <2>2. SetChar(s, index, value) = [s EXCEPT !.data = d]
    BY <1>2 DEF SetChar
  <2> HIDE DEF q
  <2>3. d = [i \in 1..Len(q) |-> d[i]] /\ d[s.size] = NUL
    <3>1. s.size # index + 1
      BY <1>2, <2>1
    <3> QED BY <2>1, <3>1
  <2>7. \A i \in 1..Len(q) : d[i] \in Cell
    <3>1. \A i \in 1..Len(q) : d[i] = q[i] \/ d[i] = value
      BY <2>1
    <3> HIDE DEF d
    <3> QED BY <2>1, <3>1, SeqIsFunction DEF Cell
  <2> HIDE DEF d
  <2>4. IsCells(d) /\ Len(d) = Len(q)
    BY <2>1, <2>3, <2>7, FunctionIsSeq
  <2>5. SetChar(s, index, value) = [data |-> d, size |-> s.size, status |-> s.status]
    BY <2>1, <2>2, RecordParts DEF q
  <2>6. IsString([data |-> d, size |-> s.size, status |-> s.status])
    BY <2>1, <2>3, <2>4, MadeString
  <2> QED BY <2>5, <2>6
<1> QED BY <1>1, <1>2

-----------------------------------------------------------------------------
(***************************************************************************)
(* Powers, quotients and nibbles.  The powers of a base exist as functions *)
(* because each is made of the one before it.                              *)
(***************************************************************************)

LEMMA Quotient ==
  ASSUME NEW k \in Nat, NEW d \in Nat \ {0}
  PROVE  /\ k \div d \in Nat /\ d * (k \div d) <= k /\ k < d * (k \div d) + d
OBVIOUS

LEMMA QuotientIs ==
  ASSUME NEW k \in Nat, NEW d \in Nat \ {0}, NEW x \in Nat, d * x <= k, k < d * x + d
  PROVE  k \div d = x
<1> DEFINE y == k \div d
<1>1. y \in Nat /\ d * y <= k /\ k < d * y + d
  BY Quotient
<1> HIDE DEF y
<1>2. ASSUME NEW a \in Nat, NEW b \in Nat, a < b PROVE d * a + d <= d * b
  <2>1. b - a - 1 \in Nat
    BY <1>2
  <2>2. d * (b - a - 1) \in Nat
    BY <2>1
  <2>3. d * b = d * a + d + d * (b - a - 1)
    OBVIOUS
  <2>4. d * a \in Nat /\ d * b \in Nat
    OBVIOUS
  <2> DEFINE u == d * a
             w == d * b
             z == d * (b - a - 1)
  <2>5. u \in Nat /\ w \in Nat /\ z \in Nat /\ w = u + d + z
    BY <2>2, <2>3, <2>4
  <2> HIDE DEF u, w, z
  <2>6. u + d <= w
    BY <2>5
  <2> QED BY <2>6 DEF u, w
<1>3. ~(y < x)
  <2> SUFFICES ASSUME y < x PROVE FALSE
    OBVIOUS
  <2>1. d * y + d <= d * x
    BY <1>1, <1>2
  <2> QED BY <1>1, <2>1
<1>4. ~(x < y)
  <2> SUFFICES ASSUME x < y PROVE FALSE
    OBVIOUS
  <2>1. d * x + d <= d * y
    BY <1>1, <1>2
  <2> QED BY <1>1, <2>1
<1>5. y = x
  BY <1>1, <1>3, <1>4
<1> QED BY <1>5 DEF y

LEMMA HundredFold ==
  ASSUME NEW k \in Nat, NEW b \in Nat \ {0}
  PROVE  (k \div 100) \div b = k \div (100 * b)
<1> DEFINE q == k \div 100
           r == q \div b
           x == b * r
<1>1. q \in Nat /\ 100 * q <= k /\ k < 100 * q + 100
  OBVIOUS
<1> HIDE DEF q
<1>2. r \in Nat /\ x <= q /\ q < x + b
  BY <1>1, Quotient
<1> HIDE DEF r
<1>3. x \in Nat
  BY <1>2
<1>4. (100 * b) * r = 100 * x
  BY <1>2
<1> HIDE DEF x
<1>5. 100 * x <= k /\ k < 100 * x + 100 * b /\ 100 * b \in Nat \ {0}
  BY <1>1, <1>2, <1>3
<1>6. k \div (100 * b) = r
  <2> DEFINE d == 100 * b
  <2>1. d * r <= k /\ k < d * r + d /\ d \in Nat \ {0}
    BY <1>4, <1>5
  <2> HIDE DEF d
  <2>2. k \div d = r
    BY <1>2, <2>1, QuotientIs
  <2> QED BY <2>2 DEF d
<1> QED BY <1>6 DEF r, q

Times(f, base, i) == IF i = 0 THEN 1 ELSE base * f[i - 1]
PowersUpTo(f, base, N) == f = [i \in 0..N |-> Times(f, base, i)]

LEMMA PowersExist == ASSUME NEW base PROVE \A N \in Nat : \E f : PowersUpTo(f, base, N)
<1> DEFINE T == {N \in Nat : \E f : PowersUpTo(f, base, N)}
<1>1. 0 \in T
  <2> DEFINE f == [i \in 0..0 |-> 1]
  <2>1. \A i \in 0..0 : Times(f, base, i) = 1
    BY DEF Times
  <2>2. f = [i \in 0..0 |-> Times(f, base, i)]
    BY <2>1
  <2> HIDE DEF f
  <2> QED BY <2>2 DEF PowersUpTo
<1>2. ASSUME NEW N \in T PROVE N + 1 \in T
  <2>1. PICK f : PowersUpTo(f, base, N)
    OBVIOUS
  <2>2. N \in Nat
    OBVIOUS
  <2> DEFINE last == base * f[N]
             g == [i \in 0..(N + 1) |-> IF i = N + 1 THEN last ELSE f[i]]
  <2>3. \A i \in 0..N : g[i] = f[i]
    BY <2>2
  <2>4. g[N + 1] = last
    BY <2>2
  <2>5. \A i \in 0..N : f[i] = Times(f, base, i)
    BY <2>1, Zenon DEF PowersUpTo
  <2> HIDE DEF g
  <2>6. ASSUME NEW i \in 0..(N + 1) PROVE g[i] = Times(g, base, i)
    <3>1. CASE i = 0
      <4>1. i \in 0..N
        BY <2>2, <3>1
      <4> QED BY <2>3, <2>5, <3>1, <4>1 DEF Times
    <3>2. CASE i \in 1..N
      <4>1. i \in 0..N /\ i - 1 \in 0..N /\ i # 0
        BY <2>2, <3>2
      <4>2. g[i - 1] = f[i - 1] /\ g[i] = f[i] /\ f[i] = base * f[i - 1]
        BY <2>3, <2>5, <4>1 DEF Times
      <4> QED BY <4>1, <4>2 DEF Times
    <3>3. CASE i = N + 1
      <4>1. i # 0 /\ i - 1 = N /\ N \in 0..N
        BY <2>2, <3>3
      <4>2. g[i - 1] = f[N]
        BY <2>3, <4>1
      <4>3. g[i] = base * f[N]
        BY <2>4, <3>3
      <4> QED BY <4>1, <4>2, <4>3 DEF Times
    <3> QED BY <2>2, <3>1, <3>2, <3>3
  <2>7. g = [i \in 0..(N + 1) |-> g[i]]
    BY DEF g
  <2>8. g = [i \in 0..(N + 1) |-> Times(g, base, i)]
    BY <2>6, <2>7
  <2> QED BY <2>2, <2>8 DEF PowersUpTo
<1> HIDE DEF T
<1>3. T = Nat
  BY <1>1, <1>2, Induction DEF T
<1> QED BY <1>3 DEF T

LEMMA PowersAgree ==
  ASSUME NEW base, NEW N \in Nat, NEW f, PowersUpTo(f, base, N),
         NEW M \in Nat, NEW g, PowersUpTo(g, base, M), NEW n \in Nat, n <= N, n <= M
  PROVE  f[n] = g[n]
<1> DEFINE T == {k \in Nat : k <= N /\ k <= M /\ f[k] # g[k]}
<1>1. CASE T = {}
  BY <1>1
<1>2. CASE T # {}
  <2>1. PICK m \in T : \A k \in T : m <= k
    BY <1>2, LeastNatural
  <2>2. m \in Nat /\ m \in 0..N /\ m \in 0..M /\ f[m] # g[m]
    OBVIOUS
  <2>3. f[m] = Times(f, base, m) /\ g[m] = Times(g, base, m)
    BY <2>2, Zenon DEF PowersUpTo
  <2>4. CASE m # 0
    <3>1. m - 1 \in Nat /\ m - 1 < m
      BY <2>2, <2>4
    <3>2. m - 1 \notin T
      BY <2>1, <2>2, <3>1
    <3>3. f[m - 1] = g[m - 1]
      BY <2>2, <3>1, <3>2
    <3> QED BY <2>2, <2>3, <2>4, <3>3 DEF Times
  <2>5. CASE m = 0
    BY <2>2, <2>3, <2>5 DEF Times
  <2> QED BY <2>4, <2>5
<1> QED BY <1>1, <1>2

Powers(base) == CHOOSE f : f = [i \in Nat |-> IF i = 0 THEN 1 ELSE base * f[i - 1]]

LEMMA PowersAre ==
  ASSUME NEW base \in Nat \ {0}
  PROVE  /\ Powers(base)[0] = 1
         /\ \A i \in Nat : Powers(base)[i + 1] = base * Powers(base)[i]
         /\ \A i \in Nat : Powers(base)[i] \in Nat \ {0}
<1> DEFINE upto(N) == CHOOSE f : PowersUpTo(f, base, N)
           p == [i \in Nat |-> upto(i)[i]]
           q == Powers(base)
<1>1. \A N \in Nat : PowersUpTo(upto(N), base, N)
  BY PowersExist
<1> HIDE DEF upto
<1>2. ASSUME NEW i \in Nat PROVE p[i] = Times(p, base, i)
  <2>1. i \in 0..i
    OBVIOUS
  <2>2. upto(i)[i] = Times(upto(i), base, i)
    BY <1>1, <2>1, Zenon DEF PowersUpTo
  <2>3. CASE i # 0
    <3>1. i - 1 \in Nat /\ i - 1 <= i /\ i - 1 <= i - 1
      BY <2>3
    <3>2. upto(i)[i - 1] = upto(i - 1)[i - 1]
      BY <1>1, <3>1, PowersAgree
    <3>3. p[i - 1] = upto(i - 1)[i - 1] /\ p[i] = upto(i)[i]
      BY <3>1
    <3> QED BY <2>2, <2>3, <3>2, <3>3 DEF Times
  <2>4. CASE i = 0
    BY <2>2, <2>4 DEF Times
  <2> QED BY <2>3, <2>4
<1>3. p = [i \in Nat |-> p[i]]
  OBVIOUS
<1> HIDE DEF p
<1>4. p = [i \in Nat |-> IF i = 0 THEN 1 ELSE base * p[i - 1]]
  BY <1>2, <1>3 DEF Times
<1>5. q = [i \in Nat |-> IF i = 0 THEN 1 ELSE base * q[i - 1]]
  BY <1>4, Zenon DEF Powers
<1> HIDE DEF q
<1>6. \A i \in Nat : q[i] = IF i = 0 THEN 1 ELSE base * q[i - 1]
  BY <1>5, Zenon
<1>7. q[0] = 1
  BY <1>6
<1>8. \A i \in Nat : q[i + 1] = base * q[i]
  <2> SUFFICES ASSUME NEW i \in Nat PROVE q[i + 1] = base * q[i]
    OBVIOUS
  <2>1. i + 1 \in Nat /\ i + 1 # 0 /\ (i + 1) - 1 = i
    OBVIOUS
  <2> QED BY <1>6, <2>1
<1>9. \A i \in Nat : q[i] \in Nat \ {0}
  <2> DEFINE T == {i \in Nat : q[i] \in Nat \ {0}}
  <2>1. 0 \in T
    BY <1>7
  <2>2. ASSUME NEW i \in T PROVE i + 1 \in T
    <3>1. i \in Nat /\ q[i] \in Nat \ {0} /\ i + 1 \in Nat
      OBVIOUS
    <3>2. base * q[i] \in Nat \ {0}
      <4> DEFINE x == q[i]
      <4>1. x \in Nat \ {0}
        BY <3>1
      <4> HIDE DEF x
      <4>2. base * x \in Nat \ {0}
        BY <4>1
      <4> QED BY <4>2 DEF x
    <3> QED BY <1>8, <3>1, <3>2
  <2> HIDE DEF T
  <2>3. T = Nat
    BY <2>1, <2>2, Induction DEF T
  <2> QED BY <2>3 DEF T
<1> QED BY <1>7, <1>8, <1>9 DEF q

\* The powers increase
LEMMA PowersGrow ==
  ASSUME NEW base \in Nat \ {0}, NEW i \in Nat, NEW j \in Nat, i <= j
  PROVE  Powers(base)[i] <= Powers(base)[j]
<1> DEFINE p == Powers(base)
           T == {k \in Nat : p[i] <= p[i + k]}
<1>1. \A k \in Nat : p[k] \in Nat \ {0} /\ p[k + 1] = base * p[k]
  BY PowersAre
<1> HIDE DEF p
<1>2. 0 \in T
  <2>1. i + 0 = i /\ p[i] <= p[i]
    BY <1>1
  <2> QED BY <2>1
<1>3. ASSUME NEW k \in T PROVE k + 1 \in T
  <2>1. k \in Nat /\ p[i] <= p[i + k] /\ i + k \in Nat /\ i + (k + 1) = (i + k) + 1
    OBVIOUS
  <2> DEFINE a == p[i]
             b == p[i + k]
             c == p[i + (k + 1)]
  <2>2. a \in Nat /\ b \in Nat \ {0} /\ c = base * b /\ a <= b
    BY <1>1, <2>1
  <2> HIDE DEF a, b, c
  <2>3. base * b >= b
    <3>1. base - 1 \in Nat /\ (base - 1) * b \in Nat /\ base * b = b + (base - 1) * b
      BY <2>2
    <3> DEFINE u == base * b
               w == (base - 1) * b
    <3>2. u = b + w /\ w \in Nat
      BY <3>1
    <3> HIDE DEF u, w
    <3>3. u >= b
      BY <2>2, <3>2
    <3> QED BY <3>3 DEF u
  <2>4. base * b \in Nat
    BY <2>2
  <2>5. a <= c
    <3> DEFINE u == base * b
    <3>1. u \in Nat /\ u >= b /\ c = u
      BY <2>2, <2>3, <2>4
    <3> HIDE DEF u
    <3> QED BY <2>2, <3>1
  <2> QED BY <2>1, <2>5 DEF a, c
<1> HIDE DEF T
<1>4. T = Nat
  BY <1>2, <1>3, Induction DEF T
<1>5. j - i \in T
  BY <1>4
<1>6. i + (j - i) = j
  OBVIOUS
<1> QED BY <1>5, <1>6 DEF T, p

-----------------------------------------------------------------------------
(***************************************************************************)
(* Numbers.  That the figures of a number are a sequence takes a look at   *)
(* the recursion that makes the decimal ones: it exists, because a number  *)
(* from 100 on is divided into a smaller one, and gives two figures or more.*)
(***************************************************************************)
Pair(k) == <<48 + ((k % 100) \div 10), 48 + (k % 10)>>
Pairwise(f, k) == IF k >= 100 THEN f[k \div 100] \o Pair(k) ELSE Pair(k)
PairsUpTo(f, N) == f = [k \in 0..N |-> Pairwise(f, k)]

LEMMA Hundreds ==
  /\ \A k \in Nat : k \div 100 \in Nat
  /\ \A k \in Nat : k >= 100 => k \div 100 < k
OBVIOUS

LEMMA PairsExist == \A N \in Nat : \E f : PairsUpTo(f, N)
<1> DEFINE T == {N \in Nat : \E f : PairsUpTo(f, N)}
<1>1. 0 \in T
  <2> DEFINE f == [k \in 0..0 |-> Pair(k)]
  <2>1. \A k \in 0..0 : Pairwise(f, k) = Pair(k)
    BY DEF Pairwise
  <2>2. f = [k \in 0..0 |-> Pairwise(f, k)]
    BY <2>1
  <2> HIDE DEF f
  <2> QED BY <2>2 DEF PairsUpTo
<1>2. ASSUME NEW N \in T PROVE N + 1 \in T
  <2>1. PICK f : PairsUpTo(f, N)
    OBVIOUS
  <2>2. N \in Nat
    OBVIOUS
  <2> DEFINE last == Pairwise(f, N + 1)
             g == [k \in 0..(N + 1) |-> IF k = N + 1 THEN last ELSE f[k]]
  <2>3. \A k \in 0..N : g[k] = f[k]
    BY <2>2
  <2>4. g[N + 1] = last
    BY <2>2
  <2>5. \A k \in 0..N : f[k] = Pairwise(f, k)
    BY <2>1, Zenon DEF PairsUpTo
  <2>6. ASSUME NEW k \in 0..(N + 1) PROVE Pairwise(g, k) = Pairwise(f, k)
    <3>1. CASE k >= 100
      <4>1. k \div 100 \in 0..N
        BY <2>2, <3>1, Hundreds
      <4>2. g[k \div 100] = f[k \div 100]
        BY <2>3, <4>1
      <4> QED BY <4>2 DEF Pairwise
    <3>2. CASE ~(k >= 100)
      BY <3>2 DEF Pairwise
    <3> QED BY <3>1, <3>2
  <2>7. \A k \in 0..(N + 1) : g[k] = Pairwise(g, k)
    <3>1. \A k \in 0..(N + 1) : k \in 0..N \/ k = N + 1
      BY <2>2
    <3> HIDE DEF g
    <3> QED BY <2>3, <2>4, <2>5, <2>6, <3>1
  <2>8. g = [k \in 0..(N + 1) |-> g[k]]
    OBVIOUS
  <2> HIDE DEF g
  <2>9. g = [k \in 0..(N + 1) |-> Pairwise(g, k)]
    BY <2>7, <2>8
  <2> QED BY <2>2, <2>9 DEF PairsUpTo
<1> HIDE DEF T
<1>3. T = Nat
  BY <1>1, <1>2, Induction DEF T
<1> QED BY <1>3 DEF T

LEMMA PairsAgree ==
  ASSUME NEW N \in Nat, NEW f, PairsUpTo(f, N), NEW M \in Nat, NEW g, PairsUpTo(g, M),
         NEW n \in Nat, n <= N, n <= M
  PROVE  f[n] = g[n]
<1> DEFINE T == {k \in Nat : k <= N /\ k <= M /\ f[k] # g[k]}
<1>1. CASE T = {}
  BY <1>1
<1>2. CASE T # {}
  <2>1. PICK m \in T : \A k \in T : m <= k
    BY <1>2, LeastNatural
  <2>2. m \in Nat /\ m \in 0..N /\ m \in 0..M /\ f[m] # g[m]
    OBVIOUS
  <2>3. f[m] = Pairwise(f, m) /\ g[m] = Pairwise(g, m)
    BY <2>2, Zenon DEF PairsUpTo
  <2>4. CASE m >= 100
    <3>1. m \div 100 \in Nat /\ m \div 100 < m
      BY <2>2, <2>4, Hundreds
    <3>2. m \div 100 \notin T
      BY <2>1, <2>2, <3>1
    <3>3. f[m \div 100] = g[m \div 100]
      BY <2>2, <3>1, <3>2
    <3> QED BY <2>2, <2>3, <3>3 DEF Pairwise
  <2>5. CASE ~(m >= 100)
    BY <2>2, <2>3, <2>5 DEF Pairwise
  <2> QED BY <2>4, <2>5
<1> QED BY <1>1, <1>2

LEMMA DecimalPairs ==
  \E pairs : /\ pairs = [k \in Nat |-> IF k >= 100 THEN pairs[k \div 100] \o Pair(k)
                                                  ELSE Pair(k)]
<1> DEFINE upto(N) == CHOOSE f : PairsUpTo(f, N)
           pairs == [k \in Nat |-> upto(k)[k]]
<1>1. \A N \in Nat : PairsUpTo(upto(N), N)
  BY PairsExist
<1> HIDE DEF upto
<1>2. ASSUME NEW k \in Nat PROVE pairs[k] = Pairwise(pairs, k)
  <2>1. k \in 0..k
    OBVIOUS
  <2>2. upto(k)[k] = Pairwise(upto(k), k)
    BY <1>1, <2>1, Zenon DEF PairsUpTo
  <2>3. CASE k >= 100
    <3>1. k \div 100 \in Nat /\ k \div 100 <= k /\ k \div 100 <= k \div 100
      BY <2>3, Hundreds
    <3>2. upto(k)[k \div 100] = upto(k \div 100)[k \div 100]
      BY <1>1, <3>1, PairsAgree
    <3>3. pairs[k \div 100] = upto(k \div 100)[k \div 100] /\ pairs[k] = upto(k)[k]
      BY <3>1
    <3> QED BY <2>2, <2>3, <3>2, <3>3 DEF Pairwise
  <2>4. CASE ~(k >= 100)
    BY <2>2, <2>4 DEF Pairwise
  <2> QED BY <2>3, <2>4
<1>3. pairs = [k \in Nat |-> pairs[k]]
  OBVIOUS
<1> HIDE DEF pairs
<1>4. pairs = [k \in Nat |-> IF k >= 100 THEN pairs[k \div 100] \o Pair(k) ELSE Pair(k)]
  BY <1>2, <1>3 DEF Pairwise
<1> QED BY <1>4

LEMMA PairIs == \A k \in Nat : IsCells(Pair(k)) /\ Len(Pair(k)) = 2
<1> SUFFICES ASSUME NEW k \in Nat PROVE IsCells(Pair(k)) /\ Len(Pair(k)) = 2
  OBVIOUS
<1> DEFINE a == 48 + ((k % 100) \div 10)
           b == 48 + (k % 10)
<1>1. Pair(k) = <<a, b>>
  BY DEF Pair
<1>2. a \in 0..127 /\ b \in 0..127
  OBVIOUS
<1> HIDE DEF a, b
<1>3. <<a, b>> \in Seq(Cell) /\ Len(<<a, b>>) = 2
  BY <1>2, CellsAre
<1> QED BY <1>1, <1>3 DEF IsCells

\* A decimal number has a figure at least
LEMMA DecimalFiguresIs ==
  ASSUME NEW v \in Nat
  PROVE  IsCells(DecimalFigures(v)) /\ Len(DecimalFigures(v)) >= 1
<1> DEFINE pairs == CHOOSE f : f = [k \in Nat |-> IF k >= 100 THEN f[k \div 100] \o Pair(k)
                                                 ELSE Pair(k)]
<1>1. DecimalFigures(v) = IF pairs[v][1] = 48 THEN Tail(pairs[v]) ELSE pairs[v]
  BY Zenon DEF DecimalFigures, Pair
<1>2. pairs = [k \in Nat |-> IF k >= 100 THEN pairs[k \div 100] \o Pair(k) ELSE Pair(k)]
  BY DecimalPairs, Zenon
<1> HIDE DEF pairs
<1>3. \A k \in Nat : pairs[k] = IF k >= 100 THEN pairs[k \div 100] \o Pair(k) ELSE Pair(k)
  BY <1>2, Zenon
<1> DEFINE Good(k) == IsCells(pairs[k]) /\ Len(pairs[k]) >= 2
           T == {k \in Nat : ~Good(k)}
<1>4. T = {}
  <2> SUFFICES ASSUME T # {} PROVE FALSE
    OBVIOUS
  <2> HIDE DEF Good
  <2>1. PICK m \in T : \A k \in T : m <= k
    BY LeastNatural
  <2>2. m \in Nat /\ ~Good(m)
    OBVIOUS
  <2>3. CASE m >= 100
    <3>1. m \div 100 \in Nat /\ m \div 100 < m
      BY <2>2, <2>3, Hundreds
    <3>2. Good(m \div 100)
      BY <2>1, <2>2, <3>1
    <3>3. /\ IsCells(pairs[m \div 100] \o Pair(m))
          /\ Len(pairs[m \div 100] \o Pair(m)) = Len(pairs[m \div 100]) + Len(Pair(m))
      BY <3>2, PairIs, JoinedIsSeq DEF Good
    <3>4. pairs[m] = pairs[m \div 100] \o Pair(m)
      BY <1>3, <2>2, <2>3
    <3>5. Len(pairs[m \div 100]) \in Nat /\ Len(pairs[m \div 100]) >= 2 /\ Len(Pair(m)) = 2
      BY <3>2, PairIs, SeqLength DEF Good
    <3> QED BY <2>2, <3>3, <3>4, <3>5 DEF Good
  <2>4. CASE ~(m >= 100)
    <3>1. pairs[m] = Pair(m)
      BY <1>3, <2>2, <2>4
    <3> QED BY <2>2, <3>1, PairIs, SMTT(30) DEF Good
  <2> QED BY <2>3, <2>4
<1>5. Good(v)
  BY <1>4
<1>6. IsCells(Tail(pairs[v])) /\ Len(Tail(pairs[v])) >= 1
  <2> DEFINE q == pairs[v]
  <2> DEFINE S == Cell
  <2>1. q \in Seq(S)
    BY <1>5 DEF IsCells
  <2> HIDE DEF S
  <2>2. Len(q) \in Nat /\ Len(q) >= 2
    BY <1>5, <2>1
  <2> HIDE DEF q
  <2>3. q # << >>
    BY <2>2
  <2>4. Tail(q) \in Seq(S) /\ Len(Tail(q)) = Len(q) - 1
    BY <2>1, <2>3
  <2> QED BY <2>2, <2>4 DEF IsCells, q, S
<1>7. Len(pairs[v]) >= 1
  BY <1>5, SeqLength
<1> QED BY <1>1, <1>5, <1>6, <1>7

LEMMA ZerosAre ==
  ASSUME NEW n \in Nat
  PROVE  IsCells(Zeros(n)) /\ Len(Zeros(n)) = n
<1> DEFINE f == Zeros(n)
<1>1. f = [i \in 1..n |-> f[i]] /\ \A i \in 1..n : f[i] \in Cell
  BY CellsAre DEF Zeros
<1> HIDE DEF f
<1> QED BY <1>1, FunctionIsSeq DEF f

LEMMA PaddedFigures ==
  ASSUME NEW figures, IsCells(figures), Len(figures) >= 1, NEW padding \in Nat,
         NEW total, total = Larger(Len(figures), padding)
  PROVE  /\ total \in Nat \ {0} /\ total >= Len(figures) /\ total >= padding
         /\ total = Len(figures) \/ total = padding
         /\ Len(Zeros(total - Len(figures)) \o figures) = total
         /\ IsCells(Zeros(total - Len(figures)) \o figures)
<1>1. Len(figures) \in Nat
  BY SeqLength
<1>2. /\ total \in Nat \ {0} /\ total >= Len(figures) /\ total >= padding
      /\ total = Len(figures) \/ total = padding
  BY <1>1 DEF Larger
<1>3. total - Len(figures) \in Nat
  BY <1>1, <1>2
<1> DEFINE z == total - Len(figures)
           zs == Zeros(z)
<1>4. IsCells(zs) /\ Len(zs) = z
  BY <1>3, ZerosAre
<1> HIDE DEF zs
<1>5. IsCells(zs \o figures) /\ Len(zs \o figures) = Len(zs) + Len(figures)
  BY <1>4, JoinedIsSeq
<1>6. Len(zs \o figures) = total
  BY <1>1, <1>2, <1>4, <1>5
<1> QED BY <1>1, <1>2, <1>5, <1>6 DEF zs

\* The string is large enough for the number when it is written
LEMMA NumberStored ==
  ASSUME NEW s, IsString(s), NEW g, IsString(g), g.status = "SUCCESS",
         NEW figures, IsCells(figures), Len(figures) >= 1, NEW padding \in Nat,
         NEW total, total = Larger(Len(figures), padding),
         s.size + total <= Len(g.data)
  PROVE  IsString(Store(g, g.data, s.size - 1,
                        Zeros(total - Len(figures)) \o figures, s.size + total))
<1> DEFINE chars == Zeros(total - Len(figures)) \o figures
<1>1. total \in Nat \ {0} /\ Len(chars) = total /\ IsCells(chars)
  BY PaddedFigures
<1> HIDE DEF chars
<1>2. s.size \in Nat /\ s.size >= 1 /\ Len(g.data) \in Nat
  BY StringNumbers
<1>3. /\ s.size - 1 \in Nat /\ s.size + total \in Nat \ {0}
      /\ (s.size - 1) + Len(chars) <= Len(g.data) /\ Len(chars) \in Nat
  BY <1>1, <1>2, SMTT(30)
<1>4. /\ g = [data |-> g.data, size |-> g.size, status |-> g.status]
      /\ g.status \in Statuses /\ IsCells(g.data)
  BY DEF IsString
<1>5. IsString(Store(g, g.data, s.size - 1, chars, s.size + total))
  BY <1>1, <1>3, <1>4, StoreIs
<1> QED BY <1>5 DEF chars

LEMMA AppendDecUIs ==
  ASSUME Configured, NEW s, IsString(s), s.status = "SUCCESS", NEW v \in Nat,
         NEW padding \in Nat
  PROVE  IsString(AppendDecU(s, v, padding))
<1> DEFINE figures == DecimalFigures(v)
           total == Larger(Len(figures), padding)
           n == s.size + total
           grown == IF n > Len(s.data) THEN ResizeTo(s, n) ELSE s
           chars == Zeros(total - Len(figures)) \o figures
<1>1. IsCells(figures) /\ Len(figures) >= 1
  BY DecimalFiguresIs
<1>2. AppendDecU(s, v, padding) = IF grown.status # "SUCCESS" THEN grown
                                  ELSE Store(grown, grown.data, s.size - 1, chars, n)
  BY DEF AppendDecU
<1> HIDE DEF figures
<1>3. total \in Nat \ {0}
  BY <1>1, PaddedFigures
<1> HIDE DEF total
<1>4. n \in Nat \ {0} /\ Len(s.data) \in Nat
  BY <1>3, StringNumbers
<1>5. IsString(grown) /\ (grown.status = "SUCCESS" => n <= Len(grown.data))
  <2>1. CASE n > Len(s.data)
    BY <1>4, <2>1, ResizeToIs, StringNumbers
  <2>2. CASE ~(n > Len(s.data))
    BY <1>4, <2>2
  <2> QED BY <2>1, <2>2
<1> HIDE DEF grown
<1>6. CASE grown.status = "SUCCESS"
  <2>1. IsString(Store(grown, grown.data, s.size - 1, chars, n))
    BY <1>1, <1>5, <1>6, NumberStored DEF total
  <2> QED BY <1>2, <1>6, <2>1
<1>7. CASE grown.status # "SUCCESS"
  BY <1>2, <1>5, <1>7
<1> QED BY <1>6, <1>7

\* A number below base times a is n \div a in the place of a
LEMMA Leading ==
  ASSUME NEW base \in {10, 16}, NEW n \in Nat, NEW a \in Nat \ {0}, n < base * a
  PROVE  (n \div a) % base = n \div a /\ (n \div a = 0 <=> n < a)
<1> DEFINE x == n \div a
<1>1. x \in Nat /\ a * x <= n /\ n < a * x + a
  BY Quotient
<1> HIDE DEF x
<1>2. ASSUME NEW y \in Nat, x >= y PROVE n >= y * a
  <2>1. x - y \in Nat /\ a * (x - y) \in Nat /\ a * x = y * a + a * (x - y)
    BY <1>1, <1>2
  <2> DEFINE u == a * x
             w == a * (x - y)
             z == y * a
  <2>2. w \in Nat /\ u = z + w /\ u <= n /\ z \in Nat
    BY <1>1, <2>1
  <2> HIDE DEF u, w, z
  <2>3. n >= z
    BY <2>2
  <2> QED BY <2>3 DEF z
<1>3. x < base
  <2> SUFFICES ASSUME x >= base PROVE FALSE
    BY <1>1
  <2>1. n >= base * a /\ base * a \in Nat
    BY <1>2
  <2> QED BY <2>1
<1>4. x % base = x
  BY <1>1, <1>3
<1>5. x = 0 => n < a
  BY <1>1
<1>6. x # 0 => ~(n < a)
  <2> SUFFICES ASSUME x >= 1 PROVE ~(n < a)
    BY <1>1
  <2>1. n >= 1 * a
    BY <1>2
  <2> QED BY <2>1
<1> QED BY <1>4, <1>5, <1>6 DEF x

LEMMA Sixteenth ==
  ASSUME NEW k \in Nat, NEW b \in Nat \ {0}
  PROVE  (k \div b) \div 16 = k \div (16 * b)
<1> DEFINE q == k \div b
           r == q \div 16
           e == q % 16
           x == b * r
           y == b * e
<1>1. q \in Nat /\ b * q <= k /\ k < b * q + b
  BY Quotient
<1> HIDE DEF q
<1>2. r \in Nat /\ e \in 0..15 /\ q = 16 * r + e
  BY <1>1
<1> HIDE DEF r, e
<1>3. x \in Nat /\ y \in Nat /\ b * q = 16 * x + y
  BY <1>2
<1>4. y + b <= 16 * b
  <2>1. 15 - e \in Nat
    BY <1>2
  <2>2. b * (15 - e) \in Nat /\ 16 * b = y + b + b * (15 - e)
    BY <1>2, <2>1
  <2> DEFINE z == b * (15 - e)
  <2>3. z \in Nat /\ 16 * b = y + b + z
    BY <2>2
  <2> HIDE DEF y, z
  <2> QED BY <1>3, <2>3
<1>5. (16 * b) * r = 16 * x
  BY <1>2
<1> DEFINE w == b * q
           d == 16 * b
<1>6. w \in Nat /\ w = 16 * x + y /\ w <= k /\ k < w + b /\ d \in Nat \ {0} /\ y + b <= d
  BY <1>1, <1>3, <1>4
<1> HIDE DEF x, y, w
<1>7. d * r <= k /\ k < d * r + d
  <2> HIDE DEF d
  <2>1. d * r = 16 * x
    BY <1>5 DEF d
  <2>2. 16 * x <= k /\ k < 16 * x + d
    BY <1>3, <1>6
  <2> QED BY <2>1, <2>2
<1>8. k \div d = r
  <2> HIDE DEF d
  <2> QED BY <1>2, <1>6, <1>7, QuotientIs
<1> QED BY <1>8 DEF d, r, q

\* Shifted to the right by four bits again and again, a number is divided by
\* the powers of 16
Shifted(f, v, i) == IF i = 0 THEN v ELSE f[i - 1] \div 16

LEMMA ShiftsAre ==
  ASSUME NEW v \in Nat,
         NEW shifted, shifted = CHOOSE f : f = [i \in 0..15 |-> Shifted(f, v, i)]
  PROVE  \A i \in 0..15 : shifted[i] = v \div Powers(16)[i]
<1> DEFINE p == Powers(16)
           g == [i \in 0..15 |-> v \div p[i]]
<1>1. /\ p[0] = 1 /\ \A i \in Nat : p[i + 1] = 16 * p[i]
      /\ \A i \in Nat : p[i] \in Nat \ {0}
  BY PowersAre
<1> HIDE DEF p
<1>2. ASSUME NEW i \in 1..15 PROVE (v \div p[i - 1]) \div 16 = v \div p[i]
  <2>1. i - 1 \in Nat /\ (i - 1) + 1 = i
    OBVIOUS
  <2>2. p[i] = 16 * p[i - 1] /\ p[i - 1] \in Nat \ {0}
    BY <1>1, <2>1
  <2>3. (v \div p[i - 1]) \div 16 = v \div (16 * p[i - 1])
    BY <2>2, Sixteenth
  <2> QED BY <2>2, <2>3
<1>3. v \div p[0] = v
  BY <1>1
<1>4. \A i \in 0..15 : i = 0 \/ (i \in 1..15 /\ i - 1 \in 0..15)
  OBVIOUS
<1>5. \A i \in 0..15 : g[i] = Shifted(g, v, i)
  <2>1. \A i \in 0..15 : g[i] = v \div p[i]
    OBVIOUS
  <2> HIDE DEF g
  <2>2. ASSUME NEW i \in 0..15 PROVE g[i] = Shifted(g, v, i)
    <3>1. CASE i = 0
      BY <1>3, <2>1, <3>1 DEF Shifted
    <3>2. CASE i \in 1..15
      <4>1. i - 1 \in 0..15 /\ i # 0
        BY <3>2
      <4>2. g[i - 1] = v \div p[i - 1] /\ g[i] = v \div p[i]
        BY <2>1, <4>1
      <4>3. g[i - 1] \div 16 = v \div p[i]
        BY <1>2, <3>2, <4>2
      <4> QED BY <4>1, <4>2, <4>3 DEF Shifted
    <3> QED BY <1>4, <3>1, <3>2
  <2> QED BY <2>2
<1>6. g = [i \in 0..15 |-> g[i]]
  OBVIOUS
<1> HIDE DEF g
<1>7. g = [i \in 0..15 |-> Shifted(g, v, i)]
  BY <1>5, <1>6
<1>8. shifted = [i \in 0..15 |-> Shifted(shifted, v, i)]
  BY <1>7, Zenon
<1>9. \A i \in 0..15 : shifted[i] = Shifted(shifted, v, i)
  BY <1>8, ZenonT(30)
<1> DEFINE T == {i \in Nat : i \in 0..15 => shifted[i] = v \div p[i]}
<1>10. 0 \in T
  BY <1>3, <1>9 DEF Shifted
<1>11. ASSUME NEW i \in T PROVE i + 1 \in T
  <2> SUFFICES ASSUME i + 1 \in 0..15 PROVE shifted[i + 1] = v \div p[i + 1]
    OBVIOUS
  <2>1. /\ i \in 0..15 /\ i + 1 \in 1..15 /\ (i + 1) - 1 = i /\ i + 1 # 0
        /\ shifted[i] = v \div p[i]
    BY SMTT(30)
  <2>2. shifted[i + 1] = shifted[i] \div 16
    BY <1>9, <2>1 DEF Shifted
  <2>3. (v \div p[i]) \div 16 = v \div p[i + 1]
    BY <1>2, <2>1
  <2> QED BY <2>1, <2>2, <2>3
<1> HIDE DEF T
<1>12. T = Nat
  BY <1>10, <1>11, Induction DEF T
<1> QED BY <1>12 DEF T, p

\* The nibbles of a number
Nibbles(v) ==
  LET shifted[i \in 0..15] == IF i = 0 THEN v ELSE shifted[i - 1] \div 16
  IN  [i \in 0..15 |-> shifted[i] % 16]

LEMMA NibblesAre ==
  ASSUME NEW v \in Nat
  PROVE  /\ \A i \in 0..15 : Nibbles(v)[i] = (v \div Powers(16)[i]) % 16
         /\ \A i \in 0..15 : Nibbles(v)[i] \in 0..15
<1> DEFINE shifted == CHOOSE f : f = [i \in 0..15 |-> IF i = 0 THEN v
                                                     ELSE f[i - 1] \div 16]
<1>1. Nibbles(v) = [i \in 0..15 |-> shifted[i] % 16]
  BY Zenon DEF Nibbles
<1>2. shifted = CHOOSE f : f = [i \in 0..15 |-> Shifted(f, v, i)]
  BY Zenon DEF Shifted
<1> HIDE DEF shifted
<1>3. \A i \in 0..15 : shifted[i] = v \div Powers(16)[i]
  BY <1>2, ShiftsAre
<1>4. \A i \in 0..15 : v \div Powers(16)[i] \in Nat
  <2>1. \A i \in 0..15 : Powers(16)[i] \in Nat \ {0}
    BY PowersAre
  <2> QED BY <2>1, Quotient
<1>5. \A i \in 0..15 : Nibbles(v)[i] = (v \div Powers(16)[i]) % 16
  BY <1>1, <1>3
<1>6. \A n \in Nat : n % 16 \in 0..15
  OBVIOUS
<1> QED BY <1>4, <1>5, <1>6

\* There is a first nibble that is not zero, or the last one is taken
LEMMA TopNibble ==
  ASSUME NEW nibble
  PROVE  \E i \in 0..15 : \A j \in 0..15 : /\ i = 0 \/ nibble[i] # 0
                                           /\ j > i => nibble[j] = 0
<1> DEFINE Top(i) == \A j \in 0..15 : (i = 0 \/ nibble[i] # 0) /\ (j > i => nibble[j] = 0)
<1> DEFINE T == {k \in Nat : \A j \in 0..15 : j > k => nibble[j] = 0}
<1>1. 15 \in T
  OBVIOUS
<1>2. PICK m \in T : \A k \in T : m <= k
  BY <1>1, LeastNatural
<1>3. m \in 0..15 /\ \A j \in 0..15 : j > m => nibble[j] = 0
  BY <1>1, <1>2
<1>4. m = 0 \/ nibble[m] # 0
  <2> SUFFICES ASSUME m # 0, nibble[m] = 0 PROVE FALSE
    OBVIOUS
  <2>1. \A j \in 0..15 : j > m - 1 => j = m \/ j > m
    BY <1>3
  <2>2. m - 1 \in T
    BY <1>3, <2>1
  <2> QED BY <1>2, <1>3, <2>2
<1>5. Top(m)
  BY <1>3, <1>4
<1> QED BY <1>3, <1>5

\* The figures of a number in hexadecimal, from the top nibble on
Hex(nibble, top, letter) ==
  [k \in 1..(top + 1) |-> IF nibble[top + 1 - k] < 10 THEN 48 + nibble[top + 1 - k]
                                                      ELSE letter + nibble[top + 1 - k]]

LEMMA TopIs ==
  ASSUME NEW v \in Nat, NEW uppercase
  PROVE  \E top \in 0..15 :
           /\ HexFigures(v, uppercase) = Hex(Nibbles(v), top, IF uppercase THEN 55 ELSE 87)
           /\ top = 0 \/ Nibbles(v)[top] # 0
           /\ \A j \in 0..15 : j > top => Nibbles(v)[j] = 0
<1> DEFINE nibble == Nibbles(v)
           top == CHOOSE i \in 0..15 : \A j \in 0..15 :
                    /\ i = 0 \/ nibble[i] # 0
                    /\ j > i => nibble[j] = 0
<1>1. HexFigures(v, uppercase) = Hex(nibble, top, IF uppercase THEN 55 ELSE 87)
  BY Zenon DEF HexFigures, Nibbles, Hex
<1> HIDE DEF nibble
<1>2. \E i \in 0..15 : \A j \in 0..15 : /\ i = 0 \/ nibble[i] # 0
                                        /\ j > i => nibble[j] = 0
  BY TopNibble, SMTT(30)
<1>3. top \in 0..15 /\ \A j \in 0..15 : /\ top = 0 \/ nibble[top] # 0
                                        /\ j > top => nibble[j] = 0
  BY <1>2
<1> HIDE DEF top
<1>4. 0 \in 0..15
  OBVIOUS
<1> QED BY <1>1, <1>3, <1>4 DEF nibble

\* A hexadecimal number has a figure at least, and zero has only one
LEMMA HexFiguresIs ==
  ASSUME NEW v \in Nat, NEW uppercase
  PROVE  /\ IsCells(HexFigures(v, uppercase)) /\ Len(HexFigures(v, uppercase)) >= 1
         /\ v = 0 => Len(HexFigures(v, uppercase)) = 1
<1> DEFINE nibble == Nibbles(v)
           letter == IF uppercase THEN 55 ELSE 87
           f == HexFigures(v, uppercase)
<1>1. PICK top \in 0..15 : f = Hex(nibble, top, letter) /\ (top = 0 \/ nibble[top] # 0)
  BY TopIs
<1>2. \A i \in 0..15 : nibble[i] \in 0..15
  BY NibblesAre
<1>3. v = 0 => \A i \in 0..15 : nibble[i] = 0
  <2> SUFFICES ASSUME v = 0, NEW i \in 0..15 PROVE nibble[i] = 0
    OBVIOUS
  <2>1. Powers(16)[i] \in Nat \ {0}
    BY PowersAre
  <2> DEFINE d == Powers(16)[i]
  <2>2. d \in Nat \ {0}
    BY <2>1
  <2> HIDE DEF d
  <2>3. (0 \div d) % 16 = 0
    BY <2>2
  <2> QED BY <2>3, NibblesAre DEF d
<1> HIDE DEF nibble, f, letter
<1> DEFINE figure(k) == IF nibble[top + 1 - k] < 10 THEN 48 + nibble[top + 1 - k]
                                                    ELSE letter + nibble[top + 1 - k]
<1>4. f = [k \in 1..(top + 1) |-> figure(k)]
  BY <1>1 DEF Hex
<1>5. \A k \in 1..(top + 1) : f[k] \in Cell
  <2>1. ASSUME NEW k \in 1..(top + 1) PROVE figure(k) \in 0..127
    <3>1. top + 1 - k \in 0..15
      OBVIOUS
    <3>2. nibble[top + 1 - k] \in 0..15
      BY <1>2, <3>1
    <3> QED BY <3>2 DEF letter
  <2> QED BY <1>4, <2>1, CellsAre
<1> HIDE DEF figure
<1>6. f = [k \in 1..(top + 1) |-> f[k]]
  BY <1>4
<1> DEFINE n == top + 1
<1>7. n \in Nat /\ n >= 1
  OBVIOUS
<1>8. IsCells(f) /\ Len(f) = n
  <2> HIDE DEF n
  <2> QED BY <1>5, <1>6, <1>7, FunctionIsSeq DEF n
<1>9. v = 0 => n = 1
  BY <1>1, <1>3
<1> QED BY <1>7, <1>8, <1>9 DEF f

LEMMA AppendHexUIs ==
  ASSUME Configured, NEW s, IsString(s), s.status = "SUCCESS", NEW v \in Nat,
         NEW padding \in Nat, NEW uppercase
  PROVE  IsString(AppendHexU(s, v, padding, uppercase))
<1> DEFINE figures == HexFigures(v, uppercase)
           n == IF v = 0 THEN Larger(padding, 1) ELSE Len(figures)
           lacking == Len(s.data) - s.size < padding
           padded == IF Len(s.data) - s.size < padding
                       THEN ResizeTo(s, s.size + padding) ELSE s
           remaining == IF Len(s.data) - s.size < padding
                          THEN padding ELSE Len(s.data) - s.size
           grown == IF padded.status = "SUCCESS" /\ remaining < n
                      THEN ResizeTo(padded, padded.size + n) ELSE padded
           total == Larger(Len(figures), padding)
           chars == Zeros(total - Len(figures)) \o figures
<1>1. IsCells(figures) /\ Len(figures) >= 1 /\ (v = 0 => Len(figures) = 1)
  BY HexFiguresIs
<1>2. AppendHexU(s, v, padding, uppercase)
        = IF grown.status # "SUCCESS" THEN grown
          ELSE Store(grown, grown.data, s.size - 1, chars, s.size + total)
  BY DEF AppendHexU
<1> HIDE DEF figures
<1>3. n \in Nat \ {0} /\ n >= Len(figures)
  <2>1. Len(figures) \in Nat
    BY <1>1, SeqLength
  <2>2. Larger(padding, 1) \in Nat \ {0} /\ Larger(padding, 1) >= 1
    BY DEF Larger
  <2>3. CASE v = 0
    <3>1. n = Larger(padding, 1)
      BY <2>3
    <3> HIDE DEF n
    <3> QED BY <1>1, <2>2, <2>3, <3>1
  <2>4. CASE v # 0
    BY <1>1, <2>1, <2>4
  <2> QED BY <2>3, <2>4
<1>4. total \in Nat \ {0} /\ (total = Len(figures) \/ total = padding)
  BY <1>1, PaddedFigures
<1>5. s.size \in Nat /\ s.size >= 1 /\ Len(s.data) \in Nat /\ s.size <= Len(s.data)
  BY StringNumbers
<1>6. Len(figures) \in Nat
  BY <1>1, SeqLength
<1> HIDE DEF n, total
<1>7. /\ IsString(padded)
      /\ padded.status = "SUCCESS" =>
           /\ Len(padded.data) - s.size >= remaining /\ padded.size >= s.size
           /\ remaining >= padding /\ remaining \in Nat /\ Len(padded.data) \in Nat
           /\ padded.size \in Nat
  <2>1. CASE Len(s.data) - s.size < padding
    <3>1. s.size + padding \in Nat \ {0}
      BY <1>5
    <3> DEFINE a == s.size + padding
               t == ResizeTo(s, a)
    <3>2. padded = t /\ remaining = padding
      BY <2>1
    <3>3. IsString(t) /\ (t.status = "SUCCESS" => t.size = a /\ Len(t.data) >= a)
      BY <3>1, ResizeToIs
    <3> HIDE DEF t, padded, remaining
    <3>4. Len(t.data) \in Nat /\ t.size \in Nat
      BY <3>3, StringNumbers
    <3> QED BY <1>5, <3>2, <3>3, <3>4
  <2>2. CASE ~(Len(s.data) - s.size < padding)
    <3>1. padded = s /\ remaining = Len(s.data) - s.size
      BY <2>2
    <3> QED BY <1>5, <2>2, <3>1
  <2> QED BY <2>1, <2>2
<1> HIDE DEF padded, remaining
<1>8. /\ IsString(grown)
      /\ grown.status = "SUCCESS" => s.size + total <= Len(grown.data)
  <2>1. CASE padded.status = "SUCCESS" /\ remaining < n
    <3> DEFINE a == padded.size + n
               t == ResizeTo(padded, a)
    <3>1. grown = t
      BY <2>1
    <3>2. a \in Nat \ {0}
      BY <1>3, <1>7, <2>1
    <3>3. IsString(t) /\ (t.status = "SUCCESS" => Len(t.data) >= a)
      BY <1>7, <3>2, ResizeToIs
    <3>4. total <= n
      BY <1>3, <1>4, <1>6, <1>7, <2>1
    <3>5. s.size + total <= a
      BY <1>3, <1>4, <1>5, <1>7, <2>1, <3>4
    <3> HIDE DEF grown, t, a
    <3>6. Len(t.data) \in Nat
      BY <3>3, StringNumbers
    <3> QED BY <1>4, <1>5, <3>1, <3>2, <3>3, <3>5, <3>6
  <2>2. CASE padded.status = "SUCCESS" /\ ~(remaining < n)
    <3>1. grown = padded
      BY <2>2
    <3>2. total <= remaining
      BY <1>3, <1>4, <1>6, <1>7, <2>2
    <3> HIDE DEF grown
    <3> QED BY <1>4, <1>5, <1>7, <2>2, <3>1, <3>2
  <2>3. CASE padded.status # "SUCCESS"
    <3>1. grown = padded
      BY <2>3
    <3> QED BY <1>7, <2>3, <3>1
  <2> QED BY <2>1, <2>2, <2>3
<1> HIDE DEF grown
<1>9. CASE grown.status = "SUCCESS"
  <2>1. IsString(Store(grown, grown.data, s.size - 1, chars, s.size + total))
    BY <1>1, <1>8, <1>9, NumberStored DEF total
  <2> QED BY <1>2, <1>9, <2>1
<1>10. CASE grown.status # "SUCCESS"
  BY <1>2, <1>8, <1>10
<1> QED BY <1>9, <1>10

LEMMA SignIs == \A c \in Char : IsView(Sign(c))
<1> SUFFICES ASSUME NEW c \in Char PROVE IsView(Sign(c))
  OBVIOUS
<1> DEFINE d == <<c, NUL>>
<1>1. d \in Seq(Cell) /\ Len(d) = 2
  BY CellsAre DEF Char
<1> HIDE DEF d
<1>2. Sign(c) = [data |-> d, size |-> 2]
  BY DEF Sign, d
<1>3. Sign(c).data = d /\ Sign(c).size = 2
  BY <1>2
<1> QED BY <1>1, <1>3 DEF IsView, IsCells

LEMMA SignedIs ==
  ASSUME Configured, NEW s, IsString(s), NEW v \in Int, NEW force,
         NEW prefix, prefix = NoPrefix \/ IsView(prefix)
  PROVE  IsString(Signed(s, v, force, prefix))
<1> DEFINE signed == IF v < 0 THEN StringAppend(s, Sign(45))
                     ELSE IF force THEN StringAppend(s, Sign(43)) ELSE s
<1>1. IsString(signed)
  <2>2. 45 \in Char /\ 43 \in Char
    BY DEF Char
  <2>1. IsString(StringAppend(s, Sign(45))) /\ IsString(StringAppend(s, Sign(43)))
    BY <2>2, SignIs, StringAppendIs
  <2> QED BY <2>1
<1>2. Signed(s, v, force, prefix)
        = IF prefix = NoPrefix THEN signed ELSE StringAppend(signed, prefix)
  BY DEF Signed
<1> HIDE DEF signed
<1>3. CASE prefix = NoPrefix
  BY <1>1, <1>2, <1>3
<1>4. CASE prefix # NoPrefix
  <2>1. IsString(StringAppend(signed, prefix))
    BY <1>1, <1>4, StringAppendIs
  <2> QED BY <1>2, <1>4, <2>1
<1> QED BY <1>3, <1>4

LEMMA MagnitudeIs == \A v \in Int : Magnitude(v) \in Nat
BY DEF Magnitude

LEMMA AppendDecSIs ==
  ASSUME Configured, NEW s, IsString(s), NEW v \in Int, NEW padding \in Nat, NEW force,
         NEW prefix, prefix = NoPrefix \/ IsView(prefix)
  PROVE  IsString(AppendDecS(s, v, padding, force, prefix))
<1> DEFINE t == Signed(s, v, force, prefix)
<1>1. IsString(t)
  BY SignedIs
<1>2. AppendDecS(s, v, padding, force, prefix)
        = IF t.status # "SUCCESS" THEN t ELSE AppendDecU(t, Magnitude(v), padding)
  BY DEF AppendDecS
<1> HIDE DEF t
<1>3. CASE t.status = "SUCCESS"
  <2>1. IsString(AppendDecU(t, Magnitude(v), padding))
    BY <1>1, <1>3, MagnitudeIs, AppendDecUIs
  <2> QED BY <1>2, <1>3, <2>1
<1>4. CASE t.status # "SUCCESS"
  BY <1>1, <1>2, <1>4
<1> QED BY <1>3, <1>4

LEMMA AppendHexSIs ==
  ASSUME Configured, NEW s, IsString(s), NEW v \in Int, NEW padding \in Nat,
         NEW uppercase, NEW force, NEW prefix, prefix = NoPrefix \/ IsView(prefix)
  PROVE  IsString(AppendHexS(s, v, padding, uppercase, force, prefix))
<1> DEFINE t == Signed(s, v, force, prefix)
<1>1. IsString(t)
  BY SignedIs
<1>2. AppendHexS(s, v, padding, uppercase, force, prefix)
        = IF t.status # "SUCCESS" THEN t
          ELSE AppendHexU(t, Magnitude(v), padding, uppercase)
  BY DEF AppendHexS
<1> HIDE DEF t
<1>3. CASE t.status = "SUCCESS"
  <2>1. IsString(AppendHexU(t, Magnitude(v), padding, uppercase))
    BY <1>1, <1>3, MagnitudeIs, AppendHexUIs
  <2> QED BY <1>2, <1>3, <2>1
<1>4. CASE t.status # "SUCCESS"
  BY <1>1, <1>2, <1>4
<1> QED BY <1>3, <1>4

-----------------------------------------------------------------------------
(* Formatted text that fits *)

LEMMA AppendFormatIs ==
  ASSUME NEW s, IsString(s), NEW chars, chars = NoText \/ IsCells(chars),
         chars = NoText \/ Len(chars) <= Len(s.data) - s.size, NEW again
  PROVE  IsString(AppendFormat(s, chars, again))
<1> DEFINE w == Len(chars)
           room == Len(s.data) - s.size
           text == SubSeq(chars, 1, Smaller(w, room)) \o <<NUL>>
           d == V(s)!MemCpy(s.data, s.size - 1, text)
           cut == [s EXCEPT !.data = d]
<1>1. CASE chars = NoText
  <2>1. AppendFormat(s, chars, again) = Fails(s, "FAILED")
    BY <1>1 DEF AppendFormat
  <2>2. IsString(Fails(s, "FAILED"))
    BY FailsIs, Reasons
  <2> QED BY <2>1, <2>2
<1>2. CASE chars # NoText
  <2>1. IsCells(chars) /\ w <= room /\ w \in Nat
    BY <1>2, SeqLength
  <2>2. AppendFormat(s, chars, again) = [cut EXCEPT !.size = s.size + w]
    BY <1>2, <2>1 DEF AppendFormat
  <2>3. s.size \in Nat /\ s.size >= 1 /\ Len(s.data) \in Nat /\ s.size <= Len(s.data)
    BY StringNumbers
  <2>4. Smaller(w, room) = w
    BY <2>1 DEF Smaller
  <2> DEFINE front == SubSeq(chars, 1, w)
             end == <<NUL>>
  <2>5. IsCells(front) /\ Len(front) = w
    BY <2>1, PartIsSeq
  <2>6. IsCells(end) /\ Len(end) = 1 /\ end[1] = NUL
    BY EndIsSeq
  <2>7. text = front \o end
    BY <2>4
  <2> HIDE DEF front, end, text
  <2>8. IsCells(text) /\ Len(text) = w + 1 /\ text[w + 1] = NUL
    <3>1. IsCells(front \o end) /\ Len(front \o end) = w + 1
      BY <2>5, <2>6, JoinedIsSeq
    <3>2. (front \o end)[w + 1] = end[1]
      <4>3. front \in Seq(Cell) /\ end \in Seq(Cell)
        BY <2>5, <2>6 DEF IsCells
      <4>4. w + 1 \in 1..(Len(front) + Len(end)) /\ ~(w + 1 <= Len(front))
        BY <2>1, <2>5, <2>6
      <4>5. (front \o end)[w + 1] = end[w + 1 - Len(front)]
        BY <4>3, <4>4, ConcatProperties
      <4>6. w + 1 - Len(front) = 1
        BY <2>1, <2>5
      <4> QED BY <4>5, <4>6
    <3> QED BY <2>6, <2>7, <3>1, <3>2
  <2>9. /\ IsCells(d) /\ Len(d) = Len(s.data)
        /\ \A i \in 1..Len(s.data) : d[i]
             = IF i \in ((s.size - 1) + 1)..((s.size - 1) + Len(text))
               THEN text[i - (s.size - 1)] ELSE s.data[i]
    <3>1. s.size - 1 \in Nat
      BY <2>3
    <3>2. IsCells(s.data)
      BY DEF IsString
    <3> QED BY <2>8, <3>1, <3>2, MemCpyIs
  <2> HIDE DEF d
  <2> DEFINE n == s.size + w
  <2>10. n \in 1..Len(d) /\ n \in (s.size - 1 + 1)..((s.size - 1) + Len(text))
    <3>1. Len(d) = Len(s.data) /\ Len(text) = w + 1
      BY <2>8, <2>9
    <3> QED BY <2>1, <2>3, <3>1
  <2>11. d[n] = text[n - (s.size - 1)] /\ n - (s.size - 1) = w + 1
    BY <2>1, <2>3, <2>9, <2>10, SMTT(30)
  <2>12. d[n] = NUL
    BY <2>8, <2>11
  <2> HIDE DEF n
  <2>13. /\ s = [data |-> s.data, size |-> s.size, status |-> s.status]
         /\ s.status \in Statuses
    BY DEF IsString
  <2>14. cut = [data |-> d, size |-> s.size, status |-> s.status]
    BY <2>13, RecordParts
  <2> HIDE DEF cut
  <2>15. [cut EXCEPT !.size = n] = [data |-> d, size |-> n, status |-> s.status]
    BY <2>14
  <2>16. IsString([data |-> d, size |-> n, status |-> s.status])
    BY <2>9, <2>10, <2>12, <2>13, MadeString
  <2> QED BY <2>2, <2>15, <2>16 DEF n
<1> QED BY <1>1, <1>2

-----------------------------------------------------------------------------
(* The invariant: while there is a string, it ends with a NUL within its   *)
(* block, which has a policy to grow by.                                   *)

StringInv == /\ IsCells(data) /\ status \in Statuses
             /\ data # << >> => /\ Configured
                                /\ size \in 1..Len(data) /\ data[size] = NUL

LEMMA ThisIsString == ASSUME StringInv, data # << >> PROVE IsString(This) /\ Configured
<1>1. IsCells(data) /\ size \in 1..Len(data) /\ data[size] = NUL /\ Configured
  BY DEF StringInv
<1> QED BY <1>1, MadeString, Reasons DEF This

LEMMA CallKeeps ==
  ASSUME Configured, NEW s, IsString(s), Call(s)
  PROVE  StringInv'
<1>1. /\ data' = [i \in 1..Len(s.data) |-> IF i <= s.size THEN s.data[i] ELSE Undef]
      /\ size' = s.size /\ status' = s.status /\ UNCHANGED config
  BY DEF Call
<1>2. s.size \in 1..Len(s.data) /\ s.data[s.size] = NUL /\ s.status \in Statuses
  BY DEF IsString
<1>3. Len(s.data) \in Nat /\ s.size \in Nat
  BY StringNumbers
<1> DEFINE n == Len(s.data)
<1>4. data' = [i \in 1..n |-> data'[i]] /\ n \in Nat
  BY <1>1, <1>3
<1>12. \A i \in 1..n : data'[i] \in Cell
  <2>1. \A i \in 1..n : s.data[i] \in Cell
    BY SeqIsFunction DEF IsString
  <2> QED BY <1>1, <2>1, CellsAre
<1> HIDE DEF n
<1>5. IsCells(data') /\ Len(data') = n
  BY <1>4, <1>12, FunctionIsSeq
<1>6. data'[size'] = NUL
  BY <1>1, <1>2, <1>3
<1>7. Configured'
  BY <1>1 DEF Configured, config
<1>8. size' \in 1..Len(data')
  BY <1>1, <1>2, <1>5 DEF n
<1>9. status' \in Statuses
  BY <1>1, <1>2
<1>10. IsCells(data)' /\ (status \in Statuses)'
  BY <1>5, <1>9 DEF IsCells, Cell, Statuses
<1>11. (size \in 1..Len(data))' /\ (data[size] = NUL)'
  BY <1>6, <1>8
<1> QED BY <1>7, <1>10, <1>11 DEF StringInv

LEMMA BlankIs == \A n \in Nat : IsCells(Blank(n)) /\ Len(Blank(n)) = n
<1> SUFFICES ASSUME NEW n \in Nat PROVE IsCells(Blank(n)) /\ Len(Blank(n)) = n
  OBVIOUS
<1> DEFINE f == Blank(n)
<1>1. f = [i \in 1..n |-> f[i]] /\ \A i \in 1..n : f[i] \in Cell
  BY CellsAre DEF Blank
<1> HIDE DEF f
<1> QED BY <1>1, FunctionIsSeq DEF f

\* A block that becomes a string holds its characters and the NUL behind them
LEMMA BeginIs ==
  ASSUME NEW p, IsCells(p), NEW chars, IsCells(chars), Len(chars) + 1 <= Len(p),
         Begin(p, chars)
  PROVE  /\ IsCells(data') /\ size' \in 1..Len(data') /\ data'[size'] = NUL
         /\ status' = "SUCCESS" /\ size' = Len(chars) + 1
         /\ \A i \in 1..Len(chars) : data'[i] = chars[i]
<1> DEFINE r == [data |-> p, size |-> 1, status |-> "SUCCESS"]
           n == Len(chars) + 1
           at == 0
           t == Store(r, p, at, chars, n)
<1>1. data' = t.data /\ size' = t.size /\ status' = t.status
  BY DEF Begin
<1>2. Len(chars) \in Nat /\ Len(p) \in Nat
  BY SeqLength
<1>3. /\ r = [data |-> r.data, size |-> r.size, status |-> r.status]
      /\ r.status = "SUCCESS" /\ r.status \in Statuses
  BY Reasons
<1> HIDE DEF r
<1>4. n \in Nat \ {0} /\ n <= Len(p) /\ at + Len(chars) <= Len(p) /\ at \in Nat
  BY <1>2
<1>5. n = Len(chars) + 1 /\ at = 0
  OBVIOUS
<1> HIDE DEF n, at
<1>6. /\ IsString(t) /\ t.size = n /\ t.status = r.status
      /\ \A i \in 1..Len(p) : t.data[i]
           = IF i = n THEN NUL
             ELSE IF i \in (at + 1)..(at + Len(chars)) THEN chars[i - at] ELSE p[i]
  BY <1>2, <1>3, <1>4, StoreIs
<1> HIDE DEF t
<1>7. ASSUME NEW i \in 1..Len(chars) PROVE t.data[i] = chars[i]
  <2>1. i \in 1..Len(p) /\ i # n /\ i \in (at + 1)..(at + Len(chars)) /\ i - at = i
    BY <1>2, <1>4, <1>5
  <2> QED BY <1>6, <2>1
<1>8. IsCells(t.data) /\ t.size \in 1..Len(t.data) /\ t.data[t.size] = NUL
  BY <1>6 DEF IsString
<1>9. size' = n
  BY <1>1, <1>6
<1> QED BY <1>1, <1>3, <1>5, <1>6, <1>7, <1>8, <1>9

\* A string is made, or not for a reason
Made(chars) ==
  /\ StringInv'
  /\ status' = "SUCCESS" => /\ size' = Len(chars) + 1 /\ size' \in 1..Len(data')
                            /\ IsCells(data')
                            /\ \A i \in 1..Len(chars) : data'[i] = chars[i]

LEMMA InitWithMakes ==
  ASSUME NEW chars, IsCells(chars), NEW c \in Nat, Len(chars) <= c,
         NEW growth \in Nat, NEW threshold \in Nat, InitWith(chars, c, growth, threshold)
  PROVE  Made(chars)
<1>1. CASE growth < 1
  <2>1. data = << >> /\ data' = data /\ status' = "INVALID_ARGUMENT"
    BY <1>1 DEF InitWith
  <2>2. IsCells(data') /\ status' \in Statuses
    BY <2>1, NothingIsSeq, Reasons
  <2>3. IsCells(data)' /\ (status \in Statuses)' /\ ~(data # << >>)'
    BY <2>1, <2>2 DEF IsCells, Cell, Statuses
  <2> QED BY <2>1, <2>3 DEF Made, StringInv
<1>2. CASE ~(growth < 1)
  <2> DEFINE n == Larger(MinimumCapacity, c) + 1
             p == Blank(n)
  <2>1. /\ fixed' = FALSE /\ growth_factor' = growth /\ shrink_threshold' = threshold
        /\ Begin(p, chars)
    BY <1>2 DEF InitWith
  <2>2. n \in Nat /\ n >= c + 1
    BY StringAssumption DEF Larger
  <2> HIDE DEF n
  <2>3. IsCells(p) /\ Len(p) = n /\ Len(chars) \in Nat
    BY <2>2, BlankIs, SeqLength
  <2> HIDE DEF p
  <2>4. Len(chars) + 1 <= Len(p)
    BY <2>2, <2>3
  <2>5. /\ IsCells(data') /\ size' \in 1..Len(data') /\ data'[size'] = NUL
        /\ status' = "SUCCESS" /\ size' = Len(chars) + 1
        /\ \A i \in 1..Len(chars) : data'[i] = chars[i]
    BY <2>1, <2>3, <2>4, BeginIs
  <2>6. Configured'
    <3>1. fixed' \in BOOLEAN
      BY <2>1, Zenon
    <3>2. growth_factor' \in Nat \ {0} /\ shrink_threshold' \in Nat
      BY <1>2, <2>1
    <3> QED BY <3>1, <3>2 DEF Configured
  <2>7. IsCells(data)' /\ (status \in Statuses)' /\ (size \in 1..Len(data))'
        /\ (data[size] = NUL)'
    BY <2>5 DEF IsCells, Cell, Statuses
  <2> QED BY <2>5, <2>6, <2>7 DEF Made, StringInv
<1> QED BY <1>1, <1>2

LEMMA RefuseKeeps ==
  ASSUME data = << >>, NEW why \in Statuses, why # "SUCCESS", Refuse(why), NEW chars
  PROVE  Made(chars)
<1>1. /\ UNCHANGED config /\ data' = data /\ size' = size
      /\ status' = why
  BY DEF Refuse
<1>2. IsCells(data)' /\ (status \in Statuses)' /\ ~(data # << >>)'
  BY <1>1, NothingIsSeq DEF IsCells, Cell, Statuses
<1> QED BY <1>1, <1>2 DEF Made, StringInv

LEMMA BufferWithMakes ==
  ASSUME NEW chars, IsCells(chars), NEW c \in Nat,
         c # 0 => Len(chars) + 1 <= c, BufferWith(chars, c)
  PROVE  Made(chars)
<1>1. CASE c = 0
  <2>1. data = << >> /\ Refuse("INVALID_ARGUMENT")
    BY <1>1 DEF BufferWith
  <2> QED BY <2>1, Reasons, RefuseKeeps
<1>2. CASE c # 0
  <2> DEFINE p == Blank(c)
  <2>1. fixed' = TRUE /\ growth_factor' = 1 /\ shrink_threshold' = 0 /\ Begin(p, chars)
    BY <1>2 DEF BufferWith
  <2>2. IsCells(p) /\ Len(p) = c
    BY BlankIs
  <2> HIDE DEF p
  <2>3. Len(chars) + 1 <= Len(p)
    BY <1>2, <2>2
  <2>4. /\ IsCells(data') /\ size' \in 1..Len(data') /\ data'[size'] = NUL
        /\ status' = "SUCCESS" /\ size' = Len(chars) + 1
        /\ \A i \in 1..Len(chars) : data'[i] = chars[i]
    BY <2>1, <2>2, <2>3, BeginIs
  <2>5. Configured'
    BY <2>1 DEF Configured
  <2>6. IsCells(data)' /\ (status \in Statuses)' /\ (size \in 1..Len(data))'
        /\ (data[size] = NUL)'
    BY <2>4 DEF IsCells, Cell, Statuses
  <2> QED BY <2>4, <2>5, <2>6 DEF Made, StringInv
<1> QED BY <1>1, <1>2

LEMMA Views == \A v \in Sources : IsView(v)
BY StringAssumption, TextIsSeq DEF IsView

LEMMA DuplicateExMakes ==
  ASSUME NEW v \in Sources, NEW c \in Nat, NEW g \in Nat, NEW t \in Nat,
         DuplicateEx(v, c, g, t)
  PROVE  Made(Shown(v))
<1>1. CASE v.size = 0
  <2>1. data = << >> /\ Refuse("INVALID_ARGUMENT")
    BY <1>1 DEF DuplicateEx
  <2> QED BY <2>1, Reasons, RefuseKeeps
<1>2. CASE v.size # 0
  <2> DEFINE chars == Shown(v)
             n == Larger(c, v.size - 1)
  <2>1. InitWith(chars, n, g, t)
    BY <1>2 DEF DuplicateEx
  <2>2. v.size \in Nat /\ IsCells(chars) /\ Len(chars) = v.size - 1
    BY <1>2, Views, ShownIs DEF IsView
  <2>3. n \in Nat /\ Len(chars) <= n
    <3> HIDE DEF chars
    <3> QED BY <1>2, <2>2 DEF Larger
  <2> HIDE DEF chars, n
  <2>4. Made(chars)
    BY <2>1, <2>2, <2>3, InitWithMakes
  <2> QED BY <2>4 DEF chars
<1> QED BY <1>1, <1>2

LEMMA DuplicateBufferMakes ==
  ASSUME NEW v \in Sources, NEW c \in Nat, DuplicateCustomBuffer(v, c)
  PROVE  Made(Shown(v))
<1>1. CASE v.size = 0
  <2>1. data = << >> /\ Refuse("INVALID_ARGUMENT")
    BY <1>1 DEF DuplicateCustomBuffer
  <2> QED BY <2>1, Reasons, RefuseKeeps
<1>2. CASE v.size # 0 /\ c < v.size
  <2>1. data = << >> /\ Refuse("INSUFFICIENT_BUFFER_SIZE")
    BY <1>2 DEF DuplicateCustomBuffer
  <2> QED BY <2>1, Reasons, RefuseKeeps
<1>3. CASE v.size # 0 /\ ~(c < v.size)
  <2> DEFINE chars == Shown(v)
  <2>1. BufferWith(chars, c)
    BY <1>3 DEF DuplicateCustomBuffer
  <2>2. v.size \in Nat /\ IsCells(chars) /\ Len(chars) = v.size - 1
    BY <1>3, Views, ShownIs DEF IsView
  <2> HIDE DEF chars
  <2>3. Len(chars) + 1 <= c
    BY <1>3, <2>2
  <2>4. Made(chars)
    BY <2>1, <2>2, <2>3, BufferWithMakes
  <2> QED BY <2>4 DEF chars
<1> QED BY <1>1, <1>2, <1>3

LEMMA BothShown ==
  ASSUME NEW v \in Sources, NEW w \in Sources, v.size # 0, w.size # 0
  PROVE  /\ v.size \in Nat /\ w.size \in Nat /\ IsCells(Shown(v) \o Shown(w))
         /\ Len(Shown(v) \o Shown(w)) = v.size + w.size - 2
<1> DEFINE p == Shown(v)
           q == Shown(w)
<1>1. /\ v.size \in Nat /\ IsCells(p) /\ Len(p) = v.size - 1
      /\ w.size \in Nat /\ IsCells(q) /\ Len(q) = w.size - 1
  BY Views, ShownIs DEF IsView
<1> HIDE DEF p, q
<1>2. IsCells(p \o q) /\ Len(p \o q) = Len(p) + Len(q)
  BY <1>1, JoinedIsSeq
<1>3. Len(p \o q) = v.size + w.size - 2
  <2>1. Len(p) + Len(q) = v.size + w.size - 2
    BY <1>1, SMTT(30)
  <2> QED BY <1>2, <2>1
<1> QED BY <1>1, <1>2, <1>3 DEF p, q

LEMMA ConcatExMakes ==
  ASSUME NEW v \in Sources, NEW w \in Sources, NEW c \in Nat, NEW g \in Nat,
         NEW t \in Nat, ConcatEx(v, w, c, g, t)
  PROVE  Made(Shown(v) \o Shown(w))
<1>1. CASE v.size = 0 \/ w.size = 0
  <2>1. data = << >> /\ Refuse("INVALID_ARGUMENT")
    BY <1>1 DEF ConcatEx
  <2> QED BY <2>1, Reasons, RefuseKeeps
<1>2. CASE ~(v.size = 0 \/ w.size = 0)
  <2> DEFINE chars == Shown(v) \o Shown(w)
             n == Larger(c, v.size + w.size - 2)
  <2>1. InitWith(chars, n, g, t)
    BY <1>2 DEF ConcatEx
  <2>2. /\ v.size \in Nat /\ w.size \in Nat /\ IsCells(chars)
        /\ Len(chars) = v.size + w.size - 2
    BY <1>2, BothShown
  <2> HIDE DEF chars
  <2>3. n \in Nat /\ Len(chars) <= n
    BY <1>2, <2>2 DEF Larger
  <2> HIDE DEF n
  <2>4. Made(chars)
    BY <2>1, <2>2, <2>3, InitWithMakes
  <2> QED BY <2>4 DEF chars
<1> QED BY <1>1, <1>2

LEMMA ConcatBufferMakes ==
  ASSUME NEW v \in Sources, NEW w \in Sources, NEW c \in Nat,
         ConcatCustomBuffer(v, w, c)
  PROVE  Made(Shown(v) \o Shown(w))
<1>1. CASE v.size = 0 \/ w.size = 0
  <2>1. data = << >> /\ Refuse("INVALID_ARGUMENT")
    BY <1>1 DEF ConcatCustomBuffer
  <2> QED BY <2>1, Reasons, RefuseKeeps
<1>2. CASE ~(v.size = 0 \/ w.size = 0) /\ c < v.size + w.size - 1
  <2>1. data = << >> /\ Refuse("INSUFFICIENT_BUFFER_SIZE")
    BY <1>2 DEF ConcatCustomBuffer
  <2> QED BY <2>1, Reasons, RefuseKeeps
<1>3. CASE ~(v.size = 0 \/ w.size = 0) /\ ~(c < v.size + w.size - 1)
  <2> DEFINE chars == Shown(v) \o Shown(w)
  <2>1. BufferWith(chars, c)
    BY <1>3 DEF ConcatCustomBuffer
  <2>2. /\ v.size \in Nat /\ w.size \in Nat /\ IsCells(chars)
        /\ Len(chars) = v.size + w.size - 2
    BY <1>3, BothShown
  <2> HIDE DEF chars
  <2>3. Len(chars) + 1 <= c
    BY <1>3, <2>2
  <2>4. Made(chars)
    BY <2>1, <2>2, <2>3, BufferWithMakes
  <2> QED BY <2>4 DEF chars
<1> QED BY <1>1, <1>2, <1>3

LEMMA EmptyMakes ==
  ASSUME NEW c \in Nat
  PROVE  /\ \A g, t \in Nat : InitEx(c, g, t) => Made(<< >>)
         /\ InitCustomBuffer(c) => Made(<< >>)
<1> DEFINE chars == << >>
<1>1. IsCells(chars) /\ Len(chars) = 0
  BY NothingIsSeq
<1>2. /\ \A g, t \in Nat : InitEx(c, g, t) => InitWith(chars, c, g, t)
      /\ InitCustomBuffer(c) => BufferWith(chars, c)
  BY DEF InitEx, InitCustomBuffer
<1> HIDE DEF chars
<1>3. ASSUME NEW g \in Nat, NEW t \in Nat, InitEx(c, g, t) PROVE Made(chars)
  <2>1. InitWith(chars, c, g, t) /\ Len(chars) <= c
    BY <1>1, <1>2, <1>3
  <2> QED BY <1>1, <2>1, InitWithMakes
<1>4. ASSUME InitCustomBuffer(c) PROVE Made(chars)
  <2>1. BufferWith(chars, c) /\ (c # 0 => Len(chars) + 1 <= c)
    BY <1>1, <1>2, <1>4
  <2> QED BY <1>1, <2>1, BufferWithMakes
<1> QED BY <1>3, <1>4 DEF chars

LEMMA Parameters ==
  /\ Capacities \subseteq Nat /\ BufferCapacities \subseteq Nat
  /\ GrowthFactors \subseteq Nat /\ ShrinkThresholds \subseteq Nat
BY StringAssumption

LEMMA ConstructMakes == ASSUME Construct PROVE StringInv'
<1>1. ASSUME NEW c \in Capacities, NEW g \in GrowthFactors, NEW t \in ShrinkThresholds,
             \/ InitEx(c, g, t)
             \/ \E v \in Sources : DuplicateEx(v, c, g, t)
             \/ \E v, w \in Sources : ConcatEx(v, w, c, g, t)
      PROVE  StringInv'
  <2>1. c \in Nat /\ g \in Nat /\ t \in Nat
    BY Parameters
  <2>2. CASE InitEx(c, g, t)
    BY <2>1, <2>2, EmptyMakes DEF Made
  <2>3. ASSUME NEW v \in Sources, DuplicateEx(v, c, g, t) PROVE StringInv'
    BY <2>1, <2>3, DuplicateExMakes DEF Made
  <2>4. ASSUME NEW v \in Sources, NEW w \in Sources, ConcatEx(v, w, c, g, t)
        PROVE  StringInv'
    BY <2>1, <2>4, ConcatExMakes DEF Made
  <2> QED BY <1>1, <2>2, <2>3, <2>4
<1>2. ASSUME NEW c \in BufferCapacities,
             \/ InitCustomBuffer(c)
             \/ \E v \in Sources : DuplicateCustomBuffer(v, c)
             \/ \E v, w \in Sources : ConcatCustomBuffer(v, w, c)
      PROVE  StringInv'
  <2>1. c \in Nat
    BY Parameters
  <2>2. CASE InitCustomBuffer(c)
    BY <2>1, <2>2, EmptyMakes DEF Made
  <2>3. ASSUME NEW v \in Sources, DuplicateCustomBuffer(v, c) PROVE StringInv'
    BY <2>1, <2>3, DuplicateBufferMakes DEF Made
  <2>4. ASSUME NEW v \in Sources, NEW w \in Sources, ConcatCustomBuffer(v, w, c)
        PROVE  StringInv'
    BY <2>1, <2>4, ConcatBufferMakes DEF Made
  <2> QED BY <1>2, <2>2, <2>3, <2>4
<1> QED BY <1>1, <1>2 DEF Construct

LEMMA DestroyKeeps == ASSUME StringInv, Destroy PROVE StringInv'
<1>1. /\ status' = "SUCCESS" /\ UNCHANGED config /\ size' = size
      /\ data' = IF fixed THEN data ELSE << >>
  BY DEF Destroy
<1>2. (status \in Statuses)'
  BY <1>1, Reasons DEF Statuses
<1>3. CASE fixed
  <2>1. data' = data
    BY <1>1, <1>3
  <2> QED BY <1>1, <1>2, <2>1 DEF StringInv, Configured, config, IsCells
<1>4. CASE ~fixed
  <2>1. data' = << >>
    BY <1>1, <1>4
  <2>2. IsCells(data)'
    BY <2>1, NothingIsSeq DEF IsCells
  <2> QED BY <1>2, <2>1, <2>2 DEF StringInv
<1> QED BY <1>3, <1>4

-----------------------------------------------------------------------------
(* Every call keeps the invariant *)

LEMMA IndicesAre == Indices \subseteq Nat
BY StringAssumption DEF Indices

LEMMA ExtensionKeeps == ASSUME StringInv, Extension PROVE StringInv'
<1>1. PICK v \in Sources :
        /\ Live
        /\ \/ Call(StringAppend(This, v))
           \/ \E i \in Indices : Call(Insert(This, i, v))
           \/ \E i, n \in 0..v.size :
                \/ Call(AppendEx(This, v, i, n))
                \/ \E k \in Indices : Call(InsertEx(This, k, v, i, n))
  BY DEF Extension
<1>2. IsString(This) /\ Configured /\ IsView(v) /\ 0..v.size \subseteq Nat
  BY <1>1, ThisIsString, Views DEF Live, IsView
<1>4. CASE Call(StringAppend(This, v))
  BY <1>2, <1>4, StringAppendIs, CallKeeps
<1>5. ASSUME NEW i \in Indices, Call(Insert(This, i, v)) PROVE StringInv'
  BY <1>2, <1>5, IndicesAre, InsertIs, CallKeeps
<1>6. ASSUME NEW i \in 0..v.size, NEW n \in 0..v.size, Call(AppendEx(This, v, i, n))
      PROVE  StringInv'
  BY <1>2, <1>6, AppendExIs, CallKeeps
<1>7. ASSUME NEW i \in 0..v.size, NEW n \in 0..v.size, NEW k \in Indices,
             Call(InsertEx(This, k, v, i, n))
      PROVE  StringInv'
  BY <1>2, <1>7, IndicesAre, InsertExIs, CallKeeps
<1> QED BY <1>1, <1>4, <1>5, <1>6, <1>7

LEMMA DeletionKeeps == ASSUME StringInv, Deletion PROVE StringInv'
<1>1. PICK i \in Indices : \/ Call(Truncate(This, i))
                           \/ \E n \in Indices : Call(Delete(This, i, n))
  BY DEF Deletion
<1>2. IsString(This) /\ Configured
  BY ThisIsString DEF Deletion, Live
<1>3. CASE Call(Truncate(This, i))
  BY <1>2, <1>3, IndicesAre, TruncateIs, CallKeeps
<1>4. ASSUME NEW n \in Indices, Call(Delete(This, i, n)) PROVE StringInv'
  BY <1>2, <1>4, IndicesAre, DeleteIs, CallKeeps
<1> QED BY <1>1, <1>3, <1>4

LEMMA CasesAre == Lower \in [Char -> Char] /\ Upper \in [Char -> Char]
BY DEF Lower, Upper, Char

LEMMA ChangeKeeps == ASSUME StringInv, Change PROVE StringInv'
<1>1. PICK i \in Indices :
        \/ \E c \in Letters : Call(SetChar(This, i, c))
        \/ \E n \in Indices : \/ Call(ToLowerCaseEx(This, i, n))
                              \/ Call(ToUpperCaseEx(This, i, n))
  BY DEF Change
<1>2. IsString(This) /\ Configured
  BY ThisIsString DEF Change, Live
<1>3. ASSUME NEW c \in Letters, Call(SetChar(This, i, c)) PROVE StringInv'
  BY <1>2, <1>3, StringAssumption, IndicesAre, SetCharIs, CallKeeps
<1>4. ASSUME NEW n \in Indices, Call(ToLowerCaseEx(This, i, n)) PROVE StringInv'
  <2>1. Call(ForEach(This, i, n, Lower))
    BY <1>4 DEF ToLowerCaseEx
  <2> QED BY <1>2, <2>1, IndicesAre, CasesAre, ForEachIs, CallKeeps
<1>5. ASSUME NEW n \in Indices, Call(ToUpperCaseEx(This, i, n)) PROVE StringInv'
  <2>1. Call(ForEach(This, i, n, Upper))
    BY <1>5 DEF ToUpperCaseEx
  <2> QED BY <1>2, <2>1, IndicesAre, CasesAre, ForEachIs, CallKeeps
<1> QED BY <1>1, <1>3, <1>4, <1>5

LEMMA ManagementKeeps == ASSUME StringInv, Management PROVE StringInv'
<1>1. \/ \E n \in Indices : Call(Resize(This, n))
      \/ \E c \in Capacities : Call(Reserve(This, c))
      \/ Call(ShrinkToFit(This))
      \/ Call(Clear(This))
  BY DEF Management
<1>2. IsString(This) /\ Configured /\ This.status = "SUCCESS"
  BY ThisIsString DEF Management, Live, This
<1>3. ASSUME NEW n \in Indices, Call(Resize(This, n)) PROVE StringInv'
  BY <1>2, <1>3, IndicesAre, ResizeIs, CallKeeps
<1>4. ASSUME NEW c \in Capacities, Call(Reserve(This, c)) PROVE StringInv'
  BY <1>2, <1>4, Parameters, ReserveIs, CallKeeps
<1>5. CASE Call(ShrinkToFit(This))
  BY <1>2, <1>5, ShrinkToFitIs, CallKeeps
<1>6. CASE Call(Clear(This))
  BY <1>2, <1>6, ClearIs, CallKeeps
<1> QED BY <1>1, <1>3, <1>4, <1>5, <1>6

LEMMA CallsKeep == ASSUME StringInv, Calls PROVE StringInv'
BY ConstructMakes, DestroyKeeps, ExtensionKeeps, DeletionKeeps, ChangeKeeps,
   ManagementKeeps DEF Calls

LEMMA NumbersKeep == ASSUME StringInv, Numbers PROVE StringInv'
<1>1. PICK n \in Paddings : Unsigned(n) \/ WithSign(n)
  BY DEF Numbers
<1>2. IsString(This) /\ Configured /\ This.status = "SUCCESS"
  BY ThisIsString DEF Numbers, Live, This
<1>3. n \in Nat
  BY FormatAssumption
<1>4. ASSUME NEW v \in DecValues, v >= 0, Call(AppendDecU(This, v, n)) PROVE StringInv'
  <2>1. v \in Nat
    BY <1>4, FormatAssumption
  <2> QED BY <1>2, <1>3, <1>4, <2>1, AppendDecUIs, CallKeeps
<1>5. ASSUME NEW v \in HexValues, NEW up \in BOOLEAN, v >= 0,
             Call(AppendHexU(This, v, n, up))
      PROVE  StringInv'
  <2>1. v \in Nat
    BY <1>5, FormatAssumption
  <2> QED BY <1>2, <1>3, <1>5, <2>1, AppendHexUIs, CallKeeps
<1>6. ASSUME NEW force \in BOOLEAN, NEW prefix \in Prefixes, NEW v \in DecValues,
             Call(AppendDecS(This, v, n, force, prefix))
      PROVE  StringInv'
  <2>1. v \in Int /\ (prefix = NoPrefix \/ IsView(prefix))
    BY FormatAssumption, TextIsSeq DEF IsView
  <2> QED BY <1>2, <1>3, <1>6, <2>1, AppendDecSIs, CallKeeps
<1>7. ASSUME NEW force \in BOOLEAN, NEW prefix \in Prefixes, NEW v \in HexValues,
             NEW up \in BOOLEAN, Call(AppendHexS(This, v, n, up, force, prefix))
      PROVE  StringInv'
  <2>1. v \in Int /\ (prefix = NoPrefix \/ IsView(prefix))
    BY FormatAssumption, TextIsSeq DEF IsView
  <2> QED BY <1>2, <1>3, <1>7, <2>1, AppendHexSIs, CallKeeps
<1> QED BY <1>1, <1>4, <1>5, <1>6, <1>7 DEF Unsigned, WithSign

LEMMA FormattingKeeps ==
  ASSUME FormatFits = TRUE, StringInv, Formatting
  PROVE  StringInv'
<1>1. PICK chars \in FormatTexts, again \in Again :
        Fits(chars) /\ Call(AppendFormat(This, chars, again))
  BY DEF Formatting
<1>2. IsString(This) /\ Configured
  BY ThisIsString DEF Formatting, Live
<1>3. chars = NoText \/ IsCells(chars)
  BY FormatAssumption, TextIsSeq
<1>4. chars = NoText \/ Len(chars) <= Len(This.data) - This.size
  BY <1>1 DEF Fits, This
<1> QED BY <1>1, <1>2, <1>3, <1>4, AppendFormatIs, CallKeeps

LEMMA StringInvStep ==
  ASSUME FormatFits = TRUE, StringInv, [Next]_vars
  PROVE  StringInv'
<1>1. CASE Next
  BY <1>1, CallsKeep, NumbersKeep, FormattingKeeps DEF Next
<1>2. CASE UNCHANGED vars
  BY <1>2 DEF StringInv, Configured, vars, IsCells, Statuses
<1> QED BY <1>1, <1>2

LEMMA StringInvHolds == ASSUME FormatFits = TRUE PROVE Spec => []StringInv
<1>1. Init => StringInv
  BY NothingIsSeq, Reasons DEF Init, StringInv
<1>2. StringInv /\ [Next]_vars => StringInv'
  BY StringInvStep
<1> QED BY <1>1, <1>2, PTL DEF Spec

-----------------------------------------------------------------------------
(* The theorems.  A view with a NUL behind it is of the caller's making;   *)
(* formatted text has to fit, since what vsnprintf writes past the room    *)
(* there is takes the NUL away (Format.c:384).                             *)

\* A string ends with a NUL within its block after every call, one that
\* reported an error included, whatever the calls before it, however its block
\* grows and shrinks (ZyanString*, ZyanStringAppend*).
THEOREM StringTerminated == ASSUME FormatFits = TRUE PROVE Spec => []Terminated
<1>1. StringInv => Terminated
  BY DEF StringInv, Terminated, Live
<1> QED BY <1>1, StringInvHolds, PTL

\* No call reads or writes outside of the block of the string's vector, which
\* the macro ZYCORE_STRING_NULLTERMINATE and the copies of String.c do not check.
NoOverrun == status # "OVERRUN"

THEOREM StringStaysInBlock == ASSUME FormatFits = TRUE PROVE Spec => []NoOverrun
<1>1. StringInv => NoOverrun
  BY DEF StringInv, NoOverrun, Statuses
<1> QED BY <1>1, StringInvHolds, PTL

LEMMA MadeShows ==
  ASSUME NEW chars, IsCells(chars), Made(chars)
  PROVE  CreatedWith(chars)
<1> SUFFICES ASSUME status' = "SUCCESS" PROVE SubSeq(data', 1, size' - 1) = chars
  BY DEF CreatedWith
<1>1. /\ size' = Len(chars) + 1 /\ size' \in 1..Len(data') /\ IsCells(data')
      /\ \A i \in 1..Len(chars) : data'[i] = chars[i]
  BY DEF Made
<1> DEFINE n == Len(chars)
           d == data'
           q == SubSeq(d, 1, n)
<1>2. n \in Nat /\ Len(d) \in Nat /\ IsCells(d)
  BY <1>1, SeqLength
<1>3. size' - 1 = n /\ n <= Len(d) /\ \A i \in 1..n : d[i] = chars[i]
  BY <1>1, <1>2
<1> HIDE DEF n, d
<1>4. /\ IsCells(q) /\ Len(q) = n + 1 - 1
      /\ \A i \in 1..(n + 1 - 1) : q[i] = d[1 + i - 1]
  BY <1>2, <1>3, PartIsSeq
<1> HIDE DEF q
<1>5. Len(q) = n /\ \A i \in 1..n : q[i] = chars[i]
  <2>1. n + 1 - 1 = n
    BY <1>2
  <2>2. \A i \in 1..n : 1 + i - 1 = i
    BY <1>2
  <2> QED BY <1>3, <1>4, <2>1, <2>2
<1>6. q = [i \in 1..n |-> q[i]] /\ chars = [i \in 1..n |-> chars[i]]
  <2>1. q = [i \in 1..Len(q) |-> q[i]]
    BY <1>4, SeqIsFunction
  <2>2. chars = [i \in 1..Len(chars) |-> chars[i]]
    BY SeqIsFunction
  <2> QED BY <1>5, <2>1, <2>2 DEF n
<1>7. q = chars
  BY <1>5, <1>6
<1> QED BY <1>3, <1>7 DEF q, d

LEMMA ConstructionCreates ==
  data = << >> =>
           \A v \in Sources, c \in Capacities \cup BufferCapacities,
              g \in GrowthFactors, t \in ShrinkThresholds :
             /\ InitEx(c, g, t) \/ InitCustomBuffer(c) => CreatedWith(<< >>)
             /\ DuplicateEx(v, c, g, t) \/ DuplicateCustomBuffer(v, c)
                  => CreatedWith(Shown(v))
             /\ \A w \in Sources :
                  ConcatEx(v, w, c, g, t) \/ ConcatCustomBuffer(v, w, c)
                    => CreatedWith(Shown(v) \o Shown(w))
<1> SUFFICES ASSUME data = << >>,
                    NEW v \in Sources, NEW c \in Capacities \cup BufferCapacities,
                    NEW g \in GrowthFactors, NEW t \in ShrinkThresholds
             PROVE  /\ InitEx(c, g, t) \/ InitCustomBuffer(c) => CreatedWith(<< >>)
                    /\ DuplicateEx(v, c, g, t) \/ DuplicateCustomBuffer(v, c)
                         => CreatedWith(Shown(v))
                    /\ \A w \in Sources :
                         ConcatEx(v, w, c, g, t) \/ ConcatCustomBuffer(v, w, c)
                           => CreatedWith(Shown(v) \o Shown(w))
  OBVIOUS
<1>1. c \in Nat /\ g \in Nat /\ t \in Nat
  BY Parameters
<1>2. ASSUME InitEx(c, g, t) \/ InitCustomBuffer(c) PROVE CreatedWith(<< >>)
  <2>1. Made(<< >>)
    BY <1>1, <1>2, EmptyMakes
  <2> DEFINE none == << >>
  <2>2. Made(none) /\ IsCells(none)
    BY <2>1, NothingIsSeq
  <2> HIDE DEF none
  <2>3. CreatedWith(none)
    BY <2>2, MadeShows
  <2> QED BY <2>3 DEF none
<1>3. ASSUME DuplicateEx(v, c, g, t) \/ DuplicateCustomBuffer(v, c)
      PROVE  CreatedWith(Shown(v))
  <2>1. Made(Shown(v))
    BY <1>1, <1>3, DuplicateExMakes, DuplicateBufferMakes
  <2>2. CASE v.size # 0
    BY <2>1, <2>2, Views, ShownIs, MadeShows
  <2>3. CASE v.size = 0
    <3>1. Refuse("INVALID_ARGUMENT")
      BY <1>3, <2>3 DEF DuplicateEx, DuplicateCustomBuffer
    <3> QED BY <3>1 DEF Refuse, CreatedWith
  <2> QED BY <2>2, <2>3
<1>4. ASSUME NEW w \in Sources, ConcatEx(v, w, c, g, t) \/ ConcatCustomBuffer(v, w, c)
      PROVE  CreatedWith(Shown(v) \o Shown(w))
  <2> DEFINE both == Shown(v) \o Shown(w)
  <2>1. Made(both)
    BY <1>1, <1>4, ConcatExMakes, ConcatBufferMakes
  <2>2. CASE v.size # 0 /\ w.size # 0
    <3>1. IsCells(both)
      BY <2>2, BothShown
    <3> HIDE DEF both
    <3>2. CreatedWith(both)
      BY <2>1, <3>1, MadeShows
    <3> QED BY <3>2 DEF both
  <2>3. CASE v.size = 0 \/ w.size = 0
    <3>1. Refuse("INVALID_ARGUMENT")
      BY <1>4, <2>3 DEF ConcatEx, ConcatCustomBuffer
    <3> QED BY <3>1 DEF Refuse, CreatedWith
  <2> QED BY <2>2, <2>3
<1> QED BY <1>2, <1>3, <1>4

\* A string that is made of others has exactly their characters, in their
\* order, whatever the capacity asked for (ZyanStringDuplicate*,
\* ZyanStringConcat*).
THEOREM StringCreates == Spec => Creates
<1>1. [Next]_vars =>
        [data = << >> =>
           \A v \in Sources, c \in Capacities \cup BufferCapacities,
              g \in GrowthFactors, t \in ShrinkThresholds :
             /\ InitEx(c, g, t) \/ InitCustomBuffer(c) => CreatedWith(<< >>)
             /\ DuplicateEx(v, c, g, t) \/ DuplicateCustomBuffer(v, c)
                  => CreatedWith(Shown(v))
             /\ \A w \in Sources :
                  ConcatEx(v, w, c, g, t) \/ ConcatCustomBuffer(v, w, c)
                    => CreatedWith(Shown(v) \o Shown(w))]_vars
  BY ConstructionCreates
<1> QED BY <1>1, PTL DEF Spec, Creates
-----------------------------------------------------------------------------
(***************************************************************************)
(* Loops.  A loop that counts up from k is a recursive function that goes  *)
(* from k to k + 1 until k is in `stop`, where it answers out[k]: there is *)
(* one when a stop follows every k, and it answers what the first stop     *)
(* does.  One that counts down ends at -1.                                 *)
(***************************************************************************)
LoopsUp(f, stop, out) == f = [k \in Nat |-> IF k \in stop THEN out[k] ELSE f[k + 1]]
StopsUp(stop) == stop \in SUBSET Nat /\ \A k \in Nat : \E j \in stop : k <= j

\* The first stop from k on
NextStop(stop, k, j) == /\ j \in stop /\ j \in Nat /\ k <= j
                        /\ \A i \in Nat : k <= i /\ i < j => i \notin stop

LEMMA NextStopIs ==
  ASSUME NEW stop, StopsUp(stop), NEW k \in Nat
  PROVE  \E j : NextStop(stop, k, j)
<1> DEFINE T == {j \in stop : k <= j}
<1>1. T \in SUBSET Nat /\ T # {}
  BY DEF StopsUp
<1>2. PICK m \in T : \A n \in T : m <= n
  <2> HIDE DEF T
  <2> QED BY <1>1, LeastNatural
<1>3. m \in stop /\ m \in Nat /\ k <= m
  BY <1>1
<1>4. \A i \in Nat : k <= i /\ i < m => i \notin stop
  BY <1>2, <1>3
<1> QED BY <1>3, <1>4 DEF NextStop

LEMMA LoopUpExists ==
  ASSUME NEW stop, StopsUp(stop), NEW out
  PROVE  \E f : LoopsUp(f, stop, out)
<1> DEFINE next(k) == CHOOSE j : NextStop(stop, k, j)
           f == [k \in Nat |-> out[next(k)]]
<1>1. \A k \in Nat : NextStop(stop, k, next(k))
  BY NextStopIs
<1> HIDE DEF next
<1>2. ASSUME NEW k \in Nat PROVE f[k] = IF k \in stop THEN out[k] ELSE f[k + 1]
  <2>1. NextStop(stop, k, next(k)) /\ NextStop(stop, k + 1, next(k + 1))
    BY <1>1
  <2>2. CASE k \in stop
    <3>1. next(k) = k
      BY <2>1, <2>2 DEF NextStop
    <3> QED BY <2>2, <3>1
  <2>3. CASE k \notin stop
    <3> DEFINE a == next(k)
               b == next(k + 1)
    <3>1. NextStop(stop, k, a) /\ NextStop(stop, k + 1, b)
      BY <2>1
    <3> HIDE DEF a, b
    <3>2. a \in Nat /\ b \in Nat /\ k <= a /\ k + 1 <= b /\ a # k
      BY <2>3, <3>1 DEF NextStop
    <3>3. ~(a < b) /\ ~(b < a)
      BY <3>1, <3>2 DEF NextStop
    <3>4. a = b
      BY <3>2, <3>3
    <3> QED BY <2>3, <3>4 DEF a, b
  <2> QED BY <2>2, <2>3
<1>3. f = [k \in Nat |-> f[k]]
  OBVIOUS
<1> HIDE DEF f
<1>4. f = [k \in Nat |-> IF k \in stop THEN out[k] ELSE f[k + 1]]
  BY <1>2, <1>3
<1> QED BY <1>4 DEF LoopsUp

LEMMA LoopUpEnds ==
  ASSUME NEW stop, NEW out, NEW f, StopsUp(stop), LoopsUp(f, stop, out), NEW k \in Nat
  PROVE  \E j : NextStop(stop, k, j) /\ f[k] = out[j]
<1>1. PICK j : NextStop(stop, k, j)
  BY NextStopIs
<1>2. \A i \in Nat : f[i] = IF i \in stop THEN out[i] ELSE f[i + 1]
  BY DEF LoopsUp
<1> DEFINE T == {i \in Nat : k + i <= j => f[k + i] = f[k]}
<1>3. 0 \in T
  OBVIOUS
<1>4. ASSUME NEW i \in T PROVE i + 1 \in T
  <2>1. i \in Nat /\ (k + i <= j => f[k + i] = f[k])
    OBVIOUS
  <2>2. CASE k + (i + 1) <= j
    <3>1. j \in Nat /\ k + i \in Nat /\ k + i < j /\ k <= k + i
      BY <1>1, <2>1, <2>2 DEF NextStop
    <3>2. k + i \notin stop
      BY <1>1, <3>1 DEF NextStop
    <3>3. f[k + i] = f[(k + i) + 1]
      BY <1>2, <3>1, <3>2
    <3>4. (k + i) + 1 = k + (i + 1)
      BY <2>1
    <3> QED BY <2>1, <3>1, <3>3, <3>4
  <2>3. CASE ~(k + (i + 1) <= j)
    BY <2>1, <2>3
  <2> QED BY <2>2, <2>3
<1> HIDE DEF T
<1>5. T = Nat
  BY <1>3, <1>4, Induction DEF T
<1>6. j \in Nat /\ k <= j /\ j \in stop
  BY <1>1 DEF NextStop
<1>7. j - k \in T /\ k + (j - k) = j /\ k + (j - k) <= j
  BY <1>5, <1>6
<1>8. f[j] = f[k]
  BY <1>7 DEF T
<1> QED BY <1>1, <1>2, <1>6, <1>8

Down == Nat \cup {-1}
LoopsDown(f, stop, out) == f = [s \in Down |-> IF s \in stop THEN out[s] ELSE f[s - 1]]
StopsDown(stop) == stop \in SUBSET Down /\ -1 \in stop

\* The first stop from s down
PreviousStop(stop, s, j) == /\ j \in stop /\ j \in Down /\ j <= s
                            /\ \A i \in Down : j < i /\ i <= s => i \notin stop

LEMMA PreviousStopIs ==
  ASSUME NEW stop, StopsDown(stop), NEW s \in Down
  PROVE  \E j : PreviousStop(stop, s, j)
<1> DEFINE T == {n \in Nat : \E j : PreviousStop(stop, n - 1, j)}
<1>1. 0 \in T
  <2>1. PreviousStop(stop, -1, -1)
    BY DEF StopsDown, PreviousStop, Down
  <2> QED BY <2>1
<1>2. ASSUME NEW n \in T PROVE n + 1 \in T
  <2>1. n \in Nat
    OBVIOUS
  <2>2. PICK j : PreviousStop(stop, n - 1, j)
    OBVIOUS
  <2>3. CASE n \in stop
    <3>1. PreviousStop(stop, n, n)
      BY <2>1, <2>3 DEF PreviousStop, Down
    <3> QED BY <2>1, <3>1
  <2>4. CASE n \notin stop
    <3>1. PreviousStop(stop, n, j)
      BY <2>1, <2>2, <2>4 DEF PreviousStop, Down
    <3> QED BY <2>1, <3>1
  <2> QED BY <2>3, <2>4
<1> HIDE DEF T
<1>3. T = Nat
  BY <1>1, <1>2, Induction DEF T
<1>4. s + 1 \in T /\ (s + 1) - 1 = s
  BY <1>3 DEF Down
<1> QED BY <1>4 DEF T

LEMMA LoopDownExists ==
  ASSUME NEW stop, StopsDown(stop), NEW out
  PROVE  \E f : LoopsDown(f, stop, out)
<1> DEFINE prev(s) == CHOOSE j : PreviousStop(stop, s, j)
           f == [s \in Down |-> out[prev(s)]]
<1>1. \A s \in Down : PreviousStop(stop, s, prev(s))
  BY PreviousStopIs
<1> HIDE DEF prev
<1>2. ASSUME NEW s \in Down PROVE f[s] = IF s \in stop THEN out[s] ELSE f[s - 1]
  <2>1. PreviousStop(stop, s, prev(s))
    BY <1>1
  <2>2. CASE s \in stop
    <3>1. prev(s) = s
      BY <2>1, <2>2 DEF PreviousStop, Down
    <3> QED BY <2>2, <3>1
  <2>3. CASE s \notin stop
    <3> DEFINE a == prev(s)
               b == prev(s - 1)
    <3>1. s - 1 \in Down
      BY <2>3 DEF StopsDown, Down
    <3>2. PreviousStop(stop, s, a) /\ PreviousStop(stop, s - 1, b)
      BY <1>1, <3>1
    <3> HIDE DEF a, b
    <3>3. a \in Int /\ b \in Int /\ s \in Int /\ a <= s /\ b <= s - 1 /\ a # s
          /\ a \in Down /\ b \in Down
      BY <2>3, <3>2 DEF PreviousStop, Down
    <3>4. ~(a < b) /\ ~(b < a)
      BY <3>2, <3>3 DEF PreviousStop
    <3>5. a = b
      BY <3>3, <3>4
    <3> QED BY <2>3, <3>1, <3>5 DEF a, b
  <2> QED BY <2>2, <2>3
<1>3. f = [s \in Down |-> f[s]]
  OBVIOUS
<1> HIDE DEF f
<1>4. f = [s \in Down |-> IF s \in stop THEN out[s] ELSE f[s - 1]]
  BY <1>2, <1>3
<1> QED BY <1>4 DEF LoopsDown

LEMMA LoopDownEnds ==
  ASSUME NEW stop, NEW out, NEW f, StopsDown(stop), LoopsDown(f, stop, out), NEW s \in Down
  PROVE  \E j : PreviousStop(stop, s, j) /\ f[s] = out[j]
<1>1. PICK j : PreviousStop(stop, s, j)
  BY PreviousStopIs
<1>2. \A i \in Down : f[i] = IF i \in stop THEN out[i] ELSE f[i - 1]
  BY DEF LoopsDown
<1> DEFINE T == {i \in Nat : j <= s - i => f[s - i] = f[s]}
<1>0. j \in Int /\ s \in Int /\ j >= -1 /\ j <= s /\ j \in stop /\ j \in Down
  BY <1>1 DEF PreviousStop, Down
<1>3. 0 \in T
  BY <1>0
<1>4. ASSUME NEW i \in T PROVE i + 1 \in T
  <2>1. i \in Nat /\ (j <= s - i => f[s - i] = f[s])
    OBVIOUS
  <2>2. CASE j <= s - (i + 1)
    <3>1. s - i \in Down /\ j < s - i /\ s - i <= s
      BY <1>0, <2>1, <2>2 DEF Down
    <3>2. s - i \notin stop
      BY <1>1, <3>1 DEF PreviousStop
    <3>3. f[s - i] = f[(s - i) - 1]
      BY <1>2, <3>1, <3>2
    <3>4. (s - i) - 1 = s - (i + 1) /\ j <= s - i
      BY <1>0, <2>1, <2>2
    <3> QED BY <2>1, <3>3, <3>4
  <2>3. CASE ~(j <= s - (i + 1))
    BY <2>1, <2>3
  <2> QED BY <2>2, <2>3
<1> HIDE DEF T
<1>5. T = Nat
  BY <1>3, <1>4, Induction DEF T
<1>7. s - j \in T /\ s - (s - j) = j /\ j <= s - (s - j)
  BY <1>0, <1>5
<1>8. f[j] = f[s]
  BY <1>7 DEF T
<1> QED BY <1>0, <1>1, <1>2, <1>8

-----------------------------------------------------------------------------
(* Characters *)

Low(c, fold) == IF fold THEN Lower[c] ELSE c

\* What the loops compare is the same up to its case, but for characters that
\* only their sixth bit tells apart and that are no letters
LEMMA SameWhenFolded ==
  ASSUME NEW c \in Char, NEW d \in Char, NEW fold, Low(c, fold) = Low(d, fold)
  PROVE  Same(c, d, fold)
<1>1. CASE ~fold
  BY <1>1 DEF Low, Same
<1>2. CASE fold
  <2>1. c \in 0..127 /\ d \in 0..127
    BY DEF Char
  <2>2. Lower[c] = (IF c \in 65..90 THEN c + 32 ELSE c)
        /\ Lower[d] = (IF d \in 65..90 THEN d + 32 ELSE d)
    BY DEF Lower
  <2>3. Lower[c] = Lower[d]
    BY <1>2 DEF Low
  <2>4. c = d \/ (c \in 65..90 /\ d = c + 32) \/ (d \in 65..90 /\ c = d + 32)
    BY <2>1, <2>2, <2>3
  <2>5. ASSUME NEW x \in 65..90 PROVE Flipped(x) = x + 32 /\ Flipped(x + 32) = x
    <3>1. x \div 32 = 2 /\ (x + 32) \div 32 = 3
      OBVIOUS
    <3>2. 2 % 2 = 0 /\ 3 % 2 = 1 /\ (x + 32) - 32 = x
      OBVIOUS
    <3> QED BY <3>1, <3>2 DEF Flipped
  <2> QED BY <1>2, <2>4, <2>5 DEF Same
<1> QED BY <1>1, <1>2

-----------------------------------------------------------------------------
(* Searching *)

\* What has a text that ends with its first NUL
IsText(v) ==
  /\ v.size \in Nat \ {0} /\ IsCells(v.data) /\ v.size <= Len(v.data)
  /\ v.data[v.size] = NUL /\ \A i \in 1..(v.size - 1) : v.data[i] # NUL

LEMMA TextEnds ==
  ASSUME NEW v, IsText(v)
  PROVE  /\ v.size - 1 \in Nat /\ At(v, v.size - 1) = NUL
         /\ \A k \in 0..(v.size - 2) : At(v, k) # NUL
<1>1. v.size \in Nat /\ v.size >= 1 /\ Len(v.data) \in Nat /\ v.size <= Len(v.data)
      /\ v.data[v.size] = NUL
  BY SeqLength DEF IsText
<1>2. v.size - 1 < Len(v.data) /\ (v.size - 1) + 1 = v.size
  BY <1>1
<1>3. ASSUME NEW k \in 0..(v.size - 2) PROVE At(v, k) # NUL
  <2>1. k + 1 \in 1..(v.size - 1) /\ k < Len(v.data)
    BY <1>1
  <2> QED BY <2>1 DEF At, IsText
<1> QED BY <1>1, <1>2, <1>3 DEF At

\* The needle stands at p
StandsAt(h, needle, p, fold) ==
  \A k \in 0..(needle.size - 2) : Same(At(h, p + k), At(needle, k), fold)

\* A match that is found is one within the range, one that leaves it does not
\* fit
LEMMA LMatchIs ==
  ASSUME NEW h, NEW needle, IsText(needle), NEW s \in Nat, NEW end \in Nat, NEW fold
  PROVE  LET m == LMatch(h, needle, s, end, fold)
             n == needle.size - 1
         IN  /\ m = "found" <=> s + n <= end /\ StandsAt(h, needle, s, fold)
             /\ m = "left" => s + n > end
<1> DEFINE n == needle.size - 1
           match == CHOOSE f : f =
             [k \in Nat |->
                IF s + k > end THEN "left"
                ELSE IF At(needle, k) = NUL THEN "found"
                ELSE IF ~Same(At(h, s + k), At(needle, k), fold) THEN "no"
                ELSE f[k + 1]]
           stop == {k \in Nat : \/ s + k > end \/ At(needle, k) = NUL
                                \/ ~Same(At(h, s + k), At(needle, k), fold)}
           out == [k \in Nat |-> IF s + k > end THEN "left"
                                 ELSE IF At(needle, k) = NUL THEN "found" ELSE "no"]
<1>1. LMatch(h, needle, s, end, fold) = match[0]
  BY Zenon DEF LMatch
<1>2. n \in Nat /\ At(needle, n) = NUL /\ \A k \in 0..(n - 1) : At(needle, k) # NUL
  <2>1. needle.size - 1 - 1 = needle.size - 2
    BY DEF IsText
  <2> QED BY <2>1, TextEnds
<1>3. StopsUp(stop)
  <2>1. ASSUME NEW k \in Nat PROVE \E j \in stop : k <= j
    <3>1. end + 1 + k \in stop /\ k <= end + 1 + k
      OBVIOUS
    <3> QED BY <3>1
  <2> QED BY <2>1 DEF StopsUp
<1>4. ASSUME NEW f
      PROVE  LoopsUp(f, stop, out) <=>
               f = [k \in Nat |->
                      IF s + k > end THEN "left"
                      ELSE IF At(needle, k) = NUL THEN "found"
                      ELSE IF ~Same(At(h, s + k), At(needle, k), fold) THEN "no"
                      ELSE f[k + 1]]
  <2>1. \A k \in Nat : (IF k \in stop THEN out[k] ELSE f[k + 1])
          = IF s + k > end THEN "left"
            ELSE IF At(needle, k) = NUL THEN "found"
            ELSE IF ~Same(At(h, s + k), At(needle, k), fold) THEN "no"
            ELSE f[k + 1]
    OBVIOUS
  <2>2. [k \in Nat |-> IF k \in stop THEN out[k] ELSE f[k + 1]]
          = [k \in Nat |-> IF s + k > end THEN "left"
                           ELSE IF At(needle, k) = NUL THEN "found"
                           ELSE IF ~Same(At(h, s + k), At(needle, k), fold) THEN "no"
                           ELSE f[k + 1]]
    <3> HIDE DEF stop, out
    <3> QED BY <2>1
  <2> HIDE DEF stop, out
  <2> QED BY <2>2 DEF LoopsUp
<1>5. LoopsUp(match, stop, out)
  <2>1. \E f : LoopsUp(f, stop, out)
    <3> HIDE DEF stop, out
    <3> QED BY <1>3, LoopUpExists
  <2> HIDE DEF stop, out
  <2> QED BY <1>4, <2>1, Zenon
<1> HIDE DEF match
<1>6. PICK j : NextStop(stop, 0, j) /\ match[0] = out[j]
  <2> HIDE DEF stop, out
  <2> QED BY <1>3, <1>5, LoopUpEnds
<1>7. /\ j \in Nat /\ j \in stop /\ \A i \in Nat : i < j => i \notin stop
  BY <1>6 DEF NextStop
<1>8. \A i \in Nat : i < j =>
        s + i <= end /\ At(needle, i) # NUL /\ Same(At(h, s + i), At(needle, i), fold)
  BY <1>7
<1>9. j <= n
  BY <1>2, <1>7, <1>8
<1>10. needle.size - 2 = n - 1
  BY DEF IsText
<1> DEFINE m == match[0]
<1>11. m = IF s + j > end THEN "left" ELSE IF At(needle, j) = NUL THEN "found" ELSE "no"
  BY <1>6, <1>7
<1>12. s + j > end \/ At(needle, j) = NUL \/ ~Same(At(h, s + j), At(needle, j), fold)
  BY <1>7
<1> HIDE DEF m, stop, out, n
<1>13. m = "left" => s + n > end
  BY <1>2, <1>7, <1>9, <1>11
<1>14. ASSUME m = "found" PROVE s + n <= end /\ StandsAt(h, needle, s, fold)
  <2>1. s + j <= end /\ At(needle, j) = NUL
    BY <1>7, <1>11, <1>14
  <2>2. j = n
    BY <1>2, <1>7, <1>9, <2>1
  <2>3. \A k \in 0..(n - 1) : Same(At(h, s + k), At(needle, k), fold)
    BY <1>2, <1>8, <2>2
  <2> QED BY <1>10, <2>1, <2>2, <2>3 DEF StandsAt
<1>15. ASSUME s + n <= end, StandsAt(h, needle, s, fold) PROVE m = "found"
  <2>1. \A k \in 0..(n - 1) : Same(At(h, s + k), At(needle, k), fold)
    BY <1>10, <1>15 DEF StandsAt
  <2>2. s + j <= end
    BY <1>2, <1>7, <1>9, <1>15
  <2>3. At(needle, j) = NUL
    <3>1. CASE j = n
      BY <1>2, <3>1
    <3>2. CASE j # n
      <4>1. j \in 0..(n - 1)
        BY <1>2, <1>7, <1>9, <3>2
      <4> QED BY <1>12, <2>1, <2>2, <4>1, <1>7
    <3> QED BY <3>1, <3>2
  <2> QED BY <1>7, <1>11, <2>2, <2>3
<1> QED BY <1>1, <1>13, <1>14, <1>15 DEF m, n

LEMMA RMatchIs ==
  ASSUME NEW h, NEW needle, needle.size \in Nat \ {0, 1}, NEW s \in Nat,
         NEW begin \in Nat, NEW fold
  PROVE  LET m == RMatch(h, needle, s, begin, fold)
             last == needle.size - 2
         IN  /\ m = "found" <=> begin <= s - last /\ StandsAt(h, needle, s - last, fold)
             /\ m = "left" => s - last < begin
<1> DEFINE last == needle.size - 2
           match == CHOOSE f : f =
             [k \in Nat |->
                IF k > last THEN "found"
                ELSE IF s - k < begin THEN "left"
                ELSE IF ~Same(At(h, s - k), At(needle, last - k), fold) THEN "no"
                ELSE f[k + 1]]
           stop == {k \in Nat : \/ k > last \/ s - k < begin
                                \/ ~Same(At(h, s - k), At(needle, last - k), fold)}
           out == [k \in Nat |-> IF k > last THEN "found"
                                 ELSE IF s - k < begin THEN "left" ELSE "no"]
<1>1. RMatch(h, needle, s, begin, fold) = match[0]
  BY Zenon DEF RMatch
<1>2. last \in Nat
  OBVIOUS
<1>3. StopsUp(stop)
  <2>1. ASSUME NEW k \in Nat PROVE \E j \in stop : k <= j
    <3>1. last + 1 + k \in stop /\ k <= last + 1 + k
      BY <1>2
    <3> QED BY <3>1
  <2> QED BY <2>1 DEF StopsUp
<1>4. ASSUME NEW f
      PROVE  LoopsUp(f, stop, out) <=>
               f = [k \in Nat |->
                      IF k > last THEN "found"
                      ELSE IF s - k < begin THEN "left"
                      ELSE IF ~Same(At(h, s - k), At(needle, last - k), fold) THEN "no"
                      ELSE f[k + 1]]
  <2>1. \A k \in Nat : (IF k \in stop THEN out[k] ELSE f[k + 1])
          = IF k > last THEN "found"
            ELSE IF s - k < begin THEN "left"
            ELSE IF ~Same(At(h, s - k), At(needle, last - k), fold) THEN "no"
            ELSE f[k + 1]
    OBVIOUS
  <2>2. [k \in Nat |-> IF k \in stop THEN out[k] ELSE f[k + 1]]
          = [k \in Nat |-> IF k > last THEN "found"
                           ELSE IF s - k < begin THEN "left"
                           ELSE IF ~Same(At(h, s - k), At(needle, last - k), fold) THEN "no"
                           ELSE f[k + 1]]
    <3> HIDE DEF stop, out, last
    <3> QED BY <2>1
  <2> HIDE DEF stop, out, last
  <2> QED BY <2>2 DEF LoopsUp
<1>5. LoopsUp(match, stop, out)
  <2>1. \E f : LoopsUp(f, stop, out)
    <3> HIDE DEF stop, out
    <3> QED BY <1>3, LoopUpExists
  <2> HIDE DEF stop, out, last
  <2> QED BY <1>4, <2>1, Zenon
<1> HIDE DEF match
<1>6. PICK j : NextStop(stop, 0, j) /\ match[0] = out[j]
  <2> HIDE DEF stop, out
  <2> QED BY <1>3, <1>5, LoopUpEnds
<1>7. /\ j \in Nat /\ j \in stop /\ \A i \in Nat : i < j => i \notin stop
  BY <1>6 DEF NextStop
<1> DEFINE m == match[0]
<1>8. \A i \in Nat : i < j =>
        i <= last /\ begin <= s - i /\ Same(At(h, s - i), At(needle, last - i), fold)
  BY <1>2, <1>7
<1>11. m = IF j > last THEN "found" ELSE IF s - j < begin THEN "left" ELSE "no"
  BY <1>6, <1>7
<1>12. j > last \/ s - j < begin \/ ~Same(At(h, s - j), At(needle, last - j), fold)
  BY <1>7
<1> HIDE DEF m, stop, out
<1>9. j <= last + 1
  BY <1>2, <1>7, <1>8
<1>13. m = "left" => s - last < begin
  BY <1>2, <1>7, <1>11
<1>14. ASSUME m = "found" PROVE begin <= s - last /\ StandsAt(h, needle, s - last, fold)
  <2>1. j > last
    BY <1>11, <1>14
  <2>2. begin <= s - last
    BY <1>2, <1>8, <2>1
  <2>3. ASSUME NEW k \in 0..last PROVE Same(At(h, (s - last) + k), At(needle, k), fold)
    <3>1. /\ last - k \in Nat /\ last - k < j /\ last - (last - k) = k
          /\ s - (last - k) = (s - last) + k
      BY <1>2, <1>7, <2>1
    <3> HIDE DEF last
    <3> QED BY <1>8, <3>1
  <2> QED BY <2>2, <2>3 DEF StandsAt
<1>15. ASSUME begin <= s - last, StandsAt(h, needle, s - last, fold) PROVE m = "found"
  <2>1. CASE j > last
    BY <1>11, <2>1
  <2>2. CASE j <= last
    <3>1. /\ last - j \in 0..last /\ (s - last) + (last - j) = s - j /\ ~(s - j < begin)
          /\ ~(j > last)
      BY <1>2, <1>7, <1>15, <2>2
    <3>2. Same(At(h, (s - last) + (last - j)), At(needle, last - j), fold)
      BY <1>15, <3>1 DEF StandsAt
    <3> HIDE DEF last
    <3>3. Same(At(h, s - j), At(needle, last - j), fold)
      BY <3>1, <3>2
    <3> QED BY <1>12, <3>1, <3>3
  <2> QED BY <1>2, <1>7, <2>1, <2>2
<1> QED BY <1>1, <1>13, <1>14, <1>15 DEF m

\* Where the needle stands within the characters from..to - 1
Places(h, needle, from, to, fold) ==
  {p \in Nat : /\ needle.size # 1 /\ from <= p /\ p + (needle.size - 1) <= to
               /\ StandsAt(h, needle, p, fold)}

IsFirst(r, ps) == IF ps = {} THEN r = NotFound ELSE r \in ps /\ \A q \in ps : r <= q
IsLast(r, ps) == IF ps = {} THEN r = NotFound ELSE r \in ps /\ \A q \in ps : r >= q

LEMMA LPosExIs ==
  ASSUME NEW h, h.size \in Nat \ {0}, NEW needle, IsText(needle),
         NEW index \in Nat, NEW count \in Nat, index + count < h.size, NEW fold
  PROVE  IsFirst(LPosEx(h, needle, index, count, fold),
                 Places(h, needle, index, index + count, fold))
<1> DEFINE n == needle.size - 1
           end == index + count
           ps == Places(h, needle, index, end, fold)
           match(s) == LMatch(h, needle, s, end, fold)
           scan == CHOOSE f : f =
             [s \in Nat |->
                IF s + 1 >= h.size THEN NotFound
                ELSE IF ~Same(At(h, s), At(needle, 0), fold) THEN f[s + 1]
                ELSE CASE match(s) = "left"  -> NotFound
                       [] match(s) = "found" -> s
                       [] OTHER -> f[s + 1]]
           stop == {s \in Nat : \/ s + 1 >= h.size
                                \/ /\ Same(At(h, s), At(needle, 0), fold)
                                   /\ match(s) = "left" \/ match(s) = "found"}
           out == [s \in Nat |-> IF s + 1 >= h.size \/ match(s) = "left"
                                   THEN NotFound ELSE s]
<1>1. LPosEx(h, needle, index, count, fold)
        = IF end >= h.size THEN OutOfRange
          ELSE IF Hopeless(h, needle) THEN NotFound ELSE scan[index]
  BY Zenon DEF LPosEx
<1>2. needle.size \in Nat /\ n \in Nat /\ needle.size = n + 1 /\ needle.size - 2 = n - 1
  BY DEF IsText
<1>3. \A p : p \in ps <=> /\ p \in Nat /\ n # 0 /\ index <= p /\ p + n <= end
                          /\ StandsAt(h, needle, p, fold)
  <2>1. needle.size # 1 <=> n # 0
    BY <1>2
  <2> QED BY <2>1 DEF Places
<1>4. CASE Hopeless(h, needle)
  <2>1. ASSUME NEW p \in ps PROVE FALSE
    BY <1>2, <1>3, <1>4 DEF Hopeless
  <2>2. ps = {}
    BY <2>1
  <2> HIDE DEF ps
  <2> QED BY <1>1, <1>4, <2>2 DEF IsFirst, ps
<1>5. CASE ~Hopeless(h, needle)
  <2>0. n >= 1 /\ n - 1 >= 0
    BY <1>2, <1>5 DEF Hopeless
  <2>1. StopsUp(stop)
    <3>1. ASSUME NEW k \in Nat PROVE \E j \in stop : k <= j
      <4>1. h.size + k \in stop /\ k <= h.size + k
        OBVIOUS
      <4> QED BY <4>1
    <3> QED BY <3>1 DEF StopsUp
  <2>2. ASSUME NEW f
        PROVE  LoopsUp(f, stop, out) <=>
                 f = [s \in Nat |->
                        IF s + 1 >= h.size THEN NotFound
                        ELSE IF ~Same(At(h, s), At(needle, 0), fold) THEN f[s + 1]
                        ELSE CASE match(s) = "left"  -> NotFound
                               [] match(s) = "found" -> s
                               [] OTHER -> f[s + 1]]
    <3> HIDE DEF match
    <3>1. \A s \in Nat : (IF s \in stop THEN out[s] ELSE f[s + 1])
            = IF s + 1 >= h.size THEN NotFound
              ELSE IF ~Same(At(h, s), At(needle, 0), fold) THEN f[s + 1]
              ELSE CASE match(s) = "left"  -> NotFound
                     [] match(s) = "found" -> s
                     [] OTHER -> f[s + 1]
      OBVIOUS
    <3>2. [s \in Nat |-> IF s \in stop THEN out[s] ELSE f[s + 1]]
            = [s \in Nat |->
                 IF s + 1 >= h.size THEN NotFound
                 ELSE IF ~Same(At(h, s), At(needle, 0), fold) THEN f[s + 1]
                 ELSE CASE match(s) = "left"  -> NotFound
                        [] match(s) = "found" -> s
                        [] OTHER -> f[s + 1]]
      <4> HIDE DEF stop, out
      <4> QED BY <3>1
    <3> HIDE DEF stop, out
    <3> QED BY <3>2 DEF LoopsUp
  <2>3. LoopsUp(scan, stop, out)
    <3>1. \E f : LoopsUp(f, stop, out)
      <4> HIDE DEF stop, out
      <4> QED BY <2>1, LoopUpExists
    <3> HIDE DEF stop, out, match
    <3> QED BY <2>2, <3>1, Zenon
  <2> HIDE DEF scan
  <2>4. PICK j : NextStop(stop, index, j) /\ scan[index] = out[j]
    <3> HIDE DEF stop, out
    <3> QED BY <2>1, <2>3, LoopUpEnds
  <2>5. /\ j \in Nat /\ j \in stop /\ index <= j
        /\ \A i \in Nat : index <= i /\ i < j => i \notin stop
    BY <2>4 DEF NextStop
  <2>6. \A s \in Nat : /\ match(s) = "found" <=> s + n <= end /\ StandsAt(h, needle, s, fold)
                       /\ match(s) = "left" => s + n > end
    BY LMatchIs
  <2> HIDE DEF match
  <2>7. ASSUME NEW p \in ps PROVE j <= p
    <3>1. p \in Nat /\ index <= p /\ p + n <= end /\ StandsAt(h, needle, p, fold)
      BY <1>3
    <3>2. p + 0 = p /\ 0 \in 0..(n - 1)
      BY <2>0, <3>1
    <3>3. Same(At(h, p), At(needle, 0), fold)
      BY <1>2, <3>1, <3>2 DEF StandsAt
    <3>4. match(p) = "found"
      BY <2>6, <3>1
    <3>5. p \in stop
      BY <3>1, <3>3, <3>4
    <3> HIDE DEF stop
    <3> QED BY <2>5, <3>1, <3>5
  <2>8. LPosEx(h, needle, index, count, fold) = out[j]
    <3> DEFINE answer == LPosEx(h, needle, index, count, fold)
               o == out[j]
               sc == scan[index]
    <3>1. sc = o /\ answer = IF end >= h.size THEN OutOfRange
                             ELSE IF Hopeless(h, needle) THEN NotFound ELSE sc
      BY <1>1, <2>4
    <3>2. ~(end >= h.size)
      OBVIOUS
    <3> HIDE DEF answer, o, sc, end
    <3>3. answer = o
      BY <1>5, <3>1, <3>2
    <3> QED BY <3>3 DEF answer, o
  <2>9. CASE j + 1 >= h.size \/ match(j) = "left"
    <3>1. out[j] = NotFound
      BY <2>5, <2>9
    <3> HIDE DEF stop, out
    <3>2. j + n > end
      <4>1. CASE match(j) = "left"
        BY <2>5, <2>6, <4>1
      <4>2. CASE j + 1 >= h.size
        <5>1. end \in Nat /\ end < h.size /\ h.size \in Nat
          OBVIOUS
        <5> HIDE DEF end, n
        <5> QED BY <1>2, <2>0, <2>5, <4>2, <5>1
      <4> QED BY <2>9, <4>1, <4>2
    <3>3. ASSUME NEW p \in ps PROVE FALSE
      <4>1. p \in Nat /\ p + n <= end /\ j <= p
        BY <1>3, <2>7
      <4> QED BY <1>2, <2>5, <3>2, <4>1
    <3>4. ps = {}
      BY <3>3
    <3> HIDE DEF ps
    <3> QED BY <2>8, <3>1, <3>4 DEF IsFirst, ps
  <2>10. CASE ~(j + 1 >= h.size) /\ match(j) # "left"
    <3>1. out[j] = j /\ match(j) = "found"
      BY <2>5, <2>10
    <3> HIDE DEF ps, out, stop
    <3>2. j \in ps
      <4>1. j + n <= end /\ StandsAt(h, needle, j, fold)
        BY <2>5, <2>6, <3>1
      <4>2. n # 0
        BY <2>0
      <4> QED BY <1>3, <2>5, <4>1, <4>2
    <3>3. IsFirst(j, ps)
      BY <2>7, <3>2 DEF IsFirst
    <3> QED BY <2>8, <3>1, <3>3 DEF ps
  <2> QED BY <2>9, <2>10
<1> QED BY <1>4, <1>5

LEMMA RPosExIs ==
  ASSUME NEW h, h.size \in Nat \ {0}, NEW needle, needle.size \in Nat \ {0},
         NEW index \in Nat, NEW count \in Nat, index < h.size, count <= index, NEW fold
  PROVE  IsLast(RPosEx(h, needle, index, count, fold),
                Places(h, needle, index - count, index, fold))
<1> DEFINE last == needle.size - 2
           begin == index - count
           ps == Places(h, needle, begin, index, fold)
           match(s) == RMatch(h, needle, s, begin, fold)
           scan == CHOOSE f : f =
             [s \in Nat \cup {-1} |->
                IF s < 0 THEN NotFound
                ELSE IF ~Same(At(h, s), At(needle, last), fold) THEN f[s - 1]
                ELSE CASE match(s) = "left"  -> NotFound
                       [] match(s) = "found" -> s - last
                       [] OTHER -> f[s - 1]]
           stop == {s \in Down : \/ s < 0
                                 \/ /\ Same(At(h, s), At(needle, last), fold)
                                    /\ match(s) = "left" \/ match(s) = "found"}
           out == [s \in Down |-> IF s < 0 \/ match(s) = "left"
                                    THEN NotFound ELSE s - last]
<1>1. RPosEx(h, needle, index, count, fold)
        = IF index >= h.size \/ count > index THEN OutOfRange
          ELSE IF index = 0 \/ count = 0 \/ Hopeless(h, needle) THEN NotFound
          ELSE scan[index - 1]
  BY Zenon DEF RPosEx
<1>2. /\ needle.size \in Nat /\ needle.size - 1 = last + 1 /\ last \in Int
      /\ begin \in Nat /\ begin <= index
  OBVIOUS
<1>3. \A p : p \in ps <=> /\ p \in Nat /\ needle.size # 1 /\ begin <= p
                          /\ p + (last + 1) <= index /\ StandsAt(h, needle, p, fold)
  BY <1>2 DEF Places
<1>4. CASE index = 0 \/ count = 0 \/ Hopeless(h, needle)
  <2>1. ASSUME NEW p \in ps PROVE FALSE
    <3>1. p \in Nat /\ needle.size # 1 /\ begin <= p /\ p + (last + 1) <= index
      BY <1>3
    <3>2. last >= 0
      BY <3>1
    <3>3. CASE index = 0 \/ count = 0
      BY <3>1, <3>2, <3>3
    <3>4. CASE Hopeless(h, needle)
      BY <3>1, <3>2, <3>4 DEF Hopeless
    <3> QED BY <1>4, <3>3, <3>4
  <2>2. ps = {}
    BY <2>1
  <2>3. RPosEx(h, needle, index, count, fold) = NotFound
    <3> HIDE DEF scan
    <3> QED BY <1>1, <1>4
  <2> HIDE DEF ps
  <2> QED BY <2>2, <2>3 DEF IsLast, ps
<1>5. CASE ~(index = 0 \/ count = 0 \/ Hopeless(h, needle))
  <2>0. last \in Nat /\ needle.size \in Nat \ {0, 1} /\ index - 1 \in Nat
    BY <1>5 DEF Hopeless
  <2>1. StopsDown(stop)
    BY DEF StopsDown, Down
  <2>2. ASSUME NEW f
        PROVE  LoopsDown(f, stop, out) <=>
                 f = [s \in Nat \cup {-1} |->
                        IF s < 0 THEN NotFound
                        ELSE IF ~Same(At(h, s), At(needle, last), fold) THEN f[s - 1]
                        ELSE CASE match(s) = "left"  -> NotFound
                               [] match(s) = "found" -> s - last
                               [] OTHER -> f[s - 1]]
    <3> HIDE DEF match, last
    <3>1. \A s \in Down : (IF s \in stop THEN out[s] ELSE f[s - 1])
            = IF s < 0 THEN NotFound
              ELSE IF ~Same(At(h, s), At(needle, last), fold) THEN f[s - 1]
              ELSE CASE match(s) = "left"  -> NotFound
                     [] match(s) = "found" -> s - last
                     [] OTHER -> f[s - 1]
      OBVIOUS
    <3>2. [s \in Down |-> IF s \in stop THEN out[s] ELSE f[s - 1]]
            = [s \in Down |->
                 IF s < 0 THEN NotFound
                 ELSE IF ~Same(At(h, s), At(needle, last), fold) THEN f[s - 1]
                 ELSE CASE match(s) = "left"  -> NotFound
                        [] match(s) = "found" -> s - last
                        [] OTHER -> f[s - 1]]
      <4> HIDE DEF stop, out
      <4> QED BY <3>1
    <3> HIDE DEF stop, out
    <3> QED BY <3>2 DEF LoopsDown, Down
  <2>3. LoopsDown(scan, stop, out)
    <3>1. \E f : LoopsDown(f, stop, out)
      <4> HIDE DEF stop, out
      <4> QED BY <2>1, LoopDownExists
    <3> HIDE DEF stop, out, match, last
    <3> QED BY <2>2, <3>1, Zenon
  <2> HIDE DEF scan
  <2>11. index - 1 \in Down
    BY <2>0 DEF Down
  <2> DEFINE start == index - 1
  <2>4. PICK j : PreviousStop(stop, start, j) /\ scan[start] = out[j]
    <3>1. start \in Down
      BY <2>11
    <3> HIDE DEF stop, out, start
    <3> QED BY <2>1, <2>3, <3>1, LoopDownEnds
  <2>5. /\ j \in Down /\ j \in stop /\ j <= start
        /\ \A i \in Down : j < i /\ i <= start => i \notin stop
    BY <2>4 DEF PreviousStop
  <2>6. \A s \in Nat :
          /\ match(s) = "found" <=> begin <= s - last /\ StandsAt(h, needle, s - last, fold)
          /\ match(s) = "left" => s - last < begin
    BY <1>2, <2>0, RMatchIs
  <2> HIDE DEF match
  <2>7. ASSUME NEW p \in ps PROVE p + last <= j
    <3>1. /\ p \in Nat /\ begin <= p /\ p + (last + 1) <= index
          /\ StandsAt(h, needle, p, fold)
      BY <1>3
    <3> DEFINE e == p + last
    <3>2. e \in Nat /\ e - last = p /\ e <= start /\ last \in 0..last
      BY <2>0, <3>1
    <3>3. Same(At(h, e), At(needle, last), fold)
      BY <3>1, <3>2 DEF StandsAt
    <3> HIDE DEF e, start
    <3>4. match(e) = "found"
      BY <2>6, <3>1, <3>2
    <3>5. e \in stop
      BY <3>2, <3>3, <3>4 DEF Down
    <3> HIDE DEF stop
    <3>6. ~(j < e)
      BY <2>5, <3>2, <3>5 DEF Down
    <3>7. e <= j
      BY <2>5, <3>2, <3>6 DEF Down
    <3> QED BY <3>7 DEF e
  <2>8. RPosEx(h, needle, index, count, fold) = out[j]
    <3> DEFINE answer == RPosEx(h, needle, index, count, fold)
               o == out[j]
               sc == scan[index - 1]
    <3>1. sc = o /\ answer = IF index >= h.size \/ count > index THEN OutOfRange
                             ELSE IF index = 0 \/ count = 0 \/ Hopeless(h, needle)
                               THEN NotFound
                             ELSE sc
      BY <1>1, <2>4
    <3>2. ~(index >= h.size) /\ ~(count > index)
      OBVIOUS
    <3> HIDE DEF answer, o, sc
    <3>3. answer = o
      BY <1>5, <3>1, <3>2
    <3> QED BY <3>3 DEF answer, o
  <2>9. CASE j < 0 \/ match(j) = "left"
    <3>1. out[j] = NotFound
      BY <2>5, <2>9
    <3>2. ASSUME NEW p \in ps PROVE FALSE
      <4>1. p \in Nat /\ begin <= p /\ p + last <= j /\ j \in Int
        BY <1>3, <2>5, <2>7 DEF Down
      <4> HIDE DEF ps, stop, out, begin, last, start
      <4>2. CASE j < 0
        BY <2>0, <4>1, <4>2
      <4>3. CASE ~(j < 0)
        <5>1. j \in Nat
          BY <4>1, <4>3
        <5>2. j - last < begin
          BY <2>6, <2>9, <4>3, <5>1
        <5> QED BY <1>2, <2>0, <4>1, <5>1, <5>2
      <4> QED BY <4>2, <4>3
    <3>3. ps = {}
      BY <3>2
    <3> HIDE DEF ps, out, stop
    <3> QED BY <2>8, <3>1, <3>3 DEF IsLast, ps
  <2>10. CASE ~(j < 0) /\ match(j) # "left"
    <3>1. out[j] = j - last /\ match(j) = "found" /\ j \in Nat
      <4>1. j \in Nat
        BY <2>5, <2>10 DEF Down
      <4>2. match(j) = "found"
        BY <2>5, <2>10
      <4>3. out[j] = j - last
        <5> HIDE DEF last, stop
        <5> QED BY <2>5, <2>10
      <4> QED BY <4>1, <4>2, <4>3
    <3> HIDE DEF ps, out, stop, last, begin
    <3>2. j - last \in ps
      <4>1. begin <= j - last /\ StandsAt(h, needle, j - last, fold)
        BY <2>6, <3>1
      <4>2. j - last \in Nat /\ (j - last) + (last + 1) <= index /\ needle.size # 1
        BY <1>2, <2>0, <2>5, <3>1, <4>1 DEF start
      <4> QED BY <1>3, <4>1, <4>2
    <3>3. \A p \in ps : j - last >= p
      <4>1. \A p \in ps : p \in Nat
        BY <1>3
      <4> QED BY <2>0, <2>7, <3>1, <4>1
    <3>4. IsLast(j - last, ps)
      BY <3>2, <3>3 DEF IsLast
    <3>5. IsLast(RPosEx(h, needle, index, count, fold), ps)
      BY <2>8, <3>1, <3>4
    <3> QED BY <3>5 DEF ps, begin
  <2> QED BY <2>9, <2>10
<1> QED BY <1>4, <1>5

\* The characters of a view, as they are compared
LEMMA FoldedIs ==
  ASSUME NEW v, NEW fold, IsView(v), v.size # 0, \A i \in 1..(v.size - 1) : v.data[i] \in Char
  PROVE  /\ IsCells(Folded(Shown(v), fold)) /\ Len(Folded(Shown(v), fold)) = v.size - 1
         /\ \A i \in 1..(v.size - 1) : Folded(Shown(v), fold)[i] = Low(v.data[i], fold)
<1> DEFINE n == v.size - 1
           q == Shown(v)
           d == v.data
           f == Folded(q, fold)
<1>1. IsCells(d) /\ n \in Nat /\ n <= Len(d) /\ n + 1 - 1 = n
  BY SeqLength DEF IsView
<1>2. IsCells(q) /\ Len(q) = n /\ \A i \in 1..n : q[i] = d[i]
  <2>1. q = SubSeq(d, 1, n)
    BY DEF Shown, ViewGetData, ViewGetSize
  <2> HIDE DEF q, d, n
  <2>2. /\ IsCells(q) /\ Len(q) = n + 1 - 1
        /\ \A i \in 1..(n + 1 - 1) : q[i] = d[1 + i - 1]
    <3>1. 1 \in Nat \ {0} /\ 1 <= n + 1
      BY <1>1
    <3> QED BY <1>1, <2>1, <3>1, PartIsSeq
  <2>3. \A i \in 1..n : 1 + i - 1 = i
    OBVIOUS
  <2> QED BY <1>1, <2>2, <2>3
<1>3. DOMAIN q = 1..n
  BY <1>2, SeqIsFunction
<1>4. \A i \in 1..n : d[i] \in Char
  OBVIOUS
<1> HIDE DEF q, d, n
<1>5. f = [i \in 1..n |-> f[i]] /\ \A i \in 1..n : f[i] = Low(d[i], fold)
  BY <1>2, <1>3 DEF Folded, Low
<1> HIDE DEF f
<1>6. \A c \in Char : Low(c, fold) \in Cell
  BY CasesAre DEF Low, Cell
<1>7. IsCells(f) /\ Len(f) = n
  BY <1>1, <1>4, <1>5, <1>6, FunctionIsSeq
<1> QED BY <1>5, <1>7 DEF f, d, n, q

LEMMA PartMatches ==
  ASSUME NEW a, NEW b, NEW p \in Nat, IsCells(a), IsCells(b), Len(b) >= 1,
         p + Len(b) <= Len(a)
  PROVE  SubSeq(a, p + 1, p + Len(b)) = b <=> \A i \in 1..Len(b) : a[p + i] = b[i]
<1> DEFINE n == Len(b)
           c == SubSeq(a, p + 1, p + n)
<1>1. n \in Nat /\ Len(a) \in Nat
  BY SeqLength
<1>2. IsCells(c) /\ Len(c) = n /\ \A i \in 1..n : c[i] = a[p + i]
  <2> DEFINE from == p + 1
             to == p + n
  <2>1. from \in Nat \ {0} /\ to \in Nat /\ to <= Len(a) /\ from <= to + 1
        /\ to + 1 - from = n /\ \A i \in 1..n : from + i - 1 = p + i
    BY <1>1
  <2>2. c = SubSeq(a, from, to)
    OBVIOUS
  <2> HIDE DEF c, from, to, n
  <2>3. /\ IsCells(c) /\ Len(c) = to + 1 - from
        /\ \A i \in 1..(to + 1 - from) : c[i] = a[from + i - 1]
    BY <2>1, <2>2, PartIsSeq
  <2> QED BY <2>1, <2>3
<1>3. b = [i \in 1..n |-> b[i]]
  BY SeqIsFunction
<1> HIDE DEF c
<1>4. c = [i \in 1..n |-> c[i]]
  BY <1>2, SeqIsFunction
<1> HIDE DEF n
<1>5. (\A i \in 1..n : c[i] = b[i]) => c = b
  BY <1>3, <1>4
<1>6. c = b <=> \A i \in 1..n : a[p + i] = b[i]
  BY <1>2, <1>5
<1> QED BY <1>6 DEF c, n

\* The views that String.c can read up to their NUL
NulTerminated == \A v \in Sources : IsText(v)

\* The string and the needles hold no two characters that only the sixth bit
\* tells apart and that are not the two cases of a letter
CasesOnly ==
  \A v \in Sources : \A i \in 1..(size - 1), j \in 1..(v.size - 1) :
    Flipped(data[i]) = v.data[j] => Lower[data[i]] = Lower[v.data[j]]

LEMMA SearchedIs ==
  ASSUME StringInv, Live, Searchable
  PROVE  /\ IsView(Searched) /\ Searched.size = size /\ size \in Nat \ {0}
         /\ Len(Searched.data) = size
         /\ \A i \in 1..size : Searched.data[i] = data[i] /\ data[i] \in Char
         /\ data[size] = NUL
<1>1. IsCells(data) /\ size \in 1..Len(data) /\ data[size] = NUL
  BY DEF StringInv, Live
<1>2. size \in Nat /\ size >= 1 /\ size <= Len(data) /\ Len(data) \in Nat
  BY <1>1, SeqLength
<1> DEFINE q == SubSeq(data, 1, size)
<1>3. Searched.data = q /\ Searched.size = size
  BY DEF Searched
<1>4. /\ IsCells(q) /\ Len(q) = size + 1 - 1
      /\ \A i \in 1..(size + 1 - 1) : q[i] = data[1 + i - 1]
  <2>1. 1 \in Nat \ {0} /\ 1 <= size + 1
    BY <1>2
  <2> QED BY <1>1, <1>2, <2>1, PartIsSeq
<1> HIDE DEF q
<1>5. size + 1 - 1 = size /\ \A i \in 1..size : 1 + i - 1 = i
  BY <1>2
<1>6. Len(q) = size /\ \A i \in 1..size : q[i] = data[i]
  BY <1>4, <1>5
<1>7. \A i \in 1..size : data[i] \in Char
  <2>1. \A i \in 1..size : i \in 1..Len(data) /\ data[i] # Undef
    BY <1>2 DEF Searchable
  <2> QED BY <1>1, <2>1, SeqIsFunction DEF Cell
<1>8. IsView(Searched)
  BY <1>2, <1>3, <1>4, <1>6 DEF IsView
<1> QED BY <1>1, <1>2, <1>3, <1>6, <1>7, <1>8

LEMMA SourcesAre ==
  ASSUME NEW v \in Sources
  PROVE  IsView(v) /\ \A i \in 1..(v.size - 1) : v.data[i] \in Char
<1>1. v.size \in Nat /\ v.data \in Seq(Char) /\ v.size <= Len(v.data) + 1
  BY StringAssumption
<1> DEFINE S == Char
           d == v.data
<1>2. d \in Seq(S) /\ Len(d) \in Nat
  BY <1>1
<1>3. \A i \in 1..(v.size - 1) : i \in 1..Len(d)
  BY <1>1, <1>2
<1> HIDE DEF S, d
<1>4. \A i \in 1..Len(d) : d[i] \in S
  BY <1>2
<1> QED BY <1>3, <1>4, Views DEF S, d

LEMMA OccurrencesAre ==
  ASSUME StringInv, Live, Searchable, NEW v \in Sources, IsText(v), CasesOnly,
         NEW from \in Nat, NEW to \in Nat, to < size, NEW fold
  PROVE  Occurrences(v, from, to, fold) = Places(Searched, v, from, to, fold)
<1> DEFINE h == Searched
           a == Folded(Shown(h), fold)
           b == Folded(Shown(v), fold)
           n == v.size - 1
<1>1. /\ IsView(h) /\ h.size = size /\ size \in Nat \ {0} /\ Len(h.data) = size
      /\ \A i \in 1..size : h.data[i] = data[i] /\ data[i] \in Char
  BY SearchedIs
<1>2. /\ IsView(v) /\ n \in Nat /\ v.size - 2 = n - 1 /\ (v.size # 1 <=> n # 0)
      /\ n < Len(v.data) /\ \A i \in 1..n : v.data[i] \in Char
  BY SourcesAre, SeqLength DEF IsText
<1>3. /\ IsCells(a) /\ Len(a) = size - 1
      /\ \A i \in 1..(size - 1) : a[i] = Low(data[i], fold)
  <2>1. \A i \in 1..(h.size - 1) : h.data[i] \in Char /\ i \in 1..size
    BY <1>1
  <2>2. IsView(h) /\ h.size # 0
    BY <1>1
  <2> HIDE DEF h
  <2>3. /\ IsCells(a) /\ Len(a) = h.size - 1
        /\ \A i \in 1..(h.size - 1) : a[i] = Low(h.data[i], fold)
    BY <2>1, <2>2, FoldedIs
  <2> HIDE DEF a
  <2> QED BY <1>1, <2>1, <2>3
<1>4. IsCells(b) /\ Len(b) = n /\ \A i \in 1..n : b[i] = Low(v.data[i], fold)
  BY <1>2, FoldedIs DEF IsText
<1>5. Occurrences(v, from, to, fold)
        = {p \in from..(to - Len(b)) : b # << >> /\ SubSeq(a, p + 1, p + Len(b)) = b}
  BY DEF Occurrences
<1> HIDE DEF a, b, h
<1>6. b # << >> <=> n # 0
  <2> DEFINE S == Cell
  <2>1. b \in Seq(S)
    BY <1>4 DEF IsCells
  <2> HIDE DEF S
  <2>2. b = << >> <=> Len(b) = 0
    BY <2>1
  <2> QED BY <1>4, <2>2
<1>7. ASSUME NEW c \in 1..(size - 1), NEW d \in 1..n
      PROVE  Same(data[c], v.data[d], fold) <=> Low(data[c], fold) = Low(v.data[d], fold)
  <2>1. data[c] \in Char /\ v.data[d] \in Char
    BY <1>1, <1>2
  <2>2. Same(data[c], v.data[d], fold) => Low(data[c], fold) = Low(v.data[d], fold)
    BY DEF CasesOnly, Same, Low
  <2> QED BY <2>1, <2>2, SameWhenFolded
<1>8. ASSUME NEW p \in Nat, n # 0, p + n <= to
      PROVE  SubSeq(a, p + 1, p + Len(b)) = b <=> StandsAt(h, v, p, fold)
  <2>1. SubSeq(a, p + 1, p + Len(b)) = b <=> \A i \in 1..n : a[p + i] = b[i]
    <3>2. Len(b) = n /\ Len(a) = size - 1 /\ size \in Nat /\ n \in Nat
      BY <1>1, <1>2, <1>3, <1>4
    <3>1. Len(b) >= 1 /\ p + Len(b) <= Len(a)
      <4> HIDE DEF n
      <4> QED BY <1>8, <3>2
    <3> QED BY <1>3, <1>4, <3>1, PartMatches, SMTT(30)
  <2>2. \A i \in 1..n : a[p + i] = b[i] <=> Same(data[p + i], v.data[i], fold)
    <3>1. \A i \in 1..n : p + i \in 1..(size - 1)
      BY <1>1, <1>2, <1>8
    <3> QED BY <1>3, <1>4, <1>7, <3>1
  <2>3. ASSUME NEW k \in 0..(n - 1)
        PROVE  /\ k + 1 \in 1..n /\ At(v, k) = v.data[k + 1]
               /\ At(h, p + k) = data[p + (k + 1)]
    <3>1. /\ k + 1 \in 1..n /\ k < Len(v.data) /\ p + k < size
          /\ (p + k) + 1 = p + (k + 1) /\ (p + k) + 1 \in 1..size
      BY <1>1, <1>2, <1>8, SeqLength, SMTT(30) DEF IsText
    <3> QED BY <1>1, <3>1 DEF At
  <2>4. StandsAt(h, v, p, fold) <=> \A k \in 0..(n - 1) : Same(data[p + (k + 1)], v.data[k + 1], fold)
    BY <1>2, <2>3 DEF StandsAt
  <2>5. (\A k \in 0..(n - 1) : Same(data[p + (k + 1)], v.data[k + 1], fold))
          <=> \A i \in 1..n : Same(data[p + i], v.data[i], fold)
    <3>1. \A i \in 1..n : i - 1 \in 0..(n - 1) /\ (i - 1) + 1 = i
      BY <1>2
    <3>2. \A k \in 0..(n - 1) : k + 1 \in 1..n
      BY <1>2
    <3> QED BY <3>1, <3>2
  <2> QED BY <2>1, <2>2, <2>4, <2>5
<1>9. ASSUME NEW p
      PROVE  p \in from..(to - Len(b)) <=> p \in Nat /\ from <= p /\ p + n <= to
  BY <1>2, <1>4
<1>10. Places(h, v, from, to, fold)
         = {p \in Nat : n # 0 /\ from <= p /\ p + n <= to /\ StandsAt(h, v, p, fold)}
  BY <1>2 DEF Places
<1> HIDE DEF n
<1>11. ASSUME NEW p
       PROVE  p \in Occurrences(v, from, to, fold) <=> p \in Places(h, v, from, to, fold)
  BY <1>5, <1>6, <1>8, <1>9, <1>10
<1> QED BY <1>11 DEF h

LEMMA FirstIs == ASSUME NEW ps \in SUBSET Nat, NEW r, IsFirst(r, ps) PROVE r = First(ps)
<1>1. CASE ps = {}
  BY <1>1 DEF IsFirst, First
<1>2. CASE ps # {}
  <2> DEFINE q == CHOOSE p \in ps : \A o \in ps : p <= o
  <2>1. r \in ps /\ \A o \in ps : r <= o
    BY <1>2 DEF IsFirst
  <2>2. q \in ps /\ \A o \in ps : q <= o
    BY <2>1
  <2>3. First(ps) = q
    BY <1>2 DEF First
  <2> HIDE DEF q
  <2>4. r <= q /\ q <= r /\ r \in Nat /\ q \in Nat
    BY <2>1, <2>2
  <2> QED BY <2>3, <2>4
<1> QED BY <1>1, <1>2

LEMMA LastIs == ASSUME NEW ps \in SUBSET Nat, NEW r, IsLast(r, ps) PROVE r = Last(ps)
<1>1. CASE ps = {}
  BY <1>1 DEF IsLast, Last
<1>2. CASE ps # {}
  <2> DEFINE q == CHOOSE p \in ps : \A o \in ps : p >= o
  <2>1. r \in ps /\ \A o \in ps : r >= o
    BY <1>2 DEF IsLast
  <2>2. q \in ps /\ \A o \in ps : q >= o
    BY <2>1
  <2>3. Last(ps) = q
    BY <1>2 DEF Last
  <2> HIDE DEF q
  <2>4. r >= q /\ q >= r /\ r \in Nat /\ q \in Nat
    BY <2>1, <2>2
  <2> QED BY <2>3, <2>4
<1> QED BY <1>1, <1>2

LEMMA SearchesAre ==
  ASSUME NulTerminated, StringInv, CasesOnly
  PROVE  SearchesFind
<1> SUFFICES ASSUME Searchable, NEW v \in Sources, NEW fold \in BOOLEAN
             PROVE  /\ \A index \in 0..size, count \in 0..size :
                         /\ index + count < size =>
                              LPosEx(Searched, v, index, count, fold)
                                = First(Occurrences(v, index, index + count, fold))
                         /\ index < size /\ count <= index =>
                              RPosEx(Searched, v, index, count, fold)
                                = Last(Occurrences(v, index - count, index, fold))
                    /\ LPos(Searched, v, fold)
                         = First(Occurrences(v, 0, size - 1, fold))
                    /\ RPos(Searched, v, fold)
                         = Last(Occurrences(v, 0, size - 1, fold))
  BY DEF SearchesFind
<1>1. IsText(v)
  BY DEF NulTerminated
<1>2. Live /\ Searched.size = size /\ size \in Nat \ {0} /\ v.size \in Nat \ {0}
  BY <1>1, SearchedIs DEF Searchable, IsText
<1>3. ASSUME NEW index \in Nat, NEW count \in Nat, index + count < size
      PROVE  LPosEx(Searched, v, index, count, fold)
               = First(Occurrences(v, index, index + count, fold))
  <2> DEFINE to == index + count
             ps == Places(Searched, v, index, to, fold)
             r == LPosEx(Searched, v, index, count, fold)
  <2>1. IsFirst(r, ps)
    BY <1>1, <1>2, <1>3, LPosExIs
  <2>2. to \in Nat /\ to < size
    BY <1>3
  <2> HIDE DEF to
  <2>3. Occurrences(v, index, to, fold) = ps
    BY <1>1, <1>2, <2>2, OccurrencesAre
  <2>4. ps \in SUBSET Nat
    BY DEF Places
  <2> HIDE DEF ps, r
  <2>5. r = First(ps)
    BY <2>1, <2>4, FirstIs
  <2> QED BY <2>3, <2>5 DEF r, to
<1>4. ASSUME NEW index \in Nat, NEW count \in Nat, index < size, count <= index
      PROVE  RPosEx(Searched, v, index, count, fold)
               = Last(Occurrences(v, index - count, index, fold))
  <2> DEFINE from == index - count
             ps == Places(Searched, v, from, index, fold)
             r == RPosEx(Searched, v, index, count, fold)
  <2>1. IsLast(r, ps)
    BY <1>2, <1>4, RPosExIs
  <2>2. from \in Nat
    BY <1>4
  <2> HIDE DEF from
  <2>3. Occurrences(v, from, index, fold) = ps
    BY <1>1, <1>2, <1>4, <2>2, OccurrencesAre
  <2>4. ps \in SUBSET Nat
    BY DEF Places
  <2> HIDE DEF ps, r
  <2>5. r = Last(ps)
    BY <2>1, <2>4, LastIs
  <2> QED BY <2>3, <2>5 DEF r, from
<1>5. \A index \in 0..size, count \in 0..size : index \in Nat /\ count \in Nat
  BY <1>2
<1>6. LPos(Searched, v, fold) = First(Occurrences(v, 0, size - 1, fold))
  <2>1. size - 1 \in Nat /\ 0 \in Nat /\ 0 + (size - 1) < size /\ 0 + (size - 1) = size - 1
    BY <1>2
  <2> DEFINE n == size - 1
             zero == 0
  <2>2. n \in Nat /\ zero \in Nat /\ zero + n < size /\ zero + n = n
    BY <2>1
  <2>3. LPos(Searched, v, fold) = LPosEx(Searched, v, zero, n, fold)
    BY <1>2 DEF LPos
  <2> HIDE DEF n, zero
  <2>4. LPosEx(Searched, v, zero, n, fold) = First(Occurrences(v, zero, n, fold))
    BY <1>3, <2>2
  <2> QED BY <2>3, <2>4 DEF n, zero
<1>7. RPos(Searched, v, fold) = Last(Occurrences(v, 0, size - 1, fold))
  <2> DEFINE n == size - 1
  <2>1. n \in Nat /\ n < size /\ n <= n /\ n - n = 0
    BY <1>2
  <2>2. RPos(Searched, v, fold) = RPosEx(Searched, v, n, n, fold)
    BY <1>2 DEF RPos
  <2> HIDE DEF n
  <2>3. RPosEx(Searched, v, n, n, fold) = Last(Occurrences(v, n - n, n, fold))
    BY <1>4, <2>1
  <2> QED BY <2>1, <2>2, <2>3 DEF n
<1> QED BY <1>3, <1>4, <1>5, <1>6, <1>7

-----------------------------------------------------------------------------
(* Comparing *)

\* Where the comparison of two strings as long comes to an end
Decides(s1, s2, fold, i) ==
  /\ i \in 0..s1.size
  /\ i + 1 >= s1.size \/ ~Same(At(s1, i), At(s2, i), fold)
  /\ \A j \in 0..(i - 1) : j + 1 < s1.size /\ Same(At(s1, j), At(s2, j), fold)

LEMMA CompareIs ==
  ASSUME NEW s1, NEW s2, s1.size \in Nat \ {0}, s1.size = s2.size, NEW fold
  PROVE  \E i : /\ Decides(s1, s2, fold, i) /\ i <= s1.size - 1
                /\ Compare(s1, s2, fold)
                     = IF At(s1, i) = At(s2, i) THEN 0
                       ELSE IF Lowered(At(s1, i)) < Lowered(At(s2, i)) THEN -1 ELSE 1
<1> DEFINE T == {k \in Nat : k + 1 >= s1.size \/ ~Same(At(s1, k), At(s2, k), fold)}
           Right(i) == /\ i + 1 >= s1.size \/ ~Same(At(s1, i), At(s2, i), fold)
                       /\ \A j \in 0..(i - 1) : j + 1 < s1.size /\ Same(At(s1, j), At(s2, j), fold)
           i == CHOOSE i \in 0..s1.size : Right(i)
<1>1. s1.size \in T
  OBVIOUS
<1>2. PICK m \in T : \A k \in T : m <= k
  <2> HIDE DEF T
  <2>1. T \in SUBSET Nat
    BY DEF T
  <2> QED BY <1>1, <2>1, LeastNatural
<1>3. m \in 0..s1.size /\ Right(m)
  <2>1. m \in Nat /\ m <= s1.size /\ (m + 1 >= s1.size \/ ~Same(At(s1, m), At(s2, m), fold))
    BY <1>1, <1>2
  <2>2. ASSUME NEW j \in 0..(m - 1)
        PROVE  j + 1 < s1.size /\ Same(At(s1, j), At(s2, j), fold)
    <3>1. j \in Nat /\ j \notin T
      BY <1>2, <2>1
    <3> QED BY <3>1
  <2> QED BY <2>1, <2>2
<1>4. i \in 0..s1.size /\ Right(i)
  <2> HIDE DEF Right
  <2> QED BY <1>3
<1>5. Compare(s1, s2, fold)
        = IF s1.size < s2.size THEN -1
          ELSE IF s1.size > s2.size THEN 1
          ELSE IF At(s1, i) = At(s2, i) THEN 0
          ELSE IF Lowered(At(s1, i)) < Lowered(At(s2, i)) THEN -1 ELSE 1
  BY Zenon DEF Compare
<1> HIDE DEF i
<1>6. Compare(s1, s2, fold)
        = IF At(s1, i) = At(s2, i) THEN 0
          ELSE IF Lowered(At(s1, i)) < Lowered(At(s2, i)) THEN -1 ELSE 1
  <2>1. ~(s1.size < s2.size) /\ ~(s1.size > s2.size)
    OBVIOUS
  <2> QED BY <1>5, <2>1
<1>7. i <= s1.size - 1
  <2>1. i = s1.size => (s1.size - 1) \in 0..(i - 1) /\ ~((s1.size - 1) + 1 < s1.size)
    BY <1>4
  <2>2. i # s1.size
    BY <1>4, <2>1
  <2> QED BY <1>4, <2>2
<1> QED BY <1>4, <1>6, <1>7 DEF Decides

LEMMA FlippedIs ==
  ASSUME NEW c \in Char
  PROVE  /\ Flipped(c) \in Char /\ Flipped(Flipped(c)) = c
         /\ Lowered(c) \in Nat
         /\ \A d \in Char : Lowered(c) = Lowered(d) => c = d \/ Flipped(c) = d
<1>1. c \in 0..127
  BY DEF Char
<1>2. ASSUME NEW x \in 0..127
      PROVE  \/ (x \in 0..31 /\ x \div 32 = 0) \/ (x \in 32..63 /\ x \div 32 = 1)
             \/ (x \in 64..95 /\ x \div 32 = 2) \/ (x \in 96..127 /\ x \div 32 = 3)
  OBVIOUS
<1>3. 0 % 2 = 0 /\ 1 % 2 = 1 /\ 2 % 2 = 0 /\ 3 % 2 = 1
  OBVIOUS
<1>4. ASSUME NEW x \in 0..127
      PROVE  \/ x \in 0..31 \cup 64..95 /\ Flipped(x) = x + 32 /\ Lowered(x) = x + 32
             \/ x \in 32..63 \cup 96..127 /\ Flipped(x) = x - 32 /\ Lowered(x) = x
  BY <1>2, <1>3 DEF Flipped, Lowered
<1>5. Flipped(c) \in 0..127
  BY <1>1, <1>4
<1>6. Flipped(Flipped(c)) = c
  <2>1. CASE c \in 0..31 \cup 64..95 /\ Flipped(c) = c + 32
    <3>1. c + 32 \in 32..63 \cup 96..127 /\ c + 32 \in 0..127 /\ (c + 32) - 32 = c
      BY <1>1, <2>1
    <3>2. Flipped(c + 32) = (c + 32) - 32
      BY <1>4, <3>1
    <3> QED BY <2>1, <3>1, <3>2
  <2>2. CASE c \in 32..63 \cup 96..127 /\ Flipped(c) = c - 32
    <3>1. c - 32 \in 0..31 \cup 64..95 /\ c - 32 \in 0..127 /\ (c - 32) + 32 = c
      BY <1>1, <2>2
    <3>2. Flipped(c - 32) = (c - 32) + 32
      BY <1>4, <3>1
    <3> QED BY <2>2, <3>1, <3>2
  <2> QED BY <1>1, <1>4, <2>1, <2>2
<1>7. Lowered(c) \in Nat
  BY <1>1, <1>4
<1>8. ASSUME NEW d \in Char, Lowered(c) = Lowered(d) PROVE c = d \/ Flipped(c) = d
  <2>1. d \in 0..127
    BY DEF Char
  <2> QED BY <1>1, <1>4, <1>8, <2>1
<1> QED BY <1>5, <1>6, <1>7, <1>8 DEF Char

LEMMA ComparisonsAre ==
  ASSUME NulTerminated, StringInv, CasesOnly
  PROVE  ComparisonsOrder
<1> SUFFICES ASSUME Searchable, NEW v \in Sources, NEW fold \in BOOLEAN
             PROVE  /\ (Compare(Searched, v, fold) = 0)
                         = (Folded(Shown(Searched), fold) = Folded(Shown(v), fold))
                    /\ fold \/ ~CaseDecides(Searched, v) =>
                         Compare(Searched, v, fold) = -Compare(v, Searched, fold)
  BY DEF ComparisonsOrder
<1> DEFINE s == Searched
           a == Folded(Shown(s), fold)
           b == Folded(Shown(v), fold)
           x == Compare(s, v, fold)
           y == Compare(v, s, fold)
<1>0. IsText(v) /\ Live
  BY DEF NulTerminated, Searchable
<1>1. /\ IsView(s) /\ s.size = size /\ size \in Nat \ {0} /\ Len(s.data) = size
      /\ \A i \in 1..size : s.data[i] = data[i] /\ data[i] \in Char
      /\ data[size] = NUL
  BY <1>0, SearchedIs
<1>2. /\ IsView(v) /\ v.size \in Nat \ {0} /\ v.size <= Len(v.data) /\ Len(v.data) \in Nat
      /\ v.data[v.size] = NUL /\ \A i \in 1..(v.size - 1) : v.data[i] \in Char
  BY <1>0, SourcesAre, SeqLength DEF IsText
<1>3. /\ IsCells(a) /\ Len(a) = size - 1
      /\ \A i \in 1..(size - 1) : a[i] = Low(data[i], fold)
  <2>1. \A i \in 1..(s.size - 1) : s.data[i] \in Char /\ i \in 1..size
    BY <1>1
  <2>2. IsView(s) /\ s.size # 0
    BY <1>1
  <2> HIDE DEF s
  <2>3. /\ IsCells(a) /\ Len(a) = s.size - 1
        /\ \A i \in 1..(s.size - 1) : a[i] = Low(s.data[i], fold)
    BY <2>1, <2>2, FoldedIs
  <2> HIDE DEF a
  <2> QED BY <1>1, <2>1, <2>3
<1>4. /\ IsCells(b) /\ Len(b) = v.size - 1
      /\ \A i \in 1..(v.size - 1) : b[i] = Low(v.data[i], fold)
  BY <1>2, FoldedIs
<1>5. CASE size # v.size
  <2> HIDE DEF s
  <2>1. \/ x = -1 /\ y = 1
        \/ x = 1 /\ y = -1
    <3>1. CASE s.size < v.size
      <4>1. x = -1
        BY <3>1 DEF Compare
      <4>2. ~(v.size < s.size) /\ v.size > s.size
        BY <1>1, <1>2, <3>1
      <4>3. y = 1
        BY <4>2 DEF Compare
      <4> QED BY <4>1, <4>3
    <3>2. CASE s.size > v.size
      <4>1. ~(s.size < v.size) /\ v.size < s.size
        BY <1>1, <1>2, <3>2
      <4>2. x = 1
        BY <3>2, <4>1 DEF Compare
      <4>3. y = -1
        BY <4>1 DEF Compare
      <4> QED BY <4>2, <4>3
    <3> QED BY <1>1, <1>2, <1>5, <3>1, <3>2
  <2>2. a # b
    <3> HIDE DEF a, b
    <3>1. Len(a) # Len(b)
      BY <1>1, <1>2, <1>3, <1>4, <1>5
    <3> QED BY <3>1
  <2> HIDE DEF a, b, x, y
  <2>3. x # 0 /\ x = -y
    BY <2>1
  <2> QED BY <2>2, <2>3 DEF a, b, x, y, s
<1>6. CASE size = v.size
  <2>1. \A k \in 0..(size - 1) : /\ k + 1 \in 1..size
                                 /\ At(s, k) = data[k + 1] /\ At(v, k) = v.data[k + 1]
                                 /\ At(s, k) \in Char /\ At(v, k) \in Char
    <3>1. ASSUME NEW k \in 0..(size - 1)
          PROVE  /\ k + 1 \in 1..size
                 /\ At(s, k) = data[k + 1] /\ At(v, k) = v.data[k + 1]
      <4>1. k + 1 \in 1..size /\ k < size /\ k < Len(v.data)
        BY <1>1, <1>2, <1>6
      <4> HIDE DEF s
      <4> QED BY <1>1, <4>1 DEF At
    <3>2. \A i \in 1..size : v.data[i] \in Char
      <4>1. \A i \in 1..size : i \in 1..(v.size - 1) \/ i = v.size
        BY <1>1, <1>6
      <4>2. NUL \in Char
        BY DEF NUL, Char
      <4> QED BY <1>2, <4>1, <4>2
    <3> HIDE DEF s
    <3> QED BY <1>1, <3>1, <3>2
  <2>2. At(s, size - 1) = NUL /\ At(v, size - 1) = NUL
    <3>1. size - 1 \in 0..(size - 1) /\ (size - 1) + 1 = size
      BY <1>1
    <3> HIDE DEF s
    <3> QED BY <1>1, <1>2, <1>6, <2>1, <3>1
  <2> HIDE DEF s
  <2>3. PICK i : /\ Decides(s, v, fold, i) /\ i <= s.size - 1
                 /\ x = IF At(s, i) = At(v, i) THEN 0
                        ELSE IF Lowered(At(s, i)) < Lowered(At(v, i)) THEN -1 ELSE 1
    <3> HIDE DEF x
    <3> QED BY <1>1, <1>2, <1>6, CompareIs DEF x
  <2>4. PICK j : /\ Decides(v, s, fold, j) /\ j <= v.size - 1
                 /\ y = IF At(v, j) = At(s, j) THEN 0
                        ELSE IF Lowered(At(v, j)) < Lowered(At(s, j)) THEN -1 ELSE 1
    <3> HIDE DEF y
    <3> QED BY <1>1, <1>2, <1>6, CompareIs DEF y
  <2> HIDE DEF x, y
  <2>5. /\ i \in 0..(size - 1)
        /\ i + 1 >= size \/ ~Same(At(s, i), At(v, i), fold)
        /\ \A k \in 0..(i - 1) : k + 1 < size /\ Same(At(s, k), At(v, k), fold)
    BY <1>1, <2>3 DEF Decides
  <2>6. /\ j \in 0..(size - 1)
        /\ j + 1 >= size \/ ~Same(At(v, j), At(s, j), fold)
        /\ \A k \in 0..(j - 1) : k + 1 < size /\ Same(At(v, k), At(s, k), fold)
    BY <1>1, <1>6, <2>4 DEF Decides
  <2> HIDE DEF a, b
  \* Equal: all of the characters go together
  <2>7. ASSUME x = 0 PROVE a = b
    <3>1. At(s, i) = At(v, i)
      BY <2>3, <2>7
    <3>2. i = size - 1
      BY <1>1, <2>5, <3>1 DEF Same
    <3>3. ASSUME NEW k \in 1..(size - 1) PROVE a[k] = b[k]
      <4>1. k - 1 \in 0..(i - 1) /\ k - 1 \in 0..(size - 1) /\ (k - 1) + 1 = k
        BY <1>1, <3>2
      <4>2. Same(At(s, k - 1), At(v, k - 1), fold)
        BY <2>5, <4>1
      <4>3. Same(data[k], v.data[k], fold)
        BY <2>1, <4>1, <4>2
      <4>4. k \in 1..(v.size - 1)
        BY <1>6
      <4>5. Low(data[k], fold) = Low(v.data[k], fold)
        BY <4>3, <4>4 DEF CasesOnly, Same, Low
      <4> QED BY <1>3, <1>4, <4>4, <4>5
    <3>4. a = [k \in 1..(size - 1) |-> a[k]] /\ b = [k \in 1..(size - 1) |-> b[k]]
      BY <1>3, <1>4, <1>6, SeqIsFunction
    <3> QED BY <3>3, <3>4
  <2>8. ASSUME a = b PROVE x = 0
    <3>1. \A k \in 0..(size - 1) : k + 1 < size => Same(At(s, k), At(v, k), fold)
      <4>1. ASSUME NEW k \in 0..(size - 1), k + 1 < size
            PROVE  Same(At(s, k), At(v, k), fold)
        <5>1. k + 1 \in 1..(size - 1) /\ k + 1 \in 1..(v.size - 1)
          BY <1>1, <1>6, <4>1
        <5>2. Low(data[k + 1], fold) = Low(v.data[k + 1], fold)
          BY <1>3, <1>4, <2>8, <5>1
        <5>3. data[k + 1] \in Char /\ v.data[k + 1] \in Char
          BY <2>1
        <5>4. Same(data[k + 1], v.data[k + 1], fold)
          BY <5>2, <5>3, SameWhenFolded
        <5> QED BY <2>1, <5>4
      <4> QED BY <4>1
    <3>2. i = size - 1
      BY <1>1, <2>5, <3>1
    <3> QED BY <2>2, <2>3, <3>2
  <2>9. ASSUME fold \/ ~CaseDecides(s, v) PROVE x = -y
    <3>1. ASSUME NEW k \in 0..(size - 1)
          PROVE  Same(At(s, k), At(v, k), fold) <=> Same(At(v, k), At(s, k), fold)
      BY <2>1, FlippedIs DEF Same
    <3>2. ~(i < j)
      <4> SUFFICES ASSUME i < j PROVE FALSE
        OBVIOUS
      <4>1. i \in 0..(j - 1) /\ i \in 0..(size - 1)
        BY <2>5, <2>6
      <4>2. i + 1 < size /\ Same(At(v, i), At(s, i), fold)
        BY <2>6, <4>1
      <4>3. ~(i + 1 >= size)
        BY <1>1, <4>1, <4>2
      <4> QED BY <2>5, <3>1, <4>1, <4>2, <4>3
    <3>3. ~(j < i)
      <4> SUFFICES ASSUME j < i PROVE FALSE
        OBVIOUS
      <4>1. j \in 0..(i - 1) /\ j \in 0..(size - 1)
        BY <2>5, <2>6
      <4>2. j + 1 < size /\ Same(At(s, j), At(v, j), fold)
        BY <2>5, <4>1
      <4>3. ~(j + 1 >= size)
        BY <1>1, <4>1, <4>2
      <4> QED BY <2>6, <3>1, <4>1, <4>2, <4>3
    <3>4. i = j
      BY <2>5, <2>6, <3>2, <3>3
    <3> DEFINE c == At(s, i)
               d == At(v, i)
    <3>5. /\ x = IF c = d THEN 0 ELSE IF Lowered(c) < Lowered(d) THEN -1 ELSE 1
          /\ y = IF d = c THEN 0 ELSE IF Lowered(d) < Lowered(c) THEN -1 ELSE 1
      BY <2>3, <2>4, <3>4
    <3>6. c \in Char /\ d \in Char
      BY <2>1, <2>5
    <3>7. c # d => ~Same(c, d, fold)
      <4>1. i + 1 >= size => i = size - 1
        BY <1>1, <2>5
      <4> QED BY <2>2, <2>5, <4>1
    <3> HIDE DEF c, d
    <3>8. c # d => Lowered(c) # Lowered(d)
      <4>1. CASE fold
        BY <3>6, <3>7, <4>1, FlippedIs DEF Same
      <4>2. CASE ~fold
        <5> SUFFICES ASSUME c # d, Lowered(c) = Lowered(d) PROVE FALSE
          OBVIOUS
        <5>1. i # size - 1
          BY <2>2 DEF c, d
        <5>2. i \in 0..(size - 2)
          BY <1>1, <2>5, <5>1
        <5>3. \A k \in 0..(i - 1) : At(s, k) = At(v, k)
          BY <2>5, <4>2 DEF Same
        <5>4. CaseDecides(s, v)
          BY <1>1, <1>6, <5>2, <5>3 DEF CaseDecides, c, d
        <5> QED BY <2>9, <4>2, <5>4
      <4> QED BY <4>1, <4>2
    <3>9. Lowered(c) \in Nat /\ Lowered(d) \in Nat
      BY <3>6, FlippedIs
    <3> DEFINE p == Lowered(c)
               q == Lowered(d)
    <3>10. c = d => x = 0 /\ y = 0
      BY <3>5
    <3>11. c # d => (x = -1 /\ y = 1) \/ (x = 1 /\ y = -1)
      <4>1. p # q => (p < q /\ ~(q < p)) \/ (q < p /\ ~(p < q))
        <5>1. p \in Nat /\ q \in Nat
          BY <3>9
        <5> HIDE DEF p, q
        <5> QED BY <5>1
      <4> QED BY <3>5, <3>8, <4>1
    <3> QED BY <3>10, <3>11
  <2>10. x = 0 <=> a = b
    BY <2>7, <2>8
  <2>11. (x = 0) = (a = b)
    BY <2>10
  <2> QED BY <2>9, <2>11 DEF a, b, x, y, s
<1> QED BY <1>5, <1>6

-----------------------------------------------------------------------------
(* The theorems.  CasesOnly is what ignoring the case by the sixth bit      *)
(* takes: "@" and "`" would be the same to it.                              *)

\* A search from the left finds the first occurrence that lies within its
\* range, one from the right the last, whatever the texts and the ranges, and
\* none where there is none (ZyanStringLPos*, ZyanStringRPos*).
THEOREM StringSearches ==
  ASSUME FormatFits = TRUE, NulTerminated
  PROVE  Spec => [](CasesOnly => SearchesFind)
<1>1. StringInv => (CasesOnly => SearchesFind)
  BY SearchesAre
<1> QED BY <1>1, StringInvHolds, PTL

\* Strings compare equal when their texts are the same, and then only, up to
\* the case of letters where it is ignored; which one is the lesser does not
\* depend on the order they are named in, unless the comparison that does not
\* ignore the case (ZyanStringCompare) has nothing but a case to decide by.
THEOREM StringsCompare ==
  ASSUME FormatFits = TRUE, NulTerminated
  PROVE  Spec => [](CasesOnly => ComparisonsOrder)
<1>1. StringInv => (CasesOnly => ComparisonsOrder)
  BY ComparisonsAre
<1> QED BY <1>1, StringInvHolds, PTL
=============================================================================
