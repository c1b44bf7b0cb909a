----------------------------- MODULE ZyanString -----------------------------
(***************************************************************************)
(* One ZyanString (src/src/String.c): a vector of characters that always   *)
(* ends with a NUL, so that it is a C string, too.  Views, which are a     *)
(* pointer and a size, are what a call takes text from.                    *)
(*                                                                         *)
(* A call is a function from a string to a string: `status` is what it     *)
(* returns, a call that was given an error passes it on (ZYAN_CHECK), and  *)
(* OVERRUN stands for an access outside of the block.  The vector is the   *)
(* one of ZyanVector, with an allocator that never refuses, so that the    *)
(* capacity is the length of the block (its theorem CapacityCorrect); in a *)
(* buffer of the caller a call can run out of room.                        *)
(*                                                                         *)
(* A character is its ASCII code.  What the cells behind the end hold is   *)
(* forgotten after each call: Undef stands for any character.  The source  *)
(* of a call is text in other memory than the string's own.                *)
(***************************************************************************)
EXTENDS Integers, Sequences

CONSTANTS Undef,
          MaxSize,            \* bound: cells a call may bring a string to
          MinimumCapacity,    \* ZYAN_STRING_MIN_CAPACITY
          GrowthFactors,      \* parameters InitEx is called with
          ShrinkThresholds,
          Capacities,         \* of Init, Duplicate, Concat and Reserve
          BufferCapacities,
          Sources,            \* views the calls are given
          Letters             \* characters SetChar is called with

VARIABLES fixed,              \* ZYAN_STRING_HAS_FIXED_CAPACITY
          growth_factor,
          shrink_threshold,
          data,
          size,               \* the NUL is counted
          status

config == <<fixed, growth_factor, shrink_threshold>>
vars == <<fixed, growth_factor, shrink_threshold, data, size, status>>

NUL == 0
Char == 0..127

ASSUME StringAssumption ==
  /\ MaxSize \in Nat /\ MinimumCapacity \in Nat
  /\ GrowthFactors \subseteq Nat /\ ShrinkThresholds \subseteq Nat
  /\ Capacities \subseteq Nat /\ BufferCapacities \subseteq Nat
  /\ \A v \in Sources : v.size \in Nat /\ v.data \in Seq(Char)
                        /\ v.size <= Len(v.data) + 1
  /\ Letters \subseteq Char /\ Undef \notin Char

\* The vector of the string s
V(s) == INSTANCE ZyanVector
          WITH Element <- Char, AllocatorFailures <- "never",
               MaxCapacity <- 0, Destructors <- {},
               allocator <- IF fixed THEN "none" ELSE "dynamic",
               size <- s.size, data <- s.data, capacity <- Len(s.data),
               status <- s.status, destructor <- FALSE, destroyed <- << >>,
               overrun <- FALSE

Larger(a, b) == IF a >= b THEN a ELSE b

Live == data # << >> /\ status # "OVERRUN"

-----------------------------------------------------------------------------
(* Views *)

ViewGetSize(view) == view.size - 1
ViewGetData(view) == view.data

\* What a view shows: the cell behind its size is never looked at
Shown(view) == SubSeq(ViewGetData(view), 1, ViewGetSize(view))

\* ZyanStringViewInsideBuffer: up to the first NUL
ViewInsideBuffer(buffer) ==
  [data |-> buffer,
   size |-> CHOOSE n \in 1..Len(buffer) :
              buffer[n] = NUL /\ \A k \in 1..(n - 1) : buffer[k] # NUL]

\* ZyanStringViewInsideBufferEx: no NUL is needed.  The answer of a call that
\* can fail is a view or a status.
ViewInsideBufferEx(buffer, length) ==
  IF length = 0 THEN "INVALID_ARGUMENT"
                ELSE [data |-> buffer, size |-> length + 1]

ViewInsideView(source) == source

\* The size is the number of characters, not one more as everywhere else: the
\* view shows one character less than it was asked to
ViewInsideViewEx(source, index, count) ==
  IF index + count >= source.size THEN "OUT_OF_RANGE"
  ELSE [data |-> SubSeq(source.data, index + 1, Len(source.data)), size |-> count]

-----------------------------------------------------------------------------
(* How a call ends *)

This == [data |-> data, size |-> size, status |-> "SUCCESS"]

GetCapacity(s) == Len(s.data) - 1
GetSize(s) == s.size - 1
GetData(s) == s.data

Fails(s, why) == [s EXCEPT !.status = why]

\* Mutant: the terminator is left to those who call
StoreUnterminated(s, p, pos, chars, n) ==
  IF V(s)!InBlock(p, pos, Len(chars)) /\ V(s)!InBlock(p, n - 1, 1)
    THEN [s EXCEPT !.data = V(s)!MemCpy(p, pos, chars), !.size = n]
    ELSE Fails(s, "OVERRUN")

\* chars are copied to position pos of p, which becomes the string's block,
\* with n cells in use, of which the last becomes the NUL
Store(s, p, pos, chars, n) ==
  LET written == V(s)!MemCpy(p, pos, chars) IN
  IF V(s)!InBlock(p, pos, Len(chars)) /\ V(s)!InBlock(p, n - 1, 1)
    THEN [s EXCEPT !.data = V(s)!MemCpy(written, n - 1, <<NUL>>), !.size = n]
    ELSE Fails(s, "OVERRUN")

\* The call changed the string to s
Call(s) == /\ s.size <= MaxSize
           /\ status' = s.status
           /\ size' = s.size
           /\ data' = [i \in 1..Len(s.data) |-> IF i <= s.size THEN s.data[i]
                                                ELSE Undef]
           /\ UNCHANGED config

Refuse(why) == status' = why /\ UNCHANGED <<config, data, size>>

-----------------------------------------------------------------------------
(* Construction and destruction *)

Init == /\ fixed = FALSE /\ growth_factor = 0 /\ shrink_threshold = 0
        /\ data = << >> /\ size = 0 /\ status = "SUCCESS"

Blank(n) == [i \in 1..n |-> Undef]

\* The block p becomes a string of `chars`
Begin(p, chars) ==
  LET s == Store([data |-> p, size |-> 1, status |-> "SUCCESS"], p, 0, chars,
                 Len(chars) + 1)
  IN  data' = s.data /\ size' = s.size /\ status' = s.status

\* ZyanStringInitEx for a string that starts with `chars`
InitWith(chars, c, growth, threshold) ==
  /\ data = << >>
  /\ IF growth < 1
       THEN fixed' = FALSE /\ status' = "INVALID_ARGUMENT"
            /\ UNCHANGED <<growth_factor, shrink_threshold, data, size>>
       ELSE /\ fixed' = FALSE /\ growth_factor' = growth
            /\ shrink_threshold' = threshold
            /\ Begin(Blank(Larger(MinimumCapacity, c) + 1), chars)

InitEx(c, growth, threshold) == InitWith(<< >>, c, growth, threshold)

BufferWith(chars, c) ==
  /\ data = << >>
  /\ IF c = 0 THEN Refuse("INVALID_ARGUMENT")
     ELSE /\ fixed' = TRUE /\ growth_factor' = 1 /\ shrink_threshold' = 0
          /\ Begin(Blank(c), chars)

InitCustomBuffer(c) == BufferWith(<< >>, c)

\* A buffer belongs to the caller, and so does what is in it
Destroy == /\ Live
           /\ status' = "SUCCESS"
           /\ data' = IF fixed THEN data ELSE << >>
           /\ UNCHANGED <<config, size>>

DuplicateEx(source, c, growth, threshold) ==
  IF source.size = 0 THEN data = << >> /\ Refuse("INVALID_ARGUMENT")
  ELSE InitWith(Shown(source), Larger(c, source.size - 1), growth, threshold)

DuplicateCustomBuffer(source, c) ==
  /\ data = << >>
  /\ IF source.size = 0 THEN Refuse("INVALID_ARGUMENT")
     ELSE IF c < source.size THEN Refuse("INSUFFICIENT_BUFFER_SIZE")
     ELSE BufferWith(Shown(source), c)

\* Mutant: the second string is copied first
ConcatSwapped(s1, s2, c, growth, threshold) ==
  IF s1.size = 0 \/ s2.size = 0
    THEN data = << >> /\ Refuse("INVALID_ARGUMENT")
    ELSE InitWith(Shown(s2) \o Shown(s1), Larger(c, s1.size + s2.size - 2),
                  growth, threshold)

ConcatEx(s1, s2, c, growth, threshold) ==
  IF s1.size = 0 \/ s2.size = 0
    THEN data = << >> /\ Refuse("INVALID_ARGUMENT")
    ELSE InitWith(Shown(s1) \o Shown(s2), Larger(c, s1.size + s2.size - 2),
                  growth, threshold)

ConcatCustomBuffer(s1, s2, c) ==
  /\ data = << >>
  /\ IF s1.size = 0 \/ s2.size = 0 THEN Refuse("INVALID_ARGUMENT")
     ELSE IF c < s1.size + s2.size - 1 THEN Refuse("INSUFFICIENT_BUFFER_SIZE")
     ELSE BufferWith(Shown(s1) \o Shown(s2), c)

-----------------------------------------------------------------------------
(* Memory management *)

\* An outcome of the vector, which has only one
Outcome(rs) == CHOOSE r \in rs : TRUE

\* ZyanVectorResize to n cells: the block and whether it could be had
VectorResize(s, n) ==
  IF n = s.size THEN Outcome(V(s)!Kept(s.data))
                ELSE Outcome(V(s)!Resizing(n))

\* ZyanStringResize, n counting the NUL; new characters are anything
ResizeTo(s, n) ==
  LET r == VectorResize(s, n) IN
  IF s.status # "SUCCESS" THEN s
  ELSE IF r.status # "SUCCESS" THEN Fails(s, r.status)
  ELSE Store(s, r.p, 0, << >>, n)

Resize(s, n) == ResizeTo(s, n + 1)

Moved(s, r) == [s EXCEPT !.data = r.p, !.status = r.status]

Reserve(s, c) == Moved(s, Outcome(V(s)!Reserving(c)))
ShrinkToFit(s) == Moved(s, Outcome(V(s)!Reallocate(s.data, s.size)))

Clear(s) ==
  LET r == VectorResize(s, 0) IN
  IF r.status # "SUCCESS" THEN Fails(s, r.status)
  ELSE Store(s, r.p, 0, << >>, 1)

-----------------------------------------------------------------------------
(* Insertion and appending *)

AppendChars(s, chars) ==
  LET n == s.size + Len(chars)
      r == VectorResize(s, n)
  IN  IF s.status # "SUCCESS" THEN s
      ELSE IF r.status # "SUCCESS" THEN Fails(s, r.status)
      ELSE Store(s, r.p, s.size - 1, chars, n)

StringAppend(s, source) ==
  IF s.status # "SUCCESS" THEN s
  ELSE IF source.size = 0 THEN Fails(s, "INVALID_ARGUMENT")
  ELSE AppendChars(s, Shown(source))

AppendEx(s, source, source_index, count) ==
  IF source.size = 0 THEN Fails(s, "INVALID_ARGUMENT")
  ELSE IF source_index + count >= source.size THEN Fails(s, "OUT_OF_RANGE")
  ELSE AppendChars(s, SubSeq(source.data, source_index + 1,
                             source_index + count))

\* Mutant: the characters behind the index stay where they are
InsertCharsOver(s, index, chars) ==
  LET count == Len(chars)
      r == Outcome(V(s)!GrowTo(s.size + count))
  IN IF count = 0 THEN Fails(s, "INVALID_ARGUMENT")
     ELSE IF r.status # "SUCCESS" THEN Fails(s, r.status)
     ELSE Store(s, r.p, index, chars, s.size + count)

\* ZyanVectorInsertRange: the NUL moves with what is behind the index
InsertChars(s, index, chars) ==
  LET count == Len(chars)
      r == Outcome(V(s)!GrowTo(s.size + count))
  IN IF count = 0 THEN Fails(s, "INVALID_ARGUMENT")
     ELSE IF r.status # "SUCCESS" THEN Fails(s, r.status)
     ELSE IF ~V(s)!InBlock(r.p, index, s.size - index + count)
       THEN Fails(s, "OVERRUN")
     ELSE [s EXCEPT !.data = V(s)!MemCpy(V(s)!ShiftRight(r.p, index, count),
                                           index, chars),
                    !.size = s.size + count]

\* An index behind the NUL is taken for the end
Insert(s, index, source) ==
  IF source.size = 0 THEN Fails(s, "INVALID_ARGUMENT")
  ELSE IF index = s.size THEN StringAppend(s, source)
  ELSE IF index > s.size THEN Fails(s, "OUT_OF_RANGE")
  ELSE InsertChars(s, index, Shown(source))

InsertEx(s, index, source, source_index, count) ==
  IF source.size = 0 THEN Fails(s, "INVALID_ARGUMENT")
  ELSE IF index = s.size THEN AppendEx(s, source, source_index, count)
  ELSE IF index > s.size \/ source_index + count >= source.size
    THEN Fails(s, "OUT_OF_RANGE")
  ELSE InsertChars(s, index, SubSeq(source.data, source_index + 1,
                                    source_index + count))

-----------------------------------------------------------------------------
(* Deletion *)

\* Mutant: the NUL may be deleted
DeleteNul(s, index, count) ==
  IF index + count > s.size THEN Fails(s, "OUT_OF_RANGE")
  ELSE IF count = 0 THEN Fails(s, "INVALID_ARGUMENT")
  ELSE LET r == Outcome(V(s)!ShrinkTo(V(s)!ShiftLeft(s.data, index, count),
                                          s.size - count))
       IN  Store(s, r.p, 0, << >>, s.size - count)

\* ZyanVectorDeleteRange, which gives memory back
Delete(s, index, count) ==
  IF index + count >= s.size THEN Fails(s, "OUT_OF_RANGE")
  ELSE IF count = 0 THEN Fails(s, "INVALID_ARGUMENT")
  ELSE LET r == Outcome(V(s)!ShrinkTo(V(s)!ShiftLeft(s.data, index, count),
                                          s.size - count))
       IN  Store(s, r.p, 0, << >>, s.size - count)

Truncate(s, index) ==
  IF index >= s.size THEN Fails(s, "OUT_OF_RANGE")
  ELSE Delete(s, index, s.size - index - 1)

-----------------------------------------------------------------------------
(* Characters *)

\* The characters from index on, count of them, become what f makes of them
ForEach(s, index, count, f) ==
  IF index + count >= s.size THEN Fails(s, "OUT_OF_RANGE")
  ELSE [s EXCEPT !.data = [i \in DOMAIN s.data |->
          IF i \in (index + 1)..(index + count) /\ s.data[i] # Undef
            THEN f[s.data[i]] ELSE s.data[i]]]

\* Mutant: the end of the upper case letters is not checked
LowerUnbounded == [c \in Char |-> IF c >= 65 THEN c + 32 ELSE c]

Lower == [c \in Char |-> IF c \in 65..90 THEN c + 32 ELSE c]
Upper == [c \in Char |-> IF c \in 97..122 THEN c - 32 ELSE c]

ToLowerCaseEx(s, index, count) == ForEach(s, index, count, Lower)
ToUpperCaseEx(s, index, count) == ForEach(s, index, count, Upper)

\* The NUL is no character that can be asked for
GetChar(view, index) ==
  IF index + 1 >= view.size THEN [value |-> Undef, status |-> "OUT_OF_RANGE"]
  ELSE [value |-> view.data[index + 1], status |-> "SUCCESS"]

\* Also for a write through the pointer that ZyanStringGetCharMutable returns
SetChar(s, index, value) ==
  IF index + 1 >= s.size THEN Fails(s, "OUT_OF_RANGE")
  ELSE [s EXCEPT !.data[index + 1] = value]

-----------------------------------------------------------------------------
Indices == 0..(MaxSize + 1)     \* one past the NUL included

Construct ==
  \/ \E c \in Capacities, g \in GrowthFactors, t \in ShrinkThresholds :
       \/ InitEx(c, g, t)
       \/ \E v \in Sources : DuplicateEx(v, c, g, t)
       \/ \E v, w \in Sources : ConcatEx(v, w, c, g, t)
  \/ \E c \in BufferCapacities :
       \/ InitCustomBuffer(c)
       \/ \E v \in Sources : DuplicateCustomBuffer(v, c)
       \/ \E v, w \in Sources : ConcatCustomBuffer(v, w, c)

\* A view is given as a whole or from an index on
Extension ==
  \E v \in Sources :
    /\ Live
    /\ \/ Call(StringAppend(This, v))
       \/ \E i \in Indices : Call(Insert(This, i, v))
       \/ \E i, n \in 0..v.size :
            \/ Call(AppendEx(This, v, i, n))
            \/ \E k \in Indices : Call(InsertEx(This, k, v, i, n))

Deletion ==
  /\ Live
  /\ \E i \in Indices : \/ Call(Truncate(This, i))
                        \/ \E n \in Indices : Call(Delete(This, i, n))

Change ==
  /\ Live
  /\ \E i \in Indices :
       \/ \E c \in Letters : Call(SetChar(This, i, c))
       \/ \E n \in Indices : \/ Call(ToLowerCaseEx(This, i, n))
                             \/ Call(ToUpperCaseEx(This, i, n))

Management ==
  /\ Live
  /\ \/ \E n \in Indices : Call(Resize(This, n))
     \/ \E c \in Capacities : Call(Reserve(This, c))
     \/ Call(ShrinkToFit(This))
     \/ Call(Clear(This))

Calls == Construct \/ Destroy \/ Extension \/ Deletion \/ Change \/ Management
=============================================================================
