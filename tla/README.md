# Zycore-C in TLA+

Zycore-C is a C library of containers, text, a command line parser and wrappers
of the operating system's threads. This directory models the parts of it that have
logic of their own, model-checks them with TLC and proves some of their properties
with TLAPS.

## Inventory

| Component | State | Operations | Works with |
|---|---|---|---|
| Allocator (`Allocator.c`) | three callbacks | allocate, reallocate, deallocate | called by Vector and List |
| Vector (`Vector.c`) | allocator, growth factor, shrink threshold, size, capacity, destructor, data | construct, duplicate, get/set, push, insert, emplace, swap, delete, pop, clear, find, binary search, resize, reserve, shrink | Allocator; destructors, constructors and comparisons are callbacks |
| List (`List.c`) | head, tail, size, capacity, first unused node; two links per node | construct, push, emplace and pop at both ends, set, clear, resize | Allocator, or a fixed buffer; callbacks |
| Bitset (`Bitset.c`) | number of bits, a vector of bytes | construct, set, reset, toggle, test, byte-wise logic, push, pop, clear, count, all/any/none | Vector |
| String (`String.c`) | a vector of characters with a terminator, flags | construct, duplicate, concatenate, append, insert, delete, search, compare, resize, views | Vector |
| Format (`Format.c`) | none | append decimals, hexadecimals, formatted text to a string | String |
| ArgParse (`ArgParse.c`) | a vector of parsed arguments | one call | Vector, String views |
| Synchronization (`API/`) | a recursive lock of the system | initialise, enter, try, leave, delete | operating system |
| Thread (`API/`) | thread-local slots of the system | allocate, free, get, set | operating system; destructors are callbacks |
| Atomic (`Atomic.h`, `Internal/`) | a word | compare-exchange, increment, decrement | compiler intrinsics |
| Comparison (`Comparison.h`) | none | the macros that declare comparisons | callbacks of Vector's searches |
| Example of a vector (`examples/Vector.c`) | a vector and a loop's variables | three tests in a row | Vector, with a binary search in front of each insertion |
| Memory, Process, Terminal (`API/`) | none of their own | one system call each | operating system |
| Status, Object, Types, Defines, LibC, Zycore | none | macros, types, the version | everything |

A container is used by one thread at a time. What is hard about it is sequences of
legal calls whose effects on two or three fields must keep agreeing (size against
capacity against the block; head against tail against links; bits against bytes;
text against terminator), boundaries (empty, one element, full, multiples of
eight), and calls that fail half way, because an allocator refuses, a buffer is
full or a constructor fails. The wrappers of the system's threads are hard for the
usual reason: between any two calls of a thread the others run. `PROJECT.json` lists
the hazards line by line. What makes a component correct:

- Vector: no access outside the block; the recorded capacity is the block's;
  calls splice the sequence of elements as documented and destroy exactly the
  elements that go; growing and shrinking do not chase each other. Searches find
  the first match, and end.
- List: links in both directions agree with each other and with the size; every
  node is in the list, free or never used; the list is a double-ended queue.
- Bitset: the bytes that the bits need, none lost and none too many; each call does to the bits what it
  says although it works on bytes; the bits behind the end do not show.
- String and Format: always terminated; a call does to the text what it says, or
  refuses and leaves it; numbers are written as they are read.
- ArgParse: every token is accounted for once; limits and required arguments hold;
  an error in the arguments leaves nothing behind.
- Synchronization, Thread, Atomic: the statuses the calls return are the truth about
  who is inside; data of a thread is its own and is destroyed once; nobody waits for
  ever.

## Modules

    ElementSequence   ElementDeque   BitString          Text        what a component promises
          ^                ^             ^               ^
     ZyanVector        ZyanList     ZyanBitset       ZyanFormat     the code
      |   |                |         |                   |
      |   |                |         |              ZyanString  <- ZyanStringSearch
      |   +----------------|---------|-------------------+
      |                    |    ZyanBitsetCount
     ZyanAllocator --------+

     ZyanVector   ZyanVectorSearch                 ZyanAtomic  ZyanCriticalSection  ZyanThread
            \        /           ZyanArgParse              \          |           /
           VectorExample                                        ZyanThreads
                                                                     |  (promise)
                                                                RecursiveLock

`MCZyanVector`, `MCZyanList`, `MCZyanBitset`, `MCZyanVectorSearch`, `MCVectorExample`,
`MCZyanString`, `MCZyanArgParse` and `MCZyanThreads` give the constants their values.
A module `...Proofs` extends the one it is about; `ZyanStringProofs` extends `ZyanFormat`
and `ZyanStringSearch`, and `ZyanStringCallProofs` extends `ZyanStringProofs`.

`ZyanAllocator` is extended by the vector and the list. A block is the sequence
of the cells it holds, one per element; `NULL` is the empty block. The allocator's
callbacks are operators that return the set of the outcomes a call may have:
`AllocatorFailures` says whether no request is refused (`"never"`), only those
for more memory (`"growing"`, what C libraries do in practice) or any (`"any"`,
what the interface allows).

`ZyanVector` is one vector. Its variables are the fields of `struct ZyanVector_`
except `element_size`, for elements are atomic. Each call of the API that changes
the vector is one action, with everything it calls: `Reallocate`, `ShiftLeft` and
`ShiftRight` are operators named like the functions, and an action passes the
outcome of the reallocation through them in the order of the code. Delegating
functions are the action they delegate to: `Insert`, `Emplace`, `Delete`, `Clear`
and `Resize` are `InsertRange`, `EmplaceEx`, `DeleteRange` and `ResizeEx`. `status`
and `destroyed` record what the last call returned and which elements its
destructor saw. `overrun` is raised by a call that leaves its block; after that
the program's behaviour is undefined and the model stops. A duplicate is a vector
made with the elements of another, which the call does not change.

`ElementSequence` is what a vector promises its users: elements in a sequence,
nothing about memory. `ImplementsSequence` says the vector implements it, with
the first `size` cells of the block as the sequence; `CallsImplement` says so
call by call, so that a `PushBack` cannot hide behind what a `DeleteRange` may do.

`ZyanVectorSearch` is one call of `ZyanVectorFindEx` or `ZyanVectorBinarySearchEx` on
any vector and range, a round of the loop being an action. `count` shrinks and the
bounds move as in the code; the elements are numbers, compared by the macros of
`Comparison.h`.

`VectorExample` puts the two together as the repository's example program does: its
variables are those of the program, its vector the one of `ZyanVector`, its searches
`ZyanVectorSearch` on what that vector holds. It inserts each random number where the search says it goes.
`Goes` is `ZYAN_CHECK`: a call that fails ends the program.
`MCVectorExample` lets a behaviour begin with any calls on a vector (`AnyCall`, an instance of
`ZyanVector` on the same variables) or with the program, so that one run checks the vector's
properties in both.

`ZyanList` is one list. A node is a number: a slot of the buffer, or an address
the allocator hands out. `AllocateNode` and `DeallocateNode` are the two static
functions; `LinkBack`, `LinkFront` and `CutBack` are the blocks of assignments the
pushes and pops share. Since a call changes several nodes one after the other, a
call is a chain of operators over the record `Memory` (struct, nodes, heap).
`ElementDeque` is the promise, `ImplementsDeque` and `CallsImplement` the two ways
of saying that it is kept; the first is proved, the second run as well.

`ZyanBitset` is one bitset. A byte is the set of its bits that are 1. Its vector
is represented by what `ElementSequence` says of one whose allocator does not
fail: bytes are appended unless a fixed buffer is full. `ZyanUSize` arithmetic is
modulo `USizeRange`, since the code subtracts without looking. `Missing` is the number of
bytes the bits need and have not got: a bitset made with a part of a byte has none for it. `BitString` is the promise.
`ZyanBitsetCount` adds the population count, the one call that works on bytes as
numbers: a byte is the number of its binary digits, its AND with a mask the number of
the products of the digits, and a shift a division.

`ZyanString` is one string. A call is a function from a string to a string, so that
it can be given to other calls, as `ZYAN_CHECK` does: a call that gets a string with
an error passes it on. What the vector does is not told again: `V(s)` is an instance
of `ZyanVector` whose growing, shifting and copying the string's operators use, with
the string's fields in the place of the vector's. Characters are ASCII codes. The
cells behind the end are forgotten after each call (`Undef`), which keeps the
states few and makes a read of them show. `ZyanFormat` extends it with the
conversions; what `vsnprintf` produces is an input, `NoText` being its failure, and so is
what it answers when it is called again in the block that has grown (`again`).
`ZyanStringSearch` has the searches and the comparison as functions of the positions
the loops stand at. `Text` is the promise: a sequence of characters and a limit,
with splicing, changes of case and figures of numbers defined by what they mean.

`ZyanArgParse` is one call of `ZyanArgParseEx`. Its actions are the rounds of the
loop over the tokens and of the one over the characters of a token; the pointer to
the token is its index, `cur_arg`. `parsed` and `capacity` are the vector, whose
allocator is asked when the two are equal and may refuse.

`ZyanCriticalSection`, `ZyanThread` and `ZyanAtomic` have the calls of the three
headers as operators, each the set of the outcomes a call may have, or the one it
has. The mutex, the keys and the intrinsics are external: they are modelled from the calls the
code makes and the errors it handles. Where the code ignores a result, the outcome is in the
model all the same: a system that refuses the recursive kind (`KindRefused`) leaves
a section that is not recursive and a status of success. `ZyanThreads` puts them together. Nothing in the
repository does, so the program is a client made for the purpose: threads claim the
initialisation of a critical section by compare-exchange, the winner initialises
it and the others wait, the first one inside allocates a slot, each takes a place
by an increment and stores data in the slot, and the last to count itself out
deletes the section. Each call is a step of its own; each may fail as the code
reports; threads enter recursively, try, leave once too often and try to delete
the section from inside. `RecursiveLock` is what the section promises them, without a
mutex or an owner: only how often each has entered it, by the statuses it got.
`ImplementsLock` says that `section.state` and `held` behave so.

Operators whose comment starts with "Mutant" are deliberate mistakes. They stand
before the definition they are a mistake in; putting one in that definition's
place must break a property, and does.

## Runs

| Run | What is checked | Bounds |
|---|---|---|
| `vector_memory` | `MemorySafe` (and so `CapacityAllocated`), `NoThrashing`, `WasteBounded`, `ReservationKept`, for any calls and for the example program, and `BuildsSorted` of the program; no request is refused | any calls: one element value, 4 elements, reserved capacity up to 9, growth factor 2 (0 is refused), shrinking off or thresholds 4 and 5, buffer of 3; the program: its own counts, indices and policies (20 elements), three random numbers |
| `vector_calls` | `CallsImplement`, `ImplementsSequence`, with an allocator that may refuse to grow and in a buffer | two values, 3 elements, reserved capacity up to 3, buffer of 2 |
| `search` | `FindsFirst`, `PlacesElement`, `Logarithmic`, `Returns` | all vectors of up to 5 elements out of 3 values, sorted or not, and all their ranges |
| `list` | `WellLinked`, `NodesAccounted`, `NodesStay`, `CallsImplement`, with an allocator that may refuse any node and in a buffer | two values, 3 nodes, buffers of 2 and 3 (of which the one of 2 runs full) |
| `bitset` | `BytesKept`, `CountMissesNone`, `CallsImplement`, `ErrorsKeepBits` | 9 bits, made with 0, 4, 8 or 9, two masks of different lengths, memory of its own or a buffer of one byte |
| `string` | `Terminated`, `CallsImplement`, `SearchesFind`, `ComparisonsOrder`, `Creates` | 4 cells, on the heap or in a buffer of 4 (0 is refused); texts "", "a", "Aa"; numbers -1, 10, 100 in decimal and 0, -1, 26 in hexadecimal, padding 0 and 2 |
| `argparse` | `LettersAccounted`, `ResultValid`, `DashesEnd`, `Returns` | up to 3 tokens out of 10, five sets of definitions, limits 0 to 0, 0 to 2, 1 to 3 and the refused 2 to 1, an allocator that may refuse |
| `threads` | `Exclusive`, `WaitsForOther`, `OnlyLive`, `StorageShared`, `CleanedUp`, `ImplementsLock`, `Finishes` | 3 threads, 2 slots, words modulo 4, recursion up to 2, 3 enters without a leave, one place; the recursive kind is granted |

Why the bounds are enough. Vector and list only copy elements, never look at them, so
that two values and "unwritten" tell any two cells apart that a shift could confuse. Three
elements have a first, a last and one between; ranges of 0, 1 and 2 elements at
every index, one past the end included, cover the cases of the shifts. A capacity
of 9 is more than twice what 4 elements need, so that a vector passes the shrink
threshold in both directions. A list of three nodes has an inner one, and a buffer
of three is filled, emptied in any order and filled again from its free list. Nine
bits reach into a second byte; the bits are accessed at both ends of both bytes. Made with 4
or 9 bits a bitset is a byte short, made with 0 or 8 it is not, and pushes and pops over the
multiples of eight lead on from each. In the example program three numbers give equal, lesser and greater ones,
and what a sorted vector of up to 20 of them holds is how many there are of each.
Five elements of three values have duplicates on both sides of the middle, gaps, and
halves of unequal length. In the string `MinimumCapacity` stands for the 32 of the
source by 1, so that three characters already make it grow past its smallest
block; the properties quantify over all sources, indices and counts in every state,
so that a state need not be reached by the call that would show it. "Aa" and "a"
differ in length, in case and in one character, and 10, 100 and 26 have one figure
pair, the boundary of the loop over pairs and a hexadecimal letter. Three tokens hold an
argument with its value and one more, or the two dashes between two others; the
tokens are unknown, known, clusters with a value at either end, and a single dash.
Two threads can hold and want; the third tells an order of waiters from a choice. One
place makes the second thread's increment run past the limit.

`CHECK_DEADLOCK FALSE` appears in `vector_calls` and `vector_stale_capacity`, where
the model stops after an access outside the block, in the runs of `ZyanArgParse`,
where the function returns, in `vector_memory`, where the example program ends, and in
`threads`, where all threads end. That nothing else stops is `Returns` and `Finishes`.

Fairness. `search` and `argparse` assume that the function runs on while it can take a
step (`WF_vars`), as a thread does that is not suspended for ever. `threads` assumes the
same of each thread by itself, and of the freeing of the slot after they ended. It
assumes nothing of the lock: which waiter gets it is the system's choice, and a
thread that only tries may be refused for as long as it likes. A waiter still
gets in at last because every thread enters a bounded number of times and leaves.

The other runs expect a violation, each of a sentence in the source:

| Run | Sentence | What the code does |
|---|---|---|
| `vector_stale_capacity` | `Vector.h:94` "The maximum capacity (number of elements)" | the capacity is stored before the reallocation is tried, and stays when it fails; the next push leaves the block |
| `argparse_cluster` | `ArgParse.c:210` "Still here? We're looking at an unnamed argument." | a token of boolean single-dash options alone gets there, too, and is reported again as an unnamed argument, or is one too many |
| `string_compare` | `String.h:836-840`, that the result tells which string has the lower character | `ZyanStringCompare` compares with the case bit set (`String.c:871`): of "a" and "A" each is greater |
| `bitset_partial_byte` | `Bitset.c:56`, "The amount of bytes needed to fit `x` bits." | the number is divided before it is rounded up (`Bitset.c:58`): 4 bits get no byte, 9 get one |

Also met while modelling; these have no run of their own:

- A shrinking resize whose reallocation fails has destroyed elements that stay
  (`Vector.c:763`; `Vector.h:219`). With an allocator that may refuse any request
  the recorded capacity can then be below the size; this is the cause of
  `vector_stale_capacity` again, which is why `vector_calls` lets only growing requests fail.
- With the default parameters a growing `ZyanVectorResize` applies the shrink test
  (`Vector.c:771-775`): a vector of capacity 5 resized from 0 elements to 1 goes down to
  a capacity of 2. What `ZyanVectorReserve` set lasts for certain only with shrinking
  off, which is what `ReservationKept` says. With a growth factor of 1 a block that
  shrinks has no cell to spare; `NoThrashing` is checked for a factor of 2.
- `ZyanListRemove` and `ZyanListRemoveRange` return success and do nothing
  (`List.c:526`; `List.h:490`); `ZyanListDuplicate` and its variants are declared only.
- The list ignores what the constructor of an emplaced element returns (`List.c:409`), where
  the vector looks at it (`Vector.c:523`); no document says what should be.
- `ZyanBitsetPush` counts the size up before it asks for the byte (`Bitset.c:414`). A full buffer
  refuses it and the bitset has one bit more than the buffer holds (`Bitset.h:129`); the next pop
  removes a byte of eight other bits. Popping an empty bitset wraps its size around (`Bitset.c:430`; the constant `PopsEmpty` lets the model do it). `ZyanBitsetAll`
  and `ZyanBitsetAny` mask the last byte with the complement of a count (`Bitset.c:559`,
  `Bitset.c:591`). `ZyanBitsetCount` counts bits behind the end that a pop or a flip
  left set, up to the size: it is never too low (`CountMissesNone`) but may be too high.
- `ZyanStringReserve` does not count the terminator (`String.h:947`).
- `ZyanStringViewInsideViewEx` makes the size of the view `count`, where every other view
  counts one more (`String.c:276`): it shows one character less than "The number of
  characters." (`String.h:486`).
- The left searches take the needle to end at its NUL (`String.c:603`), which a view of a
  string that is not null-terminated (`String.h:116-117`) need not have: more than the
  view is searched for.
- Formatted text that does not fit a fixed buffer has overwritten the terminator
  (`Format.c:384`) when the resize is refused, where it is "guaranteed at all times"
  (`String.h:91`). The constant `FormatFits` lets the model do it.
- "On error, the vector remains uninitialized." (`ArgParse.h:135-136`), but when it is refused
  memory for an argument the parser returns at once (`ArgParse.c:108`), and the vector stays.
- `ZyanStringCompare` puts the shorter string first whatever the characters are, looks
  at the cell behind a view where the terminator of a string is, and ignoring
  case takes characters for the same whose codes differ by 32, "@" and the backtick among them
  (`String.h:836-840`). `ComparisonsOrder` and `SearchesFind` are therefore about letters.
  With case, the first says of the order only what `string_compare` leaves: exchanging two strings negates
  the result unless their first difference is one of case.
- `ZyanStringAppendFormat` uses its `va_list` a second time after `vsnprintf`
  consumed it (`Format.c:407`).
- The result of `pthread_mutexattr_settype` is not looked at (`Synchronization.c:68`). POSIX
  lets it fail for an attribute or a kind that is not valid only, neither of which is the case.
  On a system that refuses the kind all the same a thread that enters twice waits for
  itself, which the run `threads` shows when it is given `KindRefused = TRUE`.
- `ZyanThreadGetCurrentThreadId` reads the number behind a `pthread_t` as if it were
  a pointer (`Thread.c:114`).

## Proofs

The theorems hold for every value of the constants that the named assumptions of
the modules allow; these are the ones TLC evaluates in the runs. Where a theorem needs
more, it says so in an ASSUME of its own, and the reason is given here.

`ZyanVectorProofs`, of `ZyanVector`, first of its memory:

- `TypeCorrect`: `TypeOK` is an invariant, whatever the allocator does.
- `NeverOverrun`: if the allocator never refuses, no call leaves its block (`MemorySafe`).
- `CapacityCorrect`: if the allocator never refuses, the recorded
  capacity is allocated and the size is within it.

`MemorySafe` is not inductive: that a push stays in the block depends on the
capacity being real and on the size being within it. The inductive invariant is
`SafeInv`: the type invariant, no overrun so far, and `Layout`, which says of an
initialised vector that size <= capacity <= length of the block, that the capacity
is not 0 and that a dynamic vector's growth factor is at least 1 (without which
growing would not make room). Lemmas say what the outcomes of `Reallocate`,
`GrowTo` and `ShrinkTo` are, and that copies and moves inside a block keep its
length; each action then preserves `SafeInv` by a step of its own. The assumption
on the allocator is needed: `vector_stale_capacity` is a counterexample without it.

then of the policies and of the promise:

- `ReservationHolds`: with shrinking off, adding elements never gives capacity back.
- `WasteIsBounded`: with a threshold not below the growth factor, a deletion leaves at
  most threshold times the cells the elements need (`ThresholdAboveFactor`).
- `PoliciesDoNotThrash`: growing and shrinking do not chase each other, if the
  threshold is at least twice the growth factor and this at least two
  (`Hysteresis`). `Vector.h`'s defaults are 4 and 2, which satisfy both hypotheses as they stand.
- `VectorImplementsSequence`: `ImplementsSequence`.
- `CallsAreSequenceCalls`: `CallsImplement`; each call by its own name.

The invariant is `CallInv`: `TypeOK`; `Configured`, that only constructors write the policy;
and `Recorded`, that the recorded capacity is not below the size unless the
block is no longer than that capacity, and never so in a buffer. It is weaker than
`Layout` because the allocator may refuse to grow here, so that a capacity may have
been recorded that is not there. The theorems need `AllocatorFailures # "any"`: if a
shrinking `Resize` is refused, too, the recorded capacity falls below the size and
the next `Reserve` moves fewer elements than there are (TLC shows it when the run is given
`"any"`). `MaxSize >= 2` is about the bound of the exploration: a construction makes up to
two elements. For each action, one lemma says how block and size change and
one that the action of `ElementSequence` does the same to `Contents`. Growth is by the factor and a
shrink needs the threshold, and `2 * g <= t` keeps the two apart.

`ZyanVectorSearchProofs`, of `ZyanVectorSearch`, for vectors of any length with
any integers for elements, and for every range:

- `TypeCorrect`: the bounds of both loops stay within the range.
- `FindCorrect`: the first match of the range is found, and none is missed.
- `BinarySearchCorrect`: in a sorted range the answer is the first position whose
  element is not less, and the status says whether it is equal.
- `ComparesLogarithmically`: what is left is halved by each comparison, sorted or not.

The inductive invariant is `SearchInv`. It is the loop invariant of a textbook, in
parts: `Passed` says that what the linear search went by is different, `Bounds` that
the lower bound is at most one above the upper one, `RuledOut` that elements below the
lower bound are less and those above the upper bound are not, `Seen` that the first
element above the upper bound is the match the status remembers. The last is the
one that is easy to forget: the code goes on after it has met a match, to find the
first. The logarithm needs that a power of two doubles with its exponent, of which the provers
know nothing; `PowersOfTwo` gets it from the number of subsets of an interval.

`ZyanListProofs`, of `ZyanList`, without hypotheses:

- `ListTypeCorrect`, `ListWellLinked`, `ListNodesAccounted`: the three invariants.
- `ListNodesStay`: a call leaves every node that stays in the list its element.
- `ListImplementsDeque`, `ListCallsAreDequeCalls`: the refinement and the calls.

`ListInv` is the type invariant, a known status, and, while the list lives, that there
is a sequence of nodes of which it is the chain (`Held`): `Links` says that each node's
`next` and `prev` are its neighbours, head and tail are the ends and the size is the length,
and `Owned` where the other nodes are, strung on the free list of a buffer or not
handed out by the allocator. `WellLinked` says less: following the links
cannot be taken apart and put together again without naming the sequence. The proof follows
the code: a lemma for `AllocateNode`, `DeallocateNode`, `LinkBack`, `LinkFront` and `CutBack`
each says what it does to the sequence, and the pushes, pops and the clearing
loops are chains of them. The deque is seen through `Items` along the chain.

`ZyanBitsetProofs`, of `ZyanBitset` and `ZyanBitsetCount`, for every bound, width and set of masks:

- `TypeCorrect`: `TypeOK` is an invariant.
- `ErrorsKeep`: a call that reports an error leaves the bits that remain as they were.
- `BytesNeverLost`: `BytesKept`; if bitsets are not popped when empty (`NoEmptyPops`), none with
  memory of its own ever loses a byte that its bits need, nor keeps one that they do not.
- `BytesAlwaysFit`: if they are made with multiples of eight bits besides (`WholeBytes`), one
  always has exactly the bytes it needs. `bitset_partial_byte` is the counterexample without that.
- `BitsetCallsAreStringCalls`: if they are not popped when empty, each call on one that has the bytes it
  needs does to the bits what `BitString` says, if the masks of the bytewise calls have theirs
  (`SourcesFit`), as those have that were made with whole bytes.
- `EveryBitCounted`: `CountMissesNone`, without hypotheses: however the bitset came about,
  the count is not below the number of its bits that are set.

The invariant `FitInv` says that such a bitset has no byte too many, `Missing >= 0`, and that the size stays
below its bound, so that the arithmetic does not wrap. A step of it also bounds `Missing` by its old value.
Each assumption is needed, as the list above says. The count
needs of the state only that it is well typed: `PopcntCounts` says that the three rounds of
pairwise sums make the sum of the eight digits of a byte, since a sum of two digits fits into
two, of four into three and of eight into four; `CountIs` that the sums over the
bytes add up to the number of bits that are set in them, behind the end of the bitset
included; and the bits of the bitset are among those.

`ZyanStringProofs`, of `ZyanFormat` and `ZyanStringSearch` (and so of `ZyanString`), for
every policy, buffer, view, letter, number and padding:

- `StringTerminated`: there is a NUL at the end of the string, and the end within the block.
- `StringStaysInBlock`: no call reads or writes outside of the block.
- `StringCreates`: duplicates and concatenations have the characters of their sources.
- `StringSearches`: a search finds the first or the last occurrence, and none where there is none.
- `StringsCompare`: strings compare equal exactly when their texts are the same; exchanged, the result is
  negated, with case only for strings whose first difference is not one of case.

The invariant `StringInv` says that the block holds characters and unknown cells, that there is a
NUL at `size` and that its vector has a policy with a growth factor of at least 1. All but
`StringCreates` assume `FormatFits`, that the text `vsnprintf` makes fits the room there is; text that does not is
in the list above. `IsString` is the same of the strings that
calls pass to one another, whose status may be an error; every call maps strings to
strings. `Room` says of each outcome of the vector that the cells asked for are there
and the old ones are kept. A hexadecimal number is given room in two steps, first
for its padding and then for its figures, and `AppendHexUIs` is why these are enough.

The last two theorems also assume that the views have their first NUL at the end
(`NulTerminated`; for others see the list above), and speak of the states in which no
two characters but the cases of one letter differ in the sixth bit alone
(`CasesOnly`): to the code, which ignores case by that bit, "@" and "`" are the same. In the run
all searchable states are such. A loop that runs up or down to the first stop is a
recursive function, and `LoopUpExists` and `LoopUpEnds` (and `LoopDown...`) say of any such loop that it
is defined and ends at the stop, by the least number of the set of stops.
`LMatchIs` and `RMatchIs` apply them to the inner loops: a match that leaves the range
also rules out all later places, which lie further out. `LPosExIs` and `RPosExIs` do the outer ones.

`ZyanStringCallProofs`, of the same, for every policy, buffer, text, padding and prefix:

- `StringKeepsPromises`: `CallsImplement`; in every state each call of `String.c` and
  `Format.c` does to the text what `Text` promises, or refuses for the reason it promises.

Its hypotheses are `FormatFits` again; `Initialised` and `Prefixed`, that views have a size (each
function that makes a view counts a NUL behind the text, and the calls take 1 off again); and `Representable`, that
numbers have 64 bits. `Text` sees a string through `Meaning`, as
the characters before the NUL, the status and, in a buffer, the room. That a buffer
refuses exactly what does not fit needs one fact more, `Buffered`: the vector of a
buffer grows by 1 and never shrinks, so that the calls ask for no more than they need. A call asks for room and
then writes: `BecomesStored` and `SpliceIs` say of any call that adds text that
cells which agree with the promised ones mean the promised text. Numbers are written
by dividing, and promised as digits that make up the number by the powers of the base:
`PowersAre` gives the powers the code does not have, `DecimalsAre` and `HexesAre` that
the quotients are the digits, leading zeros and the two tricks of the code (two decimal
digits per division, sixteen nibbles by shifts) included.

`ZyanArgParseProofs`, of `ZyanArgParse`, for all command lines, definitions and limits:

- `ArgParseTypeCorrect`: the parser stays within the tokens, the definitions and its vector.
- `ArgParseResultValid`: what is accepted keeps the limits and has the required arguments; an error in
  the arguments leaves no vector. Memory that is refused does (`ArgParse.c:108`).
- `DoubleDashEnds`: behind a "--" each token is an unnamed argument, in order.
- `EveryLetterAccounted`: `LettersAccounted`.

`ParseInv` has four parts: `Placed`, where the loops stand; `Filled`, what the vector
holds; `Counting`, that the counter of unnamed arguments is the number of those in the vector,
and within the limit; `Behind`, that from a "--" on dashes are not accepted and the last arguments are the
tokens after it. `Taking` is kept beside it for the letters: those of the arguments are those of
what was read so far, the token that is read in part included, and the characters read
of that one are boolean arguments, so that only a token of nothing else is
taken again. It needs that the letters of two texts in a row are those of one and then
those of the other (`LettersOfJoined`), an induction over their length.

`ZyanThreadsProofs`, of `ZyanThreads`, for any number of threads, slots and places:

- `MutualExclusion`: `Exclusive` is an invariant. By what the calls told them at most one
  thread is inside, and the mutex counts exactly its enters.
- `ThreadsTypeCorrect`, `UsedWhileLive`, `SharedStorage`, `AllCleanedUp`: `TypeOK`, `OnlyLive`,
  `StorageShared` and `CleanedUp`.
- `SectionIsLock`: `ImplementsLock`; each step is one of `RecursiveLock` or leaves it as it is.
- `NoDeadlock`: if the system grants the recursive kind (`~KindRefused`), `WaitsForOther`; a thread that has to wait waits for another one that is in
  the section and does not have to.

A lock that is initialised again under a thread inside would forget it, so the
inductive invariant `IInv` needs more than the lock: `OnceTells` says that the word of
the compare-exchange tells how far the initialisation is and that one thread at
most is in it, `Accounts` that the section's owner and depth are the callers' counts.
Lemmas say of each call of the section what it changes, whatever status it returns.
The rest stands on `LifeInv`, which adds three layers: `Nesting` (where a thread is
tells how often it has entered), `Lifetime` (the section lives from its
initialisation to the deletion by the last thread that counts itself out, and `users` is the number of
those that have not) and `Storing` (the one slot in use is the recorded one, `stored` is the
number of threads that hold a place, and a value is only under a slot that is
recorded). Cardinalities come from the theorems on finite sets.
The last two theorems rest on `LockInv`, which leaves `Storing` out and adds `Made`: the initialisation
finds the section untouched, and the section it makes is recursive if the kind is granted. Without the first
the promise of a lock that is made once is broken, without the second a thread that enters again
waits for itself. That the counts of the callers are the mutex's (`Accounts`) makes an
enter, a try and a leave those of the promise whatever they return, and `Lifetime`
that the section is deleted once.

Induction. The provers cannot instantiate a theorem that takes a predicate, so the lemmas
`LeastNatural` and `Induction` of several modules speak of sets of numbers. A recursive function in the model is a
CHOOSE, of which nothing is known before it is shown to exist: `PairsExist` builds the one
that makes decimal figures from its initial parts, `PairsAgree` that these are unique;
`JoinsExist` and `JoinsAgree` do that for the joining of strings by `FlattenSeq`, `CountIs` for
the sum over the bytes of a bitset.

Only model-checked: `Returns` and `Finishes`, which rest on fairness, which the prover
does not handle, and `BuildsSorted`, which is about one program with the counts it uses.

## Assumptions and what is left out

- Calls are made as the assertions of the code demand: on initialised objects, with
  pointers that are not null. The null checks that return an error are not modelled.
- Deallocation does not fail (the default allocator's cannot). A custom allocator
  whose deallocation fails would leave a list half destroyed.
- Sizes stay far below the width of `ZyanUSize`, except in the bitset's counter, and
  numbers in the runs within TLC's.
- Pointers into a container, which go stale when it reallocates, are not values here;
  the sources of a string's calls are in other memory than its own.
- A string's allocator does not refuse: what its vector does then is in `vector_calls`.
- Atomic operations are sequentially consistent, as the full barriers of the
  intrinsics are.

### Not modelled

- Memory, Process and Terminal: each function is a system call, without state.
- The Windows builds of Synchronization and Thread. The first passes each call on and
  returns success. In the second a slot is fiber-local and its callback also runs when the slot is freed.
- `ZyanThreadGetCurrentThread`, which only asks the system, and `ZyanThreadGetCurrentThreadId`, whose
  result depends on what a `pthread_t` is (see above).
- `examples/String.c`, one sequence of calls whose results are printed.
- The functions of `Format.h` whose definitions are commented out (`Format.c:335-364`).
- Zycore, Status, Object, Types, Defines, LibC: a version number, types, macros and
  wrappers of the C library, modelled by what their callers use of them.

## Plan

1. Done: allocator, vector, list, bitset.
2. Done: `ZyanVectorSearch`, with its proofs; duplication of a vector.
3. Done: `ZyanString`, `ZyanStringSearch`, `ZyanFormat` over the vector, with `Text`.
4. Done: `ZyanArgParse`.
5. Done: `ZyanCriticalSection`, `ZyanAtomic`, `ZyanThread`, composed in `ZyanThreads`;
   mutual exclusion proved.
6. Done: theorems for every component, see Proofs.
7. Done: the calls of the string against `Text`, for every text and number.
8. Done: every invariant and every action property of the runs that pass is a theorem, but `BuildsSorted`.
9. Done: bitsets made with a part of a byte; comparisons exchanged, with and without case;
   `VectorExample`, a client that composes the vector with its search.
   Left: runs of their own for the other deviations met while modelling.
10. Done: the critical section as an implementation of `RecursiveLock`, and that it cannot deadlock.
