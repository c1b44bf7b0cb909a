---------------------------- MODULE VectorExample ----------------------------
(***************************************************************************)
(* The repository's example of a vector (src/examples/Vector.c), a client  *)
(* that puts its calls together: it fills, changes and clears a vector,    *)
(* and then keeps one sorted by inserting each number where a binary       *)
(* search of the vector says, on the heap, in a buffer of 20 elements and  *)
(* with an allocator of its own.                                           *)
(*                                                                         *)
(* Every call of the vector is an action of ZyanVector, a binary search    *)
(* the steps of ZyanVectorSearch on what the vector holds.  The counts and *)
(* indices are those of the program; only the random numbers are from a    *)
(* small set.  Each call may fail as the allocator does, which ends the    *)
(* program (ZYAN_CHECK).  What is only printed is left out.                *)
(***************************************************************************)
EXTENDS ZyanVector, FiniteSets

CONSTANT Keys               \* the numbers rand() % 100 may give

\* InitTestdata: the fields of a TestStruct are all made of one number
TestData(n) == [u32 |-> n]

ASSUME KeysAssumption ==
  Keys \subseteq 0..99 /\ \A n \in Keys \cup 0..19 : TestData(n) \in Element

VARIABLES test,             \* the function main has called
          step,             \* where it is
          i, value,         \* its loop counter, and the capacity it has read
          searching,        \* where the binary search is
          element, index, count, l, h, found, found_index, comparisons,
          inserted          \* history: how often each number was inserted

searched == <<searching, element, index, count, l, h, found, found_index, comparisons>>
allvars == <<vars, test, step, i, value, searched, inserted>>

\* What TestDataComparison looks at
Numbers == [p \in 1..size |-> Contents[p].u32]

\* ZyanVectorBinarySearch with that comparison
Search == INSTANCE ZyanVectorSearch
            WITH Element <- Keys, Vectors <- {}, vector <- Numbers, pc <- searching,
                 status <- found

\* Nothing has been called, and the program, if it is one, is at `where`
Begin(where) ==
  /\ Init
  /\ test = "TestDynamic" /\ step = where /\ i = 0 /\ value = 0
  /\ searching = "ready" /\ element \in Keys /\ index = 0 /\ count = 0
  /\ l = 0 /\ h = 0 /\ found = "FALSE" /\ found_index = -1 /\ comparisons = 0
  /\ inserted = [k \in Keys |-> 0]

Start == Begin("init")

\* ZYAN_CHECK: only a call that succeeded is followed by the next
Goes(to) == step' = IF status' = "SUCCESS" THEN to ELSE "failed"

-----------------------------------------------------------------------------
(* The three tests.                                                        *)

\* TestDynamic and TestStatic with the default policy, TestAllocator with
\* another, and without shrinking
InitVector ==
  /\ step = "init"
  /\ CASE test = "TestDynamic"   -> InitEx(10, 2, 4, FALSE)
       [] test = "TestStatic"    -> InitCustomBuffer(20, FALSE)
       [] test = "TestAllocator" -> InitEx(5, 10, 0, FALSE)
  /\ Goes("push") /\ i' = 0
  /\ UNCHANGED <<test, value, searched, inserted>>

Pushes == IF test = "TestAllocator" THEN 10 ELSE 20

PushNext ==
  /\ step = "push"
  /\ PushBack(TestData(i))
  /\ i' = i + 1
  /\ Goes(IF i' < Pushes THEN "push" ELSE IF test = "TestAllocator" THEN "compare" ELSE "delete")
  /\ UNCHANGED <<test, value, searched, inserted>>

\* The rest of PerformBasicTests, whose two elements are not told apart here
Change ==
  /\ \/ step = "delete" /\ DeleteRange(5, 5) /\ Goes("insert")
     \/ step = "insert" /\ InsertRange(5, <<TestData(0)>>) /\ Goes("set")
     \/ step = "set" /\ Set(10, TestData(0)) /\ Goes("clear")
  /\ UNCHANGED <<test, i, value, searched, inserted>>

\* TestAllocator: (5 + 1) * 10
CompareCapacity ==
  /\ step = "compare"
  /\ step' = IF capacity = 60 THEN "clear" ELSE "failed"
  /\ UNCHANGED <<vars, test, i, value, searched, inserted>>

Clear ==
  /\ step = "clear"
  /\ ResizeEx(0, NULL)
  /\ Goes(CASE test = "TestDynamic" -> "reserve" [] test = "TestStatic" -> "build"
            [] OTHER -> "destroy")
  /\ UNCHANGED <<test, i, value, searched, inserted>>

ReserveTwenty ==
  /\ step = "reserve"
  /\ Reserve(20) /\ Goes("build")
  /\ UNCHANGED <<test, i, value, searched, inserted>>

DestroyVector ==
  /\ step = "destroy"
  /\ Destroy /\ Goes("done")
  /\ UNCHANGED <<test, i, value, searched, inserted>>

\* main
NextTest ==
  /\ step = "done" /\ test # "TestAllocator"
  /\ test' = IF test = "TestDynamic" THEN "TestStatic" ELSE "TestAllocator"
  /\ step' = "init"
  /\ UNCHANGED <<vars, i, value, searched, inserted>>

-----------------------------------------------------------------------------
(* PerformBinarySearchTest: as many numbers as the vector has room for.    *)

BeginBuilding ==
  /\ step = "build"
  /\ value' = capacity /\ i' = 0
  /\ inserted' = [k \in Keys |-> 0]
  /\ step' = "choose"
  /\ UNCHANGED <<vars, test, searched>>

Choose ==
  /\ step = "choose" /\ i < value
  /\ UNCHANGED <<vars, test, i, value, inserted>>
  /\ \E n \in Keys : Search!BinarySearchEx(n, 0, size)
  /\ step' = IF searching' = "refused" THEN "failed" ELSE "search"

SearchOn ==
  /\ step = "search"
  /\ UNCHANGED <<vars, test, step, i, value, inserted>>
  /\ Search!Bisect \/ Search!Place

InsertFound ==
  /\ step = "search" /\ searching = "placed"
  /\ InsertRange(found_index, <<TestData(element)>>)
  /\ inserted' = [inserted EXCEPT ![element] = @ + 1]
  /\ Goes("again")
  /\ UNCHANGED <<test, i, value, searched>>

NextNumber ==
  /\ step = "again"
  /\ UNCHANGED <<vars, test, value, inserted>>
  /\ Search!Again
  /\ i' = i + 1
  /\ step' = IF i' < value THEN "choose" ELSE "destroy"

Building == BeginBuilding \/ Choose \/ SearchOn \/ InsertFound \/ NextNumber

Program ==
  \/ InitVector \/ PushNext \/ Change \/ CompareCapacity \/ Clear \/ ReserveTwenty
  \/ Building \/ DestroyVector \/ NextTest

ExampleSpec == Start /\ [][Program]_allvars

-----------------------------------------------------------------------------
(* Properties.                                                             *)

\* A vector into which every number is inserted where its binary search says
\* is sorted after every one of them, the first and the last included, and
\* holds each as often as it was inserted ("Create a sorted test vector",
\* examples/Vector.c:179).  It never runs out of room, in the buffer either,
\* nor refuses an index, so that no call but one that is refused memory ends
\* the program; and its growth is that of the test (examples/Vector.c:350).
BuildsSorted ==
  /\ step \in {"choose", "search", "again"} =>
       /\ \A p, q \in 1..size : p < q => Numbers[p] <= Numbers[q]
       /\ size = IF step = "again" THEN i + 1 ELSE i
       /\ \A k \in Keys : Cardinality({p \in 1..size : Numbers[p] = k}) = inserted[k]
  /\ step = "failed" => status = "NOT_ENOUGH_MEMORY"
=============================================================================
