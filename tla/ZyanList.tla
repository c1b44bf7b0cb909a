------------------------------ MODULE ZyanList ------------------------------
(***************************************************************************)
(* One ZyanList (src/src/List.c): a doubly linked list whose nodes come    *)
(* from an allocator, or from a fixed buffer of the caller in which nodes  *)
(* that were removed are chained through `first_unused`.                   *)
(*                                                                         *)
(* A node is a number: for a buffer the slot it occupies, counted from 1,  *)
(* for an allocator an address, which may be handed out again once it was  *)
(* freed.  `heap` is the set of the nodes the allocator has handed out.    *)
(* A capacity is a number of whole nodes, what the code computes in bytes. *)
(* A call of the API is one action.  Calls are made on an initialised list *)
(* (`live`), with pointers that are not null and nodes that are in it.     *)
(***************************************************************************)
EXTENDS ZyanAllocator, FiniteSets

CONSTANTS MaxSize,       \* bound: elements a call may bring the list to
          MaxNodes,      \* bound: addresses of nodes
          Slots,         \* capacities InitCustomBuffer is called with
          Allocators,    \* {"dynamic"}, {"none"} or both
          Destructors    \* whether Init is given a destructor

ASSUME ListAssumption == /\ MaxSize \in Nat /\ MaxNodes \in Nat
                         /\ Slots \subseteq 1..MaxNodes
                         /\ Allocators \subseteq {"dynamic", "none"}
                         /\ Destructors \subseteq BOOLEAN

VARIABLES list,          \* the ZyanList struct
          node,          \* the memory of every node
          heap,
          live,
          status, destroyed

vars == <<list, node, heap, live, status, destroyed>>

SeqX == INSTANCE SequencesExt

Null == 0
Nodes == 1..MaxNodes

\* The part of the state a call works on, to be threaded through its steps
Memory == [list |-> list, node |-> node, heap |-> heap]

IsDynamic(L) == L.allocator = "dynamic"

-----------------------------------------------------------------------------
(* The nodes of the list from the head on, and of the free list.  A walk is *)
(* cut off after MaxNodes steps, so that it ends if links form a cycle.     *)

Walk(start, link) ==
  LET step[k \in 0..MaxNodes] ==
        IF k = 0 THEN << >>
        ELSE LET s == step[k - 1]
                 n == IF s = << >> THEN start ELSE link[s[Len(s)]]
             IN  IF n = Null THEN s ELSE Append(s, n)
  IN  step[MaxNodes]

NextOf(mem) == [n \in Nodes |-> mem[n].next]
PrevOf(mem) == [n \in Nodes |-> mem[n].prev]

Forward(m) == Walk(m.list.head, NextOf(m.node))
Chain == Forward(Memory)
FreeChain == Walk(list.first_unused, NextOf(node))
InList == SeqX!ToSet(Chain)
Items(m, nodes) == [i \in 1..Len(nodes) |-> m.node[nodes[i]].item]

-----------------------------------------------------------------------------
(* Nodes are taken and given back. *)

Blank == [prev |-> Null, next |-> Null, item |-> Undef]

\* What nodes that are given up still hold is not told apart from what a
\* fresh one holds: no call reads it, except to hand it out unwritten.
Blanked(m, nodes) ==
  [m EXCEPT !.node = [n \in Nodes |-> IF n \in nodes THEN Blank ELSE @[n]],
            !.heap = @ \ nodes]

Taken(m, n) == [status |-> "SUCCESS", m |-> m, n |-> n]
Untaken(m, s) == [status |-> s, m |-> m, n |-> Null]

\* Mutant: in a buffer, the node after the one that comes next
AllocateSecond(m) ==
  LET L == m.list IN
  IF IsDynamic(L) THEN {Taken([m EXCEPT !.heap = @ \cup {n}], n) : n \in Nodes \ m.heap}
  ELSE IF L.first_unused # Null
    THEN {Taken([m EXCEPT !.list.first_unused = m.node[L.first_unused].next],
                L.first_unused)}
  ELSE IF L.size + 1 > L.capacity THEN {Untaken(m, "INSUFFICIENT_BUFFER_SIZE")}
  ELSE {Taken(m, L.size + 2)}

\* The outcomes of ZyanListAllocateNode
AllocateNode(m) ==
  LET L == m.list IN
  IF IsDynamic(L)
    THEN {Taken([m EXCEPT !.heap = @ \cup {n}], n) :
            n \in Nodes \ m.heap}
         \cup (IF MayRefuse(0, 1) THEN {Untaken(m, "NOT_ENOUGH_MEMORY")} ELSE {})
  ELSE IF L.first_unused # Null
    THEN {Taken([m EXCEPT !.list.first_unused = m.node[L.first_unused].next],
                L.first_unused)}
  ELSE IF L.size + 1 > L.capacity
    THEN {Untaken(m, "INSUFFICIENT_BUFFER_SIZE")}
  ELSE {Taken(m, L.size + 1)}

\* Mutant: the node is never given back
DeallocateNothing(m, n) == m

DeallocateNode(m, n) ==
  LET blanked == Blanked(m, {n}) IN
  IF IsDynamic(m.list)
    THEN blanked
    ELSE [blanked EXCEPT !.node[n].next = m.list.first_unused,
                         !.list.first_unused = n]

-----------------------------------------------------------------------------
(* Linking and unlinking *)

\* Mutant: the item goes to the old tail
LinkBackMisplaced(m, n, c) ==
  LET L == m.list
      new == [m.node EXCEPT ![n] = [prev |-> L.tail, next |-> Null, item |-> Undef]]
  IN  [m EXCEPT !.node = IF L.head = Null THEN [new EXCEPT ![n].item = c]
                         ELSE [new EXCEPT ![L.tail] = [@ EXCEPT !.next = n, !.item = c]],
                !.list.head = IF @ = Null THEN n ELSE @,
                !.list.tail = n,
                !.list.size = @ + 1]

\* Node n, holding c, becomes the last one
LinkBack(m, n, c) ==
  LET L == m.list
      new == [m.node EXCEPT ![n] = [prev |-> L.tail, next |-> Null, item |-> c]]
  IN  [m EXCEPT !.node = IF L.head = Null THEN new
                         ELSE [new EXCEPT ![L.tail].next = n],
                !.list.head = IF @ = Null THEN n ELSE @,
                !.list.tail = n,
                !.list.size = @ + 1]

\* Mutant: the new head is not linked to
LinkFrontUnlinked(m, n, c) ==
  LET L == m.list
      new == [m.node EXCEPT ![n] = [prev |-> Null, next |-> L.head, item |-> c]]
  IN  [m EXCEPT !.node = IF L.head = Null THEN new
                         ELSE [new EXCEPT ![L.head].prev = n],
                !.list.tail = n,
                !.list.head = IF @ = Null THEN n ELSE @,
                !.list.size = @ + 1]

\* Node n, holding c, becomes the first one
LinkFront(m, n, c) ==
  LET L == m.list
      new == [m.node EXCEPT ![n] = [prev |-> Null, next |-> L.head, item |-> c]]
  IN  [m EXCEPT !.node = IF L.head = Null THEN new
                         ELSE [new EXCEPT ![L.head].prev = n],
                !.list.tail = IF L.head = Null THEN n ELSE @,
                !.list.head = n,
                !.list.size = @ + 1]

\* Mutant: the new last node still links to the one cut off
CutBackDangling(m) ==
  [m EXCEPT !.list.tail = m.node[m.list.tail].prev]

\* The last node is cut off; size and, if it is the only one, head are the
\* caller's
CutBack(m) ==
  LET p == m.node[m.list.tail].prev IN
  [m EXCEPT !.list.tail = p,
            !.node = IF p = Null THEN @ ELSE [@ EXCEPT ![p].next = Null]]

-----------------------------------------------------------------------------
(* How a call ends *)

Store(m) == list' = m.list /\ node' = m.node /\ heap' = m.heap

Finish(m, s, gone) == /\ Store(m) /\ status' = s
                      /\ destroyed' = IF list.destructor THEN gone ELSE << >>
                      /\ UNCHANGED live

Refuse(s) == Finish(Memory, s, << >>)

-----------------------------------------------------------------------------
(* Construction and destruction *)

Struct(a, capacity, dtor) ==
  [allocator |-> a, size |-> 0, destructor |-> dtor, head |-> Null,
   tail |-> Null, capacity |-> capacity, first_unused |-> Null]

Init == /\ list = Struct("none", 0, FALSE)
        /\ node = [n \in Nodes |-> Blank]
        /\ heap = {} /\ live = FALSE
        /\ status = "SUCCESS" /\ destroyed = << >>

InitList(a, capacity, dtor) ==
  /\ ~live
  /\ list' = Struct(a, capacity, dtor)
  /\ live' = TRUE /\ status' = "SUCCESS" /\ destroyed' = << >>
  /\ UNCHANGED <<node, heap>>

\* The struct keeps its values
Destroy ==
  /\ live /\ live' = FALSE
  /\ Store(Blanked(Memory, IF IsDynamic(list) THEN InList ELSE Nodes))
  /\ destroyed' = IF list.destructor THEN Items(Memory, Chain) ELSE << >>
  /\ status' = "SUCCESS"

-----------------------------------------------------------------------------
(* Insertion and assignment *)

Push(Link(_, _, _), e) ==
  /\ live /\ list.size < MaxSize
  /\ \E o \in AllocateNode(Memory) :
       IF o.status # "SUCCESS" THEN Refuse(o.status)
       ELSE Finish(Link(o.m, o.n, e), "SUCCESS", << >>)

PushBack(e) == Push(LinkBack, e)
PushFront(e) == Push(LinkFront, e)

\* The item is constructed in its node.  What the constructor returns is
\* ignored: it may have failed, as if there were none, and left the node as
\* it was.
Emplace(Link(_, _, _), e) ==
  /\ live /\ list.size < MaxSize
  /\ \E o \in AllocateNode(Memory) :
       IF o.status # "SUCCESS" THEN Refuse(o.status)
       ELSE \E c \in {e, o.m.node[o.n].item} :
              Finish(Link(o.m, o.n, c), "SUCCESS", << >>)

EmplaceBack(e) == Emplace(LinkBack, e)
EmplaceFront(e) == Emplace(LinkFront, e)

SetNodeData(n, e) ==
  /\ live
  /\ Finish([Memory EXCEPT !.node[n].item = e], "SUCCESS", <<node[n].item>>)

-----------------------------------------------------------------------------
(* Deletion *)

PopBack ==
  /\ live
  /\ IF list.tail = Null THEN Refuse("INVALID_OPERATION")
     ELSE LET n == list.tail
              cut == CutBack(Memory)
              m == [cut EXCEPT !.list.head = IF @ = n THEN cut.list.tail ELSE @,
                               !.list.size = @ - 1]
          IN  Finish(DeallocateNode(m, n), "SUCCESS", <<node[n].item>>)

PopFront ==
  /\ live
  /\ IF list.head = Null THEN Refuse("INVALID_OPERATION")
     ELSE LET n == list.head
              h == node[n].next
              m == [Memory EXCEPT
                      !.list.head = h,
                      !.list.tail = IF @ = n THEN h ELSE @,
                      !.list.size = @ - 1,
                      !.node = IF h = Null THEN @ ELSE [@ EXCEPT ![h].prev = Null]]
          IN  Finish(DeallocateNode(m, n), "SUCCESS", <<node[n].item>>)

\* Neither does anything
Remove(n) == live /\ Refuse("SUCCESS")
RemoveRange(first, last) == live /\ Refuse("SUCCESS")

-----------------------------------------------------------------------------
(* Resizing *)

\* Resizing to zero frees all nodes and forgets the free list
Clear ==
  /\ live
  /\ IF list.size = 0 THEN Refuse("SUCCESS")
     ELSE LET m == Blanked(Memory, IF IsDynamic(list) THEN InList ELSE Nodes)
          IN  Finish([m EXCEPT !.list.size = 0, !.list.head = Null,
                               !.list.tail = Null, !.list.first_unused = Null],
                     "SUCCESS", Items(Memory, Chain))

\* The outcomes of appending k nodes one by one: the first failure ends it.
\* An empty initializer stands for ZYAN_NULL.
Appended(k, initializer) ==
  LET append(o) ==
        IF o.status # "SUCCESS" THEN {o}
        ELSE {IF a.status # "SUCCESS" THEN a
              ELSE Taken(LinkBack(a.m, a.n, IF initializer = NULL
                                              THEN a.m.node[a.n].item
                                              ELSE initializer), a.n) :
                a \in AllocateNode(o.m)}
      outcomes[i \in 0..k] ==
        IF i = 0 THEN {Taken(Memory, Null)}
        ELSE UNION {append(o) : o \in outcomes[i - 1]}
  IN  outcomes[k]

\* The last k nodes are cut off, from the tail on; size follows at the end
Shortened(k) ==
  LET cut[i \in 0..k] ==
        IF i = 0 THEN Memory
        ELSE DeallocateNode(CutBack(cut[i - 1]), cut[i - 1].list.tail)
  IN  [cut[k] EXCEPT !.list.size = @ - k]

ResizeEx(n, initializer) ==
  /\ live /\ n \in 1..MaxSize
  /\ IF n = list.size THEN Refuse("SUCCESS")
     ELSE IF n > list.size
       THEN \E o \in Appended(n - list.size, initializer) :
              Finish(o.m, o.status, << >>)
     ELSE LET k == list.size - n
              doomed == [i \in 1..k |-> Chain[list.size + 1 - i]]
          IN  Finish(Shortened(k), "SUCCESS", Items(Memory, doomed))

-----------------------------------------------------------------------------
Construct == \E a \in Allocators, d \in Destructors :
               \/ a = "dynamic" /\ InitList(a, 0, d)
               \/ a = "none" /\ \E c \in Slots : InitList(a, c, d)

Insertion == \E e \in Element : \/ PushBack(e) \/ PushFront(e)
                                \/ EmplaceBack(e) \/ EmplaceFront(e)

Deletion == \/ PopBack \/ PopFront \/ Clear
            \/ \E n \in InList : Remove(n)
            \/ \E n, k \in InList : RemoveRange(n, k)

Resize == \E n \in 1..MaxSize, e \in Element \cup {NULL} : ResizeEx(n, e)

Next == \/ Construct \/ Destroy \/ Insertion \/ Deletion \/ Resize
        \/ \E n \in InList, e \in Element : SetNodeData(n, e)

Spec == Init /\ [][Next]_vars

-----------------------------------------------------------------------------
(* Properties *)

\* Every variable holds a value of its type.
TypeOK ==
  /\ list \in [allocator : {"none", "dynamic"}, size : 0..MaxNodes,
               destructor : BOOLEAN, head : Nodes \cup {Null},
               tail : Nodes \cup {Null}, capacity : Nat,
               first_unused : Nodes \cup {Null}]
  /\ node \in [Nodes -> [prev : Nodes \cup {Null}, next : Nodes \cup {Null},
                         item : Cell]]
  /\ heap \subseteq Nodes /\ live \in BOOLEAN
  /\ status \in {"SUCCESS", "INVALID_OPERATION", "INSUFFICIENT_BUFFER_SIZE",
                 "NOT_ENOUGH_MEMORY"}
  /\ destroyed \in Seq(Cell)

\* Walking the list forwards and backwards visits the same `size` nodes, each
\* once: whatever the order of calls at both ends, no link is left stale.
WellLinked ==
  live => LET forward == Chain
              backward == Walk(list.tail, PrevOf(node))
          IN  /\ Len(forward) = list.size
              /\ Cardinality(SeqX!ToSet(forward)) = list.size
              /\ backward = SeqX!Reverse(forward)

\* Every node is accounted for.  With an allocator, the nodes it has handed
\* out are those in the list: none is leaked, none dangles.  In a buffer, the
\* nodes in the list and those on the free list are distinct and are exactly
\* the first slots, which is what lets the code take slot size + 1 as unused
\* whenever the free list is empty.
NodesAccounted ==
  LET used == InList
      free == SeqX!ToSet(FreeChain)
      count == Cardinality(used) + Cardinality(free)
  IN
  IF ~live THEN heap = {}
  ELSE IF IsDynamic(list) THEN heap = used
  ELSE used \cup free = 1..count /\ count <= list.capacity

\* Pointers to nodes and their data stay good: a call that adds or removes
\* elements leaves every node that stays in the list with its element.
NodesStay ==
  [][live /\ live' /\ list'.size # list.size
       => \A n \in InList \cap InList' : node'[n].item = node[n].item]_vars

\* The list implements the double-ended sequence of its elements.
Deque == INSTANCE ElementDeque
           WITH alive <- live, owning <- list.destructor,
                seq <- IF live THEN Items(Memory, Chain) ELSE << >>
ImplementsDeque == Deque!Spec

\* Each call does what its namesake of the sequence does, at the end of the
\* list it is meant for, answering what it should and destroying the elements
\* that leave and no others.
CallsImplement ==
  [][/\ \A e \in Element : /\ PushBack(e) => Deque!PushBack(e)
                           /\ PushFront(e) => Deque!PushFront(e)
                           /\ EmplaceBack(e) => Deque!EmplaceBack(e)
                           /\ EmplaceFront(e) => Deque!EmplaceFront(e)
     /\ PopBack => Deque!PopBack
     /\ PopFront => Deque!PopFront
     /\ Clear => Deque!Clear
     /\ \A i \in 1..Len(Chain), e \in Element :
          SetNodeData(Chain[i], e) => Deque!Assign(i, e)
     /\ \A n \in 1..MaxSize, e \in Element \cup {NULL} :
          ResizeEx(n, e) => Deque!ResizeEx(n, e)]_vars
=============================================================================
