--------------------------- MODULE ListAllocator ---------------------------
(***************************************************************************)
(* ListAllocator (core/allocate.h): the array of nodes behind a list, its  *)
(* free list, and the MemGuards that pin the array.  A view has, besides   *)
(* the fields of LinkedNodes, first and last: the ends of the free list,   *)
(* which is chained through `next`.                                        *)
(*                                                                         *)
(* Moving the array is where the danger is: every node gets a new address. *)
(* transfer() makes the head point at slot 1 even when it moved no node,   *)
(* and a later walk then starts at memory that was never a node.           *)
(***************************************************************************)
EXTENDS LinkedNodes

CONSTANTS
    Slots,      \* how many addresses a run may use
    MinCapacity \* MIN_CAPACITY: a power of two, 8 in the code

ASSUME AllocatorAssumption == {Slots, MinCapacity} \subseteq Nat \ {0}

Address == 0..Slots

EmptyView(double, fixed, capacity) ==
    [double |-> double, fixed |-> fixed,
     next |-> [p \in Address |-> Null], prev |-> [p \in Address |-> Null],
     val |-> [p \in Address |-> None],
     head |-> Null, tail |-> Null, cap |-> capacity, occ |-> 0,
     frozen |-> FALSE, first |-> Null, last |-> Null, live |-> {}, bad |-> FALSE]

AtLeastMin(n) == IF n < MinCapacity THEN MinCapacity ELSE n

\* ListAllocator::resize and transfer: the chain moves to the first slots of
\* a new array, in order.
Resize(v, capacity) ==
    LET chain == Chain(v)
        n == Len(chain)
    IN  IF Dangling(v) \/ v.bad THEN Broken(v)
        ELSE [v EXCEPT
                !.next = [p \in Address |-> IF p \in 1..(n - 1) THEN p + 1 ELSE Null],
                !.prev = [p \in Address |-> IF v.double /\ p \in 2..n THEN p - 1 ELSE Null],
                !.val = [p \in Address |-> IF p \in 1..n THEN v.val[chain[p]] ELSE None],
                !.head = 1, !.tail = n, !.cap = capacity,
                !.first = Null, !.last = Null, !.live = 1..n]

\* A mutant of MayShrink: it does not ask for a guard.
MayShrinkFrozen(v) ==
    ~v.fixed /\ v.cap > MinCapacity /\ v.occ <= v.cap \div 4

MayShrink(v) ==
    ~v.fixed /\ ~v.frozen /\ v.cap > MinCapacity /\ v.occ <= v.cap \div 4

Shrink(v) ==
    IF MayShrink(v) THEN Resize(v, AtLeastMin(NextPowerOfTwo(2 * v.occ))) ELSE v

\* ListAllocator::create: a node for the value, from the free list first.
Full(v) == v.first = Null /\ v.occ = v.cap

FromFreeList(v, value) ==
    IF value = Wrong THEN Failed(v, "TypeError")
    ELSE LET rest == v.next[v.first]
         IN  Made([Construct(v, v.first, value) EXCEPT
                     !.first = rest, !.last = IF rest = Null THEN Null ELSE @],
                  v.first)

FromArray(v, value) ==
    LET w == IF Full(v) THEN Resize(v, 2 * v.cap) ELSE v
    IN  IF value = Wrong THEN Failed(w, "TypeError")
        ELSE Made(Construct(w, w.occ + 1, value), w.occ + 1)

Create(v, value) ==
    IF v.first # Null THEN FromFreeList(v, value)
    ELSE IF Full(v) /\ (v.fixed \/ v.frozen) THEN Failed(v, "MemoryError")
    ELSE FromArray(v, value)

\* A mutant of Recycle: the free list grows without moving its tail.
RecycleSameTail(v, x) ==
    LET w == [Destroy(v, x) EXCEPT !.occ = @ - 1]
    IN  IF MayShrink(w) THEN Shrink(w)
        ELSE [w EXCEPT !.next[v.last] = x,
                       !.next[Null] = Null,
                       !.first = IF @ = Null THEN x ELSE @,
                       !.last = IF @ = Null THEN x ELSE @]

\* ListAllocator::recycle: the array may shrink, else the slot is freed.
Recycle(v, x) ==
    LET w == [Destroy(v, x) EXCEPT !.occ = @ - 1]
    IN  IF MayShrink(w) THEN Shrink(w)
        ELSE [w EXCEPT !.next[v.last] = x,
                       !.next[Null] = Null,
                       !.first = IF @ = Null THEN x ELSE @,
                       !.last = x]

\* ListAllocator::clear: destroy_list() walks the chain from the head.
Clear(v) ==
    IF Dangling(v) THEN Broken(v)
    ELSE LET w == EmptyView(v.double, v.fixed, v.cap)
         IN  [w EXCEPT !.frozen = v.frozen,
                       !.cap = IF v.fixed \/ v.frozen THEN @
                               ELSE IF @ > MinCapacity THEN MinCapacity ELSE @]

\* A mutant of Reserve: a nested call returns an active guard as well.
ReserveNested(v, n) ==
    LET pinned == v.fixed \/ v.frozen
        w == IF NextPowerOfTwo(n) > v.cap THEN Resize(v, NextPowerOfTwo(n)) ELSE v
    IN  IF n < v.occ THEN [v |-> v, ret |-> "ValueError", guard |-> FALSE]
        ELSE IF pinned /\ n > v.cap THEN [v |-> v, ret |-> "MemoryError", guard |-> FALSE]
        ELSE [v |-> [(IF pinned THEN v ELSE w) EXCEPT !.frozen = TRUE],
              ret |-> None, guard |-> TRUE]

\* ListAllocator::reserve: room for n nodes, and a MemGuard that is active
\* when the call froze the array; a nested one and one of a list of fixed
\* size are empty.
Reserve(v, n) ==
    LET pinned == v.fixed \/ v.frozen
        w == IF NextPowerOfTwo(n) > v.cap THEN Resize(v, NextPowerOfTwo(n)) ELSE v
    IN  IF n < v.occ THEN [v |-> v, ret |-> "ValueError", guard |-> FALSE]
        ELSE IF pinned /\ n > v.cap THEN [v |-> v, ret |-> "MemoryError", guard |-> FALSE]
        ELSE IF pinned THEN [v |-> v, ret |-> None, guard |-> FALSE]
        ELSE [v |-> [w EXCEPT !.frozen = TRUE], ret |-> None, guard |-> TRUE]

\* MemGuard::~MemGuard: an active guard unfreezes the array and shrinks it.
Release(v, guard) == IF guard THEN Shrink([v EXCEPT !.frozen = FALSE]) ELSE v

\* ListAllocator::defragment
Defragment(v) ==
    IF v.frozen THEN Outcome(v, "MemoryError") ELSE Outcome(Resize(v, v.cap), None)
=============================================================================
