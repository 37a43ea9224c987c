----------------------------- MODULE LinkedSet -----------------------------
(***************************************************************************)
(* LinkedSet (set.h) and its algorithms, on the nodes of LinkedNodes and   *)
(* the table of HashAllocator: one set, its caller, a guard the caller may *)
(* hold (with set.reserve(n): ...), and one update() or update_left() that *)
(* draws its items from a generator, which may use the set itself between  *)
(* two items.  Where the code walks the chain to find two neighbours, the  *)
(* model says which ones the walk ends at.                                 *)
(***************************************************************************)
EXTENDS HashAllocator

CONSTANTS
    Moves,   \* the indices and step counts callers pass
    Limits,  \* the sizes of fixed-size sets, and 0 for one that grows
    MaxSize, \* bound on the number of keys, and on those there are when an
    MaxStart \* update begins

ASSUME SetAssumption == Moves \subseteq Int /\ Limits \subseteq Nat /\ {MaxSize, MaxStart} \subseteq Nat

VARIABLES
    hset,  \* the record of the C++ view
    pin,   \* the caller's PyMemGuard: "none", "empty" or "active"
    upd,   \* the update under way
    sop,   \* the last operation and its arguments
    sret   \* what it returned, or the exception it raised

setVars == <<hset, pin, upd, sop, sret>>

NoUpdate == [side |-> "none", start |-> 0, alone |-> TRUE]
Updating == upd.side # "none"
KeyArgs == Keys \cup {Wrong}

StartsAs(t) ==
    /\ hset = t /\ pin = "none" /\ upd = NoUpdate
    /\ sop = <<"init">> /\ sret = None

SetInit == \E double \in BOOLEAN, limit \in Limits : StartsAs(EmptySet(double, limit, TableMin))

Members(t) == ValuesOf(t, Chain(t))

(***************************************************************************)
(* The operations, as functions of the table.                              *)
(***************************************************************************)
\* The node that was made, linked at a side of the set.
AtSide(made, side) ==
    IF made.node = Null THEN made
    ELSE [made EXCEPT !.v = IF side = "head" THEN InsertHead(@, made.node)
                            ELSE IF side = "tail" THEN InsertTail(@, made.node) ELSE @]

\* view.node<flags>(x): side is where a new key goes ("none": it is not yet
\* linked), exists whether a present one is no error, lru whether that one
\* moves to the head and a full set of fixed size drops its tail.
NodeFor(t, x, side, exists, lru) ==
    LET p == Search(t, x)
    IN  IF x = Wrong THEN Failed(t, "TypeError")
        ELSE IF ReadsDead(t, x) THEN Failed(Faulty(t, "memory"), None)
        ELSE IF p # Null
        THEN IF ~exists THEN Failed(t, "KeyError")
             ELSE Failed(IF lru THEN MoveToHead(t, p) ELSE t, None)
        ELSE AtSide(CreateNew(t, x, lru), side)

\* The node that was made, linked between two others; the guard goes.
Spliced(made, it, reserved) ==
    IF made.v.fault # "none" THEN made
    ELSE IF made.node = Null THEN Outcome(HashRelease(made.v, reserved), made.ret)
    ELSE Outcome(HashRelease(LinkAt(made.v, it, made.node), reserved), None)

\* algorithms/insert.h: the table grows before the neighbours are looked for.
InsertAt(t, i, x) ==
    LET r == HashReserve(t, t.occ + 1)
        it == IteratorAt(r.v, InsertIndex(t, i), t.occ)
    IN  IF r.ret # None THEN Outcome(r.v, r.ret)
        ELSE Spliced(NodeFor(r.v, x, "none", FALSE, FALSE), it, r.guard)

\* algorithms/remove.h and discard.h
Taken(t, x, absent) ==
    LET r == HashRecycle(t, x, TRUE)
    IN  IF r.ret = "KeyError" THEN Outcome(t, absent) ELSE r

\* algorithms/contains.h, and lru_contains()
Sought(t, x, lru) ==
    LET p == Search(t, x)
    IN  IF ReadsDead(t, x) THEN Outcome(Faulty(t, "memory"), None)
        ELSE IF p = Null THEN Outcome(t, "no")
        ELSE Outcome(IF lru THEN MoveToHead(t, p) ELSE t, "yes")

\* algorithms/pop.h
PopAt(t, i) ==
    LET it == IteratorAt(t, TruncatedIndex(t, i), t.occ - 1)
        r == HashRecycle(UnlinkAt(t, it), t.val[it.curr], FALSE)
    IN  IF t.occ = 0 THEN Outcome(t, "IndexError")
        ELSE Outcome(r.v, t.val[it.curr])

\* The position of a key, counted from 0.
PositionOf(t, p) == (CHOOSE k \in DOMAIN Chain(t) : Chain(t)[k] = p) - 1

\* A mutant of MoveTo: the index is counted in the chain with the node.
MoveToShort(t, p, k) ==
    LET out == Unlink(t, Before(t, p), t.next[p])
        it == AdvanceBy(out, Begin(out), IF k > PositionOf(t, p) THEN k - 1 ELSE k)
    IN  Link(out, it.prev, p, it.curr)

\* The node goes to index k of the chain without it.
MoveTo(t, p, k) ==
    LET out == Unlink(t, Before(t, p), t.next[p])
        it == AdvanceBy(out, Begin(out), k)
    IN  Link(out, it.prev, p, it.curr)

\* algorithms/move.h: move() stops at either end.  Backwards it asks for the
\* prev of the head it arrives at.
Moving(t, x, steps) ==
    LET p == Search(t, x)
        k == PositionOf(t, p) + steps
    IN  IF ReadsDead(t, x) THEN Outcome(Faulty(t, "memory"), None)
        ELSE IF p = Null THEN Outcome(t, "KeyError")
        ELSE IF steps = 0 \/ p = (IF steps > 0 THEN t.tail ELSE t.head) THEN Outcome(t, None)
        ELSE IF StaleHead(t) /\ (p = t.head \/ k <= 0) THEN Outcome(Faulty(t, "link"), None)
        ELSE Outcome(MoveTo(t, p, IF k < 0 THEN 0 ELSE IF k >= t.occ THEN t.occ - 1 ELSE k), None)

MovingTo(t, x, i) ==
    LET p == Search(t, x)
        k == TruncatedIndex(t, i)
    IN  IF ReadsDead(t, x) THEN Outcome(Faulty(t, "memory"), None)
        ELSE IF p = Null THEN Outcome(t, "KeyError")
        ELSE IF PositionOf(t, p) = k THEN Outcome(t, None)
        ELSE IF StaleHead(t) /\ p = t.head THEN Outcome(Faulty(t, "link"), None)
        ELSE Outcome(MoveTo(t, p, k), None)

\* algorithms/swap.h: of two nodes that are not neighbours, the first takes
\* the place of the second and is unlinked with it.
Swapped(t, p, q) ==
    LET before == Before(t, p) after == Before(t, q)
        moved == Link(Unlink(t, before, t.next[p]), after, p, t.next[q])
    IN  IF t.next[p] = q THEN Link(Unlink(t, before, q), q, p, t.next[q])
        ELSE IF before = q THEN Link(Unlink(t, q, t.next[p]), after, p, q)
        ELSE Faulty(Link(Unlink(moved, after, t.next[q]), before, q, t.next[p]), "lost")

Swapping(t, x, y) ==
    LET p == Search(t, x) q == Search(t, y)
    IN  IF ReadsDead(t, x) \/ (p # Null /\ ReadsDead(t, y)) THEN Outcome(Faulty(t, "memory"), None)
        ELSE IF p = Null \/ q = Null THEN Outcome(t, "KeyError")
        ELSE IF p = q THEN Outcome(t, None)
        ELSE IF StaleHead(t) /\ t.head \in {p, q} THEN Outcome(Faulty(t, "link"), None)
        ELSE Outcome(Swapped(t, p, q), None)

\* algorithms/update.h: what a failed update takes back, at the end where it
\* added.
DropKeys(t, it, n) ==
    LET drop[k \in 0..n] ==
            IF k = 0 THEN [v |-> t, it |-> it]
            ELSE LET d == drop[k - 1]
                     u == UnlinkAt(d.v, d.it)
                 IN  [v |-> HashRecycle(u, u.val[d.it.curr], FALSE).v, it |-> AfterDrop(u, d.it)]
    IN  drop[n].v

\* A mutant of TakeBack: in a singly-linked list it starts at the head.
TakeBackHead(t, e) ==
    LET n == t.occ - e.start
        inner == HashReserve(t, t.occ)
        it == IF e.side = "tail" /\ t.double THEN RBegin(t) ELSE Begin(t)
    IN  IF n = 0 THEN t
        ELSE IF n < 0 THEN Faulty(t, "memory")
        ELSE IF e.side = "tail" /\ StaleHead(t) /\ n = t.occ THEN Faulty(t, "link")
        ELSE HashRelease(DropKeys(inner.v, it, n), inner.guard)

TakeBack(t, e) ==
    LET n == t.occ - e.start
        inner == HashReserve(t, t.occ)
        it == IF e.side = "head" THEN Begin(t)
              ELSE IF t.double THEN RBegin(t) ELSE AdvanceBy(t, Begin(t), e.start)
    IN  IF n = 0 THEN t
        ELSE IF n < 0 THEN Faulty(t, "memory")
        ELSE IF e.side = "tail" /\ StaleHead(t) /\ n = t.occ THEN Faulty(t, "link")
        ELSE HashRelease(DropKeys(inner.v, it, n), inner.guard)

(***************************************************************************)
(* The steps.  A fault ends what is said of the set: the state before it   *)
(* stays, or, after a misplaced node, the one it leads to.                 *)
(***************************************************************************)
SetLeaves(t, returned) ==
    /\ hset' = IF t.fault \in {"none", "distance"} THEN t ELSE Faulty(hset, t.fault)
    /\ sret' = IF t.fault \in {"none", "distance"} THEN returned ELSE "undefined"

SetInterleaves ==
    upd' = IF Updating THEN [upd EXCEPT !.alone = FALSE] ELSE upd

SetCall(name, outcome) ==
    /\ sop' = name
    /\ SetLeaves(outcome.v, outcome.ret)
    /\ SetInterleaves
    /\ UNCHANGED pin

HasSpace == hset.occ < MaxSize

\* The generator of an update only takes keys away, and an
\* update starts with at most MaxStart keys (bounds of the model).
Whole(name, outcome) == ~Updating /\ SetCall(name, outcome)

Add(x)         == HasSpace /\ Whole(<<"add", x>>, NodeFor(hset, x, "tail", TRUE, FALSE))
AddLeft(x)     == HasSpace /\ Whole(<<"add_left", x>>, NodeFor(hset, x, "head", TRUE, FALSE))
LruAdd(x)      == HasSpace /\ Whole(<<"lru_add", x>>, NodeFor(hset, x, "head", TRUE, TRUE))
InsertKey(i, x) == HasSpace /\ Whole(<<"insert", i, x>>, InsertAt(hset, i, x))
RemoveKey(x)   == Whole(<<"remove", x>>, Taken(hset, x, "KeyError"))
Discard(x)     == SetCall(<<"discard", x>>, Taken(hset, x, None))
HasKey(x)      == Whole(<<"contains", x>>, Sought(hset, x, FALSE))
LruContains(x) == Whole(<<"lru_contains", x>>, Sought(hset, x, TRUE))
PopKey(i)      == Whole(<<"pop", i>>, PopAt(hset, i))
Move(x, n)     == Whole(<<"move", x, n>>, Moving(hset, x, n))
MoveToIndex(x, i) ==
    Whole(<<"move_to_index", x, i>>, MovingTo(hset, x, i))
Swap(x, y)     == Whole(<<"swap", x, y>>, Swapping(hset, x, y))
ClearSet       == SetCall(<<"clear">>, Outcome(HashClear(hset), None))
DefragmentSet  == Whole(<<"defragment">>, HashDefragment(hset))

ReverseSet ==
    Whole(<<"reverse">>,
        Outcome(IF StaleHead(hset) THEN Faulty(hset, "link") ELSE Reversed(hset), None))
RotateSet(n) ==
    Whole(<<"rotate", n>>,
        Outcome(IF hset.occ = 0 THEN Faulty(hset, "memory") ELSE Rotated(hset, n), None))

EnterSet(n) ==
    LET r == HashReserve(hset, n)
    IN  /\ ~Updating /\ pin = "none"
        /\ sop' = <<"reserve", n>>
        /\ SetLeaves(r.v, r.ret)
        /\ pin' = IF r.ret # None THEN "none" ELSE IF r.guard THEN "active" ELSE "empty"
        /\ SetInterleaves

ExitSet ==
    /\ pin # "none"
    /\ sop' = <<"exit">>
    /\ SetLeaves(HashRelease(hset, pin = "active"), None)
    /\ pin' = "none"
    /\ SetInterleaves

UpdateOp(side) == IF side = "tail" THEN <<"update">> ELSE <<"update_left">>

UpdateBegin(side) ==
    /\ ~Updating /\ hset.occ <= MaxStart
    /\ sop' = UpdateOp(side)
    /\ upd' = [side |-> side, start |-> hset.occ, alone |-> TRUE]
    /\ sret' = None
    /\ UNCHANGED <<hset, pin>>

\* An update goes on when its item was added, and takes back when it was not.
Extended(made) ==
    IF made.ret = None
    THEN SetLeaves(made.v, None) /\ UNCHANGED upd
    ELSE SetLeaves(TakeBack(made.v, upd), made.ret) /\ upd' = NoUpdate

UpdateItem(x) ==
    /\ Updating /\ HasSpace
    /\ sop' = UpdateOp(upd.side) \o <<x>>
    /\ Extended(NodeFor(hset, x, upd.side, TRUE, FALSE))
    /\ UNCHANGED pin

\* The generator raises, or has no more items.
UpdateFails ==
    /\ Updating
    /\ sop' = UpdateOp(upd.side)
    /\ SetLeaves(TakeBack(hset, upd), "GeneratorError")
    /\ upd' = NoUpdate
    /\ UNCHANGED pin

UpdateDone ==
    /\ Updating
    /\ sop' = UpdateOp(upd.side)
    /\ sret' = None
    /\ upd' = NoUpdate
    /\ UNCHANGED <<hset, pin>>

SetNext ==
    /\ hset.fault = "none"
    /\ \/ \E x \in KeyArgs : Add(x) \/ AddLeft(x) \/ LruAdd(x) \/ UpdateItem(x)
       \/ \E x \in Keys : RemoveKey(x) \/ Discard(x) \/ HasKey(x) \/ LruContains(x)
       \/ \E i \in Moves, x \in KeyArgs : InsertKey(i, x)
       \/ \E i \in Moves : PopKey(i) \/ RotateSet(i)
       \/ \E i \in Moves, x \in Keys : Move(x, i) \/ MoveToIndex(x, i)
       \/ \E x, y \in Keys : Swap(x, y)
       \/ ClearSet \/ DefragmentSet \/ ReverseSet
       \/ \E n \in 0..MaxSize : EnterSet(n)
       \/ ExitSet
       \/ \E side \in {"tail", "head"} : UpdateBegin(side)
       \/ UpdateFails \/ UpdateDone

SetSpec == SetInit /\ [][SetNext]_setVars

(***************************************************************************)
(* Properties.                                                             *)
(***************************************************************************)
Intact == hset.fault = "none"

\* Every variable has its type (LinkedSet, BaseView, HashAllocator).
SetTypeOK ==
    /\ hset.next \in [0..Buckets -> 0..Buckets] /\ hset.prev \in [0..Buckets -> 0..Buckets]
    /\ hset.val \in [0..Buckets -> Keys \cup {None}]
    /\ hset.dist \in [Bucket -> 0..Buckets \cup {EMPTY}]
    /\ hset.hop \in [Bucket -> 0..Buckets \cup {EMPTY}]
    /\ hset.live \subseteq Bucket /\ hset.cap \in Bucket
    /\ pin \in {"none", "empty", "active"} /\ upd.side \in {"none", "tail", "head"}

\* The variables keep their types, and the chain from head holds exactly the
\* constructed nodes and no key twice, ends at tail and mirrors itself in prev,
\* but for the prev of the head.
SetChainOK ==
    /\ SetTypeOK
    /\ Intact =>
        LET chain == Chain(hset)
            n == Len(chain)
        IN  /\ n = hset.occ /\ Cardinality(hset.live) = n
            /\ {chain[k] : k \in 1..n} = hset.live
            /\ Cardinality({hset.val[p] : p \in hset.live}) = n
            /\ hset.tail = IF n = 0 THEN Null ELSE chain[n]
            /\ hset.double => \A k \in 2..n : hset.prev[chain[k]] = chain[k - 1]

\* Whatever adds, removals, evictions and moves of the table there were, a
\* search finds every key of the set and the hops of a chain lead through no
\* bucket of another home; there is room to probe in.
TableOK ==
    Intact =>
        /\ \A p \in hset.live : Search(hset, hset.val[p]) = p
        /\ \A home \in 1..hset.cap :
               LET chain == ChainAt(hset, home)
               IN  \A k \in DOMAIN chain : chain[k] \in hset.live =>
                       Home(hset, hset.val[chain[k]]) = home
        /\ hset.occ <= IF hset.fixed THEN hset.limit ELSE hset.cap - hset.cap \div 4

\* An update that raises leaves the keys it found, when nothing else has used
\* the set since: those that are not at the end where it added.
TakeBackRestores ==
    [][Updating /\ upd.alone /\ upd'.side = "none" /\ sret' \in {"MemoryError", "TypeError", "GeneratorError"}
       => LET keys == Members(hset)
              first == IF upd.side = "tail" THEN 0 ELSE Len(keys) - upd.start
          IN  Members(hset') = SubSeq(keys, first + 1, first + upd.start)]_setVars

\* What damages a set, and when.  Occupied buckets without a node come from a
\* clear() that keeps the table, and a wrong prev in the head from an LRU
\* operation.  A fault comes from these, from a key added to a chain that is
\* not empty while the table grows or evicts, from a swap, from rotating an
\* empty set, and from the failure of an update whose generator has taken keys
\* away.
Dead(t) == \E p \in 1..t.cap : Occupied(t, p) /\ p \notin t.live

OnlyKnownDamage ==
    [][/\ Dead(hset') => Dead(hset) \/ sop' = <<"clear">>
       /\ StaleHead(hset') => StaleHead(hset) \/ sop'[1] \in {"lru_add", "lru_contains"}
       /\ hset'.fault = "distance" =>
              /\ sop'[1] \in {"add", "add_left", "lru_add", "update", "update_left"}
              /\ hset.dist[Home(hset, sop'[2])] # EMPTY
              /\ NeedsGrowth(hset) \/ (sop'[1] = "lru_add" /\ hset.occ = hset.limit)
       /\ hset'.fault = "link" => StaleHead(hset)
       /\ hset'.fault = "lost" => sop'[1] = "swap" /\ hset.occ > 2
       /\ hset'.fault = "memory" =>
              \/ Dead(hset)
              \/ (sop'[1] = "rotate" /\ hset.occ = 0)
              \/ (Updating /\ ~upd.alone /\ hset.occ < upd.start)]_setVars

Ordered == INSTANCE OrderedSet WITH
    elems <- Members(hset), op <- sop, ret <- sret, limit <- hset.limit

\* Every operation does to the sequence of keys what an ordered set, and an LRU
\* cache, does, in either link structure.
BehavesAsOrderedSet == Ordered!Spec

\* allocate.h:1081: a value whose home bucket has no chain is not in the table;
\* that is, a search by value finds every node.
FindsItsMembers ==
    \A p \in hset.live : Search(hset, hset.val[p]) = p
=============================================================================
