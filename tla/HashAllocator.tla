--------------------------- MODULE HashAllocator ---------------------------
(***************************************************************************)
(* HashAllocator (core/allocate.h): the hash table behind a linked set or  *)
(* dictionary.  The nodes live in the buckets (bucket k is address k + 1)  *)
(* and are chained twice: through next and prev in the order of the set,   *)
(* and through the hop information of the buckets in collision chains, one *)
(* per home bucket.  A table has, besides the fields of LinkedNodes:       *)
(*   limit   max_occupants, or 0 when the set grows                        *)
(*   dist    Bucket::collisions: the distance from a home bucket to the    *)
(*           first node of its chain, or EMPTY                             *)
(*   hop     Bucket::next: the distance to the next bucket of the chain, 0 *)
(*           at its end, EMPTY when the bucket is not occupied             *)
(*   fault   a history field: "none", or what went wrong (below), after    *)
(*           which nothing is said                                         *)
(*     "memory"    a bucket without a node was read as one (undefined      *)
(*                 behaviour), or no bucket is free and the probe runs on  *)
(*     "link"      the prev that move_to_head() leaves in the head was used*)
(*     "lost"      a swap left a node out of the chain                     *)
(*     "distance"  create() placed a node with a distance it had read      *)
(*                 before the table changed                                *)
(***************************************************************************)
EXTENDS LinkedNodes

CONSTANTS
    Keys,     \* the values a set may hold
    Hash,     \* their hashes
    Buckets,  \* how many buckets the largest table has
    TableMin  \* HashAllocator::MIN_CAPACITY, 8 in the code

ASSUME TableAssumption ==
    /\ {Buckets, TableMin} \subseteq Nat \ {0} /\ TableMin <= Buckets
    /\ Hash \in [Keys -> Nat] /\ Wrong \notin Keys

EMPTY == 255
Bucket == 1..Buckets

NoHops == [p \in Bucket |-> EMPTY]

EmptySet(double, limit, capacity) ==
    [double |-> double, fixed |-> limit # 0, limit |-> limit,
     next |-> [p \in 0..Buckets |-> Null], prev |-> [p \in 0..Buckets |-> Null],
     val |-> [p \in 0..Buckets |-> None],
     head |-> Null, tail |-> Null, cap |-> capacity, occ |-> 0, frozen |-> FALSE,
     live |-> {}, dist |-> NoHops, hop |-> NoHops, fault |-> "none"]

Faulty(t, what) == [t EXCEPT !.fault = what]

AtLeastTable(n) == IF n < TableMin THEN TableMin ELSE n

(***************************************************************************)
(* Buckets and chains.                                                     *)
(***************************************************************************)
Home(t, x) == (Hash[x] % t.cap) + 1
At(t, p, distance) == ((p - 1 + distance) % t.cap) + 1
Occupied(t, p) == t.hop[p] # EMPTY

\* The buckets of the chain at a home bucket, as _search() and the others
\* follow it.
ChainAt(t, home) ==
    LET after(p) == IF p = Null \/ t.hop[p] = 0 THEN Null ELSE At(t, p, t.hop[p])
        at[k \in 1..Buckets] ==
            IF k > 1 THEN LET p == at[k - 1] IN after(p)
            ELSE IF t.dist[home] = EMPTY THEN Null
            ELSE At(t, home, t.dist[home])
    IN  [k \in 1..Cardinality({j \in 1..Buckets : at[j] # Null}) |-> at[k]]

\* The place of x in its chain, 0 when the chain ends without it.
PlaceIn(t, x, chain) ==
    LET at == {k \in DOMAIN chain : t.val[chain[k]] = x}
    IN  IF at = {} THEN 0 ELSE CHOOSE k \in at : \A j \in at : k <= j

\* The walk compares x with a destroyed node on its way.
ReadsDead(t, x) ==
    LET chain == ChainAt(t, Home(t, x))
        k == PlaceIn(t, x, chain)
    IN  \E j \in DOMAIN chain : chain[j] \notin t.live /\ (k = 0 \/ j < k)

\* HashAllocator::_search: the node of x, or Null.
Search(t, x) ==
    LET chain == ChainAt(t, Home(t, x))
        k == PlaceIn(t, x, chain)
    IN  IF k = 0 THEN Null ELSE chain[k]

(***************************************************************************)
(* Placing a node: the probe of create() and transfer().  It goes from the *)
(* home bucket to the first free one and on its way looks for the node of  *)
(* the chain it comes to last, starting from the distance of the first.    *)
(***************************************************************************)
HasVacancy(t) == \E p \in 1..t.cap : ~Occupied(t, p)

ProbeLength(t, home) ==
    CHOOSE d \in 0..(t.cap - 1) :
        /\ ~Occupied(t, At(t, home, d))
        /\ \A e \in 0..(d - 1) : Occupied(t, At(t, home, e))

\* The distances at which the probe meets the chain.
Met(t, home, first, length) ==
    LET next[d \in 0..length] ==
            IF d = 0 THEN first
            ELSE LET n == next[d - 1]
                 IN  IF n = d - 1 THEN n + t.hop[At(t, home, n)] ELSE n
    IN  {d \in 0..(length - 1) : next[d] = d}

\* The table with x constructed at the end of the probe and linked into its
\* chain, given the distance `first` of the chain's first node.
Place(t, x, first) ==
    LET home == Home(t, x)
        length == ProbeLength(t, home)
        p == At(t, home, length)
        met == Met(t, home, first, length)
        before == CHOOSE d \in met : \A e \in met : e <= d
        q == At(t, home, before)
        made == [Construct(t, p, x) EXCEPT !.occ = @ + 1]
    IN  IF met = {}
        THEN [made EXCEPT !.hop[p] = IF first = EMPTY THEN 0 ELSE first - length,
                          !.dist[home] = length]
        ELSE [made EXCEPT !.hop[p] = IF t.hop[q] = 0 THEN 0 ELSE t.hop[q] - (length - before),
                          !.hop[q] = length - before]

InsertTail(t, x) ==
    [Join(t, t.tail, x) EXCEPT !.tail = x, !.head = IF @ = Null THEN x ELSE @]
InsertHead(t, x) ==
    [Join(t, x, t.head) EXCEPT !.head = x, !.tail = IF @ = Null THEN x ELSE @]

\* A key that was just placed comes last.
KeyLast(t, x) == InsertTail(t, CHOOSE p \in t.live : t.val[p] = x)

\* HashAllocator::resize and transfer: the nodes move to a new table in the
\* order of the set; its first one has no prev any more.
Rehash(t, capacity) ==
    LET values == ValuesOf(t, Chain(t))
        new == [EmptySet(t.double, t.limit, capacity) EXCEPT
                  !.frozen = t.frozen, !.fault = t.fault]
        placed[k \in 0..Len(values)] ==
            IF k = 0 THEN new
            ELSE LET w == placed[k - 1]
                     x == values[k]
                 IN  KeyLast(Place(w, x, w.dist[Home(w, x)]), x)
    IN  placed[Len(values)]

(***************************************************************************)
(* Order.                                                                  *)
(***************************************************************************)
\* The prev of a head that was moved there still names its old neighbour.
StaleHead(t) == t.double /\ t.head # Null /\ t.prev[t.head] # Null

\* A mutant of MoveToHead: the tail moves without being replaced.
MoveTailToHead(t, p) ==
    LET u == Unlink(t, Before(t, p), t.next[p])
    IN  IF p = t.head THEN t
        ELSE [Join(u, p, t.head) EXCEPT !.head = p, !.tail = t.tail]

\* HashAllocator::move_to_head
MoveToHead(t, p) ==
    LET u == Unlink(t, Before(t, p), t.next[p])
    IN  IF p = t.head THEN t
        ELSE [Join(u, p, t.head) EXCEPT
                 !.head = p,
                 !.tail = IF p = t.tail THEN Before(t, p) ELSE t.tail]

\* HashAllocator::unlink
TakeOut(t, p) ==
    IF p = t.head /\ StaleHead(t) THEN Faulty(t, "link")
    ELSE Unlink(t, Before(t, p), t.next[p])

(***************************************************************************)
(* The operations of the allocator.                                        *)
(***************************************************************************)
ShouldShrink(t) ==
    ~t.fixed /\ ~t.frozen /\ t.cap > TableMin /\ t.occ <= t.cap \div 4

HashShrink(t) ==
    IF ShouldShrink(t)
    THEN Rehash(t, AtLeastTable(NextPowerOfTwo(t.occ + t.occ \div 3)))
    ELSE t

\* Two mutants of HashRecycle: the chain ends with the node that precedes x,
\* and the bucket of x stays occupied.
RecycleRest(t, x, unlinks) ==
    LET home == Home(t, x)
        chain == ChainAt(t, home)
        k == PlaceIn(t, x, chain)
        p == chain[k]
        out == IF unlinks THEN TakeOut(t, p) ELSE t
        cut == IF k = 1 THEN [out EXCEPT !.dist[home] = EMPTY]
               ELSE [out EXCEPT !.hop[chain[k - 1]] = 0]
    IN  IF ReadsDead(t, x) THEN Outcome(Faulty(t, "memory"), None)
        ELSE IF k = 0 THEN Outcome(t, "KeyError")
        ELSE IF out.fault # "none" THEN Outcome(out, None)
        ELSE Outcome(HashShrink([Destroy(cut, p) EXCEPT !.hop[p] = EMPTY, !.occ = @ - 1]), None)

RecycleOccupied(t, x, unlinks) ==
    LET chain == ChainAt(t, Home(t, x))
        k == PlaceIn(t, x, chain)
        p == chain[k]
        out == IF unlinks THEN TakeOut(t, p) ELSE t
    IN  IF ReadsDead(t, x) THEN Outcome(Faulty(t, "memory"), None)
        ELSE IF k = 0 THEN Outcome(t, "KeyError")
        ELSE IF out.fault # "none" THEN Outcome(out, None)
        ELSE Outcome(HashShrink([Destroy(out, p) EXCEPT !.occ = @ - 1]), None)

\* HashAllocator::_recycle: x leaves its chain, its bucket is free again and
\* the table may shrink.  Its node is unlinked here, or was before.
HashRecycle(t, x, unlinks) ==
    LET home == Home(t, x)
        chain == ChainAt(t, home)
        k == PlaceIn(t, x, chain)
        p == chain[k]
        out == IF unlinks THEN TakeOut(t, p) ELSE t
        cut == IF k = 1
               THEN [out EXCEPT !.dist[home] = IF t.hop[p] > 0 THEN @ + t.hop[p] ELSE EMPTY]
               ELSE [out EXCEPT !.hop[chain[k - 1]] = IF t.hop[p] > 0 THEN @ + t.hop[p] ELSE 0]
    IN  IF ReadsDead(t, x) THEN Outcome(Faulty(t, "memory"), None)
        ELSE IF k = 0 THEN Outcome(t, "KeyError")
        ELSE IF out.fault # "none" THEN Outcome(out, None)
        ELSE Outcome(HashShrink([Destroy(cut, p) EXCEPT !.hop[p] = EMPTY, !.occ = @ - 1]), None)

\* HashAllocator::evict_tail
EvictTail(t) ==
    LET p == t.tail
        q == Before(t, p)
        out == [Split(t, q, p) EXCEPT !.tail = q, !.head = IF q = Null THEN Null ELSE @]
    IN  IF p = t.head /\ StaleHead(t) THEN Faulty(t, "link")
        ELSE HashRecycle(out, t.val[p], FALSE).v

NeedsGrowth(t) == ~t.fixed /\ t.occ >= t.cap - t.cap \div 4

\* Room for one more node, before it is placed: a set of fixed size evicts,
\* another grows.
MakeRoom(t, evicts) ==
    IF t.fixed /\ t.occ >= t.limit
    THEN IF evicts THEN Outcome(EvictTail(t), None) ELSE Outcome(t, "MemoryError")
    ELSE IF NeedsGrowth(t)
    THEN IF t.frozen THEN Outcome(t, "MemoryError") ELSE Outcome(Rehash(t, 2 * t.cap), None)
    ELSE Outcome(t, None)

\* x placed in the table t after room was made for it, or was not: the distance
\* of its chain was read before.
CreateIn(t, room, x) ==
    LET u == room.v
        first == t.dist[Home(t, x)]
        w == Place(u, x, first)
    IN  IF room.ret # None THEN Failed(t, room.ret)
        ELSE IF u.fault # "none" THEN Failed(u, None)
        ELSE IF ~HasVacancy(u) THEN Failed(Faulty(u, "memory"), None)
        ELSE [v |-> IF first = u.dist[Home(u, x)] THEN w ELSE Faulty(w, "distance"),
              ret |-> None,
              node |-> CHOOSE p \in w.live \ u.live : TRUE]

\* HashAllocator::create for a key that is not there.
CreateNew(t, x, evicts) == CreateIn(t, MakeRoom(t, evicts), x)

\* HashAllocator::clear: a table that is not replaced keeps its hops.
HashClear(t) ==
    LET none == EmptySet(t.double, t.limit, t.cap)
    IN  IF t.fixed \/ t.frozen \/ t.cap <= TableMin
        THEN [none EXCEPT !.frozen = t.frozen, !.dist = t.dist, !.hop = t.hop]
        ELSE EmptySet(t.double, t.limit, TableMin)

\* HashAllocator::reserve, MemGuard::~MemGuard and defragment, as for a list.
HashReserve(t, n) ==
    LET pinned == t.fixed \/ t.frozen
        capacity == NextPowerOfTwo(n + n \div 3)
        w == IF capacity > t.cap THEN Rehash(t, capacity) ELSE t
    IN  IF n < t.occ THEN [v |-> t, ret |-> "ValueError", guard |-> FALSE]
        ELSE IF pinned /\ n > t.cap THEN [v |-> t, ret |-> "MemoryError", guard |-> FALSE]
        ELSE IF pinned THEN [v |-> t, ret |-> None, guard |-> FALSE]
        ELSE [v |-> [w EXCEPT !.frozen = TRUE], ret |-> None, guard |-> TRUE]

HashRelease(t, guard) ==
    IF guard THEN HashShrink([t EXCEPT !.frozen = FALSE]) ELSE t

HashDefragment(t) ==
    IF t.frozen THEN Outcome(t, "MemoryError") ELSE Outcome(Rehash(t, t.cap), None)
=============================================================================
