---------------------------- MODULE LinkedNodes ----------------------------
(***************************************************************************)
(* The nodes, the chain and the iterators of bertrand/structs/linked: the  *)
(* part of core/node.h and core/view.h that every linked list, set and     *)
(* dictionary is built from.                                               *)
(*                                                                         *)
(* A view is a record v of the fields a C++ view keeps:                    *)
(*   double, fixed      the template flags DOUBLY_LINKED and FIXED_SIZE    *)
(*   next, prev, val    the fields of the nodes, by address                *)
(*   head, tail         the ends of the chain                              *)
(*   cap, occ           capacity and occupied of the allocator             *)
(*   frozen             a MemGuard forbids to move the array               *)
(* and of two history fields: live, the addresses at which a node is       *)
(* constructed, and bad, TRUE once an operation has read or written memory *)
(* that holds no node (undefined behaviour), after which nothing is said.  *)
(*                                                                         *)
(* An address is a slot of the node array (array + k is slot k + 1), 0 is  *)
(* nullptr.  A field of nullptr is nullptr and stays so, which stands for  *)
(* the code's tests "if (prev != nullptr)" before each write.              *)
(***************************************************************************)
EXTENDS Integers, Sequences, FiniteSets

CONSTANT Wrong \* a value the specialization of a container rejects

Null == 0
None == "none" \* no value: an empty slot, or nothing returned

\* What an operation returns besides the view: a value, or the exception; and,
\* when it makes a node, its address, or Null after an exception.
Outcome(v, ret) == [v |-> v, ret |-> ret]
Made(v, x) == [v |-> [v EXCEPT !.occ = @ + 1], ret |-> None, node |-> x]
Failed(v, error) == [v |-> v, ret |-> error, node |-> Null]

\* util::next_power_of_two
NextPowerOfTwo(n) ==
    IF n = 0 THEN 0
    ELSE LET power[k \in 0..n] == IF k = 0 THEN 1 ELSE 2 * power[k - 1]
             powers == {power[k] : k \in 0..n}
         IN  CHOOSE m \in powers : m >= n /\ \A other \in powers : other >= n => m <= other

Broken(v) == [v EXCEPT !.bad = TRUE]

(***************************************************************************)
(* Links.                                                                  *)
(***************************************************************************)
\* BaseView::link: put node x between p and n, and move the ends.
Link(v, p, x, n) ==
    [v EXCEPT !.next[p] = x,
              !.next[x] = n,
              !.prev[x] = IF v.double THEN p ELSE Null,
              !.prev[n] = IF v.double THEN x ELSE Null,
              !.next[Null] = Null,
              !.prev[Null] = Null,
              !.head = IF p = Null THEN x ELSE @,
              !.tail = IF n = Null THEN x ELSE @]

\* A mutant of Unlink: the node after keeps its old prev.
UnlinkForward(v, p, n) ==
    [v EXCEPT !.next[p] = n,
              !.next[Null] = Null,
              !.head = IF p = Null THEN n ELSE @,
              !.tail = IF n = Null THEN p ELSE @]

\* BaseView::unlink: take the node between p and n out of the chain.
Unlink(v, p, n) ==
    [v EXCEPT !.next[p] = n,
              !.prev[n] = IF v.double THEN p ELSE Null,
              !.next[Null] = Null,
              !.prev[Null] = Null,
              !.head = IF p = Null THEN n ELSE @,
              !.tail = IF n = Null THEN p ELSE @]

\* Node::join and Node::split: connect or cut two neighbours.
Join(v, p, x) ==
    [v EXCEPT !.next[p] = x,
              !.prev[x] = IF v.double THEN p ELSE Null,
              !.next[Null] = Null,
              !.prev[Null] = Null]

Split(v, p, x) ==
    [v EXCEPT !.next[p] = Null, !.prev[x] = Null]

\* The node's destructor: its links and its value are gone.
Destroy(v, x) ==
    [v EXCEPT !.next[x] = Null,
              !.prev[x] = Null,
              !.val[x] = None,
              !.live = @ \ {x}]

\* The node's constructor: no links yet.
Construct(v, x, value) ==
    [v EXCEPT !.next[x] = Null,
              !.prev[x] = Null,
              !.val[x] = value,
              !.live = @ \cup {x}]

(***************************************************************************)
(* The chain.                                                              *)
(***************************************************************************)
\* The addresses met from the head on; a chain that does not end is cut.
Chain(v) ==
    LET at[k \in DOMAIN v.next] == IF k = 0 THEN v.head ELSE v.next[at[k - 1]]
    IN  [k \in 1..Cardinality({j \in DOMAIN v.next : at[j] # Null}) |-> at[k - 1]]

ValuesOf(v, chain) == [k \in DOMAIN chain |-> v.val[chain[k]]]

\* The head points at memory that holds no node.
Dangling(v) == v.head # Null /\ v.head \notin v.live

Elements(v) == IF Dangling(v) THEN <<>> ELSE ValuesOf(v, Chain(v))

\* BaseView::closer_to_tail
CloserToTail(v, index) == index >= (v.occ + 1) \div 2

(***************************************************************************)
(* Iterators: the three addresses an Iterator keeps, and its direction.    *)
(***************************************************************************)
Begin(v) ==
    [back |-> FALSE, prev |-> Null, curr |-> v.head, next |-> v.next[v.head]]

RBegin(v) ==
    [back |-> TRUE, prev |-> v.prev[v.tail], curr |-> v.tail, next |-> Null]

\* Iterator::operator++
Advance(v, it) ==
    IF it.back
    THEN [it EXCEPT !.next = it.curr, !.curr = it.prev, !.prev = v.prev[it.prev]]
    ELSE [it EXCEPT !.prev = it.curr, !.curr = it.next, !.next = v.next[it.next]]

AdvanceBy(v, it, n) ==
    LET walk[k \in 0..n] == IF k = 0 THEN it ELSE Advance(v, walk[k - 1])
    IN  walk[n]

\* Iterator::insert, drop and replace: the view they leave, and the iterator.
LinkAt(v, it, x) ==
    IF it.back THEN Link(v, it.curr, x, it.next) ELSE Link(v, it.prev, x, it.curr)

AfterInsert(it, x) ==
    IF it.back
    THEN [it EXCEPT !.prev = it.curr, !.curr = x]
    ELSE [it EXCEPT !.next = it.curr, !.curr = x]

UnlinkAt(v, it) == Unlink(v, it.prev, it.next)

AfterDrop(v, it) ==
    IF it.back
    THEN [it EXCEPT !.curr = it.prev, !.prev = v.prev[it.prev]]
    ELSE [it EXCEPT !.curr = it.next, !.next = v.next[it.next]]

ReplaceAt(v, it, x) == Link(UnlinkAt(v, it), it.prev, x, it.next)

\* The walk to an index from the nearer end, as insert, pop and position do
\* it: "last" is the index of the node rbegin() starts from, which is
\* size() - 1, or size() when the iterator is to insert.
IteratorAt(v, index, last) ==
    IF v.double /\ CloserToTail(v, index)
    THEN AdvanceBy(v, RBegin(v), last - index)
    ELSE AdvanceBy(v, Begin(v), index)

(***************************************************************************)
(* Algorithms that lists, sets and dictionaries share.                     *)
(***************************************************************************)
\* The first statements of insert(), and normalize_index().
InsertIndex(v, i) ==
    LET k == IF i < 0 THEN i + v.occ ELSE i
    IN  IF k < 0 THEN 0 ELSE IF k > v.occ THEN v.occ ELSE k

NormalIndex(v, i) == IF i < 0 THEN i + v.occ ELSE i
OutOfRange(v, i) == NormalIndex(v, i) \notin 0..(v.occ - 1)
TruncatedIndex(v, i) ==
    IF NormalIndex(v, i) < 0 THEN 0
    ELSE IF NormalIndex(v, i) >= v.occ THEN v.occ - 1
    ELSE NormalIndex(v, i)

\* The address before p: its prev, or where the walk from the head stops.
Before(v, p) ==
    IF v.double THEN v.prev[p]
    ELSE IF p = v.head THEN Null
    ELSE CHOOSE q \in v.live : v.next[q] = p

\* algorithms/reverse.h: each node's links are exchanged, or turned to the
\* node before.
Reversed(v) ==
    [v EXCEPT
        !.next = [p \in DOMAIN @ |-> IF p \in v.live THEN Before(v, p) ELSE @[p]],
        !.prev = [p \in DOMAIN @ |-> IF v.double /\ p \in v.live THEN v.next[p] ELSE Null],
        !.head = v.tail, !.tail = v.head]

\* algorithms/rotate.h: the chain is closed to a ring and cut elsewhere; the
\* number of steps is taken modulo the size, which must not be 0.
Magnitude(n) == IF n < 0 THEN -n ELSE n


Rotated(v, n) ==
    LET steps == Magnitude(n) % v.occ
        index == IF n < 0 THEN steps ELSE v.occ - steps
        it == IteratorAt(v, index, v.occ - 1)
    IN  IF steps = 0 THEN v
        ELSE [Split(Join(v, v.tail, v.head), it.prev, it.curr) EXCEPT
                !.head = it.curr, !.tail = it.prev]
=============================================================================
