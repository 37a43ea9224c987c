----------------------------- MODULE ListSlices -----------------------------
(***************************************************************************)
(* Slices of a list (algorithms/slice.h): the indices of a slice, and      *)
(* reading, replacing and deleting the elements at them.                   *)
(*                                                                         *)
(* A slice is traversed from the end of the list that is nearer, so its    *)
(* indices may be turned round (inverted), and in a doubly linked list the *)
(* iterator may run backward.  set() first takes the old nodes out, keeps  *)
(* them aside, and links the new ones in; when an item fails it takes the  *)
(* new ones out again and restores the old ones.                           *)
(***************************************************************************)
EXTENDS ListAllocator

CONSTANTS
    NoBound, \* a slice bound that is left out
    SizeMod  \* stands for 2^64, the modulus of size_t: larger than any size

ASSUME SizeModAssumption == SizeMod \in Nat /\ SizeMod > 2 * Slots + 2

AsSize(n) == n % SizeMod

\* util::py_modulo: the remainder has the sign of the divisor.
PyModulo(n, d) == IF d > 0 THEN n % d ELSE -((-n) % (-d))

Clip(n, size, step, last) ==
    IF n < 0 THEN (IF n + size >= 0 THEN n + size ELSE IF step < 0 THEN -1 ELSE 0)
    ELSE IF n >= last THEN (IF step < 0 THEN size - 1 ELSE size)
    ELSE n

\* normalize_slice() and the constructor of SliceIndices.
SliceIndices(v, start, stop, step) ==
    LET size == v.occ
        abs == IF step < 0 THEN -step ELSE step
        from == IF start = NoBound THEN (IF step < 0 THEN size - 1 ELSE 0)
                ELSE Clip(start, size, step, size)
        to == IF stop = NoBound THEN (IF step < 0 THEN -1 ELSE size)
              ELSE Clip(stop, size, step, size + 1)
        span == IF step < 0 THEN from - to ELSE to - from
        mod == PyModulo(to - from, step)
        closed == IF mod = 0 THEN to - step ELSE to - mod
        inverted == IF v.double
                    THEN (step > 0 /\ size - closed <= from) \/ (step < 0 /\ closed <= size - from)
                    ELSE step < 0
        first == AsSize(IF inverted THEN closed ELSE from)
        last == AsSize(IF inverted THEN from ELSE closed)
    IN  [length |-> IF span > 0 THEN (span + abs - 1) \div abs ELSE 0,
         first |-> first, step |-> abs, inverted |-> inverted,
         from |-> from, to |-> to, by |-> step,
         backward |-> v.double
                      /\ (first > last \/ (first = last /\ first > (size + 1) \div 2))]

\* SliceProxy::origin: the node beside the slice, where every traversal starts.
Origin(v, ix) ==
    IF ix.backward
    THEN LET steps == v.occ - ix.first - 1
         IN  AdvanceBy(v, RBegin(v), IF steps > 0 THEN steps ELSE 0).next
    ELSE AdvanceBy(v, Begin(v), ix.first).prev

SliceIter(v, ix, origin) ==
    IF ix.backward
    THEN LET curr == IF origin = Null THEN v.tail ELSE v.prev[origin]
         IN  [back |-> TRUE, prev |-> v.prev[curr], curr |-> curr, next |-> origin]
    ELSE LET curr == IF origin = Null THEN v.head ELSE v.next[origin]
         IN  [back |-> FALSE, prev |-> origin, curr |-> curr, next |-> v.next[curr]]

InOrder(ix, seq) ==
    IF ix.inverted THEN [k \in DOMAIN seq |-> seq[Len(seq) + 1 - k]] ELSE seq

\* The values at the indices, in the order of the traversal.
Visited(v, ix) ==
    LET it == SliceIter(v, ix, Origin(v, ix))
    IN  [k \in 1..ix.length |-> v.val[AdvanceBy(v, it, (k - 1) * ix.step).curr]]

\* SliceProxy::get
GetSlice(v, ix) == InOrder(ix, IF ix.length = 0 THEN <<>> ELSE Visited(v, ix))

\* Drop n nodes: between two of them the iterator passes step - 1 others.
DropEvery(v, ix, origin, n) ==
    LET drop[k \in 0..n] ==
            IF k = 0 THEN [v |-> v, it |-> SliceIter(v, ix, origin)]
            ELSE LET d == drop[k - 1]
                     it == IF k = 1 THEN d.it ELSE AdvanceBy(d.v, d.it, ix.step - 1)
                     u == UnlinkAt(d.v, it)
                 IN  [v |-> Recycle(u, it.curr), it |-> AfterDrop(u, it)]
    IN  drop[n].v

\* Link in the values one by one; node() may refuse one, and done counts those
\* before it.
InsertEvery(v, ix, origin, values) ==
    LET put[k \in 0..Len(values)] ==
            IF k = 0
            THEN [v |-> v, it |-> SliceIter(v, ix, origin), done |-> 0, ret |-> None]
            ELSE LET d == put[k - 1]
                     it == IF k = 1 THEN d.it ELSE AdvanceBy(d.v, d.it, ix.step)
                     c == Create(d.v, values[k])
                 IN  IF d.ret # None THEN d
                     ELSE IF c.node = Null THEN [d EXCEPT !.v = c.v, !.ret = c.ret]
                     ELSE [v |-> LinkAt(c.v, it, c.node), it |-> AfterInsert(it, c.node),
                           done |-> k, ret |-> None]
    IN  put[Len(values)]

\* SliceProxy::del
DeleteSlice(v, ix) ==
    LET r == Reserve(v, v.occ)
    IN  IF ix.length = 0 THEN Outcome(v, None)
        ELSE Outcome(Release(DropEvery(r.v, ix, Origin(r.v, ix), ix.length), r.guard), None)

\* SliceProxy::_set_impl
SetSlice(v, ix, items) ==
    LET more == v.occ - ix.length + Len(items)
        r == Reserve(v, IF more < v.occ THEN v.occ ELSE more)
        origin == Origin(r.v, ix)
        without == DropEvery(r.v, ix, origin, ix.length)
        new == InsertEvery(without, ix, origin, InOrder(ix, items))
        undone == DropEvery(new.v, ix, origin, new.done)
        restored == InsertEvery(undone, ix, origin, Visited(r.v, ix))
    IN  IF ix.length # Len(items) /\ ix.by # 1 THEN Outcome(v, "ValueError")
        ELSE IF ix.length = 0 /\ items = <<>> THEN Outcome(v, None)
        ELSE IF r.ret # None THEN Outcome(v, r.ret)
        ELSE IF r.v.bad \/ Dangling(r.v) THEN Outcome(Broken(v), None)
        ELSE IF new.ret = None THEN Outcome(Release(new.v, r.guard), None)
        ELSE Outcome(Release(restored.v, r.guard), new.ret)

(***************************************************************************)
(* index() and count() look between the bounds of a slice of step 1        *)
(* (algorithms/index.h and count.h).                                       *)
(***************************************************************************)
\* An index as it is returned.
Ordinal(k) == <<"0", "1", "2", "3", "4", "5", "6", "7", "8">>[k + 1]

\* The indices of x from low to high, found by walking the chain.
Found(v, x, low, high) ==
    {k \in low..high : v.val[AdvanceBy(v, Begin(v), k).curr] = x}

\* The backward walk of index() begins with the node at stop itself.
IndexOf(v, x, ix) ==
    LET last == IF ix.backward /\ ix.to < v.occ THEN ix.to ELSE ix.to - 1
        at == Found(v, x, ix.from, last)
    IN  IF v.occ = 0 \/ ix.from = ix.to THEN "KeyError"
        ELSE IF ix.from > ix.to THEN "IndexError"
        ELSE IF at = {} THEN "KeyError"
        ELSE Ordinal(CHOOSE k \in at : \A j \in at : k <= j)

CountOf(v, x, ix) ==
    IF v.occ = 0 \/ ix.from = ix.to THEN Ordinal(0)
    ELSE IF ix.from > ix.to THEN "IndexError"
    ELSE Ordinal(Cardinality(Found(v, x, ix.from, ix.to - 1)))
=============================================================================
