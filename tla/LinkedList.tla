----------------------------- MODULE LinkedList -----------------------------
(***************************************************************************)
(* LinkedList (list.h) and its algorithms, on the nodes and the allocator  *)
(* of LinkedNodes and ListAllocator: one list, its caller, a guard the     *)
(* caller may hold (with list.reserve(n): ...), and one extend() or        *)
(* extend_left() that draws its items from a generator.  The generator is  *)
(* the caller's code: between two items it may use the list, so an extend  *)
(* is a sequence of steps and every other operation is a single one.       *)
(*                                                                         *)
(* An operation takes the record of the view to the one it leaves.  When   *)
(* that one is bad the operation had undefined behaviour: the list keeps   *)
(* its old state, marked bad, and nothing more happens.                    *)
(***************************************************************************)
EXTENDS ListSlices

CONSTANTS
    Items,       \* the values a list may hold
    Indices,     \* the indices and step counts callers pass
    Bounds,      \* the slice bounds they pass,
    Steps,       \* the slice steps,
    Replacements, \* and the sequences they assign to a slice
    MaxLen,      \* bound on the length of the list
    LeftToRight  \* whether the compiler evaluates arguments from left to right

ASSUME ListAssumption ==
    /\ MaxLen \in Nat /\ MaxLen < Slots /\ LeftToRight \in BOOLEAN
    /\ Wrong \notin Items \cup {None} /\ Indices \subseteq Int

VARIABLES
    view,   \* the record of the C++ view
    guard,  \* the caller's PyMemGuard: "none", "empty" or "active"
    ext,    \* the extend under way
    op,     \* the last operation and its arguments
    ret     \* what it returned, or the exception it raised

vars == <<view, guard, ext, op, ret>>

Idle == [side |-> "none", start |-> 0, hold |-> FALSE, old |-> <<>>, alone |-> TRUE]
Extending == ext.side # "none"
Args == Items \cup {Wrong}

\* A slice's bounds and step are integers, and its step is not 0 (slice.h:85).
ASSUME SliceAssumption ==
    /\ Bounds \subseteq Int \cup {NoBound} /\ Steps \subseteq Int \ {0}
    /\ Replacements \subseteq Seq(Args)

Init ==
    /\ \E double, fixed \in BOOLEAN : view = EmptyView(double, fixed, MinCapacity)
    /\ guard = "none" /\ ext = Idle
    /\ op = <<"init">> /\ ret = None

\* The node array moved: addresses read before are stale.
Moved(v, w) == v.cap # w.cap

(***************************************************************************)
(* The operations, as functions of the view.                               *)
(***************************************************************************)
\* algorithms/append.h: the tail and the new node are arguments of one call.
AppendTo(v, x) ==
    LET c == Create(v, x)
    IN  IF c.node = Null THEN Outcome(c.v, c.ret)
        ELSE IF LeftToRight /\ Moved(v, c.v) THEN Outcome(Broken(v), None)
        ELSE Outcome(Link(c.v, c.v.tail, c.node, Null), None)

\* One item of extend_left(): the head is the later argument.
PrependTo(v, x) ==
    LET c == Create(v, x)
    IN  IF c.node = Null THEN Outcome(c.v, c.ret)
        ELSE IF Dangling(v) \/ (~LeftToRight /\ Moved(v, c.v))
             THEN Outcome(Broken(v), None)
        ELSE Outcome(Link(c.v, Null, c.node, c.v.head), None)


\* algorithms/insert.h: the room is reserved before the iterator is made.
InsertInto(v, i, x) ==
    LET r == Reserve(v, v.occ + 1)
        it == IteratorAt(r.v, InsertIndex(v, i), v.occ)
        c == Create(r.v, x)
    IN  IF r.ret # None THEN Outcome(r.v, r.ret)
        ELSE IF Dangling(r.v) /\ ~it.back THEN Outcome(Broken(v), None)
        ELSE IF c.node = Null THEN Outcome(Release(c.v, r.guard), c.ret)
        ELSE IF Moved(r.v, c.v) THEN Outcome(Broken(v), None)
        ELSE Outcome(Release(LinkAt(c.v, it, c.node), r.guard), None)

\* algorithms/pop.h
PopFrom(v, i) ==
    LET it == IteratorAt(v, TruncatedIndex(v, i), v.occ - 1)
    IN  IF v.occ = 0 THEN Outcome(v, "IndexError")
        ELSE Outcome(Recycle(UnlinkAt(v, it), it.curr), v.val[it.curr])

\* algorithms/remove.h and contains.h walk from the head.
FirstOf(v, x) ==
    LET elements == Elements(v)
        at == {k \in DOMAIN elements : elements[k] = x}
    IN  IF at = {} THEN 0 ELSE CHOOSE k \in at : \A j \in at : k <= j

RemoveFrom(v, x) ==
    LET it == AdvanceBy(v, Begin(v), FirstOf(v, x) - 1)
    IN  IF Dangling(v) THEN Outcome(Broken(v), None)
        ELSE IF FirstOf(v, x) = 0 THEN Outcome(v, "KeyError")
        ELSE Outcome(Recycle(UnlinkAt(v, it), it.curr), None)

LookFor(v, x) ==
    IF Dangling(v) THEN Outcome(Broken(v), None)
    ELSE Outcome(v, IF FirstOf(v, x) = 0 THEN "no" ELSE "yes")

\* algorithms/position.h: the proxy finds its iterator first, and set() makes
\* the node with that iterator in hand.
GetFrom(v, i) ==
    IF OutOfRange(v, i) THEN Outcome(v, "IndexError")
    ELSE Outcome(v, v.val[IteratorAt(v, NormalIndex(v, i), v.occ - 1).curr])

SetIn(v, i, x) ==
    LET it == IteratorAt(v, NormalIndex(v, i), v.occ - 1)
        c == Create(v, x)
    IN  IF OutOfRange(v, i) THEN Outcome(v, "IndexError")
        ELSE IF c.node = Null THEN Outcome(c.v, c.ret)
        ELSE IF Moved(v, c.v) THEN Outcome(Broken(v), None)
        ELSE Outcome(Recycle(ReplaceAt(c.v, it, c.node), it.curr), None)

DeleteFrom(v, i) ==
    LET it == IteratorAt(v, NormalIndex(v, i), v.occ - 1)
    IN  IF OutOfRange(v, i) THEN Outcome(v, "IndexError")
        ELSE Outcome(Recycle(UnlinkAt(v, it), it.curr), None)

\* algorithms/repeat.h: the guard that reserve() returns is dropped at once,
\* and each copy is made from an iterator that an array moved by node() leaves
\* behind.
Copies(v, n) ==
    LET size == v.occ
        more[k \in 0..(n * size)] ==
            IF k = 0 THEN v
            ELSE LET w == more[k - 1]
                     longer == AppendTo(w, w.val[AdvanceBy(w, Begin(w), (k - 1) % size).curr])
                 IN  IF w.bad \/ Moved(w, longer.v) THEN Broken(v) ELSE longer.v
    IN  more[n * size]

RepeatedIn(v, n) ==
    LET r == Reserve(v, n * v.occ)
        w == Release(r.v, r.guard)
    IN  IF n < 0 \/ v.occ = 0 THEN Outcome(Clear(v), None)
        ELSE IF r.ret # None THEN Outcome(v, r.ret)
        ELSE Outcome(Copies(w, n - 1), None)

\* extend() and extend_left() take their items back: those at the tail with a
\* backward iterator, or a forward one that walks past the items to keep.
DropAll(v, it, n) ==
    LET drop[k \in 0..n] ==
            IF k = 0 THEN [v |-> v, it |-> it]
            ELSE LET d == drop[k - 1]
                     u == UnlinkAt(d.v, d.it)
                 IN  [v |-> Recycle(u, d.it.curr), it |-> AfterDrop(u, d.it)]
    IN  drop[n].v

\* A mutant of RollBack: items taken at the tail of a singly-linked list are
\* dropped from the head.
RollBackFromHead(v, e) ==
    LET n == v.occ - e.start
        hold == Reserve(v, v.occ)
        it == IF e.side = "tail" /\ v.double THEN RBegin(hold.v) ELSE Begin(hold.v)
        w == IF n < 0 THEN Broken(v)
             ELSE IF n = 0 THEN v
             ELSE Release(DropAll(hold.v, it, n), hold.guard)
    IN  IF w.bad THEN w ELSE Release(w, e.hold)

RollBack(v, e) ==
    LET n == v.occ - e.start
        hold == Reserve(v, v.occ)
        it == IF e.side = "head" THEN Begin(hold.v)
              ELSE IF v.double THEN RBegin(hold.v)
              ELSE AdvanceBy(hold.v, Begin(hold.v), e.start)
        w == IF n < 0 THEN Broken(v)
             ELSE IF n = 0 THEN v
             ELSE Release(DropAll(hold.v, it, n), hold.guard)
    IN  IF w.bad THEN w ELSE Release(w, e.hold)

(***************************************************************************)
(* The steps.                                                              *)
(***************************************************************************)
\* The view becomes w, unless the operation met undefined behaviour.
Leaves(w, returned) ==
    /\ view' = IF w.bad THEN Broken(view) ELSE w
    /\ ret' = IF w.bad THEN "undefined" ELSE returned

Interleaves ==
    ext' = IF Extending THEN [ext EXCEPT !.alone = FALSE, !.old = <<>>] ELSE ext

\* A whole operation of the caller; with an extend under way it is the
\* generator that calls it.
Call(name, outcome) ==
    /\ op' = name
    /\ Leaves(outcome.v, outcome.ret)
    /\ Interleaves
    /\ UNCHANGED guard

HasRoom == view.occ < MaxLen

AppendItem(x) == HasRoom /\ Call(<<"append", x>>, AppendTo(view, x))
\* append_left() is written as append() is.
AppendLeft(x) == HasRoom /\ Call(<<"append_left", x>>, AppendTo(view, x))
Insert(i, x)  == HasRoom /\ Call(<<"insert", i, x>>, InsertInto(view, i, x))
Pop(i)        == Call(<<"pop", i>>, PopFrom(view, i))
Remove(x)     == Call(<<"remove", x>>, RemoveFrom(view, x))
Contains(x)   == Call(<<"contains", x>>, LookFor(view, x))
GetItem(i)    == Call(<<"get", i>>, GetFrom(view, i))
SetItem(i, x) == Call(<<"set", i, x>>, SetIn(view, i, x))
DelItem(i)    == Call(<<"del", i>>, DeleteFrom(view, i))
Reverse ==
    Call(<<"reverse">>, Outcome(IF Dangling(view) THEN Broken(view) ELSE Reversed(view), None))
Rotate(n) ==
    Call(<<"rotate", n>>, Outcome(IF view.occ = 0 THEN Broken(view) ELSE Rotated(view, n), None))
ClearAll      == Call(<<"clear">>, Outcome(Clear(view), None))
RepeatInplace(n) ==
    n * view.occ <= MaxLen /\ Call(<<"repeat", n>>, RepeatedIn(view, n))
\* Slices: the generator of an extend uses none (a bound of the model).
Slices ==
    {SliceIndices(view, start, stop, step) : start, stop \in Bounds, step \in Steps}
SliceOp(name, ix) == <<name, ix.from, ix.length, ix.by>>

GetItems(ix) ==
    ~Extending /\ Call(SliceOp("get_slice", ix), Outcome(view, GetSlice(view, ix)))
DelItems(ix) ==
    ~Extending /\ Call(SliceOp("del_slice", ix), DeleteSlice(view, ix))
SetItems(ix, items) ==
    /\ ~Extending /\ view.occ - ix.length + Len(items) <= MaxLen
    /\ Call(SliceOp("set_slice", ix) \o <<items>>, SetSlice(view, ix, items))

\* index() and count() take a slice without a step.
Spans == {SliceIndices(view, start, stop, 1) : start, stop \in Bounds}

Index(x, ix) ==
    ~Extending /\ Call(<<"index", x, ix.from, ix.to>>, Outcome(view, IndexOf(view, x, ix)))
Count(x, ix) ==
    ~Extending /\ Call(<<"count", x, ix.from, ix.to>>, Outcome(view, CountOf(view, x, ix)))

DefragmentAll == Call(<<"defragment">>, Defragment(view))

\* with list.reserve(n): the guard is entered and left.  A guard of the caller
\* may be left in any order with the guard of an extend.
Enter(n) ==
    LET r == Reserve(view, n)
    IN  /\ guard = "none"
        /\ op' = <<"reserve", n>>
        /\ Leaves(r.v, r.ret)
        /\ guard' = IF r.ret # None \/ r.v.bad THEN "none"
                    ELSE IF r.guard THEN "active" ELSE "empty"
        /\ Interleaves

Exit ==
    /\ guard # "none"
    /\ op' = <<"exit">>
    /\ Leaves(Release(view, guard = "active"), None)
    /\ guard' = "none"
    /\ Interleaves

\* extend(items): room is reserved when len(items) is known.
ExtendOp(side) == IF side = "tail" THEN <<"extend">> ELSE <<"extend_left">>

ExtendBegin(side, r) ==
    /\ ~Extending
    /\ op' = ExtendOp(side)
    /\ Leaves(r.v, r.ret)
    /\ ext' = IF r.ret # None \/ r.v.bad THEN Idle
              ELSE [side |-> side, start |-> view.occ, hold |-> r.guard,
                    old |-> Elements(view), alone |-> TRUE]
    /\ UNCHANGED guard

ExtendSized(side, n) ==
    view.occ + n <= MaxLen /\ ExtendBegin(side, Reserve(view, view.occ + n))
ExtendUnsized(side) ==
    ExtendBegin(side, [v |-> view, ret |-> None, guard |-> FALSE])

ExtendItem(x) ==
    LET r == IF ext.side = "tail" THEN AppendTo(view, x) ELSE PrependTo(view, x)
    IN  /\ Extending /\ HasRoom
        /\ op' = ExtendOp(ext.side) \o <<x>>
        /\ IF r.ret = None
           THEN Leaves(r.v, None) /\ UNCHANGED ext
           ELSE Leaves(RollBack(r.v, ext), r.ret) /\ ext' = Idle
        /\ UNCHANGED guard

\* The generator raises, or has no more items.
ExtendFails ==
    /\ Extending
    /\ op' = ExtendOp(ext.side)
    /\ Leaves(RollBack(view, ext), "GeneratorError")
    /\ ext' = Idle
    /\ UNCHANGED guard

ExtendDone ==
    /\ Extending
    /\ op' = ExtendOp(ext.side)
    /\ Leaves(Release(view, ext.hold), None)
    /\ ext' = Idle
    /\ UNCHANGED guard

Extend ==
    \/ \E side \in {"tail", "head"} :
           ExtendUnsized(side) \/ \E n \in 0..MaxLen : ExtendSized(side, n)
    \/ \E x \in Args : ExtendItem(x)
    \/ ExtendFails
    \/ ExtendDone

Next ==
    /\ ~view.bad
    /\ \/ \E x \in Args : AppendItem(x) \/ AppendLeft(x)
       \/ \E x \in Items : Remove(x) \/ Contains(x)
       \/ \E i \in Indices, x \in Args : Insert(i, x) \/ SetItem(i, x)
       \/ \E i \in Indices : Pop(i) \/ GetItem(i) \/ DelItem(i) \/ Rotate(i)
       \/ \E n \in Indices : RepeatInplace(n)
       \/ \E ix \in Slices :
              GetItems(ix) \/ DelItems(ix) \/ \E s \in Replacements : SetItems(ix, s)
       \/ \E x \in Items, ix \in Spans : Index(x, ix) \/ Count(x, ix)
       \/ Reverse \/ ClearAll \/ DefragmentAll
       \/ \E n \in 0..Slots : Enter(n)
       \/ Exit
       \/ Extend

Spec == Init /\ [][Next]_vars

(***************************************************************************)
(* Properties.                                                             *)
(***************************************************************************)
Slot == 1..Slots

\* Every variable has its type (LinkedList, BaseView, ListAllocator).
ListTypeOK ==
    /\ view.next \in [Address -> Address] /\ view.prev \in [Address -> Address]
    /\ view.val \in [Address -> Items \cup {None}]
    /\ {view.head, view.tail, view.first, view.last} \subseteq Address
    /\ view.live \subseteq Slot /\ view.cap \in Nat
    /\ guard \in {"none", "empty", "active"}
    /\ ext.side \in {"none", "tail", "head"} /\ ext.start \in 0..MaxLen

\* The variables keep their types, and the chain from head holds exactly the
\* constructed nodes, each once, ends at tail and mirrors itself in prev; an
\* empty list has no tail.
ChainOK ==
    LET chain == Chain(view)
        n == Len(chain)
    IN  /\ ListTypeOK
        /\ \/ Dangling(view) /\ view.occ = 0 /\ view.tail = Null /\ view.live = {}
           \/ /\ n = view.occ /\ Cardinality(view.live) = n
              /\ {chain[k] : k \in 1..n} = view.live
              /\ view.tail = IF n = 0 THEN Null ELSE chain[n]
              /\ view.double => \A k \in 1..n :
                     view.prev[chain[k]] = IF k = 1 THEN Null ELSE chain[k - 1]

\* The free list holds the other slots used so far, so that the next slot of
\* the array is never one in use, and the nodes fit the capacity.
FreeListOK ==
    LET free == Chain([view EXCEPT !.head = view.first])
        used == view.live \cup {free[k] : k \in DOMAIN free}
    IN  /\ Cardinality(used) = view.occ + Len(free)
        /\ used = 1..Cardinality(used)
        /\ Cardinality(used) <= view.cap
        /\ view.last = IF free = <<>> THEN Null ELSE free[Len(free)]

\* view.h:645: the array is frozen if and only if an active MemGuard exists,
\* whatever the order in which the caller's guard and an extend's end.
FrozenIffGuarded ==
    ~view.bad => (view.frozen <=> guard = "active" \/ ext.hold)

\* view.h:606: the addresses of the nodes are stable as long as a guard is
\* active: no operation moves a node or changes the capacity.  (A slice that is
\* assigned to reuses the addresses of the nodes it replaces.)
StableWhileFrozen ==
    [][view.frozen /\ view'.frozen =>
         /\ view'.cap = view.cap
         /\ op'[1] # "set_slice" =>
                \A p \in view.live \cap view'.live : view'.val[p] = view.val[p]]_vars

\* An extend or extend_left that raises leaves the elements it found, when
\* nothing else has used the list since.
RollBackRestores ==
    [][Extending /\ ext.alone /\ ext'.side = "none"
         /\ ret' \in {"MemoryError", "TypeError", "GeneratorError"}
       => Elements(view') = ext.old]_vars


Abs == INSTANCE ListSpec WITH Elems <- Items, list <- Elements(view), double <- view.double

=============================================================================
