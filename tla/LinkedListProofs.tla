-------------------------- MODULE LinkedListProofs --------------------------
(***************************************************************************)
(* What LinkedList promises for any items, indices, slices and sizes.      *)
(*                                                                         *)
(* GuardInv ties the frozen flag to the guards of the caller and of an     *)
(* extend.  ListInv says that the view is Shaped, whatever has happened,   *)
(* and that an extend which nothing has interfered with still finds the    *)
(* elements that it found, at an end of the chain.                         *)
(***************************************************************************)
EXTENDS ListShapeProofs

(***************************************************************************)
(* The guards: what an operation of the view does to `frozen`.             *)
(***************************************************************************)
IsView(v) == {"frozen", "bad", "occ"} \subseteq DOMAIN v /\ v.occ \in Int

Kept(v, w) == IsView(w) /\ w.frozen = v.frozen

\* No write to the links or to a node touches the guard.
LEMMA KeptSteps ==
    ASSUME NEW v, IsView(v), NEW p, NEW x, NEW n, NEW value
    PROVE  /\ Kept(v, v) /\ Kept(v, Broken(v)) /\ Broken(v).bad
           /\ Kept(v, Link(v, p, x, n)) /\ Kept(v, Unlink(v, p, n))
           /\ Kept(v, Join(v, p, x)) /\ Kept(v, Split(v, p, x))
           /\ Kept(v, Destroy(v, x)) /\ Kept(v, Construct(v, x, value))
<1>1. Kept(v, v) /\ Kept(v, Broken(v)) /\ Broken(v).bad
  BY DEF Kept, IsView, Broken
<1>2. Kept(v, Link(v, p, x, n))
  BY DEF Kept, IsView, Link
<1>3. Kept(v, Unlink(v, p, n))
  BY DEF Kept, IsView, Unlink
<1>4. Kept(v, Join(v, p, x)) /\ Kept(v, Split(v, p, x))
  BY DEF Kept, IsView, Join, Split
<1>5. Kept(v, Destroy(v, x)) /\ Kept(v, Construct(v, x, value))
  BY DEF Kept, IsView, Destroy, Construct
<1> QED
  BY <1>1, <1>2, <1>3, <1>4, <1>5

\* Operations that follow each other.
LEMMA KeptOnward ==
    ASSUME NEW u, NEW v, NEW w, Kept(u, v), Kept(v, w)
    PROVE  Kept(u, w)
BY DEF Kept

\* An array that moves stays as frozen as it was.
LEMMA KeptResize ==
    ASSUME NEW v, IsView(v), NEW n
    PROVE  Kept(v, Resize(v, n)) /\ Kept(v, Shrink(v))
<1>1. ASSUME NEW c PROVE Kept(v, Resize(v, c))
  BY KeptSteps DEF Kept, IsView, Resize
<1>2. Kept(v, Shrink(v))
  BY <1>1, KeptSteps DEF Shrink
<1> QED
  BY <1>1, <1>2

\* create(), which may move the array.
LEMMA KeptCreate ==
    ASSUME NEW v, IsView(v), NEW value
    PROVE  Kept(v, Create(v, value).v)
<1>1. ASSUME NEW w, IsView(w), NEW x PROVE Kept(w, Made(w, x).v)
  BY <1>1 DEF Made, Kept, IsView
<1>2. ASSUME NEW error PROVE Kept(v, Failed(v, error).v)
  BY KeptSteps DEF Failed
<1>3. Kept(v, FromFreeList(v, value).v)
  <2> DEFINE rest == v.next[v.first]
             c == Construct(v, v.first, value)
             w == [c EXCEPT !.first = rest, !.last = IF rest = Null THEN Null ELSE @]
  <2>1. Kept(v, c)
    BY KeptSteps
  <2>2. Kept(v, w)
    <3> HIDE DEF c
    <3> QED
      BY <2>1 DEF Kept, IsView
  <2>3. FromFreeList(v, value) =
          IF value = Wrong THEN Failed(v, "TypeError") ELSE Made(w, v.first)
    BY DEF FromFreeList
  <2>4. Kept(v, Made(w, v.first).v)
    <3> HIDE DEF w
    <3> QED
      BY <1>1, <2>2, KeptOnward DEF Kept
  <2> QED
    BY <1>2, <2>3, <2>4
<1>4. Kept(v, FromArray(v, value).v)
  <2> DEFINE w == IF Full(v) THEN Resize(v, 2 * v.cap) ELSE v
  <2>1. Kept(v, w)
    BY KeptResize, KeptSteps
  <2> HIDE DEF w
  <2>2. Kept(w, Construct(w, w.occ + 1, value))
    <3>1. IsView(w)
      BY <2>1 DEF Kept
    <3> QED
      BY <3>1, KeptSteps
  <2>3. Kept(w, Made(Construct(w, w.occ + 1, value), w.occ + 1).v)
    <3> DEFINE c == Construct(w, w.occ + 1, value)
    <3> HIDE DEF c
    <3> QED
      BY <1>1, <2>2, KeptOnward DEF c, Kept
  <2>4. Kept(v, Failed(w, "TypeError").v)
    BY <2>1 DEF Failed
  <2> QED
    BY <2>1, <2>3, <2>4, KeptOnward DEF FromArray, w
<1> QED
  BY <1>2, <1>3, <1>4 DEF Create

\* recycle(), which may shrink the array.
LEMMA KeptRecycle ==
    ASSUME NEW v, IsView(v), NEW x
    PROVE  Kept(v, Recycle(v, x))
<1> DEFINE d == Destroy(v, x)
           w == [d EXCEPT !.occ = @ - 1]
<1>1. Kept(v, d)
  BY KeptSteps
<1>2. Kept(v, w)
  <2> HIDE DEF d
  <2> QED
    BY <1>1 DEF Kept, IsView
<1> HIDE DEF w
<1>3. Kept(v, Shrink(w))
  BY <1>2, KeptResize, KeptOnward DEF Kept
<1>4. Kept(v, [w EXCEPT !.next[v.last] = x, !.next[Null] = Null,
                        !.first = IF @ = Null THEN x ELSE @, !.last = x])
  BY <1>2 DEF Kept, IsView
<1> QED
  BY <1>3, <1>4 DEF Recycle, w

\* clear()
LEMMA KeptClear ==
    ASSUME NEW v, IsView(v)
    PROVE  Kept(v, Clear(v))
BY KeptSteps DEF Clear, EmptyView, Kept, IsView

\* Insertion, removal and replacement at an iterator.
LEMMA KeptAt ==
    ASSUME NEW v, IsView(v), NEW it, NEW x
    PROVE  Kept(v, LinkAt(v, it, x)) /\ Kept(v, UnlinkAt(v, it)) /\ Kept(v, ReplaceAt(v, it, x))
<1>1. Kept(v, UnlinkAt(v, it))
  BY KeptSteps DEF UnlinkAt
<1>2. Kept(v, ReplaceAt(v, it, x))
  <2> DEFINE u == UnlinkAt(v, it)
  <2> HIDE DEF u
  <2> QED
    BY <1>1, KeptSteps, KeptOnward DEF u, ReplaceAt, Kept
<1> QED
  BY <1>1, <1>2, KeptSteps DEF LinkAt

\* reverse() and rotate()
LEMMA KeptReversed ==
    ASSUME NEW v, IsView(v), NEW n
    PROVE  Kept(v, Reversed(v)) /\ Kept(v, Rotated(v, n))
<1>1. Kept(v, Reversed(v))
  BY DEF Reversed, Kept, IsView
<1>2. ASSUME NEW w, Kept(v, w), NEW h, NEW t
      PROVE  Kept(v, [w EXCEPT !.head = h, !.tail = t])
  BY <1>2 DEF Kept, IsView
<1>3. ASSUME NEW it
      PROVE  Kept(v, [Split(Join(v, v.tail, v.head), it.prev, it.curr) EXCEPT
                         !.head = it.curr, !.tail = it.prev])
  <2> DEFINE j == Join(v, v.tail, v.head)
             w == Split(j, it.prev, it.curr)
  <2>1. Kept(v, j)
    BY KeptSteps
  <2> HIDE DEF j
  <2>2. Kept(v, w)
    BY <2>1, KeptSteps, KeptOnward DEF Kept
  <2> HIDE DEF w
  <2>3. Kept(v, [w EXCEPT !.head = it.curr, !.tail = it.prev])
    BY <1>2, <2>2
  <2> QED
    BY <2>3 DEF w, j
<1>4. Kept(v, Rotated(v, n))
  BY <1>3, KeptSteps DEF Rotated
<1> QED
  BY <1>1, <1>4

\* reserve(): a MemGuard is active only where it has frozen the array itself.
LEMMA Reserving ==
    ASSUME NEW v, IsView(v), v.frozen \in BOOLEAN, NEW n
    PROVE  LET r == Reserve(v, n)
           IN  /\ IsView(r.v) /\ r.guard \in BOOLEAN
               /\ r.guard => ~v.frozen /\ r.v.frozen = TRUE /\ r.ret = None
               /\ ~r.guard => r.v = v
<1> DEFINE w == IF NextPowerOfTwo(n) > v.cap THEN Resize(v, NextPowerOfTwo(n)) ELSE v
<1>1. IsView(w)
  BY KeptResize, KeptSteps DEF Kept
<1> HIDE DEF w
<1>2. IsView([w EXCEPT !.frozen = TRUE]) /\ [w EXCEPT !.frozen = TRUE].frozen = TRUE
  BY <1>1 DEF IsView
<1> QED
  BY <1>2 DEF Reserve, w

\* The end of a MemGuard.
LEMMA Releasing ==
    ASSUME NEW v, IsView(v), NEW g \in BOOLEAN
    PROVE  LET w == Release(v, g)
           IN  IsView(w) /\ w.frozen = IF g THEN FALSE ELSE v.frozen
<1> DEFINE u == [v EXCEPT !.frozen = FALSE]
<1>1. IsView(u) /\ u.frozen = FALSE
  BY DEF IsView
<1> HIDE DEF u
<1>2. Kept(u, Shrink(u))
  BY <1>1, KeptResize
<1> QED
  BY <1>1, <1>2 DEF Release, Kept, u

\* An operation under a guard of its own.
LEMMA KeptGuarded ==
    ASSUME NEW v, IsView(v), v.frozen \in BOOLEAN, NEW n, NEW w, Kept(Reserve(v, n).v, w)
    PROVE  Kept(v, Release(w, Reserve(v, n).guard))
<1> DEFINE r == Reserve(v, n)
<1>1. /\ r.guard \in BOOLEAN
      /\ r.guard => ~v.frozen
      /\ ~r.guard => r.v = v
  BY Reserving
<1>2. Kept(r.v, w)
  OBVIOUS
<1> HIDE DEF r
<1>3. /\ IsView(Release(w, r.guard))
      /\ Release(w, r.guard).frozen = IF r.guard THEN FALSE ELSE w.frozen
  BY <1>1, <1>2, Releasing DEF Kept
<1>4. Kept(v, Release(w, r.guard))
  BY <1>1, <1>2, <1>3 DEF Kept
<1> QED
  BY <1>4 DEF r

\* append() and an item of extend_left()
LEMMA KeptAppend ==
    ASSUME NEW v, IsView(v), NEW x
    PROVE  Kept(v, AppendTo(v, x).v) /\ Kept(v, PrependTo(v, x).v)
<1> DEFINE c == Create(v, x)
<1>1. Kept(v, c.v)
  BY KeptCreate
<1> HIDE DEF c
<1>2. ASSUME NEW p, NEW q, NEW y PROVE Kept(v, Link(c.v, p, y, q))
  BY <1>1, KeptSteps, KeptOnward DEF Kept
<1> QED
  BY <1>1, <1>2, KeptSteps DEF AppendTo, PrependTo, Outcome, c

(***************************************************************************)
(* The loops that drop and copy nodes, step by step.                       *)
(***************************************************************************)
DropStep(d) ==
    LET u == UnlinkAt(d.v, d.it)
    IN  [v |-> Recycle(u, d.it.curr), it |-> AfterDrop(u, d.it)]

\* The loop that takes items back, one step at a time.
LEMMA DropAllSteps ==
    ASSUME NEW n \in Nat, NEW v, NEW it
    PROVE  \E d : /\ DropAll(v, it, n) = d[n].v
                  /\ d[0] = [v |-> v, it |-> it]
                  /\ \A k \in 1..n : d[k] = DropStep(d[k - 1])
<1> DEFINE Runs(m, f) ==
             f = [k \in 0..m |-> IF k = 0 THEN [v |-> v, it |-> it] ELSE DropStep(f[k - 1])]
           Good == {m \in Nat : \E f : Runs(m, f)}
<1>1. 0 \in Good
  <2> DEFINE f == [k \in 0..0 |-> [v |-> v, it |-> it]]
  <2>1. Runs(0, f)
    OBVIOUS
  <2> QED
    BY <2>1
<1>2. ASSUME NEW m \in 0..n, m \in Good PROVE m + 1 \in Good
  <2>1. PICK f : Runs(m, f)
    BY <1>2
  <2> DEFINE g == [k \in 0..(m + 1) |-> IF k <= m THEN f[k] ELSE DropStep(f[m])]
  <2>2. ASSUME NEW k \in 0..(m + 1)
        PROVE  g[k] = IF k = 0 THEN [v |-> v, it |-> it] ELSE DropStep(g[k - 1])
    BY <2>1
  <2>3. Runs(m + 1, g)
    BY <2>2
  <2> HIDE DEF Runs, g
  <2>4. \E h : Runs(m + 1, h)
    BY <2>3
  <2> QED
    BY <2>4
<1>3. n \in Good
  <2> HIDE DEF Good
  <2> QED
    BY <1>1, <1>2, Climb
<1> DEFINE d == CHOOSE f : Runs(n, f)
<1>4. Runs(n, d)
  <2> HIDE DEF Runs
  <2> QED
    BY <1>3 DEF Runs
<1>5. DropAll(v, it, n) = d[n].v
  BY DEF DropAll, DropStep
<1> HIDE DEF d
<1>6. d[0] = [v |-> v, it |-> it] /\ \A k \in 1..n : d[k] = DropStep(d[k - 1])
  BY <1>4
<1> QED
  BY <1>5, <1>6

\* Taking items back.
LEMMA KeptDropAll ==
    ASSUME NEW v, IsView(v), NEW it, NEW n \in Nat
    PROVE  Kept(v, DropAll(v, it, n))
<1>1. PICK d : /\ DropAll(v, it, n) = d[n].v
               /\ d[0] = [v |-> v, it |-> it]
               /\ \A k \in 1..n : d[k] = DropStep(d[k - 1])
  BY DropAllSteps
<1> DEFINE S == {k \in 0..n : Kept(v, d[k].v)}
<1>2. 0 \in S
  BY <1>1, KeptSteps
<1>3. ASSUME NEW k \in 0..n, k < n, k \in S PROVE k + 1 \in S
  <2>1. d[k + 1] = DropStep(d[k])
    BY <1>1, <1>3
  <2>2. Kept(v, UnlinkAt(d[k].v, d[k].it))
    BY <1>3, KeptAt, KeptOnward DEF Kept
  <2>3. Kept(v, d[k + 1].v)
    BY <2>1, <2>2, KeptRecycle, KeptOnward DEF Kept, DropStep
  <2> QED
    BY <1>3, <2>3
<1> HIDE DEF S
<1>4. n \in S
  BY <1>2, <1>3, Climb
<1> QED
  BY <1>1, <1>4 DEF S

CopyStep(w, v, k) ==
    LET longer == AppendTo(w, w.val[AdvanceBy(w, Begin(w), (k - 1) % v.occ).curr])
    IN  IF w.bad \/ Moved(w, longer.v) THEN Broken(v) ELSE longer.v

\* The loop of repeat(), one step at a time.
LEMMA CopiesSteps ==
    ASSUME NEW v, NEW n, n * v.occ \in Nat
    PROVE  \E d : /\ Copies(v, n) = d[n * v.occ]
                  /\ d[0] = v
                  /\ \A k \in 1..(n * v.occ) : d[k] = CopyStep(d[k - 1], v, k)
<1> DEFINE Runs(m, f) ==
             f = [k \in 0..m |-> IF k = 0 THEN v
                                 ELSE CopyStep(f[k - 1], v, k)]
           Good == {m \in Nat : \E f : Runs(m, f)}
<1>1. 0 \in Good
  <2> DEFINE f == [k \in 0..0 |-> v]
  <2>1. Runs(0, f)
    OBVIOUS
  <2> QED
    BY <2>1
<1>2. ASSUME NEW m \in 0..(n * v.occ), m \in Good PROVE m + 1 \in Good
  <2>1. PICK f : Runs(m, f)
    BY <1>2
  <2> DEFINE g == [k \in 0..(m + 1) |-> IF k <= m THEN f[k] ELSE CopyStep(f[m], v, m + 1)]
  <2>2. ASSUME NEW k \in 0..(m + 1)
        PROVE  g[k] = IF k = 0 THEN v ELSE CopyStep(g[k - 1], v, k)
    BY <2>1
  <2>3. Runs(m + 1, g)
    BY <2>2
  <2> HIDE DEF Runs, g
  <2>4. \E h : Runs(m + 1, h)
    BY <2>3
  <2> QED
    BY <2>4
<1>3. (n * v.occ) \in Good
  <2> HIDE DEF Good
  <2> QED
    BY <1>1, <1>2, Climb
<1> DEFINE d == CHOOSE f : Runs((n * v.occ), f)
<1>4. Runs((n * v.occ), d)
  <2> HIDE DEF Runs
  <2> QED
    BY <1>3 DEF Runs
<1>5. Copies(v, n) = d[n * v.occ]
  BY DEF Copies, CopyStep
<1> HIDE DEF d
<1>6. d[0] = v /\ \A k \in 1..(n * v.occ) : d[k] = CopyStep(d[k - 1], v, k)
  BY <1>4
<1> QED
  BY <1>5, <1>6

\* repeat() after the guard it drops.
LEMMA KeptCopies ==
    ASSUME NEW v, IsView(v), NEW n, n * v.occ \in Nat
    PROVE  Kept(v, Copies(v, n))
<1>1. PICK d : /\ Copies(v, n) = d[n * v.occ]
               /\ d[0] = v
               /\ \A k \in 1..(n * v.occ) : d[k] = CopyStep(d[k - 1], v, k)
  BY CopiesSteps
<1> DEFINE S == {k \in 0..(n * v.occ) : Kept(v, d[k])}
<1>2. 0 \in S
  BY <1>1, KeptSteps
<1>3. ASSUME NEW k \in 0..(n * v.occ), k < n * v.occ, k \in S PROVE k + 1 \in S
  <2>1. d[k + 1] = CopyStep(d[k], v, k + 1)
    BY <1>1, <1>3
  <2>2. \A x : Kept(v, AppendTo(d[k], x).v)
    BY <1>3, KeptAppend, KeptOnward DEF Kept
  <2>3. Kept(v, d[k + 1])
    BY <2>1, <2>2, KeptSteps DEF CopyStep
  <2> QED
    BY <1>3, <2>3
<1> HIDE DEF S
<1>4. n * v.occ \in S
  BY <1>2, <1>3, Climb
<1> QED
  BY <1>1, <1>4 DEF S

DropEveryStep(d, ix, k) ==
    LET it == IF k = 1 THEN d.it ELSE AdvanceBy(d.v, d.it, ix.step - 1)
        u == UnlinkAt(d.v, it)
    IN  [v |-> Recycle(u, it.curr), it |-> AfterDrop(u, it)]

\* The loop that drops the nodes of a slice, one step at a time.
LEMMA DropEverySteps ==
    ASSUME NEW n \in Nat, NEW v, NEW ix, NEW origin
    PROVE  \E d : /\ DropEvery(v, ix, origin, n) = d[n].v
                  /\ d[0] = [v |-> v, it |-> SliceIter(v, ix, origin)]
                  /\ \A k \in 1..n : d[k] = DropEveryStep(d[k - 1], ix, k)
<1> DEFINE Runs(m, f) ==
             f = [k \in 0..m |-> IF k = 0 THEN [v |-> v, it |-> SliceIter(v, ix, origin)]
                                 ELSE DropEveryStep(f[k - 1], ix, k)]
           Good == {m \in Nat : \E f : Runs(m, f)}
<1>1. 0 \in Good
  <2> DEFINE f == [k \in 0..0 |-> [v |-> v, it |-> SliceIter(v, ix, origin)]]
  <2>1. Runs(0, f)
    OBVIOUS
  <2> QED
    BY <2>1
<1>2. ASSUME NEW m \in 0..n, m \in Good PROVE m + 1 \in Good
  <2>1. PICK f : Runs(m, f)
    BY <1>2
  <2> DEFINE g == [k \in 0..(m + 1) |-> IF k <= m THEN f[k] ELSE DropEveryStep(f[m], ix, m + 1)]
  <2>2. ASSUME NEW k \in 0..(m + 1)
        PROVE  g[k] = IF k = 0 THEN [v |-> v, it |-> SliceIter(v, ix, origin)]
                      ELSE DropEveryStep(g[k - 1], ix, k)
    BY <2>1
  <2>3. Runs(m + 1, g)
    BY <2>2
  <2> HIDE DEF Runs, g
  <2>4. \E h : Runs(m + 1, h)
    BY <2>3
  <2> QED
    BY <2>4
<1>3. n \in Good
  <2> HIDE DEF Good
  <2> QED
    BY <1>1, <1>2, Climb
<1> DEFINE d == CHOOSE f : Runs(n, f)
<1>4. Runs(n, d)
  <2> HIDE DEF Runs
  <2> QED
    BY <1>3 DEF Runs
<1>5. DropEvery(v, ix, origin, n) = d[n].v
  BY DEF DropEvery, DropEveryStep
<1> HIDE DEF d
<1>6. /\ d[0] = [v |-> v, it |-> SliceIter(v, ix, origin)]
      /\ \A k \in 1..n : d[k] = DropEveryStep(d[k - 1], ix, k)
  BY <1>4
<1> QED
  BY <1>5, <1>6

\* Dropping the nodes of a slice.
LEMMA KeptDropEvery ==
    ASSUME NEW v, IsView(v), NEW ix, NEW origin, NEW n \in Nat
    PROVE  Kept(v, DropEvery(v, ix, origin, n))
<1>1. PICK d : /\ DropEvery(v, ix, origin, n) = d[n].v
               /\ d[0] = [v |-> v, it |-> SliceIter(v, ix, origin)]
               /\ \A k \in 1..n : d[k] = DropEveryStep(d[k - 1], ix, k)
  BY DropEverySteps
<1> DEFINE S == {k \in 0..n : Kept(v, d[k].v)}
<1>2. 0 \in S
  BY <1>1, KeptSteps
<1>3. ASSUME NEW k \in 0..n, k < n, k \in S PROVE k + 1 \in S
  <2>1. d[k + 1] = DropEveryStep(d[k], ix, k + 1)
    BY <1>1, <1>3
  <2>2. \A it : Kept(v, UnlinkAt(d[k].v, it))
    BY <1>3, KeptAt, KeptOnward DEF Kept
  <2>3. \A it, x : Kept(v, Recycle(UnlinkAt(d[k].v, it), x))
    BY <2>2, KeptRecycle, KeptOnward DEF Kept
  <2>4. Kept(v, d[k + 1].v)
    BY <2>1, <2>3 DEF DropEveryStep
  <2> QED
    BY <1>3, <2>4
<1> HIDE DEF S
<1>4. n \in S
  BY <1>2, <1>3, Climb
<1> QED
  BY <1>1, <1>4 DEF S

PutStep(d, ix, values, k) ==
    LET it == IF k = 1 THEN d.it ELSE AdvanceBy(d.v, d.it, ix.step)
        c == Create(d.v, values[k])
    IN  IF d.ret # None THEN d
        ELSE IF c.node = Null THEN [d EXCEPT !.v = c.v, !.ret = c.ret]
        ELSE [v |-> LinkAt(c.v, it, c.node), it |-> AfterInsert(it, c.node),
              done |-> k, ret |-> None]

\* The loop that links the values of a slice in, one step at a time.
LEMMA InsertEverySteps ==
    ASSUME NEW v, NEW ix, NEW origin, NEW values, NEW n \in Nat, n = Len(values)
    PROVE  \E d : /\ InsertEvery(v, ix, origin, values) = d[n]
                  /\ d[0] = [v |-> v, it |-> SliceIter(v, ix, origin), done |-> 0, ret |-> None]
                  /\ \A k \in 1..n : d[k] = PutStep(d[k - 1], ix, values, k)
<1> DEFINE Runs(m, f) ==
             f = [k \in 0..m |->
                    IF k = 0
                    THEN [v |-> v, it |-> SliceIter(v, ix, origin), done |-> 0, ret |-> None]
                    ELSE PutStep(f[k - 1], ix, values, k)]
           Good == {m \in Nat : \E f : Runs(m, f)}
<1>1. 0 \in Good
  <2> DEFINE f == [k \in 0..0 |->
                      [v |-> v, it |-> SliceIter(v, ix, origin), done |-> 0, ret |-> None]]
  <2>1. Runs(0, f)
    OBVIOUS
  <2> QED
    BY <2>1
<1>2. ASSUME NEW m \in 0..n, m \in Good PROVE m + 1 \in Good
  <2>1. PICK f : Runs(m, f)
    BY <1>2
  <2> DEFINE g == [k \in 0..(m + 1) |-> IF k <= m THEN f[k] ELSE PutStep(f[m], ix, values, m + 1)]
  <2>2. ASSUME NEW k \in 0..(m + 1)
        PROVE  g[k] = IF k = 0
                      THEN [v |-> v, it |-> SliceIter(v, ix, origin), done |-> 0, ret |-> None]
                      ELSE PutStep(g[k - 1], ix, values, k)
    BY <2>1
  <2>3. Runs(m + 1, g)
    BY <2>2
  <2> HIDE DEF Runs, g
  <2>4. \E h : Runs(m + 1, h)
    BY <2>3
  <2> QED
    BY <2>4
<1>3. n \in Good
  <2> HIDE DEF Good
  <2> QED
    BY <1>1, <1>2, Climb
<1> DEFINE d == CHOOSE f : Runs(n, f)
<1>4. Runs(n, d)
  <2> HIDE DEF Runs
  <2> QED
    BY <1>3 DEF Runs
<1>5. InsertEvery(v, ix, origin, values) = d[n]
  BY DEF InsertEvery, PutStep
<1> HIDE DEF d
<1>6. /\ d[0] = [v |-> v, it |-> SliceIter(v, ix, origin), done |-> 0, ret |-> None]
      /\ \A k \in 1..n : d[k] = PutStep(d[k - 1], ix, values, k)
  BY <1>4
<1> QED
  BY <1>5, <1>6

\* Linking the values of a slice in.
LEMMA KeptInsertEvery ==
    ASSUME NEW v, IsView(v), NEW ix, NEW origin, NEW values, Len(values) \in Nat
    PROVE  LET new == InsertEvery(v, ix, origin, values)
           IN  Kept(v, new.v) /\ new.done \in Nat
<1> DEFINE n == Len(values)
<1>1. PICK d : /\ InsertEvery(v, ix, origin, values) = d[n]
               /\ d[0] = [v |-> v, it |-> SliceIter(v, ix, origin), done |-> 0, ret |-> None]
               /\ \A k \in 1..n : d[k] = PutStep(d[k - 1], ix, values, k)
  BY InsertEverySteps
<1> HIDE DEF n
<1>n. n \in Nat
  BY DEF n
<1> DEFINE S == {k \in 0..n : /\ {"v", "done", "ret"} \subseteq DOMAIN d[k]
                             /\ Kept(v, d[k].v) /\ d[k].done \in Nat}
<1>2. 0 \in S
  BY <1>1, <1>n, KeptSteps
<1>3. ASSUME NEW k \in 0..n, k < n, k \in S PROVE k + 1 \in S
  <2> DEFINE it == IF k + 1 = 1 THEN d[k].it ELSE AdvanceBy(d[k].v, d[k].it, ix.step)
             c == Create(d[k].v, values[k + 1])
  <2>1. d[k + 1] = PutStep(d[k], ix, values, k + 1)
    BY <1>1, <1>3, <1>n
  <2>2. Kept(v, c.v)
    BY <1>3, KeptCreate, KeptOnward DEF Kept
  <2>3. Kept(v, LinkAt(c.v, it, c.node))
    <3> HIDE DEF c, it
    <3> QED
      BY <2>2, KeptAt, KeptOnward DEF Kept
  <2>4. d[k + 1] = IF d[k].ret # None THEN d[k]
                   ELSE IF c.node = Null THEN [d[k] EXCEPT !.v = c.v, !.ret = c.ret]
                   ELSE [v |-> LinkAt(c.v, it, c.node), it |-> AfterInsert(it, c.node),
                         done |-> k + 1, ret |-> None]
    BY <2>1 DEF PutStep
  <2> HIDE DEF c, it
  <2>5. k + 1 \in 0..n
    BY <1>3, <1>n
  <2>6. CASE d[k].ret # None
    BY <1>3, <2>4, <2>5, <2>6
  <2>7. CASE d[k].ret = None /\ c.node = Null
    <3>1. d[k + 1] = [d[k] EXCEPT !.v = c.v, !.ret = c.ret]
      BY <2>4, <2>7
    <3> QED
      BY <1>3, <2>2, <2>5, <3>1
  <2>8. CASE d[k].ret = None /\ c.node # Null
    <3>1. d[k + 1] = [v |-> LinkAt(c.v, it, c.node), it |-> AfterInsert(it, c.node),
                      done |-> k + 1, ret |-> None]
      BY <2>4, <2>8
    <3> QED
      BY <2>3, <2>5, <3>1
  <2> QED
    BY <2>6, <2>7, <2>8
<1> HIDE DEF S
<1>4. n \in S
  BY <1>2, <1>3, <1>n, Climb
<1> QED
  BY <1>1, <1>4 DEF S, n

(***************************************************************************)
(* The operations keep the array frozen, or leave it free.                 *)
(***************************************************************************)
LEMMA KeptInsert ==
    ASSUME NEW v, IsView(v), v.frozen \in BOOLEAN, NEW i, NEW x
    PROVE  Kept(v, InsertInto(v, i, x).v)
<1> DEFINE r == Reserve(v, v.occ + 1)
           it == IteratorAt(r.v, InsertIndex(v, i), v.occ)
           c == Create(r.v, x)
<1>1. IsView(r.v) /\ Kept(v, Release(r.v, r.guard))
  BY Reserving, KeptGuarded, KeptSteps
<1>2. r.ret # None => r.v = v
  BY DEF Reserve
<1>3. ASSUME NEW w, Kept(r.v, w) PROVE Kept(v, Release(w, r.guard))
  BY <1>3, KeptGuarded
<1> HIDE DEF r
<1>4. Kept(r.v, c.v)
  BY <1>1, KeptCreate
<1> HIDE DEF c
<1>5. Kept(r.v, LinkAt(c.v, it, c.node))
  BY <1>4, KeptAt, KeptOnward DEF Kept
<1>6. Kept(v, Release(LinkAt(c.v, it, c.node), r.guard)) /\ Kept(v, Release(c.v, r.guard))
  BY <1>3, <1>4, <1>5
<1>7. InsertInto(v, i, x) =
        IF r.ret # None THEN Outcome(r.v, r.ret)
        ELSE IF Dangling(r.v) /\ ~it.back THEN Outcome(Broken(v), None)
        ELSE IF c.node = Null THEN Outcome(Release(c.v, r.guard), c.ret)
        ELSE IF Moved(r.v, c.v) THEN Outcome(Broken(v), None)
        ELSE Outcome(Release(LinkAt(c.v, it, c.node), r.guard), None)
  BY DEF InsertInto, r, c
<1> HIDE DEF it
<1> QED
  BY <1>2, <1>6, <1>7, KeptSteps DEF Outcome

\* pop(), remove(), del, and the lookups.
LEMMA KeptTaking ==
    ASSUME NEW v, IsView(v), NEW i, NEW x
    PROVE  /\ Kept(v, PopFrom(v, i).v)
           /\ Kept(v, RemoveFrom(v, x).v)
           /\ Kept(v, DeleteFrom(v, i).v)
           /\ Kept(v, LookFor(v, x).v)
           /\ Kept(v, GetFrom(v, i).v)
<1>1. ASSUME NEW it PROVE Kept(v, Recycle(UnlinkAt(v, it), it.curr))
  BY KeptAt, KeptRecycle, KeptOnward DEF Kept
<1>2. Kept(v, PopFrom(v, i).v)
  BY <1>1, KeptSteps DEF PopFrom, Outcome
<1>3. Kept(v, RemoveFrom(v, x).v)
  BY <1>1, KeptSteps DEF RemoveFrom, Outcome
<1>4. Kept(v, DeleteFrom(v, i).v)
  BY <1>1, KeptSteps DEF DeleteFrom, Outcome
<1>5. Kept(v, LookFor(v, x).v) /\ Kept(v, GetFrom(v, i).v)
  BY KeptSteps DEF LookFor, GetFrom, Outcome
<1> QED
  BY <1>2, <1>3, <1>4, <1>5

\* set()
LEMMA KeptSet ==
    ASSUME NEW v, IsView(v), NEW i, NEW x
    PROVE  Kept(v, SetIn(v, i, x).v)
<1> DEFINE it == IteratorAt(v, NormalIndex(v, i), v.occ - 1)
           c == Create(v, x)
<1>1. Kept(v, c.v)
  BY KeptCreate
<1> HIDE DEF c, it
<1>2. Kept(v, ReplaceAt(c.v, it, c.node))
  BY <1>1, KeptAt, KeptOnward DEF Kept
<1>3. Kept(v, Recycle(ReplaceAt(c.v, it, c.node), it.curr))
  BY <1>2, KeptRecycle, KeptOnward DEF Kept
<1> QED
  BY <1>1, <1>3, KeptSteps DEF SetIn, Outcome, c, it

\* The whole of repeat().
LEMMA KeptRepeated ==
    ASSUME NEW v, IsView(v), v.frozen \in BOOLEAN, NEW n \in Int
    PROVE  Kept(v, RepeatedIn(v, n).v)
<1> DEFINE r == Reserve(v, n * v.occ)
           w == Release(r.v, r.guard)
<1>1. Kept(v, w)
  BY Reserving, KeptGuarded, KeptSteps
<1>2. ASSUME NEW u, IsView(u), NEW c PROVE Resize(u, c).occ = u.occ
  BY <1>2 DEF Resize, IsView, Broken
<1>3. IsView(r.v) /\ r.v.occ = v.occ
  <2> DEFINE u == IF NextPowerOfTwo(n * v.occ) > v.cap
                  THEN Resize(v, NextPowerOfTwo(n * v.occ)) ELSE v
  <2>1. u.occ = v.occ /\ IsView(u)
    BY <1>2, KeptResize DEF Kept
  <2> HIDE DEF u
  <2>2. [u EXCEPT !.frozen = TRUE].occ = v.occ
    BY <2>1 DEF IsView
  <2>3. IsView(r.v)
    BY Reserving
  <2> QED
    BY <2>2, <2>3 DEF Reserve, u
<1>4. w.occ = v.occ
  <2> DEFINE f == [r.v EXCEPT !.frozen = FALSE]
  <2>1. IsView(f) /\ f.occ = v.occ
    <3> HIDE DEF r
    <3> QED
      BY <1>3 DEF IsView
  <2> HIDE DEF f, r
  <2>2. Shrink(f).occ = v.occ
    BY <1>2, <2>1 DEF Shrink
  <2> QED
    BY <1>3, <2>2 DEF Release, f
<1>5. r.ret = None => (n - 1) * w.occ \in Nat
  <2>1. r.ret = None => ~(n * v.occ < v.occ)
    BY DEF Reserve, None
  <2>2. v.occ \in Int /\ n * v.occ \in Int /\ (n - 1) * v.occ = n * v.occ - v.occ
    BY DEF IsView
  <2> HIDE DEF r, w
  <2> QED
    BY <1>4, <2>1, <2>2
<1> HIDE DEF w
<1>6. r.ret = None => Kept(v, Copies(w, n - 1))
  <2> HIDE DEF r
  <2> QED
    BY <1>1, <1>5, KeptCopies, KeptOnward DEF Kept
<1>7. RepeatedIn(v, n) =
        IF n < 0 \/ v.occ = 0 THEN Outcome(Clear(v), None)
        ELSE IF r.ret # None THEN Outcome(v, r.ret)
        ELSE Outcome(Copies(w, n - 1), None)
  BY DEF RepeatedIn, w
<1> HIDE DEF r
<1> QED
  BY <1>6, <1>7, KeptClear, KeptSteps DEF Outcome

\* defragment()
LEMMA KeptDefragment ==
    ASSUME NEW v, IsView(v)
    PROVE  Kept(v, Defragment(v).v)
BY KeptResize, KeptSteps DEF Defragment, Outcome

\* A roll-back ends with the guard of the extend.
LEMMA RollingBack ==
    ASSUME NEW v, IsView(v), v.frozen \in BOOLEAN, NEW e, e.start \in Int, e.hold \in BOOLEAN
    PROVE  LET w == RollBack(v, e)
           IN  ~w.bad => IsView(w) /\ w.frozen = IF e.hold THEN FALSE ELSE v.frozen
<1> DEFINE n == v.occ - e.start
           hold == Reserve(v, v.occ)
           it == IF e.side = "head" THEN Begin(hold.v)
                 ELSE IF v.double THEN RBegin(hold.v)
                 ELSE AdvanceBy(hold.v, Begin(hold.v), e.start)
           w == IF n < 0 THEN Broken(v)
                ELSE IF n = 0 THEN v
                ELSE Release(DropAll(hold.v, it, n), hold.guard)
<1>1. n \in Int
  BY DEF IsView
<1>2. n \in Nat => Kept(v, Release(DropAll(hold.v, it, n), hold.guard))
  <2>1. IsView(hold.v)
    BY Reserving DEF IsView
  <2>2. n \in Nat => Kept(hold.v, DropAll(hold.v, it, n))
    <3> HIDE DEF hold, it, n
    <3> QED
      BY <2>1, KeptDropAll
  <2> HIDE DEF it, n
  <2> QED
    BY <2>2, KeptGuarded DEF IsView
<1>3. Kept(v, w)
  <2> HIDE DEF n, hold, it
  <2> QED
    BY <1>1, <1>2, KeptSteps
<1>4. RollBack(v, e) = IF w.bad THEN w ELSE Release(w, e.hold)
  BY DEF RollBack
<1> HIDE DEF w
<1>5. IsView(Release(w, e.hold)) /\ Release(w, e.hold).frozen = IF e.hold THEN FALSE ELSE w.frozen
  BY <1>3, Releasing DEF Kept
<1> QED
  BY <1>3, <1>4, <1>5 DEF Kept

(***************************************************************************)
(* Slices: how many elements, and the operations.                          *)
(***************************************************************************)
LEMMA Quotient ==
    ASSUME NEW a \in Nat, NEW b \in Nat \ {0}
    PROVE  a \div b \in Nat
OBVIOUS

\* A slice has a length.
LEMMA SliceLength ==
    ASSUME NEW v, IsView(v), NEW ix,
           NEW start \in Bounds, NEW stop \in Bounds, NEW step \in Steps,
           ix = SliceIndices(v, start, stop, step)
    PROVE  ix.length \in Nat
<1> DEFINE size == v.occ
           abs == IF step < 0 THEN -step ELSE step
           from == IF start = NoBound THEN (IF step < 0 THEN size - 1 ELSE 0)
                   ELSE Clip(start, size, step, size)
           to == IF stop = NoBound THEN (IF step < 0 THEN -1 ELSE size)
                 ELSE Clip(stop, size, step, size + 1)
           span == IF step < 0 THEN from - to ELSE to - from
<1>1. step \in Int \ {0} /\ size \in Int
  BY SliceAssumption DEF IsView
<1>2. abs \in Nat \ {0}
  BY <1>1
<1>3. from \in Int /\ to \in Int
  BY <1>1, SliceAssumption DEF Clip
<1>4. ix.length = IF span > 0 THEN (span + abs - 1) \div abs ELSE 0
  BY DEF SliceIndices
<1>5. span > 0 => span + abs - 1 \in Nat
  BY <1>1, <1>2, <1>3
<1> HIDE DEF span, abs
<1> QED
  BY <1>2, <1>4, <1>5, Quotient

\* Deleting a slice.
LEMMA KeptDeleteSlice ==
    ASSUME NEW v, IsView(v), v.frozen \in BOOLEAN, NEW ix, ix.length \in Nat
    PROVE  Kept(v, DeleteSlice(v, ix).v)
<1> DEFINE r == Reserve(v, v.occ)
           w == DropEvery(r.v, ix, Origin(r.v, ix), ix.length)
<1>1. IsView(r.v)
  BY Reserving
<1>2. Kept(r.v, w)
  <2> HIDE DEF r
  <2> QED
    BY <1>1, KeptDropEvery
<1>3. Kept(v, Release(w, r.guard))
  <2> HIDE DEF w
  <2> QED
    BY <1>2, KeptGuarded
<1> QED
  BY <1>3, KeptSteps DEF DeleteSlice, Outcome

\* Replacing a slice, or putting it back.
LEMMA KeptSetSlice ==
    ASSUME NEW v, IsView(v), v.frozen \in BOOLEAN, NEW ix, ix.length \in Nat,
           NEW S, NEW items \in Seq(S)
    PROVE  Kept(v, SetSlice(v, ix, items).v)
<1> DEFINE more == v.occ - ix.length + Len(items)
           r == Reserve(v, IF more < v.occ THEN v.occ ELSE more)
           origin == Origin(r.v, ix)
           without == DropEvery(r.v, ix, origin, ix.length)
           new == InsertEvery(without, ix, origin, InOrder(ix, items))
           undone == DropEvery(new.v, ix, origin, new.done)
           old == Visited(r.v, ix)
           restored == InsertEvery(undone, ix, origin, old)
<1>1. IsView(r.v) /\ \A w : Kept(r.v, w) => Kept(v, Release(w, r.guard))
  BY Reserving, KeptGuarded
<1> HIDE DEF r
<1>2. Kept(r.v, without)
  BY <1>1, KeptDropEvery
<1> HIDE DEF without, origin
<1>3. Len(InOrder(ix, items)) \in Nat
  <2> DEFINE f == [k \in DOMAIN items |-> items[Len(items) + 1 - k]]
  <2>1. Len(items) \in Nat /\ DOMAIN items = 1..Len(items)
    OBVIOUS
  <2>2. Len(f) = Len(items)
    BY <2>1, LenOfFunction
  <2> QED
    BY <2>1, <2>2 DEF InOrder
<1>4. Kept(r.v, new.v) /\ new.done \in Nat
  <2> DEFINE values == InOrder(ix, items)
  <2> HIDE DEF values
  <2> QED
    BY <1>2, <1>3, KeptInsertEvery, KeptOnward DEF Kept, values
<1> HIDE DEF new
<1>5. Kept(r.v, undone)
  BY <1>4, KeptDropEvery, KeptOnward DEF Kept
<1> HIDE DEF undone
<1>6. Len(old) \in Nat
  <2> DEFINE it == SliceIter(r.v, ix, Origin(r.v, ix))
  <2>1. old = [k \in 1..ix.length |-> r.v.val[AdvanceBy(r.v, it, (k - 1) * ix.step).curr]]
    BY DEF Visited
  <2> QED
    BY <2>1, LenOfFunction
<1> HIDE DEF old
<1>7. Kept(r.v, restored.v)
  BY <1>5, <1>6, KeptInsertEvery, KeptOnward DEF Kept
<1> HIDE DEF restored
<1>8. SetSlice(v, ix, items) =
        IF ix.length # Len(items) /\ ix.by # 1 THEN Outcome(v, "ValueError")
        ELSE IF ix.length = 0 /\ items = <<>> THEN Outcome(v, None)
        ELSE IF r.ret # None THEN Outcome(v, r.ret)
        ELSE IF r.v.bad \/ Dangling(r.v) THEN Outcome(Broken(v), None)
        ELSE IF new.ret = None THEN Outcome(Release(new.v, r.guard), None)
        ELSE Outcome(Release(restored.v, r.guard), new.ret)
  BY DEF SetSlice, r, origin, without, new, undone, old, restored
<1>9. Kept(v, Release(new.v, r.guard)) /\ Kept(v, Release(restored.v, r.guard))
  BY <1>1, <1>4, <1>7
<1> QED
  BY <1>8, <1>9, KeptSteps DEF Outcome

(***************************************************************************)
(* The invariant: an active guard is held by the caller or by an extend,   *)
(* never by both, and then the array is frozen.                            *)
(***************************************************************************)
ExtOK(e) ==
    /\ {"side", "start", "hold"} \subseteq DOMAIN e
    /\ e.start \in Int /\ e.hold \in BOOLEAN
    /\ e.side = "none" => ~e.hold

Guarded(v, g, e) ==
    ~v.bad => /\ v.frozen <=> g = "active" \/ e.hold
              /\ ~(g = "active" /\ e.hold)

GuardInv ==
    /\ IsView(view) /\ view.frozen \in BOOLEAN
    /\ guard \in {"none", "empty", "active"}
    /\ ExtOK(ext)
    /\ Guarded(view, guard, ext)

\* What every step does to the view: it takes the view to w, or to a bad one.
LEMMA LeavesView ==
    ASSUME GuardInv, NEW w, NEW returned, Leaves(w, returned),
           ~w.bad => IsView(w) /\ w.frozen \in BOOLEAN
    PROVE  /\ IsView(view') /\ view'.frozen \in BOOLEAN
           /\ view'.bad \/ (~w.bad /\ view' = w)
<1>1. CASE w.bad
  <2>1. view' = Broken(view)
    BY <1>1 DEF Leaves
  <2>2. Kept(view, Broken(view)) /\ Broken(view).bad
    BY KeptSteps DEF GuardInv
  <2> QED
    BY <2>1, <2>2 DEF Kept, GuardInv
<1>2. CASE ~w.bad
  BY <1>2 DEF Leaves
<1> QED
  BY <1>1, <1>2

\* Another operation leaves the guard of an extend alone.
LEMMA InterleavesExt ==
    ASSUME GuardInv, Interleaves
    PROVE  ExtOK(ext') /\ ext'.hold = ext.hold
BY DEF GuardInv, Interleaves, ExtOK, Extending

\* A whole operation of the caller.
LEMMA CallKeepsGuard ==
    ASSUME GuardInv, ~view.bad, NEW name, NEW outcome, Kept(view, outcome.v), Call(name, outcome)
    PROVE  GuardInv'
<1> DEFINE w == outcome.v
<1>1. Leaves(w, outcome.ret) /\ Interleaves /\ guard' = guard
  BY DEF Call
<1>2. IsView(w) /\ w.frozen = view.frozen /\ view.frozen \in BOOLEAN
  BY DEF Kept, GuardInv
<1>3. /\ IsView(view') /\ view'.frozen \in BOOLEAN
      /\ view'.bad \/ view' = w
  BY <1>1, <1>2, LeavesView
<1>4. ExtOK(ext') /\ ext'.hold = ext.hold
  BY <1>1, InterleavesExt
<1>5. Guarded(view', guard', ext')
  BY <1>1, <1>2, <1>3, <1>4 DEF Guarded, GuardInv
<1> QED
  BY <1>1, <1>3, <1>4, <1>5 DEF GuardInv

\* list.reserve(n) as a context manager is entered.
LEMMA EnterKeepsGuard ==
    ASSUME GuardInv, ~view.bad, NEW n, Enter(n)
    PROVE  GuardInv'
<1> DEFINE r == Reserve(view, n)
<1>1. /\ IsView(r.v) /\ r.guard \in BOOLEAN
      /\ r.guard => ~view.frozen /\ r.v.frozen = TRUE /\ r.ret = None
      /\ ~r.guard => r.v = view
  BY Reserving DEF GuardInv
<1>2. /\ guard = "none" /\ Leaves(r.v, r.ret) /\ Interleaves
      /\ guard' = IF r.ret # None \/ r.v.bad THEN "none"
                  ELSE IF r.guard THEN "active" ELSE "empty"
  BY DEF Enter
<1> HIDE DEF r
<1>3. /\ IsView(view') /\ view'.frozen \in BOOLEAN
      /\ view'.bad \/ (~r.v.bad /\ view' = r.v)
  <2>1. r.v.frozen \in BOOLEAN
    BY <1>1 DEF GuardInv
  <2> QED
    BY <1>1, <1>2, <2>1, LeavesView
<1>4. ExtOK(ext') /\ ext'.hold = ext.hold
  BY <1>2, InterleavesExt
<1>5. Guarded(view', guard', ext')
  BY <1>1, <1>2, <1>3, <1>4 DEF Guarded, GuardInv
<1> QED
  BY <1>2, <1>3, <1>4, <1>5 DEF GuardInv

\* It is left, also before an extend that began inside of it ends.
LEMMA ExitKeepsGuard ==
    ASSUME GuardInv, ~view.bad, Exit
    PROVE  GuardInv'
<1> DEFINE w == Release(view, guard = "active")
<1>1. /\ IsView(w)
      /\ w.frozen = IF guard = "active" THEN FALSE ELSE view.frozen
  BY Releasing DEF GuardInv
<1>2. guard' = "none" /\ Leaves(w, None) /\ Interleaves
  BY DEF Exit
<1> HIDE DEF w
<1>3. /\ IsView(view') /\ view'.frozen \in BOOLEAN
      /\ view'.bad \/ view' = w
  BY <1>1, <1>2, LeavesView DEF GuardInv
<1>4. ExtOK(ext') /\ ext'.hold = ext.hold
  BY <1>2, InterleavesExt
<1>5. Guarded(view', guard', ext')
  BY <1>1, <1>2, <1>3, <1>4 DEF Guarded, GuardInv
<1> QED
  BY <1>2, <1>3, <1>4, <1>5 DEF GuardInv

\* The state that an extend leaves when it ends.
LEMMA EndKeepsGuard ==
    ASSUME GuardInv, ~view.bad, Extending, NEW w, NEW returned, Leaves(w, returned),
           ext' = Idle, guard' = guard,
           ~w.bad => IsView(w) /\ w.frozen = IF ext.hold THEN FALSE ELSE view.frozen
    PROVE  GuardInv'
<1>1. /\ IsView(view') /\ view'.frozen \in BOOLEAN
      /\ view'.bad \/ (~w.bad /\ view' = w)
  BY LeavesView DEF GuardInv
<1>2. ExtOK(ext') /\ ext'.hold = FALSE
  BY DEF ExtOK, Idle
<1>3. Guarded(view', guard', ext')
  BY <1>1, <1>2 DEF Guarded, GuardInv
<1> QED
  BY <1>1, <1>2, <1>3 DEF GuardInv

\* The steps of an extend.
LEMMA ExtendKeepsGuard ==
    ASSUME GuardInv, ~view.bad, Extend
    PROVE  GuardInv'
<1>v. IsView(view) /\ view.frozen \in BOOLEAN /\ ExtOK(ext)
  BY DEF GuardInv
<1>1. ASSUME NEW side \in {"tail", "head"}, NEW r, ExtendBegin(side, r),
             IsView(r.v), r.guard \in BOOLEAN,
             r.guard => ~view.frozen /\ r.v.frozen = TRUE /\ r.ret = None,
             ~r.guard => r.v = view
      PROVE  GuardInv'
  <2>1. /\ ext.side = "none" /\ Leaves(r.v, r.ret) /\ guard' = guard
        /\ ext' = IF r.ret # None \/ r.v.bad THEN Idle
                  ELSE [side |-> side, start |-> view.occ, hold |-> r.guard,
                        old |-> Elements(view), alone |-> TRUE]
    BY <1>1 DEF ExtendBegin, Extending
  <2>2. /\ IsView(view') /\ view'.frozen \in BOOLEAN
        /\ view'.bad \/ (~r.v.bad /\ view' = r.v)
    <3>1. r.v.frozen \in BOOLEAN
      BY <1>v, <1>1
    <3> QED
      BY <1>1, <2>1, <3>1, LeavesView
  <2>3. ext.hold = FALSE
    BY <1>v, <2>1 DEF ExtOK
  <2>4. ExtOK(ext')
    <3>1. ExtOK(Idle)
      BY DEF ExtOK, Idle
    <3>2. ExtOK([side |-> side, start |-> view.occ, hold |-> r.guard,
                 old |-> Elements(view), alone |-> TRUE])
      BY <1>v, <1>1 DEF ExtOK, IsView
    <3> QED
      BY <2>1, <3>1, <3>2
  <2>5. ~r.v.bad => ext'.hold = r.guard
    BY <1>1, <2>1 DEF Idle
  <2>6. Guarded(view', guard', ext')
    BY <1>1, <2>1, <2>2, <2>3, <2>5 DEF Guarded, GuardInv
  <2> QED
    BY <2>1, <2>2, <2>4, <2>6 DEF GuardInv
<1>2. ASSUME NEW side \in {"tail", "head"}, ExtendUnsized(side) PROVE GuardInv'
  <2> DEFINE r == [v |-> view, ret |-> None, guard |-> FALSE]
  <2>1. ExtendBegin(side, r) /\ IsView(r.v) /\ r.guard = FALSE /\ r.v = view
    BY <1>v, <1>2 DEF ExtendUnsized
  <2> HIDE DEF r
  <2> QED
    BY <1>1, <2>1
<1>3. ASSUME NEW side \in {"tail", "head"}, NEW n, ExtendSized(side, n) PROVE GuardInv'
  <2> DEFINE r == Reserve(view, view.occ + n)
  <2>1. /\ IsView(r.v) /\ r.guard \in BOOLEAN
        /\ r.guard => ~view.frozen /\ r.v.frozen = TRUE /\ r.ret = None
        /\ ~r.guard => r.v = view
    BY <1>v, Reserving
  <2>2. ExtendBegin(side, r)
    BY <1>3 DEF ExtendSized
  <2> HIDE DEF r
  <2> QED
    BY <1>1, <2>1, <2>2
<1>4. ASSUME NEW v, Kept(view, v)
      PROVE  LET w == RollBack(v, ext)
             IN  ~w.bad => IsView(w) /\ w.frozen = IF ext.hold THEN FALSE ELSE view.frozen
  BY <1>v, <1>4, RollingBack DEF Kept, ExtOK
<1>5. ASSUME NEW x, ExtendItem(x) PROVE GuardInv'
  <2> DEFINE r == IF ext.side = "tail" THEN AppendTo(view, x) ELSE PrependTo(view, x)
  <2>1. Kept(view, r.v)
    BY <1>v, KeptAppend
  <2>2. /\ Extending /\ guard' = guard
        /\ IF r.ret = None THEN Leaves(r.v, None) /\ ext' = ext
           ELSE Leaves(RollBack(r.v, ext), r.ret) /\ ext' = Idle
    BY <1>5 DEF ExtendItem
  <2> HIDE DEF r
  <2>3. CASE r.ret = None
    <3>1. /\ IsView(view') /\ view'.frozen \in BOOLEAN
          /\ view'.bad \/ view' = r.v
      BY <1>v, <2>1, <2>2, <2>3, LeavesView DEF Kept
    <3>2. Guarded(view', guard', ext')
      BY <2>1, <2>2, <2>3, <3>1 DEF Guarded, GuardInv, Kept
    <3> QED
      BY <1>v, <2>2, <2>3, <3>1, <3>2 DEF GuardInv
  <2>4. CASE r.ret # None
    BY <1>4, <2>1, <2>2, <2>4, EndKeepsGuard
  <2> QED
    BY <2>3, <2>4
<1>6. ASSUME ExtendFails PROVE GuardInv'
  <2>1. Kept(view, view)
    BY <1>v, KeptSteps
  <2>2. /\ Extending /\ Leaves(RollBack(view, ext), "GeneratorError")
        /\ ext' = Idle /\ guard' = guard
    BY <1>6 DEF ExtendFails
  <2> QED
    BY <1>4, <2>1, <2>2, EndKeepsGuard
<1>7. ASSUME ExtendDone PROVE GuardInv'
  <2>1. /\ Extending /\ Leaves(Release(view, ext.hold), None)
        /\ ext' = Idle /\ guard' = guard
    BY <1>7 DEF ExtendDone
  <2>2. /\ IsView(Release(view, ext.hold))
        /\ Release(view, ext.hold).frozen = IF ext.hold THEN FALSE ELSE view.frozen
    BY <1>v, Releasing DEF ExtOK
  <2> QED
    BY <2>1, <2>2, EndKeepsGuard
<1> QED
  BY <1>2, <1>3, <1>5, <1>6, <1>7 DEF Extend

\* Every step.
LEMMA NextKeepsGuard ==
    ASSUME GuardInv, Next
    PROVE  GuardInv'
<1>v. IsView(view) /\ view.frozen \in BOOLEAN /\ ~view.bad
  BY DEF GuardInv, Next
<1>1. ASSUME NEW x \in Args, AppendItem(x) \/ AppendLeft(x) PROVE GuardInv'
  BY <1>v, <1>1, CallKeepsGuard, KeptAppend DEF AppendItem, AppendLeft
<1>2. ASSUME NEW x \in Items, Remove(x) \/ Contains(x) PROVE GuardInv'
  BY <1>v, <1>2, CallKeepsGuard, KeptTaking DEF Remove, Contains
<1>3. ASSUME NEW i \in Indices, NEW x \in Args, Insert(i, x) \/ SetItem(i, x) PROVE GuardInv'
  BY <1>v, <1>3, CallKeepsGuard, KeptInsert, KeptSet DEF Insert, SetItem
<1>4. ASSUME NEW i \in Indices, Pop(i) \/ GetItem(i) \/ DelItem(i) PROVE GuardInv'
  BY <1>v, <1>4, CallKeepsGuard, KeptTaking DEF Pop, GetItem, DelItem
<1>5. ASSUME NEW i \in Indices, Rotate(i) PROVE GuardInv'
  <2> DEFINE o == Outcome(IF view.occ = 0 THEN Broken(view) ELSE Rotated(view, i), None)
  <2>1. Kept(view, o.v)
    BY <1>v, KeptReversed, KeptSteps DEF Outcome
  <2>2. Call(<<"rotate", i>>, o)
    BY <1>5 DEF Rotate
  <2> HIDE DEF o
  <2> QED
    BY <1>v, <2>1, <2>2, CallKeepsGuard
<1>6. ASSUME NEW n \in Indices, RepeatInplace(n) PROVE GuardInv'
  <2>1. n \in Int
    BY ListAssumption
  <2> QED
    BY <1>v, <1>6, <2>1, CallKeepsGuard, KeptRepeated DEF RepeatInplace
<1>7. ASSUME NEW ix, GetItems(ix) PROVE GuardInv'
  <2> DEFINE o == Outcome(view, GetSlice(view, ix))
  <2>1. Kept(view, o.v)
    BY <1>v, KeptSteps DEF Outcome
  <2>2. Call(SliceOp("get_slice", ix), o)
    BY <1>7 DEF GetItems
  <2> HIDE DEF o
  <2> QED
    BY <1>v, <2>1, <2>2, CallKeepsGuard
<1>8. ASSUME NEW ix \in Slices PROVE ix.length \in Nat
  <2>1. PICK start \in Bounds, stop \in Bounds, step \in Steps :
          ix = SliceIndices(view, start, stop, step)
    BY <1>8 DEF Slices
  <2> QED
    BY <1>v, <2>1, SliceLength
<1>9. ASSUME NEW ix \in Slices, DelItems(ix) PROVE GuardInv'
  <2>1. Kept(view, DeleteSlice(view, ix).v)
    BY <1>v, <1>8, KeptDeleteSlice
  <2> QED
    BY <1>v, <1>9, <2>1, CallKeepsGuard DEF DelItems
<1>10. ASSUME NEW ix \in Slices, NEW s \in Replacements, SetItems(ix, s) PROVE GuardInv'
  <2>1. s \in Seq(Args)
    BY SliceAssumption
  <2>2. Kept(view, SetSlice(view, ix, s).v)
    BY <1>v, <1>8, <2>1, KeptSetSlice
  <2> QED
    BY <1>v, <1>10, <2>2, CallKeepsGuard DEF SetItems
<1>11. ASSUME NEW x, NEW ix, Index(x, ix) \/ Count(x, ix) PROVE GuardInv'
  <2>1. ASSUME NEW name, NEW returned, Call(name, Outcome(view, returned)) PROVE GuardInv'
    <3> DEFINE o == Outcome(view, returned)
    <3>1. Kept(view, o.v)
      BY <1>v, KeptSteps DEF Outcome
    <3> HIDE DEF o
    <3> QED
      BY <1>v, <2>1, <3>1, CallKeepsGuard DEF o
  <2> QED
    BY <1>11, <2>1 DEF Index, Count
<1>12. ASSUME Reverse PROVE GuardInv'
  <2> DEFINE o == Outcome(IF Dangling(view) THEN Broken(view) ELSE Reversed(view), None)
  <2>1. Kept(view, o.v)
    BY <1>v, KeptReversed, KeptSteps DEF Outcome
  <2>2. Call(<<"reverse">>, o)
    BY <1>12 DEF Reverse
  <2> HIDE DEF o
  <2> QED
    BY <1>v, <2>1, <2>2, CallKeepsGuard
<1>13. ASSUME ClearAll PROVE GuardInv'
  <2> DEFINE o == Outcome(Clear(view), None)
  <2>1. Kept(view, o.v)
    BY <1>v, KeptClear DEF Outcome
  <2>2. Call(<<"clear">>, o)
    BY <1>13 DEF ClearAll
  <2> HIDE DEF o
  <2> QED
    BY <1>v, <2>1, <2>2, CallKeepsGuard
<1>14. ASSUME DefragmentAll PROVE GuardInv'
  BY <1>v, <1>14, CallKeepsGuard, KeptDefragment DEF DefragmentAll
<1> QED
  BY <1>v, <1>1, <1>2, <1>3, <1>4, <1>5, <1>6, <1>7, <1>9, <1>10, <1>11, <1>12, <1>13, <1>14,
     EnterKeepsGuard, ExitKeepsGuard, ExtendKeepsGuard DEF Next

\* view.h:645: however the caller, a generator and the guards of the caller and
\* of an extend interleave, and whatever the list holds, the array is frozen if
\* and only if one of them has an active MemGuard.
THEOREM GuardsFreeze == Spec => []FrozenIffGuarded
<1>1. Init => GuardInv
  <2> SUFFICES ASSUME Init PROVE GuardInv
    OBVIOUS
  <2>1. PICK double \in BOOLEAN, fixed \in BOOLEAN :
          view = EmptyView(double, fixed, MinCapacity)
    BY DEF Init
  <2>2. IsView(view) /\ view.frozen = FALSE
    BY <2>1 DEF EmptyView, IsView
  <2>3. guard = "none" /\ ExtOK(ext) /\ ext.hold = FALSE
    BY DEF Init, Idle, ExtOK
  <2> QED
    BY <2>2, <2>3 DEF GuardInv, Guarded
<1>2. GuardInv /\ [Next]_vars => GuardInv'
  <2>1. GuardInv /\ Next => GuardInv'
    BY NextKeepsGuard
  <2>2. GuardInv /\ UNCHANGED vars => GuardInv'
    BY DEF vars, GuardInv, ExtOK, IsView, Guarded
  <2> QED
    BY <2>1, <2>2
<1>3. GuardInv => FrozenIffGuarded
  BY DEF GuardInv, Guarded, FrozenIffGuarded
<1> QED
  BY <1>1, <1>2, <1>3, PTL DEF Spec

(***************************************************************************)
(* The operations that take one node.                                      *)
(***************************************************************************)
\* What an operation leaves of a list, unless its behaviour was undefined:
\* a list that fits, and while the array is frozen the nodes where they were.
Keeps(v, w) ==
    ~w.bad =>
        /\ \E d, k : Shaped(w, d, k) /\ k <= MaxLen
        /\ v.frozen /\ w.frozen => Stays(v, w)

\* The node under an iterator is taken out of the list and recycled.
LEMMA TakeStands ==
    ASSUME NEW v, NEW c, NEW n, Shaped(v, c, n), NEW it, NEW back, NEW q \in Int,
           1 <= q, q <= n, ~v.bad, Stands(it, back, c, n, q), back => v.double
    PROVE  LET u == UnlinkAt(v, it)
               w == Recycle(u, it.curr)
               d == Less(c, n, Place(back, n, q))
           IN  /\ Pinned(v) => /\ Sound(w, d, n - 1) /\ Shrunk(v, w)
                               /\ Stands(AfterDrop(u, it), back, d, n - 1, q)
               /\ ~w.bad => \E e : Shaped(w, e, n - 1) /\ Alike(v, d, w, e, n - 1)
<1> DEFINE p == Place(back, n, q)
           d == Less(c, n, p)
           u == UnlinkAt(v, it)
           w == Recycle(u, it.curr)
<1>1. q \in 1..n
  OBVIOUS
<1>2. /\ it.curr = c[p]
      /\ Spare(u, d, n - 1, c[p]) /\ u.head = At(d, n - 1, 1)
      /\ Grown(v, u) /\ u.live = v.live /\ u.val = v.val
      /\ Stands(AfterDrop(u, it), back, d, n - 1, q)
  BY <1>1, DropStands
<1> HIDE DEF u, d, p
<1>3. ~u.bad
  BY <1>2 DEF Grown
<1>4. PICK m : m = n - 1
  OBVIOUS
<1>5. PICK x : x = it.curr
  OBVIOUS
<1>6. Spare(u, d, m, x) /\ u.head = At(d, m, 1)
  BY <1>2, <1>4, <1>5
<1>7. w = Recycle(u, x)
  BY <1>5
<1> HIDE DEF w
<1>8. /\ Pinned(u) => Sound(w, d, m) /\ Shrunk(u, w)
      /\ ~w.bad => \E e : Shaped(w, e, m) /\ Alike(u, d, w, e, m)
  BY <1>3, <1>6, <1>7, RecycleShaped
<1>9. Pinned(v) => Pinned(u)
  BY <1>2, StaysSteps
<1>10. Shrunk(v, u)
  BY <1>2 DEF Shrunk, Grown
<1>11. Shrunk(u, w) => Shrunk(v, w)
  BY <1>10, StaysSteps
<1>12. \A e : Alike(u, d, w, e, m) => Alike(v, d, w, e, m)
  BY <1>2 DEF Alike
<1>13. Pinned(v) => Sound(w, d, m) /\ Shrunk(v, w)
  BY <1>8, <1>9, <1>11
<1>14. ~w.bad => \E e : Shaped(w, e, m) /\ Alike(v, d, w, e, m)
  BY <1>8, <1>12
<1> QED
  BY <1>2, <1>4, <1>13, <1>14 DEF w, u, d, p

\* The list keeps its shape.
LEMMA TakeKeeps ==
    ASSUME NEW v, NEW c, NEW n, Shaped(v, c, n), n <= MaxLen, NEW it, NEW back, NEW q \in Int,
           1 <= q, q <= n, ~v.bad, Stands(it, back, c, n, q), back => v.double
    PROVE  Keeps(v, Recycle(UnlinkAt(v, it), it.curr))
<1> DEFINE w == Recycle(UnlinkAt(v, it), it.curr)
           d == Less(c, n, Place(back, n, q))
<1>1. /\ Pinned(v) => Shrunk(v, w)
      /\ ~w.bad => \E e : Shaped(w, e, n - 1) /\ Alike(v, d, w, e, n - 1)
  BY TakeStands
<1> HIDE DEF w, d
<1>2. n \in Nat /\ MaxLen \in Nat
  BY ListAssumption DEF Shaped, Nodes, Distinct
<1>3. ~w.bad => \E e, k : Shaped(w, e, k) /\ k <= MaxLen
  <2>1. PICK m \in Int : m = n - 1
    BY <1>2
  <2>2. m <= MaxLen
    BY <1>2, <2>1
  <2> QED
    BY <1>1, <2>1, <2>2
<1>4. v.frozen => Stays(v, w)
  BY <1>1, StaysSteps DEF Pinned
<1> QED
  BY <1>3, <1>4 DEF Keeps, w

\* An operation that reads only, or that has undefined behaviour.
LEMMA KeepsItself ==
    ASSUME NEW v, NEW c, NEW n, Shaped(v, c, n), n <= MaxLen
    PROVE  Keeps(v, v) /\ Keeps(v, Broken(v))
<1>1. Typed(v)
  BY DEF Shaped, Nodes
<1>2. Broken(v).bad
  BY <1>1 DEF Broken, Typed
<1> QED
  BY <1>2 DEF Keeps, Stays

\* The iterator of insert, pop and position in a list with nodes.
LEMMA IteratorThere ==
    ASSUME NEW v, NEW c, NEW n, Shaped(v, c, n), NEW last \in Int, NEW index \in Int,
           last <= n, n <= last + 1, 0 <= index, index <= last,
           ~Dangling(v) \/ IteratorAt(v, index, last).back
    PROVE  \E back, q :
             /\ q \in Int /\ 1 <= q /\ q <= last + 1
             /\ back => v.double
             /\ Stands(IteratorAt(v, index, last), back, c, n, q)
<1>1. Nodes(v, c, n) /\ n \in Nat
  BY DEF Shaped, Nodes, Distinct
<1>2. last \in {n - 1, n} /\ index \in 0..last
  BY <1>1
<1>3. v.head = At(c, n, 1) \/ IteratorAt(v, index, last).back
  BY AttachedSound DEF Sound
<1>4. PICK back :
        /\ back => v.double
        /\ Stands(IteratorAt(v, index, last), back, c, n,
                  IF back THEN last - index + 1 ELSE index + 1)
  BY <1>1, <1>2, <1>3, IteratorStands
<1> QED
  BY <1>4

\* Indices are normalised into the list.
LEMMA IndexThere ==
    ASSUME NEW v, NEW i \in Int, v.occ \in Nat
    PROVE  /\ InsertIndex(v, i) \in Int /\ 0 <= InsertIndex(v, i) /\ InsertIndex(v, i) <= v.occ
           /\ ~OutOfRange(v, i) => /\ NormalIndex(v, i) \in Int /\ 0 <= NormalIndex(v, i)
                                   /\ NormalIndex(v, i) <= v.occ - 1
           /\ v.occ # 0 => /\ TruncatedIndex(v, i) \in Int /\ 0 <= TruncatedIndex(v, i)
                           /\ TruncatedIndex(v, i) <= v.occ - 1
BY DEF InsertIndex, OutOfRange, NormalIndex, TruncatedIndex

\* The node at an index is taken out.
LEMMA TakeAtKeeps ==
    ASSUME NEW v, NEW c, NEW n, Shaped(v, c, n), n <= MaxLen, ~v.bad, NEW index \in Int,
           0 <= index, index <= v.occ - 1
    PROVE  LET it == IteratorAt(v, index, v.occ - 1)
           IN  Keeps(v, Recycle(UnlinkAt(v, it), it.curr))
<1>1. n \in Nat /\ v.occ = n
  BY DEF Shaped, Nodes, Distinct
<1>2. PICK last \in Int : last = v.occ - 1
  BY <1>1
<1>3. last <= n /\ n <= last + 1 /\ index <= last /\ n > 0
  BY <1>1, <1>2
<1>4. ~Dangling(v)
  BY <1>3, AttachedSound
<1>5. PICK back, q :
        /\ q \in Int /\ 1 <= q /\ q <= last + 1
        /\ back => v.double
        /\ Stands(IteratorAt(v, index, last), back, c, n, q)
  BY <1>3, <1>4, IteratorThere
<1>6. q <= n
  BY <1>1, <1>2, <1>5
<1> DEFINE it == IteratorAt(v, index, last)
<1> HIDE DEF it
<1>7. Keeps(v, Recycle(UnlinkAt(v, it), it.curr))
  BY <1>5, <1>6, TakeKeeps DEF it
<1> QED
  BY <1>2, <1>7 DEF it

\* algorithms/pop.h and the deletion of an index.
LEMMA PopKeeps ==
    ASSUME NEW v, NEW c, NEW n, Shaped(v, c, n), n <= MaxLen, ~v.bad, NEW i \in Int
    PROVE  Keeps(v, PopFrom(v, i).v) /\ Keeps(v, DeleteFrom(v, i).v)
<1>1. v.occ \in Nat
  BY DEF Shaped, Nodes, Distinct
<1>2. Keeps(v, v)
  BY KeepsItself
<1>3. Keeps(v, PopFrom(v, i).v)
  <2>1. CASE v.occ = 0
    BY <1>2, <2>1 DEF PopFrom, Outcome
  <2>2. CASE v.occ # 0
    <3> DEFINE index == TruncatedIndex(v, i)
               it == IteratorAt(v, index, v.occ - 1)
               w == Recycle(UnlinkAt(v, it), it.curr)
    <3>1. index \in Int /\ 0 <= index /\ index <= v.occ - 1
      BY <1>1, <2>2, IndexThere
    <3>2. PopFrom(v, i).v = w
      BY <2>2 DEF PopFrom, Outcome
    <3> HIDE DEF index
    <3>3. Keeps(v, w)
      BY <3>1, TakeAtKeeps
    <3> QED
      BY <3>2, <3>3
  <2> QED
    BY <2>1, <2>2
<1>4. Keeps(v, DeleteFrom(v, i).v)
  <2>1. CASE OutOfRange(v, i)
    BY <1>2, <2>1 DEF DeleteFrom, Outcome
  <2>2. CASE ~OutOfRange(v, i)
    <3> DEFINE index == NormalIndex(v, i)
               it == IteratorAt(v, index, v.occ - 1)
               w == Recycle(UnlinkAt(v, it), it.curr)
    <3>1. index \in Int /\ 0 <= index /\ index <= v.occ - 1
      BY <1>1, <2>2, IndexThere
    <3>2. DeleteFrom(v, i).v = w
      BY <2>2 DEF DeleteFrom, Outcome
    <3> HIDE DEF index
    <3>3. Keeps(v, w)
      BY <3>1, TakeAtKeeps
    <3> QED
      BY <3>2, <3>3
  <2> QED
    BY <2>1, <2>2
<1> QED
  BY <1>3, <1>4

\* The first node that holds an item is in the list.
LEMMA FirstThere ==
    ASSUME NEW v, NEW c, NEW n, Shaped(v, c, n), n <= MaxLen, ~Dangling(v), NEW x,
           FirstOf(v, x) # 0
    PROVE  FirstOf(v, x) \in 1..n
<1>1. Nodes(v, c, n) /\ n \in Nat /\ n <= Slots
  BY ListAssumption, AllocatorAssumption DEF Shaped, Nodes, Distinct
<1>2. v.head = At(c, n, 1)
  BY AttachedSound DEF Sound
<1>3. n > 0 \/ v.head = Null
  BY <1>1, <1>2 DEF At
<1>4. Chain(v) = c
  BY <1>1, <1>3, ChainIs
<1>5. DOMAIN Elements(v) = 1..n
  BY <1>1, <1>4 DEF Elements, ValuesOf, Nodes, Distinct
<1> DEFINE elements == Elements(v)
           at == {k \in DOMAIN elements : elements[k] = x}
           First(k) == k \in at /\ \A j \in at : k <= j
<1>6. at \subseteq 1..n
  BY <1>5
<1>7. at # {} /\ FirstOf(v, x) = CHOOSE k \in at : \A j \in at : k <= j
  BY DEF FirstOf
<1> HIDE DEF at
<1>8. \E k : First(k)
  <2> SUFFICES ASSUME ~\E k : First(k) PROVE FALSE
    OBVIOUS
  <2> DEFINE S == {k \in 0..n : \A j \in at : k < j}
  <2>1. 0 \in S
    BY <1>1, <1>6
  <2>2. ASSUME NEW k \in 0..n, k < n, k \in S PROVE k + 1 \in S
    <3>1. k + 1 \notin at
      <4>1. SUFFICES ASSUME k + 1 \in at PROVE FALSE
        OBVIOUS
      <4>2. \A j \in at : k + 1 <= j
        BY <1>1, <1>6, <2>2
      <4> QED
        BY <4>1, <4>2
    <3> QED
      BY <1>1, <1>6, <2>2, <3>1
  <2> HIDE DEF S
  <2>3. \A k \in 0..n : k \in S
    BY <1>1, <2>1, <2>2, Climb
  <2>4. n \in S
    BY <1>1, <2>3
  <2> QED
    BY <1>1, <1>6, <1>7, <2>4 DEF S
<1>9. FirstOf(v, x) \in at
  BY <1>7, <1>8
<1> QED
  BY <1>6, <1>9

\* algorithms/remove.h and contains.h.
LEMMA RemoveKeeps ==
    ASSUME NEW v, NEW c, NEW n, Shaped(v, c, n), n <= MaxLen, ~v.bad, NEW x
    PROVE  Keeps(v, RemoveFrom(v, x).v) /\ Keeps(v, LookFor(v, x).v)
<1>1. Keeps(v, v) /\ Keeps(v, Broken(v))
  BY KeepsItself
<1>2. Keeps(v, LookFor(v, x).v)
  BY <1>1 DEF LookFor, Outcome
<1>3. CASE Dangling(v) \/ FirstOf(v, x) = 0
  BY <1>1, <1>2, <1>3 DEF RemoveFrom, Outcome
<1>4. CASE ~Dangling(v) /\ FirstOf(v, x) # 0
  <2> DEFINE it == AdvanceBy(v, Begin(v), FirstOf(v, x) - 1)
             w == Recycle(UnlinkAt(v, it), it.curr)
  <2>1. RemoveFrom(v, x).v = w
    BY <1>4 DEF RemoveFrom, Outcome
  <2>2. FirstOf(v, x) \in 1..n /\ n \in Nat
    BY <1>4, FirstThere DEF Shaped, Nodes, Distinct
  <2>3. PICK t \in Nat : t = FirstOf(v, x) - 1
    BY <2>2
  <2>4. v.head = At(c, n, 1) /\ Nodes(v, c, n)
    BY <1>4, AttachedSound DEF Sound, Shaped
  <2>5. Stands(AdvanceBy(v, Begin(v), t), FALSE, c, n, t + 1)
    BY <2>4, BeginByStands
  <2>6. PICK q, back : q \in Int /\ q = t + 1 /\ back = FALSE
    OBVIOUS
  <2>7. q \in Int /\ 1 <= q /\ q <= n
    BY <2>2, <2>3, <2>6
  <2>9. back => v.double
    BY <2>6
  <2>10. Stands(it, back, c, n, q)
    BY <2>3, <2>5, <2>6
  <2> HIDE DEF it
  <2>8. Keeps(v, w)
    BY <2>7, <2>9, <2>10, TakeKeeps
  <2> QED
    BY <1>2, <2>1, <2>8
<1> QED
  BY <1>3, <1>4

(***************************************************************************)
(* The operations that make one node.                                      *)
(***************************************************************************)
\* Linking the node that create() made, at either end of the list.
LEMMA EndShaped ==
    ASSUME NEW v, NEW c, NEW n, NEW x, Spare(v, c, n, x)
    PROVE  /\ LET w == Link(v, v.tail, x, Null)
              IN  Sound(w, With(c, n, n + 1, x), n + 1) /\ Grown(v, w)
           /\ v.head = At(c, n, 1) =>
              LET w == Link(v, Null, x, v.head)
              IN  Sound(w, With(c, n, 1, x), n + 1) /\ Grown(v, w)
<1>1. n \in Nat /\ v.tail = At(c, n, n)
  BY DEF Spare, Apart, Distinct, Chained
<1>2. n + 1 \in 1..(n + 1) /\ 1 \in 1..(n + 1)
  BY <1>1
<1>3. /\ At(c, n, (n + 1) - 1) = v.tail /\ At(c, n, n + 1) = Null
      /\ At(c, n, 1 - 1) = Null
  BY <1>1 DEF At
<1>4. ASSUME NEW q \in 1..(n + 1), NEW p, NEW y, p = At(c, n, q - 1), y = At(c, n, q)
      PROVE  LET w == Link(v, p, x, y)
             IN  Sound(w, With(c, n, q, x), n + 1) /\ Grown(v, w)
  BY <1>4, LinkShaped
<1> QED
  BY <1>2, <1>3, <1>4

\* What append() and an item of extend_left() leave, at position q.
Longer(v, c, n, r, q) ==
    ~r.v.bad =>
        /\ IF r.ret = None
           THEN \E d, x : /\ Sound(r.v, With(d, n, q, x), n + 1)
                          /\ \A k \in 1..n : r.v.val[d[k]] = v.val[c[k]]
           ELSE \E d : Shaped(r.v, d, n) /\ Alike(v, c, r.v, d, n)
        /\ SameFlags(v, r.v)
        /\ Pinned(v) => Grown(v, r.v)

\* An item is a value of the list, or one that it rejects.
LEMMA ItemIsValue == Args \subseteq Values \cup {Wrong}
BY DEF Args, Values

\* A new node that is linked in makes the list longer.
LEMMA JoinsLonger ==
    ASSUME NEW v, NEW c, NEW n, NEW r, NEW d, NEW value, NEW w, NEW q, n \in Nat,
           Created(v, c, n, r, d, value), r.node # Null,
           Pinned(v) => Grown(v, r.v),
           Sound(w, With(d, n, q, r.node), n + 1), Grown(r.v, w)
    PROVE  Longer(v, c, n, Outcome(w, None), q)
<1>1. /\ SameFlags(v, r.v) /\ Alike(v, c, r.v, d, n) /\ Spare(r.v, d, n, r.node)
  BY DEF Created
<1>2. SameFlags(v, w) /\ (Pinned(v) => Grown(v, w))
  <2>1. SameFlags(v, w)
    BY <1>1 DEF SameFlags, Grown
  <2>2. Pinned(v) => Grown(v, w)
    BY StaysSteps
  <2> QED
    BY <2>1, <2>2
<1>3. \A k \in 1..n : d[k] \in r.v.live
  BY <1>1 DEF Spare, Apart, Distinct
<1>4. \A k \in 1..n : w.val[d[k]] = v.val[c[k]]
  BY <1>1, <1>3 DEF Alike, Grown
<1>5. Outcome(w, None).v = w /\ Outcome(w, None).ret = None
  BY DEF Outcome
<1> QED
  BY <1>2, <1>4, <1>5 DEF Longer

\* algorithms/append.h, and one item of extend_left().
LEMMA AppendLonger ==
    ASSUME NEW v, NEW c, NEW n, Shaped(v, c, n), n <= MaxLen, ~v.bad,
           NEW value \in Values \cup {Wrong}
    PROVE  /\ Longer(v, c, n, AppendTo(v, value), n + 1)
           /\ Longer(v, c, n, PrependTo(v, value), 1)
<1> DEFINE r == Create(v, value)
<1>1. /\ \E d : Created(v, c, n, r, d, value)
      /\ Pinned(v) => Grown(v, r.v)
  BY CreateShaped
<1>2. n \in Nat /\ Typed(v)
  BY DEF Shaped, Nodes, Distinct
<1>3. Broken(v).bad
  BY <1>2 DEF Broken, Typed
<1> HIDE DEF r
<1>4. PICK d : Created(v, c, n, r, d, value)
  BY <1>1
<1>5. ASSUME NEW q, NEW s,
             s = Outcome(Broken(v), None) \/ (r.node = Null /\ s = Outcome(r.v, r.ret))
      PROVE  Longer(v, c, n, s, q)
  <2>1. CASE s = Outcome(Broken(v), None)
    BY <1>3, <2>1 DEF Longer, Outcome
  <2>2. CASE r.node = Null /\ s = Outcome(r.v, r.ret)
    <3>1. s.v = r.v /\ s.ret = r.ret /\ r.node = Null
      BY <1>5, <2>2 DEF Outcome
    <3>2. r.ret # None /\ Shaped(r.v, d, n) /\ Alike(v, c, r.v, d, n) /\ SameFlags(v, r.v)
      BY <1>4, <3>1 DEF Created
    <3> QED
      BY <1>1, <3>1, <3>2 DEF Longer
  <2> QED
    BY <1>5, <2>1, <2>2
<1>6. Longer(v, c, n, AppendTo(v, value), n + 1)
  <2> DEFINE w == Link(r.v, r.v.tail, r.node, Null)
  <2>1. CASE r.node = Null \/ (LeftToRight /\ Moved(v, r.v))
    <3>1. \/ AppendTo(v, value) = Outcome(Broken(v), None)
          \/ r.node = Null /\ AppendTo(v, value) = Outcome(r.v, r.ret)
      BY <2>1 DEF AppendTo, r
    <3> QED
      BY <1>5, <3>1
  <2>2. CASE r.node # Null /\ ~(LeftToRight /\ Moved(v, r.v))
    <3>1. AppendTo(v, value) = Outcome(w, None)
      BY <2>2 DEF AppendTo, r
    <3>2. Spare(r.v, d, n, r.node)
      BY <1>4, <2>2 DEF Created
    <3>3. Sound(w, With(d, n, n + 1, r.node), n + 1) /\ Grown(r.v, w)
      BY <3>2, EndShaped
    <3> HIDE DEF w
    <3>4. Longer(v, c, n, Outcome(w, None), n + 1)
      BY <1>1, <1>2, <1>4, <2>2, <3>3, JoinsLonger
    <3> QED
      BY <3>1, <3>4
  <2> QED
    BY <2>1, <2>2
<1>7. Longer(v, c, n, PrependTo(v, value), 1)
  <2> DEFINE w == Link(r.v, Null, r.node, r.v.head)
  <2>1. CASE r.node = Null \/ Dangling(v) \/ (~LeftToRight /\ Moved(v, r.v))
    <3>1. \/ PrependTo(v, value) = Outcome(Broken(v), None)
          \/ r.node = Null /\ PrependTo(v, value) = Outcome(r.v, r.ret)
      BY <2>1 DEF PrependTo, r
    <3> QED
      BY <1>5, <3>1
  <2>2. CASE ~(r.node = Null \/ Dangling(v) \/ (~LeftToRight /\ Moved(v, r.v)))
    <3>1. PrependTo(v, value) = Outcome(w, None)
      BY <2>2 DEF PrependTo, r
    <3>2. Spare(r.v, d, n, r.node) /\ r.v.head = At(d, n, 1)
      BY <1>4, <2>2, AttachedSound DEF Created, Sound
    <3>3. Sound(w, With(d, n, 1, r.node), n + 1) /\ Grown(r.v, w)
      BY <3>2, EndShaped
    <3> HIDE DEF w
    <3>4. Longer(v, c, n, Outcome(w, None), 1)
      BY <1>1, <1>2, <1>4, <2>2, <3>3, JoinsLonger
    <3> QED
      BY <3>1, <3>4
  <2> QED
    BY <2>1, <2>2
<1> QED
  BY <1>6, <1>7

\* A list that got longer keeps its shape.
LEMMA LongerKeeps ==
    ASSUME NEW v, NEW c, NEW n, Shaped(v, c, n), n < MaxLen, NEW r, NEW q, Longer(v, c, n, r, q)
    PROVE  Keeps(v, r.v)
<1>1. n \in Nat /\ MaxLen \in Nat
  BY ListAssumption DEF Shaped, Nodes, Distinct
<1>2. ASSUME ~r.v.bad PROVE \E d, k : Shaped(r.v, d, k) /\ k <= MaxLen
  <2>1. CASE r.ret = None
    <3>1. PICK d, x : Sound(r.v, With(d, n, q, x), n + 1)
      BY <1>2, <2>1 DEF Longer
    <3>2. PICK k, e : k \in Int /\ k = n + 1 /\ e = With(d, n, q, x)
      BY <1>1
    <3>3. Shaped(r.v, e, k) /\ k <= MaxLen
      BY <1>1, <3>1, <3>2 DEF Sound
    <3> QED
      BY <3>3
  <2>2. CASE r.ret # None
    BY <1>1, <1>2, <2>2 DEF Longer
  <2> QED
    BY <2>1, <2>2
<1>3. ~r.v.bad /\ v.frozen => Stays(v, r.v)
  BY StaysSteps DEF Longer, Pinned
<1> QED
  BY <1>2, <1>3 DEF Keeps

(***************************************************************************)
(* An undefined behaviour stays one.                                       *)
(***************************************************************************)
Bad(v) == {"bad", "occ", "frozen"} \subseteq DOMAIN v /\ v.bad

\* No change of capacity and no guard undoes it.
LEMMA BadResize ==
    ASSUME NEW v, Bad(v), NEW capacity, NEW b
    PROVE  Bad(Resize(v, capacity)) /\ Bad(Shrink(v)) /\ Bad(Release(v, b))
<1>1. ASSUME NEW u, Bad(u), NEW m PROVE Bad(Resize(u, m))
  BY <1>1 DEF Bad, Resize, Broken
<1>2. ASSUME NEW u, Bad(u) PROVE Bad(Shrink(u))
  BY <1>1, <1>2 DEF Shrink
<1>3. Bad(Freezes(v, FALSE))
  BY DEF Bad, Freezes
<1>4. Bad(Release(v, b))
  BY <1>2, <1>3 DEF Release, Freezes
<1> QED
  BY <1>1, <1>2, <1>4

\* Nor does a new node.
LEMMA BadCreate ==
    ASSUME NEW v, Bad(v), NEW value
    PROVE  Bad(Create(v, value).v)
<1>1. ASSUME NEW u, Bad(u), NEW x PROVE Bad(Construct(u, x, value)) /\ Bad(Made(u, x).v)
  BY <1>1 DEF Bad, Construct, Made
<1>2. ASSUME NEW u, Bad(u), NEW error PROVE Bad(Failed(u, error).v)
  BY <1>2 DEF Failed
<1>3. Bad(FromFreeList(v, value).v)
  <2> DEFINE rest == v.next[v.first]
             u == Construct(v, v.first, value)
             w == [u EXCEPT !.first = rest, !.last = IF rest = Null THEN Null ELSE @]
  <2>1. Bad(u)
    BY <1>1
  <2> HIDE DEF u
  <2>2. Bad(w)
    BY <2>1 DEF Bad
  <2> HIDE DEF w
  <2>3. Bad(Made(w, v.first).v)
    BY <1>1, <2>2
  <2> QED
    BY <1>2, <2>3 DEF FromFreeList, w, u
<1>4. Bad(FromArray(v, value).v)
  <2> DEFINE u == IF Full(v) THEN Resize(v, 2 * v.cap) ELSE v
             w == Construct(u, u.occ + 1, value)
  <2>1. Bad(u)
    BY BadResize
  <2> HIDE DEF u
  <2>2. Bad(w)
    BY <1>1, <2>1
  <2> HIDE DEF w
  <2>3. Bad(Made(w, u.occ + 1).v)
    BY <1>1, <2>2
  <2> QED
    BY <1>2, <2>1, <2>3 DEF FromArray, w, u
<1> QED
  BY <1>2, <1>3, <1>4 DEF Create

\* Nor does an insertion.
LEMMA BadLink ==
    ASSUME NEW v, Bad(v), NEW it, NEW x
    PROVE  Bad(LinkAt(v, it, x))
BY DEF Bad, LinkAt, Link

(***************************************************************************)
(* insert(): the room is reserved, the iterator is made, then the node.    *)
(***************************************************************************)
LEMMA ReleaseKeeps ==
    ASSUME NEW v, NEW c, NEW n, NEW r, Reserved(v, c, n, r), r.ret = None,
           NEW w, NEW d, NEW k, Shaped(w, d, k), k <= MaxLen, ~w.bad, Stays(r.v, w)
    PROVE  Keeps(v, Release(w, r.guard))
<1> DEFINE u == Release(w, r.guard)
<1>1. r.guard \in BOOLEAN /\ (r.guard <=> ~Pinned(v)) /\ (Pinned(v) => r.v = v)
  BY DEF Reserved
<1>2. k <= MaxLen + 1 /\ k \in Nat
  BY ListAssumption DEF Shaped, Nodes, Distinct
<1>3. /\ ~r.guard => u = w
      /\ ~u.bad => /\ r.guard => ~u.frozen
                   /\ \E e : Shaped(u, e, k) /\ Alike(w, d, u, e, k)
  BY <1>1, <1>2, ReleaseShaped
<1> HIDE DEF u
<1>4. v.frozen => u = w /\ Stays(v, u)
  BY <1>1, <1>3 DEF Pinned
<1> QED
  BY <1>3, <1>4 DEF Keeps, u

\* algorithms/insert.h
LEMMA InsertKeeps ==
    ASSUME NEW v, NEW c, NEW n, Shaped(v, c, n), n < MaxLen, ~v.bad, NEW i \in Int,
           NEW value \in Values \cup {Wrong}
    PROVE  Keeps(v, InsertInto(v, i, value).v)
<1> DEFINE r == Reserve(v, v.occ + 1)
           index == InsertIndex(v, i)
           it == IteratorAt(r.v, index, v.occ)
           s == Create(r.v, value)
           w == InsertInto(v, i, value).v
<1>1. /\ n \in Nat /\ v.occ = n /\ MaxLen \in Nat /\ n <= MaxLen /\ Typed(v)
      /\ index \in Int /\ 0 <= index /\ index <= n
  <2>1. n \in Nat /\ v.occ = n /\ MaxLen \in Nat /\ Typed(v)
    BY ListAssumption DEF Shaped, Nodes, Distinct
  <2> QED
    BY <2>1, IndexThere
<1>2. Keeps(v, v) /\ Keeps(v, Broken(v))
  BY <1>1, KeepsItself
<1>3. Reserved(v, c, n, r)
  <2>1. v.occ + 1 \in Nat
    BY <1>1
  <2> QED
    BY <1>1, <2>1, ReserveShaped
<1>4. w = IF r.ret # None THEN r.v
          ELSE IF Dangling(r.v) /\ ~it.back THEN Broken(v)
          ELSE IF s.node = Null THEN Release(s.v, r.guard)
          ELSE IF Moved(r.v, s.v) THEN Broken(v)
          ELSE Release(LinkAt(s.v, it, s.node), r.guard)
  BY DEF InsertInto, Outcome
<1>5. IsView(v) /\ v.frozen \in BOOLEAN
  BY <1>1 DEF Typed, IsView
<1>6. IsView(r.v)
  BY <1>5, Reserving
<1> SUFFICES Keeps(v, w)
  OBVIOUS
<1> HIDE DEF r, it, s, w, index
<1>7. CASE r.ret # None
  BY <1>2, <1>3, <1>4, <1>7 DEF Reserved
<1>8. CASE r.ret = None /\ r.v.bad
  <2>1. Bad(r.v)
    BY <1>6, <1>8 DEF Bad, IsView
  <2>2. Bad(s.v)
    BY <2>1, BadCreate DEF s
  <2>3. Bad(LinkAt(s.v, it, s.node))
    BY <2>2, BadLink
  <2>4. Bad(Release(s.v, r.guard)) /\ Bad(Release(LinkAt(s.v, it, s.node), r.guard))
    BY <2>2, <2>3, BadResize
  <2> QED
    BY <1>2, <1>4, <1>8, <2>4 DEF Bad, Keeps
<1>9. CASE /\ r.ret = None /\ ~r.v.bad
           /\ ~(Dangling(r.v) /\ ~it.back) /\ ~(s.node # Null /\ Moved(r.v, s.v))
  <2>1. Pinned(r.v) /\ r.v.double = v.double
    BY <1>3, <1>9 DEF Reserved
  <2>2. PICK d : Shaped(r.v, d, n)
    BY <1>3, <1>9 DEF Reserved
  <2>3. PICK back, q :
          /\ q \in Int /\ 1 <= q /\ q <= n + 1
          /\ back => r.v.double
          /\ Stands(it, back, d, n, q)
    <3>1. ~Dangling(r.v) \/ IteratorAt(r.v, index, n).back
      BY <1>1, <1>9 DEF it
    <3>2. n \in Int /\ n <= n + 1
      BY <1>1
    <3>3. \E back, q :
            /\ q \in Int /\ 1 <= q /\ q <= n + 1
            /\ back => r.v.double
            /\ Stands(IteratorAt(r.v, index, n), back, d, n, q)
      BY <1>1, <2>2, <3>1, <3>2, IteratorThere
    <3> QED
      BY <1>1, <3>3 DEF it
  <2>4. /\ Created(r.v, d, n, s, d, value) /\ Grown(r.v, s.v)
        /\ s.node = Null => s.v = r.v
    BY <1>1, <1>9, <2>1, <2>2, CreateShaped DEF s
  <2>5. CASE s.node = Null
    <3>1. Stays(r.v, s.v) /\ Shaped(s.v, d, n) /\ ~s.v.bad
      BY <1>9, <2>2, <2>4, <2>5, StaysSteps
    <3>2. Keeps(v, Release(s.v, r.guard))
      BY <1>1, <1>3, <1>9, <3>1, ReleaseKeeps
    <3> QED
      BY <1>4, <1>9, <2>5, <3>2
  <2>6. CASE s.node # Null
    <3> DEFINE u == LinkAt(s.v, it, s.node)
               e == With(d, n, Place(back, n + 1, q), s.node)
    <3>1. Spare(s.v, d, n, s.node)
      BY <2>4, <2>6 DEF Created
    <3>2. q \in 1..(n + 1)
      BY <1>1, <2>3
    <3>3. Sound(u, e, n + 1) /\ Grown(s.v, u)
      BY <2>3, <3>1, <3>2, InsertStands
    <3> HIDE DEF u, e
    <3>4. PICK k : k = n + 1
      OBVIOUS
    <3>5. Shaped(u, e, k) /\ k <= MaxLen
      BY <1>1, <3>3, <3>4 DEF Sound
    <3>6. Grown(r.v, u)
      BY <2>4, <3>3, StaysSteps
    <3>7. Stays(r.v, u) /\ ~u.bad
      BY <1>9, <3>6, StaysSteps DEF Grown
    <3>8. Keeps(v, Release(u, r.guard))
      BY <1>3, <1>9, <3>5, <3>7, ReleaseKeeps
    <3> QED
      BY <1>4, <1>9, <2>6, <3>8 DEF u
  <2> QED
    BY <2>5, <2>6
<1>10. CASE /\ r.ret = None
            /\ (Dangling(r.v) /\ ~it.back) \/ (s.node # Null /\ Moved(r.v, s.v))
  BY <1>2, <1>4, <1>10
<1> QED
  BY <1>7, <1>8, <1>9, <1>10

(***************************************************************************)
(* set(): a new node in the place of an old one.                           *)
(***************************************************************************)
Swap(c, n, q, x) == [j \in 1..n |-> IF j = q THEN x ELSE c[j]]

\* A chain with another slot in the place of one of its own.
LEMMA SwapDistinct ==
    ASSUME NEW c, NEW n, NEW x, NEW q, Distinct(c, n), x \in Slot, \A k \in 1..n : c[k] # x,
           q \in 1..n
    PROVE  LET d == Swap(c, n, q, x)
           IN  /\ Distinct(d, n) /\ \A k \in 1..n : d[k] # c[q]
               /\ \A p : p = c[q] \/ (\E k \in 1..n : p = d[k])
                            <=> p = x \/ \E k \in 1..n : p = c[k]
<1> DEFINE d == Swap(c, n, q, x)
<1>1. n \in Nat /\ \A k \in 1..n : c[k] \in Slot
  BY DEF Distinct
<1>2. d \in [1..n -> Slot] /\ \A k \in 1..n : d[k] = IF k = q THEN x ELSE c[k]
  BY <1>1 DEF Swap
<1> HIDE DEF d
<1>3. \A k \in 1..n : d[k] # c[q]
  BY <1>2 DEF Distinct
<1>4. \A i, j \in 1..n : d[i] = d[j] => i = j
  BY <1>2 DEF Distinct
<1>5. ASSUME NEW p
      PROVE  p = c[q] \/ (\E k \in 1..n : p = d[k]) <=> p = x \/ \E k \in 1..n : p = c[k]
  <2>1. d[q] = x
    BY <1>2
  <2>2. ASSUME NEW k \in 1..n PROVE d[k] = x \/ d[k] = c[k]
    BY <1>2
  <2>3. ASSUME NEW k \in 1..n PROVE c[k] = c[q] \/ d[k] = c[k]
    BY <1>2
  <2> QED
    BY <2>1, <2>2, <2>3
<1> QED
  BY <1>1, <1>2, <1>3, <1>4, <1>5 DEF Distinct, d

\* BaseView::replace: the old node is apart, the new one has its place.
LEMMA ReplaceApart ==
    ASSUME NEW v, NEW c, NEW n, NEW x, Apart(v, c, n, x), NEW q \in 1..n
    PROVE  LET p == At(c, n, q - 1)
               y == At(c, n, q + 1)
               w == Link(Unlink(v, p, y), p, x, y)
               d == Swap(c, n, q, x)
           IN  /\ Apart(w, d, n, c[q]) /\ w.head = At(d, n, 1)
               /\ \A k \in Slot : k \notin v.live => w.next[k] = v.next[k]
               /\ \A field \in {"double", "fixed", "val", "cap", "occ", "frozen", "first",
                                "last", "live", "bad"} : w[field] = v[field]
<1> DEFINE p == At(c, n, q - 1)
           y == At(c, n, q + 1)
           u == Unlink(v, p, y)
           w == Link(u, p, x, y)
           d == Swap(c, n, q, x)
<1>1. /\ n \in Nat /\ q \in Nat /\ x \in Slot /\ Typed(v) /\ p \in Address /\ y \in Address
      /\ Distinct(c, n) /\ Chained(v, c, n) /\ v.occ = n + 1
      /\ \A k \in 1..n : c[k] \in Slot /\ c[k] # x
      /\ \A i, j \in 1..n : c[i] = c[j] => i = j
      /\ Null \notin Slot
  <2> HIDE DEF p, y, u, w, d
  <2>1. x \in Slot /\ Typed(v) /\ Distinct(c, n) /\ Chained(v, c, n) /\ v.occ = n + 1
        /\ \A k \in 1..n : c[k] # x
    BY DEF Apart
  <2>2. p \in Address /\ y \in Address
    BY <2>1, AtSlot DEF p, y
  <2>3. n \in Nat /\ q \in Nat /\ (\A k \in 1..n : c[k] \in Slot)
        /\ \A i, j \in 1..n : c[i] = c[j] => i = j
    BY <2>1 DEF Distinct
  <2>4. Null \notin Slot
    BY DEF Slot, Null
  <2> QED
    BY <2>1, <2>2, <2>3, <2>4
<1>2. /\ Distinct(d, n) /\ \A k \in 1..n : d[k] # c[q]
      /\ \A k : k = c[q] \/ (\E j \in 1..n : k = d[j]) <=> k = x \/ \E j \in 1..n : k = c[j]
      /\ \A k \in 1..n : d[k] = IF k = q THEN x ELSE c[k]
  <2> HIDE DEF p, y, u, w
  <2>0. Distinct(c, n) /\ x \in Slot /\ \A k \in 1..n : c[k] # x
    BY <1>1
  <2>1. LET e == Swap(c, n, q, x)
        IN  /\ Distinct(e, n) /\ \A k \in 1..n : e[k] # c[q]
            /\ \A k : k = c[q] \/ (\E j \in 1..n : k = e[j])
                          <=> k = x \/ \E j \in 1..n : k = c[j]
    BY <2>0, SwapDistinct
  <2>2. \A k \in 1..n : d[k] = IF k = q THEN x ELSE c[k]
    BY DEF Swap
  <2> QED
    BY <2>1, <2>2 DEF d
<1>3. /\ p = IF q > 1 THEN c[q - 1] ELSE Null
      /\ y = IF q < n THEN c[q + 1] ELSE Null
  BY <1>1 DEF At
<1>4. /\ \A k \in 1..n : v.next[c[k]] = IF k < n THEN c[k + 1] ELSE Null
      /\ v.double => \A k \in 1..n : v.prev[c[k]] = IF k > 1 THEN c[k - 1] ELSE Null
      /\ n > 0 => v.head = c[1]
      /\ v.tail = IF n > 0 THEN c[n] ELSE Null
  BY <1>1 DEF Chained, At
<1> HIDE DEF p, y, d
<1>5. /\ Typed(u)
      /\ \A k \in Slot : u.next[k] = IF k = p THEN y ELSE v.next[k]
      /\ v.double => \A k \in Slot : u.prev[k] = IF k = y THEN p ELSE v.prev[k]
      /\ u.head = IF p = Null THEN y ELSE v.head
      /\ u.tail = IF y = Null THEN p ELSE v.tail
      /\ \A field \in {"double", "fixed", "val", "cap", "occ", "frozen", "first",
                       "last", "live", "bad"} : u[field] = v[field]
  BY <1>1, UnlinkTyped
<1> HIDE DEF u
<1>6. /\ Typed(w)
      /\ \A k \in Slot : w.next[k] = IF k = x THEN y ELSE IF k = p THEN x ELSE u.next[k]
      /\ u.double => \A k \in Slot :
             w.prev[k] = IF k = y THEN x ELSE IF k = x THEN p ELSE u.prev[k]
      /\ w.head = IF p = Null THEN x ELSE u.head
      /\ w.tail = IF y = Null THEN x ELSE u.tail
      /\ \A field \in {"double", "fixed", "val", "cap", "occ", "frozen", "first",
                       "last", "live", "bad"} : w[field] = u[field]
  BY <1>1, <1>5, LinkTyped
<1> HIDE DEF w
<1>7. \A field \in {"double", "fixed", "val", "cap", "occ", "frozen", "first",
                    "last", "live", "bad"} : w[field] = v[field]
  BY <1>5, <1>6
<1>8. /\ \A k \in Slot : w.next[k] = IF k = x THEN y ELSE IF k = p THEN x ELSE v.next[k]
      /\ v.double => \A k \in Slot :
             w.prev[k] = IF k = y THEN x ELSE IF k = x THEN p ELSE v.prev[k]
      /\ w.head = IF p = Null THEN x ELSE v.head
      /\ w.tail = IF y = Null THEN x ELSE v.tail
  BY <1>5, <1>6
<1>9. ASSUME NEW k \in 1..n PROVE w.next[d[k]] = At(d, n, k + 1)
  <2>1. At(d, n, k + 1) = IF k < n THEN d[k + 1] ELSE Null
    BY <1>1 DEF At
  <2>2. CASE k = q - 1
    BY <1>1, <1>2, <1>3, <1>4, <1>8, <2>1, <2>2
  <2>3. CASE k = q
    BY <1>1, <1>2, <1>3, <1>4, <1>8, <2>1, <2>3
  <2>4. CASE k < q - 1 \/ k > q
    BY <1>1, <1>2, <1>3, <1>4, <1>8, <2>1, <2>4
  <2> QED
    BY <1>1, <2>2, <2>3, <2>4
<1>10. ASSUME w.double, NEW k \in 1..n PROVE w.prev[d[k]] = At(d, n, k - 1)
  <2>1. At(d, n, k - 1) = IF k > 1 THEN d[k - 1] ELSE Null
    BY <1>1 DEF At
  <2>2. v.double
    BY <1>7, <1>10
  <2>3. CASE k = q + 1
    BY <1>1, <1>2, <1>3, <1>4, <1>8, <2>1, <2>2, <2>3
  <2>4. CASE k = q
    BY <1>1, <1>2, <1>3, <1>4, <1>8, <2>1, <2>2, <2>4
  <2>5. CASE k < q \/ k > q + 1
    BY <1>1, <1>2, <1>3, <1>4, <1>8, <2>1, <2>2, <2>5
  <2> QED
    BY <1>1, <2>3, <2>4, <2>5
<1>11. w.head = d[1] /\ w.tail = d[n]
  BY <1>1, <1>2, <1>3, <1>4, <1>8
<1>12. Chained(w, d, n) /\ w.head = At(d, n, 1)
  BY <1>1, <1>9, <1>10, <1>11 DEF Chained, At
<1>13. /\ w.occ = n + 1 /\ c[q] \in Slot
       /\ \A k \in Slot : k \in w.live <=> k = c[q] \/ \E j \in 1..n : k = d[j]
  <2>1. w.live = v.live /\ w.occ = v.occ
    BY <1>7
  <2> QED
    BY <1>1, <1>2, <2>1 DEF Apart
<1>14. Apart(w, d, n, c[q])
  BY <1>2, <1>6, <1>12, <1>13 DEF Apart
<1>15. ASSUME NEW k \in Slot, k \notin v.live PROVE w.next[k] = v.next[k]
  <2>1. k # x /\ \A j \in 1..n : k # c[j]
    BY <1>15 DEF Apart
  <2>2. k # p
    BY <1>1, <1>3, <2>1
  <2> QED
    BY <1>8, <2>1, <2>2
<1> QED
  BY <1>7, <1>12, <1>14, <1>15 DEF w, u, d, p, y

\* The old node under an iterator is recycled.
LEMMA ReplaceStands ==
    ASSUME NEW v, NEW c, NEW n, NEW x, Spare(v, c, n, x), NEW it, NEW back, NEW q \in Int,
           1 <= q, q <= n, Stands(it, back, c, n, q), ~v.bad
    PROVE  LET u == ReplaceAt(v, it, x)
               w == Recycle(u, it.curr)
           IN  /\ Pinned(v) => Stays(v, w)
               /\ ~w.bad => \E d : Shaped(w, d, n)
<1> DEFINE u == ReplaceAt(v, it, x)
           w == Recycle(u, it.curr)
           p == Place(back, n, q)
           y == it.curr
<1>1. n \in Nat /\ Apart(v, c, n, x)
  BY DEF Spare, Apart, Distinct
<1>2. back \in BOOLEAN /\ it = Around(back, c, n, p)
  BY DEF Stands
<1>3. p \in 1..n
  BY <1>1, <1>2 DEF Place
<1> HIDE DEF p
<1>4. y = c[p] /\ it.prev = At(c, n, p - 1) /\ it.next = At(c, n, p + 1)
  BY <1>2, <1>3 DEF Around, At
<1>5. u = Link(Unlink(v, At(c, n, p - 1), At(c, n, p + 1)), At(c, n, p - 1), x, At(c, n, p + 1))
  BY <1>4 DEF ReplaceAt, UnlinkAt
<1> DEFINE d == Swap(c, n, p, x)
<1> HIDE DEF u, y, d
<1>6. /\ Apart(u, d, n, y) /\ u.head = At(d, n, 1)
      /\ \A k \in Slot : k \notin v.live => u.next[k] = v.next[k]
      /\ \A field \in {"double", "fixed", "val", "cap", "occ", "frozen", "first",
                       "last", "live", "bad"} : u[field] = v[field]
  BY <1>1, <1>3, <1>4, <1>5, ReplaceApart DEF d
<1>7. /\ u.double = v.double /\ u.fixed = v.fixed /\ u.frozen = v.frozen /\ u.val = v.val
      /\ u.cap = v.cap /\ u.occ = v.occ /\ u.first = v.first /\ u.last = v.last
      /\ u.live = v.live /\ u.bad = v.bad
  BY <1>6
<1>8. PICK f, m : Memory(v, f, m)
  BY DEF Spare
<1>9. Memory(u, f, m)
  BY <1>6, <1>7, <1>8, MemoryStays
<1>10. Spare(u, d, n, y)
  BY <1>6, <1>9 DEF Spare
<1>11. Grown(v, u)
  BY <1>7 DEF Grown, SameFlags
<1>12. ~u.bad /\ (Pinned(v) => Pinned(u))
  BY <1>7 DEF Pinned
<1>13. w = Recycle(u, y)
  BY DEF y
<1> HIDE DEF w
<1>14. /\ Pinned(u) => Shrunk(u, w)
       /\ ~w.bad => \E e : Shaped(w, e, n)
  BY <1>6, <1>10, <1>12, <1>13, RecycleShaped
<1> QED
  BY <1>11, <1>12, <1>14, StaysSteps DEF w, u

\* algorithms/position.h: the assignment to an index.
LEMMA SetKeeps ==
    ASSUME NEW v, NEW c, NEW n, Shaped(v, c, n), n <= MaxLen, ~v.bad, NEW i \in Int,
           NEW value \in Values \cup {Wrong}
    PROVE  Keeps(v, SetIn(v, i, value).v)
<1> DEFINE index == NormalIndex(v, i)
           it == IteratorAt(v, index, v.occ - 1)
           s == Create(v, value)
           w == SetIn(v, i, value).v
           u == Recycle(ReplaceAt(s.v, it, s.node), it.curr)
<1>1. n \in Nat /\ v.occ = n /\ MaxLen \in Nat /\ Typed(v)
  BY ListAssumption DEF Shaped, Nodes, Distinct
<1>2. Keeps(v, v) /\ Keeps(v, Broken(v))
  BY <1>1, KeepsItself
<1>3. w = IF OutOfRange(v, i) THEN v
          ELSE IF s.node = Null THEN s.v
          ELSE IF Moved(v, s.v) THEN Broken(v)
          ELSE u
  BY DEF SetIn, Outcome
<1>4. /\ \E d : Created(v, c, n, s, d, value)
      /\ Pinned(v) \/ ~Moved(v, s.v) =>
            Created(v, c, n, s, c, value) /\ Grown(v, s.v) /\ s.v.head = v.head
  BY CreateShaped
<1> SUFFICES Keeps(v, w)
  OBVIOUS
<1> HIDE DEF index, it, s, w
<1>5. CASE OutOfRange(v, i) \/ (s.node # Null /\ Moved(v, s.v))
  BY <1>2, <1>3, <1>5
<1>6. CASE ~OutOfRange(v, i) /\ s.node = Null
  <2>1. \E d : Shaped(s.v, d, n)
    BY <1>4, <1>6 DEF Created
  <2>2. v.frozen => Stays(v, s.v)
    BY <1>4, StaysSteps DEF Pinned
  <2> QED
    BY <1>3, <1>6, <2>1, <2>2 DEF Keeps
<1>7. CASE ~OutOfRange(v, i) /\ s.node # Null /\ ~Moved(v, s.v)
  <2>1. index \in Int /\ 0 <= index /\ index <= v.occ - 1
    BY <1>1, <1>7, IndexThere DEF index
  <2>2. PICK last \in Int : last = v.occ - 1
    BY <1>1
  <2>3. last <= n /\ n <= last + 1 /\ index <= last /\ ~Dangling(v)
    BY <1>1, <2>1, <2>2, AttachedSound
  <2>4. PICK back, q :
          /\ q \in Int /\ 1 <= q /\ q <= last + 1
          /\ back => v.double
          /\ Stands(IteratorAt(v, index, last), back, c, n, q)
    BY <2>1, <2>3, IteratorThere
  <2>5. q <= n /\ Stands(it, back, c, n, q)
    BY <1>1, <2>2, <2>4 DEF it
  <2>6. Created(v, c, n, s, c, value) /\ Grown(v, s.v)
    BY <1>4, <1>7
  <2>7. Spare(s.v, c, n, s.node) /\ ~s.v.bad
    BY <1>7, <2>6 DEF Created
  <2>8. /\ Pinned(s.v) => Stays(s.v, u)
        /\ ~u.bad => \E d : Shaped(u, d, n)
    BY <2>4, <2>5, <2>7, ReplaceStands
  <2> HIDE DEF u
  <2>9. v.frozen => Stays(v, u)
    <3>1. Pinned(v) => Pinned(s.v)
      BY <2>6, StaysSteps
    <3> QED
      BY <2>6, <2>8, <3>1 DEF Pinned, Grown, Stays
  <2> QED
    BY <1>1, <1>3, <1>7, <2>8, <2>9 DEF Keeps
<1> QED
  BY <1>5, <1>6, <1>7

\* The view of no nodes.
Bare(u, double, fixed, frozen, capacity) ==
    /\ u.double = double /\ u.fixed = fixed /\ u.frozen = frozen /\ u.bad = FALSE
    /\ u.cap = capacity /\ u.occ = 0 /\ u.live = {}
    /\ u.head = Null /\ u.tail = Null /\ u.first = Null /\ u.last = Null
    /\ u.next = [p \in Address |-> Null] /\ u.prev = [p \in Address |-> Null]
    /\ u.val = [p \in Address |-> None]
    /\ DOMAIN u = {"double", "fixed", "next", "prev", "val", "head", "tail", "cap",
                   "occ", "frozen", "first", "last", "live", "bad"}

\* It is shaped as a list of no nodes.
LEMMA BareShaped ==
    ASSUME NEW u, NEW double \in BOOLEAN, NEW fixed \in BOOLEAN, NEW frozen \in BOOLEAN,
           NEW capacity \in Nat \ {0}, Bare(u, double, fixed, frozen, capacity)
    PROVE  Shaped(u, <<>>, 0) /\ ~u.bad /\ u.head = Null
<1>1. Slots \in Nat /\ MaxLen \in Nat /\ Null \in Address /\ Slot \subseteq Address
  BY AllocatorAssumption, ListAssumption DEF Address, Null, Slot
<1>2. /\ u.double = double /\ u.fixed = fixed /\ u.frozen = frozen /\ u.bad = FALSE
      /\ u.cap = capacity /\ u.occ = 0 /\ u.live = {}
      /\ u.head = Null /\ u.tail = Null /\ u.first = Null /\ u.last = Null
      /\ u.next = [p \in Address |-> Null] /\ u.prev = [p \in Address |-> Null]
      /\ u.val = [p \in Address |-> None]
      /\ DOMAIN u = {"double", "fixed", "next", "prev", "val", "head", "tail", "cap",
                     "occ", "frozen", "first", "last", "live", "bad"}
  BY DEF Bare
<1>3. Typed(u)
  <2>1. u.next \in [Address -> Address] /\ u.prev \in [Address -> Address]
    BY <1>1, <1>2
  <2>2. u.val \in [Address -> Values]
    BY <1>2 DEF Values
  <2>3. u.next[Null] = Null /\ u.prev[Null] = Null
    BY <1>1, <1>2
  <2>4. /\ DOMAIN u = {"double", "fixed", "next", "prev", "val", "head", "tail", "cap",
                       "occ", "frozen", "first", "last", "live", "bad"}
        /\ u.double \in BOOLEAN /\ u.fixed \in BOOLEAN
        /\ u.frozen \in BOOLEAN /\ u.bad \in BOOLEAN
    BY <1>2
  <2>5. /\ u.head \in Address /\ u.tail \in Address /\ u.first \in Address /\ u.last \in Address
    BY <1>1, <1>2
  <2>6. /\ u.live \subseteq Slot /\ u.occ \in Nat /\ u.cap \in Nat \ {0}
    BY <1>2
  <2> QED
    BY <2>1, <2>2, <2>3, <2>4, <2>5, <2>6 DEF Typed
<1>4. Distinct(<<>>, 0)
  BY DEF Distinct
<1>5. Nodes(u, <<>>, 0)
  BY <1>2, <1>3, <1>4 DEF Nodes, Chained, At
<1>6. Memory(u, <<>>, 0)
  BY <1>1, <1>2, <1>4 DEF Memory, Freed, Packed, At
<1> QED
  BY <1>2, <1>5, <1>6 DEF Shaped

\* What clear() leaves.
LEMMA NothingShaped ==
    ASSUME NEW double \in BOOLEAN, NEW fixed \in BOOLEAN, NEW frozen \in BOOLEAN,
           NEW capacity \in Nat \ {0}, NEW old \in Nat \ {0}
    PROVE  LET w == EmptyView(double, fixed, old)
               u == [w EXCEPT !.frozen = frozen, !.cap = capacity]
           IN  Shaped(u, <<>>, 0) /\ ~u.bad /\ u.head = Null
<1> DEFINE w == EmptyView(double, fixed, old)
           u == [w EXCEPT !.frozen = frozen, !.cap = capacity]
<1>1. Bare(u, double, fixed, frozen, capacity)
  BY DEF EmptyView, Bare
<1> HIDE DEF u
<1> QED
  BY <1>1, BareShaped DEF u

\* clear() and defragment()
LEMMA ClearKeeps ==
    ASSUME NEW v, NEW c, NEW n, Shaped(v, c, n), n <= MaxLen, ~v.bad
    PROVE  Keeps(v, Clear(v)) /\ Keeps(v, Defragment(v).v)
<1>1. n \in Nat /\ v.occ = n /\ MaxLen \in Nat /\ Typed(v) /\ MinCapacity \in Nat \ {0}
  BY ListAssumption, AllocatorAssumption DEF Shaped, Nodes, Distinct
<1>2. Keeps(v, v) /\ Keeps(v, Broken(v))
  BY <1>1, KeepsItself
<1>3. Keeps(v, Clear(v))
  <2>1. CASE Dangling(v)
    BY <1>2, <2>1 DEF Clear
  <2>2. CASE ~Dangling(v)
    <3> DEFINE w == EmptyView(v.double, v.fixed, v.cap)
               capacity == IF v.fixed \/ v.frozen THEN v.cap
                           ELSE IF v.cap > MinCapacity THEN MinCapacity ELSE v.cap
               u == [w EXCEPT !.frozen = v.frozen, !.cap = capacity]
    <3>1. capacity \in Nat \ {0}
      BY <1>1 DEF Typed
    <3>2. Clear(v) = u
      BY <2>2 DEF Clear, EmptyView
    <3> HIDE DEF capacity
    <3>3. Shaped(u, <<>>, 0)
      BY <1>1, <3>1, NothingShaped DEF Typed
    <3>4. u.cap = capacity /\ u.live = {}
      BY DEF EmptyView
    <3>5. v.frozen => Stays(v, u)
      BY <3>4 DEF Stays, capacity
    <3> HIDE DEF u
    <3> QED
      BY <1>1, <3>2, <3>3, <3>5 DEF Keeps
  <2> QED
    BY <2>1, <2>2
<1>4. Keeps(v, Defragment(v).v)
  <2>1. CASE v.frozen
    BY <1>2, <2>1 DEF Defragment, Outcome
  <2>2. CASE ~v.frozen
    <3> DEFINE capacity == v.cap
               u == Resize(v, capacity)
    <3>1. capacity \in Nat \ {0} /\ n <= capacity /\ n <= MaxLen + 1
      BY <1>1 DEF Shaped, Memory, Packed, Distinct, Typed
    <3>2. Defragment(v).v = u
      BY <2>2 DEF Defragment, Outcome
    <3> HIDE DEF capacity
    <3>3. ~u.bad => Shaped(u, Moving(n), n)
      BY <3>1, ResizeShaped
    <3> HIDE DEF u
    <3> QED
      BY <1>1, <2>2, <3>2, <3>3 DEF Keeps
  <2> QED
    BY <2>1, <2>2
<1> QED
  BY <1>3, <1>4

(***************************************************************************)
(* reverse() and rotate(): the same nodes in another order.                *)
(***************************************************************************)
Turned(c, n) == [k \in 1..n |-> c[n + 1 - k]]

\* The node before a node, as a walk from the head finds it.
LEMMA BeforeIs ==
    ASSUME NEW v, NEW c, NEW n, Nodes(v, c, n), v.head = At(c, n, 1), NEW k \in 1..n
    PROVE  Before(v, c[k]) = At(c, n, k - 1)
<1>1. /\ n \in Nat /\ \A j \in 1..n : c[j] \in v.live /\ c[j] \in Slot
      /\ \A i, j \in 1..n : c[i] = c[j] => i = j
      /\ \A j \in 1..n : v.next[c[j]] = At(c, n, j + 1)
      /\ v.live \subseteq Slot /\ \A p \in Slot : p \in v.live => \E j \in 1..n : p = c[j]
  BY DEF Nodes, Distinct, Chained, Typed
<1>2. CASE v.double
  BY <1>1, <1>2 DEF Before, Nodes, Chained
<1>3. CASE ~v.double /\ k = 1
  BY <1>1, <1>3 DEF Before, At
<1>4. CASE ~v.double /\ k > 1
  <2>1. k - 1 \in 1..n /\ At(c, n, k - 1) = c[k - 1]
    BY <1>1, <1>4 DEF At
  <2>2. v.head = c[1] /\ c[k] # c[1]
    BY <1>1, <1>4 DEF At
  <2>3. c[k - 1] \in v.live /\ v.next[c[k - 1]] = c[k]
    BY <1>1, <2>1 DEF At
  <2>4. ASSUME NEW q \in v.live, v.next[q] = c[k] PROVE q = c[k - 1]
    <3>1. PICK j \in 1..n : q = c[j]
      BY <1>1
    <3>2. At(c, n, j + 1) = c[k]
      BY <1>1, <2>4, <3>1
    <3>3. c[k] # Null
      BY <1>1 DEF Slot, Null
    <3>4. j + 1 \in 1..n /\ c[j + 1] = c[k]
      BY <3>2, <3>3 DEF At
    <3>5. j + 1 = k
      BY <1>1, <3>4
    <3> QED
      BY <1>1, <3>1, <3>5
  <2>5. Before(v, c[k]) = CHOOSE q \in v.live : v.next[q] = c[k]
    BY <1>4, <2>2 DEF Before
  <2> QED
    BY <2>1, <2>3, <2>4, <2>5
<1> QED
  BY <1>2, <1>3, <1>4

\* algorithms/reverse.h
LEMMA ReverseKeeps ==
    ASSUME NEW v, NEW c, NEW n, Shaped(v, c, n), n <= MaxLen, ~v.bad, ~Dangling(v)
    PROVE  Keeps(v, Reversed(v))
<1> DEFINE w == Reversed(v)
           d == Turned(c, n)
           next == [p \in Address |-> IF p \in v.live THEN Before(v, p) ELSE v.next[p]]
           prev == [p \in Address |-> IF v.double /\ p \in v.live THEN v.next[p] ELSE Null]
<1>1. /\ Nodes(v, c, n) /\ v.head = At(c, n, 1) /\ Typed(v) /\ Distinct(c, n) /\ n \in Nat
      /\ \A p \in v.live : p \in Slot /\ \E j \in 1..n : p = c[j]
      /\ \A j \in 1..n : c[j] \in v.live /\ c[j] \in Slot
  BY AttachedSound DEF Sound, Shaped, Nodes, Distinct, Typed
<1>2. \A k \in 1..n : Before(v, c[k]) = At(c, n, k - 1)
  BY <1>1, BeforeIs
<1>3. /\ w.next = next /\ w.prev = prev /\ w.head = v.tail /\ w.tail = v.head
      /\ DOMAIN w = DOMAIN v
      /\ \A field \in {"double", "fixed", "val", "cap", "occ", "frozen", "first",
                       "last", "live", "bad"} : w[field] = v[field]
  <2>1. DOMAIN v.next = Address /\ DOMAIN v.prev = Address
    BY <1>1 DEF Typed
  <2>2. w = [v EXCEPT !.next = next, !.prev = prev, !.head = v.tail, !.tail = v.head]
    BY <2>1 DEF Reversed
  <2> HIDE DEF next, prev, w
  <2> QED
    BY <1>1, <2>2 DEF Typed
<1> HIDE DEF w
<1>4. /\ w.double = v.double /\ w.fixed = v.fixed /\ w.val = v.val /\ w.cap = v.cap
      /\ w.occ = v.occ /\ w.frozen = v.frozen /\ w.first = v.first /\ w.last = v.last
      /\ w.live = v.live /\ w.bad = v.bad
  BY <1>3
<1>5. next \in [Address -> Address] /\ prev \in [Address -> Address]
  <2>1. ASSUME NEW p \in v.live PROVE Before(v, p) \in Address
    <3>1. PICK k \in 1..n : p = c[k]
      BY <1>1
    <3> QED
      BY <1>1, <1>2, <3>1, AtSlot
  <2> QED
    BY <1>1, <2>1, SlotIsAddress DEF Typed
<1>6. next[Null] = Null /\ prev[Null] = Null
  BY <1>1, SlotIsAddress DEF Typed
<1>7. /\ \A k \in 1..n :
            w.next[c[k]] = At(c, n, k - 1) /\ (v.double => w.prev[c[k]] = At(c, n, k + 1))
      /\ \A p \in Slot : p \notin v.live => w.next[p] = v.next[p]
  BY <1>1, <1>2, <1>3, SlotIsAddress DEF Nodes, Chained
<1> HIDE DEF next, prev
<1>8. Typed(w)
  BY <1>1, <1>3, <1>4, <1>5, <1>6 DEF Typed
<1>9. /\ d \in [1..n -> Slot] /\ \A k \in 1..n : d[k] = c[n + 1 - k]
      /\ \A k \in 1..n : c[k] = d[n + 1 - k]
  BY <1>1 DEF Turned
<1> HIDE DEF d
<1>10. Distinct(d, n)
  <2>1. ASSUME NEW i \in 1..n, NEW j \in 1..n, d[i] = d[j] PROVE i = j
    <3>1. n + 1 - i \in 1..n /\ n + 1 - j \in 1..n
      BY <1>1
    <3>2. n + 1 - i = n + 1 - j
      BY <1>1, <1>9, <2>1, <3>1 DEF Distinct
    <3> QED
      BY <1>1, <3>2
  <2> QED
    BY <1>1, <1>9, <2>1 DEF Distinct
<1>11. \A k \in Int : At(d, n, k) = At(c, n, n + 1 - k)
  BY <1>1, <1>9 DEF At
<1>12. Chained(w, d, n)
  <2>1. ASSUME NEW k \in 1..n
        PROVE  w.next[d[k]] = At(d, n, k + 1) /\ (w.double => w.prev[d[k]] = At(d, n, k - 1))
    <3>1. PICK j \in 1..n : j = n + 1 - k
      BY <1>1
    <3>2. w.next[d[k]] = At(c, n, j - 1) /\ (v.double => w.prev[d[k]] = At(c, n, j + 1))
      <4>1. d[k] = c[j]
        BY <1>9, <3>1
      <4>2. w.next[c[j]] = At(c, n, j - 1) /\ (v.double => w.prev[c[j]] = At(c, n, j + 1))
        BY <1>4, <1>7
      <4> QED
        BY <4>1, <4>2
    <3>3. At(d, n, k + 1) = At(c, n, j - 1) /\ At(d, n, k - 1) = At(c, n, j + 1)
      <4>1. PICK a \in Int, b \in Int : a = k + 1 /\ b = k - 1
        BY <1>1
      <4>2. n + 1 - a = j - 1 /\ n + 1 - b = j + 1
        BY <1>1, <3>1, <4>1
      <4>3. At(d, n, a) = At(c, n, n + 1 - a) /\ At(d, n, b) = At(c, n, n + 1 - b)
        BY <1>11
      <4> QED
        BY <4>1, <4>2, <4>3
    <3> QED
      BY <1>4, <3>2, <3>3
  <2>2. n > 0 => w.head = d[1]
    BY <1>1, <1>3, <1>9 DEF Nodes, Chained, At
  <2>3. w.tail = At(d, n, n)
    BY <1>1, <1>3, <1>9 DEF At
  <2> QED
    BY <2>1, <2>2, <2>3 DEF Chained
<1>13. \A p \in Slot : p \in w.live <=> \E k \in 1..n : p = d[k]
  <2>1. ASSUME NEW p PROVE (\E k \in 1..n : p = c[k]) <=> (\E k \in 1..n : p = d[k])
    <3>1. ASSUME NEW k \in 1..n PROVE n + 1 - k \in 1..n
      BY <1>1
    <3> QED
      BY <1>9, <3>1
  <2>2. \A p \in Slot : p \in v.live <=> \E k \in 1..n : p = c[k]
    BY DEF Shaped, Nodes
  <2> QED
    BY <1>4, <2>1, <2>2
<1>14. Nodes(w, d, n)
  BY <1>1, <1>4, <1>8, <1>10, <1>12, <1>13 DEF Nodes
<1>15. \E f, m : Memory(w, f, m)
  <2>1. PICK f, m : Memory(v, f, m)
    BY DEF Shaped
  <2> QED
    BY <1>4, <1>7, <2>1, MemoryStays
<1>16. Stays(v, w)
  BY <1>4 DEF Stays
<1> QED
  BY <1>14, <1>15, <1>16 DEF Keeps, Shaped, w

\* What an iterator at an index stands at.
LEMMA IteratorIs ==
    ASSUME NEW v, NEW c, NEW n, Nodes(v, c, n), v.head = At(c, n, 1), NEW index \in Int,
           NEW last \in Int, 0 <= index, index <= last, last <= n - 1, n - 1 <= last
    PROVE  LET it == IteratorAt(v, index, last)
           IN  it.prev = At(c, n, index) /\ it.curr = At(c, n, index + 1)
<1> DEFINE it == IteratorAt(v, index, last)
<1>1. n \in Nat /\ last = n - 1
  BY DEF Nodes, Distinct
<1>2. last \in {n - 1, n} /\ index \in 0..last
  BY <1>1
<1>3. PICK back : Stands(it, back, c, n, IF back THEN last - index + 1 ELSE index + 1)
  BY <1>2, IteratorStands
<1> HIDE DEF it
<1>4. back \in BOOLEAN
  BY <1>3 DEF Stands
<1>5. Place(back, n, IF back THEN last - index + 1 ELSE index + 1) = index + 1
  BY <1>1, <1>4 DEF Place
<1>6. it = Around(back, c, n, index + 1)
  BY <1>3, <1>5 DEF Stands
<1>7. index + 1 - 1 = index
  OBVIOUS
<1> QED
  BY <1>6, <1>7 DEF Around, it

\* The chain that begins at position p.
Turning(c, n, p) ==
    [k \in 1..n |-> IF k <= n + 1 - p THEN c[k + p - 1] ELSE c[k + p - 1 - n]]

\* A chain that is turned has the same slots.
LEMMA TurningDistinct ==
    ASSUME NEW c, NEW n, Distinct(c, n), NEW p \in 2..n
    PROVE  LET d == Turning(c, n, p)
           IN  Distinct(d, n) /\ \A x : (\E k \in 1..n : x = d[k]) <=> \E k \in 1..n : x = c[k]
<1> DEFINE d == Turning(c, n, p)
           To(k) == IF k <= n + 1 - p THEN k + p - 1 ELSE k + p - 1 - n
           From(k) == IF k >= p THEN k + 1 - p ELSE k + 1 - p + n
<1>1. n \in Nat /\ \A i, j \in 1..n : c[i] = c[j] => i = j
  BY DEF Distinct
<1>2. \A k \in 1..n : To(k) \in 1..n /\ From(k) \in 1..n /\ To(From(k)) = k
  BY <1>1
<1>3. d \in [1..n -> Slot] /\ \A k \in 1..n : d[k] = c[To(k)]
  BY <1>1, <1>2 DEF Turning, Distinct
<1>4. \A i, j \in 1..n : To(i) = To(j) => i = j
  BY <1>1
<1> HIDE DEF d, To, From
<1>5. \A i, j \in 1..n : d[i] = d[j] => i = j
  BY <1>1, <1>2, <1>3, <1>4
<1>6. ASSUME NEW x PROVE (\E k \in 1..n : x = d[k]) <=> \E k \in 1..n : x = c[k]
  <2>1. ASSUME NEW k \in 1..n, x = d[k] PROVE \E j \in 1..n : x = c[j]
    BY <1>2, <1>3, <2>1
  <2>2. ASSUME NEW k \in 1..n, x = c[k] PROVE \E j \in 1..n : x = d[j]
    <3>1. d[From(k)] = c[k]
      BY <1>2, <1>3
    <3> QED
      BY <1>2, <2>2, <3>1
  <2> QED
    BY <2>1, <2>2
<1> QED
  BY <1>1, <1>3, <1>5, <1>6 DEF Distinct, d

Turns(v, y, x) ==
    [Split(Join(v, v.tail, v.head), y, x) EXCEPT !.head = x, !.tail = y]

\* The ends are joined, and the chain is split where it now begins.
LEMMA TurnsKeeps ==
    ASSUME NEW v, NEW c, NEW n, Shaped(v, c, n), n <= MaxLen, v.head = At(c, n, 1),
           NEW p \in 2..n
    PROVE  Keeps(v, Turns(v, c[p - 1], c[p]))
<1> DEFINE y == c[p - 1]
           x == c[p]
           a == c[n]
           b == c[1]
           u == Join(v, a, b)
           s == Split(u, y, x)
           w == Turns(v, y, x)
           d == Turning(c, n, p)
<1>1. /\ Nodes(v, c, n) /\ Typed(v) /\ Distinct(c, n) /\ n \in Nat
      /\ \A j \in 1..n : c[j] \in Slot /\ c[j] \in Address /\ c[j] # Null
      /\ \A i, j \in 1..n : c[i] = c[j] => i = j
      /\ Null \in Address /\ Null \notin Slot /\ Slot \subseteq Address
  BY SlotIsAddress DEF Shaped, Nodes, Distinct
<1>2. /\ \A k \in 1..n : v.next[c[k]] = IF k < n THEN c[k + 1] ELSE Null
      /\ v.double => \A k \in 1..n : v.prev[c[k]] = IF k > 1 THEN c[k - 1] ELSE Null
      /\ v.head = b /\ v.tail = a
  BY <1>1 DEF Nodes, Chained, At
<1>3. /\ x \in Slot /\ y \in Slot /\ a \in Slot /\ b \in Slot
      /\ x # b /\ y # a
  BY <1>1
<1>4. w = [s EXCEPT !.head = x, !.tail = y]
  BY <1>2 DEF Turns
<1> HIDE DEF x, y, a, b
<1>5. /\ DOMAIN u = DOMAIN v
      /\ u.next \in [Address -> Address] /\ u.prev \in [Address -> Address]
      /\ \A k \in Slot : u.next[k] = IF k = a THEN b ELSE v.next[k]
      /\ v.double => \A k \in Slot : u.prev[k] = IF k = b THEN a ELSE v.prev[k]
      /\ u.next[Null] = Null /\ u.prev[Null] = Null
      /\ \A field \in {"double", "fixed", "val", "cap", "occ", "frozen", "first",
                       "last", "live", "bad"} : u[field] = v[field]
  BY <1>1, <1>3 DEF Join, Typed
<1> HIDE DEF u
<1>6. /\ DOMAIN s = DOMAIN v
      /\ s.next \in [Address -> Address] /\ s.prev \in [Address -> Address]
      /\ \A k \in Slot : s.next[k] = IF k = y THEN Null ELSE u.next[k]
      /\ \A k \in Slot : s.prev[k] = IF k = x THEN Null ELSE u.prev[k]
      /\ s.next[Null] = Null /\ s.prev[Null] = Null
      /\ \A field \in {"double", "fixed", "val", "cap", "occ", "frozen", "first",
                       "last", "live", "bad"} : s[field] = u[field]
  BY <1>1, <1>3, <1>5 DEF Split, Typed
<1> HIDE DEF s
<1>7. /\ DOMAIN w = DOMAIN v /\ w.head = x /\ w.tail = y
      /\ w.next = s.next /\ w.prev = s.prev
      /\ \A field \in {"double", "fixed", "val", "cap", "occ", "frozen", "first",
                       "last", "live", "bad"} : w[field] = s[field]
  BY <1>1, <1>4, <1>6 DEF Typed
<1> HIDE DEF w, d
<1>8. /\ w.double = v.double /\ w.fixed = v.fixed /\ w.val = v.val /\ w.cap = v.cap
      /\ w.occ = v.occ /\ w.frozen = v.frozen /\ w.first = v.first /\ w.last = v.last
      /\ w.live = v.live /\ w.bad = v.bad
  BY <1>5, <1>6, <1>7
<1>9. /\ \A k \in Slot : w.next[k] = IF k = y THEN Null ELSE IF k = a THEN b ELSE v.next[k]
      /\ v.double =>
         \A k \in Slot : w.prev[k] = IF k = x THEN Null ELSE IF k = b THEN a ELSE v.prev[k]
  BY <1>5, <1>6, <1>7
<1>10. Typed(w)
  BY <1>1, <1>3, <1>6, <1>7, <1>8 DEF Typed
<1>11. /\ Distinct(d, n)
       /\ \A z : (\E k \in 1..n : z = d[k]) <=> \E k \in 1..n : z = c[k]
  BY <1>1, TurningDistinct DEF d
<1>12. \A k \in 1..n : d[k] = IF k <= n + 1 - p THEN c[k + p - 1] ELSE c[k + p - 1 - n]
  BY DEF d, Turning
<1>13. ASSUME NEW k \in 1..n PROVE w.next[d[k]] = At(d, n, k + 1)
  <2>1. At(d, n, k + 1) = IF k < n THEN d[k + 1] ELSE Null
    BY <1>1 DEF At
  <2>2. CASE k < n + 1 - p
    <3>1. d[k] = c[k + p - 1] /\ d[k + 1] = c[k + p] /\ k + p - 1 \in 1..n /\ k + p - 1 < n
      BY <1>1, <1>12, <2>2
    <3>2. d[k] # a /\ d[k] # y
      BY <1>1, <3>1, <2>2 DEF a, y
    <3> QED
      BY <1>1, <1>2, <1>9, <2>1, <3>1, <3>2
  <2>3. CASE k = n + 1 - p
    <3>1. d[k] = a /\ d[k + 1] = b /\ k < n
      BY <1>1, <1>12, <2>3 DEF a, b
    <3> QED
      BY <1>3, <1>9, <2>1, <3>1
  <2>4. CASE k > n + 1 - p /\ k < n
    <3>1. PICK j \in 1..n : j = k + p - 1 - n
      BY <1>1, <2>4
    <3>2. d[k] = c[j] /\ d[k + 1] = c[j + 1] /\ j < n /\ j < p - 1
      BY <1>1, <1>12, <2>4, <3>1
    <3>3. d[k] # a /\ d[k] # y
      BY <1>1, <3>2 DEF a, y
    <3> QED
      BY <1>1, <1>2, <1>9, <2>1, <2>4, <3>2, <3>3
  <2>5. CASE k = n
    <3>1. d[k] = y
      BY <1>1, <1>12, <2>5 DEF y
    <3> QED
      BY <1>3, <1>9, <2>1, <2>5, <3>1
  <2> QED
    BY <1>1, <2>2, <2>3, <2>4, <2>5
<1>14. ASSUME v.double, NEW k \in 1..n PROVE w.prev[d[k]] = At(d, n, k - 1)
  <2>1. At(d, n, k - 1) = IF k > 1 THEN d[k - 1] ELSE Null
    BY <1>1 DEF At
  <2>2. CASE k = 1
    <3>1. d[k] = x
      BY <1>1, <1>12, <2>2 DEF x
    <3> QED
      BY <1>3, <1>9, <1>14, <2>1, <2>2, <3>1
  <2>3. CASE k > 1 /\ k <= n + 1 - p
    <3>1. PICK j \in 1..n : j = k + p - 1
      BY <1>1, <2>3
    <3>2. d[k] = c[j] /\ d[k - 1] = c[j - 1] /\ j > p
      BY <1>1, <1>12, <2>3, <3>1
    <3>3. d[k] # x /\ d[k] # b
      BY <1>1, <3>2 DEF x, b
    <3> QED
      BY <1>1, <1>2, <1>9, <1>14, <2>1, <2>3, <3>2, <3>3
  <2>4. CASE k = n + 2 - p
    <3>1. d[k] = b /\ d[k - 1] = a /\ k > 1
      BY <1>1, <1>12, <2>4 DEF a, b
    <3> QED
      BY <1>3, <1>9, <1>14, <2>1, <3>1
  <2>5. CASE k > n + 2 - p
    <3>1. PICK j \in 1..n : j = k + p - 1 - n
      BY <1>1, <2>5
    <3>2. d[k] = c[j] /\ d[k - 1] = c[j - 1] /\ j > 1 /\ j < p /\ k > 1
      BY <1>1, <1>12, <2>5, <3>1
    <3>3. d[k] # x /\ d[k] # b
      BY <1>1, <3>2 DEF x, b
    <3> QED
      BY <1>1, <1>2, <1>9, <1>14, <2>1, <3>2, <3>3
  <2> QED
    BY <1>1, <2>2, <2>3, <2>4, <2>5
<1>15. w.head = d[1] /\ w.tail = d[n] /\ n > 0
  BY <1>1, <1>7, <1>12 DEF x, y
<1>16. Chained(w, d, n)
  BY <1>1, <1>8, <1>13, <1>14, <1>15 DEF Chained, At
<1>17. \A z \in Slot : z \in w.live <=> \E k \in 1..n : z = d[k]
  <2>1. \A z \in Slot : z \in v.live <=> \E k \in 1..n : z = c[k]
    BY <1>1 DEF Nodes
  <2> QED
    BY <1>8, <1>11, <2>1
<1>18. Nodes(w, d, n)
  <2>1. w.occ = n
    BY <1>1, <1>8 DEF Nodes
  <2> QED
    BY <1>10, <1>11, <1>16, <1>17, <2>1 DEF Nodes
<1>19. \E f, m : Memory(w, f, m)
  <2>1. PICK f, m : Memory(v, f, m)
    BY DEF Shaped
  <2>2. \A z \in Slot : z \notin v.live => w.next[z] = v.next[z]
    <3>1. ASSUME NEW z \in Slot, z \notin v.live PROVE z # y /\ z # a
      <4>1. \A k \in 1..n : z # c[k]
        BY <1>1, <3>1 DEF Nodes
      <4> QED
        BY <1>1, <4>1 DEF y, a
    <3> QED
      BY <1>9, <3>1
  <2> QED
    BY <1>8, <2>1, <2>2, MemoryStays
<1>20. Stays(v, w)
  BY <1>8 DEF Stays
<1> QED
  BY <1>18, <1>19, <1>20 DEF Keeps, Shaped, w, x, y

\* algorithms/rotate.h
LEMMA RotateKeeps ==
    ASSUME NEW v, NEW c, NEW n, Shaped(v, c, n), n <= MaxLen, ~v.bad, v.occ # 0, NEW i \in Int
    PROVE  Keeps(v, Rotated(v, i))
<1> DEFINE steps == Magnitude(i) % v.occ
           index == IF i < 0 THEN steps ELSE v.occ - steps
           it == IteratorAt(v, index, v.occ - 1)
<1>1. Nodes(v, c, n) /\ n \in Nat /\ v.occ = n /\ n > 0 /\ v.head = At(c, n, 1)
  BY AttachedSound DEF Sound, Shaped, Nodes, Distinct
<1>2. steps \in 0..(n - 1)
  <2>1. Magnitude(i) \in Int
    BY DEF Magnitude
  <2> QED
    BY <1>1, <2>1
<1>3. Rotated(v, i) = IF steps = 0 THEN v ELSE Turns(v, it.prev, it.curr)
  BY DEF Rotated, Turns
<1> HIDE DEF steps, it
<1>4. CASE steps = 0
  BY <1>3, <1>4, KeepsItself
<1>5. CASE steps # 0
  <2>1. index \in 1..(n - 1)
    BY <1>1, <1>2, <1>5
  <2> HIDE DEF index
  <2>2. PICK last \in Int : last = v.occ - 1
    BY <1>1
  <2>3. it.prev = At(c, n, index) /\ it.curr = At(c, n, index + 1)
    BY <1>1, <2>1, <2>2, IteratorIs DEF it
  <2>4. PICK p \in 2..n : p = index + 1
    BY <1>1, <2>1
  <2>5. it.prev = c[p - 1] /\ it.curr = c[p]
    BY <1>1, <2>1, <2>3, <2>4 DEF At
  <2> QED
    BY <1>1, <1>3, <1>5, <2>5, TurnsKeeps
<1> QED
  BY <1>4, <1>5

(***************************************************************************)
(* repeat(): each copy is appended from an iterator of its own.            *)
(***************************************************************************)
\* The list after some copies of v, which may have met undefined behaviour.
Copied(v, w, n) ==
    \/ w.bad
    \/ /\ ~w.bad /\ \E d, m : Shaped(w, d, m) /\ m <= n /\ m >= 1
       /\ Pinned(v) => Grown(v, w)

\* One copy more.
LEMMA CopyStepShaped ==
    ASSUME NEW v, NEW c, NEW n, Shaped(v, c, n), n >= 1, NEW w, NEW size \in Int,
           NEW bigger \in Int, size < bigger, bigger <= size + 1, bigger <= MaxLen,
           Copied(v, w, size), NEW k \in Nat \ {0}
    PROVE  Copied(v, CopyStep(w, v, k), bigger)
<1> DEFINE x == w.val[AdvanceBy(w, Begin(w), (k - 1) % v.occ).curr]
           r == AppendTo(w, x)
<1>1. n \in Nat /\ v.occ = n /\ Typed(v) /\ MaxLen \in Nat
  BY ListAssumption DEF Shaped, Nodes, Distinct
<1>2. Broken(v).bad
  BY <1>1 DEF Broken, Typed
<1>3. CopyStep(w, v, k) = IF w.bad \/ Moved(w, r.v) THEN Broken(v) ELSE r.v
  BY DEF CopyStep
<1> HIDE DEF x, r
<1>4. CASE w.bad \/ Moved(w, r.v)
  BY <1>2, <1>3, <1>4 DEF Copied
<1>5. CASE ~w.bad /\ ~Moved(w, r.v)
  <2>1. PICK d, m : Shaped(w, d, m) /\ m <= size /\ m >= 1
    BY <1>5 DEF Copied
  <2>2. Nodes(w, d, m) /\ Typed(w) /\ m \in Nat /\ w.head = At(d, m, 1)
    <3>1. Nodes(w, d, m) /\ Typed(w) /\ m \in Nat
      BY <2>1 DEF Shaped, Nodes, Distinct
    <3>2. m > 0
      BY <2>1, <3>1
    <3> QED
      BY <2>1, <3>1, <3>2, AttachedSound DEF Sound
  <2>3. PICK t \in Nat : t = (k - 1) % v.occ
    BY <1>1
  <2>4. Stands(AdvanceBy(w, Begin(w), t), FALSE, d, m, t + 1)
    BY <2>2, BeginByStands
  <2>5. AdvanceBy(w, Begin(w), t).curr = At(d, m, t + 1)
    BY <2>4 DEF Stands, Around, Place
  <2>6. x \in Values
    <3>1. At(d, m, t + 1) \in Address
      BY <2>2, AtSlot DEF Nodes
    <3> QED
      BY <2>2, <2>3, <2>5, <3>1 DEF x, Typed
  <2>7. m <= MaxLen /\ m + 1 <= bigger /\ m <= bigger /\ m + 1 >= 1
    BY <1>1, <2>1, <2>2
  <2>8. Longer(w, d, m, r, m + 1)
    BY <1>5, <2>1, <2>6, <2>7, AppendLonger DEF r
  <2>9. CASE r.v.bad
    BY <1>3, <1>5, <2>9 DEF Copied
  <2>10. CASE ~r.v.bad
    <3>1. \E e, j : Shaped(r.v, e, j) /\ j <= bigger /\ j >= 1
      <4>1. CASE r.ret = None
        <5>1. PICK e, y : Sound(r.v, With(e, m, m + 1, y), m + 1)
          BY <2>8, <2>10, <4>1 DEF Longer
        <5>2. PICK z, j : z = With(e, m, m + 1, y) /\ j = m + 1
          OBVIOUS
        <5> QED
          BY <2>7, <5>1, <5>2 DEF Sound
      <4>2. CASE r.ret # None
        BY <2>1, <2>7, <2>8, <2>10, <4>2 DEF Longer
      <4> QED
        BY <4>1, <4>2
    <3>2. Pinned(v) => Grown(v, r.v)
      BY <1>5, <2>8, <2>10, StaysSteps DEF Longer, Copied
    <3> QED
      BY <1>3, <1>5, <2>10, <3>1, <3>2 DEF Copied
  <2> QED
    BY <2>9, <2>10
<1> QED
  BY <1>4, <1>5

\* All copies.
LEMMA CopiesShaped ==
    ASSUME NEW v, NEW c, NEW n, Shaped(v, c, n), n >= 1, ~v.bad, NEW e, NEW q,
           q \in Nat, q = e * v.occ, n + q <= MaxLen
    PROVE  Copied(v, Copies(v, e), MaxLen)
<1>1. n \in Nat /\ v.occ = n /\ MaxLen \in Nat
  BY ListAssumption DEF Shaped, Nodes, Distinct
<1>2. PICK d : /\ Copies(v, e) = d[q]
               /\ d[0] = v
               /\ \A k \in 1..q : d[k] = CopyStep(d[k - 1], v, k)
  BY CopiesSteps
<1> DEFINE S == {k \in 0..q : Copied(v, d[k], n + k)}
<1>3. 0 \in S
  <2>1. Copied(v, v, n)
    BY <1>1, StaysSteps DEF Copied
  <2> QED
    BY <1>1, <1>2, <2>1
<1>4. ASSUME NEW k \in 0..q, k < q, k \in S PROVE k + 1 \in S
  <2>1. PICK size \in Int, bigger \in Int, j \in Nat \ {0} :
          size = n + k /\ bigger = n + k + 1 /\ j = k + 1
    BY <1>1
  <2>2. Copied(v, d[k], size) /\ d[j] = CopyStep(d[k], v, j)
    BY <1>2, <1>4, <2>1
  <2>3. size < bigger /\ bigger <= size + 1 /\ bigger <= MaxLen
    BY <1>1, <1>4, <2>1
  <2>4. Copied(v, CopyStep(d[k], v, j), bigger)
    BY <2>2, <2>3, CopyStepShaped
  <2>5. n + j = bigger /\ j \in 0..q
    BY <1>1, <1>4, <2>1
  <2> QED
    BY <2>1, <2>2, <2>4, <2>5
<1> HIDE DEF S
<1>5. q \in S
  BY <1>3, <1>4, Climb
<1>6. Copied(v, d[q], n + q)
  BY <1>5 DEF S
<1>7. \A m : m \in Nat /\ m <= n + q => m <= MaxLen
  BY <1>1
<1> QED
  BY <1>2, <1>6, <1>7 DEF Copied, Shaped, Nodes, Distinct

\* algorithms/repeat.h
LEMMA RepeatKeeps ==
    ASSUME NEW v, NEW c, NEW n, Shaped(v, c, n), n <= MaxLen, ~v.bad, NEW i \in Int,
           i * v.occ <= MaxLen
    PROVE  Keeps(v, RepeatedIn(v, i).v)
<1> DEFINE r == Reserve(v, i * v.occ)
           w == Release(r.v, r.guard)
           e == i - 1
<1>1. n \in Nat /\ v.occ = n /\ MaxLen \in Nat
  BY ListAssumption DEF Shaped, Nodes, Distinct
<1>2. Keeps(v, v) /\ Keeps(v, Clear(v))
  BY KeepsItself, ClearKeeps
<1>3. CASE i < 0 \/ v.occ = 0
  BY <1>2, <1>3 DEF RepeatedIn, Outcome
<1>4. CASE i >= 0 /\ v.occ # 0 /\ r.ret # None
  BY <1>2, <1>4 DEF RepeatedIn, Outcome
<1>5. CASE i >= 0 /\ v.occ # 0 /\ r.ret = None
  <2>1. PICK k \in Nat : k = i * v.occ
    BY <1>1, <1>5
  <2>2. Reserved(v, c, n, r) /\ n <= k
    BY <1>5, <2>1, ReserveShaped
  <2>3. RepeatedIn(v, i).v = Copies(w, e)
    BY <1>5 DEF RepeatedIn, Outcome
  <2> HIDE DEF r
  <2>4. ~Dangling(v)
    BY <1>1, <1>5, AttachedSound
  <2>5. ~r.v.bad /\ r.guard \in BOOLEAN /\ \E d : Shaped(r.v, d, n)
    BY <1>5, <2>2, <2>4 DEF Reserved
  <2>6. PICK d : Shaped(r.v, d, n)
    BY <2>5
  <2>7. ~Dangling(r.v) /\ n <= MaxLen + 1
    BY <1>1, <1>5, <2>6, AttachedSound
  <2>8. /\ ~r.guard => w = r.v
        /\ ~w.bad /\ \E f : Shaped(w, f, n)
    BY <2>5, <2>6, <2>7, ReleaseShaped
  <2>9. v.frozen => w = v
    BY <1>5, <2>2, <2>8 DEF Reserved, Pinned
  <2> HIDE DEF w
  <2>10. PICK f : Shaped(w, f, n)
    BY <2>8
  <2>11. PICK q \in Int : q = k - n
    BY <1>1
  <2>12. q \in Nat /\ n + q <= MaxLen /\ q = e * w.occ
    <3>1. w.occ = n
      BY <2>10 DEF Shaped, Nodes
    <3>2. k = i * n /\ k <= MaxLen
      BY <1>1, <2>1
    <3>3. (i - 1) * n = i * n - n
      BY <1>1
    <3> QED
      BY <1>1, <2>2, <2>11, <3>1, <3>2, <3>3
  <2> HIDE DEF e
  <2>13. Copied(w, Copies(w, e), MaxLen)
    BY <1>1, <1>5, <2>8, <2>10, <2>12, CopiesShaped
  <2> DEFINE u == Copies(w, e)
  <2> HIDE DEF u
  <2>14. ~u.bad => \E g, m : Shaped(u, g, m) /\ m <= MaxLen
    BY <2>13 DEF Copied, u
  <2>15. ~u.bad /\ v.frozen => Stays(v, u)
    BY <2>9, <2>13, StaysSteps DEF Copied, u, Pinned
  <2> QED
    BY <2>3, <2>14, <2>15 DEF Keeps, u
<1> QED
  BY <1>3, <1>4, <1>5

(***************************************************************************)
(* The loops that drop nodes from an array that stays where it is.         *)
(***************************************************************************)
\* The chain d is c without t nodes from position q on, seen from one end.
Without(c, n, d, m, back, q, t) ==
    \A j \in Int : Seen(d, m, back, j) =
                     IF j < q THEN Seen(c, n, back, j) ELSE Seen(c, n, back, j + t)

\* The list w, where an iterator stands at position q, is v without some nodes.
Cut(v, w, it, back, d, m, q) ==
    Sound(w, d, m) /\ Shrunk(v, w) /\ Stands(it, back, d, m, q)

\* One step of a loop that drops nodes.
LEMMA TakeCuts ==
    ASSUME NEW v, NEW c, NEW n, Shaped(v, c, n), Pinned(v), ~v.bad, NEW it, NEW back,
           NEW m \in Int, NEW q \in Int, m < n, n <= m + 1, 1 <= q, q <= n,
           Stands(it, back, c, n, q), back => v.double
    PROVE  LET u == UnlinkAt(v, it)
           IN  \E d : /\ Cut(v, Recycle(u, it.curr), AfterDrop(u, it), back, d, m, q)
                      /\ Without(c, n, d, m, back, q, 1)
<1> DEFINE u == UnlinkAt(v, it)
           w == Recycle(u, it.curr)
           a == AfterDrop(u, it)
           d == Less(c, n, Place(back, n, q))
<1>1. n \in Nat /\ back \in BOOLEAN /\ m = n - 1 /\ q \in 1..n
  BY DEF Shaped, Nodes, Distinct, Stands
<1>2. Sound(w, d, n - 1) /\ Shrunk(v, w) /\ Stands(a, back, d, n - 1, q)
  BY TakeStands
<1> HIDE DEF w, a
<1>3. \A j \in Int : Seen(d, n - 1, back, j) =
                       IF j < q THEN Seen(c, n, back, j) ELSE Seen(c, n, back, j + 1)
  BY <1>1, SeenLess
<1> HIDE DEF d
<1>4. Cut(v, w, a, back, d, m, q) /\ Without(c, n, d, m, back, q, 1)
  BY <1>1, <1>2, <1>3 DEF Cut, Without
<1> QED
  BY <1>4 DEF w, a

\* Steps that follow each other take a run of nodes.
LEMMA WithoutMore ==
    ASSUME NEW c, NEW n, NEW d, NEW m, NEW e, NEW k, NEW back, NEW q \in Int,
           NEW t \in Int, NEW s \in Int, t < s, s <= t + 1, t >= 0,
           Without(c, n, d, m, back, q, t), Without(d, m, e, k, back, q, 1)
    PROVE  Without(c, n, e, k, back, q, s)
<1>1. s = t + 1
  OBVIOUS
<1>2. ASSUME NEW j \in Int
      PROVE  Seen(e, k, back, j) = IF j < q THEN Seen(c, n, back, j) ELSE Seen(c, n, back, j + s)
  <2>1. CASE j < q
    BY <2>1 DEF Without
  <2>2. CASE ~(j < q)
    <3>1. PICK i \in Int : i = j + 1
      OBVIOUS
    <3>2. Seen(e, k, back, j) = Seen(d, m, back, i)
      BY <2>2, <3>1 DEF Without
    <3>3. ~(i < q) /\ i + t = j + s
      BY <1>1, <2>2, <3>1
    <3>4. Seen(d, m, back, i) = Seen(c, n, back, i + t)
      BY <3>3 DEF Without
    <3> QED
      BY <2>2, <3>2, <3>3, <3>4
  <2> QED
    BY <2>1, <2>2
<1> QED
  BY <1>2 DEF Without

\* The steps of the loop.
Dropping(d, v, it, t) ==
    /\ DropAll(v, it, t) = d[t].v
    /\ d[0] = [v |-> v, it |-> it]
    /\ \A k \in 1..t : d[k] = DropStep(d[k - 1])

\* The loop as a function of its steps.
LEMMA DropAllWalk ==
    ASSUME NEW v, NEW it, NEW t \in Int, t >= 0
    PROVE  \E d : Dropping(d, v, it, t)
BY DropAllSteps DEF Dropping

\* It takes the run of nodes that its iterator meets.
LEMMA DropAllCuts ==
    ASSUME NEW v, NEW c, NEW n, Shaped(v, c, n), v.head = At(c, n, 1), Pinned(v), ~v.bad,
           NEW it, NEW back,
           NEW q \in Int, NEW t \in Int, NEW m \in Int, 1 <= q, t >= 0, q + t <= n + 1,
           m + t <= n, n <= m + t,
           Stands(it, back, c, n, q), back => v.double
    PROVE  LET w == DropAll(v, it, t)
           IN  \E d : Sound(w, d, m) /\ Shrunk(v, w) /\ Without(c, n, d, m, back, q, t)
<1>1. n \in Nat /\ t \in Nat /\ m = n - t /\ back \in BOOLEAN
  BY DEF Shaped, Nodes, Distinct, Stands
<1>2. PICK D : Dropping(D, v, it, t)
  BY DropAllWalk
<1> DEFINE Good(k) == \E d, j : /\ j = n - k
                                /\ Cut(v, D[k].v, D[k].it, back, d, j, q)
                                /\ Without(c, n, d, j, back, q, k)
           S == {k \in 0..t : Good(k)}
<1>3. 0 \in S
  <2>1. Cut(v, v, it, back, c, n, q)
    BY StaysSteps DEF Cut, Sound
  <2>2. Without(c, n, c, n, back, q, 0)
    <3>1. \A j \in Int : j + 0 = j
      OBVIOUS
    <3> QED
      BY <3>1 DEF Without
  <2>3. D[0].v = v /\ D[0].it = it /\ n - 0 = n
    BY <1>1, <1>2 DEF Dropping
  <2>4. Good(0)
    BY <2>1, <2>2, <2>3
  <2> QED
    BY <1>1, <2>4
<1>4. ASSUME NEW k \in 0..t, k < t, k \in S PROVE k + 1 \in S
  <2> DEFINE x == D[k].v
             i == D[k].it
             u == UnlinkAt(x, i)
             y == Recycle(u, i.curr)
             a == AfterDrop(u, i)
  <2>1. PICK d, j : /\ j = n - k
                    /\ Cut(v, x, i, back, d, j, q)
                    /\ Without(c, n, d, j, back, q, k)
    BY <1>4
  <2>2. PICK l \in Int, s \in Int : l = j - 1 /\ s = k + 1
    BY <1>1, <2>1
  <2>3. D[s].v = y /\ D[s].it = a
    <3>1. s \in 1..t /\ s - 1 = k
      BY <1>4, <2>2
    <3>2. D[s] = DropStep(D[k])
      BY <1>2, <3>1 DEF Dropping
    <3> QED
      BY <3>2 DEF DropStep
  <2> HIDE DEF x, i
  <2>4. Shaped(x, d, j) /\ Shrunk(v, x) /\ Stands(i, back, d, j, q)
    BY <2>1 DEF Cut, Sound
  <2>5. Pinned(x) /\ ~x.bad /\ (back => x.double)
    BY <2>4, StaysSteps DEF Shrunk, SameFlags
  <2>6. l < j /\ j <= l + 1 /\ q <= j /\ k < s /\ s <= k + 1 /\ k >= 0 /\ l = n - s /\ s \in 0..t
    BY <1>1, <1>4, <2>1, <2>2
  <2>7. PICK e : Cut(x, y, a, back, e, l, q) /\ Without(d, j, e, l, back, q, 1)
    BY <2>4, <2>5, <2>6, TakeCuts
  <2> HIDE DEF y, a
  <2>8. Cut(v, y, a, back, e, l, q)
    BY <2>4, <2>7, StaysSteps DEF Cut
  <2>9. Without(c, n, e, l, back, q, s)
    BY <2>1, <2>6, <2>7, WithoutMore
  <2>10. Good(s)
    BY <2>3, <2>6, <2>8, <2>9
  <2> HIDE DEF Good
  <2> QED
    BY <2>2, <2>6, <2>10
<1> HIDE DEF S
<1>5. t \in S
  BY <1>1, <1>3, <1>4, Climb
<1>6. Good(t)
  BY <1>5 DEF S
<1>7. \E d : Sound(D[t].v, d, m) /\ Shrunk(v, D[t].v) /\ Without(c, n, d, m, back, q, t)
  BY <1>1, <1>6 DEF Cut
<1> QED
  BY <1>2, <1>7 DEF Dropping

(***************************************************************************)
(* The roll-back of an extend.                                             *)
(***************************************************************************)
\* The room that a list has already, as it is reserved to hold the array.
LEMMA ReserveOwn ==
    ASSUME NEW v, NEW c, NEW n, Shaped(v, c, n), n >= 1, n <= MaxLen, ~v.bad
    PROVE  LET r == Reserve(v, v.occ)
           IN  /\ Reserved(v, c, n, r) /\ r.ret = None /\ r.guard \in BOOLEAN
               /\ Pinned(r.v) /\ ~r.v.bad /\ r.v.double = v.double
               /\ \E d : Sound(r.v, d, n) /\ Alike(v, c, r.v, d, n)
<1> DEFINE r == Reserve(v, v.occ)
<1>1. n \in Nat /\ v.occ = n /\ n > 0 /\ v.cap \in Nat
  BY DEF Shaped, Nodes, Distinct, Typed
<1>2. v.occ <= v.cap
  <2>1. PICK f, m : Memory(v, f, m)
    BY DEF Shaped
  <2>2. m \in Nat /\ v.occ + m <= v.cap
    BY <2>1 DEF Memory, Packed, Distinct
  <2> QED
    BY <1>1, <2>2
<1>3. r.ret = None
  BY <1>1, <1>2 DEF Reserve
<1>4. ~Dangling(v)
  BY <1>1, AttachedSound
<1>5. Reserved(v, c, n, r)
  BY <1>1, ReserveShaped
<1> HIDE DEF r
<1>6. /\ r.guard \in BOOLEAN /\ Pinned(r.v) /\ ~r.v.bad /\ r.v.double = v.double
      /\ \E d : Shaped(r.v, d, n) /\ Alike(v, c, r.v, d, n)
  BY <1>3, <1>4, <1>5 DEF Reserved
<1>7. \A d : Shaped(r.v, d, n) => Sound(r.v, d, n)
  BY <1>1, AttachedSound
<1> QED
  BY <1>3, <1>5, <1>6, <1>7 DEF r

\* The list w with the chain d is v as it was before e added elements.
Restores(v, c, n, w, d, e) ==
    \A j \in 1..e.start :
        w.val[d[j]] = v.val[c[IF e.side = "head" THEN j + (n - e.start) ELSE j]]

BackIt(v, double, e) ==
    IF e.side = "head" THEN Begin(v)
    ELSE IF double THEN RBegin(v)
    ELSE AdvanceBy(v, Begin(v), e.start)

\* The items of the extend are dropped and the old elements are left.
LEMMA DropsBack ==
    ASSUME NEW v, NEW c, NEW n, Sound(v, c, n), Pinned(v), ~v.bad, NEW e, NEW t \in Int,
           e.start \in Int, e.start >= 0, t >= 1, t + e.start <= n,
           n <= t + e.start
    PROVE  LET w == DropAll(v, BackIt(v, v.double, e), t)
           IN  \E d : Sound(w, d, e.start) /\ Shrunk(v, w) /\ Restores(v, c, n, w, d, e)
<1> DEFINE it == BackIt(v, v.double, e)
           w == DropAll(v, it, t)
<1>1. /\ n \in Nat /\ Nodes(v, c, n) /\ v.head = At(c, n, 1) /\ Shaped(v, c, n)
      /\ v.double \in BOOLEAN
  BY DEF Sound, Shaped, Nodes, Distinct, Typed
<1>2. PICK m \in Int : m = e.start
  OBVIOUS
<1> DEFINE back == e.side # "head" /\ v.double
           q == IF e.side = "head" \/ v.double THEN 1 ELSE m + 1
<1>3. /\ back \in BOOLEAN /\ q \in Int /\ 1 <= q /\ q + t <= n + 1 /\ (back => v.double)
      /\ Stands(it, back, c, n, q)
      /\ e.side = "head" => back = FALSE /\ q = 1
      /\ e.side # "head" /\ v.double => back = TRUE /\ q = 1
      /\ e.side # "head" /\ ~v.double => back = FALSE /\ q = m + 1
  <2>1. /\ back \in BOOLEAN /\ q \in Int /\ 1 <= q /\ q + t <= n + 1 /\ (back => v.double)
        /\ e.side = "head" => back = FALSE /\ q = 1
        /\ e.side # "head" /\ v.double => back = TRUE /\ q = 1
        /\ e.side # "head" /\ ~v.double => back = FALSE /\ q = m + 1
    BY <1>1, <1>2
  <2> HIDE DEF back, q
  <2>2. CASE e.side = "head"
    <3>1. Stands(it, FALSE, c, n, 1)
      BY <1>1, <2>2, BeginStands DEF BackIt
    <3> QED
      BY <2>1, <2>2, <3>1
  <2>3. CASE e.side # "head" /\ v.double
    <3>1. Stands(it, TRUE, c, n, 1)
      BY <1>1, <2>3, BeginStands DEF BackIt
    <3> QED
      BY <2>1, <2>3, <3>1
  <2>4. CASE e.side # "head" /\ ~v.double
    <3>1. PICK k \in Nat : k = e.start
      OBVIOUS
    <3>2. Stands(AdvanceBy(v, Begin(v), k), FALSE, c, n, k + 1)
      BY <1>1, BeginByStands
    <3>3. Stands(it, FALSE, c, n, m + 1)
      BY <1>2, <2>4, <3>1, <3>2 DEF BackIt
    <3> QED
      BY <2>1, <2>4, <3>3
  <2> QED
    BY <2>2, <2>3, <2>4
<1> HIDE DEF back, q
<1> HIDE DEF it
<1>4. m = n - t /\ m + t <= n /\ n <= m + t /\ t >= 0
  BY <1>1, <1>2
<1>5. PICK d : Sound(w, d, m) /\ Shrunk(v, w) /\ Without(c, n, d, m, back, q, t)
  <2>1. m + t <= n /\ n <= m + t
    BY <1>4
  <2>2. /\ q \in Int /\ 1 <= q /\ q + t <= n + 1 /\ (back => v.double)
        /\ Stands(it, back, c, n, q) /\ t >= 0
    BY <1>3, <1>4
  <2>3. Shaped(v, c, n) /\ v.head = At(c, n, 1)
    BY <1>1
  <2> QED
    BY <2>1, <2>2, <2>3, DropAllCuts
<1> HIDE DEF w
<1> DEFINE To(j) == IF e.side = "head" THEN j + (n - m) ELSE j
<1>6. ASSUME NEW j \in 1..m PROVE At(d, m, j) = At(c, n, To(j))
  <2>1. CASE e.side = "head"
    <3>1. Seen(d, m, back, j) = Seen(c, n, back, j + t)
      BY <1>3, <1>5, <2>1 DEF Without
    <3> QED
      BY <1>1, <1>3, <1>4, <2>1, <3>1 DEF Seen, Place
  <2>2. CASE e.side # "head" /\ v.double
    <3>1. PICK i \in Int : i = m + 1 - j
      OBVIOUS
    <3>2. ~(i < q)
      BY <1>3, <2>2, <3>1
    <3>3. Seen(d, m, back, i) = Seen(c, n, back, i + t)
      BY <1>5, <3>2 DEF Without
    <3>4. m + 1 - i = j /\ n + 1 - (i + t) = j
      BY <1>1, <1>4, <3>1
    <3> QED
      BY <1>3, <2>2, <3>3, <3>4 DEF Seen, Place
  <2>3. CASE e.side # "head" /\ ~v.double
    <3>1. j < q
      BY <1>3, <2>3
    <3>2. Seen(d, m, back, j) = Seen(c, n, back, j)
      BY <1>5, <3>1 DEF Without
    <3> QED
      BY <1>3, <2>3, <3>2 DEF Seen, Place
  <2> QED
    BY <1>1, <2>1, <2>2, <2>3
<1>7. ASSUME NEW j \in 1..m PROVE w.val[d[j]] = v.val[c[To(j)]]
  <2>1. To(j) \in 1..n
    BY <1>1, <1>4
  <2>2. d[j] = c[To(j)]
    BY <1>6, <2>1 DEF At
  <2>3. d[j] \in w.live
    BY <1>5 DEF Sound, Shaped, Nodes, Distinct
  <2> QED
    BY <1>5, <2>2, <2>3 DEF Shrunk
<1>8. Restores(v, c, n, w, d, e)
  BY <1>2, <1>7 DEF Restores
<1> QED
  BY <1>2, <1>5, <1>8 DEF w, it

\* The whole roll-back, under the guard it takes and before the one it ends.
LEMMA RollBackShaped ==
    ASSUME NEW v, NEW c, NEW n, Shaped(v, c, n), n <= MaxLen, ~v.bad,
           NEW e, e.start \in Int, e.start >= 0, e.hold \in BOOLEAN
    PROVE  LET w == RollBack(v, e)
           IN  ~w.bad => /\ e.start <= MaxLen
                         /\ \E d : Shaped(w, d, e.start) /\ Restores(v, c, n, w, d, e)
                         /\ v.frozen /\ w.frozen => Stays(v, w)
<1> DEFINE t == v.occ - e.start
           r == Reserve(v, v.occ)
           y == DropAll(r.v, BackIt(r.v, v.double, e), t)
           x == Release(y, r.guard)
           z == IF t < 0 THEN Broken(v) ELSE IF t = 0 THEN v ELSE x
           w == RollBack(v, e)
<1>1. n \in Nat /\ v.occ = n /\ Typed(v) /\ MaxLen \in Nat /\ n <= MaxLen + 1
  BY ListAssumption DEF Shaped, Nodes, Distinct
<1>2. w = IF z.bad THEN z ELSE Release(z, e.hold)
  BY DEF RollBack, BackIt
<1>3. Broken(v).bad
  BY <1>1 DEF Broken, Typed
<1> SUFFICES ~w.bad => /\ e.start <= MaxLen
                       /\ \E d : Shaped(w, d, e.start) /\ Restores(v, c, n, w, d, e)
                       /\ v.frozen /\ w.frozen => Stays(v, w)
  OBVIOUS
<1> HIDE DEF w, x
<1>7. t \in Int
  BY <1>1
<1>4. CASE t < 0
  BY <1>2, <1>3, <1>4
<1>5. CASE t = 0
  <2>1. n = e.start /\ w = Release(v, e.hold)
    BY <1>1, <1>2, <1>5
  <2>2. /\ ~e.hold => w = v
        /\ ~w.bad => /\ e.hold => ~w.frozen
                     /\ \E d : Shaped(w, d, n) /\ Alike(v, c, w, d, n)
    BY <1>1, <2>1, ReleaseShaped
  <2>3. v.frozen /\ w.frozen /\ ~w.bad => Stays(v, w)
    BY <2>2, StaysSteps
  <2>4. \A j \in 1..n : j + (n - n) = j
    BY <1>1
  <2>5. ASSUME ~w.bad PROVE \E d : Shaped(w, d, n) /\ Restores(v, c, n, w, d, e)
    <3>1. PICK d : Shaped(w, d, n) /\ Alike(v, c, w, d, n)
      BY <2>2, <2>5
    <3>2. Restores(v, c, n, w, d, e)
      BY <2>1, <2>4, <3>1 DEF Restores, Alike
    <3> QED
      BY <3>1, <3>2
  <2> QED
    BY <1>1, <2>1, <2>3, <2>5
<1>6. CASE t > 0
  <2>1. n >= 1 /\ t >= 1
    BY <1>1, <1>6
  <2>2. /\ Reserved(v, c, n, r) /\ r.ret = None /\ r.guard \in BOOLEAN
        /\ Pinned(r.v) /\ ~r.v.bad /\ r.v.double = v.double
        /\ \E d : Sound(r.v, d, n) /\ Alike(v, c, r.v, d, n)
    BY <2>1, ReserveOwn
  <2> HIDE DEF r
  <2>3. PICK d : Sound(r.v, d, n) /\ Alike(v, c, r.v, d, n)
    BY <2>2
  <2>4. PICK m \in Int, s \in Int : m = e.start /\ s = t
    BY <1>1
  <2>5. PICK f : Sound(y, f, m) /\ Shrunk(r.v, y) /\ Restores(r.v, d, n, y, f, e)
    <3>1. s >= 1 /\ s + e.start <= n /\ n <= s + e.start
      BY <1>1, <1>6, <2>4
    <3>2. \E g : /\ Sound(DropAll(r.v, BackIt(r.v, r.v.double, e), s), g, e.start)
                 /\ Shrunk(r.v, DropAll(r.v, BackIt(r.v, r.v.double, e), s))
                 /\ Restores(r.v, d, n, DropAll(r.v, BackIt(r.v, r.v.double, e), s), g, e)
      BY <2>2, <2>3, <3>1, DropsBack
    <3> QED
      BY <2>2, <2>4, <3>2
  <2> HIDE DEF y
  <2>6. ~Dangling(y) /\ ~y.bad /\ Shaped(y, f, m) /\ m <= MaxLen + 1 /\ m <= MaxLen
    BY <1>1, <1>6, <2>2, <2>4, <2>5, SoundAttached DEF Shrunk, Sound
  <2>7. /\ ~r.guard => x = y
        /\ ~x.bad /\ \E g : Shaped(x, g, m) /\ Alike(y, f, x, g, m)
    BY <2>2, <2>6, ReleaseShaped DEF x
  <2>8. PICK g : Shaped(x, g, m) /\ Alike(y, f, x, g, m)
    BY <2>7
  <2>9. w = Release(x, e.hold)
    BY <1>2, <1>6, <1>7, <2>7
  <2>10. /\ ~e.hold => w = x
         /\ ~w.bad => /\ e.hold => ~w.frozen
                      /\ \E h : Shaped(w, h, m) /\ Alike(x, g, w, h, m)
    BY <2>6, <2>7, <2>8, <2>9, ReleaseShaped
  <2>11. v.frozen /\ w.frozen /\ ~w.bad => Stays(v, w)
    <3>1. v.frozen => r.v = v /\ ~r.guard
      BY <2>2 DEF Reserved, Pinned
    <3> QED
      BY <2>5, <2>7, <2>10, <3>1, StaysSteps
  <2>12. ASSUME ~w.bad PROVE \E h : Shaped(w, h, m) /\ Restores(v, c, n, w, h, e)
    <3>1. PICK h : Shaped(w, h, m) /\ Alike(x, g, w, h, m)
      BY <2>10, <2>12
    <3> DEFINE To(j) == IF e.side = "head" THEN j + (n - m) ELSE j
    <3>2. ASSUME NEW j \in 1..m PROVE w.val[h[j]] = v.val[c[To(j)]]
      <4>1. To(j) \in 1..n
        BY <1>1, <1>6, <2>4
      <4>2. w.val[h[j]] = x.val[g[j]] /\ x.val[g[j]] = y.val[f[j]]
        BY <2>8, <3>1 DEF Alike
      <4>3. y.val[f[j]] = r.v.val[d[To(j)]]
        BY <2>4, <2>5 DEF Restores
      <4>4. r.v.val[d[To(j)]] = v.val[c[To(j)]]
        BY <2>3, <4>1 DEF Alike
      <4> QED
        BY <4>2, <4>3, <4>4
    <3>3. Restores(v, c, n, w, h, e)
      BY <2>4, <3>2 DEF Restores
    <3> QED
      BY <3>1, <3>3
  <2> QED
    BY <2>4, <2>6, <2>11, <2>12
<1> HIDE DEF t
<1> QED
  BY <1>4, <1>5, <1>6, <1>7

\* A refused item leaves the list as it was made ready for it.
LEMMA AppendFails ==
    ASSUME NEW v, NEW c, NEW n, Shaped(v, c, n), n <= MaxLen, ~v.bad,
           NEW value \in Values \cup {Wrong}
    PROVE  /\ AppendTo(v, value).ret # None => ~AppendTo(v, value).v.bad
           /\ PrependTo(v, value).ret # None => ~PrependTo(v, value).v.bad
<1> DEFINE r == Create(v, value)
<1>1. \E d : Created(v, c, n, r, d, value)
  BY CreateShaped
<1> HIDE DEF r
<1>2. ~r.v.bad
  BY <1>1 DEF Created
<1>3. AppendTo(v, value).ret # None => AppendTo(v, value).v = r.v
  BY DEF AppendTo, Outcome, r
<1>4. PrependTo(v, value).ret # None => PrependTo(v, value).v = r.v
  BY DEF PrependTo, Outcome, r
<1> QED
  BY <1>2, <1>3, <1>4

\* It follows an item that was refused.
LEMMA ItemKeeps ==
    ASSUME NEW v, NEW c, NEW n, Shaped(v, c, n), n < MaxLen, ~v.bad,
           NEW q, NEW r, Longer(v, c, n, r, q), r.ret # None, ~r.v.bad,
           NEW e, e.start \in Int, e.start >= 0, e.hold \in BOOLEAN
    PROVE  Keeps(v, RollBack(r.v, e))
<1> DEFINE w == RollBack(r.v, e)
<1>1. PICK d : Shaped(r.v, d, n)
  BY DEF Longer
<1>2. n <= MaxLen
  BY ListAssumption DEF Shaped, Nodes, Distinct
<1>3. ~w.bad => /\ e.start <= MaxLen
                /\ \E f : Shaped(w, f, e.start)
                /\ r.v.frozen /\ w.frozen => Stays(r.v, w)
  BY <1>1, <1>2, RollBackShaped
<1> HIDE DEF w
<1>4. v.frozen => r.v.frozen /\ Grown(v, r.v)
  BY DEF Longer, Pinned, SameFlags
<1>5. Grown(v, r.v) /\ Stays(r.v, w) => Stays(v, w)
  BY DEF Grown, Stays
<1> QED
  BY <1>3, <1>4, <1>5 DEF Keeps, w

(***************************************************************************)
(* The indices of a slice.                                                 *)
(***************************************************************************)
LEMMA Division ==
    ASSUME NEW a \in Int, NEW b \in Int, a >= 1, b >= 1
    PROVE  LET l == (a + b - 1) \div b
               m == a % b
           IN  /\ l \in Int /\ l >= 1 /\ m \in Int /\ 0 <= m /\ m < b
               /\ m = 0 => a = l * b
               /\ m # 0 => a = (l - 1) * b + m
<1> DEFINE l == (a + b - 1) \div b
           m == a % b
           k == a \div b
           r == (a + b - 1) % b
<1>1. l \in Int /\ m \in Int /\ k \in Int /\ r \in Int /\ 0 <= m /\ m < b /\ 0 <= r /\ r < b
  OBVIOUS
<1>2. a = k * b + m
  OBVIOUS
<1>3. a + b - 1 = l * b + r
  OBVIOUS
<1> HIDE DEF l, m, k, r
<1>4. (l - k) * b = m + b - 1 - r
  <2>1. (l - k) * b = l * b - k * b
    BY <1>1
  <2> QED
    BY <1>1, <1>2, <1>3, <2>1
<1>5. PICK d \in Int : d = l - k
  BY <1>1
<1>6. d * b = m + b - 1 - r
  BY <1>4, <1>5
<1>7. d >= 0
  <2>1. SUFFICES ASSUME d <= -1 PROVE FALSE
    OBVIOUS
  <2>2. d * b <= -b
    BY <2>1
  <2> QED
    BY <1>1, <1>6, <2>2
<1>8. d <= 1
  <2>1. SUFFICES ASSUME d >= 2 PROVE FALSE
    OBVIOUS
  <2>2. d * b >= 2 * b
    BY <2>1
  <2> QED
    BY <1>1, <1>6, <2>2
<1>9. m = 0 => d = 0
  <2>1. SUFFICES ASSUME m = 0, d = 1 PROVE FALSE
    BY <1>7, <1>8
  <2> QED
    BY <1>1, <1>6, <2>1
<1>10. m # 0 => d = 1
  <2>1. SUFFICES ASSUME m # 0, d = 0 PROVE FALSE
    BY <1>7, <1>8
  <2> QED
    BY <1>1, <1>6, <2>1
<1>11. m = 0 => a = l * b
  BY <1>1, <1>2, <1>5, <1>9
<1>12. m # 0 => a = (l - 1) * b + m
  BY <1>1, <1>2, <1>5, <1>10
<1>13. l >= 1
  <2>1. SUFFICES ASSUME l <= 0 PROVE FALSE
    BY <1>1
  <2>2. l * b <= 0
    BY <1>1, <2>1
  <2> QED
    BY <1>1, <1>3, <2>2
<1> QED
  BY <1>1, <1>11, <1>12, <1>13 DEF l, m

\* A number that fits its width is itself.
LEMMA SizeIs ==
    ASSUME NEW k \in Int, 0 <= k, k < SizeMod
    PROVE  AsSize(k) = k
BY SizeModAssumption, AllocatorAssumption DEF AsSize

\* How many nodes lie before the slice, seen from the end where its traversal
\* starts.
Passed(v, ix) ==
    IF ix.backward
    THEN (IF v.occ - ix.first - 1 > 0 THEN v.occ - ix.first - 1 ELSE 0)
    ELSE ix.first

\* The nodes of a slice of some length lie in the list.
Fits(n, e, l, s) == l >= 1 => e + 1 + (l - 1) * s <= n

\* SliceIndices: what a slice visits is in the list.
LEMMA SliceFits ==
    ASSUME NEW v, v.occ \in Int, v.occ >= 0, v.occ <= MaxLen, v.double \in BOOLEAN,
           NEW start, NEW stop, NEW step, NEW ix,
           start \in Bounds, stop \in Bounds, step \in Steps,
           ix = SliceIndices(v, start, stop, step)
    PROVE  LET e == Passed(v, ix)
           IN  /\ ix.length \in Nat /\ ix.step \in Int /\ ix.step >= 1
               /\ ix.backward \in BOOLEAN /\ (ix.backward => v.double)
               /\ ix.by = 1 => ix.step = 1
               /\ ix.length >= 1 \/ ix.by = 1 => /\ e \in Int /\ 0 <= e /\ e <= v.occ
                                                 /\ Fits(v.occ, e, ix.length, ix.step)
<1> DEFINE size == v.occ
           abs == IF step < 0 THEN -step ELSE step
           from == IF start = NoBound THEN (IF step < 0 THEN size - 1 ELSE 0)
                   ELSE Clip(start, size, step, size)
           to == IF stop = NoBound THEN (IF step < 0 THEN -1 ELSE size)
                 ELSE Clip(stop, size, step, size + 1)
           span == IF step < 0 THEN from - to ELSE to - from
           mod == PyModulo(to - from, step)
           closed == IF mod = 0 THEN to - step ELSE to - mod
           inverted == IF v.double
                       THEN (step > 0 /\ size - closed <= from)
                            \/ (step < 0 /\ closed <= size - from)
                       ELSE step < 0
           first == AsSize(IF inverted THEN closed ELSE from)
           last == AsSize(IF inverted THEN from ELSE closed)
           l == IF span > 0 THEN (span + abs - 1) \div abs ELSE 0
           e == Passed(v, ix)
<1>1. /\ step \in Int /\ step # 0 /\ abs \in Int /\ abs >= 1
      /\ (start = NoBound \/ start \in Int) /\ (stop = NoBound \/ stop \in Int)
  BY SliceAssumption
<1>2. /\ size \in Int /\ size >= 0 /\ size <= Slots
      /\ Slots \in Int /\ SizeMod \in Int /\ SizeMod > 2 * Slots + 2
  BY ListAssumption, AllocatorAssumption, SizeModAssumption
<1>3. /\ ix.length = l /\ ix.first = first /\ ix.step = abs /\ ix.by = step
      /\ ix.backward \in BOOLEAN
      /\ ix.backward <=> (v.double /\ (first > last \/ (first = last /\ first > (size + 1) \div 2)))
  BY DEF SliceIndices
<1>4. /\ from \in Int
      /\ step > 0 => 0 <= from /\ from <= size
      /\ step < 0 => -1 <= from /\ from <= size - 1
  <2>1. CASE start = NoBound
    BY <1>1, <1>2, <2>1
  <2>2. CASE start # NoBound
    BY <1>1, <1>2, <2>2 DEF Clip
  <2> QED
    BY <2>1, <2>2
<1>5. /\ to \in Int
      /\ step > 0 => 0 <= to /\ to <= size
      /\ step < 0 => -1 <= to /\ to <= size
  <2>1. CASE stop = NoBound
    BY <1>1, <1>2, <2>1
  <2>2. CASE stop # NoBound
    BY <1>1, <1>2, <2>2 DEF Clip
  <2> QED
    BY <2>1, <2>2
<1> HIDE DEF from, to
<1>6. mod = IF step > 0 THEN (to - from) % step ELSE -((from - to) % (-step))
  <2>1. -(to - from) = from - to
    BY <1>4, <1>5
  <2> QED
    BY <1>1, <2>1 DEF PyModulo
<1>7. ASSUME step > 0, span > 0
      PROVE  l \in Int /\ l >= 1 /\ closed = from + (l - 1) * abs /\ from <= closed /\ closed < to
  <2>1. PICK a \in Int, b \in Int : a = to - from /\ b = step
    BY <1>1, <1>4, <1>5
  <2>2. a >= 1 /\ b >= 1
    BY <1>4, <1>5, <1>7, <2>1
  <2> DEFINE q == (a + b - 1) \div b
             m == a % b
  <2>3. /\ q \in Int /\ q >= 1 /\ m \in Int /\ 0 <= m /\ m < b
        /\ m = 0 => a = q * b
        /\ m # 0 => a = (q - 1) * b + m
    BY <2>2, Division
  <2>4. l = q /\ mod = m
    BY <1>6, <1>7, <2>1
  <2> HIDE DEF q, m, l, mod
  <2>5. (q - 1) * b = q * b - b /\ (q - 1) * b >= 0
    BY <2>2, <2>3
  <2>6. closed = from + (q - 1) * b /\ closed < to
    BY <1>4, <1>5, <1>7, <2>1, <2>3, <2>4, <2>5
  <2> QED
    BY <1>4, <1>7, <2>1, <2>3, <2>4, <2>5, <2>6
<1>8. ASSUME step < 0, span > 0
      PROVE  l \in Int /\ l >= 1 /\ closed = from - (l - 1) * abs /\ closed <= from /\ to < closed
  <2>1. PICK a \in Int, b \in Int : a = from - to /\ b = -step
    BY <1>1, <1>4, <1>5
  <2>2. a >= 1 /\ b >= 1
    BY <1>1, <1>4, <1>5, <1>8, <2>1
  <2> DEFINE q == (a + b - 1) \div b
             m == a % b
  <2>3. /\ q \in Int /\ q >= 1 /\ m \in Int /\ 0 <= m /\ m < b
        /\ m = 0 => a = q * b
        /\ m # 0 => a = (q - 1) * b + m
    BY <2>2, Division
  <2>4. l = q /\ mod = -m
    BY <1>1, <1>6, <1>8, <2>1
  <2> HIDE DEF q, m, l, mod
  <2>5. (q - 1) * b = q * b - b /\ (q - 1) * b >= 0
    BY <2>2, <2>3
  <2>6. closed = from - (q - 1) * b /\ closed > to
    BY <1>1, <1>4, <1>5, <1>8, <2>1, <2>3, <2>4, <2>5
  <2> QED
    BY <1>1, <1>4, <1>8, <2>1, <2>3, <2>4, <2>5, <2>6
<1>9. ~(span > 0) => l = 0
  OBVIOUS
<1>10. /\ l \in Nat /\ abs \in Int /\ abs >= 1 /\ (step = 1 => abs = 1)
       /\ ix.backward \in BOOLEAN /\ (ix.backward => v.double)
  BY <1>1, <1>3, <1>7, <1>8, <1>9
<1>11. ASSUME span > 0
       PROVE  e \in Int /\ 0 <= e /\ e + 1 + (l - 1) * abs <= size
  <2> DEFINE low == IF step < 0 THEN closed ELSE from
             high == IF step < 0 THEN from ELSE closed
  <2>1. /\ closed \in Int /\ 0 <= from /\ from < size /\ 0 <= closed /\ closed < size
        /\ (l - 1) * abs \in Int /\ high = low + (l - 1) * abs /\ low <= high
    BY <1>1, <1>4, <1>5, <1>7, <1>8, <1>11
  <2>2. /\ first = (IF inverted THEN closed ELSE from)
        /\ last = (IF inverted THEN from ELSE closed)
    <3> HIDE DEF closed, inverted, l, abs
    <3>1. closed < SizeMod /\ from < SizeMod
      BY <1>2, <1>4, <2>1
    <3>2. AsSize(closed) = closed /\ AsSize(from) = from
      BY <1>4, <2>1, <3>1, SizeIs
    <3> QED
      BY <3>2
  <2> HIDE DEF closed, inverted, first, last, l, abs
  <2>3. /\ first \in Int /\ 0 <= first /\ first < size
        /\ first = low \/ first = high
        /\ last = IF first = low THEN high ELSE low
    BY <2>1, <2>2
  <2>4. CASE ix.backward
    <3>1. first >= last
      BY <1>3, <2>1, <2>3, <2>4
    <3>2. first = high
      BY <2>1, <2>3, <3>1
    <3>3. e = size - first - 1
      BY <1>2, <1>3, <2>3, <2>4 DEF Passed
    <3> QED
      BY <1>2, <2>1, <2>3, <3>2, <3>3
  <2>5. CASE ~ix.backward
    <3>1. first = low
      <4>1. CASE v.double
        <5>1. ~(first > last)
          BY <1>3, <2>5, <4>1
        <5> HIDE DEF low, high
        <5> QED
          BY <2>1, <2>3, <5>1
      <4>2. CASE ~v.double
        BY <2>1, <2>2, <4>2 DEF inverted
      <4> QED
        BY <4>1, <4>2
    <3>2. e = first
      BY <1>3, <2>5 DEF Passed
    <3> QED
      BY <1>2, <2>1, <2>3, <3>1, <3>2
  <2> QED
    BY <2>4, <2>5
<1>12. ASSUME ~(span > 0), step = 1
       PROVE  e \in Int /\ 0 <= e /\ e <= size
  <2>1. mod = 0
    BY <1>4, <1>5, <1>6, <1>12
  <2>2. closed = to - 1 /\ to <= from
    BY <1>4, <1>5, <1>12, <2>1
  <2>3. 0 <= from /\ from <= size /\ -1 <= closed /\ closed < from /\ closed \in Int
    BY <1>4, <1>5, <1>12, <2>2
  <2>4. inverted => closed >= 0
    <3>1. inverted => size - closed <= from
      <4> HIDE DEF closed
      <4>1. CASE v.double
        BY <1>12, <4>1
      <4>2. CASE ~v.double
        BY <1>12, <4>2
      <4> QED
        BY <4>1, <4>2
    <3> HIDE DEF closed, inverted
    <3>2. size - closed <= from => closed >= 0
      BY <1>2, <1>4, <2>3
    <3> QED
      BY <3>1, <3>2
  <2> HIDE DEF closed, inverted
  <2>5. first = IF inverted THEN closed ELSE from
    <3>1. closed < SizeMod /\ from < SizeMod
      BY <1>2, <1>4, <2>3
    <3>2. AsSize(from) = from
      BY <1>4, <2>3, <3>1, SizeIs
    <3>3. inverted => AsSize(closed) = closed
      BY <2>3, <2>4, <3>1, SizeIs
    <3> QED
      BY <3>2, <3>3
  <2> HIDE DEF first, last
  <2>6. first \in Int /\ 0 <= first /\ first <= size
    BY <1>4, <2>3, <2>4, <2>5
  <2> QED
    BY <1>2, <1>3, <2>6 DEF Passed
<1> HIDE DEF e, l, abs, span
<1>13. ix.length >= 1 => span > 0
  BY <1>3, <1>9
<1> QED
  <2>1. ASSUME ix.length >= 1
        PROVE  e \in Int /\ 0 <= e /\ e <= v.occ /\ Fits(v.occ, e, ix.length, ix.step)
    <3>1. e \in Int /\ 0 <= e /\ e + 1 + (l - 1) * abs <= size
      BY <1>11, <1>13, <2>1
    <3>2. (l - 1) * abs \in Int /\ (l - 1) * abs >= 0
      BY <1>3, <1>10, <2>1
    <3> QED
      BY <1>2, <1>3, <3>1, <3>2 DEF Fits
  <2>2. ASSUME ~(ix.length >= 1), ix.by = 1
        PROVE  e \in Int /\ 0 <= e /\ e <= v.occ /\ Fits(v.occ, e, ix.length, ix.step)
    <3>1. ~(span > 0)
      BY <1>3, <1>7, <1>8, <1>1, <2>2
    <3> QED
      BY <1>3, <1>12, <2>2, <3>1 DEF Fits
  <2> QED
    BY <1>3, <1>10, <2>1, <2>2 DEF e

(***************************************************************************)
(* Where the traversal of a slice starts.                                  *)
(***************************************************************************)
LEMMA OriginSeen ==
    ASSUME NEW v, NEW c, NEW n, Sound(v, c, n), NEW ix, ix.backward \in BOOLEAN,
           ix.backward => v.double, NEW e \in Int, e >= 0, e = Passed(v, ix)
    PROVE  Origin(v, ix) = Seen(c, n, ix.backward, e)
<1>1. Nodes(v, c, n) /\ v.head = At(c, n, 1) /\ n \in Nat /\ v.occ = n
  BY DEF Sound, Shaped, Nodes, Distinct
<1>2. CASE ix.backward
  <2>1. e = IF v.occ - ix.first - 1 > 0 THEN v.occ - ix.first - 1 ELSE 0
    BY <1>2 DEF Passed
  <2>2. Origin(v, ix) = AdvanceBy(v, RBegin(v), e).next
    BY <1>2, <2>1 DEF Origin
  <2>3. PICK k \in Nat : k = e
    OBVIOUS
  <2>4. Stands(AdvanceBy(v, RBegin(v), k), TRUE, c, n, k + 1)
    BY <1>1, <1>2, BeginByStands
  <2>5. AdvanceBy(v, RBegin(v), k).next = At(c, n, n + 1 - k)
    <3>1. n + 1 - (k + 1) + 1 = n + 1 - k
      BY <1>1
    <3> QED
      BY <2>4, <3>1 DEF Stands, Around, Place
  <2> QED
    BY <1>2, <2>2, <2>3, <2>5 DEF Seen, Place
<1>3. CASE ~ix.backward
  <2>1. e = ix.first
    BY <1>3 DEF Passed
  <2>2. Origin(v, ix) = AdvanceBy(v, Begin(v), e).prev
    BY <1>3, <2>1 DEF Origin
  <2>3. PICK k \in Nat : k = e
    OBVIOUS
  <2>4. Stands(AdvanceBy(v, Begin(v), k), FALSE, c, n, k + 1)
    BY <1>1, BeginByStands
  <2>5. AdvanceBy(v, Begin(v), k).prev = At(c, n, k)
    <3>1. k + 1 - 1 = k
      OBVIOUS
    <3> QED
      BY <2>4, <3>1 DEF Stands, Around, Place
  <2> QED
    BY <1>3, <2>2, <2>3, <2>5 DEF Seen, Place
<1> QED
  BY <1>2, <1>3

\* The iterator of a slice stands after the node it starts from.
LEMMA SliceIterStands ==
    ASSUME NEW v, NEW c, NEW n, Sound(v, c, n), NEW ix, NEW origin, ix.backward \in BOOLEAN,
           ix.backward => v.double, NEW e \in Int, NEW q \in Int, e >= 0, e <= n,
           e < q, q <= e + 1, origin = Seen(c, n, ix.backward, e)
    PROVE  Stands(SliceIter(v, ix, origin), ix.backward, c, n, q)
<1>1. Nodes(v, c, n) /\ v.head = At(c, n, 1) /\ n \in Nat /\ q = e + 1
  BY DEF Sound, Shaped, Nodes, Distinct
<1>2. /\ v.tail = At(c, n, n)
      /\ \A k \in Int : /\ k >= 1 => v.next[At(c, n, k)] = At(c, n, k + 1)
                        /\ v.double /\ k <= n => v.prev[At(c, n, k)] = At(c, n, k - 1)
  BY <1>1, LinksOf
<1>3. \A k \in 1..n : c[k] # Null
  BY <1>1 DEF Nodes, Distinct, Slot, Null
<1> DEFINE it == SliceIter(v, ix, origin)
<1>4. CASE ix.backward
  <2>1. PICK p \in Int : p = n + 1 - q
    BY <1>1
  <2>2. origin = At(c, n, p + 1) /\ p <= n
    BY <1>1, <1>4, <2>1 DEF Seen, Place
  <2>3. (IF origin = Null THEN v.tail ELSE v.prev[origin]) = At(c, n, p)
    <3>1. CASE e = 0
      <4>1. origin = Null /\ p = n
        BY <1>1, <2>1, <2>2, <3>1 DEF At
      <4> QED
        BY <1>2, <4>1
    <3>2. CASE e > 0
      <4>1. origin # Null /\ p + 1 <= n /\ p + 1 - 1 = p
        BY <1>1, <1>3, <2>1, <2>2, <3>2 DEF At
      <4>2. v.prev[At(c, n, p + 1)] = At(c, n, p + 1 - 1)
        BY <1>2, <1>4, <4>1
      <4> QED
        BY <2>2, <4>1, <4>2
    <3> QED
      BY <3>1, <3>2
  <2>4. v.prev[At(c, n, p)] = At(c, n, p - 1)
    BY <1>2, <1>4, <2>2
  <2>5. it = [back |-> TRUE, prev |-> At(c, n, p - 1), curr |-> At(c, n, p),
              next |-> At(c, n, p + 1)]
    BY <1>4, <2>2, <2>3, <2>4 DEF SliceIter
  <2> HIDE DEF it
  <2>6. it = Around(ix.backward, c, n, p)
    BY <1>4, <2>5 DEF Around
  <2>7. Place(ix.backward, n, q) = p
    BY <1>4, <2>1 DEF Place
  <2> QED
    BY <2>6, <2>7 DEF Stands, it
<1>5. CASE ~ix.backward
  <2>1. PICK p \in Int : p = q
    BY <1>1
  <2>2. origin = At(c, n, p - 1) /\ p >= 1
    BY <1>1, <1>5, <2>1 DEF Seen, Place
  <2>3. (IF origin = Null THEN v.head ELSE v.next[origin]) = At(c, n, p)
    <3>1. CASE e = 0
      <4>1. origin = Null /\ p = 1
        BY <1>1, <2>1, <2>2, <3>1 DEF At
      <4> QED
        BY <1>1, <4>1
    <3>2. CASE e > 0
      <4>1. origin # Null /\ p - 1 >= 1 /\ p - 1 + 1 = p
        BY <1>1, <1>3, <2>1, <2>2, <3>2 DEF At
      <4>2. v.next[At(c, n, p - 1)] = At(c, n, p - 1 + 1)
        BY <1>2, <4>1
      <4> QED
        BY <2>2, <4>1, <4>2
    <3> QED
      BY <3>1, <3>2
  <2>4. v.next[At(c, n, p)] = At(c, n, p + 1)
    BY <1>2, <2>2
  <2>5. it = [back |-> FALSE, prev |-> At(c, n, p - 1), curr |-> At(c, n, p),
              next |-> At(c, n, p + 1)]
    BY <1>5, <2>2, <2>3, <2>4 DEF SliceIter
  <2> HIDE DEF it
  <2>6. it = Around(ix.backward, c, n, p)
    BY <1>5, <2>5 DEF Around
  <2>7. Place(ix.backward, n, q) = p
    BY <1>5, <2>1 DEF Place
  <2> QED
    BY <2>6, <2>7 DEF Stands, it
<1> QED
  BY <1>4, <1>5

(***************************************************************************)
(* The loop that drops the nodes of a slice.                               *)
(***************************************************************************)
\* The chains agree before the slice.
Same(c, n, d, m, back, e) ==
    \A j \in Int : j <= e => Seen(d, m, back, j) = Seen(c, n, back, j)

DroppingEvery(d, v, ix, origin, t) ==
    /\ DropEvery(v, ix, origin, t) = d[t].v
    /\ d[0] = [v |-> v, it |-> SliceIter(v, ix, origin)]
    /\ \A k \in 1..t : d[k] = DropEveryStep(d[k - 1], ix, k)

\* The loop as a function of its steps.
LEMMA DropEveryWalk ==
    ASSUME NEW v, NEW ix, NEW origin, NEW t \in Int, t >= 0
    PROVE  \E d : DroppingEvery(d, v, ix, origin, t)
BY DropEverySteps DEF DroppingEvery

\* The iterator passes the nodes between two of the slice.
LEMMA PassesStands ==
    ASSUME NEW v, NEW c, NEW n, Nodes(v, c, n), NEW it, NEW back, NEW q \in Int, NEW k \in Int,
           NEW s \in Int, NEW p \in Int, q >= 1, k >= 0, q + k <= p, p <= q + k,
           k <= s, s <= k, Stands(it, back, c, n, q), back => v.double
    PROVE  Stands(AdvanceBy(v, it, s), back, c, n, p)
<1>1. s \in Nat /\ q \in Nat \ {0} /\ p = q + s
  OBVIOUS
<1> QED
  BY <1>1, AdvanceByStands

\* Where the nodes of a slice are when those before them are gone.
LEMMA SpansDropped ==
    ASSUME NEW k \in Int, NEW t \in Int, NEW s \in Int, NEW e \in Int, NEW n \in Int,
           k >= 0, k < t, s >= 1, e + 1 + (t - 1) * s <= n
    PROVE  /\ k * (s - 1) \in Int /\ k * (s - 1) >= 0
           /\ k * s \in Int /\ k * s >= 0 /\ k * (s - 1) = k * s - k
           /\ (k - 1) * (s - 1) \in Int /\ (k - 1) * (s - 1) + (s - 1) = k * (s - 1)
           /\ e + 1 + k * (s - 1) <= n - k
           /\ k >= 1 => (k - 1) * (s - 1) >= 0
<1>1. k * s <= (t - 1) * s
  <2>1. PICK d \in Int : d = t - 1 - k
    OBVIOUS
  <2>2. d * s >= 0
    BY <2>1
  <2>3. d * s = (t - 1) * s - k * s
    BY <2>1
  <2> QED
    BY <2>2, <2>3
<1>2. k * (s - 1) = k * s - k
  OBVIOUS
<1>3. k * (s - 1) >= 0 /\ k * s >= 0
  <2>1. PICK r \in Int : r = s - 1
    OBVIOUS
  <2>2. k * r >= 0 /\ k * s >= 0
    BY <2>1
  <2> QED
    BY <2>1, <2>2
<1>4. (k - 1) * (s - 1) + (s - 1) = k * (s - 1)
  OBVIOUS
<1>5. k >= 1 => (k - 1) * (s - 1) >= 0
  <2>1. PICK r \in Int, i \in Int : r = s - 1 /\ i = k - 1
    OBVIOUS
  <2>2. k >= 1 => i * r >= 0
    BY <2>1
  <2> QED
    BY <2>1, <2>2
<1> QED
  BY <1>1, <1>2, <1>3, <1>4, <1>5

\* A node that is dropped behind the start leaves the start in its place.
LEMMA SameOn ==
    ASSUME NEW c, NEW n, NEW d, NEW m, NEW f, NEW k, NEW back, NEW e, NEW q \in Int,
           e \in Int, e < q, Same(c, n, d, m, back, e), Without(d, m, f, k, back, q, 1)
    PROVE  Same(c, n, f, k, back, e)
BY DEF Same, Without

\* The list w is v without some nodes, and the chain before them is as it was.
Thins(v, c, n, back, e, w, m) ==
    \E d : Sound(w, d, m) /\ Shrunk(v, w) /\ Same(c, n, d, m, back, e)

\* The nodes of the slice are gone and the start is where it was.
LEMMA DropEveryCuts ==
    ASSUME NEW v, NEW c, NEW n, Sound(v, c, n), Pinned(v), ~v.bad, NEW ix, NEW origin,
           ix.backward \in BOOLEAN, ix.backward => v.double, ix.step \in Int, ix.step >= 1,
           NEW e \in Int, NEW t \in Int, NEW m \in Int, e >= 0, e <= n, t >= 0,
           m + t <= n, n <= m + t, origin = Seen(c, n, ix.backward, e),
           Fits(n, e, t, ix.step)
    PROVE  Thins(v, c, n, ix.backward, e, DropEvery(v, ix, origin, t), m)
<1>1. n \in Nat /\ t \in Nat /\ m = n - t
  BY DEF Sound, Shaped, Nodes, Distinct
<1>2. PICK D : DroppingEvery(D, v, ix, origin, t)
  BY DropEveryWalk
<1> DEFINE back == ix.backward
           s == ix.step
           At1(k) == IF k = 0 THEN e + 1 ELSE e + 1 + (k - 1) * (s - 1)
           Good(k) == \E d, j, q : /\ j = n - k /\ q \in Int /\ q = At1(k)
                                   /\ Cut(v, D[k].v, D[k].it, back, d, j, q)
                                   /\ Same(c, n, d, j, back, e)
           S == {k \in 0..t : Good(k)}
<1>3. 0 \in S
  <2>1. PICK q \in Int : q = e + 1
    OBVIOUS
  <2>2. Stands(SliceIter(v, ix, origin), back, c, n, q)
    BY <2>1, SliceIterStands
  <2>3. Cut(v, v, SliceIter(v, ix, origin), back, c, n, q) /\ Same(c, n, c, n, back, e)
    BY <2>2, StaysSteps DEF Cut, Same
  <2>4. D[0].v = v /\ D[0].it = SliceIter(v, ix, origin) /\ n = n - 0 /\ q = At1(0)
    BY <1>1, <1>2, <2>1 DEF DroppingEvery
  <2> HIDE DEF At1
  <2>5. Good(0)
    BY <2>3, <2>4
  <2> QED
    BY <1>1, <2>5
<1>4. ASSUME NEW k \in 0..t, k < t, k \in S PROVE k + 1 \in S
  <2> DEFINE x == D[k].v
             i == D[k].it
  <2>1. PICK d, j, q : /\ j = n - k /\ q \in Int /\ q = At1(k)
                       /\ Cut(v, x, i, back, d, j, q)
                       /\ Same(c, n, d, j, back, e)
    BY <1>4
  <2>2. PICK l \in Int, g \in Int : l = j - 1 /\ g = k + 1
    BY <1>1, <2>1
  <2>3. e + 1 + (t - 1) * s <= n
    BY <1>1, <1>4 DEF Fits
  <2>4. /\ k * (s - 1) \in Int /\ k * (s - 1) >= 0
        /\ (k - 1) * (s - 1) \in Int /\ (k - 1) * (s - 1) + (s - 1) = k * (s - 1)
        /\ e + 1 + k * (s - 1) <= n - k
        /\ k >= 1 => (k - 1) * (s - 1) >= 0
    BY <1>1, <1>4, <2>3, SpansDropped
  <2>5. PICK p \in Int : p = e + 1 + k * (s - 1)
    BY <2>4
  <2>6. p = At1(g) /\ e < p /\ p <= j /\ 1 <= p
    BY <1>1, <1>4, <2>1, <2>2, <2>4, <2>5
  <2>7. IF k = 0 THEN q = p ELSE q >= 1 /\ q + (s - 1) = p
    BY <1>4, <2>1, <2>4, <2>5
  <2> DEFINE b == IF g = 1 THEN i ELSE AdvanceBy(x, i, s - 1)
             u == UnlinkAt(x, b)
             y == Recycle(u, b.curr)
             a == AfterDrop(u, b)
  <2>8. D[g].v = y /\ D[g].it = a
    <3>1. g \in 1..t /\ g - 1 = k
      BY <1>4, <2>2
    <3>2. D[g] = DropEveryStep(D[k], ix, g)
      BY <1>2, <3>1 DEF DroppingEvery
    <3> QED
      BY <3>2 DEF DropEveryStep
  <2> HIDE DEF x, i, At1
  <2>9. Shaped(x, d, j) /\ Nodes(x, d, j) /\ Shrunk(v, x) /\ Stands(i, back, d, j, q)
    BY <2>1 DEF Cut, Sound, Shaped
  <2>10. Pinned(x) /\ ~x.bad /\ (back => x.double)
    BY <2>9, StaysSteps DEF Shrunk, SameFlags
  <2>11. Stands(b, back, d, j, p)
    <3>1. CASE k = 0
      BY <2>2, <2>7, <2>9, <3>1
    <3>2. CASE k # 0
      <4>1. PICK h \in Int : h = s - 1
        OBVIOUS
      <4>2. h >= 0 /\ q >= 1 /\ q + h <= p /\ p <= q + h /\ g # 1 /\ q \in Int
        BY <1>4, <2>1, <2>2, <2>7, <3>2, <4>1
      <4>3. Stands(AdvanceBy(x, i, h), back, d, j, p)
        BY <2>9, <2>10, <4>2, PassesStands
      <4> QED
        BY <4>1, <4>2, <4>3
    <3> QED
      BY <3>1, <3>2
  <2>12. l < j /\ j <= l + 1 /\ l = n - g /\ g \in 0..t
    BY <1>1, <1>4, <2>1, <2>2
  <2> HIDE DEF b
  <2>13. PICK f : Cut(x, y, a, back, f, l, p) /\ Without(d, j, f, l, back, p, 1)
    BY <2>6, <2>9, <2>10, <2>11, <2>12, TakeCuts
  <2> HIDE DEF y, a
  <2>14. Cut(v, y, a, back, f, l, p)
    BY <2>9, <2>13, StaysSteps DEF Cut
  <2>15. Same(c, n, f, l, back, e)
    BY <2>1, <2>6, <2>13, SameOn
  <2>16. Good(g)
    BY <2>6, <2>8, <2>12, <2>14, <2>15
  <2> HIDE DEF Good
  <2> QED
    BY <2>2, <2>12, <2>16
<1> HIDE DEF S
<1>5. t \in S
  BY <1>1, <1>3, <1>4, Climb
<1> HIDE DEF At1
<1>6. Good(t)
  BY <1>5 DEF S
<1>7. \E d : Sound(D[t].v, d, m) /\ Shrunk(v, D[t].v) /\ Same(c, n, d, m, back, e)
  BY <1>1, <1>6 DEF Cut
<1> QED
  BY <1>2, <1>7 DEF DroppingEvery, Thins

(***************************************************************************)
(* The loop that links the values of a slice in.                           *)
(***************************************************************************)
\* There is a place for each of t values, s apart.
Room(n, e, t, s) == t >= 1 => e + (t - 1) * (s - 1) <= n

\* The same where the list gets longer.
LEMMA SpansPut ==
    ASSUME NEW k \in Int, NEW t \in Int, NEW s \in Int, NEW e \in Int, NEW n \in Int,
           k >= 0, k < t, s >= 1, e + (t - 1) * (s - 1) <= n
    PROVE  /\ k * s \in Int /\ k * s >= 0
           /\ (k - 1) * s \in Int /\ (k - 1) * s + s = k * s
           /\ e + k * s <= n + k
           /\ e + k * (s - 1) <= n /\ k * (s - 1) \in Int
           /\ k >= 1 => (k - 1) * s >= 0
<1>1. PICK r \in Int, i \in Int, d \in Int : r = s - 1 /\ i = k - 1 /\ d = t - 1 - k
  OBVIOUS
<1>2. d * r >= 0 /\ k * s >= 0 /\ (k >= 1 => i * s >= 0)
  BY <1>1
<1>3. d * r = (t - 1) * (s - 1) - k * (s - 1)
  BY <1>1
<1>4. k * (s - 1) = k * s - k
  OBVIOUS
<1>5. (k - 1) * s + s = k * s
  OBVIOUS
<1> QED
  BY <1>1, <1>2, <1>3, <1>4, <1>5

\* The values that are put in, t of them.
Listing(values, t) ==
    t = Len(values) /\ \A k \in 1..t : values[k] \in Values \cup {Wrong}

Putting(d, v, ix, origin, values, t) ==
    /\ InsertEvery(v, ix, origin, values) = d[t]
    /\ d[0] = [v |-> v, it |-> SliceIter(v, ix, origin), done |-> 0, ret |-> None]
    /\ \A k \in 1..t : d[k] = PutStep(d[k - 1], ix, values, k)

\* The loop as a function of its steps.
LEMMA PuttingWalk ==
    ASSUME NEW v, NEW ix, NEW origin, NEW values, NEW t \in Int, t >= 0, Listing(values, t)
    PROVE  \E d : Putting(d, v, ix, origin, values, t)
BY InsertEverySteps DEF Putting, Listing

\* What create() and the linking of its node leave, on an array that stays.
LEMMA PutGrows ==
    ASSUME NEW v, NEW c, NEW n, Sound(v, c, n), Pinned(v), ~v.bad, n <= MaxLen,
           NEW value \in Values \cup {Wrong}, NEW it, NEW back, NEW q \in Int, NEW m \in Int,
           1 <= q, q <= n + 1, n < m, m <= n + 1, Stands(it, back, c, n, q)
    PROVE  LET r == Create(v, value)
               w == LinkAt(r.v, it, r.node)
           IN  /\ r.node = Null => r.v = v /\ r.ret # None
               /\ r.node # Null =>
                     \E d : /\ Sound(w, d, m) /\ Grown(v, w)
                            /\ Stands(AfterInsert(it, r.node), back, d, m, q)
                            /\ \A j \in Int : j < q => Seen(d, m, back, j) = Seen(c, n, back, j)
<1> DEFINE r == Create(v, value)
           w == LinkAt(r.v, it, r.node)
<1>1. n \in Nat /\ m = n + 1 /\ back \in BOOLEAN /\ q \in 1..(n + 1) /\ Shaped(v, c, n)
  BY DEF Sound, Shaped, Nodes, Distinct, Stands
<1>2. /\ Created(v, c, n, r, c, value) /\ Grown(v, r.v)
      /\ IF r.node = Null THEN r.v = v ELSE r.node \notin v.live
  BY <1>1, CreateShaped
<1> HIDE DEF r
<1>3. r.node = Null => r.v = v /\ r.ret # None
  BY <1>2 DEF Created
<1>4. ASSUME r.node # Null
      PROVE  \E d : /\ Sound(w, d, m) /\ Grown(v, w)
                    /\ Stands(AfterInsert(it, r.node), back, d, m, q)
                    /\ \A j \in Int : j < q => Seen(d, m, back, j) = Seen(c, n, back, j)
  <2>1. Spare(r.v, c, n, r.node)
    BY <1>2, <1>4 DEF Created
  <2> DEFINE x == r.node
             d == With(c, n, Place(back, n + 1, q), x)
  <2>2. /\ Sound(w, d, n + 1) /\ Grown(r.v, w)
        /\ Stands(AfterInsert(it, x), back, d, n + 1, q)
    BY <1>1, <2>1, InsertStands
  <2>3. \A j \in Int : Seen(d, n + 1, back, j) =
                    IF j < q THEN Seen(c, n, back, j)
                    ELSE IF j = q THEN x ELSE Seen(c, n, back, j - 1)
    BY <1>1, SeenWith
  <2> HIDE DEF d, w
  <2>4. Grown(v, w)
    BY <1>2, <2>2, StaysSteps
  <2> QED
    BY <1>1, <2>2, <2>3, <2>4
<1> QED
  BY <1>3, <1>4 DEF r

\* What the loop leaves of v: some values more, and the chain before them.
Filled(v, c, n, back, e, x, d, j, done) ==
    Sound(x, d, j) /\ Grown(v, x) /\ Same(c, n, d, j, back, e) /\ j = n + done

Fills(v, c, n, back, e, t, new) ==
    /\ new.done \in Int /\ 0 <= new.done /\ new.done <= t
    /\ new.ret = None => new.done = t
    /\ \E d, m : Filled(v, c, n, back, e, new.v, d, m, new.done)

\* The list holds the values that were linked in before the first refusal.
LEMMA InsertEveryGrows ==
    ASSUME NEW v, NEW c, NEW n, Sound(v, c, n), Pinned(v), ~v.bad, NEW ix, NEW origin,
           ix.backward \in BOOLEAN, ix.backward => v.double, ix.step \in Int, ix.step >= 1,
           NEW values, NEW t \in Int, t >= 0, Listing(values, t),
           NEW e \in Int, e >= 0, e <= n, n + t <= MaxLen,
           origin = Seen(c, n, ix.backward, e), Room(n, e, t, ix.step)
    PROVE  Fills(v, c, n, ix.backward, e, t, InsertEvery(v, ix, origin, values))
<1>1. n \in Nat /\ t \in Nat /\ MaxLen \in Nat
  BY ListAssumption DEF Sound, Shaped, Nodes, Distinct
<1>2. PICK D : Putting(D, v, ix, origin, values, t)
  BY PuttingWalk
<1> DEFINE back == ix.backward
           s == ix.step
           At2(k) == IF k = 0 THEN e + 1 ELSE e + 1 + (k - 1) * s
           Good(k) == /\ {"v", "it", "done", "ret"} \subseteq DOMAIN D[k]
                      /\ D[k].done \in 0..k
                      /\ D[k].ret = None => D[k].done = k
                      /\ \E d, j : /\ Filled(v, c, n, back, e, D[k].v, d, j, D[k].done)
                                   /\ D[k].ret = None =>
                                         \E q \in Int : q = At2(k) /\ Stands(D[k].it, back, d, j, q)
           S == {k \in 0..t : Good(k)}
<1>3. 0 \in S
  <2>1. PICK q \in Int : q = e + 1
    OBVIOUS
  <2>2. Stands(SliceIter(v, ix, origin), back, c, n, q)
    BY <2>1, SliceIterStands
  <2>3. Filled(v, c, n, back, e, v, c, n, 0)
    BY <1>1, StaysSteps DEF Filled, Same
  <2>4. D[0] = [v |-> v, it |-> SliceIter(v, ix, origin), done |-> 0, ret |-> None] /\ q = At2(0)
    BY <1>2, <2>1 DEF Putting
  <2> HIDE DEF At2
  <2>5. /\ D[0].v = v /\ D[0].it = SliceIter(v, ix, origin) /\ D[0].done = 0 /\ D[0].ret = None
        /\ {"v", "it", "done", "ret"} \subseteq DOMAIN D[0]
    BY <2>4
  <2>6. Good(0)
    BY <2>2, <2>3, <2>4, <2>5
  <2> QED
    BY <1>1, <2>6
<1>4. ASSUME NEW k \in 0..t, k < t, k \in S PROVE k + 1 \in S
  <2>1. PICK g \in Int : g = k + 1
    BY <1>1
  <2>2. g \in 1..t /\ g - 1 = k /\ g \in 0..t
    BY <1>1, <1>4, <2>1
  <2>3. D[g] = PutStep(D[k], ix, values, g)
    BY <1>2, <2>2 DEF Putting
  <2>4. /\ {"v", "it", "done", "ret"} \subseteq DOMAIN D[k]
        /\ D[k].done \in 0..k
        /\ D[k].ret = None => D[k].done = k
    BY <1>4
  <2>5. PICK d, j : /\ Filled(v, c, n, back, e, D[k].v, d, j, D[k].done)
                    /\ D[k].ret = None =>
                          \E q \in Int : q = At2(k) /\ Stands(D[k].it, back, d, j, q)
    BY <1>4
  <2> SUFFICES Good(g)
    BY <2>1, <2>2
  <2>6. CASE D[k].ret # None
    <3>1. D[g] = D[k]
      BY <2>3, <2>6 DEF PutStep
    <3>2. D[k].done \in 0..g
      BY <2>2, <2>4
    <3> QED
      BY <2>4, <2>5, <2>6, <3>1, <3>2
  <2>7. CASE D[k].ret = None
    <3> DEFINE x == D[k].v
               i == D[k].it
               it == IF g = 1 THEN i ELSE AdvanceBy(x, i, s)
               r == Create(x, values[g])
               y == LinkAt(r.v, it, r.node)
               a == AfterInsert(it, r.node)
    <3>1. D[k].done = k /\ j = n + k
      BY <2>4, <2>5, <2>7 DEF Filled
    <3>2. PICK q \in Int : q = At2(k) /\ Stands(i, back, d, j, q)
      BY <2>5, <2>7
    <3>3. e + (t - 1) * (s - 1) <= n
      BY <1>1, <1>4 DEF Room
    <3>4. /\ k * s \in Int /\ k * s >= 0
          /\ (k - 1) * s \in Int /\ (k - 1) * s + s = k * s
          /\ e + k * s <= n + k
          /\ k >= 1 => (k - 1) * s >= 0
      BY <1>1, <1>4, <3>3, SpansPut
    <3>5. PICK p \in Int, m \in Int : p = e + 1 + k * s /\ m = j + 1
      BY <1>1, <3>1, <3>4
    <3>6. p = At2(g) /\ e < p /\ p <= j + 1 /\ 1 <= p /\ j < m /\ m <= j + 1 /\ j <= MaxLen
      <4>1. g # 0 /\ g - 1 = k /\ k >= 0
        BY <1>4, <2>1
      <4>2. p = At2(g)
        BY <3>5, <4>1
      <4>3. e < p /\ p <= j + 1 /\ 1 <= p
        BY <1>1, <3>1, <3>4, <3>5
      <4>4. j <= MaxLen
        BY <1>1, <1>4, <3>1
      <4> QED
        BY <1>1, <3>1, <3>5, <4>2, <4>3, <4>4
    <3>7. IF k = 0 THEN q = p ELSE q >= 1 /\ q + s = p
      BY <1>4, <3>2, <3>4, <3>5
    <3>8. D[g] = IF r.node = Null THEN [D[k] EXCEPT !.v = r.v, !.ret = r.ret]
                 ELSE [v |-> y, it |-> a, done |-> g, ret |-> None]
      BY <2>3, <2>7 DEF PutStep
    <3>9. values[g] \in Values \cup {Wrong}
      BY <2>2 DEF Listing
    <3> HIDE DEF x, i, At2
    <3>10. Sound(x, d, j) /\ Nodes(x, d, j) /\ Grown(v, x) /\ Same(c, n, d, j, back, e)
      BY <2>5 DEF Filled, Sound, Shaped, x
    <3>11. Pinned(x) /\ ~x.bad /\ (back => x.double)
      BY <3>10, StaysSteps DEF Grown, SameFlags
    <3>12. Stands(it, back, d, j, p)
      <4>1. CASE k = 0
        BY <2>1, <3>2, <3>7, <4>1
      <4>2. CASE k # 0
        <5>1. PICK h \in Int : h = s
          OBVIOUS
        <5>2. h >= 0 /\ q >= 1 /\ q + h <= p /\ p <= q + h /\ g # 1 /\ h <= s /\ s <= h
          BY <1>4, <2>1, <3>2, <3>7, <4>2, <5>1
        <5>3. Stands(AdvanceBy(x, i, s), back, d, j, p)
          BY <3>2, <3>10, <3>11, <5>2, PassesStands
        <5> QED
          BY <5>2, <5>3
      <4> QED
        BY <4>1, <4>2
    <3> HIDE DEF it
    <3>13. /\ r.node = Null => r.v = x /\ r.ret # None
           /\ r.node # Null =>
                     \E f : /\ Sound(y, f, m) /\ Grown(x, y)
                            /\ Stands(a, back, f, m, p)
                            /\ \A l \in Int : l < p => Seen(f, m, back, l) = Seen(d, j, back, l)
      BY <3>5, <3>6, <3>9, <3>10, <3>11, <3>12, PutGrows
    <3> HIDE DEF r, y, a
    <3>14. CASE r.node = Null
      <4>1. D[g] = [D[k] EXCEPT !.v = r.v, !.ret = r.ret]
        BY <3>8, <3>14
      <4>2. /\ D[g].v = x /\ D[g].ret = r.ret /\ D[g].done = D[k].done /\ r.ret # None
            /\ {"v", "it", "done", "ret"} \subseteq DOMAIN D[g]
        BY <2>4, <3>13, <3>14, <4>1
      <4>3. D[g].done \in 0..g
        BY <2>2, <2>4, <4>2
      <4>4. Filled(v, c, n, back, e, D[g].v, d, j, D[g].done)
        BY <2>5, <4>2 DEF x
      <4> QED
        BY <4>2, <4>3, <4>4
    <3>15. CASE r.node # Null
      <4>1. D[g] = [v |-> y, it |-> a, done |-> g, ret |-> None]
        BY <3>8, <3>15
      <4>2. /\ D[g].v = y /\ D[g].it = a /\ D[g].done = g /\ D[g].ret = None
            /\ {"v", "it", "done", "ret"} \subseteq DOMAIN D[g]
        BY <4>1
      <4>3. PICK f : /\ Sound(y, f, m) /\ Grown(x, y)
                     /\ Stands(a, back, f, m, p)
                     /\ \A l \in Int : l < p => Seen(f, m, back, l) = Seen(d, j, back, l)
        BY <3>13, <3>15
      <4>4. Grown(v, y)
        BY <3>10, <4>3, StaysSteps
      <4>5. Same(c, n, f, m, back, e)
        BY <3>6, <3>10, <4>3 DEF Same
      <4>6. m = n + g
        BY <1>1, <2>1, <3>1, <3>5
      <4>7. Filled(v, c, n, back, e, y, f, m, g)
        BY <4>3, <4>4, <4>5, <4>6 DEF Filled
      <4>8. g \in 0..g
        BY <2>2
      <4>9. \E o \in Int : o = At2(g) /\ Stands(D[g].it, back, f, m, o)
        BY <3>5, <3>6, <4>2, <4>3
      <4> QED
        BY <4>2, <4>7, <4>8, <4>9
    <3> QED
      BY <3>14, <3>15
  <2> QED
    BY <2>6, <2>7
<1> HIDE DEF S
<1>5. t \in S
  <2>1. \A k \in 0..t : k < t /\ k \in S => k + 1 \in S
    BY <1>4
  <2>2. t \in Nat
    BY <1>1
  <2>3. \A k \in 0..t : k \in S
    BY <1>3, <2>1, <2>2, Climb
  <2> QED
    BY <2>2, <2>3
<1> HIDE DEF At2
<1>6. Good(t)
  BY <1>5 DEF S
<1> QED
  BY <1>1, <1>2, <1>6 DEF Putting, Fills

(***************************************************************************)
(* Deleting a slice.                                                       *)
(***************************************************************************)
LEMMA OriginKept ==
    ASSUME NEW v, NEW w, NEW ix, w.occ = v.occ
    PROVE  Passed(w, ix) = Passed(v, ix)
BY DEF Passed

\* algorithms/position.h: a slice is deleted under a guard.
LEMMA DeleteSliceKeeps ==
    ASSUME NEW v, NEW c, NEW n, Shaped(v, c, n), n <= MaxLen, ~v.bad, NEW start, NEW stop,
           NEW step, NEW ix, start \in Bounds, stop \in Bounds, step \in Steps,
           ix = SliceIndices(v, start, stop, step)
    PROVE  Keeps(v, DeleteSlice(v, ix).v)
<1>1. n \in Nat /\ v.occ = n /\ v.double \in BOOLEAN /\ MaxLen \in Nat
  BY ListAssumption DEF Shaped, Nodes, Distinct, Typed
<1> DEFINE r == Reserve(v, v.occ)
           w == DropEvery(r.v, ix, Origin(r.v, ix), ix.length)
<1>2. DeleteSlice(v, ix) =
        IF ix.length = 0 THEN Outcome(v, None) ELSE Outcome(Release(w, r.guard), None)
  BY DEF DeleteSlice
<1>3. CASE ix.length = 0
  BY <1>2, <1>3, KeepsItself DEF Outcome
<1>4. CASE ix.length # 0
  <2>1. LET e == Passed(v, ix)
        IN  /\ ix.length \in Nat /\ ix.step \in Int /\ ix.step >= 1
            /\ ix.backward \in BOOLEAN /\ (ix.backward => v.double)
            /\ ix.length >= 1 \/ ix.by = 1 => /\ e \in Int /\ 0 <= e /\ e <= v.occ
                                              /\ Fits(v.occ, e, ix.length, ix.step)
    BY <1>1, SliceFits
  <2>2. /\ ix.length \in Nat /\ ix.length >= 1 /\ ix.step \in Int /\ ix.step >= 1
        /\ ix.backward \in BOOLEAN /\ (ix.backward => v.double)
    BY <1>4, <2>1
  <2>3. PICK e \in Int : e = Passed(v, ix) /\ 0 <= e /\ e <= n /\ Fits(n, e, ix.length, ix.step)
    BY <1>1, <2>1, <2>2
  <2>4. PICK t \in Int, m \in Int : t = ix.length /\ m = n - t
    BY <1>1, <2>2
  <2>5. n >= 1 /\ m <= MaxLen /\ t >= 0 /\ m + t <= n /\ n <= m + t
    <3>1. (t - 1) * ix.step >= 0
      <4>1. PICK a \in Int, s \in Int : a = t - 1 /\ s = ix.step
        BY <2>2
      <4>2. a * s >= 0
        BY <2>2, <2>4, <4>1
      <4> QED
        BY <4>1, <4>2
    <3>2. (t - 1) * ix.step \in Int
      BY <2>2
    <3> QED
      BY <1>1, <2>2, <2>3, <2>4, <3>1, <3>2 DEF Fits
  <2>6. /\ Reserved(v, c, n, r) /\ r.ret = None
        /\ Pinned(r.v) /\ ~r.v.bad /\ r.v.double = v.double
        /\ \E d : Sound(r.v, d, n) /\ Alike(v, c, r.v, d, n)
    BY <2>5, ReserveOwn
  <2> HIDE DEF r
  <2>7. PICK d : Sound(r.v, d, n)
    BY <2>6
  <2>8. r.v.occ = v.occ
    BY <1>1, <2>7 DEF Sound, Shaped, Nodes
  <2>9. e = Passed(r.v, ix) /\ (ix.backward => r.v.double)
    BY <2>2, <2>3, <2>6, <2>8, OriginKept
  <2> DEFINE origin == Origin(r.v, ix)
  <2>10. origin = Seen(d, n, ix.backward, e)
    BY <2>2, <2>3, <2>7, <2>9, OriginSeen
  <2> HIDE DEF origin
  <2>11. Fits(n, e, t, ix.step)
    BY <2>3, <2>4
  <2>12. Thins(r.v, d, n, ix.backward, e, DropEvery(r.v, ix, origin, t), m)
    BY <2>2, <2>3, <2>5, <2>6, <2>7, <2>9, <2>10, <2>11, DropEveryCuts
  <2>13. PICK f : Sound(w, f, m) /\ Shrunk(r.v, w)
    BY <2>4, <2>12 DEF origin, Thins
  <2> HIDE DEF w
  <2>14. Shaped(w, f, m) /\ ~w.bad /\ Stays(r.v, w)
    BY <2>6, <2>13, StaysSteps DEF Sound, Shrunk
  <2>15. Keeps(v, Release(w, r.guard))
    BY <2>5, <2>6, <2>14, ReleaseKeeps
  <2>16. DeleteSlice(v, ix).v = Release(w, r.guard)
    BY <1>2, <1>4 DEF Outcome
  <2> QED
    BY <2>15, <2>16
<1> QED
  BY <1>3, <1>4

(***************************************************************************)
(* Replacing a slice.  The new nodes may take the addresses of the old.    *)
(***************************************************************************)
\* Where the values of a slice go when its nodes are gone.
LEMMA SpansFit ==
    ASSUME NEW n \in Int, NEW e \in Int, NEW l \in Int, NEW s \in Int, NEW t \in Int,
           NEW m \in Int, l >= 0, t >= 0, s >= 1, e >= 0, e <= n, Fits(n, e, l, s),
           s = 1 \/ t = l, m + l <= n, n <= m + l
    PROVE  e <= m /\ Room(m, e, t, s) /\ Room(m, e, l, s)
<1>1. ASSUME l >= 1 PROVE e <= m /\ e + (l - 1) * (s - 1) <= m
  <2>1. e + 1 + (l - 1) * s <= n
    BY <1>1 DEF Fits
  <2>2. PICK a \in Int, b \in Int : a = l - 1 /\ b = s - 1
    OBVIOUS
  <2>3. a * b >= 0
    BY <1>1, <2>2
  <2>4. (l - 1) * (s - 1) >= 0 /\ (l - 1) * (s - 1) = (l - 1) * s - (l - 1)
    BY <2>2, <2>3
  <2>5. (l - 1) * (s - 1) \in Int /\ (l - 1) * s \in Int
    OBVIOUS
  <2> QED
    BY <2>1, <2>4, <2>5
<1>2. l = 0 => e <= m
  OBVIOUS
<1>3. e <= m
  BY <1>1, <1>2
<1>4. Room(m, e, l, s)
  BY <1>1 DEF Room
<1>5. s = 1 => Room(m, e, t, s)
  <2>1. (t - 1) * (1 - 1) = 0
    OBVIOUS
  <2> QED
    BY <1>3, <2>1 DEF Room
<1> QED
  BY <1>3, <1>4, <1>5

\* The nodes that were linked in can be found again.
LEMMA UndoFits ==
    ASSUME NEW m \in Int, NEW e \in Int, NEW t \in Int, NEW s \in Int, NEW k \in Int,
           NEW j \in Int, k >= 0, k <= t, s >= 1, Room(m, e, t, s), j = m + k
    PROVE  Fits(j, e, k, s)
<1> SUFFICES ASSUME k >= 1 PROVE e + 1 + (k - 1) * s <= j
  BY DEF Fits
<1>1. PICK i \in Int : i = k - 1
  OBVIOUS
<1>2. e + (t - 1) * (s - 1) <= m
  BY DEF Room
<1>3. i >= 0 /\ i < t
  BY <1>1
<1>4. e + i * s <= m + i /\ i * s \in Int
  BY <1>2, <1>3, SpansPut
<1> QED
  BY <1>1, <1>4

\* The items of an assignment, in the order of the traversal.
LEMMA ItemsListed ==
    ASSUME NEW ix, NEW items, items \in Replacements, NEW t \in Int, t = Len(items)
    PROVE  t >= 0 /\ Listing(InOrder(ix, items), t)
<1>1. items \in Seq(Args)
  BY SliceAssumption
<1>2. Len(items) \in Nat /\ DOMAIN items = 1..Len(items)
  BY <1>1
<1>3. \A k \in 1..t : items[k] \in Values \cup {Wrong}
  <2>1. \A k \in 1..Len(items) : items[k] \in Args
    BY <1>1
  <2> QED
    BY <2>1, ItemIsValue
<1> DEFINE f == [k \in 1..t |-> items[t + 1 - k]]
<1>4. Len(f) = t
  BY <1>2, LenOfFunction
<1>5. \A k \in 1..t : f[k] \in Values \cup {Wrong}
  <2>1. ASSUME NEW k \in 1..t PROVE f[k] \in Values \cup {Wrong}
    <3>1. t + 1 - k \in 1..t
      OBVIOUS
    <3> QED
      BY <1>3, <3>1
  <2> QED
    BY <2>1
<1>6. InOrder(ix, items) = IF ix.inverted THEN f ELSE items
  BY <1>2 DEF InOrder
<1> HIDE DEF f
<1> QED
  BY <1>2, <1>3, <1>4, <1>5, <1>6 DEF Listing

\* The values that the slice had.
LEMMA VisitedListed ==
    ASSUME NEW v, NEW c, NEW n, Sound(v, c, n), NEW ix, ix.backward \in BOOLEAN,
           ix.backward => v.double, ix.step \in Int, ix.step >= 1,
           NEW e \in Int, e >= 0, e <= n, NEW t \in Int, t >= 0, t = ix.length,
           Origin(v, ix) = Seen(c, n, ix.backward, e)
    PROVE  Listing(Visited(v, ix), t)
<1> DEFINE back == ix.backward
           origin == Origin(v, ix)
           it == SliceIter(v, ix, origin)
           f == [k \in 1..t |-> v.val[AdvanceBy(v, it, (k - 1) * ix.step).curr]]
<1>1. Nodes(v, c, n) /\ n \in Nat
  BY DEF Sound, Shaped, Nodes, Distinct
<1>2. Visited(v, ix) = f
  BY DEF Visited
<1>3. Len(f) = t
  BY LenOfFunction
<1>4. PICK q \in Int : q = e + 1
  OBVIOUS
<1> HIDE DEF origin
<1>5. Stands(it, back, c, n, q)
  BY <1>4, SliceIterStands DEF origin
<1> HIDE DEF it
<1>6. ASSUME NEW k \in 1..t PROVE v.val[AdvanceBy(v, it, (k - 1) * ix.step).curr] \in Values
  <2>1. PICK s \in Int : s = (k - 1) * ix.step
    OBVIOUS
  <2>2. s >= 0
    <3>1. PICK a \in Int, b \in Int : a = k - 1 /\ b = ix.step
      OBVIOUS
    <3>2. a * b >= 0
      BY <3>1
    <3> QED
      BY <2>1, <3>1, <3>2
  <2>3. PICK p \in Int : p = q + s
    OBVIOUS
  <2>4. s >= 0 /\ q >= 1 /\ q + s <= p /\ p <= q + s /\ s <= s
    BY <1>4, <2>2, <2>3
  <2>5. Stands(AdvanceBy(v, it, s), back, c, n, p)
    BY <1>1, <1>5, <2>4, PassesStands
  <2>6. AdvanceBy(v, it, s).curr \in Address
    <3>1. AdvanceBy(v, it, s).curr = At(c, n, Place(back, n, p))
      BY <2>5 DEF Stands, Around
    <3>2. \A k1 : At(c, n, k1) \in Address
      BY <1>1, SlotIsAddress DEF At, Nodes, Distinct
    <3> QED
      BY <3>1, <3>2
  <2>7. v.val \in [Address -> Values]
    BY <1>1 DEF Nodes, Typed
  <2> QED
    BY <2>1, <2>6, <2>7
<1> HIDE DEF it
<1>7. \A k \in 1..t : f[k] \in Values \cup {Wrong}
  BY <1>6
<1> HIDE DEF f
<1> QED
  BY <1>2, <1>3, <1>7 DEF Listing

\* What an assignment to a slice leaves: a list that fits, and while the array
\* is frozen its capacity.
Refits(v, w) ==
    ~w.bad =>
        /\ \E d, k : Shaped(w, d, k) /\ k <= MaxLen
        /\ v.frozen /\ w.frozen => w.cap = v.cap

\* What keeps its nodes keeps its capacity.
LEMMA KeepsRefits ==
    ASSUME NEW v, NEW w, Keeps(v, w)
    PROVE  Refits(v, w)
BY DEF Keeps, Refits, Stays

\* The guard of the operation ends.
LEMMA ReleaseRefits ==
    ASSUME NEW v, NEW c, NEW n, NEW r, Reserved(v, c, n, r), r.ret = None,
           NEW w, NEW d, NEW k, Shaped(w, d, k), k <= MaxLen, ~w.bad, w.cap = r.v.cap
    PROVE  Refits(v, Release(w, r.guard))
<1> DEFINE u == Release(w, r.guard)
<1>1. r.guard \in BOOLEAN /\ (r.guard <=> ~Pinned(v)) /\ (Pinned(v) => r.v = v)
  BY DEF Reserved
<1>2. k <= MaxLen + 1 /\ k \in Nat
  BY ListAssumption DEF Shaped, Nodes, Distinct
<1>3. /\ ~r.guard => u = w
      /\ ~u.bad => /\ r.guard => ~u.frozen
                   /\ \E e : Shaped(u, e, k) /\ Alike(w, d, u, e, k)
  BY <1>1, <1>2, ReleaseShaped
<1> HIDE DEF u
<1>4. v.frozen => u = w /\ u.cap = v.cap
  BY <1>1, <1>3 DEF Pinned
<1> QED
  BY <1>3, <1>4 DEF Refits, u

\* A list that fits, in the same array.
Settled(u, w) ==
    /\ ~w.bad /\ w.cap = u.cap
    /\ \E d, k : Shaped(w, d, k) /\ k <= MaxLen

\* The lengths of a slice and of the items assigned to it, and its origin.
Chosen(u, ix, origin, items, l, t) ==
    /\ l = ix.length /\ items \in Replacements /\ t = Len(items)
    /\ origin = Origin(u, ix) /\ (ix.step = 1 \/ t = l)

\* Both ends of an assignment: all items are in, or the old values again.
SettlesAll(u, ix, origin, items) ==
    LET without == DropEvery(u, ix, origin, ix.length)
        new == InsertEvery(without, ix, origin, InOrder(ix, items))
        undone == DropEvery(new.v, ix, origin, new.done)
        restored == InsertEvery(undone, ix, origin, Visited(u, ix))
    IN  Settled(u, new.v) /\ Settled(u, restored.v)

\* A slice of l nodes is taken out of n, and t take their place.
Parted(n, l, t, m) == m + l <= n /\ n <= m + l /\ m + t <= MaxLen

\* Each of the four loops finds a list that it fits.
LEMMA SetSettles ==
    ASSUME NEW u, NEW c, NEW n, NEW ix, NEW items, NEW origin,
           NEW e \in Int, NEW l \in Int, NEW t \in Int, NEW m \in Int,
           Sound(u, c, n), Pinned(u), ~u.bad, n <= MaxLen,
           ix.backward \in BOOLEAN, ix.backward => u.double, ix.step \in Int, ix.step >= 1,
           e >= 0, e <= n, l >= 0, Fits(n, e, l, ix.step), Parted(n, l, t, m),
           origin = Seen(c, n, ix.backward, e), Chosen(u, ix, origin, items, l, t)
    PROVE  SettlesAll(u, ix, origin, items)
<1> DEFINE without == DropEvery(u, ix, origin, l)
           values == InOrder(ix, items)
           new == InsertEvery(without, ix, origin, values)
           undone == DropEvery(new.v, ix, origin, new.done)
           old == Visited(u, ix)
           restored == InsertEvery(undone, ix, origin, old)
           back == ix.backward
<1>0. n \in Int /\ m + l <= n /\ n <= m + l /\ m + t <= MaxLen
  BY DEF Sound, Shaped, Nodes, Distinct, Parted
<1>1. e <= m /\ Room(m, e, t, ix.step) /\ Room(m, e, l, ix.step) /\ t >= 0 /\ MaxLen \in Int
  <2>1. t >= 0
    BY ItemsListed DEF Chosen
  <2>2. PICK s \in Int : s = ix.step
    OBVIOUS
  <2>3. PICK i \in Int : i = n
    BY DEF Sound, Shaped, Nodes, Distinct
  <2>4. /\ i <= m + l /\ m + l <= i /\ e <= i /\ Fits(i, e, l, s) /\ s >= 1
        /\ (s = 1 \/ t = l)
    BY <1>0, <2>2, <2>3 DEF Chosen
  <2>5. e <= m /\ Room(m, e, t, s) /\ Room(m, e, l, s)
    BY <2>1, <2>4, SpansFit
  <2> QED
    BY <2>1, <2>2, <2>5, ListAssumption
<1>2. PICK d : Sound(without, d, m) /\ Shrunk(u, without) /\ Same(c, n, d, m, back, e)
  <2>1. Thins(u, c, n, ix.backward, e, DropEvery(u, ix, origin, l), m)
    <3>1. m + l <= n /\ n <= m + l
      BY DEF Parted
    <3> QED
      BY <3>1, DropEveryCuts
  <2> QED
    BY <2>1 DEF Thins
<1> HIDE DEF without
<1>3. /\ Pinned(without) /\ ~without.bad /\ (ix.backward => without.double)
      /\ without.cap = u.cap
  BY <1>2, StaysSteps DEF Shrunk, SameFlags
<1>4. origin = Seen(d, m, ix.backward, e)
  BY <1>2 DEF Same
<1>5. Listing(values, t)
  BY ItemsListed DEF Chosen
<1> HIDE DEF values
<1>6. /\ new.done \in Int /\ 0 <= new.done /\ new.done <= t
      /\ \E f, j : Filled(without, d, m, ix.backward, e, new.v, f, j, new.done)
  <2>1. m + t <= MaxLen /\ e <= m /\ t >= 0 /\ Room(m, e, t, ix.step)
    BY <1>0, <1>1
  <2>2. Fills(without, d, m, ix.backward, e, t, InsertEvery(without, ix, origin, values))
    BY <1>2, <1>3, <1>4, <1>5, <2>1, InsertEveryGrows
  <2> QED
    BY <2>2 DEF Fills
<1> HIDE DEF new
<1>7. PICK f, j : Filled(without, d, m, back, e, new.v, f, j, new.done)
  BY <1>6
<1>8. PICK k \in Int : k = new.done
  BY <1>6
<1>9. /\ Sound(new.v, f, j) /\ Grown(without, new.v) /\ Same(d, m, f, j, back, e)
      /\ j = m + k /\ j \in Int /\ j <= MaxLen
  BY <1>0, <1>1, <1>6, <1>7, <1>8 DEF Filled
<1>10. /\ Pinned(new.v) /\ ~new.v.bad /\ (ix.backward => new.v.double) /\ new.v.cap = u.cap
  BY <1>3, <1>9, StaysSteps DEF Grown, SameFlags
<1>11. origin = Seen(f, j, ix.backward, e)
  BY <1>4, <1>9 DEF Same
<1>12. Fits(j, e, k, ix.step)
  <2>1. PICK s \in Int : s = ix.step
    OBVIOUS
  <2>2. k >= 0 /\ k <= t /\ s >= 1 /\ Room(m, e, t, s)
    BY <1>1, <1>6, <1>8, <2>1
  <2>3. Fits(j, e, k, s)
    BY <1>9, <2>2, UndoFits
  <2> QED
    BY <2>1, <2>3
<1>13. PICK g : Sound(undone, g, m) /\ Shrunk(new.v, undone) /\ Same(f, j, g, m, back, e)
  <2>1. k >= 0 /\ m + k <= j /\ j <= m + k /\ e <= j
    BY <1>1, <1>6, <1>8, <1>9
  <2>2. Thins(new.v, f, j, ix.backward, e, DropEvery(new.v, ix, origin, k), m)
    BY <1>9, <1>10, <1>11, <1>12, <2>1, DropEveryCuts
  <2> QED
    BY <1>8, <2>2 DEF Thins
<1> HIDE DEF undone
<1>14. /\ Pinned(undone) /\ ~undone.bad /\ (ix.backward => undone.double)
       /\ undone.cap = u.cap
  BY <1>10, <1>13, StaysSteps DEF Shrunk, SameFlags
<1>15. origin = Seen(g, m, ix.backward, e)
  BY <1>11, <1>13 DEF Same
<1>16. Listing(old, l)
  <2>1. l = ix.length /\ Origin(u, ix) = Seen(c, n, ix.backward, e)
    BY DEF Chosen
  <2> QED
    BY <2>1, VisitedListed
<1> HIDE DEF old
<1>17. m + l <= MaxLen
  BY <1>0, <1>1
<1>18. /\ restored.done \in Int /\ 0 <= restored.done /\ restored.done <= l
       /\ \E h, i : Filled(undone, g, m, ix.backward, e, restored.v, h, i, restored.done)
  <2>1. e <= m /\ Room(m, e, l, ix.step)
    BY <1>1
  <2>2. Fills(undone, g, m, ix.backward, e, l, InsertEvery(undone, ix, origin, old))
    BY <1>13, <1>14, <1>15, <1>16, <1>17, <2>1, InsertEveryGrows
  <2> QED
    BY <2>2 DEF Fills
<1> HIDE DEF restored
<1>19. PICK h, i : Filled(undone, g, m, back, e, restored.v, h, i, restored.done)
  BY <1>18
<1>20. Sound(restored.v, h, i) /\ Grown(undone, restored.v) /\ i <= MaxLen
  BY <1>0, <1>1, <1>18, <1>19 DEF Filled
<1>21. Settled(u, restored.v)
  BY <1>14, <1>20 DEF Settled, Grown, Sound
<1>22. Settled(u, new.v)
  BY <1>9, <1>10 DEF Settled, Sound
<1> QED
  BY <1>21, <1>22 DEF SettlesAll, Chosen, without, values, new, undone, old, restored

\* A slice of the list, and a sequence that may be assigned to it.
Sliced(v, ix) ==
    \E start, stop \in Bounds, step \in Steps : ix = SliceIndices(v, start, stop, step)
MayBecome(v, ix, items) ==
    items \in Replacements /\ v.occ - ix.length + Len(items) <= MaxLen

\* Replacing a slice, also when an item is refused half-way and the old ones go back.
LEMMA SetSliceRefits ==
    ASSUME NEW v, NEW c, NEW n, Shaped(v, c, n), n <= MaxLen, ~v.bad, NEW ix, Sliced(v, ix),
           NEW items, MayBecome(v, ix, items)
    PROVE  Refits(v, SetSlice(v, ix, items).v)
<1> DEFINE more == v.occ - ix.length + Len(items)
           room == IF more < v.occ THEN v.occ ELSE more
           r == Reserve(v, room)
           origin == Origin(r.v, ix)
           without == DropEvery(r.v, ix, origin, ix.length)
           new == InsertEvery(without, ix, origin, InOrder(ix, items))
           undone == DropEvery(new.v, ix, origin, new.done)
           restored == InsertEvery(undone, ix, origin, Visited(r.v, ix))
<1>1. n \in Nat /\ v.occ = n /\ v.double \in BOOLEAN /\ MaxLen \in Nat
  BY ListAssumption DEF Shaped, Nodes, Distinct, Typed
<1>2. SetSlice(v, ix, items) =
        IF ix.length # Len(items) /\ ix.by # 1 THEN Outcome(v, "ValueError")
        ELSE IF ix.length = 0 /\ items = <<>> THEN Outcome(v, None)
        ELSE IF r.ret # None THEN Outcome(v, r.ret)
        ELSE IF r.v.bad \/ Dangling(r.v) THEN Outcome(Broken(v), None)
        ELSE IF new.ret = None THEN Outcome(Release(new.v, r.guard), None)
        ELSE Outcome(Release(restored.v, r.guard), new.ret)
  BY DEF SetSlice
<1>3. Refits(v, v) /\ Refits(v, Broken(v))
  BY KeepsItself, KeepsRefits
<1>4. ASSUME ix.length = Len(items) \/ ix.by = 1, ~(ix.length = 0 /\ items = <<>>),
             r.ret = None, ~r.v.bad, ~Dangling(r.v)
      PROVE  Refits(v, Release(new.v, r.guard)) /\ Refits(v, Release(restored.v, r.guard))
  <2>1. LET e == Passed(v, ix)
        IN  /\ ix.length \in Nat /\ ix.step \in Int /\ ix.step >= 1
            /\ ix.backward \in BOOLEAN /\ (ix.backward => v.double)
            /\ ix.by = 1 => ix.step = 1
            /\ ix.length >= 1 \/ ix.by = 1 => /\ e \in Int /\ 0 <= e /\ e <= v.occ
                                              /\ Fits(v.occ, e, ix.length, ix.step)
    BY <1>1, SliceFits DEF Sliced
  <2>2. Len(items) \in Nat /\ (Len(items) = 0 => items = <<>>)
    <3>1. items \in Seq(Args)
      BY SliceAssumption DEF MayBecome
    <3> QED
      BY <3>1
  <2>3. PICK l \in Int, t \in Int, m \in Int : l = ix.length /\ t = Len(items) /\ m = n - l
    BY <1>1, <2>1, <2>2
  <2>4. ix.length >= 1 \/ ix.by = 1
    BY <1>4, <2>1, <2>2
  <2>5. PICK e \in Int : e = Passed(v, ix) /\ 0 <= e /\ e <= n /\ Fits(n, e, l, ix.step)
    BY <1>1, <2>1, <2>3, <2>4
  <2>6. /\ l >= 0 /\ (ix.step = 1 \/ t = l) /\ m + l <= n /\ n <= m + l /\ m + t <= MaxLen
        /\ ix.step \in Int /\ ix.step >= 1
        /\ ix.backward \in BOOLEAN /\ (ix.backward => v.double)
    <3>1. v.occ - ix.length + Len(items) <= MaxLen
      BY DEF MayBecome
    <3>2. l >= 0 /\ m + l <= n /\ n <= m + l /\ m + t <= MaxLen
      BY <1>1, <2>1, <2>3, <3>1
    <3>3. ix.step = 1 \/ t = l
      BY <1>4, <2>1, <2>3
    <3> QED
      BY <2>1, <3>2, <3>3
  <2>7. room \in Nat
    BY <1>1, <2>1, <2>2
  <2> HIDE DEF room
  <2>8. Reserved(v, c, n, r)
    BY <2>7, ReserveShaped
  <2> HIDE DEF r
  <2>9. /\ Pinned(r.v) /\ r.v.double = v.double
        /\ \E d : Shaped(r.v, d, n) /\ Alike(v, c, r.v, d, n)
    BY <1>4, <2>8 DEF Reserved
  <2>10. PICK d : Shaped(r.v, d, n)
    BY <2>9
  <2>11. Sound(r.v, d, n)
    BY <1>4, <2>10, AttachedSound
  <2>12. r.v.occ = v.occ
    BY <1>1, <2>10 DEF Shaped, Nodes
  <2>13. e = Passed(r.v, ix) /\ (ix.backward => r.v.double)
    BY <2>5, <2>6, <2>9, <2>12, OriginKept
  <2>14. origin = Seen(d, n, ix.backward, e)
    BY <2>5, <2>6, <2>11, <2>13, OriginSeen
  <2>15. PICK p : p = origin
    OBVIOUS
  <2>16. Settled(r.v, new.v) /\ Settled(r.v, restored.v)
    <3>1. p = Origin(r.v, ix) /\ p = Seen(d, n, ix.backward, e) /\ n \in Int
      BY <1>1, <2>14, <2>15
    <3>3. Chosen(r.v, ix, p, items, l, t)
      BY <2>3, <2>6, <3>1 DEF Chosen, MayBecome
    <3>4. p = Seen(d, n, ix.backward, e)
      BY <3>1
    <3>5. e >= 0 /\ e <= n /\ Fits(n, e, l, ix.step)
      BY <2>5
    <3>2. SettlesAll(r.v, ix, p, items)
      <4>1. PICK y : y = r.v
        OBVIOUS
      <4>2. Sound(y, d, n) /\ Pinned(y) /\ ~y.bad /\ (ix.backward => y.double)
        BY <1>4, <2>9, <2>11, <2>13, <4>1
      <4>3. Chosen(y, ix, p, items, l, t)
        BY <3>3, <4>1
      <4>4. /\ l >= 0 /\ Parted(n, l, t, m)
            /\ ix.step \in Int /\ ix.step >= 1 /\ ix.backward \in BOOLEAN
        BY <2>6 DEF Parted
      <4>5. SettlesAll(y, ix, p, items)
        BY <3>4, <3>5, <4>2, <4>3, <4>4, SetSettles
      <4> QED
        BY <4>1, <4>5
    <3> QED
      BY <2>15, <3>2 DEF SettlesAll
  <2> HIDE DEF new, restored
  <2>17. ASSUME NEW w, Settled(r.v, w) PROVE Refits(v, Release(w, r.guard))
    <3>1. PICK f, k : Shaped(w, f, k) /\ k <= MaxLen
      BY <2>17 DEF Settled
    <3>2. ~w.bad /\ w.cap = r.v.cap
      BY <2>17 DEF Settled
    <3> QED
      BY <1>4, <2>8, <3>1, <3>2, ReleaseRefits
  <2> QED
    BY <2>16, <2>17
<1> HIDE DEF r, new, restored
<1> QED
  BY <1>2, <1>3, <1>4 DEF Outcome

(***************************************************************************)
(* The invariant: the view is a list that fits, and an extend that nothing *)
(* has interfered with still finds the elements that it found.             *)
(***************************************************************************)
\* Where the j-th of the old elements is, among n.
Entry(e, n, j) == IF e.side = "head" THEN j + (n - e.start) ELSE j
OldAt(v, c, n, e) ==
    e.start <= n /\ e.old = [j \in 1..e.start |-> v.val[c[Entry(e, n, j)]]]

Fitting(v) == \E c, n : Shaped(v, c, n) /\ n <= MaxLen
Stored(v, e) ==
    \E c, n : /\ Shaped(v, c, n) /\ n <= MaxLen
              /\ e.side # "none" /\ e.alone => OldAt(v, c, n, e)

ExtTyped(e) ==
    /\ DOMAIN e = {"side", "start", "hold", "old", "alone"}
    /\ e.side \in {"none", "tail", "head"} /\ e.start \in 0..MaxLen
    /\ e.hold \in BOOLEAN /\ e.alone \in BOOLEAN

ListInv ==
    Stored(view, ext) /\ guard \in {"none", "empty", "active"} /\ ExtTyped(ext)

\* What a step does while the array is frozen, and what the end of an extend
\* that fails restores.
Steady ==
    view.frozen /\ view'.frozen =>
        view'.cap = view.cap /\ (op'[1] # "set_slice" => Stays(view, view'))
Restored ==
    Extending /\ ext.alone /\ ext'.side = "none"
        /\ ret' \in {"MemoryError", "TypeError", "GeneratorError"}
      => Elements(view') = ext.old
StepOK == ListInv' /\ Steady /\ Restored

\* What is left after undefined behaviour is not changed.
LEMMA BrokenShaped ==
    ASSUME NEW v, NEW c, NEW n, Shaped(v, c, n)
    PROVE  LET w == Broken(v)
           IN  Shaped(w, c, n) /\ w.cap = v.cap /\ w.val = v.val /\ w.live = v.live /\ w.bad
<1> DEFINE w == Broken(v)
<1>1. Typed(v) /\ "bad" \in DOMAIN v
  BY DEF Shaped, Nodes, Typed
<1>2. /\ DOMAIN w = DOMAIN v /\ w.bad = TRUE
      /\ w.double = v.double /\ w.fixed = v.fixed /\ w.next = v.next /\ w.prev = v.prev
      /\ w.val = v.val /\ w.head = v.head /\ w.tail = v.tail /\ w.cap = v.cap
      /\ w.occ = v.occ /\ w.first = v.first /\ w.last = v.last /\ w.live = v.live
      /\ w.frozen = v.frozen
  BY <1>1 DEF Broken, Typed
<1> HIDE DEF w
<1>3. Typed(w)
  BY <1>1, <1>2 DEF Typed
<1>4. Nodes(w, c, n)
  BY <1>2, <1>3 DEF Shaped, Nodes, Chained
<1>5. \E f, m : Memory(w, f, m)
  <2>1. PICK f, m : Memory(v, f, m)
    BY DEF Shaped
  <2>2. Memory(w, f, m)
    BY <1>2, <2>1 DEF Memory, Freed, Packed
  <2> QED
    BY <2>2
<1> QED
  BY <1>2, <1>4, <1>5 DEF Shaped, w

\* What the program sees after an operation.
LEMMA LeavesFitting ==
    ASSUME NEW c, NEW n, Shaped(view, c, n), n <= MaxLen, NEW w, NEW returned,
           Leaves(w, returned), Refits(view, w)
    PROVE  /\ Fitting(view')
           /\ view.frozen /\ view'.frozen => view'.cap = view.cap
           /\ Keeps(view, w) /\ view.frozen /\ view'.frozen => Stays(view, view')
<1>1. CASE w.bad
  <2>1. view' = Broken(view)
    BY <1>1 DEF Leaves
  <2>2. Shaped(view', c, n) /\ view'.cap = view.cap /\ view'.val = view.val
    BY <2>1, BrokenShaped
  <2> QED
    BY <2>2 DEF Fitting, Stays
<1>2. CASE ~w.bad
  <2>1. view' = w
    BY <1>2 DEF Leaves
  <2> QED
    BY <1>2, <2>1 DEF Refits, Keeps, Fitting
<1> QED
  BY <1>1, <1>2

\* An extend that an operation has interfered with promises nothing more.
LEMMA InterleavesOld ==
    ASSUME ExtTyped(ext), Interleaves
    PROVE  ExtTyped(ext') /\ ext'.side = ext.side /\ (ext'.side # "none" => ~ext'.alone)
<1>1. CASE Extending
  <2> DEFINE e == [ext EXCEPT !.alone = FALSE, !.old = <<>>]
  <2>1. ext' = e
    BY <1>1 DEF Interleaves
  <2>2. DOMAIN e = DOMAIN ext /\ e.side = ext.side /\ e.start = ext.start /\ e.hold = ext.hold
        /\ e.alone = FALSE
    BY DEF ExtTyped
  <2> HIDE DEF e
  <2> QED
    BY <2>1, <2>2 DEF ExtTyped
<1>2. CASE ~Extending
  BY <1>2 DEF Interleaves, Extending
<1> QED
  BY <1>1, <1>2

\* A whole operation of the caller or of the generator.
LEMMA CallSteady ==
    ASSUME ListInv, NEW w, NEW returned, Leaves(w, returned), Refits(view, w), Interleaves,
           guard' \in {"none", "empty", "active"}, Keeps(view, w) \/ op'[1] = "set_slice"
    PROVE  StepOK
<1>1. PICK c, n : Shaped(view, c, n) /\ n <= MaxLen
  BY DEF ListInv, Stored
<1>2. /\ Fitting(view')
      /\ view.frozen /\ view'.frozen => view'.cap = view.cap
      /\ Keeps(view, w) /\ view.frozen /\ view'.frozen => Stays(view, view')
  BY <1>1, LeavesFitting
<1>3. ExtTyped(ext') /\ ext'.side = ext.side /\ (ext'.side # "none" => ~ext'.alone)
  BY InterleavesOld DEF ListInv
<1>4. Stored(view', ext')
  BY <1>2, <1>3 DEF Fitting, Stored
<1>5. Restored
  BY <1>3 DEF Restored, Extending
<1> QED
  BY <1>2, <1>3, <1>4, <1>5 DEF StepOK, ListInv, Steady

\* An operation that keeps the nodes.
LEMMA CallKeepsList ==
    ASSUME ListInv, NEW name, NEW outcome, Call(name, outcome), Keeps(view, outcome.v)
    PROVE  StepOK
<1>1. Leaves(outcome.v, outcome.ret) /\ Interleaves /\ guard' = guard
  BY DEF Call
<1>2. Refits(view, outcome.v) /\ guard' \in {"none", "empty", "active"}
  BY <1>1, KeepsRefits DEF ListInv
<1> QED
  BY <1>1, <1>2, CallSteady

\* The guards of the caller.
LEMMA ReserveKeeps ==
    ASSUME NEW v, NEW c, NEW n, Shaped(v, c, n), n <= MaxLen, NEW r, Reserved(v, c, n, r)
    PROVE  Keeps(v, r.v)
<1>1. r.v = v => Keeps(v, r.v)
  BY KeepsItself
<1>2. v.frozen => r.v = v
  BY DEF Reserved, Pinned
<1>3. r.ret # None => r.v = v
  BY DEF Reserved
<1>4. ASSUME ~v.frozen, r.ret = None PROVE Keeps(v, r.v)
  BY <1>4 DEF Reserved, Keeps
<1> QED
  BY <1>1, <1>2, <1>3, <1>4

\* The end of a MemGuard.
LEMMA EndKeeps ==
    ASSUME NEW v, NEW c, NEW n, Shaped(v, c, n), n <= MaxLen, ~v.bad, NEW b, b \in BOOLEAN
    PROVE  Keeps(v, Release(v, b))
<1> DEFINE w == Release(v, b)
<1>1. n <= MaxLen + 1
  BY ListAssumption DEF Shaped, Nodes, Distinct
<1>2. /\ ~b => w = v
      /\ ~w.bad => /\ b => ~w.frozen
                   /\ \E d : Shaped(w, d, n) /\ Alike(v, c, w, d, n)
  BY <1>1, ReleaseShaped
<1> HIDE DEF w
<1> QED
  BY <1>2, StaysSteps DEF Keeps, w

\* The guards of the caller are entered and left.
LEMMA GuardsKeepList ==
    ASSUME ListInv, ~view.bad, (\E n \in 0..Slots : Enter(n)) \/ Exit
    PROVE  StepOK
<1>1. PICK c, n : Shaped(view, c, n) /\ n <= MaxLen
  BY DEF ListInv, Stored
<1>2. ASSUME NEW k \in 0..Slots, Enter(k) PROVE StepOK
  <2> DEFINE r == Reserve(view, k)
  <2>1. k \in Nat
    BY AllocatorAssumption
  <2>2. Reserved(view, c, n, r)
    BY <1>1, <2>1, ReserveShaped
  <2>3. /\ Leaves(r.v, r.ret) /\ Interleaves
        /\ guard' = IF r.ret # None \/ r.v.bad THEN "none"
                    ELSE IF r.guard THEN "active" ELSE "empty"
    BY <1>2 DEF Enter
  <2> HIDE DEF r
  <2>4. Keeps(view, r.v)
    BY <1>1, <2>2, ReserveKeeps
  <2>5. Refits(view, r.v) /\ guard' \in {"none", "empty", "active"}
    BY <2>3, <2>4, KeepsRefits
  <2> QED
    BY <2>3, <2>4, <2>5, CallSteady
<1>3. ASSUME Exit PROVE StepOK
  <2>1. PICK b \in BOOLEAN : b <=> guard = "active"
    OBVIOUS
  <2>2. b = (guard = "active")
    BY <2>1
  <2> DEFINE w == Release(view, guard = "active")
  <2>3. Leaves(w, None) /\ Interleaves /\ guard' = "none"
    BY <1>3 DEF Exit
  <2>4. Keeps(view, w)
    BY <1>1, <2>2, EndKeeps
  <2> HIDE DEF w
  <2>5. Refits(view, w)
    BY <2>4, KeepsRefits
  <2> QED
    BY <2>3, <2>4, <2>5, CallSteady
<1> QED
  BY <1>2, <1>3

(***************************************************************************)
(* The steps of an extend.                                                 *)
(***************************************************************************)
\* What the list holds is what its nodes hold.
LEMMA ElementsAre ==
    ASSUME NEW v, NEW c, NEW n, Shaped(v, c, n), n <= MaxLen
    PROVE  Elements(v) = [j \in 1..n |-> v.val[c[j]]]
<1>1. Nodes(v, c, n) /\ n \in Nat /\ n <= Slots /\ DOMAIN c = 1..n
  BY ListAssumption, AllocatorAssumption DEF Shaped, Nodes, Distinct
<1>2. CASE Dangling(v)
  <2>1. n = 0
    BY <1>1, <1>2, AttachedSound
  <2>2. Elements(v) = <<>>
    BY <1>2 DEF Elements
  <2>3. [j \in 1..n |-> v.val[c[j]]] = <<>>
    BY <2>1
  <2> QED
    BY <2>2, <2>3
<1>3. CASE ~Dangling(v)
  <2>1. Sound(v, c, n)
    BY <1>3, AttachedSound
  <2>2. n > 0 \/ v.head = Null
    BY <1>1, <2>1 DEF Sound, At
  <2>3. Chain(v) = c
    BY <1>1, <2>2, ChainIs
  <2> QED
    BY <1>1, <1>3, <2>3 DEF Elements, ValuesOf
<1> QED
  BY <1>2, <1>3

\* The elements come back, from another place in the chain.
LEMMA ElementsRestored ==
    ASSUME NEW v, NEW c, NEW n, NEW w, NEW d, NEW e, OldAt(v, c, n, e),
           Shaped(w, d, e.start), Restores(v, c, n, w, d, e), e.start <= MaxLen
    PROVE  Elements(w) = e.old
<1>1. Elements(w) = [j \in 1..e.start |-> w.val[d[j]]]
  BY ElementsAre
<1>2. e.old = [j \in 1..e.start |-> v.val[c[Entry(e, n, j)]]]
  BY DEF OldAt
<1>3. \A j \in 1..e.start : w.val[d[j]] = v.val[c[Entry(e, n, j)]]
  BY DEF Restores, Entry
<1> QED
  BY <1>1, <1>2, <1>3

\* The old elements move with the array.
LEMMA OldMoves ==
    ASSUME NEW v, NEW c, NEW n, NEW w, NEW d, NEW e, n \in Nat, e.start \in Nat,
           OldAt(v, c, n, e), Alike(v, c, w, d, n)
    PROVE  OldAt(w, d, n, e)
<1>1. e.start <= n
  BY DEF OldAt
<1>2. \A j \in 1..e.start : Entry(e, n, j) \in 1..n
  BY <1>1 DEF Entry
<1>3. \A j \in 1..e.start : w.val[d[Entry(e, n, j)]] = v.val[c[Entry(e, n, j)]]
  BY <1>2 DEF Alike
<1>4. e.old = [j \in 1..e.start |-> v.val[c[Entry(e, n, j)]]]
  BY DEF OldAt
<1> QED
  BY <1>1, <1>3, <1>4 DEF OldAt

\* An item is added after the old elements, or before them.
LEMMA OldStays ==
    ASSUME NEW v, NEW c, NEW n, NEW w, NEW d, NEW x, NEW e, n \in Nat, e.start \in Nat,
           OldAt(v, c, n, e), \A k \in 1..n : w.val[d[k]] = v.val[c[k]]
    PROVE  OldAt(w, With(d, n, IF e.side = "head" THEN 1 ELSE n + 1, x), n + 1, e)
<1> DEFINE q == IF e.side = "head" THEN 1 ELSE n + 1
           f == With(d, n, q, x)
<1>1. OldAt(w, d, n, e)
  BY OldMoves DEF Alike
<1>2. e.start <= n
  BY DEF OldAt
<1>3. ASSUME NEW j \in 1..e.start PROVE f[Entry(e, n + 1, j)] = d[Entry(e, n, j)]
  <2>1. CASE e.side = "head"
    <3>1. PICK i \in Int : i = Entry(e, n + 1, j)
      BY <1>2, <2>1 DEF Entry
    <3>2. i \in 2..(n + 1) /\ Entry(e, n, j) = i - 1
      BY <1>2, <2>1, <3>1 DEF Entry
    <3>3. f[i] = d[i - 1]
      BY <2>1, <3>2 DEF With
    <3> QED
      BY <3>1, <3>2, <3>3
  <2>2. CASE e.side # "head"
    <3>1. Entry(e, n + 1, j) = j /\ Entry(e, n, j) = j /\ j \in 1..n
      BY <1>2, <2>2 DEF Entry
    <3>2. f[j] = d[j]
      BY <2>2, <3>1 DEF With
    <3> QED
      BY <3>1, <3>2
  <2> QED
    BY <2>1, <2>2
<1> HIDE DEF f
<1>4. e.old = [j \in 1..e.start |-> w.val[d[Entry(e, n, j)]]]
  BY <1>1 DEF OldAt
<1>5. e.old = [j \in 1..e.start |-> w.val[f[Entry(e, n + 1, j)]]]
  BY <1>3, <1>4
<1> QED
  BY <1>2, <1>5 DEF OldAt, f

\* No extend is under way.
LEMMA IdleTyped == ExtTyped(Idle) /\ Idle.side = "none"
BY ListAssumption DEF ExtTyped, Idle

\* An extend ends.
LEMMA EndsExtend ==
    ASSUME NEW w, NEW returned, ListInv, Leaves(w, returned), Keeps(view, w), ext' = Idle,
           guard' = guard, Restored
    PROVE  StepOK
<1>1. PICK c, n : Shaped(view, c, n) /\ n <= MaxLen
  BY DEF ListInv, Stored
<1>2. Refits(view, w)
  BY KeepsRefits
<1>3. /\ Fitting(view')
      /\ view.frozen /\ view'.frozen => view'.cap = view.cap /\ Stays(view, view')
  BY <1>1, <1>2, LeavesFitting
<1>4. ExtTyped(ext') /\ ext'.side = "none"
  BY IdleTyped
<1>5. Stored(view', ext')
  BY <1>3, <1>4 DEF Fitting, Stored
<1> QED
  BY <1>3, <1>4, <1>5 DEF StepOK, ListInv, Steady

\* What an extend has before its first item.
Begun(v, c, n, r) ==
    /\ Keeps(v, r.v) /\ r.guard \in BOOLEAN
    /\ ~r.v.bad /\ r.ret = None => \E d : Shaped(r.v, d, n) /\ Alike(v, c, r.v, d, n)

\* A sized iterable: the room is reserved.
LEMMA ReserveBegins ==
    ASSUME NEW v, NEW c, NEW n, Shaped(v, c, n), n <= MaxLen, NEW r, Reserved(v, c, n, r)
    PROVE  Begun(v, c, n, r)
BY ReserveKeeps DEF Begun, Reserved

\* One without a length: nothing is reserved.
LEMMA NothingBegins ==
    ASSUME NEW v, NEW c, NEW n, Shaped(v, c, n), n <= MaxLen
    PROVE  Begun(v, c, n, [v |-> v, ret |-> None, guard |-> FALSE])
BY KeepsItself DEF Begun, Alike

\* The record of an extend that begins.
OldNow(v, side, hold) ==
    [side |-> side, start |-> v.occ, hold |-> hold, old |-> Elements(v), alone |-> TRUE]

\* Its record holds what the list holds.
LEMMA OldBegins ==
    ASSUME NEW v, NEW c, NEW n, Shaped(v, c, n), n <= MaxLen, NEW side \in {"tail", "head"},
           NEW hold \in BOOLEAN
    PROVE  LET e == OldNow(v, side, hold)
           IN  ExtTyped(e) /\ OldAt(v, c, n, e) /\ e.start = n
<1> DEFINE e == OldNow(v, side, hold)
<1>1. n \in Nat /\ v.occ = n
  BY DEF Shaped, Nodes, Distinct
<1>2. e.start = n /\ e.side = side /\ e.hold = hold /\ e.old = Elements(v) /\ e.alone
      /\ DOMAIN e = {"side", "start", "hold", "old", "alone"} /\ e.alone \in BOOLEAN
  BY <1>1 DEF OldNow
<1> HIDE DEF e
<1>3. ExtTyped(e)
  BY <1>1, <1>2 DEF ExtTyped
<1>4. Elements(v) = [j \in 1..n |-> v.val[c[j]]]
  BY ElementsAre
<1>5. \A j \in 1..n : Entry(e, n, j) = j
  BY <1>1, <1>2 DEF Entry
<1>6. OldAt(v, c, n, e)
  BY <1>1, <1>2, <1>4, <1>5 DEF OldAt
<1> QED
  BY <1>2, <1>3, <1>6 DEF e

\* extend() begins.
LEMMA BeginKeepsList ==
    ASSUME NEW c, NEW n, NEW r, NEW side \in {"tail", "head"}, ListInv, Shaped(view, c, n),
           n <= MaxLen, Begun(view, c, n, r), ExtendBegin(side, r)
    PROVE  StepOK
<1>1. Leaves(r.v, r.ret) /\ guard' = guard /\ ~Extending
  BY DEF ExtendBegin
<1>2. Keeps(view, r.v) /\ r.guard \in BOOLEAN
  BY DEF Begun
<1>3. Restored
  BY <1>1 DEF Restored
<1>4. CASE r.ret # None \/ r.v.bad
  <2>1. ext' = Idle
    BY <1>4 DEF ExtendBegin
  <2> QED
    BY <1>1, <1>2, <1>3, <2>1, EndsExtend
<1>5. CASE r.ret = None /\ ~r.v.bad
  <2> DEFINE e == OldNow(view, side, r.guard)
  <2>1. ext' = e
    BY <1>5 DEF ExtendBegin, OldNow
  <2>2. ExtTyped(e) /\ OldAt(view, c, n, e) /\ e.start = n
    BY <1>2, OldBegins
  <2> HIDE DEF e
  <2>3. view' = r.v
    BY <1>1, <1>5 DEF Leaves
  <2>4. PICK d : Shaped(r.v, d, n) /\ Alike(view, c, r.v, d, n)
    BY <1>5 DEF Begun
  <2>5. n \in Nat
    BY DEF Shaped, Nodes, Distinct
  <2>6. OldAt(r.v, d, n, e)
    BY <2>2, <2>4, <2>5, OldMoves
  <2>7. Stored(view', ext')
    BY <2>1, <2>3, <2>4, <2>6 DEF Stored
  <2>8. Steady
    BY <1>2, <1>5, <2>3 DEF Steady, Keeps, Stays
  <2> QED
    BY <1>1, <1>3, <2>1, <2>2, <2>7, <2>8 DEF StepOK, ListInv
<1> QED
  BY <1>4, <1>5

\* The list that an extend goes on with holds the old elements where the
\* extend expects them.
Finds(v, c, n, e) == Shaped(v, c, n) /\ n <= MaxLen /\ (e.alone => OldAt(v, c, n, e))

\* What an extend under way can rely on.
LEMMA ExtendFinds ==
    ASSUME ListInv, Extending
    PROVE  /\ \E c, n : Finds(view, c, n, ext)
           /\ ext.start \in Int /\ ext.start >= 0 /\ ext.start <= MaxLen
           /\ ext.hold \in BOOLEAN /\ ext.side \in {"tail", "head"}
<1>1. \E c, n : Finds(view, c, n, ext)
  BY DEF ListInv, Stored, Finds, Extending
<1> QED
  BY <1>1 DEF ListInv, ExtTyped, Extending

\* One item more.
LEMMA ItemAddsList ==
    ASSUME NEW c, NEW n, NEW r, NEW q, ListInv, ~view.bad, Finds(view, c, n, ext), Extending,
           n < MaxLen, Longer(view, c, n, r, q), r.ret = None,
           q = IF ext.side = "head" THEN 1 ELSE n + 1,
           Leaves(r.v, None), ext' = ext, guard' = guard
    PROVE  StepOK
<1>1. /\ n \in Nat /\ ext.start \in Nat /\ Shaped(view, c, n) /\ n <= MaxLen
      /\ ext.alone => OldAt(view, c, n, ext)
  BY ExtendFinds DEF Finds, Shaped, Nodes, Distinct
<1>2. Keeps(view, r.v)
  BY <1>1, LongerKeeps
<1>3. Refits(view, r.v)
  BY <1>2, KeepsRefits
<1>4. view.frozen /\ view'.frozen => view'.cap = view.cap /\ Stays(view, view')
  BY <1>1, <1>2, <1>3, LeavesFitting
<1>5. r.v.bad => Stored(view', ext')
  <2> SUFFICES ASSUME r.v.bad PROVE Stored(view', ext')
    OBVIOUS
  <2>1. view' = Broken(view)
    BY DEF Leaves
  <2>2. Shaped(view', c, n) /\ view'.val = view.val
    BY <1>1, <2>1, BrokenShaped
  <2>3. Alike(view, c, view', c, n)
    BY <2>2 DEF Alike
  <2>4. ext.alone => OldAt(view', c, n, ext)
    BY <1>1, <2>3, OldMoves
  <2> QED
    BY <1>1, <2>2, <2>4 DEF Stored
<1>6. ~r.v.bad => Stored(view', ext')
  <2> SUFFICES ASSUME ~r.v.bad PROVE Stored(view', ext')
    OBVIOUS
  <2>1. view' = r.v
    BY DEF Leaves
  <2>2. PICK d, x : /\ Sound(r.v, With(d, n, q, x), n + 1)
                    /\ \A k \in 1..n : r.v.val[d[k]] = view.val[c[k]]
    BY DEF Longer
  <2>3. ext.alone => OldAt(r.v, With(d, n, q, x), n + 1, ext)
    BY <1>1, <2>2, OldStays
  <2>4. n + 1 <= MaxLen
    BY <1>1, ListAssumption
  <2> QED
    BY <2>1, <2>2, <2>3, <2>4 DEF Stored, Sound
<1>7. Stored(view', ext')
  BY <1>5, <1>6
<1>8. Restored
  BY DEF Restored, Extending
<1> QED
  BY <1>4, <1>7, <1>8 DEF StepOK, ListInv, Steady

\* Taking the items back from a list that holds the old elements.
LEMMA TakenBack ==
    ASSUME NEW c, NEW n, NEW v, NEW returned, ListInv, Extending, Shaped(v, c, n), n <= MaxLen,
           ~v.bad, ext.alone => OldAt(v, c, n, ext), Keeps(view, RollBack(v, ext)),
           Leaves(RollBack(v, ext), returned), ext' = Idle, guard' = guard
    PROVE  StepOK
<1> DEFINE w == RollBack(v, ext)
<1>1. ext.start \in Int /\ ext.start >= 0 /\ ext.start <= MaxLen /\ ext.hold \in BOOLEAN
  BY ExtendFinds
<1>2. ~w.bad => \E d : Shaped(w, d, ext.start) /\ Restores(v, c, n, w, d, ext)
  BY <1>1, RollBackShaped
<1> HIDE DEF w
<1>3. ~w.bad /\ ext.alone => Elements(w) = ext.old
  BY <1>1, <1>2, ElementsRestored
<1>4. Leaves(w, returned)
  BY DEF w
<1>5. w.bad => ret' = "undefined"
  BY <1>4 DEF Leaves
<1>6. ~w.bad => view' = w
  BY <1>4 DEF Leaves
<1>7. Restored
  BY <1>3, <1>5, <1>6 DEF Restored
<1> QED
  BY <1>4, <1>7, EndsExtend DEF w

\* The generator of an extend gives an item, which may be refused.
LEMMA ItemKeepsList ==
    ASSUME NEW x \in Args, ListInv, ~view.bad, ExtendItem(x)
    PROVE  StepOK
<1> DEFINE r == IF ext.side = "tail" THEN AppendTo(view, x) ELSE PrependTo(view, x)
<1>1. /\ Extending /\ HasRoom /\ guard' = guard
      /\ IF r.ret = None THEN Leaves(r.v, None) /\ ext' = ext
         ELSE Leaves(RollBack(r.v, ext), r.ret) /\ ext' = Idle
  BY DEF ExtendItem
<1>2. PICK c, n : Finds(view, c, n, ext)
  BY <1>1, ExtendFinds
<1>3. /\ Shaped(view, c, n) /\ n <= MaxLen /\ n < MaxLen /\ n \in Nat
      /\ ext.alone => OldAt(view, c, n, ext)
  BY <1>1, <1>2 DEF Finds, HasRoom, Shaped, Nodes, Distinct
<1>4. ext.start \in Int /\ ext.start >= 0 /\ ext.hold \in BOOLEAN /\ ext.side \in {"tail", "head"}
  BY <1>1, ExtendFinds
<1>5. PICK q : q = IF ext.side = "head" THEN 1 ELSE n + 1
  OBVIOUS
<1>6. Longer(view, c, n, r, q)
  <2>1. x \in Values \cup {Wrong}
    BY ItemIsValue
  <2>2. Longer(view, c, n, AppendTo(view, x), n + 1) /\ Longer(view, c, n, PrependTo(view, x), 1)
    BY <1>3, <2>1, AppendLonger
  <2> QED
    BY <1>4, <1>5, <2>2
<1>7. r.ret # None => ~r.v.bad
  <2>1. x \in Values \cup {Wrong}
    BY ItemIsValue
  <2> QED
    BY <1>3, <2>1, AppendFails
<1> HIDE DEF r
<1>8. CASE r.ret = None
  <2>1. Leaves(r.v, None) /\ ext' = ext
    BY <1>1, <1>8
  <2> QED
    BY <1>1, <1>2, <1>3, <1>5, <1>6, <1>8, <2>1, ItemAddsList
<1>9. CASE r.ret # None
  <2>1. Leaves(RollBack(r.v, ext), r.ret) /\ ext' = Idle
    BY <1>1, <1>9
  <2>2. Keeps(view, RollBack(r.v, ext))
    BY <1>3, <1>4, <1>6, <1>7, <1>9, ItemKeeps
  <2>3. PICK d : Shaped(r.v, d, n) /\ Alike(view, c, r.v, d, n)
    BY <1>6, <1>7, <1>9 DEF Longer
  <2>4. ext.start \in Nat
    BY <1>4
  <2>5. ext.alone => OldAt(r.v, d, n, ext)
    BY <1>3, <2>3, <2>4, OldMoves
  <2>6. ~r.v.bad
    BY <1>7, <1>9
  <2> QED
    BY <1>1, <1>3, <2>1, <2>2, <2>3, <2>5, <2>6, TakenBack
<1> QED
  BY <1>8, <1>9

\* The generator raises.
LEMMA FailKeepsList ==
    ASSUME ListInv, ~view.bad, ExtendFails
    PROVE  StepOK
<1>1. Extending /\ Leaves(RollBack(view, ext), "GeneratorError") /\ ext' = Idle /\ guard' = guard
  BY DEF ExtendFails
<1>2. PICK c, n : Finds(view, c, n, ext)
  BY <1>1, ExtendFinds
<1>3. Shaped(view, c, n) /\ n <= MaxLen /\ (ext.alone => OldAt(view, c, n, ext))
  BY <1>2 DEF Finds
<1>4. ext.start \in Int /\ ext.start >= 0 /\ ext.start <= MaxLen /\ ext.hold \in BOOLEAN
  BY <1>1, ExtendFinds
<1> DEFINE w == RollBack(view, ext)
<1>5. ~w.bad => /\ \E d : Shaped(w, d, ext.start)
                /\ view.frozen /\ w.frozen => Stays(view, w)
  BY <1>3, <1>4, RollBackShaped
<1> HIDE DEF w
<1>6. Keeps(view, w)
  BY <1>4, <1>5 DEF Keeps
<1> QED
  BY <1>1, <1>3, <1>6, TakenBack DEF w

\* It has no more items.
LEMMA DoneKeepsList ==
    ASSUME ListInv, ~view.bad, ExtendDone
    PROVE  StepOK
<1>1. Extending /\ Leaves(Release(view, ext.hold), None) /\ ext' = Idle /\ guard' = guard
  BY DEF ExtendDone
<1>2. PICK c, n : Finds(view, c, n, ext)
  BY <1>1, ExtendFinds
<1>3. Shaped(view, c, n) /\ n <= MaxLen /\ ext.hold \in BOOLEAN
  BY <1>1, <1>2, ExtendFinds DEF Finds
<1> DEFINE w == Release(view, ext.hold)
<1>4. Keeps(view, w)
  BY <1>3, EndKeeps
<1>5. Leaves(w, None)
  BY <1>1
<1> HIDE DEF w
<1>6. Restored
  BY <1>5 DEF Restored, Leaves, None
<1> QED
  BY <1>1, <1>4, <1>5, <1>6, EndsExtend

\* The steps of an extend.
LEMMA ExtendKeepsList ==
    ASSUME ListInv, ~view.bad, Extend
    PROVE  StepOK
<1>1. PICK c, n : Shaped(view, c, n) /\ n <= MaxLen
  BY DEF ListInv, Stored
<1>2. n \in Nat /\ view.occ = n
  BY <1>1 DEF Shaped, Nodes, Distinct
<1>3. ASSUME NEW side \in {"tail", "head"}, ExtendUnsized(side) PROVE StepOK
  <2> DEFINE r == [v |-> view, ret |-> None, guard |-> FALSE]
  <2>1. Begun(view, c, n, r)
    BY <1>1, NothingBegins
  <2>2. ExtendBegin(side, r)
    BY <1>3 DEF ExtendUnsized
  <2> HIDE DEF r
  <2> QED
    BY <1>1, <2>1, <2>2, BeginKeepsList
<1>4. ASSUME NEW side \in {"tail", "head"}, NEW k \in 0..MaxLen, ExtendSized(side, k)
      PROVE  StepOK
  <2> DEFINE r == Reserve(view, view.occ + k)
  <2>1. view.occ + k \in Nat
    BY <1>2
  <2>2. Reserved(view, c, n, r)
    BY <1>1, <2>1, ReserveShaped
  <2>3. ExtendBegin(side, r)
    BY <1>4 DEF ExtendSized
  <2> HIDE DEF r
  <2>4. Begun(view, c, n, r)
    BY <1>1, <2>2, ReserveBegins
  <2> QED
    BY <1>1, <2>3, <2>4, BeginKeepsList
<1> QED
  BY <1>3, <1>4, ItemKeepsList, FailKeepsList, DoneKeepsList DEF Extend

\* An assignment to a slice may put the items on the addresses it frees.
LEMMA SliceSetKeepsList ==
    ASSUME NEW ix \in Slices, NEW s \in Replacements, ListInv, ~view.bad, SetItems(ix, s)
    PROVE  StepOK
<1>1. PICK c, n : Shaped(view, c, n) /\ n <= MaxLen
  BY DEF ListInv, Stored
<1>2. Sliced(view, ix)
  BY DEF Sliced, Slices
<1>3. MayBecome(view, ix, s)
  BY DEF SetItems, MayBecome
<1> DEFINE o == SetSlice(view, ix, s)
           name == SliceOp("set_slice", ix) \o <<s>>
<1>4. Refits(view, o.v)
  BY <1>1, <1>2, <1>3, SetSliceRefits
<1>5. Call(name, o)
  BY DEF SetItems
<1>6. name[1] = "set_slice"
  BY DEF SliceOp
<1> HIDE DEF o, name
<1>7. Leaves(o.v, o.ret) /\ Interleaves /\ guard' = guard /\ op'[1] = "set_slice"
  BY <1>5, <1>6 DEF Call
<1>8. guard' \in {"none", "empty", "active"}
  BY <1>7 DEF ListInv
<1> QED
  BY <1>4, <1>7, <1>8, CallSteady

\* Every step.
LEMMA NextKeepsList ==
    ASSUME ListInv, Next
    PROVE  StepOK
<1>v. ~view.bad
  BY DEF Next
<1>c. PICK c, n : Shaped(view, c, n) /\ n <= MaxLen
  BY DEF ListInv, Stored
<1>n. n \in Nat /\ view.occ = n
  BY <1>c DEF Shaped, Nodes, Distinct
<1>i. Indices \subseteq Int /\ (HasRoom => n < MaxLen)
  BY <1>n, ListAssumption DEF HasRoom
<1>1. ASSUME NEW x \in Args, AppendItem(x) \/ AppendLeft(x) PROVE StepOK
  <2>1. x \in Values \cup {Wrong} /\ HasRoom
    BY <1>1, ItemIsValue DEF AppendItem, AppendLeft
  <2> DEFINE o == AppendTo(view, x)
  <2>2. Longer(view, c, n, o, n + 1)
    BY <1>v, <1>c, <2>1, AppendLonger
  <2>3. PICK name : Call(name, o)
    BY <1>1 DEF AppendItem, AppendLeft
  <2> HIDE DEF o
  <2>4. Keeps(view, o.v)
    BY <1>c, <1>i, <2>1, <2>2, LongerKeeps
  <2> QED
    BY <2>3, <2>4, CallKeepsList
<1>2. ASSUME NEW x \in Items, Remove(x) \/ Contains(x) PROVE StepOK
  <2>1. Keeps(view, RemoveFrom(view, x).v) /\ Keeps(view, LookFor(view, x).v)
    BY <1>v, <1>c, RemoveKeeps
  <2> QED
    BY <1>2, <2>1, CallKeepsList DEF Remove, Contains
<1>3. ASSUME NEW i \in Indices, NEW x \in Args, Insert(i, x) PROVE StepOK
  <2>1. x \in Values \cup {Wrong} /\ i \in Int /\ n < MaxLen
    BY <1>3, <1>i, ItemIsValue DEF Insert
  <2>2. Keeps(view, InsertInto(view, i, x).v)
    BY <1>v, <1>c, <2>1, InsertKeeps
  <2> QED
    BY <1>3, <2>2, CallKeepsList DEF Insert
<1>4. ASSUME NEW i \in Indices, NEW x \in Args, SetItem(i, x) PROVE StepOK
  <2>1. x \in Values \cup {Wrong} /\ i \in Int
    BY <1>i, ItemIsValue
  <2>2. Keeps(view, SetIn(view, i, x).v)
    BY <1>v, <1>c, <2>1, SetKeeps
  <2> QED
    BY <1>4, <2>2, CallKeepsList DEF SetItem
<1>5. ASSUME NEW i \in Indices, Pop(i) \/ DelItem(i) PROVE StepOK
  <2>1. i \in Int
    BY <1>i
  <2>2. Keeps(view, PopFrom(view, i).v) /\ Keeps(view, DeleteFrom(view, i).v)
    BY <1>v, <1>c, <2>1, PopKeeps
  <2> QED
    BY <1>5, <2>2, CallKeepsList DEF Pop, DelItem
<1>6. ASSUME NEW i \in Indices, GetItem(i) PROVE StepOK
  <2>1. GetFrom(view, i).v = view
    BY DEF GetFrom, Outcome
  <2>2. Keeps(view, GetFrom(view, i).v)
    BY <1>c, <2>1, KeepsItself
  <2> QED
    BY <1>6, <2>2, CallKeepsList DEF GetItem
<1>7. ASSUME NEW i \in Indices, Rotate(i) PROVE StepOK
  <2> DEFINE o == Outcome(IF view.occ = 0 THEN Broken(view) ELSE Rotated(view, i), None)
  <2>1. i \in Int
    BY <1>i
  <2>2. view.occ # 0 => Keeps(view, Rotated(view, i))
    BY <1>v, <1>c, <2>1, RotateKeeps
  <2>3. Keeps(view, Broken(view))
    BY <1>c, KeepsItself
  <2>4. Keeps(view, o.v)
    BY <2>2, <2>3 DEF Outcome
  <2>5. Call(<<"rotate", i>>, o)
    BY <1>7 DEF Rotate
  <2> HIDE DEF o
  <2> QED
    BY <2>4, <2>5, CallKeepsList
<1>8. ASSUME NEW i \in Indices, RepeatInplace(i) PROVE StepOK
  <2>1. i \in Int /\ i * view.occ <= MaxLen
    BY <1>8, <1>i DEF RepeatInplace
  <2>2. Keeps(view, RepeatedIn(view, i).v)
    BY <1>v, <1>c, <2>1, RepeatKeeps
  <2> QED
    BY <1>8, <2>2, CallKeepsList DEF RepeatInplace
<1>9. ASSUME NEW name, NEW returned, Call(name, Outcome(view, returned)) PROVE StepOK
  <2> DEFINE o == Outcome(view, returned)
  <2>1. o.v = view
    BY DEF Outcome
  <2> HIDE DEF o
  <2>2. Keeps(view, o.v)
    BY <1>c, <2>1, KeepsItself
  <2> QED
    BY <1>9, <2>2, CallKeepsList DEF o
<1>10. ASSUME NEW x, NEW ix, GetItems(ix) \/ Index(x, ix) \/ Count(x, ix) PROVE StepOK
  BY <1>9, <1>10 DEF GetItems, Index, Count
<1>11. ASSUME NEW ix \in Slices, DelItems(ix) PROVE StepOK
  <2>1. PICK start \in Bounds, stop \in Bounds, step \in Steps :
          ix = SliceIndices(view, start, stop, step)
    BY <1>11 DEF Slices
  <2>2. Keeps(view, DeleteSlice(view, ix).v)
    BY <1>v, <1>c, <2>1, DeleteSliceKeeps
  <2> QED
    BY <1>11, <2>2, CallKeepsList DEF DelItems
<1>12. ASSUME Reverse PROVE StepOK
  <2> DEFINE o == Outcome(IF Dangling(view) THEN Broken(view) ELSE Reversed(view), None)
  <2>1. ~Dangling(view) => Keeps(view, Reversed(view))
    BY <1>v, <1>c, ReverseKeeps
  <2>2. Keeps(view, Broken(view))
    BY <1>c, KeepsItself
  <2>3. Keeps(view, o.v)
    BY <2>1, <2>2 DEF Outcome
  <2>4. Call(<<"reverse">>, o)
    BY <1>12 DEF Reverse
  <2> HIDE DEF o
  <2> QED
    BY <2>3, <2>4, CallKeepsList
<1>13. ASSUME ClearAll \/ DefragmentAll PROVE StepOK
  <2> DEFINE o == Outcome(Clear(view), None)
  <2>1. Keeps(view, Clear(view)) /\ Keeps(view, Defragment(view).v)
    BY <1>v, <1>c, ClearKeeps
  <2>2. Keeps(view, o.v)
    BY <2>1 DEF Outcome
  <2>3. ClearAll => Call(<<"clear">>, o)
    BY DEF ClearAll
  <2> HIDE DEF o
  <2> QED
    BY <1>13, <2>1, <2>2, <2>3, CallKeepsList DEF DefragmentAll
<1> QED
  BY <1>v, <1>1, <1>2, <1>3, <1>4, <1>5, <1>6, <1>7, <1>8, <1>10, <1>11, <1>12, <1>13,
     SliceSetKeepsList, GuardsKeepList, ExtendKeepsList DEF Next

\* The list that is made has no nodes.
LEMMA InitGivesList ==
    ASSUME Init
    PROVE  ListInv
<1>1. PICK double \in BOOLEAN, fixed \in BOOLEAN : view = EmptyView(double, fixed, MinCapacity)
  BY DEF Init
<1>2. MinCapacity \in Nat \ {0}
  BY AllocatorAssumption
<1>3. Bare(view, double, fixed, FALSE, MinCapacity)
  BY <1>1 DEF EmptyView, Bare
<1>4. Shaped(view, <<>>, 0)
  BY <1>2, <1>3, BareShaped
<1>5. 0 <= MaxLen
  BY ListAssumption
<1>6. ExtTyped(ext) /\ ext.side = "none" /\ guard = "none"
  BY IdleTyped DEF Init
<1> QED
  BY <1>4, <1>5, <1>6 DEF ListInv, Stored

\* Every step, or none.
LEMMA StepKeepsList ==
    ASSUME ListInv, [Next]_vars
    PROVE  ListInv'
<1>1. ASSUME UNCHANGED vars PROVE ListInv'
  BY <1>1 DEF vars, ListInv, Stored, OldAt, Entry, Shaped, Nodes, Memory, Typed, ExtTyped
<1> QED
  BY <1>1, NextKeepsList DEF StepOK

\* view.h:606: whatever the list holds and whatever a caller and a generator do
\* in between, while a guard is active no node moves and the capacity stays.
THEOREM NodesStayPut == Spec => StableWhileFrozen
<1>1. Init => ListInv
  BY InitGivesList
<1>2. ListInv /\ [Next]_vars => ListInv'
  BY StepKeepsList
<1>3. ListInv /\ [Next]_vars =>
        [view.frozen /\ view'.frozen =>
           /\ view'.cap = view.cap
           /\ op'[1] # "set_slice" =>
                  \A p \in view.live \cap view'.live : view'.val[p] = view.val[p]]_vars
  BY NextKeepsList DEF StepOK, Steady, Stays
<1> QED
  BY <1>1, <1>2, <1>3, PTL DEF Spec, StableWhileFrozen

\* extend() and extend_left() that raise, half-way through any items, leave the
\* elements they found, if nothing else has used the list since they began.
THEOREM FailureRestores == Spec => RollBackRestores
<1>1. Init => ListInv
  BY InitGivesList
<1>2. ListInv /\ [Next]_vars => ListInv'
  BY StepKeepsList
<1>3. ListInv /\ [Next]_vars =>
        [Extending /\ ext.alone /\ ext'.side = "none"
         /\ ret' \in {"MemoryError", "TypeError", "GeneratorError"}
       => Elements(view') = ext.old]_vars
  BY NextKeepsList DEF StepOK, Restored
<1> QED
  BY <1>1, <1>2, <1>3, PTL DEF Spec, RollBackRestores

(***************************************************************************)
(* What the shape says of the chain and of the free list.                  *)
(***************************************************************************)
LEMMA Counted ==
    ASSUME NEW c, NEW n, NEW S, Distinct(c, n), \A p : p \in S <=> \E k \in 1..n : p = c[k]
    PROVE  Cardinality(S) = n
<1>1. n \in Nat /\ c \in [1..n -> S]
  BY DEF Distinct
<1>2. c \in Bijection(1..n, S)
  BY <1>1 DEF Bijection, Injection, Surjection, IsInjective, Distinct
<1>3. ExistsBijection(1..n, S)
  BY <1>2 DEF ExistsBijection
<1> QED
  BY <1>1, <1>3, FS_CountingElements

\* The walk of a list that does not dangle finds its nodes.
LEMMA ChainHolds ==
    ASSUME NEW v, NEW c, NEW n, Shaped(v, c, n), n <= MaxLen, ~Dangling(v)
    PROVE  Chain(v) = c
<1>1. Nodes(v, c, n) /\ n \in Nat /\ n <= Slots
  BY ListAssumption, AllocatorAssumption DEF Shaped, Nodes, Distinct
<1>2. Sound(v, c, n)
  BY AttachedSound
<1>3. n > 0 \/ v.head = Null
  BY <1>1, <1>2 DEF Sound, At
<1> QED
  BY <1>1, <1>3, ChainIs

\* The type invariant.
LEMMA ListTypes ==
    ASSUME ListInv
    PROVE  ListTypeOK
<1>1. PICK c, n : Shaped(view, c, n)
  BY DEF ListInv, Stored
<1>2. Typed(view)
  BY <1>1 DEF Shaped, Nodes
<1> QED
  BY <1>2 DEF ListInv, ListTypeOK, Typed, ExtTyped, Values

\* The chain.
LEMMA ListChain ==
    ASSUME ListInv
    PROVE  ChainOK
<1>t. ListTypeOK
  BY ListTypes
<1>c. PICK c, n : Shaped(view, c, n) /\ n <= MaxLen
  BY DEF ListInv, Stored
<1>1. Nodes(view, c, n) /\ Distinct(c, n) /\ n \in Nat /\ view.occ = n /\ Typed(view)
      /\ Chained(view, c, n) /\ view.live \subseteq Slot
  BY <1>c DEF Shaped, Nodes, Distinct, Typed
<1>2. CASE Dangling(view)
  <2>1. n = 0
    BY <1>c, <1>1, <1>2, AttachedSound
  <2>2. view.tail = Null
    BY <1>1, <2>1 DEF Chained, At
  <2>3. view.live = {}
    BY <1>1, <2>1 DEF Nodes
  <2> QED
    BY <1>t, <1>1, <1>2, <2>1, <2>2, <2>3 DEF ChainOK
<1>3. CASE ~Dangling(view)
  <2>1. Chain(view) = c
    BY <1>c, <1>3, ChainHolds
  <2>2. Len(c) = n
    BY <1>1, LenIs
  <2>3. \A p : p \in view.live <=> \E k \in 1..n : p = c[k]
    BY <1>1 DEF Nodes, Distinct
  <2>4. Cardinality(view.live) = n
    BY <1>1, <2>3, Counted
  <2>5. {c[k] : k \in 1..n} = view.live
    BY <2>3
  <2>6. view.tail = IF n = 0 THEN Null ELSE c[n]
    BY <1>1 DEF Chained, At
  <2>7. view.double => \A k \in 1..n : view.prev[c[k]] = IF k = 1 THEN Null ELSE c[k - 1]
    BY <1>1 DEF Chained, At
  <2> QED
    BY <1>t, <1>1, <2>1, <2>2, <2>4, <2>5, <2>6, <2>7 DEF ChainOK
<1> QED
  BY <1>2, <1>3

\* The free list.
LEMMA ListFree ==
    ASSUME ListInv
    PROVE  FreeListOK
<1>c. PICK c, n : Shaped(view, c, n)
  BY DEF ListInv, Stored
<1>m. PICK f, m : Memory(view, f, m)
  BY <1>c DEF Shaped
<1>1. /\ Typed(view) /\ view.occ \in Nat /\ view.cap \in Nat /\ view.live \subseteq Slot
      /\ Distinct(f, m) /\ m \in Nat /\ DOMAIN f = 1..m /\ Freed(view, f, m) /\ Packed(view, f, m)
  BY <1>c, <1>m DEF Shaped, Nodes, Typed, Memory, Distinct
<1>2. MaxLen \in Nat /\ Slots \in Nat /\ MaxLen + 1 <= Slots
  BY ListAssumption, AllocatorAssumption
<1>3. /\ view.occ + m <= view.cap /\ view.occ + m <= Slots
      /\ \A p \in Slot : p \in 1..(view.occ + m) <=> p \in view.live \/ \E k \in 1..m : p = f[k]
  BY <1>1, <1>2 DEF Packed
<1> DEFINE w == [view EXCEPT !.head = view.first]
<1>4. w.next = view.next /\ w.head = view.first
  BY <1>1 DEF Typed
<1>5. Chain(w) = f
  <2> HIDE DEF w
  <2>1. w.next \in [Address -> Address] /\ w.next[Null] = Null
    BY <1>1, <1>4 DEF Typed
  <2>2. w.head = At(f, m, 1) /\ \A k \in 1..m : w.next[f[k]] = At(f, m, k + 1)
    BY <1>1, <1>4 DEF Freed
  <2>3. m <= Slots
    BY <1>1, <1>3, <1>2
  <2> QED
    BY <1>1, <2>1, <2>2, <2>3, WalkIs
<1>6. Len(f) = m
  BY <1>1, LenIs
<1> DEFINE used == view.live \cup {f[k] : k \in 1..m}
<1>7. used = 1..(view.occ + m)
  <2>1. used \subseteq Slot
    BY <1>1 DEF Distinct
  <2>2. 1..(view.occ + m) \subseteq Slot
    BY <1>1, <1>2, <1>3 DEF Slot
  <2>3. \A p : p \in used <=> p \in view.live \/ \E k \in 1..m : p = f[k]
    OBVIOUS
  <2> HIDE DEF used
  <2> QED
    BY <1>3, <2>1, <2>2, <2>3
<1> HIDE DEF used
<1>8. Cardinality(used) = view.occ + m
  <2>1. PICK t \in Nat : t = view.occ + m
    BY <1>1
  <2>2. Cardinality(1..t) = t
    BY FS_Interval
  <2> QED
    BY <1>7, <2>1, <2>2
<1>9. view.last = IF f = <<>> THEN Null ELSE f[m]
  <2>1. f = <<>> <=> m = 0
    BY <1>1 DEF Distinct
  <2> QED
    BY <1>1, <2>1 DEF Freed, At
<1>10. LET free == f
           us == view.live \cup {free[k] : k \in DOMAIN free}
       IN  /\ Cardinality(us) = view.occ + Len(free)
           /\ us = 1..Cardinality(us)
           /\ Cardinality(us) <= view.cap
           /\ view.last = IF free = <<>> THEN Null ELSE free[Len(free)]
  <2>1. view.live \cup {f[k] : k \in DOMAIN f} = used
    BY <1>1 DEF used
  <2> QED
    BY <1>3, <1>6, <1>7, <1>8, <1>9, <2>1
<1> HIDE DEF w
<1> QED
  BY <1>5, <1>10 DEF FreeListOK, w

\* Every operation leaves a chain that holds the nodes in use, each once, ends
\* at the tail and mirrors itself in prev, wherever the array has moved, and
\* also when an item is refused half-way.
THEOREM NodesChained == Spec => []ChainOK
<1>1. Init => ListInv
  BY InitGivesList
<1>2. ListInv /\ [Next]_vars => ListInv'
  BY StepKeepsList
<1>3. ListInv => ChainOK
  BY ListChain
<1> QED
  BY <1>1, <1>2, <1>3, PTL DEF Spec

\* list.h, ListAllocator: no slot is lost and none is both free and in use; the
\* free list and the nodes together are the slots used so far, and they fit
\* the capacity.
THEOREM SlotsAccounted == Spec => []FreeListOK
<1>1. Init => ListInv
  BY InitGivesList
<1>2. ListInv /\ [Next]_vars => ListInv'
  BY StepKeepsList
<1>3. ListInv => FreeListOK
  BY ListFree
<1> QED
  BY <1>1, <1>2, <1>3, PTL DEF Spec
=============================================================================
