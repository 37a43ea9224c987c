-------------------------- MODULE ListShapeProofs --------------------------
(***************************************************************************)
(* What the nodes of a list and the memory they lie in look like, and what *)
(* each step on them does, for any items and sizes.                        *)
(*                                                                         *)
(* Shaped(v, c, n) says that the view v holds the chain c of n nodes and   *)
(* some free list.  The operations are proved from it one layer after the  *)
(* other: links, memory, create() and recycle(), iterators, guards.        *)
(***************************************************************************)
EXTENDS LinkedList, TLAPS, FiniteSetTheorems, WellFoundedInduction

(***************************************************************************)
(* Recursion: a set that holds 0 and climbs holds every number up to n.    *)
(***************************************************************************)
LEMMA Least ==
    ASSUME NEW S \in SUBSET Nat, S # {}
    PROVE  \E k \in S : \A j \in S : k <= j
<1> DEFINE Less == OpToRel(<, Nat)
<1>1. IsWellFoundedOn(Less, Nat)
  BY NatLessThanWellFounded
<1>2. \A i, j \in Nat : i < j => <<i, j>> \in Less
  BY DEF OpToRel
<1> HIDE DEF Less
<1>3. PICK k \in S : \A j \in S : <<j, k>> \notin Less
  BY <1>1, WFMin
<1>4. \A j \in S : k <= j
  <2> TAKE j \in S
  <2>1. ~(j < k)
    BY <1>2, <1>3
  <2>2. j \in Int /\ k \in Int
    OBVIOUS
  <2> QED
    BY <2>1, <2>2
<1> QED
  BY <1>4

\* By the least number that is missing.
LEMMA Climb ==
    ASSUME NEW n \in Nat, NEW S, 0 \in S,
           \A k \in 0..n : k < n /\ k \in S => k + 1 \in S
    PROVE  \A k \in 0..n : k \in S
<1> SUFFICES ASSUME NEW i \in 0..n, i \notin S PROVE FALSE
  OBVIOUS
<1> DEFINE Missing == {k \in 0..n : k \notin S}
<1>1. PICK k \in Missing : \A j \in Missing : k <= j
  <2>1. Missing \in SUBSET Nat /\ Missing # {}
    OBVIOUS
  <2> HIDE DEF Missing
  <2> QED
    BY <2>1, Least
<1>2. k # 0 /\ k - 1 \in 0..n /\ k - 1 < n /\ k - 1 \notin Missing
  BY <1>1
<1> QED
  BY <1>1, <1>2

\* The length of a sequence that is built as a function.
LEMMA LenOfFunction ==
    ASSUME NEW n \in Nat, NEW f, DOMAIN f = 1..n, f = [k \in 1..n |-> f[k]]
    PROVE  Len(f) = n
<1> DEFINE S == {f[k] : k \in 1..n}
<1>1. f \in [1..n -> S]
  OBVIOUS
<1>2. f \in Seq(S)
  BY <1>1
<1> QED
  BY <1>1, <1>2

(***************************************************************************)
(* The shape of a list: a chain c of n nodes, and a free list f of m       *)
(* slots.                                                                  *)
(***************************************************************************)
At(c, n, k) == IF k \in 1..n THEN c[k] ELSE Null

Values == Items \cup {None}

Typed(v) ==
    /\ DOMAIN v = {"double", "fixed", "next", "prev", "val", "head", "tail", "cap",
                   "occ", "frozen", "first", "last", "live", "bad"}
    /\ v.double \in BOOLEAN /\ v.fixed \in BOOLEAN /\ v.frozen \in BOOLEAN /\ v.bad \in BOOLEAN
    /\ v.next \in [Address -> Address] /\ v.prev \in [Address -> Address]
    /\ v.val \in [Address -> Values]
    /\ v.head \in Address /\ v.tail \in Address
    /\ v.first \in Address /\ v.last \in Address
    /\ v.live \subseteq Slot /\ v.occ \in Nat /\ v.cap \in Nat \ {0}
    /\ v.next[Null] = Null /\ v.prev[Null] = Null

\* Different slots, n of them.
Distinct(c, n) ==
    /\ n \in Nat /\ c \in [1..n -> Slot]
    /\ \A i, j \in 1..n : c[i] = c[j] => i = j

Chained(v, c, n) ==
    /\ \A k \in 1..n : v.next[c[k]] = At(c, n, k + 1)
    /\ v.double => \A k \in 1..n : v.prev[c[k]] = At(c, n, k - 1)
    /\ n > 0 => v.head = c[1]
    /\ v.tail = At(c, n, n)

Freed(v, f, m) ==
    /\ \A k \in 1..m : f[k] \notin v.live /\ v.next[f[k]] = At(f, m, k + 1)
    /\ v.first = At(f, m, 1) /\ v.last = At(f, m, m)

\* The slots used so far are the first ones of the array.
Packed(v, f, m) ==
    /\ \A p \in Slot : p \in 1..(v.occ + m) <=> p \in v.live \/ \E k \in 1..m : p = f[k]
    /\ v.occ + m <= v.cap /\ v.occ + m <= MaxLen + 1

Memory(v, f, m) == Distinct(f, m) /\ Freed(v, f, m) /\ Packed(v, f, m)

\* The chain holds every node, or every node but x.
Nodes(v, c, n) ==
    /\ Typed(v) /\ Distinct(c, n) /\ Chained(v, c, n)
    /\ v.occ = n /\ \A p \in Slot : p \in v.live <=> \E k \in 1..n : p = c[k]

Apart(v, c, n, x) ==
    /\ Typed(v) /\ Distinct(c, n) /\ Chained(v, c, n)
    /\ v.occ = n + 1 /\ x \in Slot /\ \A k \in 1..n : c[k] # x
    /\ \A p \in Slot : p \in v.live <=> p = x \/ \E k \in 1..n : p = c[k]

Listed(v, c, n, f, m) == Nodes(v, c, n) /\ Memory(v, f, m)
Loose(v, c, n, f, m, x) == Apart(v, c, n, x) /\ Memory(v, f, m)

\* The chain with x at position q, and without the node at position k.
With(c, n, q, x) ==
    [j \in 1..(n + 1) |-> IF j < q THEN c[j] ELSE IF j = q THEN x ELSE c[j - 1]]
Less(c, n, k) == [j \in 1..(n - 1) |-> IF j < k THEN c[j] ELSE c[j + 1]]

\* A position of a chain is a slot, or null beyond the ends.
LEMMA AtSlot ==
    ASSUME NEW c, NEW n, Distinct(c, n), NEW k
    PROVE  At(c, n, k) \in Address /\ (At(c, n, k) # Null => At(c, n, k) \in Slot)
BY AllocatorAssumption DEF At, Distinct, Slot, Address, Null

\* Writing links of nodes leaves the free list alone.
LEMMA MemoryStays ==
    ASSUME NEW v, NEW w, NEW f, NEW m, Memory(v, f, m),
           w.live = v.live, w.first = v.first, w.last = v.last, w.occ = v.occ, w.cap = v.cap,
           \A p \in Slot : p \notin v.live => w.next[p] = v.next[p]
    PROVE  Memory(w, f, m)
<1>1. ASSUME NEW k \in 1..m PROVE w.next[f[k]] = v.next[f[k]]
  BY DEF Memory, Distinct, Freed
<1> QED
  BY <1>1 DEF Memory, Freed, Packed

\* A chain with one more slot has different slots.
LEMMA WithDistinct ==
    ASSUME NEW c, NEW n, Distinct(c, n), NEW x \in Slot, \A k \in 1..n : c[k] # x,
           NEW q \in 1..(n + 1)
    PROVE  /\ Distinct(With(c, n, q, x), n + 1)
           /\ \A p : (\E k \in 1..(n + 1) : p = With(c, n, q, x)[k])
                       <=> p = x \/ \E k \in 1..n : p = c[k]
<1> DEFINE d == With(c, n, q, x)
<1>1. /\ n \in Nat /\ q \in Nat
      /\ \A j \in 1..(n + 1) : d[j] = IF j < q THEN c[j] ELSE IF j = q THEN x ELSE c[j - 1]
  BY DEF Distinct, With
<1>2. d \in [1..(n + 1) -> Slot]
  BY <1>1 DEF Distinct, With
<1> HIDE DEF d
<1>3. ASSUME NEW i \in 1..(n + 1), NEW j \in 1..(n + 1), d[i] = d[j] PROVE i = j
  BY <1>1, <1>3 DEF Distinct
<1>4. ASSUME NEW k \in 1..n PROVE \E j \in 1..(n + 1) : c[k] = d[j]
  <2>1. CASE k < q
    BY <1>1, <2>1
  <2>2. CASE k >= q
    <3>1. k + 1 \in 1..(n + 1) /\ d[k + 1] = c[k]
      BY <1>1, <2>2
    <3> QED
      BY <3>1
  <2> QED
    BY <1>1, <2>1, <2>2
<1>5. ASSUME NEW p, NEW j \in 1..(n + 1), p = d[j] PROVE p = x \/ \E k \in 1..n : p = c[k]
  <2>1. CASE j < q
    BY <1>1, <1>5, <2>1
  <2>2. CASE j = q
    BY <1>1, <1>5, <2>2
  <2>3. CASE j > q
    <3>1. j - 1 \in 1..n /\ d[j] = c[j - 1]
      BY <1>1, <2>3
    <3> QED
      BY <1>5, <3>1
  <2> QED
    BY <1>1, <2>1, <2>2, <2>3
<1>6. d[q] = x
  BY <1>1
<1> QED
  BY <1>1, <1>2, <1>3, <1>4, <1>5, <1>6 DEF d, Distinct

\* So has a chain with one slot less.
LEMMA LessDistinct ==
    ASSUME NEW c, NEW n, Distinct(c, n), NEW k \in 1..n
    PROVE  /\ Distinct(Less(c, n, k), n - 1)
           /\ \A j \in 1..(n - 1) : Less(c, n, k)[j] # c[k]
           /\ \A p : (\E j \in 1..n : p = c[j])
                       <=> p = c[k] \/ \E j \in 1..(n - 1) : p = Less(c, n, k)[j]
<1> DEFINE d == Less(c, n, k)
<1>1. /\ n \in Nat /\ k \in Nat
      /\ \A j \in 1..(n - 1) : d[j] = IF j < k THEN c[j] ELSE c[j + 1]
  BY DEF Distinct, Less
<1>2. d \in [1..(n - 1) -> Slot]
  BY <1>1 DEF Distinct, Less
<1> HIDE DEF d
<1>3. ASSUME NEW i \in 1..(n - 1), NEW j \in 1..(n - 1), d[i] = d[j] PROVE i = j
  BY <1>1, <1>3 DEF Distinct
<1>4. ASSUME NEW j \in 1..(n - 1) PROVE d[j] # c[k]
  BY <1>1 DEF Distinct
<1>5. ASSUME NEW j \in 1..n, j # k PROVE \E i \in 1..(n - 1) : c[j] = d[i]
  <2>1. CASE j < k
    BY <1>1, <2>1
  <2>2. CASE j > k
    <3>1. j - 1 \in 1..(n - 1) /\ d[j - 1] = c[j]
      BY <1>1, <2>2
    <3> QED
      BY <3>1
  <2> QED
    BY <1>1, <1>5, <2>1, <2>2
<1>6. ASSUME NEW j \in 1..(n - 1) PROVE \E i \in 1..n : d[j] = c[i]
  <2>1. CASE j < k
    BY <1>1, <2>1
  <2>2. CASE j >= k
    <3>1. j + 1 \in 1..n /\ d[j] = c[j + 1]
      BY <1>1, <2>2
    <3> QED
      BY <3>1
  <2> QED
    BY <1>1, <2>1, <2>2
<1>7. n - 1 \in Nat
  BY <1>1
<1> QED
  BY <1>2, <1>3, <1>4, <1>5, <1>6, <1>7 DEF d, Distinct

(***************************************************************************)
(* Linking a node that was apart at position q of the chain.               *)
(***************************************************************************)
LEMMA LinkTyped ==
    ASSUME NEW v, Typed(v), NEW p \in Address, NEW x \in Slot, NEW n \in Address
    PROVE  LET w == Link(v, p, x, n)
           IN  /\ Typed(w)
               /\ \A k \in Slot : w.next[k] = IF k = x THEN n ELSE IF k = p THEN x ELSE v.next[k]
               /\ v.double => \A k \in Slot :
                      w.prev[k] = IF k = n THEN x ELSE IF k = x THEN p ELSE v.prev[k]
               /\ w.head = IF p = Null THEN x ELSE v.head
               /\ w.tail = IF n = Null THEN x ELSE v.tail
               /\ \A field \in {"double", "fixed", "val", "cap", "occ", "frozen", "first",
                                "last", "live", "bad"} : w[field] = v[field]
<1> DEFINE w == Link(v, p, x, n)
           next == [[[v.next EXCEPT ![p] = x] EXCEPT ![x] = n] EXCEPT ![Null] = Null]
           prev == [[[v.prev EXCEPT ![x] = IF v.double THEN p ELSE Null]
                       EXCEPT ![n] = IF v.double THEN x ELSE Null] EXCEPT ![Null] = Null]
<1>1. x # Null /\ x \in Address /\ Null \in Address /\ Slot \subseteq Address /\ Null \notin Slot
  BY AllocatorAssumption DEF Slot, Address, Null
<1>2. /\ w.next = next /\ w.prev = prev
      /\ w.head = IF p = Null THEN x ELSE v.head
      /\ w.tail = IF n = Null THEN x ELSE v.tail
      /\ DOMAIN w = DOMAIN v
      /\ \A field \in {"double", "fixed", "val", "cap", "occ", "frozen", "first",
                       "last", "live", "bad"} : w[field] = v[field]
  BY DEF Link, Typed
<1>3. next \in [Address -> Address] /\ next[Null] = Null
      /\ \A k \in Slot : next[k] = IF k = x THEN n ELSE IF k = p THEN x ELSE v.next[k]
  BY <1>1 DEF Typed
<1>4. prev \in [Address -> Address] /\ prev[Null] = Null
      /\ (v.double => \A k \in Slot :
             prev[k] = IF k = n THEN x ELSE IF k = x THEN p ELSE v.prev[k])
  BY <1>1 DEF Typed
<1> HIDE DEF w, next, prev
<1>5. Typed(w)
  BY <1>1, <1>2, <1>3, <1>4 DEF Typed
<1> QED
  BY <1>2, <1>3, <1>4, <1>5 DEF w

\* BaseView::link makes the apart node a member of the chain.
LEMMA LinkNodes ==
    ASSUME NEW v, NEW c, NEW n, NEW x, Apart(v, c, n, x), NEW q \in 1..(n + 1)
    PROVE  Nodes(Link(v, At(c, n, q - 1), x, At(c, n, q)), With(c, n, q, x), n + 1)
<1> DEFINE p == At(c, n, q - 1)
           y == At(c, n, q)
           w == Link(v, p, x, y)
           d == With(c, n, q, x)
<1>1. /\ n \in Nat /\ x \in Slot /\ q \in Nat
      /\ p \in Address /\ y \in Address
      /\ \A j \in 1..(n + 1) : d[j] = IF j < q THEN c[j] ELSE IF j = q THEN x ELSE c[j - 1]
      /\ \A j \in 1..n : c[j] \in Slot /\ c[j] # x
      /\ \A i, j \in 1..n : c[i] = c[j] => i = j
      /\ Null \notin Slot
  <2>1. Distinct(c, n)
    BY DEF Apart
  <2>2. p \in Address /\ y \in Address
    BY <2>1, AtSlot
  <2>3. n \in Nat /\ x \in Slot /\ q \in Nat /\ Null \notin Slot
    BY DEF Apart, Distinct, Slot, Null
  <2>4. \A j \in 1..(n + 1) : d[j] = IF j < q THEN c[j] ELSE IF j = q THEN x ELSE c[j - 1]
    BY DEF With
  <2>5. /\ \A j \in 1..n : c[j] \in Slot /\ c[j] # x
        /\ \A i, j \in 1..n : c[i] = c[j] => i = j
    BY DEF Apart, Distinct
  <2> QED
    BY <2>2, <2>3, <2>4, <2>5
<1>2. /\ Typed(w)
      /\ \A k \in Slot : w.next[k] = IF k = x THEN y ELSE IF k = p THEN x ELSE v.next[k]
      /\ v.double => \A k \in Slot :
             w.prev[k] = IF k = y THEN x ELSE IF k = x THEN p ELSE v.prev[k]
      /\ w.head = IF p = Null THEN x ELSE v.head
      /\ w.tail = IF y = Null THEN x ELSE v.tail
      /\ w.double = v.double /\ w.live = v.live /\ w.occ = v.occ
  BY <1>1, LinkTyped DEF Apart
<1>3. /\ Distinct(d, n + 1)
      /\ \A k : (\E j \in 1..(n + 1) : k = d[j]) <=> k = x \/ \E j \in 1..n : k = c[j]
  BY WithDistinct DEF Apart
<1>4. /\ p = IF q > 1 THEN c[q - 1] ELSE Null
      /\ y = IF q <= n THEN c[q] ELSE Null
  BY <1>1 DEF At
<1>5. /\ \A k \in 1..n : v.next[c[k]] = IF k < n THEN c[k + 1] ELSE Null
      /\ v.double => \A k \in 1..n : v.prev[c[k]] = IF k > 1 THEN c[k - 1] ELSE Null
      /\ n > 0 => v.head = c[1]
      /\ v.tail = IF n > 0 THEN c[n] ELSE Null
  BY <1>1 DEF Apart, Chained, At
<1> HIDE DEF w, d, p, y
<1>6. ASSUME NEW k \in 1..(n + 1) PROVE w.next[d[k]] = At(d, n + 1, k + 1)
  <2>1. At(d, n + 1, k + 1) = IF k <= n THEN d[k + 1] ELSE Null
    BY <1>1 DEF At
  <2>2. CASE k < q - 1
    BY <1>1, <1>2, <1>4, <1>5, <2>1, <2>2
  <2>3. CASE k = q - 1
    BY <1>1, <1>2, <1>4, <1>5, <2>1, <2>3
  <2>4. CASE k = q
    BY <1>1, <1>2, <1>4, <1>5, <2>1, <2>4
  <2>5. CASE k > q
    BY <1>1, <1>2, <1>4, <1>5, <2>1, <2>5
  <2> QED
    BY <1>1, <2>2, <2>3, <2>4, <2>5
<1>7. ASSUME w.double, NEW k \in 1..(n + 1) PROVE w.prev[d[k]] = At(d, n + 1, k - 1)
  <2>1. At(d, n + 1, k - 1) = IF k > 1 THEN d[k - 1] ELSE Null
    BY <1>1 DEF At
  <2>2. CASE k < q
    BY <1>1, <1>2, <1>4, <1>5, <1>7, <2>1, <2>2
  <2>3. CASE k = q
    BY <1>1, <1>2, <1>4, <1>5, <1>7, <2>1, <2>3
  <2>4. CASE k = q + 1
    BY <1>1, <1>2, <1>4, <1>5, <1>7, <2>1, <2>4
  <2>5. CASE k > q + 1
    BY <1>1, <1>2, <1>4, <1>5, <1>7, <2>1, <2>5
  <2> QED
    BY <1>1, <2>2, <2>3, <2>4, <2>5
<1>8. w.head = d[1]
  BY <1>1, <1>2, <1>4, <1>5
<1>9. w.tail = At(d, n + 1, n + 1)
  BY <1>1, <1>2, <1>4, <1>5 DEF At
<1>10. Chained(w, d, n + 1)
  BY <1>6, <1>7, <1>8, <1>9 DEF Chained
<1>11. /\ w.occ = n + 1
       /\ \A k \in Slot : k \in w.live <=> \E j \in 1..(n + 1) : k = d[j]
  BY <1>2, <1>3 DEF Apart
<1> QED
  BY <1>2, <1>3, <1>10, <1>11 DEF Nodes, w, d, p, y

\* It leaves the free list alone.
LEMMA LinkListed ==
    ASSUME NEW v, NEW c, NEW n, NEW f, NEW m, NEW x, Loose(v, c, n, f, m, x), NEW q \in 1..(n + 1)
    PROVE  Listed(Link(v, At(c, n, q - 1), x, At(c, n, q)), With(c, n, q, x), n + 1, f, m)
<1> DEFINE p == At(c, n, q - 1)
           y == At(c, n, q)
           w == Link(v, p, x, y)
<1>1. Apart(v, c, n, x) /\ Memory(v, f, m)
  BY DEF Loose
<1>2. p \in Address /\ y \in Address /\ (p # Null => p \in v.live)
  <2>1. p # Null => q - 1 \in 1..n /\ p = c[q - 1]
    BY DEF At
  <2> QED
    BY <1>1, <2>1, AtSlot DEF Apart, Distinct
<1> HIDE DEF p, y
<1>3. /\ \A k \in Slot : w.next[k] = IF k = x THEN y ELSE IF k = p THEN x ELSE v.next[k]
      /\ w.live = v.live /\ w.first = v.first /\ w.last = v.last /\ w.occ = v.occ /\ w.cap = v.cap
  BY <1>1, <1>2, LinkTyped DEF Apart
<1>4. Null \notin Slot /\ x \in v.live
  BY <1>1 DEF Apart, Slot, Null
<1> HIDE DEF w
<1>5. Memory(w, f, m)
  BY <1>1, <1>2, <1>3, <1>4, MemoryStays
<1> QED
  BY <1>1, <1>5, LinkNodes DEF Listed, w, p, y

(***************************************************************************)
(* Taking the node at position k out of the chain.                         *)
(***************************************************************************)
LEMMA UnlinkTyped ==
    ASSUME NEW v, Typed(v), NEW p \in Address, NEW n \in Address
    PROVE  LET w == Unlink(v, p, n)
           IN  /\ Typed(w)
               /\ \A k \in Slot : w.next[k] = IF k = p THEN n ELSE v.next[k]
               /\ v.double => \A k \in Slot : w.prev[k] = IF k = n THEN p ELSE v.prev[k]
               /\ w.head = IF p = Null THEN n ELSE v.head
               /\ w.tail = IF n = Null THEN p ELSE v.tail
               /\ \A field \in {"double", "fixed", "val", "cap", "occ", "frozen", "first",
                                "last", "live", "bad"} : w[field] = v[field]
<1> DEFINE w == Unlink(v, p, n)
           next == [[v.next EXCEPT ![p] = n] EXCEPT ![Null] = Null]
           prev == [[v.prev EXCEPT ![n] = IF v.double THEN p ELSE Null] EXCEPT ![Null] = Null]
<1>1. Null \in Address /\ Slot \subseteq Address /\ Null \notin Slot
  BY AllocatorAssumption DEF Slot, Address, Null
<1>2. /\ w.next = next /\ w.prev = prev
      /\ w.head = IF p = Null THEN n ELSE v.head
      /\ w.tail = IF n = Null THEN p ELSE v.tail
      /\ DOMAIN w = DOMAIN v
      /\ \A field \in {"double", "fixed", "val", "cap", "occ", "frozen", "first",
                       "last", "live", "bad"} : w[field] = v[field]
  BY DEF Unlink, Typed
<1>3. next \in [Address -> Address] /\ next[Null] = Null
      /\ \A k \in Slot : next[k] = IF k = p THEN n ELSE v.next[k]
  BY <1>1 DEF Typed
<1>4. prev \in [Address -> Address] /\ prev[Null] = Null
      /\ (v.double => \A k \in Slot : prev[k] = IF k = n THEN p ELSE v.prev[k])
  BY <1>1 DEF Typed
<1> HIDE DEF w, next, prev
<1>5. Typed(w)
  BY <1>1, <1>2, <1>3, <1>4 DEF Typed
<1> QED
  BY <1>2, <1>3, <1>4, <1>5 DEF w

\* BaseView::unlink takes a member of the chain out of it.
LEMMA UnlinkNodes ==
    ASSUME NEW v, NEW c, NEW n, Nodes(v, c, n), NEW q \in 1..n
    PROVE  LET w == Unlink(v, At(c, n, q - 1), At(c, n, q + 1))
           IN  Apart(w, Less(c, n, q), n - 1, c[q]) /\ (n = 1 => w.head = Null)
<1> DEFINE p == At(c, n, q - 1)
           y == At(c, n, q + 1)
           w == Unlink(v, p, y)
           d == Less(c, n, q)
<1>1. /\ n \in Nat /\ q \in Nat
      /\ p \in Address /\ y \in Address
      /\ \A j \in 1..(n - 1) : d[j] = IF j < q THEN c[j] ELSE c[j + 1]
      /\ \A j \in 1..n : c[j] \in Slot
      /\ \A i, j \in 1..n : c[i] = c[j] => i = j
      /\ Null \notin Slot
  <2>1. Distinct(c, n)
    BY DEF Nodes
  <2>2. p \in Address /\ y \in Address
    BY <2>1, AtSlot
  <2>3. n \in Nat /\ q \in Nat /\ Null \notin Slot
    BY <2>1 DEF Distinct, Slot, Null
  <2>4. \A j \in 1..(n - 1) : d[j] = IF j < q THEN c[j] ELSE c[j + 1]
    BY DEF Less
  <2>5. /\ \A j \in 1..n : c[j] \in Slot
        /\ \A i, j \in 1..n : c[i] = c[j] => i = j
    BY <2>1 DEF Distinct
  <2> HIDE DEF p, y, d
  <2> QED
    BY <2>2, <2>3, <2>4, <2>5
<1>2. /\ Typed(w)
      /\ \A k \in Slot : w.next[k] = IF k = p THEN y ELSE v.next[k]
      /\ v.double => \A k \in Slot : w.prev[k] = IF k = y THEN p ELSE v.prev[k]
      /\ w.head = IF p = Null THEN y ELSE v.head
      /\ w.tail = IF y = Null THEN p ELSE v.tail
      /\ w.double = v.double /\ w.live = v.live /\ w.occ = v.occ
  <2>1. Typed(v)
    BY DEF Nodes
  <2> HIDE DEF p, y
  <2> QED
    BY <1>1, <2>1, UnlinkTyped
<1>3. /\ Distinct(d, n - 1)
      /\ \A j \in 1..(n - 1) : d[j] # c[q]
      /\ \A k : (\E j \in 1..n : k = c[j]) <=> k = c[q] \/ \E j \in 1..(n - 1) : k = d[j]
  BY LessDistinct DEF Nodes
<1>4. /\ p = IF q > 1 THEN c[q - 1] ELSE Null
      /\ y = IF q < n THEN c[q + 1] ELSE Null
  BY <1>1 DEF At
<1>5. /\ \A k \in 1..n : v.next[c[k]] = IF k < n THEN c[k + 1] ELSE Null
      /\ v.double => \A k \in 1..n : v.prev[c[k]] = IF k > 1 THEN c[k - 1] ELSE Null
      /\ v.head = c[1] /\ v.tail = c[n]
  <2>1. /\ \A k \in 1..n : v.next[c[k]] = At(c, n, k + 1)
        /\ v.double => \A k \in 1..n : v.prev[c[k]] = At(c, n, k - 1)
        /\ v.head = c[1] /\ v.tail = At(c, n, n)
    BY <1>1 DEF Nodes, Chained
  <2> QED
    BY <1>1, <2>1 DEF At
<1> HIDE DEF w, d, p, y
<1>6. ASSUME NEW k \in 1..(n - 1) PROVE w.next[d[k]] = At(d, n - 1, k + 1)
  <2>1. At(d, n - 1, k + 1) = IF k + 1 <= n - 1 THEN d[k + 1] ELSE Null
    BY <1>1 DEF At
  <2>2. CASE k < q - 1
    BY <1>1, <1>2, <1>4, <1>5, <2>1, <2>2
  <2>3. CASE k = q - 1
    BY <1>1, <1>2, <1>4, <1>5, <2>1, <2>3
  <2>4. CASE k >= q
    BY <1>1, <1>2, <1>4, <1>5, <2>1, <2>4
  <2> QED
    BY <1>1, <2>2, <2>3, <2>4
<1>7. ASSUME w.double, NEW k \in 1..(n - 1) PROVE w.prev[d[k]] = At(d, n - 1, k - 1)
  <2>1. At(d, n - 1, k - 1) = IF k > 1 THEN d[k - 1] ELSE Null
    BY <1>1 DEF At
  <2>2. CASE k < q
    BY <1>1, <1>2, <1>4, <1>5, <1>7, <2>1, <2>2
  <2>3. CASE k = q
    BY <1>1, <1>2, <1>4, <1>5, <1>7, <2>1, <2>3
  <2>4. CASE k > q
    BY <1>1, <1>2, <1>4, <1>5, <1>7, <2>1, <2>4
  <2> QED
    BY <1>1, <2>2, <2>3, <2>4
<1>8. (n - 1 > 0 => w.head = d[1]) /\ (n = 1 => w.head = Null)
  BY <1>1, <1>2, <1>4, <1>5
<1>9. w.tail = At(d, n - 1, n - 1)
  BY <1>1, <1>2, <1>4, <1>5 DEF At
<1>10. Chained(w, d, n - 1)
  BY <1>6, <1>7, <1>8, <1>9 DEF Chained
<1>11. /\ w.occ = (n - 1) + 1
       /\ c[q] \in Slot
       /\ \A k \in Slot : k \in w.live <=> k = c[q] \/ \E j \in 1..(n - 1) : k = d[j]
  <2>1. v.occ = n /\ \A k \in Slot : k \in v.live <=> \E j \in 1..n : k = c[j]
    BY DEF Nodes
  <2>2. w.occ = (n - 1) + 1 /\ c[q] \in Slot
    BY <1>1, <1>2, <2>1
  <2>3. \A k \in Slot : k \in w.live <=> k = c[q] \/ \E j \in 1..(n - 1) : k = d[j]
    BY <1>2, <1>3, <2>1
  <2> QED
    BY <2>2, <2>3
<1> QED
  BY <1>2, <1>3, <1>8, <1>10, <1>11 DEF Apart, w, d, p, y

\* It leaves the free list alone.
LEMMA UnlinkLoose ==
    ASSUME NEW v, NEW c, NEW n, NEW f, NEW m, Listed(v, c, n, f, m), NEW q \in 1..n
    PROVE  LET w == Unlink(v, At(c, n, q - 1), At(c, n, q + 1))
           IN  Loose(w, Less(c, n, q), n - 1, f, m, c[q]) /\ (n = 1 => w.head = Null)
<1> DEFINE p == At(c, n, q - 1)
           y == At(c, n, q + 1)
           w == Unlink(v, p, y)
<1>1. Nodes(v, c, n) /\ Memory(v, f, m)
  BY DEF Listed
<1>2. p \in Address /\ y \in Address /\ (p # Null => p \in v.live)
  <2>1. p # Null => q - 1 \in 1..n /\ p = c[q - 1]
    BY DEF At
  <2> QED
    BY <1>1, <2>1, AtSlot DEF Nodes, Distinct
<1> HIDE DEF p, y
<1>3. /\ \A k \in Slot : w.next[k] = IF k = p THEN y ELSE v.next[k]
      /\ w.live = v.live /\ w.first = v.first /\ w.last = v.last /\ w.occ = v.occ /\ w.cap = v.cap
  BY <1>1, <1>2, UnlinkTyped DEF Nodes
<1>4. Null \notin Slot
  BY DEF Slot, Null
<1> HIDE DEF w
<1>5. Memory(w, f, m)
  BY <1>1, <1>2, <1>3, <1>4, MemoryStays
<1> QED
  BY <1>1, <1>5, UnlinkNodes DEF Loose, w, p, y

(***************************************************************************)
(* The walk of a list finds its chain.                                     *)
(***************************************************************************)
LEMMA WalkIs ==
    ASSUME NEW v, NEW c, NEW n, Distinct(c, n), n <= Slots, v.next \in [Address -> Address],
           v.next[Null] = Null, v.head = At(c, n, 1),
           \A k \in 1..n : v.next[c[k]] = At(c, n, k + 1)
    PROVE  Chain(v) = c
<1> DEFINE Runs(m, f) == f = [k \in 0..m |-> IF k = 0 THEN v.head ELSE v.next[f[k - 1]]]
           Good == {m \in Nat : \E f : Runs(m, f)}
           at == CHOOSE f : Runs(Slots, f)
<1>1. Slots \in Nat /\ n \in Nat /\ DOMAIN v.next = 0..Slots
  BY AllocatorAssumption DEF Distinct, Address
<1>2. 0 \in Good
  <2>1. Runs(0, [k \in 0..0 |-> v.head])
    OBVIOUS
  <2> QED
    BY <2>1
<1>3. ASSUME NEW m \in 0..Slots, m \in Good PROVE m + 1 \in Good
  <2>1. PICK f : Runs(m, f)
    BY <1>3
  <2> DEFINE g == [k \in 0..(m + 1) |-> IF k <= m THEN f[k] ELSE v.next[f[m]]]
  <2>2. ASSUME NEW k \in 0..(m + 1)
        PROVE  g[k] = IF k = 0 THEN v.head ELSE v.next[g[k - 1]]
    BY <2>1
  <2>3. Runs(m + 1, g)
    BY <2>2
  <2> HIDE DEF Runs, g
  <2>4. \E h : Runs(m + 1, h)
    BY <2>3
  <2> QED
    BY <2>4
<1>4. Slots \in Good
  <2> HIDE DEF Good
  <2>1. Slots \in Nat
    BY <1>1
  <2>2. \A k \in 0..Slots : k \in Good
    BY <1>2, <1>3, <2>1, Climb
  <2> QED
    BY <2>1, <2>2
<1>5. Runs(Slots, at)
  <2> HIDE DEF Runs
  <2>1. \E f : Runs(Slots, f)
    BY <1>4
  <2> QED
    BY <2>1
<1>6. Chain(v) = [k \in 1..Cardinality({j \in 0..Slots : at[j] # Null}) |-> at[k - 1]]
  BY <1>1 DEF Chain
<1> HIDE DEF at
<1>7. at[0] = v.head /\ \A k \in 1..Slots : at[k] = v.next[at[k - 1]]
  BY <1>1, <1>5
<1>8. \A k \in 0..Slots : at[k] = At(c, n, k + 1)
  <2> DEFINE S == {k \in 0..Slots : at[k] = At(c, n, k + 1)}
  <2>1. 0 \in S
    BY <1>1, <1>7 DEF At
  <2>2. ASSUME NEW k \in 0..Slots, k < Slots, k \in S PROVE k + 1 \in S
    <3>1. at[k + 1] = v.next[At(c, n, k + 1)]
      BY <1>1, <1>7, <2>2
    <3>2. v.next[At(c, n, k + 1)] = At(c, n, k + 2)
      <4>1. CASE k + 1 \in 1..n
        BY <1>1, <4>1 DEF At
      <4>2. CASE k + 1 \notin 1..n
        BY <1>1, <4>2 DEF At
      <4> QED
        BY <4>1, <4>2
    <3> QED
      BY <1>1, <2>2, <3>1, <3>2
  <2> HIDE DEF S
  <2>3. \A k \in 0..Slots : k \in S
    BY <1>1, <2>1, <2>2, Climb
  <2> QED
    BY <2>3 DEF S
<1>9. {j \in 0..Slots : at[j] # Null} = 0..(n - 1)
  <2>1. \A k \in 1..n : c[k] # Null
    BY DEF Distinct, Slot, Null
  <2> QED
    BY <1>1, <1>8, <2>1 DEF At
<1>10. Cardinality(0..(n - 1)) = n
  BY <1>1, FS_Interval
<1>11. Chain(v) = [k \in 1..n |-> at[k - 1]]
  BY <1>6, <1>9, <1>10
<1>12. \A k \in 1..n : at[k - 1] = c[k]
  BY <1>1, <1>8 DEF At
<1>13. c = [k \in 1..n |-> c[k]]
  BY DEF Distinct
<1> QED
  BY <1>11, <1>12, <1>13

\* The walk from the head of a list that does not dangle.
LEMMA ChainIs ==
    ASSUME NEW v, NEW c, NEW n, Nodes(v, c, n), n > 0 \/ v.head = Null, n <= Slots
    PROVE  Chain(v) = c
<1>1. /\ Distinct(c, n) /\ n \in Nat /\ v.next \in [Address -> Address] /\ v.next[Null] = Null
      /\ \A k \in 1..n : v.next[c[k]] = At(c, n, k + 1)
  BY DEF Nodes, Distinct, Typed, Chained
<1>2. v.head = At(c, n, 1)
  BY <1>1 DEF Nodes, Chained, At
<1> QED
  BY <1>1, <1>2, WalkIs

(***************************************************************************)
(* Moving the array, and the size it gets.                                 *)
(***************************************************************************)
Moving(n) == [k \in 1..n |-> k]

\* A chain is a sequence.
LEMMA LenIs ==
    ASSUME NEW c, NEW n, Distinct(c, n)
    PROVE  Len(c) = n /\ DOMAIN c = 1..n
BY LenOfFunction DEF Distinct

\* transfer() copies the chain to the first slots of the new array, in order.
LEMMA ResizeListed ==
    ASSUME NEW v, NEW c, NEW n, Nodes(v, c, n), NEW capacity \in Nat \ {0},
           n <= capacity, n <= MaxLen + 1, ~v.bad
    PROVE  LET w == Resize(v, capacity)
           IN  IF Dangling(v) THEN w.bad
               ELSE /\ Listed(w, Moving(n), n, <<>>, 0)
                    /\ w.cap = capacity /\ ~w.bad
                    /\ w.frozen = v.frozen /\ w.fixed = v.fixed /\ w.double = v.double
                    /\ \A k \in 1..n : w.val[k] = v.val[c[k]]
<1>1. CASE Dangling(v)
  <2>1. Resize(v, capacity) = Broken(v)
    BY <1>1 DEF Resize
  <2> QED
    BY <1>1, <2>1 DEF Nodes, Typed, Broken
<1>2. CASE ~Dangling(v)
  <2> DEFINE w == Resize(v, capacity)
             d == Moving(n)
             next == [p \in Address |-> IF p \in 1..(n - 1) THEN p + 1 ELSE Null]
             prev == [p \in Address |-> IF v.double /\ p \in 2..n THEN p - 1 ELSE Null]
             val == [p \in Address |-> IF p \in 1..n THEN v.val[c[p]] ELSE None]
  <2>1. n \in Nat /\ n <= Slots /\ Slots \in Nat /\ MaxLen \in Nat
    BY AllocatorAssumption, ListAssumption DEF Nodes, Distinct
  <2>2. n > 0 \/ v.head = Null
    BY <1>2, <2>1 DEF Dangling, Nodes, Typed, Slot
  <2>3. Chain(v) = c /\ Len(c) = n
    BY <2>1, <2>2, ChainIs, LenIs DEF Nodes
  <2>4. w = [v EXCEPT !.next = next, !.prev = prev, !.val = val,
                      !.head = 1, !.tail = n, !.cap = capacity,
                      !.first = Null, !.last = Null, !.live = 1..n]
    BY <1>2, <2>3 DEF Resize
  <2>5. /\ w.next = next /\ w.prev = prev /\ w.val = val
        /\ w.head = 1 /\ w.tail = n /\ w.cap = capacity /\ w.first = Null /\ w.last = Null
        /\ w.live = 1..n /\ DOMAIN w = DOMAIN v
        /\ \A field \in {"double", "fixed", "occ", "frozen", "bad"} : w[field] = v[field]
    <3> HIDE DEF next, prev, val
    <3> QED
      BY <2>4 DEF Nodes, Typed
  <2> HIDE DEF w
  <2>6. /\ next \in [Address -> Address] /\ prev \in [Address -> Address]
        /\ next[Null] = Null /\ prev[Null] = Null
    BY <2>1 DEF Address, Null
  <2>7. val \in [Address -> Values] /\ \A k \in 1..n : val[k] = v.val[c[k]]
    <3>1. \A k \in 1..n : c[k] \in Address /\ k \in Address
      BY <2>1 DEF Nodes, Distinct, Slot, Address
    <3> QED
      BY <3>1 DEF Nodes, Typed, Values
  <2>8. \A k \in 1..n : next[k] = (IF k < n THEN k + 1 ELSE Null)
                        /\ (v.double => prev[k] = IF k > 1 THEN k - 1 ELSE Null)
    BY <2>1 DEF Address
  <2> HIDE DEF next, prev, val
  <2>9. Typed(w)
    <3>1. /\ 1 \in Address /\ n \in Address /\ Null \in Address /\ 1..n \subseteq Slot
      BY <2>1, AllocatorAssumption DEF Address, Slot, Null
    <3>2. Typed(v)
      BY DEF Nodes
    <3> QED
      BY <2>5, <2>6, <2>7, <3>1, <3>2 DEF Typed
  <2>10. Distinct(d, n) /\ \A k \in 1..n : d[k] = k
    BY <2>1 DEF Distinct, Moving, Slot
  <2> HIDE DEF d
  <2>11. Chained(w, d, n)
    BY <2>1, <2>5, <2>8, <2>10 DEF Chained, At, Null
  <2>12. w.occ = n /\ \A p \in Slot : p \in w.live <=> \E k \in 1..n : p = d[k]
    BY <2>5, <2>10 DEF Nodes
  <2>13. Nodes(w, d, n)
    BY <2>9, <2>10, <2>11, <2>12 DEF Nodes
  <2>14. Memory(w, <<>>, 0)
    BY <2>1, <2>5, <2>12 DEF Memory, Distinct, Freed, Packed, At
  <2> QED
    BY <1>2, <2>5, <2>7, <2>13, <2>14 DEF Listed, w, d
<1> QED
  BY <1>1, <1>2

\* next_power_of_two() is not less than its argument.
LEMMA PowerEnough ==
    ASSUME NEW n \in Nat
    PROVE  NextPowerOfTwo(n) \in Nat /\ NextPowerOfTwo(n) >= n
<1>1. CASE n = 0
  BY <1>1 DEF NextPowerOfTwo
<1>2. CASE n # 0
  <2> DEFINE Runs(m, f) == f = [k \in 0..m |-> IF k = 0 THEN 1 ELSE 2 * f[k - 1]]
             Good == {m \in Nat : \E f : Runs(m, f)}
             power == CHOOSE f : Runs(n, f)
             powers == {power[k] : k \in 0..n}
  <2>1. 0 \in Good
    <3>1. Runs(0, [k \in 0..0 |-> 1])
      OBVIOUS
    <3> QED
      BY <3>1
  <2>2. ASSUME NEW m \in 0..n, m \in Good PROVE m + 1 \in Good
    <3>1. PICK f : Runs(m, f)
      BY <2>2
    <3> DEFINE g == [k \in 0..(m + 1) |-> IF k <= m THEN f[k] ELSE 2 * f[m]]
    <3>2. ASSUME NEW k \in 0..(m + 1)
          PROVE  g[k] = IF k = 0 THEN 1 ELSE 2 * g[k - 1]
      BY <3>1
    <3>3. Runs(m + 1, g)
      BY <3>2
    <3> HIDE DEF Runs, g
    <3>4. \E h : Runs(m + 1, h)
      BY <3>3
    <3> QED
      BY <3>4
  <2>3. n \in Good
    <3> HIDE DEF Good
    <3>1. \A k \in 0..n : k \in Good
      BY <2>1, <2>2, Climb
    <3> QED
      BY <3>1
  <2>4. Runs(n, power)
    <3> HIDE DEF Runs
    <3>1. \E f : Runs(n, f)
      BY <2>3
    <3> QED
      BY <3>1
  <2>5. NextPowerOfTwo(n) =
          CHOOSE m \in powers : m >= n /\ \A other \in powers : other >= n => m <= other
    BY <1>2 DEF NextPowerOfTwo
  <2> HIDE DEF power
  <2>6. power[0] = 1 /\ \A k \in 1..n : power[k] = 2 * power[k - 1]
    BY <2>4
  <2>7. \A k \in 0..n : power[k] \in Nat /\ power[k] > k
    <3> DEFINE S == {k \in 0..n : power[k] \in Nat /\ power[k] > k}
    <3>1. 0 \in S
      BY <2>6
    <3>2. ASSUME NEW k \in 0..n, k < n, k \in S PROVE k + 1 \in S
      <4>1. power[k + 1] = 2 * power[k]
        BY <2>6, <3>2
      <4> QED
        BY <3>2, <4>1
    <3> HIDE DEF S
    <3>3. \A k \in 0..n : k \in S
      BY <3>1, <3>2, Climb
    <3> QED
      BY <3>3 DEF S
  <2> DEFINE enough == {m \in powers : m >= n}
  <2>8. powers \in SUBSET Nat /\ enough \in SUBSET Nat /\ power[n] \in enough
    BY <2>7
  <2>9. PICK m \in enough : \A other \in enough : m <= other
    <3> HIDE DEF enough
    <3> QED
      BY <2>8, Least
  <2> HIDE DEF powers
  <2>10. \E k \in powers : k >= n /\ \A other \in powers : other >= n => k <= other
    BY <2>9
  <2> QED
    BY <2>5, <2>8, <2>10
<1> QED
  BY <1>1, <1>2

\* A capacity is not less than MIN_SIZE, nor than what is asked for.
LEMMA MinEnough ==
    ASSUME NEW n \in Nat
    PROVE  AtLeastMin(n) \in Nat \ {0} /\ AtLeastMin(n) >= n
BY AllocatorAssumption DEF AtLeastMin

\* The array shrinks around its nodes.
LEMMA ShrinkListed ==
    ASSUME NEW v, NEW c, NEW n, Nodes(v, c, n), n <= MaxLen + 1, ~v.bad, MayShrink(v)
    PROVE  LET w == Shrink(v)
           IN  IF Dangling(v) THEN w.bad
               ELSE /\ Listed(w, Moving(n), n, <<>>, 0)
                    /\ ~w.bad /\ w.frozen = v.frozen /\ w.fixed = v.fixed /\ w.double = v.double
                    /\ \A k \in 1..n : w.val[k] = v.val[c[k]]
<1> DEFINE capacity == AtLeastMin(NextPowerOfTwo(2 * v.occ))
<1>1. n \in Nat /\ v.occ = n
  BY DEF Nodes, Distinct
<1>2. capacity \in Nat \ {0} /\ n <= capacity
  <2>1. NextPowerOfTwo(2 * v.occ) \in Nat /\ NextPowerOfTwo(2 * v.occ) >= 2 * v.occ
    BY <1>1, PowerEnough
  <2> QED
    BY <1>1, <2>1, MinEnough
<1>3. Shrink(v) = Resize(v, capacity)
  BY DEF Shrink
<1> HIDE DEF capacity
<1> QED
  BY <1>2, <1>3, ResizeListed

(***************************************************************************)
(* Making a node and giving one back.                                      *)
(***************************************************************************)
Pinned(v) == v.fixed \/ v.frozen

SameFlags(v, w) == w.double = v.double /\ w.fixed = v.fixed /\ w.frozen = v.frozen

\* The nodes of two chains hold the same values.
Alike(v, c, w, d, n) == \A k \in 1..n : w.val[d[k]] = v.val[c[k]]

Push(f, m, x) == [k \in 1..(m + 1) |-> IF k <= m THEN f[k] ELSE x]
Rest(f, m) == [k \in 1..(m - 1) |-> f[k + 1]]

\* Null is an address and no slot.
LEMMA SlotIsAddress == Slot \subseteq Address /\ Null \in Address /\ Null \notin Slot
BY AllocatorAssumption DEF Slot, Address, Null

\* The view without the node, before the array shrinks or the slot is freed.
Gone(v, x) == [Destroy(v, x) EXCEPT !.occ = @ - 1]

\* A node is destroyed: its slot is blank and no longer in use.
LEMMA DestroyNodes ==
    ASSUME NEW v, NEW c, NEW n, NEW x, Apart(v, c, n, x)
    PROVE  LET w == Gone(v, x)
           IN  /\ Nodes(w, c, n)
               /\ \A p \in Address : w.next[p] = IF p = x THEN Null ELSE v.next[p]
               /\ \A p \in Address : w.val[p] = IF p = x THEN None ELSE v.val[p]
               /\ w.live = v.live \ {x} /\ w.occ = v.occ - 1
               /\ \A field \in {"double", "fixed", "head", "tail", "cap", "frozen", "first",
                                "last", "bad"} : w[field] = v[field]
<1> DEFINE d == Destroy(v, x)
           w == Gone(v, x)
<1>1. Typed(v) /\ Distinct(c, n) /\ Chained(v, c, n) /\ v.occ = n + 1 /\ x \in Slot
      /\ (\A k \in 1..n : c[k] # x)
      /\ (\A p \in Slot : p \in v.live <=> p = x \/ \E k \in 1..n : p = c[k])
  BY DEF Apart
<1>2. /\ d.next = [v.next EXCEPT ![x] = Null] /\ d.prev = [v.prev EXCEPT ![x] = Null]
      /\ d.val = [v.val EXCEPT ![x] = None] /\ d.live = v.live \ {x}
      /\ DOMAIN d = DOMAIN v /\ d.occ = v.occ
      /\ \A field \in {"double", "fixed", "head", "tail", "cap", "frozen", "first",
                       "last", "bad"} : d[field] = v[field]
  BY <1>1 DEF Destroy, Typed
<1> HIDE DEF d
<1>3. /\ w.next = [v.next EXCEPT ![x] = Null] /\ w.prev = [v.prev EXCEPT ![x] = Null]
      /\ w.val = [v.val EXCEPT ![x] = None] /\ w.live = v.live \ {x}
      /\ DOMAIN w = DOMAIN v /\ w.occ = v.occ - 1
      /\ \A field \in {"double", "fixed", "head", "tail", "cap", "frozen", "first",
                       "last", "bad"} : w[field] = v[field]
  <2>1. w = [d EXCEPT !.occ = @ - 1]
    BY DEF Gone, d
  <2> HIDE DEF w
  <2> QED
    BY <1>1, <1>2, <2>1 DEF Typed
<1> HIDE DEF w
<1>4. w.occ = n /\ n \in Nat
  BY <1>1, <1>3 DEF Distinct
<1>5. Typed(w)
  BY <1>1, <1>3, <1>4, SlotIsAddress DEF Typed, Values
<1>6. \A k \in 1..n : w.next[c[k]] = v.next[c[k]] /\ w.prev[c[k]] = v.prev[c[k]]
  BY <1>1, <1>3, SlotIsAddress DEF Typed, Distinct
<1>7. Chained(w, c, n)
  BY <1>1, <1>3, <1>6 DEF Chained
<1>8. \A p \in Slot : p \in w.live <=> \E k \in 1..n : p = c[k]
  BY <1>1, <1>3
<1> QED
  <2>1. /\ \A p \in Address : w.next[p] = IF p = x THEN Null ELSE v.next[p]
        /\ \A p \in Address : w.val[p] = IF p = x THEN None ELSE v.val[p]
    BY <1>1, <1>3 DEF Typed
  <2> QED
    BY <1>1, <1>3, <1>4, <1>5, <1>7, <1>8, <2>1 DEF Nodes, w, d

\* The slot goes to the end of the free list.
LEMMA PushMemory ==
    ASSUME NEW v, NEW w, NEW f, NEW m, NEW x, Memory(v, f, m), Typed(v),
           x \in Slot, x \in v.live,
           w.live = v.live \ {x}, w.occ = v.occ - 1, w.cap = v.cap,
           \A p \in Slot : w.next[p] = IF p = v.last THEN x ELSE IF p = x THEN Null ELSE v.next[p],
           w.first = IF v.first = Null THEN x ELSE v.first, w.last = x
    PROVE  Memory(w, Push(f, m, x), m + 1)
<1> DEFINE g == Push(f, m, x)
<1>1. /\ m \in Nat /\ \A k \in 1..(m + 1) : g[k] = IF k <= m THEN f[k] ELSE x
      /\ \A k \in 1..m : f[k] \in Slot /\ f[k] # x /\ f[k] \notin v.live
      /\ \A i, j \in 1..m : f[i] = f[j] => i = j
  BY DEF Memory, Distinct, Freed, Push
<1>2. Distinct(g, m + 1)
  <2>1. g \in [1..(m + 1) -> Slot]
    BY <1>1 DEF Push
  <2> HIDE DEF g
  <2> QED
    BY <1>1, <2>1 DEF Distinct
<1> HIDE DEF g
<1>3. /\ v.first = IF m > 0 THEN f[1] ELSE Null
      /\ v.last = IF m > 0 THEN f[m] ELSE Null
      /\ \A k \in 1..m : v.next[f[k]] = IF k < m THEN f[k + 1] ELSE Null
  BY <1>1 DEF Memory, Freed, At
<1>4. Freed(w, g, m + 1)
  <2>1. w.first = At(g, m + 1, 1) /\ w.last = At(g, m + 1, m + 1)
    BY <1>1, <1>3, SlotIsAddress DEF At
  <2>2. ASSUME NEW k \in 1..(m + 1) PROVE g[k] \notin w.live /\ w.next[g[k]] = At(g, m + 1, k + 1)
    <3>1. At(g, m + 1, k + 1) = IF k <= m THEN g[k + 1] ELSE Null
      BY <1>1 DEF At
    <3>2. CASE k < m
      BY <1>1, <1>3, <3>1, <3>2
    <3>3. CASE k = m
      BY <1>1, <1>3, <3>1, <3>3
    <3>4. CASE k = m + 1
      BY <1>1, <1>3, <3>1, <3>4, SlotIsAddress
    <3> QED
      BY <1>1, <3>2, <3>3, <3>4
  <2> QED
    BY <2>1, <2>2 DEF Freed
<1>5. \A p : (\E k \in 1..(m + 1) : p = g[k]) <=> p = x \/ \E k \in 1..m : p = f[k]
  <2>1. ASSUME NEW k \in 1..m PROVE k \in 1..(m + 1) /\ g[k] = f[k]
    BY <1>1
  <2>2. m + 1 \in 1..(m + 1) /\ g[m + 1] = x
    BY <1>1
  <2>3. ASSUME NEW k \in 1..(m + 1) PROVE g[k] = x \/ (k \in 1..m /\ g[k] = f[k])
    BY <1>1
  <2> QED
    BY <2>1, <2>2, <2>3
<1>6. Packed(w, g, m + 1)
  <2>1. w.occ + (m + 1) = v.occ + m
    BY <1>1 DEF Typed
  <2>2. /\ \A p \in Slot : p \in 1..(v.occ + m) <=> p \in v.live \/ \E k \in 1..m : p = f[k]
        /\ v.occ + m <= v.cap /\ v.occ + m <= MaxLen + 1
    BY DEF Memory, Packed
  <2> QED
    BY <1>5, <2>1, <2>2 DEF Packed
<1> QED
  BY <1>2, <1>4, <1>6 DEF Memory, g

\* recycle(): the slot is freed, or the array shrinks and has no free slots.
LEMMA RecycleListed ==
    ASSUME NEW v, NEW c, NEW n, NEW f, NEW m, NEW x, Loose(v, c, n, f, m, x), ~v.bad
    PROVE  LET w == Recycle(v, x)
           IN  /\ Pinned(v) => /\ Listed(w, c, n, Push(f, m, x), m + 1)
                               /\ ~w.bad /\ w.cap = v.cap /\ w.head = v.head
                               /\ \A p \in Address :
                                      w.val[p] = IF p = x THEN None ELSE v.val[p]
               /\ ~w.bad => /\ SameFlags(v, w)
                            /\ \E d, g, k : Listed(w, d, n, g, k) /\ Alike(v, c, w, d, n)
<1> DEFINE u == Gone(v, x)
           w == [u EXCEPT !.next[v.last] = x, !.next[Null] = Null,
                          !.first = IF @ = Null THEN x ELSE @, !.last = x]
<1>1. /\ Nodes(u, c, n)
      /\ \A p \in Address : u.next[p] = IF p = x THEN Null ELSE v.next[p]
      /\ \A p \in Address : u.val[p] = IF p = x THEN None ELSE v.val[p]
      /\ u.live = v.live \ {x} /\ u.occ = v.occ - 1
      /\ \A field \in {"double", "fixed", "head", "tail", "cap", "frozen", "first",
                       "last", "bad"} : u[field] = v[field]
  <2>1. Apart(v, c, n, x)
    BY DEF Loose
  <2> QED
    BY <2>1, DestroyNodes
<1>2. /\ Apart(v, c, n, x) /\ Memory(v, f, m) /\ Typed(v) /\ x \in Slot /\ x \in v.live
      /\ n \in Nat /\ n <= MaxLen + 1 /\ v.occ = n + 1
      /\ \A k \in 1..n : c[k] \in Slot /\ c[k] # x
  <2>1. m \in Nat /\ v.occ + m <= MaxLen + 1 /\ MaxLen \in Nat
    BY ListAssumption DEF Loose, Memory, Distinct, Packed
  <2> QED
    BY <2>1 DEF Loose, Apart, Distinct
<1> HIDE DEF u
<1>3. Alike(v, c, u, c, n)
  BY <1>1, <1>2, SlotIsAddress DEF Alike, Typed
<1>4. CASE MayShrink(u)
  <2>1. Recycle(v, x) = Shrink(u) /\ ~Pinned(v) /\ ~u.bad
    BY <1>1, <1>4 DEF Recycle, Gone, u, MayShrink, Pinned
  <2>2. IF Dangling(u) THEN Shrink(u).bad
        ELSE /\ Listed(Shrink(u), Moving(n), n, <<>>, 0)
             /\ Shrink(u).frozen = u.frozen /\ Shrink(u).fixed = u.fixed
             /\ Shrink(u).double = u.double
             /\ \A k \in 1..n : Shrink(u).val[k] = u.val[c[k]]
    <3>1. Nodes(u, c, n) /\ n <= MaxLen + 1 /\ ~u.bad /\ MayShrink(u)
      BY <1>1, <1>2, <1>4, <2>1
    <3> QED
      BY <3>1, ShrinkListed
  <2>3. ~Dangling(u) => Alike(v, c, Shrink(u), Moving(n), n)
    BY <1>3, <2>2 DEF Alike, Moving
  <2>4. ~Dangling(u) => SameFlags(v, Shrink(u))
    BY <1>1, <2>2 DEF SameFlags
  <2> QED
    BY <2>1, <2>2, <2>3, <2>4
<1>5. CASE ~MayShrink(u)
  <2>1. Recycle(v, x) = w
    BY <1>5 DEF Recycle, Gone, u
  <2> DEFINE next == [[u.next EXCEPT ![v.last] = x] EXCEPT ![Null] = Null]
  <2>2. /\ w.next = next
        /\ w.first = (IF u.first = Null THEN x ELSE u.first) /\ w.last = x
        /\ DOMAIN w = DOMAIN u
        /\ \A field \in {"double", "fixed", "prev", "val", "head", "tail", "cap", "occ",
                         "frozen", "live", "bad"} : w[field] = u[field]
    BY <1>1 DEF Nodes, Typed
  <2> HIDE DEF w
  <2>3. /\ next \in [Address -> Address] /\ next[Null] = Null
        /\ \A p \in Slot : next[p] = IF p = v.last THEN x ELSE u.next[p]
    BY <1>1, <1>2, SlotIsAddress DEF Nodes, Typed
  <2> HIDE DEF next
  <2>4. Typed(w)
    BY <1>1, <1>2, <2>2, <2>3, SlotIsAddress DEF Nodes, Typed
  <2>5. \A p \in Slot : w.next[p] = IF p = v.last THEN x ELSE IF p = x THEN Null ELSE v.next[p]
    BY <1>1, <1>2, <2>2, <2>3, SlotIsAddress DEF Typed
  <2>6. Memory(w, Push(f, m, x), m + 1)
    BY <1>1, <1>2, <2>2, <2>5, PushMemory
  <2>7. ASSUME NEW k \in 1..n PROVE c[k] # v.last
    <3>1. v.last # Null => v.last \notin v.live
      BY <1>2 DEF Memory, Freed, At
    <3>2. c[k] \in v.live /\ c[k] # Null
      BY <1>2, SlotIsAddress DEF Apart
    <3> QED
      BY <3>1, <3>2
  <2>8. Nodes(w, c, n)
    <3>1. \A k \in 1..n : w.next[c[k]] = u.next[c[k]]
      BY <1>2, <2>2, <2>3, <2>7
    <3>2. Chained(w, c, n)
      BY <1>1, <2>2, <3>1 DEF Nodes, Chained
    <3> QED
      BY <1>1, <2>2, <2>4, <3>2 DEF Nodes
  <2>9. Alike(v, c, w, c, n)
    BY <1>3, <2>2 DEF Alike
  <2>10. Listed(w, c, n, Push(f, m, x), m + 1)
    BY <2>6, <2>8 DEF Listed
  <2>11. SameFlags(v, w) /\ ~w.bad /\ w.cap = v.cap /\ w.head = v.head
         /\ \A p \in Address : w.val[p] = IF p = x THEN None ELSE v.val[p]
    BY <1>1, <2>2 DEF SameFlags
  <2> QED
    BY <2>1, <2>9, <2>10, <2>11
<1> QED
  BY <1>4, <1>5

(***************************************************************************)
(* A list with some free list, and what an operation does to the memory.   *)
(***************************************************************************)
Shaped(v, c, n) == Nodes(v, c, n) /\ \E f, m : Memory(v, f, m)
Spare(v, c, n, x) == Apart(v, c, n, x) /\ \E f, m : Memory(v, f, m)

\* A shaped list that does not dangle.
Sound(v, c, n) == Shaped(v, c, n) /\ v.head = At(c, n, 1)

\* Nodes were added, or taken away, and no other one was touched.
Grown(v, w) ==
    /\ SameFlags(v, w) /\ w.bad = v.bad /\ w.cap = v.cap
    /\ v.live \subseteq w.live /\ \A p \in v.live : w.val[p] = v.val[p]
Shrunk(v, w) ==
    /\ SameFlags(v, w) /\ w.bad = v.bad /\ w.cap = v.cap
    /\ w.live \subseteq v.live /\ \A p \in w.live : w.val[p] = v.val[p]
Stays(v, w) == w.cap = v.cap /\ \A p \in v.live \cap w.live : w.val[p] = v.val[p]

\* Operations that add or take nodes and follow each other.
LEMMA StaysSteps ==
    ASSUME NEW u, NEW v, NEW w
    PROVE  /\ Grown(v, v) /\ Shrunk(v, v)
           /\ Grown(u, v) /\ Grown(v, w) => Grown(u, w)
           /\ Shrunk(u, v) /\ Shrunk(v, w) => Shrunk(u, w)
           /\ Grown(u, v) /\ Shrunk(v, w) => Stays(u, w)
           /\ Grown(u, v) => Stays(u, v)
           /\ Shrunk(u, v) => Stays(u, v)
           /\ Pinned(u) /\ (Grown(u, v) \/ Shrunk(u, v)) => Pinned(v)
<1>1. Grown(v, v) /\ Shrunk(v, v)
  BY DEF Grown, Shrunk, SameFlags
<1>2. Grown(u, v) /\ Grown(v, w) => Grown(u, w)
  BY DEF Grown, SameFlags
<1>3. Shrunk(u, v) /\ Shrunk(v, w) => Shrunk(u, w)
  BY DEF Shrunk, SameFlags
<1>4. Grown(u, v) /\ Shrunk(v, w) => Stays(u, w)
  BY DEF Grown, Shrunk, Stays
<1>5. (Grown(u, v) => Stays(u, v)) /\ (Shrunk(u, v) => Stays(u, v))
  BY DEF Grown, Shrunk, Stays
<1>6. Pinned(u) /\ (Grown(u, v) \/ Shrunk(u, v)) => Pinned(v)
  BY DEF Grown, Shrunk, Pinned, SameFlags
<1> QED
  BY <1>1, <1>2, <1>3, <1>4, <1>5, <1>6

\* Where the nodes are after one was put in or taken out.
LEMMA WithAt ==
    ASSUME NEW c, NEW x, NEW n \in Int, NEW m \in Int, NEW q \in Int, NEW k \in Int,
           n >= 0, n < m, m <= n + 1, q >= 1, q <= m
    PROVE  At(With(c, n, q, x), m, k) =
             IF k < q THEN At(c, n, k) ELSE IF k = q THEN x ELSE At(c, n, k - 1)
BY DEF At, With

\* The same where a node was taken out.
LEMMA LessAt ==
    ASSUME NEW c, NEW n \in Int, NEW m \in Int, NEW q \in Int, NEW k \in Int,
           m < n, n <= m + 1, q >= 1, q <= n
    PROVE  At(Less(c, n, q), m, k) = IF k < q THEN At(c, n, k) ELSE At(c, n, k + 1)
BY DEF At, Less

\* The links in the direction of an iterator, also beyond the ends.
LEMMA LinksOf ==
    ASSUME NEW v, NEW c, NEW n, Nodes(v, c, n) \/ (\E x : Apart(v, c, n, x)), NEW k \in Int
    PROVE  /\ n \in Nat /\ Typed(v)
           /\ k >= 1 => v.next[At(c, n, k)] = At(c, n, k + 1)
           /\ v.double /\ k <= n => v.prev[At(c, n, k)] = At(c, n, k - 1)
           /\ v.tail = At(c, n, n)
<1>1. Typed(v) /\ Distinct(c, n) /\ Chained(v, c, n)
  BY DEF Nodes, Apart
<1>2. n \in Nat /\ v.next[Null] = Null /\ v.prev[Null] = Null
  BY <1>1 DEF Typed, Distinct
<1>3. k >= 1 => v.next[At(c, n, k)] = At(c, n, k + 1)
  <2>1. CASE k \in 1..n
    BY <1>1, <2>1 DEF Chained, At
  <2>2. CASE k \notin 1..n
    BY <1>2, <2>2 DEF At
  <2> QED
    BY <2>1, <2>2
<1>4. v.double /\ k <= n => v.prev[At(c, n, k)] = At(c, n, k - 1)
  <2>1. CASE k \in 1..n
    BY <1>1, <2>1 DEF Chained, At
  <2>2. CASE k \notin 1..n
    BY <1>2, <2>2 DEF At
  <2> QED
    BY <2>1, <2>2
<1> QED
  BY <1>1, <1>2, <1>3, <1>4 DEF Chained

\* Linking a node, and taking one out, at a position of the chain.
LEMMA LinkShaped ==
    ASSUME NEW v, NEW c, NEW n, NEW x, Spare(v, c, n, x), NEW q \in 1..(n + 1)
    PROVE  LET w == Link(v, At(c, n, q - 1), x, At(c, n, q))
           IN  /\ Sound(w, With(c, n, q, x), n + 1)
               /\ Grown(v, w) /\ w.live = v.live /\ w.val = v.val
<1> DEFINE p == At(c, n, q - 1)
           y == At(c, n, q)
           w == Link(v, p, x, y)
           d == With(c, n, q, x)
<1>1. PICK f, m : Loose(v, c, n, f, m, x)
  BY DEF Spare, Loose
<1>2. Listed(w, d, n + 1, f, m)
  BY <1>1, LinkListed
<1>3. n \in Nat /\ p \in Address /\ y \in Address /\ x \in Slot /\ Typed(v)
  BY AtSlot DEF Spare, Apart, Distinct
<1> HIDE DEF p, y
<1>4. \A field \in {"double", "fixed", "val", "cap", "occ", "frozen", "first",
                    "last", "live", "bad"} : w[field] = v[field]
  BY <1>3, LinkTyped
<1> HIDE DEF w, d
<1>5. w.head = At(d, n + 1, 1)
  BY <1>2, <1>3 DEF Listed, Nodes, Chained, At
<1>6. Sound(w, d, n + 1)
  BY <1>2, <1>5 DEF Listed, Sound, Shaped
<1>7. Grown(v, w) /\ w.live = v.live /\ w.val = v.val
  BY <1>4 DEF Grown, SameFlags
<1> QED
  BY <1>6, <1>7 DEF w, d, p, y

\* Taking the node at a position out of the chain.
LEMMA UnlinkShaped ==
    ASSUME NEW v, NEW c, NEW n, Shaped(v, c, n), NEW q \in 1..n
    PROVE  LET w == Unlink(v, At(c, n, q - 1), At(c, n, q + 1))
           IN  /\ Spare(w, Less(c, n, q), n - 1, c[q])
               /\ w.head = At(Less(c, n, q), n - 1, 1)
               /\ Grown(v, w) /\ w.live = v.live /\ w.val = v.val
<1> DEFINE p == At(c, n, q - 1)
           y == At(c, n, q + 1)
           w == Unlink(v, p, y)
           d == Less(c, n, q)
<1>1. PICK f, m : Listed(v, c, n, f, m)
  BY DEF Shaped, Listed
<1>2. Loose(w, d, n - 1, f, m, c[q]) /\ (n = 1 => w.head = Null)
  BY <1>1, UnlinkLoose
<1>3. n \in Nat /\ p \in Address /\ y \in Address /\ Typed(v)
  BY AtSlot DEF Shaped, Nodes, Distinct
<1> HIDE DEF p, y
<1>4. \A field \in {"double", "fixed", "val", "cap", "occ", "frozen", "first",
                    "last", "live", "bad"} : w[field] = v[field]
  BY <1>3, UnlinkTyped
<1> HIDE DEF w, d
<1>5. w.head = At(d, n - 1, 1)
  BY <1>2, <1>3 DEF Loose, Apart, Chained, At
<1>6. Spare(w, d, n - 1, c[q])
  BY <1>2 DEF Loose, Spare
<1>7. Grown(v, w) /\ w.live = v.live /\ w.val = v.val
  BY <1>4 DEF Grown, SameFlags
<1> QED
  BY <1>5, <1>6, <1>7 DEF w, d, p, y

\* recycle() of a node that is apart.
LEMMA RecycleShaped ==
    ASSUME NEW v, NEW c, NEW n, NEW x, Spare(v, c, n, x), v.head = At(c, n, 1), ~v.bad
    PROVE  LET w == Recycle(v, x)
           IN  /\ Pinned(v) => Sound(w, c, n) /\ Shrunk(v, w)
               /\ ~w.bad => /\ SameFlags(v, w)
                            /\ \E d : Shaped(w, d, n) /\ Alike(v, c, w, d, n)
<1> DEFINE w == Recycle(v, x)
<1>1. PICK f, m : Loose(v, c, n, f, m, x)
  BY DEF Spare, Loose
<1>2. /\ Pinned(v) => /\ Listed(w, c, n, Push(f, m, x), m + 1)
                      /\ ~w.bad /\ w.cap = v.cap /\ w.head = v.head
                      /\ \A p \in Address : w.val[p] = IF p = x THEN None ELSE v.val[p]
      /\ ~w.bad => /\ SameFlags(v, w)
                   /\ \E d, g, k : Listed(w, d, n, g, k) /\ Alike(v, c, w, d, n)
  BY <1>1, RecycleListed
<1> HIDE DEF w
<1>3. ~w.bad => SameFlags(v, w) /\ \E d : Shaped(w, d, n) /\ Alike(v, c, w, d, n)
  BY <1>2 DEF Listed, Shaped
<1>4. ASSUME Pinned(v) PROVE Sound(w, c, n) /\ Shrunk(v, w)
  <2>1. Sound(w, c, n)
    BY <1>2, <1>4 DEF Listed, Sound, Shaped
  <2>2. /\ Apart(v, c, n, x) /\ Nodes(w, c, n)
        /\ v.live \subseteq Slot /\ w.live \subseteq Slot
    BY <2>1 DEF Sound, Shaped, Nodes, Spare, Apart, Typed
  <2>3. w.live \subseteq v.live /\ x \notin w.live
    BY <2>2 DEF Nodes, Apart
  <2>4. \A p \in w.live : w.val[p] = v.val[p]
    BY <1>2, <1>4, <2>2, <2>3, SlotIsAddress
  <2>5. SameFlags(v, w) /\ w.bad = v.bad /\ w.cap = v.cap
    <3>1. w.bad \in BOOLEAN /\ v.bad \in BOOLEAN
      BY <2>2 DEF Nodes, Apart, Typed
    <3> QED
      BY <1>2, <1>4, <3>1
  <2> QED
    BY <2>1, <2>3, <2>4, <2>5 DEF Shrunk
<1> QED
  BY <1>3, <1>4 DEF w

(***************************************************************************)
(* ListAllocator::create.                                                  *)
(***************************************************************************)
\* The view w is u with a node for the value at x.
Constructs(u, w, x, value) ==
    /\ DOMAIN w = DOMAIN u
    /\ w.next \in [Address -> Address] /\ w.prev \in [Address -> Address]
    /\ w.val \in [Address -> Values]
    /\ \A p \in Address : /\ w.next[p] = IF p = x THEN Null ELSE u.next[p]
                          /\ w.prev[p] = IF p = x THEN Null ELSE u.prev[p]
                          /\ w.val[p] = IF p = x THEN value ELSE u.val[p]
    /\ w.live = u.live \cup {x} /\ w.occ = u.occ + 1
    /\ w.first \in Address /\ w.last \in Address
    /\ w.double = u.double /\ w.fixed = u.fixed /\ w.frozen = u.frozen /\ w.bad = u.bad
    /\ w.head = u.head /\ w.tail = u.tail /\ w.cap = u.cap

\* A node that is constructed in a slot that was not in use is apart.
LEMMA ConstructApart ==
    ASSUME NEW u, NEW d, NEW n, Nodes(u, d, n), NEW x \in Slot, x \notin u.live,
           NEW value, NEW w, Constructs(u, w, x, value)
    PROVE  Apart(w, d, n, x) /\ Grown(u, w) /\ w.val[x] = value
<1>1. Typed(u) /\ Distinct(d, n) /\ Chained(u, d, n) /\ u.occ = n /\ n \in Nat
      /\ \A p \in Slot : p \in u.live <=> \E k \in 1..n : p = d[k]
  BY DEF Nodes, Distinct
<1>2. w.next[Null] = Null /\ w.prev[Null] = Null
  BY <1>1, SlotIsAddress DEF Typed, Constructs
<1>3. Typed(w)
  BY <1>1, <1>2 DEF Typed, Constructs, Slot
<1>4. \A k \in 1..n : d[k] \in Slot /\ d[k] # x
  BY <1>1 DEF Distinct
<1>5. \A p \in Slot : p # x =>
          w.next[p] = u.next[p] /\ w.prev[p] = u.prev[p] /\ w.val[p] = u.val[p]
  BY SlotIsAddress DEF Constructs
<1>6. Chained(w, d, n)
  BY <1>1, <1>4, <1>5 DEF Chained, Constructs
<1>7. w.val[x] = value
  BY SlotIsAddress DEF Constructs
<1>8. Grown(u, w)
  BY <1>1, <1>5 DEF Grown, SameFlags, Typed, Constructs
<1> QED
  BY <1>1, <1>3, <1>4, <1>6, <1>7, <1>8 DEF Apart, Constructs

\* The slot comes from the head of the free list.
LEMMA RestMemory ==
    ASSUME NEW v, NEW w, NEW f, NEW m, Memory(v, f, m), m > 0, Typed(v),
           w.live = v.live \cup {f[1]}, w.occ = v.occ + 1, w.cap = v.cap,
           \A p \in Slot : p # f[1] => w.next[p] = v.next[p],
           w.first = At(f, m, 2), w.last = IF m = 1 THEN Null ELSE v.last
    PROVE  Memory(w, Rest(f, m), m - 1)
<1> DEFINE g == Rest(f, m)
<1>1. /\ m \in Nat /\ 1 \in 1..m /\ m - 1 \in Nat
      /\ \A k \in 1..(m - 1) : k + 1 \in 1..m /\ g[k] = f[k + 1]
      /\ \A k \in 1..m : f[k] \in Slot /\ f[k] \notin v.live
      /\ \A i, j \in 1..m : f[i] = f[j] => i = j
      /\ v.last = f[m]
  BY DEF Memory, Distinct, Freed, Rest, At
<1>2. Distinct(g, m - 1)
  <2>1. g \in [1..(m - 1) -> Slot]
    BY <1>1 DEF Rest
  <2> HIDE DEF g
  <2>2. ASSUME NEW i \in 1..(m - 1), NEW j \in 1..(m - 1), g[i] = g[j] PROVE i = j
    <3>1. i + 1 = j + 1
      BY <1>1, <2>2
    <3> QED
      BY <1>1, <3>1
  <2> QED
    BY <1>1, <2>1, <2>2 DEF Distinct
<1>3. \A k \in Int : k >= 1 => At(g, m - 1, k) = At(f, m, k + 1)
  BY <1>1 DEF At
<1> HIDE DEF g
<1>4. ASSUME NEW k \in 1..(m - 1)
      PROVE  g[k] \notin w.live /\ w.next[g[k]] = At(g, m - 1, k + 1)
  <2>1. g[k] = f[k + 1] /\ f[k + 1] # f[1] /\ f[k + 1] \in Slot /\ f[k + 1] \notin v.live
    BY <1>1
  <2>2. v.next[f[k + 1]] = At(f, m, (k + 1) + 1)
    BY <1>1 DEF Memory, Freed
  <2> QED
    BY <1>1, <1>3, <2>1, <2>2
<1>5. w.first = At(g, m - 1, 1) /\ w.last = At(g, m - 1, m - 1)
  <2>1. w.first = At(g, m - 1, 1)
    BY <1>1, <1>3
  <2>2. w.last = At(g, m - 1, m - 1)
    BY <1>1 DEF At
  <2> QED
    BY <2>1, <2>2
<1>6. Packed(w, g, m - 1)
  <2>1. v.occ \in Nat
    BY DEF Typed
  <2>2. w.occ + (m - 1) = v.occ + m
    BY <1>1, <2>1
  <2>3. \A p : (\E k \in 1..m : p = f[k]) <=> p = f[1] \/ \E k \in 1..(m - 1) : p = g[k]
    <3>1. ASSUME NEW k \in 1..m, k # 1 PROVE k - 1 \in 1..(m - 1) /\ f[k] = g[k - 1]
      BY <1>1, <3>1
    <3> QED
      BY <1>1, <3>1
  <2>4. /\ \A p \in Slot : p \in 1..(v.occ + m) <=> p \in v.live \/ \E k \in 1..m : p = f[k]
        /\ v.occ + m <= v.cap /\ v.occ + m <= MaxLen + 1
    BY DEF Memory, Packed
  <2>5. ASSUME NEW p \in Slot
        PROVE  p \in 1..(v.occ + m) <=> p \in w.live \/ \E k \in 1..(m - 1) : p = g[k]
    BY <2>3, <2>4
  <2> QED
    BY <2>2, <2>4, <2>5 DEF Packed
<1> QED
  BY <1>2, <1>4, <1>5, <1>6 DEF Memory, Freed, g

\* It is the next slot of the array, when the free list is empty.
LEMMA NextMemory ==
    ASSUME NEW v, NEW w, NEW f, Memory(v, f, 0), Typed(v), v.occ < v.cap, v.occ <= MaxLen,
           w.live = v.live \cup {v.occ + 1}, w.occ = v.occ + 1, w.cap = v.cap,
           w.first = v.first, w.last = v.last
    PROVE  Memory(w, f, 0)
<1>1. v.occ \in Nat /\ v.cap \in Nat /\ MaxLen \in Nat
  BY ListAssumption DEF Typed
<1>2. \A p \in Slot : p \in 1..v.occ <=> p \in v.live
  BY <1>1 DEF Memory, Packed
<1>3. ASSUME NEW p \in Slot PROVE p \in 1..(v.occ + 1) <=> p \in w.live
  BY <1>1, <1>2 DEF Slot
<1> QED
  BY <1>1, <1>3 DEF Memory, Freed, Packed

\* What create() leaves of the view v with the chain c, when the nodes are now
\* those of d: the new node apart, or nothing new after an exception.
Created(v, c, n, r, d, value) ==
    /\ ~r.v.bad /\ SameFlags(v, r.v) /\ Alike(v, c, r.v, d, n)
    /\ v.head = At(c, n, 1) => r.v.head = At(d, n, 1)
    /\ IF r.node = Null THEN r.ret # None /\ Shaped(r.v, d, n)
       ELSE /\ r.ret = None /\ value # Wrong
            /\ Spare(r.v, d, n, r.node) /\ r.v.val[r.node] = value

\* create() takes the first free slot.
LEMMA CreateFromFree ==
    ASSUME NEW v, NEW c, NEW n, Shaped(v, c, n), ~v.bad, v.first # Null,
           NEW value \in Values
    PROVE  LET x == v.first
               rest == v.next[x]
               w == Made([Construct(v, x, value) EXCEPT
                            !.first = rest, !.last = IF rest = Null THEN Null ELSE @], x).v
           IN  /\ x \notin v.live /\ Spare(w, c, n, x) /\ Grown(v, w) /\ w.val[x] = value
               /\ w.head = v.head
<1> DEFINE x == v.first
           rest == v.next[x]
           b == Construct(v, x, value)
           e == [b EXCEPT !.first = rest, !.last = IF rest = Null THEN Null ELSE @]
           w == Made(e, x).v
<1>1. PICK f, m : Memory(v, f, m)
  BY DEF Shaped
<1>2. Nodes(v, c, n) /\ Typed(v)
  BY DEF Shaped, Nodes
<1>3. /\ m \in Nat /\ m > 0 /\ x = f[1] /\ x \in Slot /\ x \notin v.live
      /\ rest = At(f, m, 2) /\ rest \in Address
      /\ (rest = Null <=> m = 1)
  <2>1. m \in Nat /\ v.first = At(f, m, 1)
    BY <1>1 DEF Memory, Distinct, Freed
  <2>2. m > 0 /\ x = f[1] /\ 1 \in 1..m
    BY <2>1 DEF At
  <2>3. x \in Slot /\ x \notin v.live /\ rest = At(f, m, 1 + 1)
    BY <1>1, <2>2 DEF Memory, Distinct, Freed
  <2>4. rest = Null <=> m = 1
    BY <1>1, <2>1, <2>2, <2>3, SlotIsAddress DEF At, Memory, Distinct
  <2>5. rest \in Address
    BY <1>1, <2>3, AtSlot DEF Memory
  <2> QED
    BY <2>1, <2>2, <2>3, <2>4, <2>5
<1> HIDE DEF x, rest
<1>4. /\ DOMAIN b = DOMAIN v /\ b.next = [v.next EXCEPT ![x] = Null]
      /\ b.prev = [v.prev EXCEPT ![x] = Null] /\ b.val = [v.val EXCEPT ![x] = value]
      /\ b.live = v.live \cup {x}
      /\ \A field \in {"double", "fixed", "head", "tail", "cap", "frozen", "bad", "occ",
                       "first", "last"} : b[field] = v[field]
  BY <1>2 DEF Construct, Typed
<1> HIDE DEF b
<1>5. /\ DOMAIN e = DOMAIN v /\ e.first = rest
      /\ e.last = IF rest = Null THEN Null ELSE b.last
      /\ \A field \in {"double", "fixed", "head", "tail", "cap", "frozen", "bad", "occ",
                       "next", "prev", "val", "live"} : e[field] = b[field]
  BY <1>2, <1>4 DEF Typed
<1> HIDE DEF e
<1>6. /\ DOMAIN w = DOMAIN v /\ w.occ = e.occ + 1
      /\ \A field \in {"double", "fixed", "head", "tail", "cap", "frozen", "bad", "first",
                       "last", "next", "prev", "val", "live"} : w[field] = e[field]
  BY <1>2, <1>5 DEF Made, Typed
<1> HIDE DEF w
<1>7. /\ DOMAIN w = DOMAIN v /\ w.next = [v.next EXCEPT ![x] = Null]
      /\ w.prev = [v.prev EXCEPT ![x] = Null] /\ w.val = [v.val EXCEPT ![x] = value]
      /\ w.live = v.live \cup {x} /\ w.occ = v.occ + 1
      /\ w.first = rest /\ w.last = (IF m = 1 THEN Null ELSE v.last)
      /\ \A field \in {"double", "fixed", "head", "tail", "cap", "frozen", "bad"} :
             w[field] = v[field]
  BY <1>3, <1>4, <1>5, <1>6
<1>8. Constructs(v, w, x, value)
  <2>1. w.last \in Address
    BY <1>2, <1>7, SlotIsAddress DEF Typed
  <2>2. w.next \in [Address -> Address] /\ w.prev \in [Address -> Address]
    BY <1>2, <1>3, <1>7, SlotIsAddress DEF Typed
  <2>3. w.val \in [Address -> Values]
    BY <1>2, <1>3, <1>7, SlotIsAddress DEF Typed
  <2>4. \A p \in Address : /\ w.next[p] = IF p = x THEN Null ELSE v.next[p]
                           /\ w.prev[p] = IF p = x THEN Null ELSE v.prev[p]
                           /\ w.val[p] = IF p = x THEN value ELSE v.val[p]
    BY <1>2, <1>3, <1>7, SlotIsAddress DEF Typed
  <2> QED
    BY <1>3, <1>7, <2>1, <2>2, <2>3, <2>4 DEF Constructs
<1>9. Apart(w, c, n, x) /\ Grown(v, w) /\ w.val[x] = value
  BY <1>2, <1>3, <1>8, ConstructApart
<1>10. \A p \in Slot : p # f[1] => w.next[p] = v.next[p]
  BY <1>2, <1>3, <1>7, SlotIsAddress DEF Typed
<1>11. Memory(w, Rest(f, m), m - 1)
  BY <1>1, <1>2, <1>3, <1>7, <1>10, RestMemory
<1> QED
  BY <1>3, <1>7, <1>9, <1>11 DEF Spare, w, e, b, x, rest

\* create() takes the next slot of the array.
LEMMA CreateFromArray ==
    ASSUME NEW v, NEW c, NEW n, NEW f, Listed(v, c, n, f, 0), ~v.bad, n < v.cap, n <= MaxLen,
           NEW value \in Values
    PROVE  LET x == v.occ + 1
               w == Made(Construct(v, x, value), x).v
           IN  /\ x # Null /\ x \notin v.live /\ Spare(w, c, n, x) /\ Grown(v, w)
               /\ w.val[x] = value /\ w.head = v.head
<1> DEFINE x == v.occ + 1
           b == Construct(v, x, value)
           w == Made(b, x).v
<1>1. /\ Nodes(v, c, n) /\ Typed(v) /\ Memory(v, f, 0) /\ v.occ = n /\ n \in Nat
      /\ Slots \in Nat /\ MaxLen \in Nat /\ MaxLen < Slots
  BY ListAssumption, AllocatorAssumption DEF Listed, Nodes, Distinct
<1>2. x \in Slot /\ x # Null /\ x \notin v.live
  <2>1. x \in Slot /\ x # Null
    BY <1>1 DEF Slot, Null
  <2>2. x \notin 1..(v.occ + 0) /\ \A k \in 1..0 : FALSE
    BY <1>1
  <2> QED
    BY <1>1, <2>1, <2>2 DEF Memory, Packed
<1> HIDE DEF x
<1>3. /\ DOMAIN b = DOMAIN v /\ b.next = [v.next EXCEPT ![x] = Null]
      /\ b.prev = [v.prev EXCEPT ![x] = Null] /\ b.val = [v.val EXCEPT ![x] = value]
      /\ b.live = v.live \cup {x}
      /\ \A field \in {"double", "fixed", "head", "tail", "cap", "frozen", "bad", "occ",
                       "first", "last"} : b[field] = v[field]
  BY <1>1 DEF Construct, Typed
<1> HIDE DEF b
<1>4. /\ DOMAIN w = DOMAIN v /\ w.occ = b.occ + 1
      /\ \A field \in {"double", "fixed", "head", "tail", "cap", "frozen", "bad", "first",
                       "last", "next", "prev", "val", "live"} : w[field] = b[field]
  BY <1>1, <1>3 DEF Made, Typed
<1> HIDE DEF w
<1>5. w.first \in Address /\ w.last \in Address
  BY <1>1, <1>3, <1>4 DEF Typed
<1>6. Apart(w, c, n, x) /\ Grown(v, w) /\ w.val[x] = value
  <2>1. /\ DOMAIN w = DOMAIN v /\ w.next = [v.next EXCEPT ![x] = Null]
        /\ w.prev = [v.prev EXCEPT ![x] = Null] /\ w.val = [v.val EXCEPT ![x] = value]
        /\ w.live = v.live \cup {x} /\ w.occ = v.occ + 1
        /\ \A field \in {"double", "fixed", "head", "tail", "cap", "frozen", "bad"} :
               w[field] = v[field]
    BY <1>3, <1>4
  <2>2. w.next \in [Address -> Address] /\ w.prev \in [Address -> Address]
    BY <1>1, <1>2, <2>1, SlotIsAddress DEF Typed
  <2>3. w.val \in [Address -> Values]
    BY <1>1, <1>2, <2>1, SlotIsAddress DEF Typed
  <2>4. \A p \in Address : /\ w.next[p] = IF p = x THEN Null ELSE v.next[p]
                           /\ w.prev[p] = IF p = x THEN Null ELSE v.prev[p]
                           /\ w.val[p] = IF p = x THEN value ELSE v.val[p]
    BY <1>1, <1>2, <2>1, SlotIsAddress DEF Typed
  <2>5. Constructs(v, w, x, value)
    BY <1>5, <2>1, <2>2, <2>3, <2>4 DEF Constructs
  <2> QED
    BY <1>1, <1>2, <2>5, ConstructApart
<1>7. Memory(w, f, 0)
  BY <1>1, <1>3, <1>4, NextMemory DEF x
<1> QED
  BY <1>2, <1>3, <1>4, <1>6, <1>7 DEF Spare, w, b, x

\* Adding a node leaves the nodes of the chain their values.
LEMMA GrownAlike ==
    ASSUME NEW v, NEW c, NEW n, Nodes(v, c, n), NEW w, Grown(v, w)
    PROVE  Alike(v, c, w, c, n)
BY DEF Nodes, Distinct, Grown, Alike

\* The array of a full list moves to one twice as large.
LEMMA CreateMoves ==
    ASSUME NEW v, NEW c, NEW n, Shaped(v, c, n), n <= MaxLen, ~v.bad, Full(v)
    PROVE  LET w == Resize(v, 2 * v.cap)
           IN  /\ Listed(w, Moving(n), n, <<>>, 0) /\ ~w.bad /\ SameFlags(v, w)
               /\ Alike(v, c, w, Moving(n), n) /\ w.cap = 2 * v.cap /\ n < w.cap
               /\ w.cap # v.cap /\ w.head = At(Moving(n), n, 1)
<1>1. Nodes(v, c, n) /\ Typed(v) /\ n \in Nat /\ n > 0 /\ v.occ = n /\ v.cap = n
      /\ MaxLen \in Nat
  BY ListAssumption DEF Shaped, Nodes, Distinct, Typed, Full
<1>2. ~Dangling(v)
  <2>1. v.head = c[1] /\ c[1] \in v.live
    BY <1>1 DEF Nodes, Chained, Distinct
  <2> QED
    BY <2>1 DEF Dangling
<1> DEFINE w == Resize(v, 2 * v.cap)
<1>3. /\ Listed(w, Moving(n), n, <<>>, 0) /\ w.cap = 2 * v.cap /\ ~w.bad
      /\ w.frozen = v.frozen /\ w.fixed = v.fixed /\ w.double = v.double
      /\ \A k \in 1..n : w.val[k] = v.val[c[k]]
  <2>1. 2 * v.cap \in Nat \ {0} /\ n <= 2 * v.cap /\ n <= MaxLen + 1
    BY <1>1
  <2> QED
    BY <1>1, <1>2, <2>1, ResizeListed
<1> HIDE DEF w
<1>4. w.head = At(Moving(n), n, 1)
  BY <1>1, <1>3 DEF Listed, Nodes, Chained, At
<1> QED
  BY <1>1, <1>3, <1>4 DEF SameFlags, Alike, Moving, w

\* create(), on an array that stays or moves.
LEMMA CreateShaped ==
    ASSUME NEW v, NEW c, NEW n, Shaped(v, c, n), n <= MaxLen, ~v.bad,
           NEW value \in Values \cup {Wrong}
    PROVE  LET r == Create(v, value)
           IN  /\ \E d : Created(v, c, n, r, d, value)
               /\ Pinned(v) \/ ~Moved(v, r.v) =>
                     /\ Created(v, c, n, r, c, value) /\ Grown(v, r.v) /\ r.v.head = v.head
                     /\ IF r.node = Null THEN r.v = v ELSE r.node \notin v.live
<1> DEFINE r == Create(v, value)
<1>1. /\ Nodes(v, c, n) /\ Typed(v) /\ n \in Nat /\ v.occ = n /\ v.cap \in Nat \ {0}
      /\ Null \notin Slot /\ Wrong \notin Values
  BY ListAssumption, SlotIsAddress DEF Shaped, Nodes, Distinct, Typed, Values
<1>2. Alike(v, c, v, c, n) /\ Grown(v, v) /\ SameFlags(v, v)
  BY StaysSteps DEF Alike, SameFlags
<1>3. ASSUME NEW error, error # None, r = Failed(v, error)
      PROVE  /\ Created(v, c, n, r, c, value) /\ Grown(v, r.v) /\ r.v = v /\ r.node = Null
  BY <1>2, <1>3 DEF Created, Failed
<1>4. CASE v.first # Null
  <2> DEFINE x == v.first
             rest == v.next[x]
             w == Made([Construct(v, x, value) EXCEPT
                          !.first = rest, !.last = IF rest = Null THEN Null ELSE @], x)
  <2>1. r = IF value = Wrong THEN Failed(v, "TypeError") ELSE w
    BY <1>4 DEF Create, FromFreeList
  <2>2. CASE value = Wrong
    BY <1>3, <2>1, <2>2 DEF None
  <2>3. CASE value # Wrong
    <3>1. /\ x \notin v.live /\ Spare(w.v, c, n, x) /\ Grown(v, w.v) /\ w.v.val[x] = value
          /\ w.v.head = v.head
      BY <1>4, <2>3, CreateFromFree
    <3>2. w.node = x /\ w.ret = None
      BY DEF Made
    <3> HIDE DEF w, x
    <3>3. r = w
      BY <2>1, <2>3
    <3>4. x # Null
      BY <1>1, <3>1 DEF Spare, Apart
    <3>5. Alike(v, c, w.v, c, n)
      BY <1>1, <3>1, GrownAlike
    <3>6. ~w.v.bad /\ SameFlags(v, w.v)
      BY <3>1 DEF Grown
    <3> QED
      BY <2>3, <3>1, <3>2, <3>3, <3>4, <3>5, <3>6 DEF Created
  <2> QED
    BY <2>2, <2>3
<1>5. CASE v.first = Null /\ Full(v) /\ Pinned(v)
  <2>1. r = Failed(v, "MemoryError")
    BY <1>5 DEF Create, Pinned
  <2> QED
    BY <1>3, <2>1 DEF None
<1>6. CASE v.first = Null /\ Full(v) /\ ~Pinned(v)
  <2> DEFINE u == Resize(v, 2 * v.cap)
             d == Moving(n)
             x == u.occ + 1
             w == Made(Construct(u, x, value), x)
  <2>1. r = IF value = Wrong THEN Failed(u, "TypeError") ELSE w
    BY <1>6 DEF Create, FromArray, Pinned
  <2>2. /\ Listed(u, d, n, <<>>, 0) /\ ~u.bad /\ SameFlags(v, u) /\ Alike(v, c, u, d, n)
        /\ n < u.cap /\ u.cap # v.cap /\ u.head = At(d, n, 1)
    BY <1>6, CreateMoves
  <2> HIDE DEF u, d
  <2>3. CASE value = Wrong
    <3>1. r.v = u /\ r.node = Null /\ r.ret # None
      BY <2>1, <2>3 DEF Failed, None
    <3>2. Shaped(u, d, n)
      BY <2>2 DEF Listed, Shaped
    <3>3. Created(v, c, n, r, d, value)
      BY <2>2, <3>1, <3>2 DEF Created
    <3> QED
      BY <1>6, <2>2, <3>1, <3>3 DEF Moved
  <2>4. CASE value # Wrong
    <3>1. /\ x # Null /\ Spare(w.v, d, n, x) /\ Grown(u, w.v) /\ w.v.val[x] = value
          /\ w.v.head = u.head
      BY <2>2, <2>4, CreateFromArray
    <3>2. w.node = x /\ w.ret = None
      BY DEF Made
    <3>3. r = w
      BY <2>1, <2>4
    <3> HIDE DEF w, x
    <3>4. ~w.v.bad /\ SameFlags(v, w.v) /\ w.v.cap # v.cap
      BY <2>2, <3>1 DEF Grown, SameFlags
    <3>5. Alike(v, c, w.v, d, n)
      <4>1. Alike(u, d, w.v, d, n)
        BY <2>2, <3>1, GrownAlike DEF Listed
      <4> QED
        BY <2>2, <4>1 DEF Alike
    <3>6. Created(v, c, n, r, d, value)
      BY <2>2, <2>4, <3>1, <3>2, <3>3, <3>4, <3>5 DEF Created
    <3> QED
      BY <1>6, <3>3, <3>4, <3>6 DEF Moved
  <2> QED
    BY <2>3, <2>4
<1>7. CASE v.first = Null /\ ~Full(v)
  <2> DEFINE x == v.occ + 1
             w == Made(Construct(v, x, value), x)
  <2>1. r = IF value = Wrong THEN Failed(v, "TypeError") ELSE w
    BY <1>7 DEF Create, FromArray
  <2>2. CASE value = Wrong
    BY <1>3, <2>1, <2>2 DEF None
  <2>3. CASE value # Wrong
    <3>1. PICK f, m : Memory(v, f, m)
      BY DEF Shaped
    <3>2. m = 0 /\ v.occ <= v.cap
      BY <1>1, <1>7, <3>1 DEF Memory, Distinct, Freed, Packed, At
    <3>3. Listed(v, c, n, f, 0) /\ n < v.cap
      BY <1>1, <1>7, <3>1, <3>2 DEF Listed, Full
    <3>4. /\ x # Null /\ x \notin v.live /\ Spare(w.v, c, n, x) /\ Grown(v, w.v)
          /\ w.v.val[x] = value /\ w.v.head = v.head
      BY <2>3, <3>3, CreateFromArray
    <3>5. w.node = x /\ w.ret = None
      BY DEF Made
    <3>6. r = w
      BY <2>1, <2>3
    <3> HIDE DEF w, x
    <3>7. Alike(v, c, w.v, c, n)
      BY <1>1, <3>4, GrownAlike
    <3>8. ~w.v.bad /\ SameFlags(v, w.v)
      BY <3>4 DEF Grown
    <3> QED
      BY <2>3, <3>4, <3>5, <3>6, <3>7, <3>8 DEF Created
  <2> QED
    BY <2>2, <2>3
<1> QED
  BY <1>4, <1>5, <1>6, <1>7

(***************************************************************************)
(* Iterators.  An iterator stands q nodes from the end it walks from.      *)
(***************************************************************************)
Place(back, n, q) == IF back THEN n + 1 - q ELSE q
Seen(c, n, back, q) == At(c, n, Place(back, n, q))

Around(back, c, n, k) ==
    [back |-> back, prev |-> At(c, n, k - 1), curr |-> At(c, n, k), next |-> At(c, n, k + 1)]

Stands(it, back, c, n, q) ==
    back \in BOOLEAN /\ it = Around(back, c, n, Place(back, n, q))

\* begin() and rbegin()
LEMMA BeginStands ==
    ASSUME NEW v, NEW c, NEW n, Nodes(v, c, n)
    PROVE  /\ v.head = At(c, n, 1) => Stands(Begin(v), FALSE, c, n, 1)
           /\ v.double => Stands(RBegin(v), TRUE, c, n, 1)
<1>1. /\ n \in Nat /\ v.next[At(c, n, 1)] = At(c, n, 2) /\ v.tail = At(c, n, n)
      /\ v.double => v.prev[At(c, n, n)] = At(c, n, n - 1)
  <2>1. n \in Int
    BY DEF Nodes, Distinct
  <2> QED
    BY <2>1, LinksOf
<1>2. /\ At(c, n, 1 - 1) = Null /\ At(c, n, n + 1) = Null
      /\ At(c, n, 1 + 1) = At(c, n, 2) /\ Place(FALSE, n, 1) = 1 /\ Place(TRUE, n, 1) = n
  BY <1>1 DEF At, Place
<1>3. v.head = At(c, n, 1) => Begin(v) = Around(FALSE, c, n, 1)
  BY <1>1, <1>2 DEF Begin, Around
<1>4. v.double => RBegin(v) = Around(TRUE, c, n, n)
  BY <1>1, <1>2 DEF RBegin, Around
<1> QED
  BY <1>2, <1>3, <1>4 DEF Stands

\* operator++
LEMMA AdvanceStands ==
    ASSUME NEW v, NEW c, NEW n, Nodes(v, c, n), NEW it, NEW back, NEW q \in Nat \ {0},
           Stands(it, back, c, n, q), back => v.double
    PROVE  Stands(Advance(v, it), back, c, n, q + 1)
<1>1. n \in Nat /\ back \in BOOLEAN
  BY DEF Nodes, Distinct, Stands
<1>2. CASE back = TRUE
  <2>1. PICK k \in Int : k = n + 1 - q
    BY <1>1
  <2>2. k - 1 <= n /\ Place(TRUE, n, q) = k /\ Place(TRUE, n, q + 1) = k - 1 /\ (k - 1) + 1 = k
    BY <1>1, <2>1 DEF Place
  <2>3. v.prev[At(c, n, k - 1)] = At(c, n, (k - 1) - 1)
    BY <1>2, <2>2, LinksOf
  <2>4. it = Around(TRUE, c, n, k)
    BY <1>2, <2>2 DEF Stands
  <2>5. Advance(v, it) = Around(TRUE, c, n, k - 1)
    BY <2>2, <2>3, <2>4 DEF Advance, Around
  <2> QED
    BY <1>2, <2>2, <2>5 DEF Stands
<1>3. CASE back = FALSE
  <2>1. q + 1 >= 1 /\ Place(FALSE, n, q) = q /\ Place(FALSE, n, q + 1) = q + 1 /\ (q + 1) - 1 = q
    BY DEF Place
  <2>2. v.next[At(c, n, q + 1)] = At(c, n, (q + 1) + 1)
    BY <2>1, LinksOf
  <2>3. it = Around(FALSE, c, n, q)
    BY <1>3, <2>1 DEF Stands
  <2>4. Advance(v, it) = Around(FALSE, c, n, q + 1)
    BY <2>1, <2>2, <2>3 DEF Advance, Around
  <2> QED
    BY <1>3, <2>1, <2>4 DEF Stands
<1> QED
  BY <1>1, <1>2, <1>3

\* The loop of an iterator that is advanced, one step at a time.
LEMMA AdvanceBySteps ==
    ASSUME NEW n \in Nat, NEW v, NEW it
    PROVE  \E walk : /\ AdvanceBy(v, it, n) = walk[n] /\ walk[0] = it
                     /\ \A k \in 1..n : walk[k] = Advance(v, walk[k - 1])
<1> DEFINE Runs(m, f) == f = [k \in 0..m |-> IF k = 0 THEN it ELSE Advance(v, f[k - 1])]
           Good == {m \in Nat : \E f : Runs(m, f)}
<1>1. 0 \in Good
  <2> DEFINE f == [k \in 0..0 |-> it]
  <2>1. Runs(0, f)
    OBVIOUS
  <2> QED
    BY <2>1
<1>2. ASSUME NEW m \in 0..n, m \in Good PROVE m + 1 \in Good
  <2>1. PICK f : Runs(m, f)
    BY <1>2
  <2> DEFINE g == [k \in 0..(m + 1) |-> IF k <= m THEN f[k] ELSE Advance(v, f[m])]
  <2>2. ASSUME NEW k \in 0..(m + 1)
        PROVE  g[k] = IF k = 0 THEN it ELSE Advance(v, g[k - 1])
    BY <2>1
  <2>3. Runs(m + 1, g)
    BY <2>2
  <2> HIDE DEF Runs, g
  <2>4. \E h : Runs(m + 1, h)
    BY <2>3
  <2> QED
    BY <2>4
<1>3. n \in Good
  <2> HIDE DEF Good
  <2>1. \A k \in 0..n : k \in Good
    BY <1>1, <1>2, Climb
  <2> QED
    BY <2>1
<1> DEFINE walk == CHOOSE f : Runs(n, f)
<1>4. Runs(n, walk)
  <2> HIDE DEF Runs
  <2>1. \E f : Runs(n, f)
    BY <1>3
  <2> QED
    BY <2>1
<1>5. AdvanceBy(v, it, n) = walk[n]
  BY DEF AdvanceBy
<1> HIDE DEF walk
<1>6. walk[0] = it /\ \A k \in 1..n : walk[k] = Advance(v, walk[k - 1])
  BY <1>4
<1> QED
  BY <1>5, <1>6

\* An iterator that is advanced t times.
LEMMA AdvanceByStands ==
    ASSUME NEW v, NEW c, NEW n, Nodes(v, c, n), NEW it, NEW back, NEW q \in Nat \ {0},
           NEW t \in Nat, Stands(it, back, c, n, q), back => v.double
    PROVE  Stands(AdvanceBy(v, it, t), back, c, n, q + t)
<1>1. PICK walk : /\ AdvanceBy(v, it, t) = walk[t] /\ walk[0] = it
                  /\ \A k \in 1..t : walk[k] = Advance(v, walk[k - 1])
  BY AdvanceBySteps
<1> DEFINE S == {k \in 0..t : Stands(walk[k], back, c, n, q + k)}
<1>2. 0 \in S
  BY <1>1
<1>3. ASSUME NEW k \in 0..t, k < t, k \in S PROVE k + 1 \in S
  <2>1. walk[k + 1] = Advance(v, walk[k])
    BY <1>1, <1>3
  <2>2. q + k \in Nat \ {0} /\ (q + k) + 1 = q + (k + 1)
    OBVIOUS
  <2>3. Stands(walk[k + 1], back, c, n, (q + k) + 1)
    BY <1>3, <2>1, <2>2, AdvanceStands
  <2> QED
    BY <1>3, <2>2, <2>3
<1> HIDE DEF S
<1>4. \A k \in 0..t : k \in S
  BY <1>2, <1>3, Climb
<1> QED
  BY <1>1, <1>4 DEF S

\* One that is advanced from an end of the list.
LEMMA BeginByStands ==
    ASSUME NEW v, NEW c, NEW n, Nodes(v, c, n), NEW t \in Nat
    PROVE  /\ v.head = At(c, n, 1) => Stands(AdvanceBy(v, Begin(v), t), FALSE, c, n, t + 1)
           /\ v.double => Stands(AdvanceBy(v, RBegin(v), t), TRUE, c, n, t + 1)
<1>1. ASSUME NEW it, NEW back, Stands(it, back, c, n, 1), back => v.double
      PROVE  Stands(AdvanceBy(v, it, t), back, c, n, t + 1)
  <2>1. 1 \in Nat \ {0} /\ 1 + t = t + 1
    OBVIOUS
  <2>2. Stands(AdvanceBy(v, it, t), back, c, n, 1 + t)
    BY <1>1, <2>1, AdvanceByStands
  <2> QED
    BY <2>1, <2>2
<1> QED
  BY <1>1, BeginStands

\* The iterator of insert (last = size) and of the others (last = size - 1).
LEMMA IteratorStands ==
    ASSUME NEW v, NEW c, NEW n, Nodes(v, c, n), NEW last \in {n - 1, n}, NEW index \in 0..last,
           v.head = At(c, n, 1) \/ IteratorAt(v, index, last).back
    PROVE  \E back :
             /\ back => v.double
             /\ Stands(IteratorAt(v, index, last), back, c, n,
                       IF back THEN last - index + 1 ELSE index + 1)
<1>1. n \in Nat /\ last \in Int /\ index \in Nat /\ last - index \in Nat
  BY DEF Nodes, Distinct
<1>2. CASE v.double /\ CloserToTail(v, index)
  <2>1. IteratorAt(v, index, last) = AdvanceBy(v, RBegin(v), last - index)
    BY <1>2 DEF IteratorAt
  <2>2. PICK t \in Nat : t = last - index
    BY <1>1
  <2>3. Stands(AdvanceBy(v, RBegin(v), t), TRUE, c, n, t + 1)
    BY <1>2, BeginByStands
  <2>4. t + 1 = last - index + 1
    BY <1>1, <2>2
  <2> QED
    BY <1>2, <2>1, <2>2, <2>3, <2>4
<1>3. CASE ~(v.double /\ CloserToTail(v, index))
  <2>1. IteratorAt(v, index, last) = AdvanceBy(v, Begin(v), index)
    BY <1>3 DEF IteratorAt
  <2>2. ~AdvanceBy(v, Begin(v), index).back
    <3>1. PICK walk : /\ AdvanceBy(v, Begin(v), index) = walk[index] /\ walk[0] = Begin(v)
                      /\ \A k \in 1..index : walk[k] = Advance(v, walk[k - 1])
      BY <1>1, AdvanceBySteps
    <3> DEFINE Forward(it) == "back" \in DOMAIN it /\ it.back = FALSE
               S == {k \in 0..index : Forward(walk[k])}
    <3>2. 0 \in S
      BY <1>1, <3>1 DEF Begin
    <3>3. ASSUME NEW k \in 0..index, k < index, k \in S PROVE k + 1 \in S
      <4>1. walk[k + 1] = Advance(v, walk[k])
        BY <1>1, <3>1, <3>3
      <4>2. Forward(walk[k + 1])
        BY <3>3, <4>1 DEF Advance
      <4> QED
        BY <1>1, <3>3, <4>2
    <3> HIDE DEF S
    <3>4. \A k \in 0..index : k \in S
      BY <1>1, <3>2, <3>3, Climb
    <3>5. Forward(walk[index])
      BY <1>1, <3>4 DEF S
    <3> QED
      BY <3>1, <3>5
  <2>3. Stands(AdvanceBy(v, Begin(v), index), FALSE, c, n, index + 1)
    <3>1. v.head = At(c, n, 1)
      BY <2>1, <2>2
    <3> QED
      BY <1>1, <3>1, BeginByStands
  <2> QED
    BY <2>1, <2>3
<1> QED
  BY <1>2, <1>3

\* The chain without the node at which an iterator stands, and with a node
\* that it inserts.
LEMMA SeenLess ==
    ASSUME NEW c, NEW n \in Nat, NEW back \in BOOLEAN, NEW q \in 1..n, NEW j \in Int
    PROVE  LET p == Place(back, n, q)
           IN  /\ p \in 1..n
               /\ Seen(Less(c, n, p), n - 1, back, j) =
                    IF j < q THEN Seen(c, n, back, j) ELSE Seen(c, n, back, j + 1)
<1> DEFINE p == Place(back, n, q)
           k == Place(back, n - 1, j)
<1>1. p \in 1..n /\ k \in Int
  BY DEF Place
<1> HIDE DEF k, p
<1>2. At(Less(c, n, p), n - 1, k) = IF k < p THEN At(c, n, k) ELSE At(c, n, k + 1)
  BY <1>1, LessAt
<1>3. /\ j < q => (IF k < p THEN k ELSE k + 1) = Place(back, n, j)
      /\ j >= q => (IF k < p THEN k ELSE k + 1) = Place(back, n, j + 1)
  BY <1>1 DEF Place, k, p
<1> QED
  BY <1>1, <1>2, <1>3 DEF Seen, k, p

\* What an iterator meets in a chain with one more node.
LEMMA SeenWith ==
    ASSUME NEW c, NEW n \in Nat, NEW back \in BOOLEAN, NEW q \in 1..(n + 1), NEW x, NEW j \in Int
    PROVE  LET p == Place(back, n + 1, q)
           IN  /\ p \in 1..(n + 1)
               /\ Seen(With(c, n, p, x), n + 1, back, j) =
                    IF j < q THEN Seen(c, n, back, j)
                    ELSE IF j = q THEN x ELSE Seen(c, n, back, j - 1)
<1> DEFINE p == Place(back, n + 1, q)
           k == Place(back, n + 1, j)
<1>1. p \in 1..(n + 1) /\ k \in Int
  BY DEF Place
<1> HIDE DEF k, p
<1>2. At(With(c, n, p, x), n + 1, k) =
        IF k < p THEN At(c, n, k) ELSE IF k = p THEN x ELSE At(c, n, k - 1)
  BY <1>1, WithAt
<1>3. /\ j < q => k # p /\ (IF k < p THEN k ELSE k - 1) = Place(back, n, j)
      /\ j = q => k = p
      /\ j > q => k # p /\ (IF k < p THEN k ELSE k - 1) = Place(back, n, j - 1)
  BY <1>1 DEF Place, k, p
<1> QED
  BY <1>1, <1>2, <1>3 DEF Seen, k, p

LinksAt(v, c, n, k) ==
    /\ k >= 1 => v.next[At(c, n, k)] = At(c, n, k + 1)
    /\ v.double /\ k <= n => v.prev[At(c, n, k)] = At(c, n, k - 1)

\* The links of a chain that a node is apart from.
LEMMA ApartLinks ==
    ASSUME NEW v, NEW c, NEW x, NEW n, NEW k \in Int, Apart(v, c, n, x)
    PROVE  LinksAt(v, c, n, k)
<1>1. \E y : Apart(v, c, n, y)
  OBVIOUS
<1>2. k >= 1 => v.next[At(c, n, k)] = At(c, n, k + 1)
  BY <1>1, LinksOf
<1>3. v.double /\ k <= n => v.prev[At(c, n, k)] = At(c, n, k - 1)
  BY <1>1, LinksOf
<1> QED
  BY <1>2, <1>3 DEF LinksAt

\* Iterator::drop takes its node out and stands at the next one.
LEMMA DropStands ==
    ASSUME NEW v, NEW c, NEW n, Shaped(v, c, n), NEW it, NEW back, NEW q \in 1..n,
           Stands(it, back, c, n, q), back => v.double
    PROVE  LET p == Place(back, n, q)
               u == UnlinkAt(v, it)
               d == Less(c, n, p)
           IN  /\ p \in 1..n /\ it.curr = c[p]
               /\ Spare(u, d, n - 1, c[p]) /\ u.head = At(d, n - 1, 1)
               /\ Grown(v, u) /\ u.live = v.live /\ u.val = v.val
               /\ Stands(AfterDrop(u, it), back, d, n - 1, q)
<1> DEFINE p == Place(back, n, q)
           d == Less(c, n, p)
           u == UnlinkAt(v, it)
<1>1. n \in Nat /\ n - 1 \in Nat /\ q \in Nat /\ p \in 1..n /\ back \in BOOLEAN
      /\ p - 1 \in Int /\ p + 1 \in Int /\ (p - 1) + 1 = p /\ (p + 1) - 1 = p
  BY DEF Shaped, Nodes, Distinct, Stands, Place
<1>2. /\ it = [back |-> back, prev |-> At(c, n, p - 1), curr |-> At(c, n, p),
               next |-> At(c, n, p + 1)]
      /\ At(c, n, p) = c[p]
  BY <1>1 DEF Stands, Around, At
<1>3. \A k \in Int : At(d, n - 1, k) = IF k < p THEN At(c, n, k) ELSE At(c, n, k + 1)
  <2> HIDE DEF p
  <2> QED
    BY <1>1, LessAt
<1>4. /\ Spare(u, d, n - 1, c[p]) /\ u.head = At(d, n - 1, 1)
      /\ Grown(v, u) /\ u.live = v.live /\ u.val = v.val
  <2>1. u = Unlink(v, At(c, n, p - 1), At(c, n, p + 1))
    BY <1>2 DEF UnlinkAt
  <2> HIDE DEF u, p
  <2> QED
    BY <1>1, <2>1, UnlinkShaped
<1>5. /\ p >= 1 => u.next[At(d, n - 1, p)] = At(d, n - 1, p + 1)
      /\ u.double /\ p - 1 <= n - 1 => u.prev[At(d, n - 1, p - 1)] = At(d, n - 1, (p - 1) - 1)
  <2> HIDE DEF u, p, d
  <2>1. PICK m \in Nat, k \in Int : m = n - 1 /\ k = p - 1
    BY <1>1
  <2>2. Apart(u, d, m, c[p])
    BY <1>4, <2>1 DEF Spare
  <2>3. p \in Int
    BY <1>1
  <2>4. LinksAt(u, d, m, p) /\ LinksAt(u, d, m, k)
    BY <2>2, <2>3, ApartLinks
  <2> QED
    BY <2>1, <2>4 DEF LinksAt
<1>6. u.double = v.double
  BY <1>4 DEF Grown, SameFlags
<1> HIDE DEF u, d, p
<1>9. p - 1 < p /\ p + 1 > p /\ ~(p < p) /\ ~(p + 1 < p) /\ p - 1 <= n - 1 /\ p >= 1
  BY <1>1 DEF p
<1>10. /\ At(d, n - 1, p - 1) = At(c, n, p - 1) /\ At(d, n - 1, p) = At(c, n, p + 1)
  BY <1>1, <1>3, <1>9
<1>7. ASSUME back PROVE Stands(AfterDrop(u, it), back, d, n - 1, q)
  <2>1. Place(back, n - 1, q) = p - 1
    BY <1>1, <1>7 DEF Place, p
  <2>2. AfterDrop(u, it) = [back |-> back, prev |-> u.prev[At(c, n, p - 1)],
                            curr |-> At(c, n, p - 1), next |-> At(c, n, p + 1)]
    BY <1>2, <1>7 DEF AfterDrop
  <2>3. AfterDrop(u, it) = Around(back, d, n - 1, p - 1)
    BY <1>1, <1>5, <1>6, <1>7, <1>9, <1>10, <2>2 DEF Around
  <2>4. AfterDrop(u, it) = Around(back, d, n - 1, Place(back, n - 1, q))
    BY <2>1, <2>3
  <2> QED
    BY <1>1, <2>4 DEF Stands
<1>8. ASSUME ~back PROVE Stands(AfterDrop(u, it), back, d, n - 1, q)
  <2>1. Place(back, n - 1, q) = p
    BY <1>8 DEF Place, p
  <2>2. AfterDrop(u, it) = [back |-> back, prev |-> At(c, n, p - 1),
                            curr |-> At(c, n, p + 1), next |-> u.next[At(c, n, p + 1)]]
    BY <1>2, <1>8 DEF AfterDrop
  <2>3. AfterDrop(u, it) = Around(back, d, n - 1, p)
    BY <1>1, <1>5, <1>9, <1>10, <2>2 DEF Around
  <2>4. AfterDrop(u, it) = Around(back, d, n - 1, Place(back, n - 1, q))
    BY <2>1, <2>3
  <2> QED
    BY <1>1, <2>4 DEF Stands
<1> QED
  BY <1>1, <1>2, <1>4, <1>7, <1>8 DEF u, d, p

\* Iterator::insert puts a node in and stands at it.
LEMMA InsertStands ==
    ASSUME NEW v, NEW c, NEW n, NEW x, Spare(v, c, n, x), NEW it, NEW back, NEW q \in 1..(n + 1),
           Stands(it, back, c, n, q)
    PROVE  LET p == Place(back, n + 1, q)
               w == LinkAt(v, it, x)
               d == With(c, n, p, x)
           IN  /\ p \in 1..(n + 1)
               /\ Sound(w, d, n + 1) /\ Grown(v, w) /\ w.live = v.live /\ w.val = v.val
               /\ Stands(AfterInsert(it, x), back, d, n + 1, q)
<1> DEFINE p == Place(back, n + 1, q)
           d == With(c, n, p, x)
           w == LinkAt(v, it, x)
           k == Place(back, n, q)
<1>1. n \in Nat /\ n + 1 \in Nat /\ q \in Nat /\ p \in 1..(n + 1) /\ back \in BOOLEAN
      /\ p - 1 \in Int /\ p + 1 \in Int /\ (p + 1) - 1 = p /\ (p - 1) + 1 = p
      /\ k = IF back THEN p - 1 ELSE p
  <2>1. n \in Nat /\ back \in BOOLEAN
    BY DEF Spare, Apart, Distinct, Stands
  <2>2. q \in Nat /\ q >= 1 /\ q <= n + 1
    BY <2>1
  <2>3. p = IF back THEN n + 2 - q ELSE q
    BY <2>1, <2>2 DEF Place
  <2>4. k = IF back THEN n + 1 - q ELSE q
    BY <2>1, <2>2 DEF Place
  <2> HIDE DEF p, k
  <2> QED
    BY <2>1, <2>2, <2>3, <2>4
<1>2. it = [back |-> back, prev |-> At(c, n, k - 1), curr |-> At(c, n, k),
            next |-> At(c, n, k + 1)]
  BY DEF Stands, Around
<1>3. \A j \in Int : At(d, n + 1, j) =
        IF j < p THEN At(c, n, j) ELSE IF j = p THEN x ELSE At(c, n, j - 1)
  <2> HIDE DEF p
  <2>1. ASSUME NEW j \in Int
        PROVE  At(With(c, n, p, x), n + 1, j) =
                 IF j < p THEN At(c, n, j) ELSE IF j = p THEN x ELSE At(c, n, j - 1)
    BY <1>1, WithAt
  <2> QED
    BY <2>1
<1> HIDE DEF k, d
<1>4. w = Link(v, At(c, n, p - 1), x, At(c, n, p))
  <2> HIDE DEF p
  <2> QED
    BY <1>1, <1>2 DEF LinkAt
<1>5. Sound(w, d, n + 1) /\ Grown(v, w) /\ w.live = v.live /\ w.val = v.val
  <2> HIDE DEF w, p
  <2> QED
    BY <1>1, <1>4, LinkShaped DEF d
<1> HIDE DEF p
<1>8. p \in Int /\ p - 1 < p /\ p + 1 > p /\ p + 1 # p /\ ~(p < p) /\ ~(p + 1 < p)
  BY <1>1
<1>9. /\ At(d, n + 1, p - 1) = At(c, n, p - 1) /\ At(d, n + 1, p) = x
      /\ At(d, n + 1, p + 1) = At(c, n, p)
  BY <1>1, <1>3, <1>8
<1>6. ASSUME back PROVE Stands(AfterInsert(it, x), back, d, n + 1, q)
  <2>1. AfterInsert(it, x) = [back |-> back, prev |-> At(c, n, k), curr |-> x,
                              next |-> At(c, n, k + 1)]
    BY <1>2, <1>6 DEF AfterInsert
  <2>2. AfterInsert(it, x) = Around(back, d, n + 1, p)
    BY <1>1, <1>6, <1>9, <2>1 DEF Around
  <2>3. AfterInsert(it, x) = Around(back, d, n + 1, Place(back, n + 1, q))
    BY <2>2 DEF p
  <2> QED
    BY <1>1, <2>3 DEF Stands
<1>7. ASSUME ~back PROVE Stands(AfterInsert(it, x), back, d, n + 1, q)
  <2>1. AfterInsert(it, x) = [back |-> back, prev |-> At(c, n, k - 1), curr |-> x,
                              next |-> At(c, n, k)]
    BY <1>2, <1>7 DEF AfterInsert
  <2>2. AfterInsert(it, x) = Around(back, d, n + 1, p)
    BY <1>1, <1>7, <1>9, <2>1 DEF Around
  <2>3. AfterInsert(it, x) = Around(back, d, n + 1, Place(back, n + 1, q))
    BY <2>2 DEF p
  <2> QED
    BY <1>1, <2>3 DEF Stands
<1> QED
  BY <1>1, <1>5, <1>6, <1>7 DEF w, d, p

(***************************************************************************)
(* Guards: reserve() and the end of a MemGuard.                            *)
(***************************************************************************)
Freezes(v, b) == [v EXCEPT !.frozen = b]

\* Freezing an array changes nothing else.
LEMMA FreezesFields ==
    ASSUME NEW v, NEW b, Typed(v)
    PROVE  LET w == Freezes(v, b)
           IN  /\ DOMAIN w = DOMAIN v /\ w.frozen = b
               /\ w.double = v.double /\ w.fixed = v.fixed /\ w.next = v.next /\ w.prev = v.prev
               /\ w.val = v.val /\ w.head = v.head /\ w.tail = v.tail /\ w.cap = v.cap
               /\ w.occ = v.occ /\ w.first = v.first /\ w.last = v.last /\ w.live = v.live
               /\ w.bad = v.bad
BY DEF Typed, Freezes

\* It keeps the shape of the list.
LEMMA FreezesShaped ==
    ASSUME NEW v, NEW c, NEW n, NEW b, b \in BOOLEAN, Shaped(v, c, n)
    PROVE  /\ Shaped(Freezes(v, b), c, n) /\ Alike(v, c, Freezes(v, b), c, n)
           /\ Freezes(v, b).head = v.head /\ Freezes(v, b).bad = v.bad
           /\ Freezes(v, b).double = v.double /\ Freezes(v, b).fixed = v.fixed
           /\ Freezes(v, b).frozen = b /\ Freezes(v, b).live = v.live
<1> DEFINE w == Freezes(v, b)
<1>1. Nodes(v, c, n) /\ Typed(v)
  BY DEF Shaped, Nodes
<1>2. /\ DOMAIN w = DOMAIN v /\ w.frozen = b
      /\ w.double = v.double /\ w.fixed = v.fixed /\ w.next = v.next /\ w.prev = v.prev
      /\ w.val = v.val /\ w.head = v.head /\ w.tail = v.tail /\ w.cap = v.cap
      /\ w.occ = v.occ /\ w.first = v.first /\ w.last = v.last /\ w.live = v.live
      /\ w.bad = v.bad
  BY <1>1, FreezesFields
<1> HIDE DEF w
<1>3. Typed(w)
  BY <1>1, <1>2 DEF Typed
<1>4. Nodes(w, c, n)
  BY <1>1, <1>2, <1>3 DEF Nodes, Chained
<1>5. PICK f, m : Memory(v, f, m)
  BY DEF Shaped
<1>6. Memory(w, f, m)
  BY <1>2, <1>5, MemoryStays
<1>7. Shaped(w, c, n) /\ Alike(v, c, w, c, n)
  BY <1>2, <1>4, <1>6 DEF Shaped, Alike
<1> QED
  BY <1>2, <1>7 DEF w

\* What reserve() leaves of a list.
Reserved(v, c, n, r) ==
    /\ r.ret # None => r.v = v /\ ~r.guard
    /\ Pinned(v) => r.v = v /\ ~r.guard
    /\ r.guard \in BOOLEAN
    /\ r.ret = None => (r.guard <=> ~Pinned(v))
    /\ ~Dangling(v) => ~r.v.bad
    /\ ~r.v.bad /\ r.ret = None =>
          /\ Pinned(r.v) /\ r.v.double = v.double
          /\ \E d : Shaped(r.v, d, n) /\ Alike(v, c, r.v, d, n)

\* A list whose head is its first node does not dangle.
LEMMA SoundAttached ==
    ASSUME NEW v, NEW c, NEW n, Sound(v, c, n)
    PROVE  ~Dangling(v)
<1>1. Nodes(v, c, n) /\ v.head = At(c, n, 1) /\ n \in Nat
  BY DEF Sound, Shaped, Nodes, Distinct
<1>2. CASE n = 0
  BY <1>1, <1>2 DEF At, Dangling
<1>3. CASE n # 0
  <2>1. v.head = c[1] /\ c[1] \in Slot
    BY <1>1, <1>3 DEF At, Nodes, Distinct
  <2>2. c[1] \in v.live
    BY <1>1, <1>3, <2>1 DEF Nodes
  <2> QED
    BY <2>1, <2>2 DEF Dangling
<1> QED
  BY <1>2, <1>3

\* Only the head of an empty list can dangle.
LEMMA AttachedSound ==
    ASSUME NEW v, NEW c, NEW n, Shaped(v, c, n)
    PROVE  /\ ~Dangling(v) => Sound(v, c, n)
           /\ n > 0 => ~Dangling(v)
<1>1. Nodes(v, c, n) /\ n \in Nat
  BY DEF Shaped, Nodes, Distinct
<1>2. CASE n = 0
  <2>1. v.live = {}
    BY <1>1, <1>2 DEF Nodes, Typed
  <2> QED
    BY <1>2, <2>1 DEF Dangling, Sound, At
<1>3. CASE n > 0
  <2>1. v.head = At(c, n, 1)
    BY <1>1, <1>3 DEF Nodes, Chained, At
  <2> QED
    BY <1>3, <2>1, SoundAttached DEF Sound
<1> QED
  BY <1>1, <1>2, <1>3

\* A list that moved to the first slots of a new array.
LEMMA ResizeShaped ==
    ASSUME NEW v, NEW c, NEW n, Shaped(v, c, n), NEW capacity \in Nat \ {0},
           n <= capacity, n <= MaxLen + 1, ~v.bad
    PROVE  LET w == Resize(v, capacity)
           IN  IF Dangling(v) THEN w.bad
               ELSE /\ Shaped(w, Moving(n), n) /\ Alike(v, c, w, Moving(n), n)
                    /\ SameFlags(v, w) /\ w.cap = capacity /\ ~w.bad
                    /\ n > 0 => w.head = At(Moving(n), n, 1)
<1> DEFINE w == Resize(v, capacity)
<1>1. Nodes(v, c, n) /\ n \in Nat
  BY DEF Shaped, Nodes, Distinct
<1>2. IF Dangling(v) THEN w.bad
      ELSE /\ Listed(w, Moving(n), n, <<>>, 0)
           /\ w.cap = capacity /\ ~w.bad
           /\ w.frozen = v.frozen /\ w.fixed = v.fixed /\ w.double = v.double
           /\ \A k \in 1..n : w.val[k] = v.val[c[k]]
  BY <1>1, ResizeListed
<1> HIDE DEF w
<1>3. ~Dangling(v) => Shaped(w, Moving(n), n) /\ Nodes(w, Moving(n), n)
  BY <1>2 DEF Shaped, Listed
<1>4. ~Dangling(v) => Alike(v, c, w, Moving(n), n)
  BY <1>2 DEF Alike, Moving
<1>5. ~Dangling(v) /\ n > 0 => w.head = At(Moving(n), n, 1)
  BY <1>1, <1>3 DEF Nodes, Chained, At
<1> QED
  BY <1>2, <1>3, <1>4, <1>5 DEF w, SameFlags

\* reserve()
LEMMA ReserveShaped ==
    ASSUME NEW v, NEW c, NEW n, Shaped(v, c, n), n <= MaxLen, ~v.bad, NEW k \in Nat
    PROVE  Reserved(v, c, n, Reserve(v, k)) /\ (Reserve(v, k).ret = None => n <= k)
<1> DEFINE r == Reserve(v, k)
           more == NextPowerOfTwo(k)
           w == IF more > v.cap THEN Resize(v, more) ELSE v
<1>1. Nodes(v, c, n) /\ Typed(v) /\ n \in Nat /\ v.occ = n /\ v.cap \in Nat \ {0} /\ n <= v.cap
  <2>1. PICK f, m : Memory(v, f, m)
    BY DEF Shaped
  <2> QED
    BY <2>1 DEF Shaped, Nodes, Distinct, Typed, Memory, Packed
<1> SUFFICES Reserved(v, c, n, r) /\ (r.ret = None => n <= k)
  OBVIOUS
<1>2. more \in Nat
  BY PowerEnough
<1>3. CASE n > k
  <2>1. r = [v |-> v, ret |-> "ValueError", guard |-> FALSE]
    BY <1>1, <1>3 DEF Reserve
  <2>2. r.v = v /\ r.ret # None /\ r.guard = FALSE
    BY <2>1 DEF None
  <2> HIDE DEF r
  <2> QED
    BY <2>2 DEF Reserved
<1>4. CASE n <= k /\ Pinned(v) /\ k > v.cap
  <2>1. r = [v |-> v, ret |-> "MemoryError", guard |-> FALSE]
    BY <1>1, <1>4 DEF Reserve, Pinned
  <2>2. r.v = v /\ r.ret # None /\ r.guard = FALSE
    BY <2>1 DEF None
  <2> HIDE DEF r
  <2> QED
    BY <1>4, <2>2 DEF Reserved
<1>5. CASE n <= k /\ Pinned(v) /\ k <= v.cap
  <2>1. r = [v |-> v, ret |-> None, guard |-> FALSE]
    BY <1>1, <1>5 DEF Reserve, Pinned
  <2>2. Alike(v, c, v, c, n)
    BY DEF Alike
  <2>3. r.v = v /\ r.ret = None /\ r.guard = FALSE
    BY <2>1
  <2> HIDE DEF r
  <2> QED
    BY <1>5, <2>2, <2>3 DEF Reserved
<1>6. CASE n <= k /\ ~Pinned(v)
  <2> DEFINE u == Freezes(w, TRUE)
  <2>1. r = [v |-> u, ret |-> None, guard |-> TRUE]
    BY <1>1, <1>6 DEF Reserve, Pinned, Freezes
  <2>4. r.v = u /\ r.ret = None /\ r.guard = TRUE
    BY <2>1
  <2> HIDE DEF r
  <2>2. CASE more > v.cap
    <3>1. /\ more \in Nat \ {0} /\ n <= more /\ n <= MaxLen + 1 /\ w = Resize(v, more)
      BY <1>1, <1>2, <2>2, ListAssumption
    <3> HIDE DEF more, w
    <3>2. CASE Dangling(v)
      <4>1. w = Broken(v)
        BY <3>1, <3>2 DEF Resize
      <4>2. u.bad
        BY <1>1, <4>1 DEF Broken, Freezes, Typed
      <4> QED
        BY <1>6, <2>4, <3>2, <4>2 DEF Reserved
    <3>3. CASE ~Dangling(v)
      <4>1. /\ Shaped(w, Moving(n), n) /\ Alike(v, c, w, Moving(n), n)
            /\ SameFlags(v, w) /\ ~w.bad
        BY <3>1, <3>3, ResizeShaped
      <4>2. /\ Shaped(u, Moving(n), n) /\ Alike(w, Moving(n), u, Moving(n), n)
            /\ u.bad = w.bad /\ u.double = w.double /\ u.frozen = TRUE
        BY <4>1, FreezesShaped
      <4> HIDE DEF u
      <4>3. Alike(v, c, u, Moving(n), n)
        BY <4>1, <4>2 DEF Alike
      <4>4. Pinned(u) /\ u.double = v.double /\ ~u.bad
        BY <4>1, <4>2 DEF Pinned, SameFlags
      <4> QED
        BY <1>6, <2>4, <4>2, <4>3, <4>4 DEF Reserved
    <3> QED
      BY <3>2, <3>3
  <2>3. CASE ~(more > v.cap)
    <3>1. w = v
      BY <2>3
    <3> HIDE DEF w
    <3>2. /\ Shaped(u, c, n) /\ Alike(v, c, u, c, n)
          /\ u.bad = v.bad /\ u.double = v.double /\ u.frozen = TRUE
      BY <3>1, FreezesShaped DEF u
    <3> HIDE DEF u
    <3>3. Pinned(u) /\ ~u.bad
      BY <3>2 DEF Pinned
    <3> QED
      BY <1>6, <2>4, <3>2, <3>3 DEF Reserved
  <2> QED
    BY <2>2, <2>3
<1> QED
  BY <1>1, <1>3, <1>4, <1>5, <1>6

\* What the end of a guard leaves of it.
LEMMA ReleaseShaped ==
    ASSUME NEW v, NEW c, NEW n, Shaped(v, c, n), n <= MaxLen + 1, ~v.bad, NEW b, b \in BOOLEAN
    PROVE  LET w == Release(v, b)
           IN  /\ ~b => w = v
               /\ ~Dangling(v) => ~w.bad
               /\ ~w.bad => /\ b => ~w.frozen
                            /\ \E d : Shaped(w, d, n) /\ Alike(v, c, w, d, n)
<1> DEFINE w == Release(v, b)
           u == Freezes(v, FALSE)
<1>1. CASE ~b
  <2>1. w = v /\ Alike(v, c, v, c, n)
    BY <1>1 DEF Release, Alike
  <2> QED
    BY <1>1, <2>1
<1>2. CASE b
  <2>1. w = Shrink(u)
    BY <1>2 DEF Release, Freezes
  <2>2. /\ Shaped(u, c, n) /\ Alike(v, c, u, c, n) /\ u.head = v.head /\ u.live = v.live
        /\ ~u.bad /\ u.frozen = FALSE
    BY FreezesShaped
  <2>3. Nodes(u, c, n) /\ n \in Nat
    BY <2>2 DEF Shaped, Nodes, Distinct
  <2>4. Dangling(u) <=> Dangling(v)
    BY <2>2 DEF Dangling
  <2> HIDE DEF u
  <2>5. CASE MayShrink(u)
    <3>1. IF Dangling(u) THEN w.bad
          ELSE /\ Listed(w, Moving(n), n, <<>>, 0)
               /\ ~w.bad /\ w.frozen = u.frozen
               /\ \A k \in 1..n : w.val[k] = u.val[c[k]]
      BY <2>1, <2>2, <2>3, <2>5, ShrinkListed
    <3> HIDE DEF w
    <3>2. ~Dangling(u) => Shaped(w, Moving(n), n)
      BY <3>1 DEF Shaped, Listed
    <3>3. ~Dangling(u) => Alike(v, c, w, Moving(n), n)
      BY <2>2, <3>1 DEF Alike, Moving
    <3>4. ~w.bad => ~Dangling(u) /\ ~w.frozen
      BY <2>2, <3>1
    <3>5. ~Dangling(v) => ~w.bad
      BY <2>4, <3>1
    <3> QED
      BY <1>2, <3>2, <3>3, <3>4, <3>5 DEF w
  <2>6. CASE ~MayShrink(u)
    <3>1. w = u
      BY <2>1, <2>6 DEF Shrink
    <3> QED
      BY <1>2, <2>2, <3>1
  <2> QED
    BY <2>5, <2>6
<1> QED
  BY <1>1, <1>2
=============================================================================
