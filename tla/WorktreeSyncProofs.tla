------------------------- MODULE WorktreeSyncProofs -------------------------
(***************************************************************************)
(* What WorktreeSync promises for any branches, paths, hook processes and  *)
(* number of events: its types; that a sync whose snapshots are still true *)
(* takes nothing away; that when a sync has ended and nothing else has     *)
(* happened since it began, every branch has a worktree or its place is    *)
(* taken; and that only failures leave empty directories in the way.       *)
(***************************************************************************)
EXTENDS WorktreeSync, TLAPS, FiniteSetTheorems

(***************************************************************************)
(* The invariant: a sync is a record whose sets are of branches, and of    *)
(* pairs of branches in the phase of the renames.                          *)
(***************************************************************************)
Phases == {"rename", "destroy", "create", "stale", "move", "missing"}

Syncs ==
    [pc : {"idle", "current", "branches"} \cup Phases,
     cur : [Branches -> Branches \cup {None}],
     want : SUBSET Branches,
     created : SUBSET Branches,
     destroyed : SUBSET Branches,
     renamed : SUBSET (Branches \X Branches),
     todo : SUBSET (Branches \cup (Branches \X Branches)),
     calm : BOOLEAN,
     child : Hooks \cup {None}]

TodoOK(k) ==
    /\ k.pc = "rename" => k.todo \subseteq Branches \X Branches
    /\ k.pc \in Phases \ {"rename"} => k.todo \subseteq Branches

SyncOK(k) == k \in Syncs /\ TodoOK(k)

HooksOK(s) == s \in [Hooks -> Syncs] /\ \A h \in Hooks : SyncOK(s[h])

\* The places and the directories.
PlacesOK(t, d) ==
    /\ t \in [Branches -> Trees \cup {None}]
    /\ d \subseteq Branches
    /\ \A p \in d : ~Present(t, p)

SyncInv ==
    /\ refs \subseteq Branches
    /\ PlacesOK(trees, dirs)
    /\ HooksOK(sync)

\* What a command leaves.
Outcomes(o) ==
    /\ PlacesOK(o.trees, o.dirs)
    /\ o.refs \subseteq Branches
    /\ o.ok \in BOOLEAN
    /\ o.ran = None \/ o.ran \subseteq Branches

-----------------------------------------------------------------------------
(* The file system and git.                                                *)

LEMMA PhaseNames ==
    /\ Phases = {SyncPhases[n] : n \in 1..6}
    /\ \A n \in 1..6 : SyncPhases[n] \in Phases
    /\ \A n \in 1..6 : SyncPhases[n] = "rename" <=> n = 1
  BY DEF Phases, SyncPhases

\* A place at which there is something is one of the branches' places.
LEMMA ThereIsAPlace ==
    ASSUME NEW t, NEW d, d \subseteq Branches, NEW p, There(t, d, p)
    PROVE  p \in Branches
  BY WorktreeAssumption DEF There, AtOrIn, In

\* mkdir() makes directories only where nothing is.
LEMMA ParentsAreNew ==
    ASSUME NEW t, NEW d, PlacesOK(t, d), NEW p
    PROVE  PlacesOK(t, MakeParents(t, d, p))
  BY DEF PlacesOK, MakeParents, Parents, There, AtOrIn

LEMMA CleaningRemoves ==
    ASSUME NEW t, NEW d, NEW p
    PROVE  CleanParents(t, d, p) \subseteq d
  BY DEF CleanParents

LEMMA LeftTyped ==
    ASSUME SyncInv, NEW t, NEW d, PlacesOK(t, d), NEW ok \in BOOLEAN
    PROVE  Outcomes(Left(t, d, ok))
<1> DEFINE o == Left(t, d, ok)
<1>1. o.trees = t /\ o.dirs = d /\ o.refs = refs /\ o.ok = ok /\ o.ran = None
  BY DEF Left
<1> HIDE DEF o
<1>2. Outcomes(o)
  BY <1>1 DEF Outcomes, SyncInv
<1> QED BY <1>2 DEF o

LEMMA NothingTyped ==
    ASSUME SyncInv
    PROVE  Outcomes(Nothing)
  BY LeftTyped DEF SyncInv, Nothing

\* Worktree.move()
LEMMA MovedTyped ==
    ASSUME SyncInv, NEW p, NEW q
    PROVE  Outcomes(Moved(p, q))
<1> DEFINE above == MakeParents(trees, dirs, q)
           after == Carried(p, q)
           left == CleanParents(after, above \ AtOrIn(p), p)
<1>1. PlacesOK(trees, dirs) /\ refs \subseteq Branches
  BY DEF SyncInv
<1>2. PlacesOK(trees, above)
  BY <1>1, ParentsAreNew
<1>3. ASSUME There(trees, dirs, p), p # q, ~There(trees, dirs, q)
      PROVE  PlacesOK(after, left)
  <2>1. p \in Branches
    BY <1>1, <1>3, ThereIsAPlace DEF PlacesOK
  <2>2. after \in [Branches -> Trees \cup {None}]
    BY <1>1, <2>1 DEF after, Carried, PlacesOK, Trees
  <2>3. left \subseteq above \ AtOrIn(p)
    BY CleaningRemoves
  <2>4. ASSUME NEW r \in left PROVE ~Present(after, r)
    <3>1. r \in above /\ r \in Branches /\ r # p /\ ~Present(trees, r)
      BY <2>3, <1>2, <2>1 DEF PlacesOK, AtOrIn
    <3>2. r # q
      BY <3>1, <1>3, WorktreeAssumption DEF above, MakeParents, Parents, In, There
    <3>3. after[r] = IF In(r, p) /\ trees[r] # None
                     THEN [trees[r] EXCEPT !.gone = TRUE] ELSE trees[r]
      BY <3>1, <3>2 DEF after, Carried
    <3>4. CASE In(r, p) /\ trees[r] # None
      <4>1. trees[r] \in Trees
        BY <3>1, <3>4, <1>1 DEF PlacesOK
      <4>2. after[r].gone = TRUE
        BY <4>1, <3>3, <3>4 DEF Trees
      <4> QED BY <4>2 DEF Present
    <3>5. CASE ~(In(r, p) /\ trees[r] # None)
      BY <3>5, <3>3, <3>1 DEF Present
    <3> QED BY <3>4, <3>5
  <2>5. left \subseteq Branches
    BY <2>3, <1>2 DEF PlacesOK
  <2> HIDE DEF after, left, above
  <2> QED BY <2>2, <2>4, <2>5 DEF PlacesOK
<1>4. CASE ~There(trees, dirs, p)
  BY <1>4, NothingTyped DEF Moved, MovedIf
<1>5. CASE There(trees, dirs, p) /\ p = q
  BY <1>5, <1>1, LeftTyped DEF Moved, MovedIf
<1>6. CASE There(trees, dirs, p) /\ p # q /\ There(trees, dirs, q)
  BY <1>6, NothingTyped DEF Moved, MovedIf
<1>7. CASE There(trees, dirs, p) /\ p # q /\ ~There(trees, dirs, q)
  <2>1. \/ Moved(p, q) = Left(after, left, TRUE)
        \/ Moved(p, q) = Left(trees, above, FALSE)
    BY <1>7 DEF Moved, MovedIf
  <2>2. PlacesOK(after, left)
    BY <1>3, <1>7
  <2> HIDE DEF after, left, above
  <2> QED BY <2>1, <2>2, <1>1, <1>2, LeftTyped
<1> QED BY <1>4, <1>5, <1>6, <1>7

\* Worktree.destroy()
LEMMA DestroyedTyped ==
    ASSUME SyncInv, NEW p
    PROVE  Outcomes(Destroyed(p))
<1> DEFINE after == [trees EXCEPT ![p] = None]
           left == CleanParents(after, dirs, p)
<1>1. PlacesOK(trees, dirs) /\ refs \subseteq Branches
  BY DEF SyncInv
<1>2. PlacesOK(after, left)
  <2>1. left \subseteq dirs
    BY CleaningRemoves
  <2>2. after \in [Branches -> Trees \cup {None}]
    BY <1>1 DEF PlacesOK
  <2>3. ASSUME NEW r \in left PROVE ~Present(after, r)
    <3>1. r \in Branches /\ ~Present(trees, r)
      BY <2>1, <1>1 DEF PlacesOK
    <3>2. after[r] \in {trees[r], None}
      BY <3>1, <1>1 DEF PlacesOK
    <3> QED BY <3>1, <3>2 DEF Present
  <2> HIDE DEF after, left
  <2> QED BY <2>1, <2>2, <2>3, <1>1 DEF PlacesOK
<1>3. Destroyed(p) = Left(after, left, TRUE) \/ Destroyed(p) = Nothing
  BY DEF Destroyed
<1> HIDE DEF after, left
<1> QED BY <1>1, <1>2, <1>3, NothingTyped, LeftTyped

\* create_worktree()
LEMMA CreatedTyped ==
    ASSUME SyncInv, NEW b \in Branches, NEW create \in BOOLEAN
    PROVE  Outcomes(Created(b, create))
<1> DEFINE above == MakeParents(trees, dirs, b)
           after == [trees EXCEPT ![b] = Fresh(b)]
           done == [Left(after, above, TRUE) EXCEPT
                      !.refs = refs \cup {b}, !.ran = IF b \notin refs THEN {b} ELSE {}]
<1>1. PlacesOK(trees, dirs) /\ refs \subseteq Branches
  BY DEF SyncInv
<1>2. PlacesOK(trees, above)
  BY <1>1, ParentsAreNew
<1>3. ASSUME ~There(trees, dirs, b)
      PROVE  PlacesOK(after, above)
  <2>1. b \notin above
    BY <1>3, WorktreeAssumption DEF above, MakeParents, Parents, In, There
  <2>2. Fresh(b) \in Trees
    BY DEF Fresh, Trees
  <2> HIDE DEF above
  <2> QED BY <2>1, <2>2, <1>2 DEF PlacesOK, Present
<1>4. ASSUME ~There(trees, dirs, b)
      PROVE  Outcomes(done)
  <2>1. PlacesOK(after, above)
    BY <1>3, <1>4
  <2>2. /\ done.trees = after /\ done.dirs = above /\ done.ok = TRUE
        /\ done.refs = refs \cup {b}
        /\ done.ran \in {{b}, {}}
    BY DEF Left
  <2> HIDE DEF after, above, done
  <2> QED BY <2>1, <2>2, <1>1 DEF Outcomes
<1>5. \/ Created(b, create) = Nothing
      \/ ~There(trees, dirs, b) /\ Created(b, create) = done
      \/ Created(b, create) = Left(trees, above, FALSE)
  BY DEF Created
<1> HIDE DEF above, after, done
<1> QED BY <1>1, <1>2, <1>4, <1>5, NothingTyped, LeftTyped

-----------------------------------------------------------------------------
(* A sync.                                                                 *)

LEMMA IdleTyped == SyncOK(Idle) /\ Idle.pc = "idle"
  BY WorktreeAssumption DEF SyncOK, Syncs, TodoOK, Idle, Phases

LEMMA DueTyped ==
    ASSUME NEW k \in Syncs, NEW phase \in Phases
    PROVE  /\ phase = "rename" => Due(k, phase) \subseteq Branches \X Branches
           /\ phase # "rename" => Due(k, phase) \subseteq Branches
  BY DEF Syncs, Phases, Due

\* A new phase, with what is due in it.
LEMMA PhaseTyped ==
    ASSUME NEW k \in Syncs, NEW phase \in Phases
    PROVE  SyncOK([k EXCEPT !.pc = phase, !.todo = Due(k, phase)])
<1> DEFINE due == Due(k, phase)
           new == [k EXCEPT !.pc = phase, !.todo = due]
<1>1. /\ phase = "rename" => due \subseteq Branches \X Branches
      /\ phase # "rename" => due \subseteq Branches
  BY DueTyped
<1> HIDE DEF due
<1>2. new \in Syncs
  BY <1>1 DEF Syncs
<1>3. new.pc = phase /\ new.todo = due
  BY DEF Syncs
<1> HIDE DEF new
<1>4. SyncOK(new)
  BY <1>1, <1>2, <1>3 DEF SyncOK, TodoOK
<1> QED BY <1>4 DEF new, due

LEMMA EnterTyped ==
    ASSUME NEW k \in Syncs, NEW n \in 1..7
    PROVE  SyncOK(Enter(k, n))
<1> DEFINE later == {m \in n..6 : Due(k, SyncPhases[m]) # {}}
           m == CHOOSE i \in later : \A j \in later : i <= j
<1>1. CASE later = {}
  BY <1>1, IdleTyped DEF Enter
<1>2. CASE later # {}
  <2>1. later \subseteq 1..6
    OBVIOUS
  <2> HIDE DEF later
  <2>2. \E i \in later : \A j \in later : i <= j
    <3>1. PICK i : i \in later
      BY <1>2
    <3>2. i = 1 \/ i = 2 \/ i = 3 \/ i = 4 \/ i = 5 \/ i = 6
      BY <3>1, <2>1
    <3>3. 1 \in later \/ 2 \in later \/ 3 \in later \/ 4 \in later \/ 5 \in later \/ 6 \in later
      BY <3>1, <3>2
    <3> QED BY <2>1, <3>3
  <2>3. m \in 1..6
    BY <2>1, <2>2
  <2>4. SyncPhases[m] \in Phases
    BY <2>3, PhaseNames
  <2>5. Enter(k, n) = [k EXCEPT !.pc = SyncPhases[m], !.todo = Due(k, SyncPhases[m])]
    BY <1>2 DEF Enter, later
  <2> HIDE DEF m
  <2> QED BY <2>4, <2>5, PhaseTyped
<1> QED BY <1>1, <1>2

LEMMA DoneTyped ==
    ASSUME NEW k, SyncOK(k), k.pc \in Phases, NEW x
    PROVE  SyncOK(Done(k, x))
<1> DEFINE n == CHOOSE i \in 1..6 : SyncPhases[i] = k.pc
           left == IF n <= 3 THEN Due(k, k.pc) \cap (k.todo \ {x}) ELSE k.todo \ {x}
<1>1. n \in 1..6
  BY PhaseNames
<1>2. left \subseteq k.todo
  OBVIOUS
<1>3. Done(k, x) = IF left = {} THEN Enter(k, n + 1) ELSE [k EXCEPT !.todo = left]
  BY DEF Done
<1> HIDE DEF left, n
<1>4. SyncOK(Enter(k, n + 1))
  BY <1>1, EnterTyped DEF SyncOK
<1>5. SyncOK([k EXCEPT !.todo = left])
  <2>1. [k EXCEPT !.todo = left] \in Syncs
    BY <1>2 DEF SyncOK, Syncs
  <2>2. [k EXCEPT !.todo = left].pc = k.pc /\ [k EXCEPT !.todo = left].todo = left
    BY DEF SyncOK, Syncs
  <2> QED BY <1>2, <2>1, <2>2 DEF SyncOK, TodoOK
<1> QED BY <1>3, <1>4, <1>5

LEMMA NextIsTodo ==
    ASSUME NEW k, NEW x \in Next1(k)
    PROVE  x \in k.todo
  BY DEF Next1

\* What is left in a phase is a pair of branches in the first, a branch in the
\* others.
LEMMA TodoTyped ==
    ASSUME NEW k, SyncOK(k), k.pc \in Phases, NEW x \in k.todo
    PROVE  /\ k.pc = "rename" => x[1] \in Branches /\ x[2] \in Branches
           /\ k.pc # "rename" => x \in Branches
  BY DEF SyncOK, TodoOK

LEMMA NotedTyped ==
    ASSUME NEW k, SyncOK(k), k.pc \in Phases, NEW x \in k.todo
    PROVE  SyncOK(Noted(k, x)) /\ Noted(k, x).pc \in Phases
<1> DEFINE cur == IF k.pc = "rename" THEN [k.cur EXCEPT ![x[1]] = None, ![x[2]] = x[2]]
                  ELSE IF k.pc \in {"destroy", "stale"} THEN [k.cur EXCEPT ![x] = None]
                  ELSE [k.cur EXCEPT ![x] = x]
           new == [k EXCEPT !.cur = cur]
<1>1. cur \in [Branches -> Branches \cup {None}]
  BY TodoTyped DEF SyncOK, Syncs
<1>2. Noted(k, x) = new
  BY DEF Noted, SyncOK, Syncs
<1> HIDE DEF cur
<1>3. new \in Syncs /\ new.pc = k.pc /\ new.todo = k.todo
  BY <1>1 DEF SyncOK, Syncs
<1> HIDE DEF new
<1> QED BY <1>2, <1>3 DEF SyncOK, TodoOK

LEMMA IntendsTyped ==
    ASSUME NEW C, C \subseteq Branches, NEW D, D \subseteq Branches, NEW object
    PROVE  SyncOK(Intends(C, D, object)) /\ Intends(C, D, object).pc = "current"
<1> DEFINE alone(x, S) == \A y \in S \ {x} : object[y] # object[x]
           pairs == {x \in D \X C :
                        object[x[1]] = object[x[2]] /\ alone(x[1], D) /\ alone(x[2], C)}
           new == C \ {x[2] : x \in pairs}
           old == D \ {x[1] : x \in pairs}
           k == [Idle EXCEPT !.pc = "current", !.created = new, !.destroyed = old,
                             !.renamed = pairs]
<1>1. new \subseteq Branches /\ old \subseteq Branches
  OBVIOUS
<1>2. pairs \subseteq Branches \X Branches
  OBVIOUS
<1>3. Intends(C, D, object) = k
  BY DEF Intends
<1> HIDE DEF new, old, pairs
<1>4. k.pc = "current"
  BY DEF Idle
<1>5. k \in Syncs
  BY <1>1, <1>2, IdleTyped DEF SyncOK, Syncs
<1> HIDE DEF k
<1> QED BY <1>3, <1>4, <1>5 DEF SyncOK, TodoOK, Phases

LEMMA CommandTyped ==
    ASSUME SyncInv, NEW k, SyncOK(k), k.pc \in Phases, NEW x \in k.todo
    PROVE  Outcomes(Command(k, x))
<1>1. k.pc # "rename" => x \in Branches
  BY TodoTyped
<1>2. CASE k.pc = "rename"
  BY <1>2, MovedTyped DEF Command
<1>3. CASE k.pc \in {"destroy", "stale"}
  BY <1>3, DestroyedTyped DEF Command
<1>4. CASE k.pc = "move"
  BY <1>4, MovedTyped DEF Command
<1>5. CASE k.pc = "create"
  BY <1>1, <1>5, CreatedTyped DEF Command
<1>6. CASE k.pc = "missing"
  BY <1>1, <1>6, CreatedTyped DEF Command
<1> QED BY <1>2, <1>3, <1>4, <1>5, <1>6 DEF Phases

LEMMA BrokenTyped ==
    ASSUME SyncInv, NEW k, NEW x
    PROVE  Outcomes(Broken(k, x))
<1>1. PlacesOK(trees, dirs)
  BY DEF SyncInv
<1>2. PlacesOK(trees, MakeParents(trees, dirs, Subject(k, x)))
  BY <1>1, ParentsAreNew
<1>3. Outcomes(Left(trees, MakeParents(trees, dirs, Subject(k, x)), FALSE))
  BY <1>2, LeftTyped
<1>4. Outcomes(Nothing)
  BY NothingTyped
<1> QED BY <1>3, <1>4 DEF Broken

-----------------------------------------------------------------------------
(* The syncs of the hooks.                                                 *)

LEMMA HookSet ==
    ASSUME NEW s, HooksOK(s), NEW h \in Hooks, NEW k, SyncOK(k)
    PROVE  HooksOK([s EXCEPT ![h] = k])
  BY DEF HooksOK, SyncOK

LEMMA DisturbedTyped ==
    ASSUME NEW s, HooksOK(s), NEW h
    PROVE  HooksOK(Disturbed(s, h))
<1> DEFINE new(g) == [s[g] EXCEPT !.calm = FALSE]
<1>1. ASSUME NEW g \in Hooks PROVE SyncOK(s[g]) /\ SyncOK(new(g))
  <2>1. SyncOK(s[g])
    BY DEF HooksOK
  <2>2. new(g) \in Syncs /\ new(g).pc = s[g].pc /\ new(g).todo = s[g].todo
    BY <2>1 DEF SyncOK, Syncs
  <2> HIDE DEF new
  <2> QED BY <2>1, <2>2 DEF SyncOK, TodoOK
<1>2. /\ Disturbed(s, h) = [g \in Hooks |-> Disturbed(s, h)[g]]
      /\ \A g \in Hooks : Disturbed(s, h)[g] \in {s[g], new(g)}
  BY DEF Disturbed
<1> HIDE DEF new
<1>3. \A g \in Hooks : SyncOK(Disturbed(s, h)[g])
  BY <1>1, <1>2
<1>4. Disturbed(s, h) \in [Hooks -> Syncs]
  BY <1>2, <1>3 DEF SyncOK
<1> QED BY <1>3, <1>4 DEF HooksOK

LEMMA ChildForgotten ==
    ASSUME NEW s, HooksOK(s), NEW h \in Hooks
    PROVE  /\ SyncOK([s[h] EXCEPT !.child = None])
           /\ [s[h] EXCEPT !.child = None].pc = s[h].pc
<1> DEFINE k == [s[h] EXCEPT !.child = None]
<1>1. SyncOK(s[h])
  BY DEF HooksOK
<1>2. k \in Syncs /\ k.pc = s[h].pc /\ k.todo = s[h].todo
  BY <1>1 DEF SyncOK, Syncs
<1> HIDE DEF k
<1>3. SyncOK(k)
  BY <1>1, <1>2 DEF SyncOK, TodoOK
<1> QED BY <1>2, <1>3 DEF k

LEMMA WaitedForTyped ==
    ASSUME NEW s, HooksOK(s), NEW h \in Hooks, NEW g \in Hooks
    PROVE  HooksOK(WaitedFor(s, h, g))
<1> DEFINE new(e) == [s[e] EXCEPT !.child = g]
<1>1. ASSUME NEW e \in Hooks PROVE SyncOK(s[e]) /\ SyncOK(new(e))
  <2>1. SyncOK(s[e])
    BY DEF HooksOK
  <2>2. new(e) \in Syncs /\ new(e).pc = s[e].pc /\ new(e).todo = s[e].todo
    BY <2>1 DEF SyncOK, Syncs
  <2> HIDE DEF new
  <2> QED BY <2>1, <2>2 DEF SyncOK, TodoOK
<1>2. /\ WaitedFor(s, h, g) = [e \in Hooks |-> WaitedFor(s, h, g)[e]]
      /\ \A e \in Hooks : WaitedFor(s, h, g)[e] \in {s[e], new(e)}
  BY DEF WaitedFor
<1> HIDE DEF new
<1>3. \A e \in Hooks : SyncOK(WaitedFor(s, h, g)[e])
  BY <1>1, <1>2
<1>4. WaitedFor(s, h, g) \in [Hooks -> Syncs]
  BY <1>2, <1>3 DEF SyncOK
<1> QED BY <1>3, <1>4 DEF HooksOK

LEMMA BecomesTyped ==
    ASSUME SyncInv, NEW h \in Hooks, NEW k, SyncOK(k), NEW o, Outcomes(o), Becomes(h, k, o)
    PROVE  SyncInv'
<1> DEFINE put == [sync EXCEPT ![h] = k]
           s == IF o.trees = trees /\ o.dirs = dirs /\ o.refs = refs THEN put ELSE Disturbed(put, h)
<1>1. /\ trees' = o.trees /\ dirs' = o.dirs /\ refs' = o.refs
      /\ IF o.ran = None \/ FreeHooks(sync) \ {h} = {} THEN sync' = s
         ELSE \E g \in FreeHooks(sync) \ {h} :
                 sync' = [WaitedFor(s, h, g) EXCEPT
                     ![g] = Intends(o.ran, {}, [b \in o.ran |-> 0])]
  BY DEF Becomes
<1>2. HooksOK(put)
  BY HookSet DEF SyncInv
<1> HIDE DEF put
<1>3. HooksOK(s)
  BY <1>2, DisturbedTyped
<1> HIDE DEF s
<1>4. HooksOK(sync')
  <2>1. CASE o.ran = None \/ FreeHooks(sync) \ {h} = {}
    BY <2>1, <1>1, <1>3
  <2>2. CASE ~(o.ran = None \/ FreeHooks(sync) \ {h} = {})
    <3>1. PICK g \in FreeHooks(sync) \ {h} :
             sync' = [WaitedFor(s, h, g) EXCEPT
                 ![g] = Intends(o.ran, {}, [b \in o.ran |-> 0])]
      BY <2>2, <1>1
    <3>2. g \in Hooks
      BY DEF FreeHooks
    <3>3. SyncOK(Intends(o.ran, {}, [b \in o.ran |-> 0]))
      BY <2>2, IntendsTyped DEF Outcomes
    <3>4. HooksOK(WaitedFor(s, h, g))
      BY <1>3, <3>2, WaitedForTyped
    <3> QED BY <3>1, <3>2, <3>3, <3>4, HookSet
  <2> QED BY <2>1, <2>2
<1>5. refs' \subseteq Branches /\ PlacesOK(trees', dirs')
  BY <1>1 DEF Outcomes
<1> QED BY <1>4, <1>5 DEF SyncInv, PlacesOK, HooksOK, Present

-----------------------------------------------------------------------------
(* The steps.                                                              *)

LEMMA StartTyped == WtInit => SyncInv
<1> SUFFICES ASSUME WtInit PROVE SyncInv
  OBVIOUS
<1>1. PICK served \in {{}, refs} :
        /\ trees = [p \in Branches |-> IF p \in served THEN Fresh(p) ELSE None]
        /\ dirs = {q \in Branches \ served : \E b \in served : <<b, q>> \in Inside}
  BY DEF WtInit
<1>2. refs \subseteq Branches /\ sync = [h \in Hooks |-> Idle]
  BY DEF WtInit
<1>3. \A p \in Branches : Fresh(p) \in Trees
  BY DEF Fresh, Trees
<1>4. PlacesOK(trees, dirs)
  BY <1>1, <1>3 DEF PlacesOK, Present
<1>5. HooksOK(sync)
  BY <1>2, IdleTyped DEF HooksOK, SyncOK
<1> QED BY <1>2, <1>4, <1>5 DEF SyncInv

\* A step that changes one sync, or the calm of all, and no place.
LEMMA SameFiles ==
    ASSUME SyncInv, refs' \subseteq Branches, UNCHANGED <<trees, dirs>>, HooksOK(sync')
    PROVE  SyncInv'
  BY DEF SyncInv, PlacesOK, HooksOK, Present

LEMMA ReadCurrentTyped ==
    ASSUME SyncInv, NEW h \in Hooks, ReadCurrent(h)
    PROVE  SyncInv'
<1> DEFINE cur == [b \in Branches |-> IF Places(b) = {} THEN None ELSE CHOOSE p \in Places(b) : TRUE]
           k == [sync[h] EXCEPT !.pc = "branches", !.cur = cur, !.calm = TRUE]
<1>1. SyncOK(sync[h])
  BY DEF SyncInv, HooksOK
<1>2. \A b \in Branches : cur[b] \in Branches \cup {None}
  BY DEF Places
<1>3. cur \in [Branches -> Branches \cup {None}]
  BY <1>2
<1>4. sync' = [sync EXCEPT ![h] = IF Readable THEN k ELSE Idle] /\ UNCHANGED <<refs, trees, dirs>>
  BY DEF ReadCurrent
<1> HIDE DEF cur
<1>5. k \in Syncs /\ k.pc = "branches"
  BY <1>1, <1>3 DEF SyncOK, Syncs
<1> HIDE DEF k
<1>6. SyncOK(k)
  BY <1>5 DEF SyncOK, TodoOK, Phases
<1>7. HooksOK(sync')
  BY <1>4, <1>6, IdleTyped, HookSet DEF SyncInv
<1> QED BY <1>4, <1>7, SameFiles DEF SyncInv

LEMMA ReadBranchesTyped ==
    ASSUME SyncInv, NEW h \in Hooks, ReadBranches(h)
    PROVE  SyncInv'
<1> DEFINE k == [sync[h] EXCEPT !.want = refs]
<1>1. SyncOK(sync[h]) /\ refs \subseteq Branches
  BY DEF SyncInv, HooksOK
<1>2. k \in Syncs
  BY <1>1 DEF SyncOK, Syncs
<1>3. sync' = [sync EXCEPT ![h] = Enter(k, 1)] /\ UNCHANGED <<refs, trees, dirs>>
  BY DEF ReadBranches
<1> HIDE DEF k
<1>4. SyncOK(Enter(k, 1))
  BY <1>2, EnterTyped
<1>5. HooksOK(sync')
  BY <1>3, <1>4, HookSet DEF SyncInv
<1> QED BY <1>1, <1>3, <1>5, SameFiles

LEMMA ConvergeTyped ==
    ASSUME SyncInv, NEW h \in Hooks, Converge(h)
    PROVE  SyncInv'
<1> DEFINE k == [sync[h] EXCEPT !.child = None]
<1>1. SyncOK(k) /\ k.pc = sync[h].pc
  BY ChildForgotten DEF SyncInv
<1>2. PICK x \in Next1(k) :
        Becomes(h, Done(IF Command(k, x).ok THEN Noted(k, x) ELSE k, x), Command(k, x))
  BY DEF Converge
<1>3. k.pc \notin {"idle", "current", "branches"}
  BY DEF Converge
<1> HIDE DEF k
<1>4. k.pc \in Phases
  BY <1>1, <1>3 DEF SyncOK, Syncs
<1>5. x \in k.todo
  BY NextIsTodo
<1>6. SyncOK(Noted(k, x)) /\ Noted(k, x).pc \in Phases
  BY <1>1, <1>4, <1>5, NotedTyped
<1>7. SyncOK(Done(IF Command(k, x).ok THEN Noted(k, x) ELSE k, x))
  BY <1>1, <1>4, <1>6, DoneTyped
<1>8. Outcomes(Command(k, x))
  BY <1>1, <1>4, <1>5, CommandTyped
<1> QED BY <1>2, <1>7, <1>8, BecomesTyped

LEMMA SyncFailsTyped ==
    ASSUME SyncInv, NEW h \in Hooks, SyncFails(h)
    PROVE  SyncInv'
<1> DEFINE k == [sync[h] EXCEPT !.child = None]
<1>1. SyncOK(k)
  BY ChildForgotten DEF SyncInv
<1>2. CASE sync' = [sync EXCEPT ![h] = Idle] /\ UNCHANGED <<refs, trees, dirs>>
  <2>1. HooksOK(sync')
    BY <1>2, IdleTyped, HookSet DEF SyncInv
  <2> QED BY <1>2, <2>1, SameFiles DEF SyncInv
<1>3. CASE /\ k.pc \notin {"idle", "current", "branches"}
           /\ \E x \in Next1(k) : Becomes(h, Done(k, x), Broken(k, x))
  <2>1. PICK x \in Next1(k) : Becomes(h, Done(k, x), Broken(k, x))
    BY <1>3
  <2> HIDE DEF k
  <2>2. k.pc \in Phases
    BY <1>1, <1>3 DEF SyncOK, Syncs
  <2>3. SyncOK(Done(k, x))
    BY <1>1, <2>2, DoneTyped
  <2> QED BY <2>1, <2>3, BrokenTyped, BecomesTyped
<1> QED BY <1>2, <1>3 DEF SyncFails

LEMMA SyncKilledTyped ==
    ASSUME SyncInv, NEW h \in Hooks, SyncKilled(h)
    PROVE  SyncInv'
<1>1. HooksOK(sync')
  BY IdleTyped, HookSet DEF SyncInv, SyncKilled
<1> QED BY <1>1, SameFiles DEF SyncInv, SyncKilled

LEMMA TransactionTyped ==
    ASSUME SyncInv, NEW h \in Hooks, NEW C, C \subseteq Branches, NEW D, NEW object,
           Transaction(h, C, D, object)
    PROVE  SyncInv'
<1>1. refs \subseteq Branches /\ D \subseteq refs
  BY DEF SyncInv, Transaction
<1>2. SyncOK(Intends(C, D, object))
  BY <1>1, IntendsTyped
<1>3. HooksOK(All(sync))
  BY DisturbedTyped DEF SyncInv, All
<1>4. HooksOK(sync')
  BY <1>2, <1>3, HookSet DEF Transaction, Use
<1> QED BY <1>1, <1>4, SameFiles DEF Transaction, Use

\* What users do to the places: the syncs only learn that something changed.
LEMMA UserTyped ==
    ASSUME SyncInv, refs' \subseteq Branches, PlacesOK(trees', dirs'), sync' = All(sync)
    PROVE  SyncInv'
<1>1. HooksOK(sync')
  BY DisturbedTyped DEF SyncInv, All
<1> QED BY <1>1 DEF SyncInv, PlacesOK, HooksOK, Present

LEMMA FinishRenameTyped ==
    ASSUME SyncInv, NEW old \in Branches, NEW new \in Branches, FinishRename(old, new)
    PROVE  SyncInv'
<1>1. /\ refs \subseteq Branches /\ refs' = refs \cup {new} /\ dirs' = dirs
      /\ PlacesOK(trees, dirs) /\ sync' = All(sync)
      /\ trees' = [p \in Branches |->
           IF trees[p] # None /\ trees[p].branch = old
           THEN [trees[p] EXCEPT !.branch = new] ELSE trees[p]]
  BY DEF SyncInv, FinishRename, Use
<1>2. ASSUME NEW p \in Branches
      PROVE  trees'[p] \in Trees \cup {None} /\ (Present(trees', p) => Present(trees, p))
  BY <1>1 DEF PlacesOK, Trees, Present
<1>3. PlacesOK(trees', dirs')
  BY <1>1, <1>2 DEF PlacesOK
<1> QED BY <1>1, <1>3, UserTyped

LEMMA SwitchTyped ==
    ASSUME SyncInv, NEW p \in Branches, NEW b \in Branches \cup {None}, Switch(p, b)
    PROVE  SyncInv'
<1>1. /\ refs \subseteq Branches /\ refs' = refs /\ dirs' = dirs
      /\ PlacesOK(trees, dirs) /\ sync' = All(sync)
      /\ Present(trees, p) /\ trees' = [trees EXCEPT ![p].branch = b]
  BY DEF SyncInv, Switch, Use
<1>2. ASSUME NEW q \in Branches
      PROVE  trees'[q] \in Trees \cup {None} /\ (Present(trees', q) => Present(trees, q))
  BY <1>1 DEF PlacesOK, Trees, Present
<1>3. trees' \in [Branches -> Trees \cup {None}]
  BY <1>1, <1>2 DEF PlacesOK
<1>4. PlacesOK(trees', dirs')
  BY <1>1, <1>2, <1>3 DEF PlacesOK
<1> QED BY <1>1, <1>4, UserTyped

LEMMA EditTyped ==
    ASSUME SyncInv, NEW p \in Branches, Edit(p)
    PROVE  SyncInv'
<1>1. /\ refs \subseteq Branches /\ refs' = refs /\ dirs' = dirs
      /\ PlacesOK(trees, dirs) /\ sync' = All(sync)
      /\ Present(trees, p) /\ trees' = [trees EXCEPT ![p].dirty = TRUE]
  BY DEF SyncInv, Edit, Use
<1>2. ASSUME NEW q \in Branches
      PROVE  trees'[q] \in Trees \cup {None} /\ (Present(trees', q) => Present(trees, q))
  BY <1>1 DEF PlacesOK, Trees, Present
<1>3. trees' \in [Branches -> Trees \cup {None}]
  BY <1>1, <1>2 DEF PlacesOK
<1>4. PlacesOK(trees', dirs')
  BY <1>1, <1>2, <1>3 DEF PlacesOK
<1> QED BY <1>1, <1>4, UserTyped

LEMMA RemoveDirectoryTyped ==
    ASSUME SyncInv, NEW p \in Branches, RemoveDirectory(p)
    PROVE  SyncInv'
<1>1. /\ refs \subseteq Branches /\ refs' = refs /\ dirs' = dirs \ AtOrIn(p)
      /\ PlacesOK(trees, dirs) /\ sync' = All(sync)
      /\ trees' = [q \in Branches |->
           IF q \in AtOrIn(p) /\ trees[q] # None THEN [trees[q] EXCEPT !.gone = TRUE]
           ELSE trees[q]]
  BY DEF SyncInv, RemoveDirectory, Use
<1>2. ASSUME NEW q \in Branches
      PROVE  trees'[q] \in Trees \cup {None} /\ (Present(trees', q) => Present(trees, q))
  BY <1>1 DEF PlacesOK, Trees, Present
<1>3. PlacesOK(trees', dirs')
  BY <1>1, <1>2 DEF PlacesOK
<1> QED BY <1>1, <1>3, UserTyped

LEMMA StepTyped ==
    ASSUME SyncInv, [SyncNext]_syncVars
    PROVE  SyncInv'
<1>1. CASE SyncStep
  BY <1>1, ReadCurrentTyped, ReadBranchesTyped, ConvergeTyped DEF SyncStep
<1>2. CASE \E h \in Hooks : SyncFails(h) \/ SyncKilled(h)
  BY <1>2, SyncFailsTyped, SyncKilledTyped
<1>3. CASE \E h \in Hooks, C, D \in SUBSET Branches :
             \E object \in [C \cup D -> {0, 1}] : Transaction(h, C, D, object)
  BY <1>3, TransactionTyped
<1>4. CASE \E b, c \in Branches : FinishRename(b, c)
  BY <1>4, FinishRenameTyped
<1>5. CASE \E p \in Branches, b \in Branches \cup {None} : Switch(p, b)
  BY <1>5, SwitchTyped
<1>6. CASE \E p \in Branches : Edit(p) \/ RemoveDirectory(p)
  BY <1>6, EditTyped, RemoveDirectoryTyped
<1>7. CASE UNCHANGED syncVars
  BY <1>7 DEF syncVars, SyncInv, PlacesOK, HooksOK, Present
<1> QED BY <1>1, <1>2, <1>3, <1>4, <1>5, <1>6, <1>7 DEF SyncNext

LEMMA InvTypes == SyncInv => SyncTypeOK
  BY PhaseNames DEF SyncInv, PlacesOK, HooksOK, SyncOK, Syncs, SyncTypeOK

\* Whatever transactions, users, failing commands and killed hooks do, every
\* place is typed and no directory that mkdir() made is a worktree
\* (sync_worktrees(), create_worktree(), Worktree.move() and destroy()).
THEOREM TypeCorrect == SyncSpec => []SyncTypeOK
<1>1. SyncInv /\ [SyncNext]_syncVars => SyncInv'
  BY StepTyped
<1> QED BY StartTyped, <1>1, InvTypes, PTL DEF SyncSpec

(***************************************************************************)
(* What an undisturbed sync goes by.  The second invariant: what is left   *)
(* of a phase is still due by the sync's snapshots, and as long as nothing *)
(* else has changed they are true.  The branches it wants are those there  *)
(* are; each of its worktrees is there, no two of them are one, and it is  *)
(* that of the branch, or has been renamed to one that it wants.           *)
(***************************************************************************)
CurOK(cur, want, t) ==
    /\ \A b \in Branches : cur[b] # None =>
         /\ t[cur[b]] # None
         /\ t[cur[b]].branch = b \/ (cur[b] = b /\ b \in want)
    /\ \A b, c \in Branches : cur[b] # None /\ cur[b] = cur[c] => b = c

DueOK(k) == k.pc \in Phases => k.todo \subseteq Due(k, k.pc)

CalmOK(k, t, r) ==
    k.calm =>
        /\ k.pc = "branches" => CurOK(k.cur, {}, t)
        /\ k.pc \in Phases => k.want = r /\ CurOK(k.cur, k.want, t)

SnapOK(k, t, r) == DueOK(k) /\ CalmOK(k, t, r)

SnapInv ==
    /\ SyncInv
    /\ uses \in Nat
    /\ \A h \in Hooks : SnapOK(sync[h], trees, refs)

\* A sync whose snapshots have become old, and one that waits for a hook.
Uncalm(k) == [k EXCEPT !.calm = FALSE]
WithChild(k, c) == [k EXCEPT !.child = c]

LEMMA RestingSnap ==
    ASSUME NEW k, k.pc \in {"idle", "current"}, NEW t, NEW r
    PROVE  SnapOK(k, t, r)
  BY DEF SnapOK, DueOK, CalmOK, Phases

\* A disturbed sync promises only what is due.
LEMMA DisturbedSnap ==
    ASSUME NEW k \in Syncs, DueOK(k), NEW t, NEW r
    PROVE  SnapOK(Uncalm(k), t, r)
<1> DEFINE e == [k EXCEPT !.calm = FALSE]
<1>1. /\ e.calm = FALSE /\ e.pc = k.pc /\ e.todo = k.todo
      /\ e.cur = k.cur /\ e.want = k.want /\ e.renamed = k.renamed
      /\ e.created = k.created /\ e.destroyed = k.destroyed
  BY DEF Syncs
<1> HIDE DEF e
<1>2. SnapOK(e, t, r)
  BY <1>1 DEF SnapOK, DueOK, CalmOK, Due
<1> QED BY <1>2 DEF e, Uncalm

LEMMA ChildSnap ==
    ASSUME NEW k \in Syncs, NEW t, NEW r, SnapOK(k, t, r), NEW c
    PROVE  SnapOK(WithChild(k, c), t, r)
<1> DEFINE e == [k EXCEPT !.child = c]
<1>1. /\ e.calm = k.calm /\ e.pc = k.pc /\ e.todo = k.todo
      /\ e.cur = k.cur /\ e.want = k.want /\ e.renamed = k.renamed
      /\ e.created = k.created /\ e.destroyed = k.destroyed
  BY DEF Syncs
<1> HIDE DEF e
<1>2. SnapOK(e, t, r)
  BY <1>1 DEF SnapOK, DueOK, CalmOK, Due
<1> QED BY <1>2 DEF e, WithChild

-----------------------------------------------------------------------------
(* Going on to what is due next keeps the snapshots.                       *)

Follows(k, e) ==
    \/ e.pc = "idle"
    \/ /\ e.pc \in Phases /\ DueOK(e)
       /\ e.cur = k.cur /\ e.want = k.want /\ e.calm = k.calm

LEMMA FollowsSnap ==
    ASSUME NEW k, NEW e, Follows(k, e), k.pc \in Phases, NEW t, NEW r, CalmOK(k, t, r)
    PROVE  SnapOK(e, t, r)
  BY RestingSnap DEF Follows, SnapOK, CalmOK, Phases

LEMMA EnterFollows ==
    ASSUME NEW k \in Syncs, NEW n \in 1..7
    PROVE  /\ Follows(k, Enter(k, n))
           /\ \A i \in 1..6 : i < n => Enter(k, n).pc # SyncPhases[i]
<1> DEFINE later == {m \in n..6 : Due(k, SyncPhases[m]) # {}}
           m == CHOOSE i \in later : \A j \in later : i <= j
           e == [k EXCEPT !.pc = SyncPhases[m], !.todo = Due(k, SyncPhases[m])]
<1>1. CASE later = {}
  <2>1. Enter(k, n).pc = "idle"
    BY <1>1, IdleTyped DEF Enter
  <2> QED BY <2>1, PhaseNames DEF Follows, Phases
<1>2. CASE later # {}
  <2>1. later \subseteq 1..6 /\ later \subseteq n..6
    OBVIOUS
  <2>2. Enter(k, n) = e
    BY <1>2 DEF Enter
  <2> HIDE DEF later
  <2>3. \E i \in later : \A j \in later : i <= j
    <3>1. PICK i : i \in later
      BY <1>2
    <3>2. i = 1 \/ i = 2 \/ i = 3 \/ i = 4 \/ i = 5 \/ i = 6
      BY <3>1, <2>1
    <3>3. 1 \in later \/ 2 \in later \/ 3 \in later \/ 4 \in later \/ 5 \in later \/ 6 \in later
      BY <3>1, <3>2
    <3> QED BY <2>1, <3>3
  <2>4. m \in later
    BY <2>3
  <2> HIDE DEF m
  <2>5. m \in 1..6 /\ m >= n
    BY <2>1, <2>4
  <2>6. SyncPhases[m] \in Phases
    BY <2>5, PhaseNames
  <2>7. /\ e.pc = SyncPhases[m] /\ e.todo = Due(k, SyncPhases[m])
        /\ e.cur = k.cur /\ e.want = k.want /\ e.renamed = k.renamed
        /\ e.created = k.created /\ e.destroyed = k.destroyed /\ e.calm = k.calm
    BY DEF Syncs
  <2> HIDE DEF e
  <2>8. DueOK(e)
    BY <2>7 DEF DueOK, Due
  <2>9. \A i \in 1..6 : i < n => SyncPhases[i] # SyncPhases[m]
    BY <2>5 DEF SyncPhases
  <2> QED BY <2>2, <2>6, <2>7, <2>8, <2>9 DEF Follows
<1> QED BY <1>1, <1>2

\* The phase a sync is in, by its number.
LEMMA PhaseNumber ==
    ASSUME NEW k, k.pc \in Phases
    PROVE  LET n == CHOOSE i \in 1..6 : SyncPhases[i] = k.pc
           IN  /\ n \in 1..6 /\ SyncPhases[n] = k.pc
               /\ n <= 3 <=> k.pc \in {"rename", "destroy", "create"}
<1> DEFINE n == CHOOSE i \in 1..6 : SyncPhases[i] = k.pc
<1>1. n \in 1..6 /\ SyncPhases[n] = k.pc
  BY PhaseNames
<1> HIDE DEF n
<1>2. n = 1 \/ n = 2 \/ n = 3 \/ n = 4 \/ n = 5 \/ n = 6
  BY <1>1
<1>3. n <= 3 <=> k.pc \in {"rename", "destroy", "create"}
  BY <1>1, <1>2 DEF SyncPhases
<1> QED BY <1>1, <1>3 DEF n

LEMMA DoneFollows ==
    ASSUME NEW k, SyncOK(k), k.pc \in Phases, NEW x \in k.todo,
           k.pc \notin {"rename", "destroy", "create"} => k.todo \ {x} \subseteq Due(k, k.pc)
    PROVE  /\ Follows(k, Done(k, x))
           /\ Done(k, x).pc # k.pc \/ Done(k, x).todo # k.todo
<1> DEFINE n == CHOOSE i \in 1..6 : SyncPhases[i] = k.pc
           left == IF n <= 3 THEN Due(k, k.pc) \cap (k.todo \ {x}) ELSE k.todo \ {x}
           e == [k EXCEPT !.todo = left]
<1>1. /\ n \in 1..6 /\ SyncPhases[n] = k.pc
      /\ n <= 3 <=> k.pc \in {"rename", "destroy", "create"}
  BY PhaseNumber
<1>2. Done(k, x) = IF left = {} THEN Enter(k, n + 1) ELSE e
  BY DEF Done
<1> HIDE DEF n
<1>3. left \subseteq Due(k, k.pc) /\ x \notin left
  BY <1>1
<1> HIDE DEF left
<1>4. k \in Syncs
  BY DEF SyncOK
<1>5. Follows(k, Enter(k, n + 1)) /\ Enter(k, n + 1).pc # k.pc
  BY <1>1, <1>4, EnterFollows
<1>6. /\ e.pc = k.pc /\ e.todo = left
      /\ e.cur = k.cur /\ e.want = k.want /\ e.renamed = k.renamed
      /\ e.created = k.created /\ e.destroyed = k.destroyed /\ e.calm = k.calm
  BY <1>4 DEF Syncs
<1> HIDE DEF e
<1>7. DueOK(e)
  BY <1>3, <1>6 DEF DueOK, Due
<1>8. Follows(k, e) /\ e.todo # k.todo
  BY <1>3, <1>6, <1>7 DEF Follows
<1> QED BY <1>2, <1>5, <1>8

-----------------------------------------------------------------------------
(* What the commands do to the worktrees.                                  *)

\* The worktree of place p is at q now, and those in p are gone.
Goes(p, q, t) ==
    /\ p \in Branches /\ p # q /\ Present(trees, p) /\ trees[q] = None
    /\ t = Carried(p, q)

LEMMA MovedEffect ==
    ASSUME SyncInv, NEW p, NEW q \in Branches
    PROVE  /\ Moved(p, q).refs = refs
           /\ \/ Moved(p, q).trees = trees /\ (Moved(p, q).ok => p = q)
              \/ Moved(p, q).ok /\ Goes(p, q, Moved(p, q).trees)
<1> DEFINE above == MakeParents(trees, dirs, q)
           left == CleanParents(Carried(p, q), above \ AtOrIn(p), p)
<1>1. CASE ~There(trees, dirs, p)
  BY <1>1 DEF Moved, MovedIf, Nothing, Left
<1>2. CASE There(trees, dirs, p) /\ p = q
  BY <1>2 DEF Moved, MovedIf, Nothing, Left
<1>3. CASE There(trees, dirs, p) /\ p # q /\ There(trees, dirs, q)
  BY <1>3 DEF Moved, MovedIf, Nothing, Left
<1>4. CASE There(trees, dirs, p) /\ p # q /\ ~There(trees, dirs, q)
  <2>1. p \in Branches
    BY <1>4, ThereIsAPlace DEF SyncInv, PlacesOK
  <2>2. ~Present(trees, q)
    BY <1>4 DEF There, AtOrIn
  <2>3. CASE Present(trees, p) /\ ~In(q, p) /\ (trees[q] = None \/ ~trees[q].gone)
    <3>1. Moved(p, q) = Left(Carried(p, q), left, TRUE)
      BY <1>4, <2>3 DEF Moved, MovedIf
    <3>2. trees[q] = None
      BY <2>2, <2>3 DEF Present
    <3> HIDE DEF left
    <3> QED BY <1>4, <2>1, <2>3, <3>1, <3>2 DEF Left, Goes
  <2>4. CASE ~(Present(trees, p) /\ ~In(q, p) /\ (trees[q] = None \/ ~trees[q].gone))
    <3>1. Moved(p, q) = Left(trees, above, FALSE)
      BY <1>4, <2>4 DEF Moved, MovedIf
    <3> HIDE DEF above
    <3> QED BY <3>1 DEF Left
  <2> QED BY <2>3, <2>4
<1> QED BY <1>1, <1>2, <1>3, <1>4

LEMMA DestroyedEffect ==
    ASSUME NEW p
    PROVE  /\ Destroyed(p).refs = refs
           /\ \/ Destroyed(p).trees = trees /\ ~Destroyed(p).ok
              \/ /\ trees[p].branch \in refs \cup {None}
                 /\ Present(trees, p)
                 /\ Destroyed(p).trees = [trees EXCEPT ![p] = None]
<1>1. CASE Present(trees, p) /\ StatusClean(trees, p)
  BY <1>1 DEF Destroyed, StatusClean, Left
<1>2. CASE ~(Present(trees, p) /\ StatusClean(trees, p))
  BY <1>2 DEF Destroyed, Nothing, Left
<1> QED BY <1>1, <1>2

LEMMA CreatedEffect ==
    ASSUME NEW b \in refs, NEW create
    PROVE  /\ Created(b, create).refs = refs
           /\ \/ Created(b, create).trees = trees /\ ~Created(b, create).ok
              \/ /\ trees[b] = None /\ Created(b, create).ok
                 /\ Created(b, create).trees = [trees EXCEPT ![b] = Fresh(b)]
<1> DEFINE above == MakeParents(trees, dirs, b)
           done == [Left([trees EXCEPT ![b] = Fresh(b)], above, TRUE) EXCEPT
                      !.refs = refs \cup {b}, !.ran = IF b \notin refs THEN {b} ELSE {}]
<1>1. \/ Created(b, create) = Nothing
      \/ Created(b, create) = Left(trees, above, FALSE)
      \/ trees[b] = None /\ Created(b, create) = done
  BY DEF Created
<1>2. done.refs = refs \cup {b} /\ done.ok /\ done.trees = [trees EXCEPT ![b] = Fresh(b)]
  BY DEF Left
<1> HIDE DEF above, done
<1> QED BY <1>1, <1>2 DEF Nothing, Left

-----------------------------------------------------------------------------
(* They keep the snapshots of the sync they belong to.                     *)

\* A worktree that moves is the one noted at its new place.
LEMMA GoesCur ==
    ASSUME SyncInv, NEW cur \in [Branches -> Branches \cup {None}], NEW want,
           CurOK(cur, want, trees),
           NEW a \in Branches, NEW q \in Branches, q \in want, NEW t, Goes(cur[a], q, t),
           NEW new \in [Branches -> Branches \cup {None}], new[q] = q,
           \A b \in Branches \ {q} : new[b] = IF b = a THEN None ELSE cur[b]
    PROVE  CurOK(new, want, t)
<1> DEFINE p == cur[a]
<1>1. /\ p \in Branches /\ p # q /\ trees[p] # None /\ trees[q] = None /\ t = Carried(p, q)
      /\ trees \in [Branches -> Trees \cup {None}] /\ p # None
  BY WorktreeAssumption DEF Goes, Present, SyncInv, PlacesOK
<1>2. ASSUME NEW r \in Branches, r # p, trees[r] # None
      PROVE  t[r] # None /\ t[r].branch = trees[r].branch
  <2>1. trees[r] \in Trees /\ r # q
    BY <1>1, <1>2
  <2>2. t[r] = trees[r] \/ t[r] = [trees[r] EXCEPT !.gone = TRUE]
    BY <1>1, <1>2, <2>1 DEF Carried
  <2>3. [trees[r] EXCEPT !.gone = TRUE] \in Trees
    BY <2>1 DEF Trees
  <2>4. [trees[r] EXCEPT !.gone = TRUE].branch = trees[r].branch
    BY <2>1 DEF Trees
  <2> QED BY <1>2, <2>2, <2>3, <2>4, NoneAssumption
<1>3. t[q] # None
  BY <1>1 DEF Carried
<1> HIDE DEF p
<1>4. ASSUME NEW b \in Branches, new[b] # None
      PROVE  t[new[b]] # None /\ (t[new[b]].branch = b \/ (new[b] = b /\ b \in want))
  <2>1. CASE b = q
    BY <2>1, <1>3
  <2>2. CASE b # q
    <3>1. b # a /\ new[b] = cur[b]
      BY <2>2, <1>4
    <3>2. cur[b] # p
      BY <3>1, <1>4 DEF CurOK, p
    <3>3. cur[b] \in Branches /\ trees[cur[b]] # None
      BY <3>1, <1>4 DEF CurOK
    <3>4. trees[cur[b]].branch = b \/ (cur[b] = b /\ b \in want)
      BY <3>1, <1>4 DEF CurOK
    <3> QED BY <1>2, <3>1, <3>2, <3>3, <3>4
  <2> QED BY <2>1, <2>2
<1>5. ASSUME NEW b \in Branches, NEW c \in Branches, new[b] # None, new[b] = new[c]
      PROVE  b = c
  <2>1. \A e \in Branches : e # q /\ new[e] # None => new[e] = cur[e] /\ cur[e] # q
    BY <1>1 DEF CurOK
  <2>2. CASE b # q /\ c # q
    BY <1>5, <2>1, <2>2 DEF CurOK
  <2> QED BY <1>5, <2>1, <2>2
<1> QED BY <1>4, <1>5 DEF CurOK

\* So is one that is already there.
LEMMA StaysCur ==
    ASSUME NEW cur \in [Branches -> Branches \cup {None}], NEW want, NEW t, CurOK(cur, want, t),
           NEW a \in Branches, NEW q \in Branches, q \in want, cur[a] = q,
           NEW new \in [Branches -> Branches \cup {None}], new[q] = q,
           \A b \in Branches \ {q} : new[b] = IF b = a THEN None ELSE cur[b]
    PROVE  CurOK(new, want, t)
<1>1. q # None
  BY WorktreeAssumption
<1>2. \A b \in Branches \ {q} : new[b] # None => new[b] = cur[b] /\ cur[b] # q
  BY <1>1 DEF CurOK
<1>3. t[q] # None
  BY <1>1 DEF CurOK
<1>4. ASSUME NEW b \in Branches, new[b] # None
      PROVE  t[new[b]] # None /\ (t[new[b]].branch = b \/ (new[b] = b /\ b \in want))
  BY <1>2, <1>3, <1>4 DEF CurOK
<1>5. ASSUME NEW b \in Branches, NEW c \in Branches, new[b] # None, new[b] = new[c]
      PROVE  b = c
  BY <1>2, <1>5 DEF CurOK
<1> QED BY <1>4, <1>5 DEF CurOK

LEMMA AddedCur ==
    ASSUME SyncInv, NEW cur \in [Branches -> Branches \cup {None}], NEW want,
           CurOK(cur, want, trees), NEW q \in Branches, trees[q] = None,
           NEW new, new = [cur EXCEPT ![q] = q],
           NEW t, t = [trees EXCEPT ![q] = Fresh(q)]
    PROVE  CurOK(new, want, t)
<1>1. Fresh(q) # None /\ Fresh(q).branch = q
  <2>1. Fresh(q) \in Trees
    BY DEF Fresh, Trees
  <2> QED BY <2>1, NoneAssumption DEF Fresh
<1>2. trees \in [Branches -> Trees \cup {None}]
  BY DEF SyncInv, PlacesOK
<1>3. \A b \in Branches : cur[b] # None => cur[b] \in Branches /\ cur[b] # q
  BY DEF CurOK
<1>4. ASSUME NEW b \in Branches, new[b] # None
      PROVE  t[new[b]] # None /\ (t[new[b]].branch = b \/ (new[b] = b /\ b \in want))
  <2>1. CASE b = q
    BY <2>1, <1>1, <1>2
  <2>2. CASE b # q
    BY <2>2, <1>2, <1>3, <1>4 DEF CurOK
  <2> QED BY <2>1, <2>2
<1>5. ASSUME NEW b \in Branches, NEW c \in Branches, new[b] # None, new[b] = new[c]
      PROVE  b = c
  BY <1>3, <1>5 DEF CurOK
<1> QED BY <1>4, <1>5 DEF CurOK

\* What a sync that is not disturbed may do to the worktrees.
Spares(t, r) ==
    /\ r = refs
    /\ \A b \in refs :
         /\ CheckedOut(trees, b) => CheckedOut(t, b)
         /\ trees[b] # None /\ trees[b].branch = b =>
              t[b] = trees[b] \/ \E p \in Parents(b) : Present(trees, p) /\ t[p] = None

LEMMA GoesSpares ==
    ASSUME SyncInv, NEW p, NEW q \in Branches, NEW t, Goes(p, q, t),
           trees[p].branch = p => p \notin refs
    PROVE  Spares(t, refs)
<1>1. /\ p \in Branches /\ p # q /\ trees[p] # None /\ trees[q] = None /\ t = Carried(p, q)
      /\ trees \in [Branches -> Trees \cup {None}] /\ refs \subseteq Branches
      /\ Present(trees, p)
  BY DEF Goes, Present, SyncInv, PlacesOK
<1>2. ASSUME NEW r \in Branches, r # p, trees[r] # None
      PROVE  /\ t[r] # None /\ t[r].branch = trees[r].branch
             /\ t[r] = trees[r] \/ In(r, p)
  <2>1. trees[r] \in Trees /\ r # q
    BY <1>1, <1>2
  <2>2. t[r] = trees[r] \/ (In(r, p) /\ t[r] = [trees[r] EXCEPT !.gone = TRUE])
    BY <1>1, <1>2, <2>1 DEF Carried
  <2>3. [trees[r] EXCEPT !.gone = TRUE] \in Trees
    BY <2>1 DEF Trees
  <2>4. [trees[r] EXCEPT !.gone = TRUE].branch = trees[r].branch
    BY <2>1 DEF Trees
  <2> QED BY <1>2, <2>2, <2>3, <2>4, NoneAssumption
<1>3. t[q] = trees[p] /\ t[p] = None
  BY <1>1 DEF Carried
<1>4. ASSUME NEW b \in refs, CheckedOut(trees, b)
      PROVE  CheckedOut(t, b)
  <2>1. PICK r \in Branches : trees[r] # None /\ trees[r].branch = b
    BY <1>4 DEF CheckedOut
  <2>2. CASE r = p
    BY <1>1, <1>3, <2>1, <2>2 DEF CheckedOut
  <2>3. CASE r # p
    BY <1>2, <2>1, <2>3 DEF CheckedOut
  <2> QED BY <2>2, <2>3
<1>5. ASSUME NEW b \in refs, trees[b] # None, trees[b].branch = b
      PROVE  t[b] = trees[b] \/ \E r \in Parents(b) : Present(trees, r) /\ t[r] = None
  <2>1. b \in Branches /\ b # p
    BY <1>1, <1>5
  <2>2. t[b] = trees[b] \/ In(b, p)
    BY <1>2, <1>5, <2>1
  <2>3. In(b, p) => p \in Parents(b)
    BY <1>1 DEF Parents
  <2> QED BY <1>1, <1>3, <2>2, <2>3
<1> QED BY <1>4, <1>5 DEF Spares

LEMMA SameSpares == Spares(trees, refs)
  BY DEF Spares

LEMMA AddedSpares ==
    ASSUME SyncInv, NEW q \in Branches, trees[q] = None,
           NEW t, t = [trees EXCEPT ![q] = Fresh(q)]
    PROVE  Spares(t, refs)
<1>1. trees \in [Branches -> Trees \cup {None}] /\ refs \subseteq Branches
  BY DEF SyncInv, PlacesOK
<1>2. \A r \in Branches : r # q => t[r] = trees[r]
  BY <1>1
<1>3. ASSUME NEW b \in refs, CheckedOut(trees, b)
      PROVE  CheckedOut(t, b)
  BY <1>2, <1>3 DEF CheckedOut
<1>4. \A b \in refs : trees[b] # None => t[b] = trees[b]
  BY <1>1, <1>2
<1> QED BY <1>3, <1>4 DEF Spares

LEMMA NotedFields ==
    ASSUME NEW k, SyncOK(k), k.pc \in Phases, NEW x \in k.todo
    PROVE  /\ Noted(k, x).calm = k.calm /\ Noted(k, x).pc = k.pc
           /\ Noted(k, x).want = k.want /\ Noted(k, x).todo = k.todo
           /\ Noted(k, x).renamed = k.renamed /\ Noted(k, x).created = k.created
           /\ Noted(k, x).destroyed = k.destroyed
           /\ k.pc = "rename" => Noted(k, x).cur = [k.cur EXCEPT ![x[1]] = None, ![x[2]] = x[2]]
           /\ k.pc \in {"destroy", "stale"} => Noted(k, x).cur = [k.cur EXCEPT ![x] = None]
           /\ k.pc \in {"create", "move", "missing"} => Noted(k, x).cur = [k.cur EXCEPT ![x] = x]
<1> DEFINE cur == IF k.pc = "rename" THEN [k.cur EXCEPT ![x[1]] = None, ![x[2]] = x[2]]
                  ELSE IF k.pc \in {"destroy", "stale"} THEN [k.cur EXCEPT ![x] = None]
                  ELSE [k.cur EXCEPT ![x] = x]
           new == [k EXCEPT !.cur = cur]
<1>1. Noted(k, x) = new
  BY DEF Noted, SyncOK, Syncs
<1>2. /\ k.pc = "rename" => cur = [k.cur EXCEPT ![x[1]] = None, ![x[2]] = x[2]]
      /\ k.pc \in {"destroy", "stale"} => cur = [k.cur EXCEPT ![x] = None]
      /\ k.pc \in {"create", "move", "missing"} => cur = [k.cur EXCEPT ![x] = x]
  OBVIOUS
<1> HIDE DEF cur
<1>3. /\ new.calm = k.calm /\ new.pc = k.pc /\ new.want = k.want /\ new.todo = k.todo
      /\ new.renamed = k.renamed /\ new.created = k.created /\ new.destroyed = k.destroyed
      /\ new.cur = cur
  BY DEF SyncOK, Syncs
<1> HIDE DEF new
<1> QED BY <1>1, <1>2, <1>3

\* What x is due for.
LEMMA DueFacts ==
    ASSUME NEW k, SyncOK(k), DueOK(k), k.pc \in Phases, NEW x \in k.todo
    PROVE  /\ k.pc = "rename" =>
                /\ x \in k.renamed /\ x[1] \in Branches /\ x[2] \in Branches
                /\ x[2] \in k.want /\ k.cur[x[1]] # None
           /\ k.pc \in {"destroy", "stale"} => x \in Branches /\ k.cur[x] # None /\ x \notin k.want
           /\ k.pc = "move" => x \in Branches /\ x \in k.want /\ k.cur[x] \notin {None, x}
           /\ k.pc \in {"create", "missing"} => x \in Branches /\ x \in k.want
<1>1. x \in Due(k, k.pc)
  BY DEF DueOK
<1>2. /\ k.pc = "rename" => x[1] \in Branches /\ x[2] \in Branches
      /\ k.pc # "rename" => x \in Branches
  BY TodoTyped
<1> QED BY <1>1, <1>2 DEF Due

\* A sync that goes by true snapshots leaves them true, and spares the others.
LEMMA CommandSnap ==
    ASSUME SyncInv, NEW k, SyncOK(k), SnapOK(k, trees, refs), k.calm, k.pc \in Phases,
           NEW x \in k.todo
    PROVE  LET o == Command(k, x)
           IN  /\ CurOK((IF o.ok THEN Noted(k, x) ELSE k).cur, k.want, o.trees)
               /\ o.refs = refs
               /\ (\A y \in k.renamed : y[1] \notin refs) => Spares(o.trees, o.refs)
<1> DEFINE o == Command(k, x)
           new == Noted(k, x).cur
<1>1. /\ k.want = refs /\ CurOK(k.cur, refs, trees) /\ DueOK(k)
      /\ k.cur \in [Branches -> Branches \cup {None}]
      /\ trees \in [Branches -> Trees \cup {None}]
  BY DEF SnapOK, CalmOK, SyncOK, Syncs, SyncInv, PlacesOK
<1>2. new \in [Branches -> Branches \cup {None}]
  BY NotedTyped DEF SyncOK, Syncs
<1>3. CASE k.pc = "rename"
  <2>1. /\ x \in k.renamed /\ x[1] \in Branches /\ x[2] \in Branches
        /\ x[2] \in refs /\ k.cur[x[1]] # None
    BY <1>1, <1>3, DueFacts
  <2>2. o = Moved(k.cur[x[1]], x[2])
    BY <1>3 DEF Command
  <2>3. new = [k.cur EXCEPT ![x[1]] = None, ![x[2]] = x[2]]
    BY <1>3, NotedFields
  <2>4. new[x[2]] = x[2] /\ \A b \in Branches \ {x[2]} : new[b] = IF b = x[1] THEN None ELSE k.cur[b]
    BY <1>1, <2>1, <2>3
  <2>5. /\ o.refs = refs
        /\ \/ o.trees = trees /\ (o.ok => k.cur[x[1]] = x[2])
           \/ o.ok /\ Goes(k.cur[x[1]], x[2], o.trees)
    BY <2>1, <2>2, MovedEffect
  <2> HIDE DEF o, new
  <2>6. CASE o.trees = trees /\ ~o.ok
    BY <2>6, <2>5, <1>1, SameSpares DEF o
  <2>7. CASE o.trees = trees /\ o.ok /\ k.cur[x[1]] = x[2]
    <3>1. CurOK(new, refs, o.trees)
      BY <2>7, <2>1, <2>4, <1>1, <1>2, StaysCur
    <3> QED BY <3>1, <2>7, <2>5, <1>1, SameSpares DEF o, new
  <2>8. CASE o.ok /\ Goes(k.cur[x[1]], x[2], o.trees)
    <3>1. CurOK(new, refs, o.trees)
      BY <2>8, <2>1, <2>4, <1>1, <1>2, GoesCur
    <3>2. (\A y \in k.renamed : y[1] \notin refs) => Spares(o.trees, refs)
      <4>1. ASSUME \A y \in k.renamed : y[1] \notin refs
            PROVE  trees[k.cur[x[1]]].branch \notin refs
        BY <4>1, <2>1, <1>1 DEF CurOK
      <4>2. ASSUME \A y \in k.renamed : y[1] \notin refs
            PROVE  Spares(o.trees, refs)
        BY <4>1, <4>2, <2>1, <2>8, GoesSpares
      <4> QED BY <4>2
    <3> QED BY <3>1, <3>2, <2>8, <2>5, <1>1 DEF o, new
  <2> QED BY <2>5, <2>6, <2>7, <2>8
<1>4. CASE k.pc = "move"
  <2>1. x \in Branches /\ x \in refs /\ k.cur[x] \notin {None, x}
    BY <1>1, <1>4, DueFacts
  <2>2. o = Moved(k.cur[x], x)
    BY <1>4 DEF Command
  <2>3. new = [k.cur EXCEPT ![x] = x]
    BY <1>4, NotedFields
  <2>4. new[x] = x /\ \A b \in Branches \ {x} : new[b] = IF b = x THEN None ELSE k.cur[b]
    BY <1>1, <2>1, <2>3
  <2>5. /\ o.refs = refs
        /\ \/ o.trees = trees /\ ~o.ok
           \/ o.ok /\ Goes(k.cur[x], x, o.trees)
    BY <2>1, <2>2, MovedEffect
  <2> HIDE DEF o, new
  <2>6. CASE o.trees = trees /\ ~o.ok
    BY <2>6, <2>5, <1>1, SameSpares DEF o
  <2>7. CASE o.ok /\ Goes(k.cur[x], x, o.trees)
    <3>1. CurOK(new, refs, o.trees)
      BY <2>7, <2>1, <2>4, <1>1, <1>2, GoesCur
    <3>2. trees[k.cur[x]].branch = x
      BY <2>1, <1>1 DEF CurOK
    <3>3. Spares(o.trees, refs)
      BY <3>2, <2>1, <2>7, GoesSpares
    <3> QED BY <3>1, <3>3, <2>7, <2>5, <1>1 DEF o, new
  <2> QED BY <2>5, <2>6, <2>7
<1>5. CASE k.pc \in {"destroy", "stale"}
  <2>1. x \in Branches /\ k.cur[x] # None /\ x \notin refs
    BY <1>1, <1>5, DueFacts
  <2>2. o = Destroyed(k.cur[x])
    BY <1>5 DEF Command
  <2>3. trees[k.cur[x]].branch = x
    BY <2>1, <1>1 DEF CurOK
  <2>4. x # None
    BY <2>1, WorktreeAssumption
  <2>5. o.trees = trees /\ ~o.ok /\ o.refs = refs
    BY <2>1, <2>2, <2>3, <2>4, DestroyedEffect
  <2> HIDE DEF o
  <2> QED BY <2>5, <1>1, SameSpares DEF o
<1>6. CASE k.pc \in {"create", "missing"}
  <2>1. x \in Branches /\ x \in refs
    BY <1>1, <1>6, DueFacts
  <2>2. o = Created(x, TRUE) \/ o = Created(x, FALSE)
    BY <1>6 DEF Command
  <2>3. new = [k.cur EXCEPT ![x] = x]
    BY <1>6, NotedFields
  <2>4. /\ o.refs = refs
        /\ \/ o.trees = trees /\ ~o.ok
           \/ trees[x] = None /\ o.ok /\ o.trees = [trees EXCEPT ![x] = Fresh(x)]
    <3> HIDE DEF o
    <3>1. ASSUME NEW create, o = Created(x, create)
          PROVE  /\ o.refs = refs
                 /\ \/ o.trees = trees /\ ~o.ok
                    \/ trees[x] = None /\ o.ok /\ o.trees = [trees EXCEPT ![x] = Fresh(x)]
      <4>1. x \in refs
        BY <2>1
      <4>2. /\ Created(x, create).refs = refs
            /\ \/ Created(x, create).trees = trees /\ ~Created(x, create).ok
               \/ /\ trees[x] = None /\ Created(x, create).ok
                  /\ Created(x, create).trees = [trees EXCEPT ![x] = Fresh(x)]
        BY <4>1, CreatedEffect
      <4> QED BY <3>1, <4>2
    <3> QED BY <2>2, <3>1
  <2> HIDE DEF o, new
  <2>5. CASE o.trees = trees /\ ~o.ok
    BY <2>4, <2>5, <1>1, SameSpares DEF o
  <2>6. CASE trees[x] = None /\ o.ok /\ o.trees = [trees EXCEPT ![x] = Fresh(x)]
    <3>1. CurOK(new, refs, o.trees)
      BY <2>6, <2>1, <2>3, <1>1, AddedCur
    <3>2. Spares(o.trees, refs)
      BY <2>1, <2>6, AddedSpares
    <3> QED BY <3>1, <3>2, <2>4, <2>6, <1>1 DEF o, new
  <2> QED BY <2>4, <2>5, <2>6
<1> QED BY <1>3, <1>4, <1>5, <1>6 DEF Phases

\* After a command the sync goes on from snapshots that are as true as before.
LEMMA DoneSnap ==
    ASSUME SyncInv, NEW k, SyncOK(k), SnapOK(k, trees, refs), k.pc \in Phases, NEW x \in k.todo
    PROVE  LET o == Command(k, x)
               e == Done(IF o.ok THEN Noted(k, x) ELSE k, x)
           IN  /\ SnapOK(e, o.trees, o.refs)
               /\ e.pc # k.pc \/ e.todo # k.todo
<1> DEFINE o == Command(k, x)
           n == IF o.ok THEN Noted(k, x) ELSE k
           e == Done(n, x)
<1>1. /\ SyncOK(n) /\ n.pc = k.pc /\ n.todo = k.todo /\ n.want = k.want /\ n.calm = k.calm
  BY NotedTyped, NotedFields
<1>2. k.pc \notin {"rename", "destroy", "create"} => n.todo \ {x} \subseteq Due(n, n.pc)
  <2>1. k.todo \ {x} \subseteq Due(k, k.pc)
    BY DEF SnapOK, DueOK
  <2>2. CASE ~o.ok
    BY <2>1, <2>2
  <2>3. CASE o.ok /\ k.pc = "stale"
    <3>1. n.cur = [k.cur EXCEPT ![x] = None] /\ n.pc = "stale"
      BY <2>3, <1>1, NotedFields
    <3>2. \A b \in k.todo \ {x} : b \in Branches /\ k.cur[b] # None /\ b \notin k.want
      BY <2>1, <2>3 DEF Due
    <3>3. k.cur \in [Branches -> Branches \cup {None}]
      BY DEF SyncOK, Syncs
    <3> HIDE DEF n, o
    <3> QED BY <1>1, <3>1, <3>2, <3>3 DEF Due
  <2>4. CASE o.ok /\ k.pc = "move"
    <3>1. n.cur = [k.cur EXCEPT ![x] = x] /\ n.pc = "move"
      BY <2>4, <1>1, NotedFields
    <3>2. \A b \in k.todo \ {x} : b \in Branches /\ b \in k.want /\ k.cur[b] \notin {None, b}
      BY <2>1, <2>4, TodoTyped DEF Due
    <3>3. k.cur \in [Branches -> Branches \cup {None}]
      BY DEF SyncOK, Syncs
    <3> HIDE DEF n, o
    <3> QED BY <1>1, <3>1, <3>2, <3>3 DEF Due
  <2>5. CASE o.ok /\ k.pc = "missing"
    <3>1. n.cur = [k.cur EXCEPT ![x] = x] /\ n.pc = "missing"
      BY <2>5, <1>1, NotedFields
    <3>2. \A b \in k.todo \ {x} : b \in Branches /\ b \in k.want /\ k.cur[b] = None
      BY <2>1, <2>5, TodoTyped DEF Due
    <3>3. k.cur \in [Branches -> Branches \cup {None}]
      BY DEF SyncOK, Syncs
    <3> HIDE DEF n, o
    <3> QED BY <1>1, <3>1, <3>2, <3>3 DEF Due
  <2> QED BY <2>2, <2>3, <2>4, <2>5 DEF Phases
<1>3. CalmOK(n, o.trees, o.refs)
  <2>1. CASE ~k.calm
    BY <2>1, <1>1 DEF CalmOK
  <2>2. CASE k.calm
    <3>1. CurOK(n.cur, k.want, o.trees) /\ o.refs = refs
      BY <2>2, CommandSnap
    <3>2. k.want = refs
      BY <2>2 DEF SnapOK, CalmOK
    <3> HIDE DEF n, o
    <3> QED BY <3>1, <3>2, <1>1 DEF CalmOK, Phases
  <2> QED BY <2>1, <2>2
<1> HIDE DEF n, o
<1>4. Follows(n, e) /\ (e.pc # n.pc \/ e.todo # n.todo)
  BY <1>1, <1>2, DoneFollows
<1> HIDE DEF e
<1>5. SnapOK(e, o.trees, o.refs)
  BY <1>1, <1>3, <1>4, FollowsSnap
<1> QED BY <1>1, <1>4, <1>5 DEF e, n, o

\* The same after one that fails of itself.
LEMMA BrokenSnap ==
    ASSUME NEW k, SyncOK(k), SnapOK(k, trees, refs), k.pc \in Phases, NEW x \in k.todo
    PROVE  /\ Broken(k, x).trees = trees /\ Broken(k, x).refs = refs
           /\ SnapOK(Done(k, x), trees, refs)
<1>1. Broken(k, x).trees = trees /\ Broken(k, x).refs = refs
  <2> DEFINE above == MakeParents(trees, dirs, Subject(k, x))
  <2>1. Broken(k, x) = Nothing \/ Broken(k, x) = Left(trees, above, FALSE)
    BY DEF Broken
  <2> HIDE DEF above
  <2> QED BY <2>1 DEF Nothing, Left
<1>2. k.todo \ {x} \subseteq Due(k, k.pc)
  BY DEF SnapOK, DueOK
<1>3. Follows(k, Done(k, x))
  BY <1>2, DoneFollows
<1> QED BY <1>1, <1>3, FollowsSnap DEF SnapOK

-----------------------------------------------------------------------------
(* The steps.                                                              *)

\* A step of the sync of h leaves the record of another as j, but for the hook
\* that this one waits for.
Rests(j, g, same) ==
    \/ j.pc \in {"idle", "current"}
    \/ j = Uncalm(sync[g])
    \/ j = sync[g] /\ same

\* The hook's own record after its step, and those of the others.
LEMMA BecomesSyncs ==
    ASSUME SyncInv, NEW h \in Hooks, NEW k, SyncOK(k), NEW o, Outcomes(o), Becomes(h, k, o)
    PROVE  /\ trees' = o.trees /\ refs' = o.refs
           /\ sync'[h].pc = k.pc /\ sync'[h].todo = k.todo
           /\ sync'[h] = k \/ \E c : sync'[h] = WithChild(k, c)
           /\ \A g \in Hooks \ {h} : \E j \in Syncs :
                /\ sync'[g] = j \/ \E c : sync'[g] = WithChild(j, c)
                /\ Rests(j, g, o.trees = trees /\ o.refs = refs)
<1> DEFINE put == [sync EXCEPT ![h] = k]
           same == o.trees = trees /\ o.dirs = dirs /\ o.refs = refs
           s == IF same THEN put ELSE Disturbed(put, h)
<1>1. /\ trees' = o.trees /\ dirs' = o.dirs /\ refs' = o.refs
      /\ IF o.ran = None \/ FreeHooks(sync) \ {h} = {} THEN sync' = s
         ELSE \E g \in FreeHooks(sync) \ {h} :
                 sync' = [WaitedFor(s, h, g) EXCEPT
                     ![g] = Intends(o.ran, {}, [b \in o.ran |-> 0])]
  BY DEF Becomes
<1>2. sync \in [Hooks -> Syncs] /\ k \in Syncs
  BY DEF SyncInv, HooksOK, SyncOK
<1>3. put[h] = k /\ \A g \in Hooks \ {h} : put[g] = sync[g]
  BY <1>2
<1>4. /\ DOMAIN s = Hooks
      /\ s[h] = k
      /\ \A g \in Hooks \ {h} : Rests(s[g], g, same) /\ s[g] \in Syncs
  <2>1. CASE same
    BY <2>1, <1>2, <1>3 DEF Rests
  <2>2. CASE ~same
    <3>1. s = Disturbed(put, h)
      BY <2>2
    <3>2. \A g \in Hooks : Uncalm(sync[g]) \in Syncs
      BY <1>2 DEF Uncalm, Syncs
    <3> HIDE DEF put, s, same
    <3> QED BY <1>2, <1>3, <3>1, <3>2 DEF Disturbed, Uncalm, Rests
  <2> QED BY <2>1, <2>2
<1>5. \A g, j : Rests(j, g, same) => Rests(j, g, o.trees = trees /\ o.refs = refs)
  BY DEF Rests
<1> HIDE DEF s, put, same
<1>6. CASE o.ran = None \/ FreeHooks(sync) \ {h} = {}
  <2>1. sync' = s
    BY <1>1, <1>6
  <2> QED BY <1>1, <1>4, <1>5, <2>1
<1>7. CASE ~(o.ran = None \/ FreeHooks(sync) \ {h} = {})
  <2>1. PICK f \in FreeHooks(sync) \ {h} :
           sync' = [WaitedFor(s, h, f) EXCEPT ![f] = Intends(o.ran, {}, [b \in o.ran |-> 0])]
    BY <1>7, <1>1
  <2> DEFINE w == WaitedFor(s, h, f)
             j == Intends(o.ran, {}, [b \in o.ran |-> 0])
  <2>2. f \in Hooks /\ f # h
    BY DEF FreeHooks
  <2>3. j.pc = "current" /\ j \in Syncs
    BY <1>7, IntendsTyped DEF Outcomes, SyncOK
  <2>4. DOMAIN w = Hooks /\ \A g \in Hooks : w[g] = s[g] \/ w[g] = WithChild(s[g], f)
    BY DEF WaitedFor, WithChild
  <2>5. sync' = [w EXCEPT ![f] = j]
    BY <2>1
  <2> HIDE DEF j, w
  <2>6. sync'[f] = j /\ \A g \in Hooks \ {f} : sync'[g] = w[g]
    BY <2>2, <2>4, <2>5
  <2>7. sync'[h] = k \/ sync'[h] = WithChild(k, f)
    BY <1>4, <2>2, <2>4, <2>6
  <2>8. sync'[h].pc = k.pc /\ sync'[h].todo = k.todo
    BY <2>7, <1>2 DEF Syncs, WithChild
  <2>9. ASSUME NEW g \in Hooks \ {h}
        PROVE  \E i \in Syncs :
                 /\ sync'[g] = i \/ \E c : sync'[g] = WithChild(i, c)
                 /\ Rests(i, g, o.trees = trees /\ o.refs = refs)
    <3>1. CASE g = f
      BY <3>1, <2>3, <2>6 DEF Rests
    <3>2. CASE g # f
      <4>1. sync'[g] = s[g] \/ sync'[g] = WithChild(s[g], f)
        BY <3>2, <2>4, <2>6
      <4> QED BY <4>1, <1>4, <1>5
    <3> QED BY <3>1, <3>2
  <2> QED BY <1>1, <2>7, <2>8, <2>9
<1> QED BY <1>6, <1>7

LEMMA BecomesSnap ==
    ASSUME SnapInv, NEW h \in Hooks, NEW k, SyncOK(k), NEW o, Outcomes(o), Becomes(h, k, o),
           SnapOK(k, o.trees, o.refs), uses' \in Nat
    PROVE  SnapInv'
<1>1. SyncInv /\ SyncInv'
  BY BecomesTyped DEF SnapInv
<1>2. /\ trees' = o.trees /\ refs' = o.refs
      /\ sync'[h] = k \/ \E c : sync'[h] = WithChild(k, c)
      /\ \A g \in Hooks \ {h} : \E j \in Syncs :
           /\ sync'[g] = j \/ \E c : sync'[g] = WithChild(j, c)
           /\ Rests(j, g, o.trees = trees /\ o.refs = refs)
  BY <1>1, BecomesSyncs
<1>3. SnapOK(sync'[h], trees', refs')
  BY <1>2, ChildSnap DEF SyncOK
<1>4. ASSUME NEW g \in Hooks \ {h}
      PROVE  SnapOK(sync'[g], trees', refs')
  <2>1. SnapOK(sync[g], trees, refs) /\ sync[g] \in Syncs
    BY DEF SnapInv, SyncInv, HooksOK
  <2>2. PICK j \in Syncs :
          /\ sync'[g] = j \/ \E c : sync'[g] = WithChild(j, c)
          /\ Rests(j, g, o.trees = trees /\ o.refs = refs)
    BY <1>2
  <2>3. SnapOK(j, trees', refs')
    <3>1. CASE j.pc \in {"idle", "current"}
      BY <3>1, RestingSnap
    <3>2. CASE j = Uncalm(sync[g])
      BY <2>1, <3>2, DisturbedSnap DEF SnapOK
    <3>3. CASE j = sync[g] /\ o.trees = trees /\ o.refs = refs
      BY <1>2, <2>1, <3>3
    <3> QED BY <2>2, <3>1, <3>2, <3>3 DEF Rests
  <2> QED BY <2>2, <2>3, ChildSnap
<1>5. \A g \in Hooks : SnapOK(sync'[g], trees', refs')
  BY <1>3, <1>4
<1> QED BY <1>1, <1>5 DEF SnapInv, SnapOK, DueOK, Due, CalmOK, CurOK

\* One sync changes, and nothing it or another goes by.
LEMMA SetSnap ==
    ASSUME SnapInv, SyncInv', UNCHANGED <<trees, refs>>, uses' \in Nat,
           NEW h \in Hooks, NEW k, sync' = [sync EXCEPT ![h] = k], SnapOK(k, trees, refs)
    PROVE  SnapInv'
<1>1. sync \in [Hooks -> Syncs] /\ \A g \in Hooks : SnapOK(sync[g], trees, refs)
  BY DEF SnapInv, SyncInv, HooksOK
<1>2. \A g \in Hooks : SnapOK(sync'[g], trees', refs')
  BY <1>1
<1> QED BY <1>2 DEF SnapInv, SnapOK, DueOK, Due, CalmOK, CurOK

\* What users do disturbs every sync.
LEMMA UserSnap ==
    ASSUME SnapInv, SyncInv', uses' \in Nat,
           \A g \in Hooks : sync'[g] = All(sync)[g] \/ sync'[g].pc \in {"idle", "current"}
    PROVE  SnapInv'
<1>1. ASSUME NEW g \in Hooks PROVE SnapOK(sync'[g], trees', refs')
  <2>1. sync[g] \in Syncs /\ DueOK(sync[g])
    BY DEF SnapInv, SyncInv, HooksOK, SnapOK
  <2>2. None \notin Hooks
    BY WorktreeAssumption
  <2>3. sync'[g].pc \in {"idle", "current"} \/ sync'[g] = Uncalm(sync[g])
    BY <2>2 DEF All, Disturbed, Uncalm
  <2> QED BY <2>1, <2>3, RestingSnap, DisturbedSnap
<1> QED BY <1>1 DEF SnapInv, SnapOK, DueOK, Due, CalmOK, CurOK

LEMMA StartSnap == WtInit => SnapInv
<1> SUFFICES ASSUME WtInit PROVE SnapInv
  OBVIOUS
<1>1. uses \in Nat /\ \A h \in Hooks : sync[h] = Idle
  BY DEF WtInit
<1>2. \A h \in Hooks : SnapOK(sync[h], trees, refs)
  BY <1>1, IdleTyped, RestingSnap
<1> QED BY <1>1, <1>2, StartTyped DEF SnapInv

LEMMA ReadCurrentSnap ==
    ASSUME SnapInv, NEW h \in Hooks, ReadCurrent(h)
    PROVE  SnapInv'
<1> DEFINE cur == [b \in Branches |-> IF Places(b) = {} THEN None ELSE CHOOSE p \in Places(b) : TRUE]
           k == [sync[h] EXCEPT !.pc = "branches", !.cur = cur, !.calm = TRUE]
<1>1. sync[h] \in Syncs /\ uses \in Nat /\ SyncInv
  BY DEF SnapInv, SyncInv, HooksOK
<1>2. \A b \in Branches : cur[b] # None => cur[b] \in Places(b)
  OBVIOUS
<1>3. /\ sync' = [sync EXCEPT ![h] = IF Readable THEN k ELSE Idle]
      /\ UNCHANGED <<refs, trees, uses>>
  BY DEF ReadCurrent
<1> HIDE DEF cur
<1>4. \A b \in Branches : cur[b] # None => trees[cur[b]] # None /\ trees[cur[b]].branch = b
  BY <1>2 DEF Places
<1>5. CurOK(cur, {}, trees)
  BY <1>4 DEF CurOK
<1>6. k.pc = "branches" /\ k.cur = cur
  BY <1>1 DEF Syncs
<1> HIDE DEF k
<1>7. SnapOK(k, trees, refs)
  BY <1>5, <1>6 DEF SnapOK, DueOK, CalmOK, Phases
<1>8. SnapOK(Idle, trees, refs)
  BY IdleTyped, RestingSnap
<1>9. SyncInv'
  BY <1>1, ReadCurrentTyped
<1> QED BY <1>1, <1>3, <1>7, <1>8, <1>9, SetSnap

LEMMA ReadBranchesSnap ==
    ASSUME SnapInv, NEW h \in Hooks, ReadBranches(h)
    PROVE  SnapInv'
<1> DEFINE k == [sync[h] EXCEPT !.want = refs]
<1>1. /\ sync[h] \in Syncs /\ uses \in Nat /\ SyncInv /\ refs \subseteq Branches
      /\ SnapOK(sync[h], trees, refs)
  BY DEF SnapInv, SyncInv, HooksOK
<1>2. /\ sync[h].pc = "branches" /\ sync' = [sync EXCEPT ![h] = Enter(k, 1)]
      /\ UNCHANGED <<refs, trees, uses>>
  BY DEF ReadBranches
<1>3. k \in Syncs /\ k.cur = sync[h].cur /\ k.calm = sync[h].calm /\ k.want = refs
  BY <1>1 DEF Syncs
<1> HIDE DEF k
<1>4. k.calm => CurOK(k.cur, refs, trees)
  BY <1>1, <1>2, <1>3 DEF SnapOK, CalmOK, CurOK
<1>5. Follows(k, Enter(k, 1))
  BY <1>3, EnterFollows
<1>6. SnapOK(Enter(k, 1), trees, refs)
  BY <1>3, <1>4, <1>5, RestingSnap DEF Follows, SnapOK, CalmOK, Phases
<1>7. SyncInv'
  BY <1>1, ReadBranchesTyped
<1> QED BY <1>1, <1>2, <1>6, <1>7, SetSnap

\* A sync that is in a phase, without the hook it waited for.
LEMMA InPhase ==
    ASSUME SnapInv, NEW h \in Hooks, sync[h].pc \notin {"idle", "current", "branches"}
    PROVE  LET k == WithChild(sync[h], None)
           IN  /\ SyncOK(k) /\ SnapOK(k, trees, refs) /\ k.pc \in Phases
               /\ k.pc = sync[h].pc /\ k.todo = sync[h].todo
               /\ k.calm = sync[h].calm /\ k.renamed = sync[h].renamed
<1> DEFINE k == WithChild(sync[h], None)
<1>1. sync[h] \in Syncs /\ SnapOK(sync[h], trees, refs) /\ HooksOK(sync)
  BY DEF SnapInv, SyncInv, HooksOK
<1>2. SyncOK(k)
  BY <1>1, ChildForgotten DEF WithChild
<1>3. SnapOK(k, trees, refs)
  BY <1>1, ChildSnap
<1>4. /\ k.pc = sync[h].pc /\ k.todo = sync[h].todo
      /\ k.calm = sync[h].calm /\ k.renamed = sync[h].renamed
  BY <1>1 DEF WithChild, Syncs
<1>5. k.pc \in Phases
  BY <1>1, <1>4 DEF Syncs
<1> QED BY <1>2, <1>3, <1>4, <1>5

LEMMA ConvergeSnap ==
    ASSUME SnapInv, NEW h \in Hooks, Converge(h)
    PROVE  /\ SnapInv'
           /\ Acts(h)
           /\ UpToDate(h) => Spares(trees', refs')
<1> DEFINE k == WithChild(sync[h], None)
<1>1. PICK x \in Next1(k) :
        Becomes(h, Done(IF Command(k, x).ok THEN Noted(k, x) ELSE k, x), Command(k, x))
  BY DEF Converge, WithChild
<1>2. sync[h].pc \notin {"idle", "current", "branches"} /\ uses' = uses
  <2>1. [sync[h] EXCEPT !.child = None].pc = sync[h].pc
    BY ChildForgotten DEF SnapInv, SyncInv
  <2> QED BY <2>1 DEF Converge
<1>3. /\ SyncOK(k) /\ SnapOK(k, trees, refs) /\ k.pc \in Phases
      /\ k.pc = sync[h].pc /\ k.todo = sync[h].todo
      /\ k.calm = sync[h].calm /\ k.renamed = sync[h].renamed
  BY <1>2, InPhase
<1>4. SyncInv /\ uses' \in Nat /\ sync[h] \in Syncs
  BY <1>2 DEF SnapInv, SyncInv, HooksOK
<1> HIDE DEF k
<1> DEFINE o == Command(k, x)
           e == Done(IF o.ok THEN Noted(k, x) ELSE k, x)
<1>5. x \in k.todo
  BY NextIsTodo
<1>6. SnapOK(e, o.trees, o.refs) /\ (e.pc # k.pc \/ e.todo # k.todo)
  BY <1>3, <1>4, <1>5, DoneSnap
<1>7. Outcomes(o)
  BY <1>3, <1>4, <1>5, CommandTyped
<1>8. SyncOK(e)
  BY <1>3, <1>5, NotedTyped, DoneTyped
<1>9. k.calm /\ (\A y \in k.renamed : y[1] \notin refs) => Spares(o.trees, o.refs)
  BY <1>3, <1>4, <1>5, CommandSnap
<1>10. Becomes(h, e, o)
  BY <1>1
<1> HIDE DEF o, e
<1>11. /\ trees' = o.trees /\ refs' = o.refs
       /\ sync'[h].pc = e.pc /\ sync'[h].todo = e.todo
  BY <1>4, <1>7, <1>8, <1>10, BecomesSyncs
<1>12. SnapInv'
  BY <1>4, <1>6, <1>7, <1>8, <1>10, BecomesSnap
<1>13. Acts(h)
  <2>1. sync'[h] \in Syncs
    BY <1>12 DEF SnapInv, SyncInv, HooksOK
  <2>2. /\ [sync'[h] EXCEPT !.calm = TRUE].pc = e.pc
        /\ [sync'[h] EXCEPT !.calm = TRUE].todo = e.todo
        /\ [sync[h] EXCEPT !.calm = TRUE].pc = k.pc
        /\ [sync[h] EXCEPT !.calm = TRUE].todo = k.todo
    BY <1>3, <1>4, <1>11, <2>1 DEF Syncs
  <2> QED BY <1>2, <1>6, <2>2 DEF Acts
<1>14. UpToDate(h) => Spares(trees', refs')
  BY <1>3, <1>9, <1>11 DEF UpToDate
<1> QED BY <1>12, <1>13, <1>14

LEMMA SyncFailsSnap ==
    ASSUME SnapInv, NEW h \in Hooks, SyncFails(h)
    PROVE  SnapInv' /\ UNCHANGED <<trees, refs>>
<1> DEFINE k == WithChild(sync[h], None)
<1>1. SyncInv /\ SyncInv' /\ uses' \in Nat
  BY SyncFailsTyped DEF SnapInv, SyncFails
<1>2. CASE sync' = [sync EXCEPT ![h] = Idle] /\ UNCHANGED <<refs, trees, dirs>>
  <2>1. SnapOK(Idle, trees, refs)
    BY IdleTyped, RestingSnap
  <2> QED BY <1>1, <1>2, <2>1, SetSnap
<1>3. CASE /\ k.pc \notin {"idle", "current", "branches"}
           /\ \E x \in Next1(k) : Becomes(h, Done(k, x), Broken(k, x))
  <2>1. PICK x \in Next1(k) : Becomes(h, Done(k, x), Broken(k, x))
    BY <1>3
  <2>2. k.pc = sync[h].pc
    BY ChildForgotten DEF SnapInv, SyncInv, WithChild
  <2>3. SyncOK(k) /\ SnapOK(k, trees, refs) /\ k.pc \in Phases
    BY <1>3, <2>2, InPhase
  <2> HIDE DEF k
  <2>4. x \in k.todo
    BY NextIsTodo
  <2>5. /\ Broken(k, x).trees = trees /\ Broken(k, x).refs = refs
        /\ SnapOK(Done(k, x), trees, refs)
    BY <2>3, <2>4, BrokenSnap
  <2>6. SyncOK(Done(k, x)) /\ Outcomes(Broken(k, x))
    BY <1>1, <2>3, DoneTyped, BrokenTyped
  <2>7. SnapInv'
    BY <1>1, <2>1, <2>5, <2>6, BecomesSnap
  <2>8. trees' = trees /\ refs' = refs
    BY <1>1, <2>1, <2>5, <2>6, BecomesSyncs
  <2> QED BY <2>7, <2>8
<1> QED BY <1>2, <1>3 DEF SyncFails, WithChild

LEMMA SyncKilledSnap ==
    ASSUME SnapInv, NEW h \in Hooks, SyncKilled(h)
    PROVE  SnapInv' /\ UNCHANGED <<trees, refs>>
<1>1. SyncInv' /\ uses' \in Nat
  BY SyncKilledTyped DEF SnapInv, SyncKilled
<1>2. SnapOK(Idle, trees, refs)
  BY IdleTyped, RestingSnap
<1> QED BY <1>1, <1>2, SetSnap DEF SyncKilled

LEMMA TransactionSnap ==
    ASSUME SnapInv, NEW h \in Hooks, NEW C, C \subseteq Branches, NEW D, NEW object,
           Transaction(h, C, D, object)
    PROVE  SnapInv' /\ uses' # uses
<1>1. SyncInv' /\ uses' \in Nat /\ uses' # uses
  <2>1. SyncInv /\ uses \in Nat /\ uses' = uses + 1
    BY DEF SnapInv, Transaction, Use
  <2>2. SyncInv'
    BY <2>1, TransactionTyped
  <2> QED BY <2>1, <2>2
<1>2. Intends(C, D, object).pc = "current"
  BY IntendsTyped DEF SnapInv, SyncInv, Transaction
<1>3. sync' = [All(sync) EXCEPT ![h] = Intends(C, D, object)] /\ DOMAIN All(sync) = Hooks
  BY DEF Transaction, Use, All, Disturbed
<1>4. \A g \in Hooks : sync'[g] = All(sync)[g] \/ sync'[g].pc \in {"idle", "current"}
  BY <1>2, <1>3
<1> QED BY <1>1, <1>4, UserSnap

\* Every step keeps the invariant, and obeys what the property says of steps.
Decides ==
    uses' = uses /\ (trees' # trees \/ refs' # refs) =>
        \E h \in Hooks : Acts(h) /\ (UpToDate(h) => Spares(trees', refs'))

LEMMA StepSnap ==
    ASSUME SnapInv, [SyncNext]_syncVars
    PROVE  SnapInv' /\ Decides
<1>1. SyncInv /\ SyncInv' /\ uses \in Nat
  BY StepTyped DEF SnapInv
<1>2. CASE \E h \in Hooks : ReadCurrent(h)
  BY <1>2, ReadCurrentSnap DEF ReadCurrent, Decides
<1>3. CASE \E h \in Hooks : ReadBranches(h)
  BY <1>3, ReadBranchesSnap DEF ReadBranches, Decides
<1>4. CASE \E h \in Hooks : Converge(h)
  BY <1>4, ConvergeSnap DEF Decides
<1>5. CASE \E h \in Hooks : SyncFails(h) \/ SyncKilled(h)
  BY <1>5, SyncFailsSnap, SyncKilledSnap DEF Decides
<1>6. CASE \E h \in Hooks, C, D \in SUBSET Branches :
             \E object \in [C \cup D -> {0, 1}] : Transaction(h, C, D, object)
  BY <1>6, TransactionSnap DEF Decides
<1>7. CASE sync' = All(sync) /\ uses' = uses + 1
  <2>1. \A g \in Hooks : sync'[g] = All(sync)[g] \/ sync'[g].pc \in {"idle", "current"}
    BY <1>7
  <2>2. uses' \in Nat /\ uses' # uses
    BY <1>1, <1>7
  <2> QED BY <1>1, <2>1, <2>2, UserSnap DEF Decides
<1>8. CASE \E b, c \in Branches : FinishRename(b, c)
  BY <1>7, <1>8 DEF FinishRename, Use
<1>9. CASE \E p \in Branches, b \in Branches \cup {None} : Switch(p, b)
  BY <1>7, <1>9 DEF Switch, Use
<1>10. CASE \E p \in Branches : Edit(p) \/ RemoveDirectory(p)
  BY <1>7, <1>10 DEF Edit, RemoveDirectory, Use
<1>11. CASE UNCHANGED syncVars
  <2>1. /\ UNCHANGED <<trees, refs, sync, uses>> /\ SnapInv
    BY <1>11 DEF syncVars
  <2>2. \A h \in Hooks : SnapOK(sync'[h], trees', refs')
    BY <2>1 DEF SnapInv
  <2> QED BY <1>1, <2>1, <2>2
       DEF SnapInv, SnapOK, DueOK, Due, CalmOK, CurOK, Decides
<1> QED BY <1>2, <1>3, <1>4, <1>5, <1>6, <1>8, <1>9, <1>10, <1>11 DEF SyncNext, SyncStep

\* Whatever interleaves with it, a sync whose snapshots are still true makes no
\* branch, takes no branch's worktree away, and leaves the one in its place as
\* it is (sync_worktrees(), with every command and every phase of it).
THEOREM UndisturbedSpares == SyncSpec => SnapshotsDecide
<1>1. SnapInv /\ [SyncNext]_syncVars => SnapInv'
  BY StepSnap
<1>2. SnapInv /\ [SyncNext]_syncVars =>
        [uses' = uses /\ (trees' # trees \/ refs' # refs) =>
             \E h \in Hooks :
                 /\ Acts(h)
                 /\ UpToDate(h) =>
                      /\ refs' = refs
                      /\ \A b \in refs :
                           /\ CheckedOut(trees, b) => CheckedOut(trees', b)
                           /\ trees[b] # None /\ trees[b].branch = b =>
                                trees'[b] = trees[b] \/ \E p \in Parents(b) : MovedAway(p)]_syncVars
  BY StepSnap DEF Decides, Spares, MovedAway
<1> QED BY StartSnap, <1>1, <1>2, PTL DEF SyncSpec, SnapshotsDecide

-----------------------------------------------------------------------------
(***************************************************************************)
(* Every branch is served.  While the property speaks, the syncs at work   *)
(* are one family: a sync and the hooks run in its commands.  One of them  *)
(* acts, the others wait.  A branch that has neither a worktree nor        *)
(* something in its place is awaited by one of them, which will come to it *)
(* in its last phase.  A step of a sync that takes a place away is a move, *)
(* before that phase; a sync moves a branch's own worktree only, since     *)
(* where it has noted a branch, that branch is or has gone to its place.   *)
(***************************************************************************)
Early == {"branches", "rename", "destroy", "create", "stale", "move"}

Active(h) == sync[h].pc # "idle"

Holds(t, p, b) == t[p] # None /\ t[p].branch = b

\* The branch has a worktree, or its place is taken.
ServedIn(t, d, b) == CheckedOut(t, b) \/ t[b] # None \/ There(t, d, b)

\* The sync k will try to make the worktree of branch b.
Awaits(k, b) ==
    \/ k.pc \in Early /\ k.cur[b] = None
    \/ k.pc = "missing" /\ b \in k.todo

\* A sync that has run a hook is past its renames: what waits for it is left of
\* a transaction that made branches and renamed none.
ChildOK(k) ==
    /\ k.child # None => /\ k.pc \in {"create", "stale", "move", "missing"}
                         /\ k.pc # "missing" => k.created # {}
    /\ k.created = {} \/ k.renamed = {}

HookInv ==
    /\ \A h \in Hooks : ChildOK(sync[h])
    /\ \A g, h \in Hooks : sync[g].child # None /\ sync[g].child = sync[h].child => g = h

\* Where a branch is noted its worktree is, or it has gone to its own place.
KnownOK(cur, t, r) ==
    \A b \in Branches : cur[b] # None => Holds(t, cur[b], b) \/ (b \in r /\ Holds(t, b, b))

OneActs ==
    \A g, h \in Hooks : Active(g) /\ Active(h) /\ ~Waiting(g) /\ ~Waiting(h) => g = h

FamilyOK(h) ==
    /\ sync[h].pc = "current" => sync[h].renamed = {}
    /\ sync[h].pc \in Early /\ sync[h].renamed # {} => \A g \in Hooks \ {h} : ~Active(g)
    /\ sync[h].pc \in Phases => sync[h].want = refs
    /\ sync[h].pc \in Early /\ ~sync[h].calm =>
         sync[h].pc \in {"create", "stale", "move"} /\ sync[h].created # {}
    /\ sync[h].pc \in Early /\ sync[h].renamed = {} => KnownOK(sync[h].cur, trees, refs)

NoneForgotten ==
    (\E h \in Hooks : Active(h)) \/ Readable =>
        \A b \in refs : ServedIn(trees, dirs, b) \/ \E h \in Hooks : Awaits(sync[h], b)

FamilyInv == OneActs /\ (\A h \in Hooks : FamilyOK(h)) /\ NoneForgotten

ServeInv == SnapInv /\ HookInv /\ (settled => FamilyInv)

-----------------------------------------------------------------------------
(* Going on to what is due next.                                           *)

\* The records are alike but for the step they stand at.
Kept(e, k) ==
    /\ e.cur = k.cur /\ e.want = k.want /\ e.calm = k.calm /\ e.child = k.child
    /\ e.created = k.created /\ e.destroyed = k.destroyed /\ e.renamed = k.renamed

LEMMA EnterShape ==
    ASSUME NEW k \in Syncs, NEW n \in 1..7
    PROVE  LET e == Enter(k, n)
           IN  \/ e = Idle /\ \A m \in n..6 : Due(k, SyncPhases[m]) = {}
               \/ /\ \E m \in n..6 : e.pc = SyncPhases[m] /\ e.todo = Due(k, SyncPhases[m])
                  /\ Kept(e, k)
<1> DEFINE later == {m \in n..6 : Due(k, SyncPhases[m]) # {}}
           m == CHOOSE i \in later : \A j \in later : i <= j
           e == [k EXCEPT !.pc = SyncPhases[m], !.todo = Due(k, SyncPhases[m])]
<1>1. CASE later = {}
  BY <1>1 DEF Enter
<1>2. CASE later # {}
  <2>1. later \subseteq 1..6 /\ later \subseteq n..6
    OBVIOUS
  <2>2. Enter(k, n) = e
    BY <1>2 DEF Enter
  <2> HIDE DEF later
  <2>3. \E i \in later : \A j \in later : i <= j
    <3>1. PICK i : i \in later
      BY <1>2
    <3>2. i = 1 \/ i = 2 \/ i = 3 \/ i = 4 \/ i = 5 \/ i = 6
      BY <3>1, <2>1
    <3>3. 1 \in later \/ 2 \in later \/ 3 \in later \/ 4 \in later \/ 5 \in later \/ 6 \in later
      BY <3>1, <3>2
    <3> QED BY <2>1, <3>3
  <2>4. m \in n..6
    BY <2>1, <2>3
  <2> HIDE DEF m
  <2>5. e.pc = SyncPhases[m] /\ e.todo = Due(k, SyncPhases[m]) /\ Kept(e, k)
    BY DEF Syncs, Kept
  <2> HIDE DEF e
  <2> QED BY <2>2, <2>4, <2>5
<1> QED BY <1>1, <1>2

\* What a sync does next: it never goes back, and it still awaits a branch that
\* it has noted nowhere.
LEMMA DoneShape ==
    ASSUME NEW k, SyncOK(k), k.pc \in Phases, NEW x
    PROVE  LET e == Done(k, x)
           IN  /\ \/ e = Idle
                  \/ /\ e.pc \in Phases /\ Kept(e, k)
                     /\ k.pc = "missing" => e.pc = "missing"
                     /\ k.pc \in {"create", "stale", "move"} =>
                          e.pc \in {"create", "stale", "move", "missing"}
               /\ \A b \in k.want :
                    \/ k.pc \in Early /\ k.cur[b] = None
                    \/ k.pc = "missing" /\ b \in k.todo \ {x}
                    => Awaits(e, b)
<1> DEFINE n == CHOOSE i \in 1..6 : SyncPhases[i] = k.pc
           left == IF n <= 3 THEN Due(k, k.pc) \cap (k.todo \ {x}) ELSE k.todo \ {x}
           next == [k EXCEPT !.todo = left]
           e == Done(k, x)
<1>1. n \in 1..6 /\ SyncPhases[n] = k.pc
  BY PhaseNumber
<1>2. e = IF left = {} THEN Enter(k, n + 1) ELSE next
  BY DEF Done
<1>3. n = 1 \/ n = 2 \/ n = 3 \/ n = 4 \/ n = 5 \/ n = 6
  BY <1>1
<1>4. k \in Syncs
  BY DEF SyncOK
<1> HIDE DEF n
<1>5. n = 6 => left = k.todo \ {x}
  OBVIOUS
<1> HIDE DEF left, e
<1>6. CASE left # {}
  <2>1. next.pc = k.pc /\ next.todo = left /\ Kept(next, k)
    BY <1>4 DEF Syncs, Kept
  <2>2. k.pc = "missing" => n = 6
    BY <1>1, <1>3 DEF SyncPhases
  <2>3. e = next
    BY <1>2, <1>6
  <2> HIDE DEF next
  <2>4. e.pc = k.pc /\ e.todo = left /\ Kept(e, k)
    BY <2>1, <2>3
  <2>5. ASSUME NEW b, k.pc \in Early /\ k.cur[b] = None PROVE Awaits(e, b)
    BY <2>4, <2>5 DEF Awaits, Kept
  <2>6. ASSUME NEW b, k.pc = "missing" /\ b \in k.todo \ {x} PROVE Awaits(e, b)
    BY <1>5, <2>2, <2>4, <2>6 DEF Awaits
  <2> QED BY <2>4, <2>5, <2>6 DEF e
<1>7. CASE left = {}
  <2>1. e = Enter(k, n + 1)
    BY <1>2, <1>7
  <2>2. \/ e = Idle /\ \A m \in (n + 1)..6 : Due(k, SyncPhases[m]) = {}
        \/ /\ \E m \in (n + 1)..6 : e.pc = SyncPhases[m] /\ e.todo = Due(k, SyncPhases[m])
           /\ Kept(e, k)
    BY <1>1, <1>4, <2>1, EnterShape
  <2>3. SyncPhases[6] = "missing"
    BY DEF SyncPhases
  <2>4. CASE e = Idle /\ \A m \in (n + 1)..6 : Due(k, SyncPhases[m]) = {}
    <3>1. n # 6 => Due(k, "missing") = {}
      BY <1>1, <2>3, <2>4
    <3>2. n = 6 <=> k.pc = "missing"
      BY <1>1, <1>3 DEF SyncPhases
    <3>3. \A b \in k.want : k.pc \in Early => k.cur[b] # None
      BY <3>1, <3>2 DEF Due, Early
    <3> QED BY <1>5, <1>7, <2>4, <3>2, <3>3 DEF e
  <2>5. CASE /\ \E m \in (n + 1)..6 : e.pc = SyncPhases[m] /\ e.todo = Due(k, SyncPhases[m])
             /\ Kept(e, k)
    <3>1. PICK m \in (n + 1)..6 : e.pc = SyncPhases[m] /\ e.todo = Due(k, SyncPhases[m])
      BY <2>5
    <3>2. m = 2 \/ m = 3 \/ m = 4 \/ m = 5 \/ m = 6
      BY <1>3, <3>1
    <3>3. e.pc \in {"destroy", "create", "stale", "move", "missing"}
      BY <3>1, <3>2 DEF SyncPhases
    <3>4. k.pc # "missing"
      BY <1>1, <1>3, <3>1 DEF SyncPhases
    <3>5. k.pc \in {"create", "stale", "move"} => e.pc \in {"create", "stale", "move", "missing"}
      BY <1>1, <1>3, <3>1, <3>2 DEF SyncPhases
    <3>6. e.pc = "missing" => m = 6
      BY <3>1, <3>2 DEF SyncPhases
    <3>7. ASSUME NEW b \in k.want, k.cur[b] = None PROVE Awaits(e, b)
      <4>1. e.cur[b] = None
        BY <2>5, <3>7 DEF Kept
      <4>2. e.pc = "missing" => b \in e.todo
        BY <2>3, <3>1, <3>6, <3>7 DEF Due
      <4> QED BY <3>3, <4>1, <4>2 DEF Awaits, Early
    <3> QED BY <2>5, <3>3, <3>4, <3>5, <3>7 DEF Phases, e
  <2> QED BY <2>2, <2>4, <2>5
<1> QED BY <1>6, <1>7

LEMMA DoneAwaits ==
    ASSUME NEW k, SyncOK(k), k.pc \in Phases, NEW x, NEW b \in k.want,
           \/ k.pc \in Early /\ k.cur[b] = None
           \/ k.pc = "missing" /\ b \in k.todo \ {x}
    PROVE  Awaits(Done(k, x), b)
  BY DoneShape

-----------------------------------------------------------------------------
(* What the commands of such a family do.                                  *)

LEMMA MovedEither ==
    ASSUME SyncInv, NEW p, NEW q \in Branches
    PROVE  LET o == Moved(p, q)
           IN  /\ o.refs = refs
               /\ \/ o.trees = trees /\ dirs \subseteq o.dirs /\ (o.ok => p = q)
                  \/ o.ok /\ Goes(p, q, o.trees)
<1> DEFINE above == MakeParents(trees, dirs, q)
<1>1. CASE ~There(trees, dirs, p)
  BY <1>1 DEF Moved, MovedIf, Nothing, Left
<1>2. CASE There(trees, dirs, p) /\ (p = q \/ There(trees, dirs, q))
  BY <1>2 DEF Moved, MovedIf, Nothing, Left
<1>3. CASE There(trees, dirs, p) /\ p # q /\ ~There(trees, dirs, q)
  <2>1. CASE Present(trees, p) /\ ~In(q, p) /\ (trees[q] = None \/ ~trees[q].gone)
    <3>1. Moved(p, q).ok
      BY <1>3, <2>1 DEF Moved, MovedIf, Left
    <3> QED BY <1>3, <3>1, MovedEffect
  <2>2. CASE ~(Present(trees, p) /\ ~In(q, p) /\ (trees[q] = None \/ ~trees[q].gone))
    <3>1. Moved(p, q) = Left(trees, above, FALSE)
      BY <1>3, <2>2 DEF Moved, MovedIf
    <3>2. dirs \subseteq above
      BY DEF MakeParents
    <3> HIDE DEF above
    <3> QED BY <3>1, <3>2 DEF Left
  <2> QED BY <2>1, <2>2
<1> QED BY <1>1, <1>2, <1>3

\* The worktree of a branch is made, or the branch is served already.
LEMMA CreatedEither ==
    ASSUME NEW b \in refs, NEW create
    PROVE  LET o == Created(b, create)
           IN  /\ o.refs = refs /\ dirs \subseteq o.dirs
               /\ \/ o.trees = trees /\ ~o.ok /\ ServedIn(trees, dirs, b)
                  \/ trees[b] = None /\ o.ok /\ o.trees = [trees EXCEPT ![b] = Fresh(b)]
<1> DEFINE above == MakeParents(trees, dirs, b)
           done == [Left([trees EXCEPT ![b] = Fresh(b)], above, TRUE) EXCEPT
                      !.refs = refs \cup {b}, !.ran = IF b \notin refs THEN {b} ELSE {}]
<1>1. dirs \subseteq above
  BY DEF MakeParents
<1>2. \/ Created(b, create) = Nothing /\ There(trees, dirs, b)
      \/ Created(b, create) = Left(trees, above, FALSE)
         /\ (trees[b] # None \/ CheckedOut(trees, b))
      \/ trees[b] = None /\ Created(b, create) = done
  BY DEF Created
<1>3. /\ done.refs = refs \cup {b} /\ done.ok /\ done.trees = [trees EXCEPT ![b] = Fresh(b)]
      /\ done.dirs = above
  BY DEF Left
<1> HIDE DEF above, done
<1> QED BY <1>1, <1>2, <1>3 DEF Nothing, Left, ServedIn

LEMMA DestroyedNothing ==
    ASSUME NEW p, trees[p].branch \notin refs \cup {None}
    PROVE  LET o == Destroyed(p)
           IN  o.refs = refs /\ o.trees = trees /\ o.dirs = dirs /\ ~o.ok
<1>1. Destroyed(p) = Nothing
  BY DEF Destroyed, StatusClean
<1> QED BY <1>1 DEF Nothing, Left

\* What is served stays so when only worktrees and directories come.
LEMMA ServedGrows ==
    ASSUME NEW t, NEW d, NEW t2, NEW d2, d \subseteq d2,
           \A p \in Branches : t[p] # None => t2[p] = t[p],
           NEW b \in Branches, ServedIn(t, d, b)
    PROVE  ServedIn(t2, d2, b)
<1>1. CASE CheckedOut(t, b)
  BY <1>1 DEF CheckedOut, ServedIn
<1>2. CASE t[b] # None
  BY <1>2 DEF ServedIn
<1>3. CASE There(t, d, b)
  BY <1>3 DEF There, ServedIn, AtOrIn, Present
<1> QED BY <1>1, <1>2, <1>3 DEF ServedIn

\* A move keeps every worktree, and what it has checked out.
LEMMA GoesBranches ==
    ASSUME SyncInv, NEW p, NEW q \in Branches, NEW t, Goes(p, q, t)
    PROVE  /\ p \in Branches /\ p # q /\ trees[p] # None /\ trees[q] = None
           /\ t[p] = None /\ t[q] = trees[p]
           /\ \A r \in Branches \ {p} :
                trees[r] # None => t[r] # None /\ t[r].branch = trees[r].branch
<1>1. /\ p \in Branches /\ p # q /\ trees[p] # None /\ trees[q] = None /\ t = Carried(p, q)
      /\ trees \in [Branches -> Trees \cup {None}]
  BY DEF Goes, Present, SyncInv, PlacesOK
<1>2. ASSUME NEW r \in Branches \ {p}, trees[r] # None
      PROVE  t[r] # None /\ t[r].branch = trees[r].branch
  <2>1. trees[r] \in Trees /\ r # q
    BY <1>1, <1>2
  <2>2. t[r] = trees[r] \/ t[r] = [trees[r] EXCEPT !.gone = TRUE]
    BY <1>1, <1>2, <2>1 DEF Carried
  <2>3. [trees[r] EXCEPT !.gone = TRUE] \in Trees
    BY <2>1 DEF Trees
  <2>4. [trees[r] EXCEPT !.gone = TRUE].branch = trees[r].branch
    BY <2>1 DEF Trees
  <2> QED BY <1>2, <2>2, <2>3, <2>4, NoneAssumption
<1>3. t[q] = trees[p] /\ t[p] = None
  BY <1>1 DEF Carried
<1> QED BY <1>1, <1>2, <1>3

LEMMA GoesCheckedOut ==
    ASSUME SyncInv, NEW p, NEW q \in Branches, NEW t, Goes(p, q, t), NEW b,
           CheckedOut(trees, b)
    PROVE  CheckedOut(t, b)
<1>1. /\ t[q] = trees[p]
      /\ \A r \in Branches \ {p} :
           trees[r] # None => t[r] # None /\ t[r].branch = trees[r].branch
  BY GoesBranches
<1>2. PICK r \in Branches : trees[r] # None /\ trees[r].branch = b
  BY DEF CheckedOut
<1>3. CASE r = p
  BY <1>1, <1>2, <1>3 DEF CheckedOut
<1>4. CASE r # p
  BY <1>1, <1>2, <1>4 DEF CheckedOut
<1> QED BY <1>3, <1>4

\* A branch's own worktree moves to its place: all that is noted stays known.
LEMMA GoesKnown ==
    ASSUME SyncInv, NEW p, NEW q \in Branches, NEW t, Goes(p, q, t), Holds(trees, p, q),
           q \in refs, NEW cur \in [Branches -> Branches \cup {None}], KnownOK(cur, trees, refs)
    PROVE  KnownOK(cur, t, refs) /\ KnownOK([cur EXCEPT ![q] = q], t, refs)
<1>1. /\ p \in Branches /\ p # q /\ trees[q] = None
      /\ t[q] = trees[p] /\ trees[p] # None /\ trees[p].branch = q
      /\ \A r \in Branches \ {p} :
           trees[r] # None => t[r] # None /\ t[r].branch = trees[r].branch
  BY GoesBranches DEF Holds
<1>2. Holds(t, q, q)
  BY <1>1 DEF Holds
<1>3. \A b \in Branches, r \in Branches : Holds(trees, r, b) => Holds(t, r, b) \/ (r = p /\ b = q)
  BY <1>1 DEF Holds
<1>4. KnownOK(cur, t, refs)
  <2> SUFFICES ASSUME NEW b \in Branches, cur[b] # None
               PROVE  Holds(t, cur[b], b) \/ (b \in refs /\ Holds(t, b, b))
    BY DEF KnownOK
  <2>1. cur[b] \in Branches
    OBVIOUS
  <2> QED BY <1>1, <1>2, <1>3, <2>1 DEF KnownOK
<1>5. \A b \in Branches : [cur EXCEPT ![q] = q][b] = IF b = q THEN q ELSE cur[b]
  OBVIOUS
<1> QED BY <1>2, <1>4, <1>5 DEF KnownOK

LEMMA AddsKnown ==
    ASSUME SyncInv, NEW q \in refs, trees[q] = None, NEW t, t = [trees EXCEPT ![q] = Fresh(q)],
           NEW cur \in [Branches -> Branches \cup {None}], KnownOK(cur, trees, refs)
    PROVE  KnownOK(cur, t, refs) /\ KnownOK([cur EXCEPT ![q] = q], t, refs)
<1>1. trees \in [Branches -> Trees \cup {None}] /\ q \in Branches
  BY DEF SyncInv, PlacesOK
<1>2. Fresh(q) # None /\ Fresh(q).branch = q
  <2>1. Fresh(q) \in Trees
    BY <1>1 DEF Fresh, Trees
  <2> QED BY <2>1, NoneAssumption DEF Fresh
<1>3. Holds(t, q, q)
  BY <1>2, <1>1 DEF Holds
<1>4. \A b \in Branches, r \in Branches : Holds(trees, r, b) => Holds(t, r, b)
  BY <1>1 DEF Holds
<1>5. KnownOK(cur, t, refs)
  <2> SUFFICES ASSUME NEW b \in Branches, cur[b] # None
               PROVE  Holds(t, cur[b], b) \/ (b \in refs /\ Holds(t, b, b))
    BY DEF KnownOK
  <2>1. cur[b] \in Branches
    OBVIOUS
  <2> QED BY <1>4, <2>1 DEF KnownOK
<1>6. \A b \in Branches : [cur EXCEPT ![q] = q][b] = IF b = q THEN q ELSE cur[b]
  BY <1>1
<1> QED BY <1>3, <1>5, <1>6 DEF KnownOK

\* The three things that a command of such a sync may do.
StaysAs(k, x, o) ==
    /\ o.trees = trees /\ dirs \subseteq o.dirs
    /\ o.ok => k.pc = "rename" /\ k.cur[x[1]] = x[2] /\ trees[x[2]] # None
    /\ k.pc = "missing" => ServedIn(trees, dirs, x)

GoesHome(k, x, o) ==
    /\ o.ok
    /\ \/ k.pc = "rename" /\ x[1] \in Branches /\ x[2] \in Branches
          /\ Goes(k.cur[x[1]], x[2], o.trees)
       \/ k.pc = "move" /\ x \in refs /\ Goes(k.cur[x], x, o.trees) /\ Holds(trees, k.cur[x], x)

AddsOne(k, x, o) ==
    /\ k.pc \in {"create", "missing"} /\ o.ok /\ x \in refs
    /\ trees[x] = None /\ o.trees = [trees EXCEPT ![x] = Fresh(x)] /\ dirs \subseteq o.dirs

LEMMA FamilyCommand ==
    ASSUME SyncInv, NEW k, SyncOK(k), SnapOK(k, trees, refs), k.pc \in Phases, k.want = refs,
           NEW x \in k.todo,
           k.pc \in Early /\ ~k.calm => k.pc # "rename" /\ KnownOK(k.cur, trees, refs)
    PROVE  LET o == Command(k, x)
           IN  /\ o.refs = refs
               /\ StaysAs(k, x, o) \/ GoesHome(k, x, o) \/ AddsOne(k, x, o)
<1> DEFINE o == Command(k, x)
<1>1. /\ DueOK(k) /\ k.calm => CurOK(k.cur, refs, trees)
      /\ k.cur \in [Branches -> Branches \cup {None}] /\ refs \subseteq Branches
  BY DEF SnapOK, CalmOK, SyncOK, Syncs, SyncInv
<1>2. DueOK(k)
  BY DEF SnapOK
<1>3. CASE k.pc = "rename"
  <2>1. k.calm
    BY <1>3 DEF Early
  <2>2. /\ x[1] \in Branches /\ x[2] \in Branches /\ x[2] \in refs /\ k.cur[x[1]] # None
    BY <1>2, <1>3, DueFacts
  <2>3. o = Moved(k.cur[x[1]], x[2])
    BY <1>3 DEF Command
  <2>4. trees[k.cur[x[1]]] # None
    BY <1>1, <1>2, <2>1, <2>2 DEF CurOK
  <2>5. /\ o.refs = refs
        /\ \/ o.trees = trees /\ dirs \subseteq o.dirs /\ (o.ok => k.cur[x[1]] = x[2])
           \/ o.ok /\ Goes(k.cur[x[1]], x[2], o.trees)
    BY <2>2, <2>3, MovedEither
  <2> HIDE DEF o
  <2> QED BY <1>3, <2>2, <2>4, <2>5 DEF StaysAs, GoesHome, o
<1>4. CASE k.pc = "move"
  <2>1. x \in Branches /\ x \in refs /\ k.cur[x] \notin {None, x}
    BY <1>2, <1>4, DueFacts
  <2>2. o = Moved(k.cur[x], x)
    BY <1>4 DEF Command
  <2>3. /\ o.refs = refs
        /\ \/ o.trees = trees /\ dirs \subseteq o.dirs /\ ~o.ok
           \/ o.ok /\ Goes(k.cur[x], x, o.trees)
    BY <2>1, <2>2, MovedEither
  <2>4. ASSUME Goes(k.cur[x], x, o.trees)
        PROVE  Holds(trees, k.cur[x], x)
    <3>1. trees[x] = None /\ trees[k.cur[x]] # None
      BY <2>4 DEF Goes, Present
    <3>2. CASE k.calm
      BY <1>1, <1>2, <2>1, <3>1, <3>2 DEF CurOK, Holds
    <3>3. CASE ~k.calm
      BY <1>4, <2>1, <3>1, <3>3 DEF KnownOK, Holds, Early
    <3> QED BY <3>2, <3>3
  <2> HIDE DEF o
  <2> QED BY <1>4, <2>1, <2>3, <2>4 DEF StaysAs, GoesHome, o
<1>5. CASE k.pc \in {"destroy", "stale"}
  <2>1. x \in Branches /\ k.cur[x] # None /\ x \notin refs
    BY <1>2, <1>5, DueFacts
  <2>2. o = Destroyed(k.cur[x])
    BY <1>5 DEF Command
  <2>3. trees[k.cur[x]].branch = x
    <3>1. CASE k.calm
      BY <1>1, <1>2, <2>1, <3>1 DEF CurOK
    <3>2. CASE ~k.calm
      BY <1>5, <2>1, <3>2 DEF KnownOK, Holds, Early
    <3> QED BY <3>1, <3>2
  <2>4. x \notin refs \cup {None}
    BY <2>1, WorktreeAssumption
  <2>5. o.trees = trees /\ ~o.ok /\ o.refs = refs /\ o.dirs = dirs
    BY <2>2, <2>3, <2>4, DestroyedNothing
  <2> HIDE DEF o
  <2> QED BY <1>5, <2>5 DEF StaysAs, o
<1>6. CASE k.pc \in {"create", "missing"}
  <2>1. x \in refs
    BY <1>2, <1>6, DueFacts
  <2>2. o = Created(x, TRUE) \/ o = Created(x, FALSE)
    BY <1>6 DEF Command
  <2> HIDE DEF o
  <2>3. /\ o.refs = refs /\ dirs \subseteq o.dirs
        /\ \/ o.trees = trees /\ ~o.ok /\ ServedIn(trees, dirs, x)
           \/ trees[x] = None /\ o.ok /\ o.trees = [trees EXCEPT ![x] = Fresh(x)]
    <3>1. ASSUME NEW create, o = Created(x, create)
          PROVE  /\ o.refs = refs /\ dirs \subseteq o.dirs
                 /\ \/ o.trees = trees /\ ~o.ok /\ ServedIn(trees, dirs, x)
                    \/ trees[x] = None /\ o.ok /\ o.trees = [trees EXCEPT ![x] = Fresh(x)]
      <4>1. /\ Created(x, create).refs = refs /\ dirs \subseteq Created(x, create).dirs
            /\ \/ /\ Created(x, create).trees = trees /\ ~Created(x, create).ok
                  /\ ServedIn(trees, dirs, x)
               \/ /\ trees[x] = None /\ Created(x, create).ok
                  /\ Created(x, create).trees = [trees EXCEPT ![x] = Fresh(x)]
        BY <2>1, CreatedEither
      <4> QED BY <3>1, <4>1
    <3> QED BY <2>2, <3>1
  <2> QED BY <1>6, <2>1, <2>3 DEF StaysAs, AddsOne, o
<1> QED BY <1>3, <1>4, <1>5, <1>6 DEF Phases

-----------------------------------------------------------------------------
(* Who waits for whom.                                                     *)

\* The records are alike but for their calm and their hook.
Alike(j, k) ==
    /\ j.pc = k.pc /\ j.todo = k.todo /\ j.cur = k.cur /\ j.want = k.want
    /\ j.created = k.created /\ j.destroyed = k.destroyed /\ j.renamed = k.renamed

\* The step of h ran no hook, or it ran hook f.
RunsNone(h) ==
    /\ sync'[h].child = None
    /\ \A g \in Hooks \ {h} : Alike(sync'[g], sync[g]) /\ sync'[g].child = sync[g].child

Runs(h, k, f) ==
    /\ f \in Hooks \ {h} /\ sync[f].pc = "idle" /\ \A g \in Hooks : sync[g].child # f
    /\ sync'[f].pc = "current" /\ sync'[f].renamed = {} /\ sync'[f].child = None
    /\ sync'[h].child = IF k.pc = "idle" THEN None ELSE f
    /\ \A g \in Hooks \ {h, f} :
         /\ Alike(sync'[g], sync[g])
         /\ sync'[g].child = IF k.pc = "idle" /\ sync[g].child = h THEN f ELSE sync[g].child

LEMMA ForkedHook ==
    ASSUME NEW C, C \subseteq Branches, NEW object
    PROVE  LET j == Intends(C, {}, object)
           IN  j.pc = "current" /\ j.renamed = {} /\ j.child = None
  BY DEF Intends, Idle

LEMMA BecomesShape ==
    ASSUME SyncInv, NEW h \in Hooks, NEW k, SyncOK(k), k.child = None,
           NEW o, Outcomes(o), Becomes(h, k, o)
    PROVE  /\ trees' = o.trees /\ dirs' = o.dirs /\ refs' = o.refs
           /\ Alike(sync'[h], k) /\ sync'[h].calm = k.calm
           /\ RunsNone(h) \/ (o.ran # None /\ \E f \in Hooks : Runs(h, k, f))
<1> DEFINE put == [sync EXCEPT ![h] = k]
           same == o.trees = trees /\ o.dirs = dirs /\ o.refs = refs
           s == IF same THEN put ELSE Disturbed(put, h)
<1>1. /\ trees' = o.trees /\ dirs' = o.dirs /\ refs' = o.refs
      /\ IF o.ran = None \/ FreeHooks(sync) \ {h} = {} THEN sync' = s
         ELSE \E g \in FreeHooks(sync) \ {h} :
                 sync' = [WaitedFor(s, h, g) EXCEPT
                     ![g] = Intends(o.ran, {}, [b \in o.ran |-> 0])]
  BY DEF Becomes
<1>2. sync \in [Hooks -> Syncs] /\ k \in Syncs /\ h # None
  BY WorktreeAssumption DEF SyncInv, HooksOK, SyncOK
<1>3. put[h] = k /\ \A g \in Hooks \ {h} : put[g] = sync[g]
  BY <1>2
<1>4. /\ DOMAIN s = Hooks
      /\ s[h] = k
      /\ \A g \in Hooks \ {h} :
           Alike(s[g], sync[g]) /\ s[g].child = sync[g].child /\ s[g] \in Syncs
  <2>1. CASE same
    BY <2>1, <1>2, <1>3 DEF Alike
  <2>2. CASE ~same
    <3>1. s = Disturbed(put, h)
      BY <2>2
    <3>2. \A g \in Hooks : /\ Uncalm(sync[g]) \in Syncs /\ Alike(Uncalm(sync[g]), sync[g])
                          /\ Uncalm(sync[g]).child = sync[g].child
      BY <1>2 DEF Uncalm, Syncs, Alike
    <3> HIDE DEF put, s, same
    <3>3. /\ DOMAIN s = Hooks /\ s[h] = k
          /\ \A g \in Hooks \ {h} : s[g] = sync[g] \/ s[g] = Uncalm(sync[g])
      BY <1>3, <3>1 DEF Disturbed, Uncalm
    <3> QED BY <1>2, <3>2, <3>3 DEF Alike
  <2> QED BY <2>1, <2>2
<1> HIDE DEF s, put, same
<1>5. CASE o.ran = None \/ FreeHooks(sync) \ {h} = {}
  <2>1. sync' = s
    BY <1>1, <1>5
  <2> QED BY <1>1, <1>4, <2>1 DEF RunsNone, Alike
<1>6. CASE ~(o.ran = None \/ FreeHooks(sync) \ {h} = {})
  <2>1. PICK f \in FreeHooks(sync) \ {h} :
           sync' = [WaitedFor(s, h, f) EXCEPT ![f] = Intends(o.ran, {}, [b \in o.ran |-> 0])]
    BY <1>6, <1>1
  <2> DEFINE w == WaitedFor(s, h, f)
             j == Intends(o.ran, {}, [b \in o.ran |-> 0])
  <2>2. f \in Hooks \ {h} /\ sync[f].pc = "idle" /\ \A g \in Hooks : sync[g].child # f
    BY DEF FreeHooks
  <2>3. j.pc = "current" /\ j.renamed = {} /\ j.child = None
    BY <1>6, ForkedHook DEF Outcomes
  <2>4. /\ DOMAIN w = Hooks
        /\ \A g \in Hooks :
             w[g] = IF (k.pc # "idle" /\ g = h) \/ (k.pc = "idle" /\ s[g].child = h)
                    THEN WithChild(s[g], f) ELSE s[g]
    BY <1>4 DEF WaitedFor, WithChild
  <2>5. sync' = [w EXCEPT ![f] = j]
    BY <2>1
  <2> HIDE DEF j, w
  <2>6. sync'[f] = j /\ \A g \in Hooks \ {f} : sync'[g] = w[g]
    BY <2>2, <2>4, <2>5
  <2>7. \A e \in Syncs : /\ Alike(WithChild(e, f), e) /\ WithChild(e, f).child = f
                         /\ WithChild(e, f).calm = e.calm
    BY DEF Syncs, WithChild, Alike
  <2>8. /\ Alike(sync'[h], k) /\ sync'[h].calm = k.calm
        /\ sync'[h].child = IF k.pc = "idle" THEN None ELSE f
    <3>1. sync'[h] = IF k.pc # "idle" THEN WithChild(k, f) ELSE k
      BY <1>2, <1>4, <2>2, <2>4, <2>6
    <3> QED BY <1>2, <2>7, <3>1 DEF Alike
  <2>9. ASSUME NEW g \in Hooks \ {h, f}
        PROVE  /\ Alike(sync'[g], sync[g])
               /\ sync'[g].child = IF k.pc = "idle" /\ sync[g].child = h THEN f ELSE sync[g].child
    <3>1. sync'[g] = IF k.pc = "idle" /\ sync[g].child = h THEN WithChild(s[g], f) ELSE s[g]
      BY <1>4, <2>4, <2>6
    <3> QED BY <1>4, <2>7, <3>1 DEF Alike
  <2>10. Runs(h, k, f)
    BY <2>2, <2>3, <2>6, <2>8, <2>9 DEF Runs
  <2> QED BY <1>1, <1>6, <2>2, <2>8, <2>10
<1> QED BY <1>5, <1>6

LEMMA IdleChild == ChildOK(Idle) /\ Idle.child = None /\ Idle.renamed = {} /\ Idle.created = {}
  BY DEF ChildOK, Idle

\* The step of a sync keeps the order of those that wait.
LEMMA BecomesHooks ==
    ASSUME SyncInv, HookInv, NEW h \in Hooks, NEW k, SyncOK(k), k.child = None,
           k.created = {} \/ k.renamed = {},
           NEW o, Outcomes(o), Becomes(h, k, o),
           o.ran # None => /\ k.pc \in {"idle", "create", "stale", "move", "missing"}
                           /\ k.pc \notin {"idle", "missing"} => k.created # {}
    PROVE  HookInv'
<1>1. /\ Alike(sync'[h], k)
      /\ RunsNone(h) \/ (o.ran # None /\ \E f \in Hooks : Runs(h, k, f))
  BY BecomesShape
<1>2. /\ \A g \in Hooks : ChildOK(sync[g])
      /\ \A g, e \in Hooks : sync[g].child # None /\ sync[g].child = sync[e].child => g = e
  BY DEF HookInv
<1>3. None \notin Hooks
  BY WorktreeAssumption
<1>4. CASE RunsNone(h)
  <2>1. \A g \in Hooks : ChildOK(sync'[g])
    BY <1>1, <1>2, <1>4 DEF RunsNone, Alike, ChildOK
  <2>2. \A g, e \in Hooks : sync'[g].child # None /\ sync'[g].child = sync'[e].child => g = e
    BY <1>2, <1>4 DEF RunsNone
  <2> QED BY <2>1, <2>2 DEF HookInv, ChildOK
<1>5. ASSUME o.ran # None, NEW f \in Hooks, Runs(h, k, f)
      PROVE  HookInv'
  <2>1. ASSUME NEW g \in Hooks PROVE ChildOK(sync'[g])
    <3>1. CASE g = h
      BY <1>1, <1>5, <3>1 DEF Runs, Alike, ChildOK
    <3>2. CASE g = f
      BY <1>5, <3>2 DEF Runs, ChildOK
    <3>3. CASE g \notin {h, f}
      BY <1>2, <1>3, <1>5, <3>3 DEF Runs, Alike, ChildOK
    <3> QED BY <3>1, <3>2, <3>3
  <2>2. ASSUME NEW g \in Hooks, NEW e \in Hooks,
               sync'[g].child # None, sync'[g].child = sync'[e].child
        PROVE  g = e
    <3>1. \A i \in Hooks : sync'[i].child \in {None, f, sync[i].child}
      BY <1>5 DEF Runs
    <3>2. \A i \in Hooks : sync[i].child # f
      BY <1>5 DEF Runs
    <3>3. CASE sync'[g].child = f
      <4>1. CASE k.pc = "idle"
        <5>1. \A i \in Hooks : sync'[i].child = f => sync[i].child = h
          BY <1>3, <1>5, <3>2, <4>1 DEF Runs
        <5> QED BY <1>2, <1>3, <2>2, <3>3, <5>1
      <4>2. CASE k.pc # "idle"
        <5>1. \A i \in Hooks : sync'[i].child = f => i = h
          BY <1>3, <1>5, <3>2, <4>2 DEF Runs
        <5> QED BY <2>2, <3>3, <5>1
      <4> QED BY <4>1, <4>2
    <3>4. CASE sync'[g].child # f
      BY <1>2, <2>2, <3>1, <3>4
    <3> QED BY <3>3, <3>4
  <2> QED BY <2>1, <2>2 DEF HookInv, ChildOK
<1> QED BY <1>1, <1>4, <1>5

\* One sync changes and waits for no hook, or users change what it has read.
LEMMA SetHooks ==
    ASSUME SyncInv, HookInv, NEW h \in Hooks, NEW k, ChildOK(k), k.child = None,
           \A g \in Hooks : \/ sync'[g] = sync[g]
                            \/ sync'[g] = Uncalm(sync[g])
                            \/ g = h /\ sync'[g] = k
    PROVE  HookInv'
<1>1. /\ \A g \in Hooks : ChildOK(sync[g])
      /\ \A g, e \in Hooks : sync[g].child # None /\ sync[g].child = sync[e].child => g = e
      /\ sync \in [Hooks -> Syncs]
  BY DEF HookInv, SyncInv, HooksOK
<1>2. \A g \in Hooks : /\ Uncalm(sync[g]).pc = sync[g].pc /\ Uncalm(sync[g]).child = sync[g].child
                       /\ Uncalm(sync[g]).created = sync[g].created
                       /\ Uncalm(sync[g]).renamed = sync[g].renamed
  BY <1>1 DEF Uncalm, Syncs
<1>3. \A g \in Hooks : ChildOK(sync'[g]) /\ sync'[g].child \in {None, sync[g].child}
  BY <1>1, <1>2 DEF ChildOK
<1> QED BY <1>1, <1>3 DEF HookInv, ChildOK

-----------------------------------------------------------------------------
(* The steps keep that order.                                              *)

LEMMA NotedChild ==
    ASSUME NEW k, SyncOK(k), k.pc \in Phases, NEW x \in k.todo
    PROVE  Noted(k, x).child = k.child
<1> DEFINE cur == IF k.pc = "rename" THEN [k.cur EXCEPT ![x[1]] = None, ![x[2]] = x[2]]
                  ELSE IF k.pc \in {"destroy", "stale"} THEN [k.cur EXCEPT ![x] = None]
                  ELSE [k.cur EXCEPT ![x] = x]
           new == [k EXCEPT !.cur = cur]
<1>1. Noted(k, x) = new
  BY DEF Noted, SyncOK, Syncs
<1> HIDE DEF cur
<1>2. new.child = k.child
  BY DEF SyncOK, Syncs
<1> QED BY <1>1, <1>2

\* Only `git worktree add` runs a hook.
LEMMA CommandRan ==
    ASSUME NEW k, k.pc \in Phases, NEW x, Command(k, x).ran # None
    PROVE  k.pc \in {"create", "missing"}
<1>1. \A p, q : Moved(p, q).ran = None
  BY DEF Moved, MovedIf, Nothing, Left
<1>2. \A p : Destroyed(p).ran = None
  BY DEF Destroyed, Nothing, Left
<1>3. k.pc = "rename" => Command(k, x) = Moved(k.cur[x[1]], x[2])
  BY DEF Command
<1>4. k.pc = "move" => Command(k, x) = Moved(k.cur[x], x)
  BY DEF Command
<1>5. k.pc \in {"destroy", "stale"} => Command(k, x) = Destroyed(k.cur[x])
  BY DEF Command
<1> QED BY <1>1, <1>2, <1>3, <1>4, <1>5 DEF Phases

\* Sync k of hook h does x, and is e from then on.
Does(h, k, x, e) ==
    /\ SyncOK(k) /\ SnapOK(k, trees, refs) /\ k.pc \in Phases
    /\ Alike(k, sync[h]) /\ k.calm = sync[h].calm /\ k.child = None
    /\ x \in k.todo /\ SyncOK(e) /\ e.child = None

LEMMA ConvergeDoes ==
    ASSUME SnapInv, NEW h \in Hooks, Converge(h)
    PROVE  /\ ~Waiting(h)
           /\ \E k, x :
                LET o == Command(k, x)
                    e == Done(IF o.ok THEN Noted(k, x) ELSE k, x)
                IN  Does(h, k, x, e) /\ Outcomes(o) /\ Becomes(h, e, o)
<1> DEFINE k == WithChild(sync[h], None)
<1>1. PICK x \in Next1(k) :
        Becomes(h, Done(IF Command(k, x).ok THEN Noted(k, x) ELSE k, x), Command(k, x))
  BY DEF Converge, WithChild
<1>2. sync[h].pc \notin {"idle", "current", "branches"} /\ ~Waiting(h)
  <2>1. [sync[h] EXCEPT !.child = None].pc = sync[h].pc
    BY ChildForgotten DEF SnapInv, SyncInv
  <2> QED BY <2>1 DEF Converge
<1>3. /\ SyncOK(k) /\ SnapOK(k, trees, refs) /\ k.pc \in Phases /\ k.calm = sync[h].calm
  BY <1>2, InPhase
<1>4. SyncInv /\ sync[h] \in Syncs
  BY DEF SnapInv, SyncInv, HooksOK
<1>5. Alike(k, sync[h]) /\ k.child = None
  BY <1>4 DEF Alike, WithChild, Syncs
<1> HIDE DEF k
<1> DEFINE o == Command(k, x)
           n == IF o.ok THEN Noted(k, x) ELSE k
           e == Done(n, x)
<1>6. x \in k.todo
  BY NextIsTodo
<1>7. Outcomes(o)
  BY <1>3, <1>4, <1>6, CommandTyped
<1>8. SyncOK(n) /\ n.pc \in Phases /\ n.child = None
  <2>1. SyncOK(Noted(k, x)) /\ Noted(k, x).pc \in Phases
    BY <1>3, <1>6, NotedTyped
  <2>2. Noted(k, x).child = None
    BY <1>3, <1>5, <1>6, NotedChild
  <2> QED BY <1>3, <1>5, <2>1, <2>2
<1>9. Becomes(h, e, o)
  BY <1>1
<1> HIDE DEF o, n
<1>10. SyncOK(e)
  BY <1>8, DoneTyped
<1>11. e = Idle \/ Kept(e, n)
  BY <1>8, DoneShape
<1>12. e.child = None
  BY <1>8, <1>11, IdleChild DEF Kept
<1>13. Does(h, k, x, e)
  BY <1>3, <1>5, <1>6, <1>10, <1>12 DEF Does
<1> QED BY <1>2, <1>7, <1>9, <1>13 DEF o, n, e

\* How the sync goes on from x.
LEMMA DoesNext ==
    ASSUME NEW k, SyncOK(k), DueOK(k), k.pc \in Phases, NEW x \in k.todo, NEW ok,
           NEW e, e = Done(IF ok THEN Noted(k, x) ELSE k, x)
    PROVE  \/ e = Idle
           \/ /\ e.pc \in Phases /\ e.calm = k.calm /\ e.want = k.want
              /\ e.created = k.created /\ e.renamed = k.renamed
              /\ e.cur = (IF ok THEN Noted(k, x) ELSE k).cur
              /\ k.pc = "missing" => e.pc = "missing"
              /\ k.pc \in {"create", "stale", "move"} =>
                   e.pc \in {"create", "stale", "move", "missing"}
              /\ k.pc = "create" => e.created # {}
<1> DEFINE n == IF ok THEN Noted(k, x) ELSE k
<1>1. /\ SyncOK(n) /\ n.pc = k.pc /\ n.calm = k.calm /\ n.want = k.want
      /\ n.created = k.created /\ n.renamed = k.renamed
  BY NotedTyped, NotedFields
<1>2. k.pc = "create" => x \in k.created
  BY DEF DueOK, Due
<1> HIDE DEF n
<1>3. \/ e = Idle
      \/ /\ e.pc \in Phases /\ Kept(e, n)
         /\ n.pc = "missing" => e.pc = "missing"
         /\ n.pc \in {"create", "stale", "move"} => e.pc \in {"create", "stale", "move", "missing"}
  BY <1>1, DoneShape DEF n
<1> QED BY <1>1, <1>2, <1>3 DEF Kept, n

LEMMA ConvergeHooks ==
    ASSUME SnapInv, HookInv, NEW h \in Hooks, Converge(h)
    PROVE  HookInv'
<1>1. PICK k, x :
        LET o == Command(k, x)
            e == Done(IF o.ok THEN Noted(k, x) ELSE k, x)
        IN  Does(h, k, x, e) /\ Outcomes(o) /\ Becomes(h, e, o)
  BY ConvergeDoes
<1> DEFINE o == Command(k, x)
           e == Done(IF o.ok THEN Noted(k, x) ELSE k, x)
<1>2. Does(h, k, x, e) /\ Outcomes(o) /\ Becomes(h, e, o)
  BY <1>1
<1>3. SyncInv /\ DueOK(k) /\ (k.created = {} \/ k.renamed = {})
  BY <1>2 DEF SnapInv, HookInv, ChildOK, Does, Alike, SnapOK
<1>4. o.ran # None => k.pc \in {"create", "missing"}
  BY <1>2, CommandRan DEF Does
<1>5. \/ e = Idle
      \/ /\ e.created = k.created /\ e.renamed = k.renamed
         /\ k.pc = "missing" => e.pc = "missing"
         /\ k.pc \in {"create", "stale", "move"} => e.pc \in {"create", "stale", "move", "missing"}
         /\ k.pc = "create" => e.created # {}
  BY <1>2, <1>3, DoesNext DEF Does
<1> HIDE DEF o, e
<1>6. SyncOK(e) /\ e.child = None
  BY <1>2 DEF Does
<1>7. e.created = {} \/ e.renamed = {}
  BY <1>3, <1>5, IdleChild
<1>8. o.ran # None => /\ e.pc \in {"idle", "create", "stale", "move", "missing"}
                      /\ e.pc \notin {"idle", "missing"} => e.created # {}
  BY <1>4, <1>5, IdleTyped
<1> QED BY <1>2, <1>3, <1>6, <1>7, <1>8, BecomesHooks

LEMMA SyncFailsHooks ==
    ASSUME SnapInv, HookInv, NEW h \in Hooks, SyncFails(h)
    PROVE  HookInv'
<1> DEFINE k == WithChild(sync[h], None)
<1>1. SyncInv /\ sync[h] \in Syncs /\ DOMAIN sync = Hooks
  BY DEF SnapInv, SyncInv, HooksOK
<1>2. CASE sync' = [sync EXCEPT ![h] = Idle]
  BY <1>1, <1>2, IdleChild, SetHooks
<1>3. CASE /\ k.pc \notin {"idle", "current", "branches"}
           /\ \E x \in Next1(k) : Becomes(h, Done(k, x), Broken(k, x))
  <2>1. PICK x \in Next1(k) : Becomes(h, Done(k, x), Broken(k, x))
    BY <1>3
  <2>2. k.pc = sync[h].pc
    BY ChildForgotten DEF SnapInv, SyncInv, WithChild
  <2>3. SyncOK(k) /\ SnapOK(k, trees, refs) /\ k.pc \in Phases
    BY <1>3, <2>2, InPhase
  <2>4. k.child = None /\ Alike(k, sync[h])
    BY <1>1 DEF WithChild, Syncs, Alike
  <2> HIDE DEF k
  <2>5. x \in k.todo
    BY NextIsTodo
  <2>6. SyncOK(Done(k, x)) /\ Outcomes(Broken(k, x))
    BY <1>1, <2>3, DoneTyped, BrokenTyped
  <2>7. Done(k, x) = Idle \/ Kept(Done(k, x), k)
    BY <2>3, DoneShape
  <2>8. Done(k, x).child = None /\ (Done(k, x).created = {} \/ Done(k, x).renamed = {})
    BY <2>4, <2>7, IdleChild DEF Kept, HookInv, ChildOK, Alike
  <2>9. Broken(k, x).ran = None
    BY DEF Broken, Nothing, Left
  <2> QED BY <1>1, <2>1, <2>6, <2>8, <2>9, BecomesHooks
<1> QED BY <1>2, <1>3 DEF SyncFails, WithChild

\* A transaction which creates branches and destroys some, of two in all,
\* either renames one or makes no other.
LEMMA TwoInAll ==
    ASSUME NEW C, C \subseteq Branches, NEW D, D \subseteq Branches,
           Cardinality(C) + Cardinality(D) <= 2, NEW object
    PROVE  ChildOK(Intends(C, D, object)) /\ Intends(C, D, object).child = None
<1> DEFINE alone(x, S) == \A y \in S \ {x} : object[y] # object[x]
           pairs == {x \in D \X C :
                        object[x[1]] = object[x[2]] /\ alone(x[1], D) /\ alone(x[2], C)}
<1>1. IsFiniteSet(Branches)
  <2>1. Sorted \in [1..Len(Sorted) -> Branches] /\ Len(Sorted) \in Nat
    BY WorktreeAssumption
  <2>2. Sorted \in Surjection(1..Len(Sorted), Branches)
    BY <2>1, WorktreeAssumption DEF Surjection
  <2>3. IsFiniteSet(1..Len(Sorted))
    BY <2>1, FS_Interval
  <2> QED BY <2>2, <2>3, FS_Surjection
<1>2. IsFiniteSet(C) /\ IsFiniteSet(D)
  BY <1>1, FS_Subset
<1>3. ASSUME pairs # {}
      PROVE  C \ {x[2] : x \in pairs} = {}
  <2>1. PICK x \in pairs : TRUE
    BY <1>3
  <2>2. x[1] \in D /\ x[2] \in C
    OBVIOUS
  <2>3. Cardinality(C) \in Nat /\ Cardinality(D) \in Nat /\ Cardinality(C) # 0 /\ Cardinality(D) # 0
    BY <1>2, <2>2, FS_CardinalityType, FS_EmptySet
  <2>4. Cardinality(C) = 1
    BY <2>3
  <2>5. PICK c : C = {c}
    BY <1>2, <2>4, FS_Singleton
  <2> HIDE DEF pairs
  <2> QED BY <2>1, <2>2, <2>5
<1>4. /\ Intends(C, D, object).created = C \ {x[2] : x \in pairs}
      /\ Intends(C, D, object).renamed = pairs
      /\ Intends(C, D, object).child = None
  BY DEF Intends, Idle
<1> HIDE DEF pairs
<1> QED BY <1>3, <1>4 DEF ChildOK

LEMMA StepHooks ==
    ASSUME SnapInv, HookInv, [SyncNext]_syncVars
    PROVE  HookInv'
<1>1. /\ SyncInv /\ DOMAIN sync = Hooks /\ sync \in [Hooks -> Syncs]
      /\ \A g \in Hooks : ChildOK(sync[g])
  BY DEF SnapInv, SyncInv, HooksOK, HookInv
<1>2. ASSUME NEW h \in Hooks, ReadCurrent(h)
      PROVE  HookInv'
  <2> DEFINE cur == [b \in Branches |-> IF Places(b) = {} THEN None ELSE CHOOSE p \in Places(b) : TRUE]
             k == [sync[h] EXCEPT !.pc = "branches", !.cur = cur, !.calm = TRUE]
  <2>1. sync[h].pc = "current" /\ sync' = [sync EXCEPT ![h] = IF Readable THEN k ELSE Idle]
    BY <1>2 DEF ReadCurrent
  <2> HIDE DEF cur
  <2>2. sync[h].child = None
    BY <1>1, <2>1 DEF ChildOK
  <2>3. k.child = None /\ k.created = sync[h].created /\ k.renamed = sync[h].renamed
    BY <1>1, <2>2 DEF Syncs
  <2> HIDE DEF k
  <2>4. ChildOK(k)
    BY <1>1, <2>3 DEF ChildOK
  <2>5. PICK j : sync' = [sync EXCEPT ![h] = j] /\ ChildOK(j) /\ j.child = None
    BY <2>1, <2>3, <2>4, IdleChild
  <2> QED BY <1>1, <2>5, SetHooks
<1>3. ASSUME NEW h \in Hooks, ReadBranches(h)
      PROVE  HookInv'
  <2> DEFINE k == [sync[h] EXCEPT !.want = refs]
  <2>1. sync[h].pc = "branches" /\ sync' = [sync EXCEPT ![h] = Enter(k, 1)]
    BY <1>3 DEF ReadBranches
  <2>2. k \in Syncs /\ k.child = sync[h].child /\ k.created = sync[h].created
        /\ k.renamed = sync[h].renamed
    BY <1>1 DEF Syncs, SyncInv
  <2> HIDE DEF k
  <2>3. sync[h].child = None
    BY <1>1, <2>1 DEF ChildOK
  <2>4. Enter(k, 1) = Idle \/ Kept(Enter(k, 1), k)
    BY <2>2, EnterShape
  <2>5. ChildOK(Enter(k, 1)) /\ Enter(k, 1).child = None
    BY <1>1, <2>2, <2>3, <2>4, IdleChild DEF Kept, ChildOK
  <2> QED BY <1>1, <2>1, <2>5, SetHooks
<1>4. ASSUME NEW h \in Hooks, SyncKilled(h)
      PROVE  HookInv'
  BY <1>1, <1>4, IdleChild, SetHooks DEF SyncKilled
<1>5. ASSUME NEW h \in Hooks, NEW C \in SUBSET Branches, NEW D \in SUBSET Branches,
             Cardinality(C) + Cardinality(D) <= 2, NEW object, Transaction(h, C, D, object)
      PROVE  HookInv'
  <2>1. sync' = [All(sync) EXCEPT ![h] = Intends(C, D, object)]
    BY <1>5 DEF Transaction, Use
  <2>2. \A g \in Hooks : All(sync)[g] = sync[g] \/ All(sync)[g] = Uncalm(sync[g])
    BY DEF All, Disturbed, Uncalm
  <2>3. \A g \in Hooks : sync'[g] = All(sync)[g] \/ (g = h /\ sync'[g] = Intends(C, D, object))
    BY <2>1 DEF All, Disturbed
  <2>4. ChildOK(Intends(C, D, object)) /\ Intends(C, D, object).child = None
    BY <1>5, TwoInAll
  <2> HIDE DEF SyncInv
  <2> QED BY <1>1, <2>2, <2>3, <2>4, SetHooks
<1>6. CASE sync' = All(sync)
  <2>1. \A g \in Hooks : sync'[g] = sync[g] \/ sync'[g] = Uncalm(sync[g])
    BY <1>6 DEF All, Disturbed, Uncalm
  <2>2. CASE Hooks = {}
    BY <2>2 DEF HookInv
  <2>3. CASE Hooks # {}
    BY <1>1, <2>1, <2>3, IdleChild, SetHooks
  <2> QED BY <2>2, <2>3
<1>7. CASE \E b, c \in Branches : FinishRename(b, c)
  BY <1>6, <1>7 DEF FinishRename, Use
<1>8. CASE \E p \in Branches, b \in Branches \cup {None} : Switch(p, b)
  BY <1>6, <1>8 DEF Switch, Use
<1>9. CASE \E p \in Branches : Edit(p) \/ RemoveDirectory(p)
  BY <1>6, <1>9 DEF Edit, RemoveDirectory, Use
<1>10. CASE UNCHANGED syncVars
  BY <1>10 DEF syncVars, HookInv, ChildOK
<1> QED BY <1>2, <1>3, <1>4, <1>5, <1>7, <1>8, <1>9, <1>10, ConvergeHooks, SyncFailsHooks
     DEF SyncNext, SyncStep

-----------------------------------------------------------------------------
(* One sync of the family acts.                                            *)

\* All the others that are at work wait.
LEMMA OthersWait ==
    ASSUME HookInv, OneActs, NEW h \in Hooks, Active(h), ~Waiting(h),
           NEW g \in Hooks \ {h}, Active(g)
    PROVE  /\ Waiting(g)
           /\ sync[g].pc \in {"create", "stale", "move", "missing"}
           /\ sync[g].pc # "missing" => sync[g].created # {} /\ sync[g].renamed = {}
<1>1. Waiting(g)
  BY DEF OneActs
<1> QED BY <1>1 DEF Waiting, HookInv, ChildOK

LEMMA StillOneActs ==
    ASSUME SyncInv, HookInv, OneActs, NEW h \in Hooks, Active(h), ~Waiting(h),
           NEW e, Alike(sync'[h], e),
           RunsNone(h) \/ \E f \in Hooks : Runs(h, e, f)
    PROVE  OneActs'
<1>1. \A g \in Hooks \ {h} : Active(g) => Waiting(g)
  BY OthersWait
<1>2. /\ \A g \in Hooks : sync[g].child \in Hooks \cup {None}
      /\ \A g, i \in Hooks : sync[g].child # None /\ sync[g].child = sync[i].child => g = i
      /\ sync'[h].pc = e.pc /\ None \notin Hooks
  BY WorktreeAssumption DEF SyncInv, HooksOK, Syncs, HookInv, Alike
<1>3. CASE RunsNone(h)
  <2>1. /\ \A g \in Hooks \ {h} : sync'[g].pc = sync[g].pc /\ sync'[g].child = sync[g].child
        /\ sync'[h].child = None
    BY <1>3 DEF RunsNone, Alike
  <2>2. ASSUME NEW g \in Hooks \ {h}, Active(g)', ~Waiting(g)'
        PROVE  sync[g].child = h /\ e.pc = "idle"
    <3>1. Active(g) /\ Waiting(g)
      BY <1>1, <2>1, <2>2 DEF Active
    <3> QED BY <1>2, <2>1, <2>2, <3>1 DEF Waiting
  <2>3. Active(h)' => e.pc # "idle"
    BY <1>2 DEF Active
  <2> QED BY <1>2, <2>2, <2>3 DEF OneActs
<1>4. ASSUME NEW f \in Hooks, Runs(h, e, f)
      PROVE  OneActs'
  <2>1. /\ \A g \in Hooks \ {h, f} :
             /\ sync'[g].pc = sync[g].pc
             /\ sync'[g].child = IF e.pc = "idle" /\ sync[g].child = h THEN f ELSE sync[g].child
        /\ sync'[h].child = IF e.pc = "idle" THEN None ELSE f
        /\ sync'[f].pc = "current" /\ f # h /\ \A g \in Hooks : sync[g].child # f
    BY <1>4 DEF Runs, Alike
  <2>2. ASSUME NEW g \in Hooks \ {f}, Active(g)', ~Waiting(g)'
        PROVE  FALSE
    <3>1. CASE g = h
      BY <1>2, <2>1, <2>2, <3>1 DEF Active, Waiting
    <3>2. CASE g # h
      <4>1. Active(g) /\ Waiting(g)
        BY <1>1, <2>1, <2>2, <3>2 DEF Active
      <4>2. sync[g].child \in Hooks /\ sync[sync[g].child].pc # "idle"
        BY <1>2, <4>1 DEF Waiting
      <4>3. CASE e.pc = "idle" /\ sync[g].child = h
        BY <1>2, <2>1, <2>2, <3>2, <4>3 DEF Waiting
      <4>4. CASE ~(e.pc = "idle" /\ sync[g].child = h)
        <5>1. sync'[g].child = sync[g].child /\ sync[g].child # f
          BY <2>1, <3>2, <4>4
        <5>2. sync'[sync[g].child].pc # "idle"
          BY <1>2, <2>1, <4>2, <4>4, <5>1
        <5> QED BY <1>2, <2>2, <4>2, <5>1, <5>2 DEF Waiting
      <4> QED BY <4>3, <4>4
    <3> QED BY <3>1, <3>2
  <2> QED BY <2>2 DEF OneActs
<1> QED BY <1>3, <1>4

-----------------------------------------------------------------------------
(* What the one that acts may do, and what it leaves.                      *)

\* Sync k may run each of its commands on worktrees that are where it thinks.
May(h, k) ==
    /\ k.want = refs /\ refs \subseteq Branches
    /\ k.cur \in [Branches -> Branches \cup {None}]
    /\ k.created = {} \/ k.renamed = {}
    /\ k.calm => CurOK(k.cur, refs, trees)
    /\ k.pc \in Early /\ k.renamed # {} => \A g \in Hooks \ {h} : ~Active(g)
    /\ k.pc \in Early /\ k.renamed = {} => KnownOK(k.cur, trees, refs)
    /\ k.pc \in Early /\ ~k.calm => /\ k.pc \in {"create", "stale", "move"} /\ k.created # {}
                                    /\ KnownOK(k.cur, trees, refs)

Effect(k, x, o) ==
    o.refs = refs /\ (StaysAs(k, x, o) \/ GoesHome(k, x, o) \/ AddsOne(k, x, o))

LEMMA FamilyMay ==
    ASSUME SnapInv, HookInv, NEW h \in Hooks, FamilyOK(h), NEW k, NEW x, NEW e, Does(h, k, x, e)
    PROVE  May(h, k) /\ Effect(k, x, Command(k, x)) /\ Active(h)
<1>1. /\ SyncInv /\ SyncOK(k) /\ SnapOK(k, trees, refs) /\ k.pc \in Phases /\ x \in k.todo
      /\ k.pc = sync[h].pc /\ k.cur = sync[h].cur /\ k.want = sync[h].want
      /\ k.created = sync[h].created /\ k.renamed = sync[h].renamed /\ k.calm = sync[h].calm
  BY DEF Does, Alike, SnapInv
<1>2. May(h, k)
  <2>1. refs \subseteq Branches /\ k.cur \in [Branches -> Branches \cup {None}]
    BY <1>1 DEF SyncInv, SyncOK, Syncs
  <2>2. k.want = refs /\ (k.calm => CurOK(k.cur, refs, trees))
    BY <1>1 DEF FamilyOK, SnapOK, CalmOK
  <2>3. k.created = {} \/ k.renamed = {}
    BY <1>1 DEF HookInv, ChildOK
  <2> QED BY <1>1, <2>1, <2>2, <2>3 DEF May, FamilyOK
<1>3. k.pc \in Early /\ ~k.calm => k.pc # "rename" /\ KnownOK(k.cur, trees, refs)
  BY <1>2 DEF May
<1>4. k.want = refs
  BY <1>2 DEF May
<1>5. Effect(k, x, Command(k, x))
  BY <1>1, <1>3, <1>4, FamilyCommand DEF Effect
<1>6. Active(h)
  BY <1>1 DEF Active, Phases
<1> QED BY <1>2, <1>5, <1>6

\* What any sync has noted stays known.
LEMMA KnownStays ==
    ASSUME SyncInv, NEW k, NEW x, NEW o, Effect(k, x, o), k.pc # "rename",
           NEW cur \in [Branches -> Branches \cup {None}], KnownOK(cur, trees, refs)
    PROVE  /\ KnownOK(cur, o.trees, refs)
           /\ o.ok => KnownOK([cur EXCEPT ![x] = x], o.trees, refs)
<1>1. CASE StaysAs(k, x, o)
  BY <1>1 DEF StaysAs
<1>2. CASE GoesHome(k, x, o)
  <2>1. x \in refs /\ x \in Branches /\ Goes(k.cur[x], x, o.trees) /\ Holds(trees, k.cur[x], x)
    BY <1>2 DEF GoesHome, SyncInv
  <2> QED BY <2>1, GoesKnown
<1>3. CASE AddsOne(k, x, o)
  BY <1>3, AddsKnown DEF AddsOne
<1> QED BY <1>1, <1>2, <1>3 DEF Effect

LEMMA RenamedFields ==
    ASSUME NEW k, SyncOK(k), k.pc = "rename", NEW x \in k.todo
    PROVE  /\ x[1] \in Branches /\ x[2] \in Branches
           /\ Noted(k, x).cur = [k.cur EXCEPT ![x[1]] = None, ![x[2]] = x[2]]
<1>1. x[1] \in Branches /\ x[2] \in Branches
  BY DEF SyncOK, TodoOK
<1> DEFINE new == [k EXCEPT !.cur[x[1]] = None, !.cur[x[2]] = x[2]]
<1>2. Noted(k, x) = new
  BY DEF Noted
<1>3. new.cur = [k.cur EXCEPT ![x[1]] = None, ![x[2]] = x[2]]
  BY DEF SyncOK, Syncs
<1> HIDE DEF new
<1> QED BY <1>1, <1>2, <1>3

LEMMA HomeFields ==
    ASSUME NEW k, SyncOK(k), k.pc \in {"create", "move", "missing"}, NEW x
    PROVE  Noted(k, x).cur = [k.cur EXCEPT ![x] = x]
<1> DEFINE new == [k EXCEPT !.cur[x] = x]
<1>1. Noted(k, x) = new
  BY DEF Noted
<1>2. new.cur = [k.cur EXCEPT ![x] = x]
  BY DEF SyncOK, Syncs
<1> HIDE DEF new
<1> QED BY <1>1, <1>2

\* A sync that renames has a rename to do.
LEMMA RenamesSome ==
    ASSUME NEW k, DueOK(k), k.pc = "rename", NEW x \in k.todo
    PROVE  k.renamed # {}
  BY DEF DueOK, Due, Phases

LEMMA NotedKnown ==
    ASSUME SyncInv, NEW h, NEW k, SyncOK(k), DueOK(k), k.pc \in Phases, NEW x \in k.todo, May(h, k),
           NEW o, Effect(k, x, o), k.pc \in Early, k.renamed = {}
    PROVE  KnownOK((IF o.ok THEN Noted(k, x) ELSE k).cur, o.trees, refs)
<1>1. k.pc # "rename"
  BY RenamesSome
<1>2. /\ KnownOK(k.cur, o.trees, refs)
      /\ o.ok => KnownOK([k.cur EXCEPT ![x] = x], o.trees, refs)
  BY <1>1, KnownStays DEF May
<1>3. CASE ~o.ok
  BY <1>2, <1>3
<1>4. CASE o.ok
  <2>1. k.pc \in {"create", "move", "missing"}
    BY <1>1, <1>4 DEF Effect, StaysAs, GoesHome, AddsOne
  <2>2. Noted(k, x).cur = [k.cur EXCEPT ![x] = x]
    BY <2>1, HomeFields
  <2> QED BY <1>2, <1>4, <2>2
<1> QED BY <1>3, <1>4

LEMMA ConvergeFamily ==
    ASSUME SnapInv, HookInv, OneActs, \A g \in Hooks : FamilyOK(g), NEW h \in Hooks, ~Waiting(h),
           NEW k, NEW x, NEW o, o = Command(k, x),
           NEW e, e = Done(IF o.ok THEN Noted(k, x) ELSE k, x),
           Does(h, k, x, e), Outcomes(o), Becomes(h, e, o)
    PROVE  OneActs' /\ \A g \in Hooks : FamilyOK(g)'
<1>1. May(h, k) /\ Effect(k, x, o) /\ Active(h)
  BY FamilyMay
<1>2. /\ SyncInv /\ SyncOK(k) /\ DueOK(k) /\ k.pc \in Phases /\ x \in k.todo
      /\ SyncOK(e) /\ e.child = None
  BY DEF Does, SnapInv, SnapOK
<1>3. /\ trees' = o.trees /\ refs' = refs
      /\ Alike(sync'[h], e) /\ sync'[h].calm = e.calm
      /\ RunsNone(h) \/ (o.ran # None /\ \E f \in Hooks : Runs(h, e, f))
  BY <1>1, <1>2, BecomesShape DEF Effect
<1>4. OneActs'
  BY <1>1, <1>2, <1>3, StillOneActs
<1>5. \/ e = Idle
      \/ /\ e.pc \in Phases /\ e.calm = k.calm /\ e.want = k.want
         /\ e.created = k.created /\ e.renamed = k.renamed
         /\ e.cur = (IF o.ok THEN Noted(k, x) ELSE k).cur
         /\ k.pc = "missing" => e.pc = "missing"
         /\ k.pc \in {"create", "stale", "move"} => e.pc \in {"create", "stale", "move", "missing"}
  BY <1>2, DoesNext
<1>6. e.pc \in Early => /\ e # Idle /\ k.pc \in Early
                        /\ e.pc \in Phases
  <2>1. e.pc \in Early => e # Idle
    BY IdleTyped DEF Early
  <2> QED BY <1>2, <1>5, <2>1 DEF Early, Phases
<1>7. ASSUME e.pc \in Early, e.renamed # {}, NEW g \in Hooks \ {h}
      PROVE  ~Active(g)'
  <2>1. k.renamed # {} /\ k.created = {} /\ ~Active(g)
    BY <1>1, <1>5, <1>6, <1>7 DEF May
  <2>2. o.ran = None
    <3>1. k.pc # "missing"
      BY <1>6, <1>7 DEF Early
    <3>2. k.pc = "create" => x \in k.created
      BY <1>2, DueFacts DEF DueOK, Due, Phases
    <3> QED BY <1>2, <2>1, <3>1, <3>2, CommandRan
  <2> QED BY <1>3, <2>1, <2>2, <1>7 DEF RunsNone, Alike, Active
<1>8. ASSUME e.pc \in Early, e.renamed = {}
      PROVE  KnownOK(e.cur, o.trees, refs)
  <2>1. k.renamed = {} /\ k.pc \in Early
    BY <1>5, <1>6, <1>8
  <2>2. KnownOK((IF o.ok THEN Noted(k, x) ELSE k).cur, o.trees, refs)
    BY <1>1, <1>2, <2>1, NotedKnown
  <2> QED BY <1>5, <1>6, <1>8, <2>2
<1>9. ASSUME e.pc \in Early, ~e.calm
      PROVE  e.pc \in {"create", "stale", "move"} /\ e.created # {}
  <2>1. k.pc \in {"create", "stale", "move"} /\ k.created # {}
    BY <1>1, <1>5, <1>6, <1>9 DEF May
  <2> QED BY <1>5, <1>6, <1>9, <2>1 DEF Early
<1>10. FamilyOK(h)'
  <2>1. /\ sync'[h].pc = e.pc /\ sync'[h].renamed = e.renamed /\ sync'[h].want = e.want
        /\ sync'[h].cur = e.cur /\ sync'[h].created = e.created /\ sync'[h].calm = e.calm
    BY <1>3 DEF Alike
  <2>2. e.pc # "current" /\ (e.pc \in Phases => e.want = refs)
    BY <1>1, <1>5, IdleTyped DEF May, Phases
  <2> QED BY <1>3, <1>7, <1>8, <1>9, <2>1, <2>2 DEF FamilyOK
<1>11. ASSUME NEW g \in Hooks \ {h}, Alike(sync'[g], sync[g])
       PROVE  FamilyOK(g)'
  <2>1. /\ sync'[g].pc = sync[g].pc /\ sync'[g].renamed = sync[g].renamed
        /\ sync'[g].want = sync[g].want /\ sync'[g].cur = sync[g].cur
        /\ sync'[g].created = sync[g].created
    BY <1>11 DEF Alike
  <2>2. FamilyOK(g)
    OBVIOUS
  <2>3. CASE ~Active(g)
    BY <1>3, <2>1, <2>2, <2>3 DEF Active, FamilyOK, Early, Phases
  <2>4. CASE Active(g)
    <3>1. /\ sync[g].pc \in {"create", "stale", "move", "missing"}
          /\ sync[g].pc # "missing" => sync[g].created # {} /\ sync[g].renamed = {}
      BY <1>1, <2>4, OthersWait
    <3>2. k.pc # "rename"
      BY <1>1, <1>2, <2>4, RenamesSome DEF May, Early
    <3>3. sync[g].cur \in [Branches -> Branches \cup {None}]
      BY <1>2 DEF SyncInv, HooksOK, Syncs
    <3>4. KnownOK(sync[g].cur, trees, refs) => KnownOK(sync[g].cur, o.trees, refs)
      BY <1>1, <1>2, <3>2, <3>3, KnownStays
    <3> QED BY <1>3, <2>1, <2>2, <3>1, <3>4 DEF FamilyOK, Early
  <2> QED BY <2>3, <2>4
<1>12. ASSUME NEW f \in Hooks, Runs(h, e, f)
       PROVE  FamilyOK(f)'
  BY <1>12 DEF Runs, FamilyOK, Early, Phases
<1>13. ASSUME NEW g \in Hooks \ {h}
       PROVE  FamilyOK(g)'
  BY <1>3, <1>11, <1>12 DEF RunsNone, Runs
<1> QED BY <1>4, <1>10, <1>13

-----------------------------------------------------------------------------
(* No branch is forgotten.                                                 *)

\* After its command the sync still awaits a branch, or the branch is served:
\* what moved is the worktree of the branch whose place it moved to.
LEMMA MoveForgetsNone ==
    ASSUME SyncInv, NEW h, NEW k, SyncOK(k), DueOK(k), k.pc \in Phases, NEW x \in k.todo, May(h, k),
           NEW o, GoesHome(k, x, o), NEW b \in refs
    PROVE  ServedIn(o.trees, o.dirs, b) \/ Awaits(Done(Noted(k, x), x), b)
<1> DEFINE n == Noted(k, x)
<1>1. SyncOK(n) /\ n.pc = k.pc /\ n.want = refs /\ k.pc \in Early /\ b \in Branches
  BY NotedTyped, NotedFields DEF May, GoesHome, Early
<1>2. /\ k.cur \in [Branches -> Branches \cup {None}]
      /\ k.calm => CurOK(k.cur, refs, trees)
      /\ ~k.calm => k.pc # "rename" /\ KnownOK(k.cur, trees, refs)
  BY <1>1 DEF May
<1>3. PICK from \in Branches, to \in Branches :
        /\ Goes(k.cur[from], to, o.trees)
        /\ \/ k.pc = "rename" /\ n.cur = [k.cur EXCEPT ![from] = None, ![to] = to]
           \/ from = to /\ n.cur = [k.cur EXCEPT ![to] = to]
  <2>1. CASE k.pc = "rename"
    <3>1. x[1] \in Branches /\ x[2] \in Branches /\ Goes(k.cur[x[1]], x[2], o.trees)
      BY <2>1 DEF GoesHome
    <3>2. n.cur = [k.cur EXCEPT ![x[1]] = None, ![x[2]] = x[2]]
      BY <2>1, RenamedFields
    <3> QED BY <2>1, <3>1, <3>2
  <2>2. CASE k.pc # "rename"
    <3>1. k.pc = "move" /\ x \in Branches /\ Goes(k.cur[x], x, o.trees)
      BY <2>2, <1>1 DEF GoesHome, May
    <3>2. n.cur = [k.cur EXCEPT ![x] = x]
      BY <3>1, HomeFields
    <3> QED BY <3>1, <3>2
  <2> QED BY <2>1, <2>2
<1>4. PICK p \in Branches :
        /\ p = k.cur[from] /\ trees[p] # None /\ o.trees[to] = trees[p]
        /\ \A r \in Branches \ {p} : trees[r] # None => o.trees[r] # None
  BY <1>3, GoesBranches
<1>5. n.cur[b] = None \/ b = to \/ (n.cur[b] = k.cur[b] /\ b # from)
  BY <1>1, <1>2, <1>3
<1> HIDE DEF n
<1>6. CASE b = to
  BY <1>4, <1>6 DEF ServedIn
<1>7. CASE n.cur[b] = None
  <2>1. Awaits(Done(n, x), b)
    BY <1>1, <1>7, DoneAwaits
  <2> QED BY <2>1 DEF n
<1>8. CASE b # to /\ n.cur[b] # None
  <2>1. k.cur[b] # None /\ b # from /\ k.cur[b] \in Branches
    BY <1>1, <1>2, <1>5, <1>8
  <2>2. ASSUME CheckedOut(trees, b)
        PROVE  ServedIn(o.trees, o.dirs, b)
    BY <1>3, <2>2, GoesCheckedOut DEF ServedIn
  <2>3. CASE k.calm
    <3>1. /\ trees[k.cur[b]] # None
          /\ trees[k.cur[b]].branch = b \/ k.cur[b] = b
          /\ k.cur[b] # p
      BY <1>1, <1>2, <1>4, <2>1, <2>3 DEF CurOK
    <3>2. CASE trees[k.cur[b]].branch = b
      BY <2>1, <2>2, <3>1, <3>2 DEF CheckedOut
    <3>3. CASE k.cur[b] = b
      BY <1>1, <1>4, <3>1, <3>3 DEF ServedIn
    <3> QED BY <3>1, <3>2, <3>3
  <2>4. CASE ~k.calm
    <3>1. CheckedOut(trees, b)
      BY <1>1, <1>2, <2>1, <2>4 DEF KnownOK, Holds, CheckedOut
    <3> QED BY <2>2, <3>1
  <2> QED BY <2>3, <2>4
<1> QED BY <1>6, <1>7, <1>8

LEMMA FreshIsNone ==
    ASSUME NEW b \in Branches
    PROVE  Fresh(b) # None
<1>1. Fresh(b) \in Trees
  BY DEF Fresh, Trees
<1> QED BY <1>1, NoneAssumption

\* A command that takes nothing away leaves what is served so, and the sync has
\* nothing more to do for a branch only if it has served it.
LEMMA StayForgetsNone ==
    ASSUME NEW h, NEW k, SyncOK(k), k.pc \in Phases, NEW x \in k.todo, May(h, k),
           NEW o, StaysAs(k, x, o) \/ AddsOne(k, x, o), SyncInv, NEW b \in refs,
           ServedIn(trees, dirs, b) \/ Awaits(k, b)
    PROVE  \/ ServedIn(o.trees, o.dirs, b)
           \/ Awaits(Done(IF o.ok THEN Noted(k, x) ELSE k, x), b)
<1> DEFINE n == IF o.ok THEN Noted(k, x) ELSE k
<1>1. SyncOK(n) /\ n.pc = k.pc /\ n.want = refs /\ n.todo = k.todo /\ b \in Branches
  BY NotedTyped, NotedFields DEF May
<1>2. dirs \subseteq o.dirs /\ \A p \in Branches : trees[p] # None => o.trees[p] = trees[p]
  BY DEF StaysAs, AddsOne, SyncInv, PlacesOK
<1>3. CASE ServedIn(trees, dirs, b)
  BY <1>1, <1>2, <1>3, ServedGrows
<1>4. CASE k.pc \in Early /\ k.cur[b] = None
  <2>1. CASE ~o.ok
    <3>1. n = k
      BY <2>1
    <3> HIDE DEF n
    <3>2. Awaits(Done(n, x), b)
      BY <1>1, <1>4, <3>1, DoneAwaits
    <3> QED BY <3>2 DEF n
  <2>2. CASE o.ok /\ StaysAs(k, x, o)
    <3>1. k.pc = "rename" /\ trees[x[2]] # None /\ o.trees = trees
      BY <2>2 DEF StaysAs
    <3>2. x[1] \in Branches /\ x[2] \in Branches
      BY <3>1, RenamedFields
    <3>3. n.cur = [k.cur EXCEPT ![x[1]] = None, ![x[2]] = x[2]]
      BY <2>2, <3>1, RenamedFields
    <3>4. b # x[2] => n.cur[b] = None
      BY <1>1, <1>4, <3>2, <3>3 DEF May
    <3> HIDE DEF n
    <3>5. CASE b = x[2]
      BY <3>1, <3>5 DEF ServedIn
    <3>6. CASE b # x[2]
      <4>1. Awaits(Done(n, x), b)
        BY <1>1, <1>4, <3>4, <3>6, DoneAwaits
      <4> QED BY <4>1 DEF n
    <3> QED BY <3>5, <3>6
  <2>3. CASE o.ok /\ AddsOne(k, x, o)
    <3>1. k.pc = "create" /\ o.trees = [trees EXCEPT ![x] = Fresh(x)] /\ x \in refs
      BY <1>4, <2>3 DEF AddsOne, Early
    <3>2. n.cur = [k.cur EXCEPT ![x] = x]
      BY <2>3, <3>1, HomeFields
    <3>3. b # x => n.cur[b] = None
      BY <1>1, <1>4, <3>2 DEF May
    <3> HIDE DEF n
    <3>4. CASE b = x
      BY <1>1, <3>1, <3>4, FreshIsNone DEF SyncInv, PlacesOK, ServedIn
    <3>5. CASE b # x
      <4>1. Awaits(Done(n, x), b)
        BY <1>1, <1>4, <3>3, <3>5, DoneAwaits
      <4> QED BY <4>1 DEF n
    <3> QED BY <3>4, <3>5
  <2> QED BY <2>1, <2>2, <2>3
<1>5. CASE k.pc = "missing" /\ b \in k.todo
  <2>1. CASE b = x /\ StaysAs(k, x, o)
    <3>1. ServedIn(trees, dirs, b)
      BY <1>5, <2>1 DEF StaysAs
    <3> QED BY <1>1, <1>2, <3>1, ServedGrows
  <2>2. CASE b = x /\ AddsOne(k, x, o)
    BY <1>1, <2>2, FreshIsNone DEF AddsOne, SyncInv, PlacesOK, ServedIn
  <2>3. CASE b # x
    <3> HIDE DEF n
    <3>1. Awaits(Done(n, x), b)
      BY <1>1, <1>5, <2>3, DoneAwaits
    <3> QED BY <3>1 DEF n
  <2> QED BY <2>1, <2>2, <2>3
<1> QED BY <1>3, <1>4, <1>5 DEF Awaits

LEMMA ConvergeForgetsNone ==
    ASSUME SnapInv, HookInv, FamilyInv, NEW h \in Hooks, ~Waiting(h),
           NEW k, NEW x, NEW o, o = Command(k, x),
           NEW e, e = Done(IF o.ok THEN Noted(k, x) ELSE k, x),
           Does(h, k, x, e), Outcomes(o), Becomes(h, e, o)
    PROVE  NoneForgotten'
<1>1. May(h, k) /\ Effect(k, x, o) /\ Active(h)
  BY FamilyMay DEF FamilyInv
<1>2. /\ SyncInv /\ SyncOK(k) /\ DueOK(k) /\ k.pc \in Phases /\ x \in k.todo
      /\ SyncOK(e) /\ e.child = None /\ Alike(k, sync[h])
  BY DEF Does, SnapInv, SnapOK
<1>3. /\ trees' = o.trees /\ dirs' = o.dirs /\ refs' = refs /\ Alike(sync'[h], e)
      /\ RunsNone(h) \/ \E f \in Hooks : Runs(h, e, f)
  BY <1>1, <1>2, BecomesShape DEF Effect
<1> SUFFICES ASSUME NEW b \in refs
             PROVE  ServedIn(trees', dirs', b) \/ \E g \in Hooks : Awaits(sync'[g], b)
  BY <1>3 DEF NoneForgotten
<1>4. ServedIn(trees, dirs, b) \/ \E g \in Hooks : Awaits(sync[g], b)
  BY <1>1 DEF FamilyInv, NoneForgotten
<1>5. CASE \E g \in Hooks \ {h} : Awaits(sync[g], b)
  <2>1. PICK g \in Hooks \ {h} : Awaits(sync[g], b)
    BY <1>5
  <2>2. sync[g].pc # "idle"
    BY <2>1 DEF Awaits, Early
  <2>3. Alike(sync'[g], sync[g])
    BY <1>3, <2>2 DEF RunsNone, Runs
  <2>4. Awaits(sync'[g], b)
    BY <2>1, <2>3 DEF Awaits, Alike
  <2> QED BY <2>4
<1>6. CASE ServedIn(trees, dirs, b) \/ Awaits(sync[h], b)
  <2>1. ServedIn(trees, dirs, b) \/ Awaits(k, b)
    BY <1>2, <1>6 DEF Awaits, Alike
  <2>2. ServedIn(o.trees, o.dirs, b) \/ Awaits(e, b)
    <3>1. CASE GoesHome(k, x, o)
      <4>1. e = Done(Noted(k, x), x)
        BY <3>1 DEF GoesHome
      <4> QED BY <1>1, <1>2, <3>1, <4>1, MoveForgetsNone
    <3>2. CASE StaysAs(k, x, o) \/ AddsOne(k, x, o)
      <4>1. \/ ServedIn(o.trees, o.dirs, b)
            \/ Awaits(Done(IF o.ok THEN Noted(k, x) ELSE k, x), b)
        BY <1>1, <1>2, <2>1, <3>2, StayForgetsNone
      <4> QED BY <4>1
    <3> QED BY <1>1, <3>1, <3>2 DEF Effect
  <2>3. Awaits(e, b) => Awaits(sync'[h], b)
    BY <1>3 DEF Awaits, Alike
  <2> QED BY <1>3, <2>2, <2>3
<1> QED BY <1>4, <1>5, <1>6

-----------------------------------------------------------------------------
(* A sync reads, and the family may begin with it.                         *)

\* The sync of hook h is k from then on, and nothing else has changed.
Reads(h, k) ==
    /\ sync' = [sync EXCEPT ![h] = k] /\ k.child = None
    /\ UNCHANGED <<refs, trees, dirs>>

LEMMA ReadsFamily ==
    ASSUME SyncInv, HookInv, OneActs, \A g \in Hooks : FamilyOK(g), NEW h \in Hooks,
           Active(h), ~Waiting(h), NEW k, Reads(h, k)
    PROVE  OneActs' /\ \A g \in Hooks \ {h} : FamilyOK(g)'
<1>1. /\ sync'[h] = k /\ \A g \in Hooks \ {h} : sync'[g] = sync[g]
      /\ trees' = trees /\ refs' = refs /\ k.child = None
  BY DEF Reads, SyncInv, HooksOK
<1>2. RunsNone(h) /\ Alike(sync'[h], k)
  BY <1>1 DEF RunsNone, Alike
<1>3. OneActs'
  BY <1>2, StillOneActs
<1>4. ASSUME NEW g \in Hooks \ {h} PROVE FamilyOK(g)'
  <2>1. \A i \in Hooks : Active(i)' => Active(i)
    BY <1>1 DEF Active
  <2> QED BY <1>1, <2>1 DEF FamilyOK
<1> QED BY <1>3, <1>4

LEMMA ReadsForgetsNone ==
    ASSUME SyncInv, FamilyInv, NEW h \in Hooks, Active(h), NEW k, Reads(h, k),
           \A b \in refs : Awaits(sync[h], b) => Awaits(k, b)
    PROVE  NoneForgotten'
<1>1. /\ sync'[h] = k /\ \A g \in Hooks \ {h} : sync'[g] = sync[g]
      /\ trees' = trees /\ refs' = refs /\ dirs' = dirs
  BY DEF Reads, SyncInv, HooksOK
<1>2. \A b \in refs : ServedIn(trees, dirs, b) \/ \E g \in Hooks : Awaits(sync[g], b)
  BY DEF FamilyInv, NoneForgotten
<1>3. \A b \in refs : ServedIn(trees, dirs, b) \/ \E g \in Hooks : Awaits(sync'[g], b)
  BY <1>1, <1>2
<1> QED BY <1>1, <1>3 DEF NoneForgotten

\* A first sync that can read finds the worktrees, and awaits every branch that
\* has none; one that cannot read ends.
LEMMA ReadCurrentServes ==
    ASSUME SnapInv, HookInv, settled => FamilyInv, NEW h \in Hooks, ReadCurrent(h), settled'
    PROVE  FamilyInv'
<1> DEFINE cur == [b \in Branches |-> IF Places(b) = {} THEN None ELSE CHOOSE p \in Places(b) : TRUE]
           k == [sync[h] EXCEPT !.pc = "branches", !.cur = cur, !.calm = TRUE]
           j == IF Readable THEN k ELSE Idle
<1>1. /\ sync[h].pc = "current" /\ sync' = [sync EXCEPT ![h] = j]
      /\ UNCHANGED <<refs, trees, dirs>>
      /\ settled \/ \A g \in Hooks \ {h} : ~Active(g)
  BY DEF ReadCurrent, Active
<1>2. SyncInv /\ sync \in [Hooks -> Syncs] /\ refs \subseteq Branches /\ None \notin Branches
  BY WorktreeAssumption DEF SnapInv, SyncInv, HooksOK
<1>3. sync[h].child = None /\ Active(h) /\ ~Waiting(h) /\ \A b : ~Awaits(sync[h], b)
  BY <1>1 DEF HookInv, ChildOK, Active, Waiting, Awaits, Early
<1>4. \A b \in Branches : IF cur[b] = None THEN TRUE ELSE Holds(trees, cur[b], b) /\ cur[b] \in Branches
  BY DEF Places, Holds
<1> HIDE DEF cur
<1>5. /\ k.pc = "branches" /\ k.cur = cur /\ k.calm = TRUE /\ k.child = None
      /\ k.renamed = sync[h].renamed
  BY <1>2, <1>3 DEF Syncs
<1> HIDE DEF k
<1>6. KnownOK(cur, trees, refs) /\ \A b \in refs : ServedIn(trees, dirs, b) \/ Awaits(k, b)
  BY <1>2, <1>4, <1>5 DEF KnownOK, Awaits, Early, ServedIn, CheckedOut, Holds
<1>7. j.child = None /\ (j = k \/ j = Idle)
  BY <1>5, IdleChild
<1>8. Reads(h, j)
  BY <1>1, <1>7 DEF Reads
<1>9. sync'[h] = j /\ \A g \in Hooks \ {h} : sync'[g] = sync[g]
  BY <1>1, <1>2
<1>10. OneActs' /\ \A g \in Hooks \ {h} : FamilyOK(g)'
  <2>1. CASE settled
    BY <1>2, <1>3, <1>8, <2>1, ReadsFamily DEF FamilyInv
  <2>2. CASE \A g \in Hooks \ {h} : ~Active(g)
    BY <1>9, <2>2 DEF OneActs, FamilyOK, Active, Early, Phases
  <2> QED BY <1>1, <2>1, <2>2
<1>11. FamilyOK(h)'
  <2>1. CASE j = Idle
    BY <1>9, <2>1, IdleTyped DEF FamilyOK, Early, Phases
  <2>2. CASE j = k
    <3>1. k.renamed = {} \/ \A g \in Hooks \ {h} : ~Active(g)
      BY <1>1, <1>5 DEF FamilyInv, FamilyOK
    <3>2. k.renamed = {} \/ \A g \in Hooks \ {h} : ~Active(g)'
      BY <1>9, <3>1 DEF Active
    <3> QED BY <1>1, <1>5, <1>6, <1>9, <2>2, <3>2 DEF FamilyOK, Phases
  <2> QED BY <1>7, <2>1, <2>2
<1>12. NoneForgotten'
  <2>1. CASE Readable
    <3>1. j = k
      BY <2>1
    <3> QED BY <1>1, <1>6, <1>9, <3>1 DEF NoneForgotten
  <2>2. CASE settled
    BY <1>2, <1>3, <1>8, <2>2, ReadsForgetsNone
  <2>3. CASE ~Readable /\ \A g \in Hooks \ {h} : ~Active(g)
    <3>1. j = Idle
      BY <2>3
    <3>2. ~Readable' /\ \A g \in Hooks : ~Active(g)'
      BY <1>1, <1>9, <2>3, <3>1, IdleTyped DEF Active, Readable, Places
    <3> QED BY <3>2 DEF NoneForgotten
  <2> QED BY <1>1, <2>1, <2>2, <2>3
<1> QED BY <1>10, <1>11, <1>12 DEF FamilyInv

LEMMA ReadBranchesServes ==
    ASSUME SnapInv, HookInv, FamilyInv, NEW h \in Hooks, ReadBranches(h)
    PROVE  FamilyInv'
<1> DEFINE k == [sync[h] EXCEPT !.want = refs]
           e == Enter(k, 1)
<1>1. /\ sync[h].pc = "branches" /\ sync' = [sync EXCEPT ![h] = e]
      /\ UNCHANGED <<refs, trees, dirs>>
  BY DEF ReadBranches
<1>2. SyncInv /\ sync \in [Hooks -> Syncs] /\ refs \subseteq Branches
  BY DEF SnapInv, SyncInv, HooksOK
<1>3. sync[h].child = None /\ Active(h) /\ ~Waiting(h)
  BY <1>1 DEF HookInv, ChildOK, Active, Waiting
<1>4. /\ k \in Syncs /\ k.want = refs /\ k.cur = sync[h].cur /\ k.calm = sync[h].calm
      /\ k.child = None /\ k.renamed = sync[h].renamed
  BY <1>2, <1>3 DEF Syncs
<1>5. /\ sync[h].calm
      /\ sync[h].renamed # {} => \A g \in Hooks \ {h} : ~Active(g)
      /\ sync[h].renamed = {} => KnownOK(sync[h].cur, trees, refs)
  BY <1>1 DEF FamilyInv, FamilyOK, Early
<1> HIDE DEF k
<1>6. \/ e = Idle /\ \A m \in 1..6 : Due(k, SyncPhases[m]) = {}
      \/ /\ \E m \in 1..6 : e.pc = SyncPhases[m] /\ e.todo = Due(k, SyncPhases[m])
         /\ Kept(e, k)
  BY <1>4, EnterShape
<1> HIDE DEF e
<1>7. e.child = None /\ (e = Idle \/ (e.pc \in Phases /\ Kept(e, k)))
  <2>1. \A m \in 1..6 : SyncPhases[m] \in Phases
    BY PhaseNames
  <2> QED BY <1>4, <1>6, <2>1, IdleChild DEF Kept
<1>8. Reads(h, e)
  BY <1>1, <1>7 DEF Reads
<1>9. sync'[h] = e /\ \A g \in Hooks \ {h} : sync'[g] = sync[g]
  BY <1>1, <1>2
<1>10. OneActs' /\ \A g \in Hooks \ {h} : FamilyOK(g)'
  BY <1>2, <1>3, <1>8, ReadsFamily DEF FamilyInv
<1>11. FamilyOK(h)'
  <2>1. CASE e = Idle
    BY <1>9, <2>1, IdleTyped DEF FamilyOK, Early, Phases
  <2>2. CASE e.pc \in Phases /\ Kept(e, k)
    <3>1. e.renamed # {} => \A g \in Hooks \ {h} : ~Active(g)'
      BY <1>4, <1>5, <1>9, <2>2 DEF Kept, Active
    <3> QED BY <1>1, <1>4, <1>5, <1>9, <2>2, <3>1 DEF FamilyOK, Kept, Phases
  <2> QED BY <1>7, <2>1, <2>2
<1>12. ASSUME NEW b \in refs, Awaits(sync[h], b)
       PROVE  Awaits(e, b)
  <2>1. sync[h].cur[b] = None
    BY <1>1, <1>12 DEF Awaits
  <2>2. b \in Due(k, "missing") /\ SyncPhases[6] = "missing"
    BY <1>4, <2>1 DEF Due, SyncPhases
  <2>3. e # Idle \/ ~\A m \in 1..6 : Due(k, SyncPhases[m]) = {}
    BY <2>2
  <2>4. PICK m \in 1..6 : e.pc = SyncPhases[m] /\ e.todo = Due(k, SyncPhases[m]) /\ Kept(e, k)
    BY <1>6, <2>3
  <2>5. e.pc \in Phases /\ e.cur[b] = None
    BY <1>4, <2>1, <2>4, PhaseNames DEF Kept
  <2>6. e.pc = "missing" => b \in e.todo
    BY <2>2, <2>4
  <2> QED BY <2>5, <2>6 DEF Awaits, Early, Phases
<1>13. NoneForgotten'
  BY <1>2, <1>3, <1>8, <1>12, ReadsForgetsNone
<1> QED BY <1>10, <1>11, <1>13 DEF FamilyInv

-----------------------------------------------------------------------------
(* Every branch is served.                                                 *)

LEMMA StartServes == WtInit => ServeInv
<1> SUFFICES ASSUME WtInit PROVE ServeInv
  OBVIOUS
<1>1. \A h \in Hooks : sync[h] = Idle
  BY DEF WtInit
<1>2. HookInv
  BY <1>1, IdleChild DEF HookInv
<1>3. ~settled
  BY DEF WtInit
<1> QED BY <1>2, <1>3, StartSnap DEF ServeInv

LEMMA StepServes ==
    ASSUME ServeInv, [SyncNext]_syncVars
    PROVE  ServeInv'
<1>1. SnapInv /\ HookInv /\ (settled => FamilyInv)
  BY DEF ServeInv
<1>2. SnapInv' /\ HookInv'
  BY <1>1, StepSnap, StepHooks
<1>3. CASE \E h \in Hooks : ReadCurrent(h)
  BY <1>1, <1>2, <1>3, ReadCurrentServes DEF ServeInv
<1>4. CASE \E h \in Hooks : ReadBranches(h)
  <2>1. settled' = settled
    BY <1>4 DEF ReadBranches
  <2>2. settled => FamilyInv'
    BY <1>1, <1>4, ReadBranchesServes
  <2> QED BY <1>2, <2>1, <2>2 DEF ServeInv
<1>5. ASSUME NEW h \in Hooks, Converge(h), settled
      PROVE  FamilyInv'
  <2>1. ~Waiting(h) /\ FamilyInv
    BY <1>1, <1>5, ConvergeDoes
  <2>2. PICK k, x :
          LET o == Command(k, x)
              e == Done(IF o.ok THEN Noted(k, x) ELSE k, x)
          IN  Does(h, k, x, e) /\ Outcomes(o) /\ Becomes(h, e, o)
    BY <1>1, <1>5, ConvergeDoes
  <2>3. PICK o, e :
          /\ o = Command(k, x) /\ e = Done(IF o.ok THEN Noted(k, x) ELSE k, x)
          /\ Does(h, k, x, e) /\ Outcomes(o) /\ Becomes(h, e, o)
    BY <2>2
  <2>4. OneActs' /\ \A g \in Hooks : FamilyOK(g)'
    BY <1>1, <2>1, <2>3, ConvergeFamily DEF FamilyInv
  <2>5. NoneForgotten'
    BY <1>1, <2>1, <2>3, ConvergeForgetsNone
  <2> QED BY <2>4, <2>5 DEF FamilyInv
<1>6. CASE \E h \in Hooks : Converge(h)
  BY <1>2, <1>5, <1>6 DEF Converge, ServeInv
<1>7. CASE ~settled'
  BY <1>2, <1>7 DEF ServeInv
<1>8. CASE \E h \in Hooks : SyncFails(h) \/ SyncKilled(h)
  BY <1>7, <1>8 DEF SyncFails, SyncKilled
<1>9. CASE \E s : Use(s)
  BY <1>7, <1>9 DEF Use
<1>10. CASE \E h \in Hooks, C, D \in SUBSET Branches :
              \E object \in [C \cup D -> {0, 1}] : Transaction(h, C, D, object)
  BY <1>9, <1>10 DEF Transaction
<1>11. CASE \/ \E b, c \in Branches : FinishRename(b, c)
            \/ \E p \in Branches, b \in Branches \cup {None} : Switch(p, b)
            \/ \E p \in Branches : Edit(p) \/ RemoveDirectory(p)
  BY <1>9, <1>11 DEF FinishRename, Switch, Edit, RemoveDirectory
<1>12. CASE UNCHANGED syncVars
  BY <1>1, <1>2, <1>12 DEF syncVars, ServeInv, FamilyInv, OneActs, FamilyOK, NoneForgotten,
     Active, Waiting, Readable, Places
<1> QED BY <1>3, <1>4, <1>6, <1>8, <1>10, <1>11, <1>12 DEF SyncNext, SyncStep

\* When nobody is at work, nobody awaits a branch: it is served.  Where a
\* worktree is listed and the worktrees can be read, its directory is there.
LEMMA InvServes == ServeInv => EveryBranchServed
<1> SUFFICES ASSUME ServeInv, Quiescent, Readable, NEW b \in refs
             PROVE  CheckedOut(trees, b) \/ There(trees, dirs, b)
  BY DEF EveryBranchServed
<1>1. b \in Branches /\ \A h \in Hooks : sync[h].pc = "idle"
  BY DEF ServeInv, SnapInv, SyncInv, Quiescent
<1>2. \A h \in Hooks : ~Awaits(sync[h], b)
  BY <1>1 DEF Awaits, Early
<1>3. ServedIn(trees, dirs, b)
  BY <1>2 DEF ServeInv, FamilyInv, NoneForgotten, Quiescent
<1> QED BY <1>1, <1>3 DEF ServedIn, Readable

\* When a sync, with the hooks its commands ran, has ended and nothing else has
\* happened since it began, every branch has a worktree or its place is taken
\* (sync_worktrees(), for any branches, places, hook processes and events
\* before, and with every failure of a command that git decides on itself).
THEOREM BranchesServed == SyncSpec => []EveryBranchServed
<1>1. ServeInv /\ [SyncNext]_syncVars => ServeInv'
  BY StepServes
<1> QED BY StartServes, <1>1, InvServes, PTL DEF SyncSpec

-----------------------------------------------------------------------------
(***************************************************************************)
(* What an undisturbed sync leaves behind.  It knows where every branch is *)
(* that has a worktree (the third invariant), so that the worktrees it     *)
(* makes are those git lets it make, and what it goes by lets it destroy   *)
(* none.  When it moves one, each directory above the old place still has  *)
(* a worktree in it or is removed: a path that holds the old place, or is  *)
(* held by it, is the only one that can lose a worktree.                   *)
(***************************************************************************)
Knows(k, t, r) ==
    k.calm /\ k.pc \notin {"idle", "current"} /\ (\A y \in k.renamed : y[1] \notin r) =>
        \A b \in r : CheckedOut(t, b) => k.cur[b] # None

KnowInv == SnapInv /\ \A h \in Hooks : Knows(sync[h], trees, refs)

LEMMA RestingKnows ==
    ASSUME NEW k, k.pc \in {"idle", "current"}, NEW t, NEW r
    PROVE  Knows(k, t, r)
  BY DEF Knows

LEMMA UncalmKnows ==
    ASSUME NEW k \in Syncs, NEW t, NEW r
    PROVE  Knows(Uncalm(k), t, r)
<1>1. Uncalm(k).calm = FALSE
  BY DEF Uncalm, Syncs
<1> QED BY <1>1 DEF Knows

LEMMA ChildKnows ==
    ASSUME NEW k \in Syncs, NEW t, NEW r, Knows(k, t, r), NEW c
    PROVE  Knows(WithChild(k, c), t, r)
<1> DEFINE e == WithChild(k, c)
<1>1. e.calm = k.calm /\ e.pc = k.pc /\ e.cur = k.cur /\ e.renamed = k.renamed
  BY DEF WithChild, Syncs
<1> HIDE DEF e
<1>2. Knows(e, t, r)
  BY <1>1 DEF Knows
<1> QED BY <1>2 DEF e

LEMMA KeptKnows ==
    ASSUME NEW k, NEW e, k.pc \notin {"idle", "current"}, NEW t, NEW r, Knows(k, t, r),
           e = Idle \/ Kept(e, k)
    PROVE  Knows(e, t, r)
<1>1. CASE e = Idle
  BY <1>1, IdleTyped, RestingKnows
<1>2. CASE Kept(e, k)
  BY <1>2 DEF Knows, Kept
<1> QED BY <1>1, <1>2

\* A move checks nothing out.
LEMMA GoesChecksOut ==
    ASSUME SyncInv, NEW p, NEW q \in Branches, NEW t, Goes(p, q, t), NEW b, CheckedOut(t, b)
    PROVE  CheckedOut(trees, b)
<1>1. PICK r \in Branches : t[r] # None /\ t[r].branch = b
  BY DEF CheckedOut
<1>2. /\ p \in Branches /\ trees[p] # None /\ t[p] = None /\ t[q] = trees[p]
      /\ \A s \in Branches \ {p} :
           trees[s] # None => t[s] # None /\ t[s].branch = trees[s].branch
  BY GoesBranches
<1>3. CASE r = q
  BY <1>1, <1>2, <1>3 DEF CheckedOut
<1>4. CASE r # q
  <2>1. t[r] = IF In(r, p) /\ trees[r] # None THEN [trees[r] EXCEPT !.gone = TRUE] ELSE trees[r]
    BY <1>1, <1>2, <1>4 DEF Goes, Carried
  <2>2. trees[r] # None
    BY <1>1, <2>1
  <2> QED BY <1>1, <1>2, <2>2 DEF CheckedOut
<1> QED BY <1>3, <1>4

\* After a command the sync knows what it knew, and what the command did.
LEMMA CommandKnows ==
    ASSUME SyncInv, NEW k, SyncOK(k), SnapOK(k, trees, refs), k.pc \in Phases,
           NEW x \in k.todo, Knows(k, trees, refs)
    PROVE  LET o == Command(k, x)
           IN  Knows(IF o.ok THEN Noted(k, x) ELSE k, o.trees, o.refs)
<1> DEFINE o == Command(k, x)
           n == IF o.ok THEN Noted(k, x) ELSE k
<1>0. /\ Noted(k, x).calm = k.calm /\ Noted(k, x).pc = k.pc
      /\ Noted(k, x).renamed = k.renamed
      /\ k.pc = "rename" => Noted(k, x).cur = [k.cur EXCEPT ![x[1]] = None, ![x[2]] = x[2]]
      /\ k.pc \in {"create", "move", "missing"} => Noted(k, x).cur = [k.cur EXCEPT ![x] = x]
  <2> HIDE DEF o, n
  <2>1. /\ Noted(k, x).calm = k.calm /\ Noted(k, x).pc = k.pc
        /\ Noted(k, x).renamed = k.renamed
    BY NotedFields
  <2>2. k.pc = "rename" => Noted(k, x).cur = [k.cur EXCEPT ![x[1]] = None, ![x[2]] = x[2]]
    BY RenamedFields
  <2>3. k.pc \in {"create", "move", "missing"} => Noted(k, x).cur = [k.cur EXCEPT ![x] = x]
    BY HomeFields
  <2> QED BY <2>1, <2>2, <2>3
<1>1. /\ n.pc = k.pc /\ n.calm = k.calm /\ n.renamed = k.renamed
      /\ ~o.ok => n.cur = k.cur
      /\ o.ok /\ k.pc = "rename" => n.cur = [k.cur EXCEPT ![x[1]] = None, ![x[2]] = x[2]]
      /\ o.ok /\ k.pc \in {"create", "move", "missing"} => n.cur = [k.cur EXCEPT ![x] = x]
  <2> HIDE DEF o
  <2>1. CASE o.ok
    BY <1>0, <2>1
  <2>2. CASE ~o.ok
    BY <2>2
  <2> QED BY <2>1, <2>2
<1> SUFFICES Knows(n, o.trees, o.refs)
  OBVIOUS
<1> HIDE DEF n
<1> SUFFICES ASSUME k.calm, \A y \in k.renamed : y[1] \notin o.refs,
                    NEW b \in o.refs, CheckedOut(o.trees, b)
             PROVE  n.cur[b] # None
  <2> HIDE DEF o
  <2> QED BY <1>1 DEF Knows
<1>2. /\ k.want = refs /\ DueOK(k) /\ None \notin Branches
      /\ k.cur \in [Branches -> Branches \cup {None}] /\ refs \subseteq Branches
  BY WorktreeAssumption DEF SnapOK, CalmOK, SyncOK, Syncs, SyncInv
<1>3. /\ o.refs = refs
      /\ StaysAs(k, x, o) \/ GoesHome(k, x, o) \/ AddsOne(k, x, o)
  BY <1>2, FamilyCommand
<1>4. k.pc = "rename" => x[1] \in Branches /\ x[2] \in Branches /\ x[1] \notin refs
  BY <1>2, <1>3, DueFacts
<1>5. b \in Branches /\ b \in refs
  BY <1>2, <1>3
<1>6. k.pc \notin {"idle", "current"}
  BY DEF Phases
<1>7. CheckedOut(trees, b) => k.cur[b] # None
  BY <1>3, <1>5, <1>6 DEF Knows
<1> HIDE DEF o, n
<1>8. CASE StaysAs(k, x, o)
  <2>1. k.cur[b] # None
    BY <1>7, <1>8 DEF StaysAs
  <2> QED BY <1>1, <1>2, <1>4, <1>5, <1>8, <2>1 DEF StaysAs
<1>9. CASE GoesHome(k, x, o)
  <2>1. CheckedOut(trees, b)
    BY <1>2, <1>9, GoesChecksOut DEF GoesHome
  <2> QED BY <1>1, <1>2, <1>4, <1>5, <1>7, <1>9, <2>1 DEF GoesHome
<1>10. CASE AddsOne(k, x, o)
  <2>1. trees \in [Branches -> Trees \cup {None}]
    BY DEF SyncInv, PlacesOK
  <2>2. b # x => CheckedOut(trees, b)
    BY <1>10, <2>1 DEF AddsOne, CheckedOut, Fresh
  <2> QED BY <1>1, <1>2, <1>5, <1>7, <1>10, <2>2 DEF AddsOne
<1> QED BY <1>3, <1>8, <1>9, <1>10

LEMMA BecomesKnows ==
    ASSUME KnowInv, SnapInv', NEW h \in Hooks, NEW k, SyncOK(k), NEW o, Outcomes(o),
           Becomes(h, k, o), Knows(k, o.trees, o.refs)
    PROVE  KnowInv'
<1>1. SyncInv
  BY DEF KnowInv, SnapInv
<1>2. /\ trees' = o.trees /\ refs' = o.refs
      /\ sync'[h] = k \/ \E c : sync'[h] = WithChild(k, c)
      /\ \A g \in Hooks \ {h} : \E j \in Syncs :
           /\ sync'[g] = j \/ \E c : sync'[g] = WithChild(j, c)
           /\ Rests(j, g, o.trees = trees /\ o.refs = refs)
  BY <1>1, BecomesSyncs
<1>3. Knows(sync'[h], trees', refs')
  BY <1>2, ChildKnows DEF SyncOK
<1>4. ASSUME NEW g \in Hooks \ {h}
      PROVE  Knows(sync'[g], trees', refs')
  <2>1. Knows(sync[g], trees, refs) /\ sync[g] \in Syncs
    BY <1>1 DEF KnowInv, SyncInv, HooksOK
  <2>2. PICK j \in Syncs :
          /\ sync'[g] = j \/ \E c : sync'[g] = WithChild(j, c)
          /\ Rests(j, g, o.trees = trees /\ o.refs = refs)
    BY <1>2
  <2>3. Knows(j, trees', refs')
    <3>1. CASE j.pc \in {"idle", "current"}
      BY <3>1, RestingKnows
    <3>2. CASE j = Uncalm(sync[g])
      BY <2>1, <3>2, UncalmKnows
    <3>3. CASE j = sync[g] /\ o.trees = trees /\ o.refs = refs
      BY <1>2, <2>1, <3>3
    <3> QED BY <2>2, <3>1, <3>2, <3>3 DEF Rests
  <2> QED BY <2>2, <2>3, ChildKnows
<1>5. \A g \in Hooks : Knows(sync'[g], trees', refs')
  BY <1>3, <1>4
<1> QED BY <1>5 DEF KnowInv, Knows, CheckedOut

LEMMA SetKnows ==
    ASSUME KnowInv, SnapInv', UNCHANGED <<trees, refs>>,
           NEW h \in Hooks, NEW k, sync' = [sync EXCEPT ![h] = k], Knows(k, trees, refs)
    PROVE  KnowInv'
<1>1. sync \in [Hooks -> Syncs] /\ \A g \in Hooks : Knows(sync[g], trees, refs)
  BY DEF KnowInv, SnapInv, SyncInv, HooksOK
<1>2. \A g \in Hooks : Knows(sync'[g], trees', refs')
  BY <1>1
<1> QED BY <1>2 DEF KnowInv, Knows, CheckedOut

LEMMA UserKnows ==
    ASSUME KnowInv, SnapInv',
           \A g \in Hooks : sync'[g] = All(sync)[g] \/ sync'[g].pc \in {"idle", "current"}
    PROVE  KnowInv'
<1>1. ASSUME NEW g \in Hooks PROVE Knows(sync'[g], trees', refs')
  <2>1. sync[g] \in Syncs
    BY DEF KnowInv, SnapInv, SyncInv, HooksOK
  <2>2. None \notin Hooks
    BY WorktreeAssumption
  <2>3. sync'[g].pc \in {"idle", "current"} \/ sync'[g] = Uncalm(sync[g])
    BY <2>2 DEF All, Disturbed, Uncalm
  <2> QED BY <2>1, <2>3, RestingKnows, UncalmKnows
<1> QED BY <1>1 DEF KnowInv, Knows, CheckedOut

-----------------------------------------------------------------------------
(* Every step keeps what the syncs know.                                   *)

LEMMA StartKnows == WtInit => KnowInv
<1> SUFFICES ASSUME WtInit PROVE KnowInv
  OBVIOUS
<1>1. \A h \in Hooks : sync[h] = Idle
  BY DEF WtInit
<1>2. \A h \in Hooks : Knows(sync[h], trees, refs)
  BY <1>1, IdleTyped, RestingKnows
<1> QED BY <1>2, StartSnap DEF KnowInv

LEMMA ReadCurrentKnows ==
    ASSUME KnowInv, SnapInv', NEW h \in Hooks, ReadCurrent(h)
    PROVE  KnowInv'
<1> DEFINE cur == [b \in Branches |-> IF Places(b) = {} THEN None ELSE CHOOSE p \in Places(b) : TRUE]
           k == [sync[h] EXCEPT !.pc = "branches", !.cur = cur, !.calm = TRUE]
<1>1. sync[h] \in Syncs /\ refs \subseteq Branches
  BY DEF KnowInv, SnapInv, SyncInv, HooksOK
<1>2. /\ sync' = [sync EXCEPT ![h] = IF Readable THEN k ELSE Idle]
      /\ UNCHANGED <<refs, trees>>
  BY DEF ReadCurrent
<1>3. ASSUME NEW b \in Branches, CheckedOut(trees, b)
      PROVE  cur[b] # None
  <2>1. Places(b) # {} /\ Places(b) \subseteq Branches
    BY <1>3 DEF CheckedOut, Places
  <2>2. cur[b] = CHOOSE p \in Places(b) : TRUE
    BY <2>1
  <2> HIDE DEF cur
  <2> QED BY <2>1, <2>2, WorktreeAssumption
<1> HIDE DEF cur
<1>4. k.cur = cur
  BY <1>1 DEF Syncs
<1> HIDE DEF k
<1>5. Knows(k, trees, refs)
  BY <1>1, <1>3, <1>4 DEF Knows
<1>6. Knows(Idle, trees, refs)
  BY IdleTyped, RestingKnows
<1> QED BY <1>2, <1>5, <1>6, SetKnows

LEMMA ReadBranchesKnows ==
    ASSUME KnowInv, SnapInv', NEW h \in Hooks, ReadBranches(h)
    PROVE  KnowInv'
<1> DEFINE k == [sync[h] EXCEPT !.want = refs]
<1>1. sync[h] \in Syncs /\ Knows(sync[h], trees, refs) /\ refs \subseteq Branches
  BY DEF KnowInv, SnapInv, SyncInv, HooksOK
<1>2. /\ sync[h].pc = "branches" /\ sync' = [sync EXCEPT ![h] = Enter(k, 1)]
      /\ UNCHANGED <<refs, trees>>
  BY DEF ReadBranches
<1>3. /\ k \in Syncs /\ k.cur = sync[h].cur /\ k.calm = sync[h].calm
      /\ k.renamed = sync[h].renamed /\ k.pc = sync[h].pc
  BY <1>1 DEF Syncs
<1> HIDE DEF k
<1>4. Knows(k, trees, refs)
  BY <1>1, <1>3 DEF Knows
<1>5. Enter(k, 1) = Idle \/ Kept(Enter(k, 1), k)
  BY <1>3, EnterShape
<1>6. Knows(Enter(k, 1), trees, refs)
  BY <1>2, <1>3, <1>4, <1>5, KeptKnows
<1> QED BY <1>2, <1>6, SetKnows

LEMMA ConvergeKnows ==
    ASSUME KnowInv, SnapInv', NEW h \in Hooks, Converge(h)
    PROVE  KnowInv'
<1> DEFINE k == WithChild(sync[h], None)
<1>1. PICK x \in Next1(k) :
        Becomes(h, Done(IF Command(k, x).ok THEN Noted(k, x) ELSE k, x), Command(k, x))
  BY DEF Converge, WithChild
<1>2. SnapInv /\ SyncInv /\ sync[h] \in Syncs /\ Knows(sync[h], trees, refs)
  BY DEF KnowInv, SnapInv, SyncInv, HooksOK
<1>3. sync[h].pc \notin {"idle", "current", "branches"}
  BY <1>2, ChildForgotten DEF Converge
<1>4. SyncOK(k) /\ SnapOK(k, trees, refs) /\ k.pc \in Phases /\ Knows(k, trees, refs)
  BY <1>2, <1>3, InPhase, ChildKnows
<1> HIDE DEF k
<1> DEFINE o == Command(k, x)
           n == IF o.ok THEN Noted(k, x) ELSE k
           e == Done(n, x)
<1>5. x \in k.todo
  BY NextIsTodo
<1>6. Outcomes(o)
  BY <1>2, <1>4, <1>5, CommandTyped
<1>7. SyncOK(n) /\ n.pc \in Phases
  BY <1>4, <1>5, NotedTyped
<1>8. Knows(n, o.trees, o.refs)
  BY <1>2, <1>4, <1>5, CommandKnows
<1>9. Becomes(h, e, o)
  BY <1>1
<1> HIDE DEF o, n
<1>10. SyncOK(e) /\ (e = Idle \/ Kept(e, n))
  BY <1>7, DoneTyped, DoneShape
<1>11. Knows(e, o.trees, o.refs)
  BY <1>7, <1>8, <1>10, KeptKnows DEF Phases
<1> HIDE DEF e
<1> QED BY <1>6, <1>9, <1>10, <1>11, BecomesKnows

LEMMA SyncFailsKnows ==
    ASSUME KnowInv, SnapInv', NEW h \in Hooks, SyncFails(h)
    PROVE  KnowInv'
<1> DEFINE k == WithChild(sync[h], None)
<1>1. SnapInv /\ SyncInv /\ sync[h] \in Syncs /\ Knows(sync[h], trees, refs)
  BY DEF KnowInv, SnapInv, SyncInv, HooksOK
<1>2. CASE sync' = [sync EXCEPT ![h] = Idle] /\ UNCHANGED <<refs, trees, dirs>>
  <2>1. Knows(Idle, trees, refs)
    BY IdleTyped, RestingKnows
  <2> QED BY <1>2, <2>1, SetKnows
<1>3. CASE /\ k.pc \notin {"idle", "current", "branches"}
           /\ \E x \in Next1(k) : Becomes(h, Done(k, x), Broken(k, x))
  <2>1. PICK x \in Next1(k) : Becomes(h, Done(k, x), Broken(k, x))
    BY <1>3
  <2>2. k.pc = sync[h].pc
    BY <1>1, ChildForgotten DEF WithChild
  <2>3. SyncOK(k) /\ SnapOK(k, trees, refs) /\ k.pc \in Phases /\ Knows(k, trees, refs)
    BY <1>1, <1>3, <2>2, InPhase, ChildKnows
  <2> HIDE DEF k
  <2>4. x \in k.todo
    BY NextIsTodo
  <2>5. Broken(k, x).trees = trees /\ Broken(k, x).refs = refs
    BY <2>3, <2>4, BrokenSnap
  <2>6. SyncOK(Done(k, x)) /\ Outcomes(Broken(k, x))
    BY <1>1, <2>3, DoneTyped, BrokenTyped
  <2>7. Done(k, x) = Idle \/ Kept(Done(k, x), k)
    BY <2>3, DoneShape
  <2>8. Knows(Done(k, x), trees, refs)
    BY <2>3, <2>7, KeptKnows DEF Phases
  <2> QED BY <2>1, <2>5, <2>6, <2>8, BecomesKnows
<1> QED BY <1>2, <1>3 DEF SyncFails, WithChild

LEMMA StepKnows ==
    ASSUME KnowInv, [SyncNext]_syncVars
    PROVE  KnowInv'
<1>1. SnapInv /\ SnapInv'
  BY StepSnap DEF KnowInv
<1>2. CASE \E h \in Hooks : ReadCurrent(h)
  BY <1>1, <1>2, ReadCurrentKnows
<1>3. CASE \E h \in Hooks : ReadBranches(h)
  BY <1>1, <1>3, ReadBranchesKnows
<1>4. CASE \E h \in Hooks : Converge(h)
  BY <1>1, <1>4, ConvergeKnows
<1>5. CASE \E h \in Hooks : SyncFails(h)
  BY <1>1, <1>5, SyncFailsKnows
<1>6. CASE \E h \in Hooks : SyncKilled(h)
  <2>1. PICK h \in Hooks : sync' = [sync EXCEPT ![h] = Idle] /\ UNCHANGED <<trees, refs>>
    BY <1>6 DEF SyncKilled
  <2>2. Knows(Idle, trees, refs)
    BY IdleTyped, RestingKnows
  <2> QED BY <1>1, <2>1, <2>2, SetKnows
<1>7. CASE \E h \in Hooks, C, D \in SUBSET Branches :
             \E object \in [C \cup D -> {0, 1}] : Transaction(h, C, D, object)
  <2>1. PICK h \in Hooks, C \in SUBSET Branches, D \in SUBSET Branches :
             \E object \in [C \cup D -> {0, 1}] : Transaction(h, C, D, object)
    BY <1>7
  <2>2. PICK object : Transaction(h, C, D, object)
    BY <2>1
  <2>3. C \subseteq Branches /\ D \subseteq Branches
    BY <2>2 DEF Transaction, KnowInv, SnapInv, SyncInv
  <2>4. Intends(C, D, object).pc = "current"
    BY <2>3, IntendsTyped
  <2>5. sync' = [All(sync) EXCEPT ![h] = Intends(C, D, object)] /\ DOMAIN All(sync) = Hooks
    BY <2>2 DEF Transaction, Use, All, Disturbed
  <2>6. \A g \in Hooks : sync'[g] = All(sync)[g] \/ sync'[g].pc \in {"idle", "current"}
    BY <2>4, <2>5
  <2> QED BY <1>1, <2>6, UserKnows
<1>8. CASE sync' = All(sync)
  <2>1. \A g \in Hooks : sync'[g] = All(sync)[g] \/ sync'[g].pc \in {"idle", "current"}
    BY <1>8
  <2> QED BY <1>1, <2>1, UserKnows
<1>9. CASE \/ \E b, c \in Branches : FinishRename(b, c)
           \/ \E p \in Branches, b \in Branches \cup {None} : Switch(p, b)
           \/ \E p \in Branches : Edit(p) \/ RemoveDirectory(p)
  BY <1>8, <1>9 DEF FinishRename, Switch, Edit, RemoveDirectory, Use
<1>10. CASE UNCHANGED syncVars
  BY <1>1, <1>10 DEF syncVars, KnowInv, Knows, CheckedOut
<1> QED BY <1>2, <1>3, <1>4, <1>5, <1>6, <1>7, <1>9, <1>10 DEF SyncNext, SyncStep

-----------------------------------------------------------------------------
(* The directories that a command leaves.                                  *)

\* No directory of d is without a worktree below it.
LEMMA InUse ==
    ASSUME NEW t, NEW d
    PROVE  Leftover(t, d) = {} <=> \A p \in d : \E r \in AtOrIn(p) : Present(t, r)
  BY DEF Leftover

LEMMA Nested ==
    ASSUME NEW p \in Branches, NEW q \in AtOrIn(p), NEW r \in AtOrIn(q)
    PROVE  r \in AtOrIn(p) /\ r \in Branches
  BY PathAssumption DEF AtOrIn, In

\* Of two places that hold a third, one holds the other.
LEMMA OneHolds ==
    ASSUME NEW p \in Branches, NEW q \in Branches, NEW r, r \in AtOrIn(p), r \in AtOrIn(q)
    PROVE  q \in AtOrIn(p) \/ q \in Parents(p)
  BY PathAssumption DEF AtOrIn, In, Parents

LEMMA MadeParents ==
    ASSUME NEW t, NEW d, NEW q \in Branches, NEW p \in MakeParents(t, d, q)
    PROVE  p \in d \/ (p \in Branches /\ q \in AtOrIn(p))
  BY DEF MakeParents, Parents, AtOrIn

\* Worktree.move() and _clean_worktree_parents()
LEMMA MoveLeavesNone ==
    ASSUME SyncInv, NEW p \in Branches, NEW q \in Branches, Present(trees, p), trees[q] = None,
           ~In(q, p), Leftover(trees, dirs) = {}
    PROVE  Leftover(Moved(p, q).trees, Moved(p, q).dirs) = {}
<1> DEFINE above == MakeParents(trees, dirs, q)
           t == Carried(p, q)
           d == CleanParents(t, above \ AtOrIn(p), p)
<1>1. /\ trees \in [Branches -> Trees \cup {None}] /\ dirs \subseteq Branches
      /\ p # q /\ There(trees, dirs, p)
  BY DEF SyncInv, PlacesOK, Present, There, AtOrIn
<1>2. \A e \in dirs : \E r \in AtOrIn(e) : Present(trees, r)
  BY InUse
<1>3. CASE There(trees, dirs, q)
  <2>1. Moved(p, q) = Nothing
    BY <1>1, <1>3 DEF Moved, MovedIf
  <2> QED BY <2>1 DEF Nothing, Left
<1>4. CASE ~There(trees, dirs, q)
  <2>1. Moved(p, q) = Left(t, d, TRUE)
    BY <1>1, <1>4 DEF Moved, MovedIf
  <2>2. t[q] = trees[p] /\ \A r \in Branches : r \notin AtOrIn(p) /\ r # q => t[r] = trees[r]
    BY <1>1 DEF Carried, AtOrIn
  <2>3. Present(t, q)
    BY <2>2 DEF Present
  <2>4. ASSUME NEW e \in Branches, NEW s \in AtOrIn(e), s \notin AtOrIn(p), Present(trees, s)
        PROVE  \E r \in AtOrIn(e) : Present(t, r)
    <3>1. s \in Branches
      BY DEF AtOrIn
    <3>2. Present(t, s)
      BY <2>2, <2>3, <2>4, <3>1 DEF Present
    <3> QED BY <2>4, <3>2
  <2>5. ASSUME NEW e \in above, e \notin AtOrIn(p), e \notin Parents(p)
        PROVE  \E r \in AtOrIn(e) : Present(t, r)
    <3>1. CASE e \in dirs
      <4>1. PICK r \in AtOrIn(e) : Present(trees, r)
        BY <1>2, <3>1
      <4>2. r \notin AtOrIn(p)
        BY <1>1, <2>5, <3>1, OneHolds
      <4> QED BY <1>1, <2>4, <3>1, <4>1, <4>2
    <3>2. CASE q \in AtOrIn(e)
      BY <2>3, <3>2
    <3> QED BY <3>1, <3>2, MadeParents
  <2>6. ASSUME NEW e \in d
        PROVE  \E r \in AtOrIn(e) : Present(t, r)
    <3>1. /\ e \in above /\ e \notin AtOrIn(p) /\ e \in Branches
          /\ e \in Parents(p) =>
               \E r \in AtOrIn(e) :
                   Present(t, r) \/ r \in (above \ AtOrIn(p)) \ (Parents(p) \cup {e})
      BY <1>1, MadeParents DEF CleanParents
    <3>2. CASE e \notin Parents(p)
      BY <2>5, <3>1, <3>2
    <3>3. CASE e \in Parents(p)
      <4>1. PICK r \in AtOrIn(e) :
                   Present(t, r) \/ r \in (above \ AtOrIn(p)) \ (Parents(p) \cup {e})
        BY <3>1, <3>3
      <4>2. CASE r \in above /\ r \notin AtOrIn(p) /\ r \notin Parents(p)
        <5>1. PICK s \in AtOrIn(r) : Present(t, s)
          BY <2>5, <4>2
        <5>2. s \in AtOrIn(e)
          BY <3>1, Nested
        <5> QED BY <5>1, <5>2
      <4> QED BY <4>1, <4>2
    <3> QED BY <3>2, <3>3
  <2> HIDE DEF t, d
  <2>7. Leftover(t, d) = {}
    BY <2>6, InUse
  <2> QED BY <2>1, <2>7 DEF Left
<1> QED BY <1>3, <1>4

\* create_worktree() of a branch that is there and has no worktree.
LEMMA CreateLeavesNone ==
    ASSUME SyncInv, NEW b \in refs, NEW create, trees[b] = None, ~CheckedOut(trees, b),
           Leftover(trees, dirs) = {}
    PROVE  Leftover(Created(b, create).trees, Created(b, create).dirs) = {}
<1> DEFINE above == MakeParents(trees, dirs, b)
           t == [trees EXCEPT ![b] = Fresh(b)]
           done == [Left(t, above, TRUE) EXCEPT
                      !.refs = refs \cup {b}, !.ran = IF b \notin refs THEN {b} ELSE {}]
<1>1. /\ trees \in [Branches -> Trees \cup {None}] /\ dirs \subseteq Branches
      /\ b \in Branches
  BY DEF SyncInv, PlacesOK
<1>2. Created(b, create) \in {Nothing, done}
  BY DEF Created
<1>3. done.trees = t /\ done.dirs = above
  BY DEF Left
<1>4. Present(t, b) /\ \A r \in Branches : Present(trees, r) => Present(t, r)
  <2>1. Fresh(b) \in Trees /\ ~Fresh(b).gone
    BY <1>1 DEF Fresh, Trees
  <2> QED BY <1>1, <2>1, NoneAssumption DEF Present
<1> HIDE DEF t, done
<1>5. ASSUME NEW e \in above
      PROVE  \E r \in AtOrIn(e) : Present(t, r)
  <2>1. CASE e \in dirs
    <3>1. PICK r \in AtOrIn(e) : Present(trees, r)
      BY <2>1, InUse
    <3> QED BY <1>4, <3>1 DEF AtOrIn
  <2>2. CASE b \in AtOrIn(e)
    BY <1>4, <2>2
  <2> QED BY <1>1, <2>1, <2>2, MadeParents
<1>6. Leftover(t, above) = {}
  <2> HIDE DEF above
  <2> QED BY <1>5, InUse
<1> HIDE DEF above
<1> QED BY <1>2, <1>3, <1>6 DEF Nothing, Left

\* A sync whose snapshots are true leaves no empty directory, unless git refuses
\* what it is to do.
LEMMA CommandLeavesNone ==
    ASSUME SyncInv, NEW k, SyncOK(k), SnapOK(k, trees, refs), k.calm, k.pc \in Phases,
           NEW x \in k.todo, Knows(k, trees, refs), \A y \in k.renamed : y[1] \notin refs,
           ~GitRefuses(k, x), Leftover(trees, dirs) = {}
    PROVE  Leftover(Command(k, x).trees, Command(k, x).dirs) = {}
<1>1. /\ k.want = refs /\ CurOK(k.cur, refs, trees) /\ DueOK(k)
      /\ k.cur \in [Branches -> Branches \cup {None}] /\ refs \subseteq Branches
  BY DEF SnapOK, CalmOK, SyncOK, Syncs, SyncInv
<1>2. CASE k.pc = "rename"
  <2>1. x[1] \in Branches /\ x[2] \in Branches /\ k.cur[x[1]] # None
    BY <1>1, <1>2, DueFacts
  <2>2. /\ trees[x[2]] = None /\ Present(trees, k.cur[x[1]]) /\ ~In(x[2], k.cur[x[1]])
    BY <1>2 DEF GitRefuses, Subject
  <2>3. Command(k, x) = Moved(k.cur[x[1]], x[2])
    BY <1>2 DEF Command
  <2> QED BY <1>1, <2>1, <2>2, <2>3, MoveLeavesNone
<1>3. CASE k.pc = "move"
  <2>1. x \in Branches /\ k.cur[x] # None
    BY <1>1, <1>3, DueFacts
  <2>2. /\ trees[x] = None /\ Present(trees, k.cur[x]) /\ ~In(x, k.cur[x])
    BY <1>3 DEF GitRefuses, Subject
  <2>3. Command(k, x) = Moved(k.cur[x], x)
    BY <1>3 DEF Command
  <2> QED BY <1>1, <2>1, <2>2, <2>3, MoveLeavesNone
<1>4. CASE k.pc \in {"destroy", "stale"}
  <2>1. x \in Branches /\ k.cur[x] # None /\ x \notin refs
    BY <1>1, <1>4, DueFacts
  <2>2. trees[k.cur[x]].branch = x
    BY <1>1, <2>1 DEF CurOK
  <2>3. Command(k, x) = Destroyed(k.cur[x])
    BY <1>4 DEF Command
  <2>4. x # None
    BY <2>1, WorktreeAssumption
  <2> QED BY <2>1, <2>2, <2>3, <2>4, DestroyedNothing
<1>5. CASE k.pc \in {"create", "missing"}
  <2>1. x \in refs /\ k.cur[x] = None
    BY <1>1, <1>5 DEF DueOK, Due, Phases
  <2>2. trees[x] = None
    BY <1>5 DEF GitRefuses, Subject
  <2>3. ~CheckedOut(trees, x)
    BY <1>5, <2>1 DEF Knows
  <2>4. Command(k, x) = Created(x, TRUE) \/ Command(k, x) = Created(x, FALSE)
    BY <1>5 DEF Command
  <2> QED BY <2>1, <2>2, <2>3, <2>4, CreateLeavesNone
<1> QED BY <1>2, <1>3, <1>4, <1>5 DEF Phases

LEMMA ConvergeLeavesNone ==
    ASSUME KnowInv, NEW h \in Hooks, Converge(h), Leftover(trees, dirs) = {}, UpToDate(h),
           \A x \in Next1(sync[h]) : ~GitRefuses(sync[h], x)
    PROVE  Leftover(trees', dirs') = {}
<1> DEFINE k == WithChild(sync[h], None)
<1>1. PICK x \in Next1(k) :
        Becomes(h, Done(IF Command(k, x).ok THEN Noted(k, x) ELSE k, x), Command(k, x))
  BY DEF Converge, WithChild
<1>2. SnapInv /\ SyncInv /\ sync[h] \in Syncs /\ Knows(sync[h], trees, refs)
  BY DEF KnowInv, SnapInv, SyncInv, HooksOK
<1>3. sync[h].pc \notin {"idle", "current", "branches"}
  BY <1>2, ChildForgotten DEF Converge
<1>4. /\ SyncOK(k) /\ SnapOK(k, trees, refs) /\ k.pc \in Phases /\ Knows(k, trees, refs)
      /\ k.calm = sync[h].calm /\ k.renamed = sync[h].renamed
      /\ k.pc = sync[h].pc /\ k.todo = sync[h].todo
  BY <1>2, <1>3, InPhase, ChildKnows
<1>5. k.cur = sync[h].cur
  BY <1>2 DEF WithChild, Syncs
<1> HIDE DEF k
<1>6. x \in Next1(sync[h])
  BY <1>4 DEF Next1
<1>7. ~GitRefuses(k, x)
  BY <1>4, <1>5, <1>6 DEF GitRefuses, Subject
<1>8. Leftover(Command(k, x).trees, Command(k, x).dirs) = {}
  BY <1>2, <1>4, <1>7, NextIsTodo, CommandLeavesNone DEF UpToDate
<1>9. trees' = Command(k, x).trees /\ dirs' = Command(k, x).dirs
  BY <1>1 DEF Becomes
<1> QED BY <1>8, <1>9

\* What a step that leaves an empty directory is.
Excused ==
    \/ Leftover(trees, dirs) # {}
    \/ uses' # uses \/ mishaps' # mishaps
    \/ \E h \in Hooks :
         /\ Acts(h)
         /\ UpToDate(h) => \E x \in Next1(sync[h]) : GitRefuses(sync[h], x)

LEMMA StepCounts ==
    ASSUME mishaps \in Nat, [SyncNext]_syncVars
    PROVE  mishaps' \in Nat
<1>1. SyncStep => mishaps' = mishaps
  BY DEF SyncStep, ReadCurrent, ReadBranches, Converge
<1>2. \A h \in Hooks : SyncFails(h) \/ SyncKilled(h) => mishaps' = mishaps + 1
  BY DEF SyncFails, SyncKilled
<1>3. \A h, C, D, object : Transaction(h, C, D, object) => mishaps' = mishaps
  BY DEF Transaction, Use
<1>4. \A b, c, p : FinishRename(b, c) \/ Switch(p, b) \/ Edit(p) \/ RemoveDirectory(p) =>
        mishaps' = mishaps
  BY DEF FinishRename, Switch, Edit, RemoveDirectory, Use
<1>5. mishaps' = mishaps \/ mishaps' = mishaps + 1
  BY <1>1, <1>2, <1>3, <1>4 DEF SyncNext, syncVars
<1> QED BY <1>5

LEMMA StepLeavesNone ==
    ASSUME KnowInv, mishaps \in Nat, [SyncNext]_syncVars, Leftover(trees', dirs') # {}
    PROVE  Excused
<1>1. SnapInv /\ uses \in Nat
  BY DEF KnowInv, SnapInv
<1>2. CASE UNCHANGED <<trees, dirs>>
  BY <1>2 DEF Excused
<1>3. CASE \E h \in Hooks : Converge(h)
  <2>1. PICK h \in Hooks : Converge(h)
    BY <1>3
  <2>2. Acts(h)
    BY <1>1, <2>1, ConvergeSnap
  <2> QED BY <2>1, <2>2, ConvergeLeavesNone DEF Excused
<1>4. CASE mishaps' = mishaps + 1
  BY <1>4 DEF Excused
<1>5. CASE uses' = uses + 1
  BY <1>1, <1>5 DEF Excused
<1>6. CASE \E h \in Hooks : ReadCurrent(h) \/ ReadBranches(h)
  BY <1>2, <1>6 DEF ReadCurrent, ReadBranches
<1>7. CASE \E h \in Hooks : SyncFails(h) \/ SyncKilled(h)
  BY <1>4, <1>7 DEF SyncFails, SyncKilled
<1>8. CASE \E h \in Hooks, C, D \in SUBSET Branches :
             \E object \in [C \cup D -> {0, 1}] : Transaction(h, C, D, object)
  BY <1>5, <1>8 DEF Transaction, Use
<1>9. CASE \/ \E b, c \in Branches : FinishRename(b, c)
           \/ \E p \in Branches, b \in Branches \cup {None} : Switch(p, b)
           \/ \E p \in Branches : Edit(p) \/ RemoveDirectory(p)
  BY <1>5, <1>9 DEF FinishRename, Switch, Edit, RemoveDirectory, Use
<1>10. CASE UNCHANGED syncVars
  BY <1>2, <1>10 DEF syncVars
<1> QED BY <1>3, <1>6, <1>7, <1>8, <1>9, <1>10 DEF SyncNext, SyncStep

\* An empty directory is left behind only by a command that fails: of itself,
\* by what has changed since the sync read it, or because git refuses it; or by a
\* user (create_worktree(), Worktree.move() and _clean_worktree_parents(), for any
\* branches and any nesting of their paths).
THEOREM FailuresLeaveDirectories == SyncSpec => LeftoversAreFailures
<1> DEFINE Inv == KnowInv /\ mishaps \in Nat
<1>1. WtInit => Inv
  <2>1. WtInit => mishaps \in Nat
    BY DEF WtInit
  <2> QED BY <2>1, StartKnows
<1>2. Inv /\ [SyncNext]_syncVars => Inv'
  BY StepKnows, StepCounts
<1>3. Inv /\ [SyncNext]_syncVars =>
        [Leftover(trees', dirs') # {} =>
           \/ Leftover(trees, dirs) # {}
           \/ uses' # uses \/ mishaps' # mishaps
           \/ \E h \in Hooks :
                /\ Acts(h)
                /\ UpToDate(h) => \E x \in Next1(sync[h]) : GitRefuses(sync[h], x)]_syncVars
  BY StepLeavesNone DEF Excused
<1> QED BY <1>1, <1>2, <1>3, PTL DEF SyncSpec, LeftoversAreFailures
=============================================================================
