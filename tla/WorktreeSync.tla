---------------------------- MODULE WorktreeSync ----------------------------
(***************************************************************************)
(* GitRepository.sync_worktrees() (bertrand/env/git/bertrand_git.py) in a  *)
(* bare repository: the reference-transaction hook runs it after every     *)
(* transaction that names a branch, to keep one worktree per branch at     *)
(* root / branch.  A sync reads the worktrees, reads the branches, and     *)
(* then changes one worktree at a time from these two snapshots.  Nothing  *)
(* excludes two syncs, or a sync and a user, from each other; git runs the *)
(* hook again inside every `git worktree add`, and waits for it.           *)
(*                                                                         *)
(* A place is a path under the root, named after the branch whose worktree *)
(* belongs there.  git keeps no two branches one of whose names lies in    *)
(* the other's as a path, so _filter_worktree_conflicts() finds nothing.   *)
(***************************************************************************)
EXTENDS Integers, Sequences, FiniteSets

CONSTANTS
    Branches,   \* branch names, and with them the places
    Inside,     \* the pairs <<q, p>> where path q lies in path p
    Sorted,     \* the branches in lexical order
    Hooks,      \* processes that may run a sync
    None,       \* no worktree, no place, no branch, no process
    MaxEvents   \* bound on what users do, commands that fail and hooks killed

ASSUME WorktreeAssumption ==
    /\ Inside \subseteq Branches \X Branches
    /\ \A p \in Branches : <<p, p>> \notin Inside
    /\ Sorted \in Seq(Branches) /\ {Sorted[k] : k \in DOMAIN Sorted} = Branches
    /\ None \notin Branches \cup Hooks
    /\ MaxEvents \in Nat

\* Inside is an order of paths: of two places that hold a third, one holds the
\* other.
ASSUME PathAssumption ==
    \A p, q, r \in Branches :
        /\ <<q, p>> \in Inside /\ <<r, q>> \in Inside => <<r, p>> \in Inside
        /\ <<r, p>> \in Inside /\ <<r, q>> \in Inside =>
             p = q \/ <<p, q>> \in Inside \/ <<q, p>> \in Inside

VARIABLES
    refs,     \* the branches there are
    trees,    \* the registered worktree of each place, or None
    dirs,     \* places that are a directory because mkdir() made one
    sync,     \* what each hook process is doing
    settled,  \* nothing but one sync and those it started has happened since
    uses,     \* that one began; how much users have done; how much has failed
    mishaps

syncVars == <<refs, trees, dirs, sync, settled, uses, mishaps>>

Compatible(R) == \A x, y \in R : <<x, y>> \notin Inside

\* Mutant: missing worktrees are made before the others are moved.
SyncPhasesMissingFirst == <<"rename", "destroy", "create", "stale", "missing", "move">>

SyncPhases == <<"rename", "destroy", "create", "stale", "move", "missing">>

\* A worktree's branch (None if its HEAD is detached), whether it has changes,
\* and whether its directory is gone while git still lists it.
Trees == [branch : Branches \cup {None}, dirty : BOOLEAN, gone : BOOLEAN]

ASSUME NoneAssumption == None \notin Trees

\* A sync: its snapshots (cur: branch to place, want: branches), what its
\* transaction says, what is left of the phase, whether what it read has
\* changed since, and the hook its `git worktree add` waits for.
Idle == [pc |-> "idle", cur |-> [b \in Branches |-> None], want |-> {},
         created |-> {}, destroyed |-> {}, renamed |-> {}, todo |-> {},
         calm |-> TRUE, child |-> None]

Fresh(b) == [branch |-> b, dirty |-> FALSE, gone |-> FALSE]

\* A clone before its first sync, or one that is in order.
WtInit ==
    /\ refs \in SUBSET Branches /\ Compatible(refs)
    /\ \E served \in {{}, refs} :
          /\ trees = [p \in Branches |-> IF p \in served THEN Fresh(p) ELSE None]
          /\ dirs = {q \in Branches \ served : \E b \in served : <<b, q>> \in Inside}
    /\ sync = [h \in Hooks |-> Idle]
    /\ settled = FALSE /\ uses = 0 /\ mishaps = 0

-----------------------------------------------------------------------------
(* The file system and git.                                                *)

In(q, p) == <<q, p>> \in Inside
AtOrIn(p) == {q \in Branches : q = p \/ In(q, p)}
Parents(p) == {q \in Branches : In(p, q)}

Present(t, p) == t[p] # None /\ ~t[p].gone

\* Path.exists()
There(t, d, p) == p \in d \/ \E q \in AtOrIn(p) : Present(t, q)

CheckedOut(t, b) == \E p \in Branches : t[p] # None /\ t[p].branch = b

\* `git status --porcelain` prints nothing.  It prints every file of a worktree
\* whose branch is gone, and every worktree that lies in this one.
StatusClean(t, p) ==
    /\ ~t[p].dirty
    /\ t[p].branch \in refs \cup {None}
    /\ \A q \in AtOrIn(p) \ {p} : ~Present(t, q)

\* Mutant: a directory that is there counts as made.
MakeAllParents(t, d, p) == d \cup Parents(p)

\* target.parent.mkdir(parents=True, exist_ok=True)
MakeParents(t, d, p) == d \cup {q \in Parents(p) : ~There(t, d, q)}

\* Mutant: the directories above a worktree that left stay.
KeepParents(t, d, p) == d

\* _clean_worktree_parents(): the directories above p that are empty now.
CleanParents(t, d, p) ==
    {q \in d : q \in Parents(p) =>
                  \E r \in AtOrIn(q) : Present(t, r) \/ r \in d \ (Parents(p) \cup {q})}

\* What a command leaves, whether it returned normally, and the transaction
\* git ran in it, as a set of created branches (None for no transaction).
Left(t, d, ok) == [trees |-> t, dirs |-> d, refs |-> refs, ok |-> ok, ran |-> None]

Nothing == Left(trees, dirs, FALSE)

\* What lies in a directory that moves is not where git looks for it any more.
Carried(p, q) ==
    [r \in Branches |->
        IF r = p THEN None ELSE IF r = q THEN trees[p]
        ELSE IF In(r, p) /\ trees[r] # None THEN [trees[r] EXCEPT !.gone = TRUE]
        ELSE trees[r]]

\* What Worktree.move() leaves if it finds nothing (free) at the target.  git
\* refuses a target where it lists a worktree whose directory is gone.
MovedIf(p, q, free) ==
    LET above == MakeParents(trees, dirs, q)
    IN  IF ~There(trees, dirs, p) THEN Nothing
        ELSE IF p = q THEN Left(trees, dirs, TRUE)
        ELSE IF ~free THEN Nothing
        ELSE IF Present(trees, p) /\ ~In(q, p) /\ (trees[q] = None \/ ~trees[q].gone)
        THEN Left(Carried(p, q), CleanParents(Carried(p, q), above \ AtOrIn(p), p), TRUE)
        ELSE Left(trees, above, FALSE)

\* Mutant: the target is not looked at.
MovedOver(p, q) == MovedIf(p, q, TRUE)

Moved(p, q) == MovedIf(p, q, ~There(trees, dirs, q))

\* Worktree.destroy(): of a worktree that is there and clean.
Destroyed(p) ==
    LET after == [trees EXCEPT ![p] = None]
    IN  IF Present(trees, p) /\ StatusClean(trees, p)
        THEN Left(after, CleanParents(after, dirs, p), TRUE)
        ELSE Nothing

\* create_worktree(): with create_branch, a branch that is not there is made.
\* (git runs its hook before the worktree is there; the model, after.)
Created(b, create) ==
    LET above == MakeParents(trees, dirs, b)
        new == b \notin refs
    IN  IF There(trees, dirs, b) THEN Nothing
        ELSE IF /\ trees[b] = None /\ ~CheckedOut(trees, b)
                /\ new => create /\ Compatible(refs \cup {b})
        THEN [Left([trees EXCEPT ![b] = Fresh(b)], above, TRUE) EXCEPT
                !.refs = refs \cup {b}, !.ran = IF new THEN {b} ELSE {}]
        ELSE Left(trees, above, FALSE)

-----------------------------------------------------------------------------
(* A sync.                                                                 *)

\* _intended_worktree_changes(): of the branches that the transaction created
\* (C) and destroyed (D), a pair is a rename if the two name the same object
\* and no other does.  An object is a number.
Intends(C, D, object) ==
    LET alone(x, S) == \A y \in S \ {x} : object[y] # object[x]
        pairs == {x \in D \X C :
                     object[x[1]] = object[x[2]] /\ alone(x[1], D) /\ alone(x[2], C)}
    IN  [Idle EXCEPT
           !.pc = "current",
           !.created = C \ {x[2] : x \in pairs},
           !.destroyed = D \ {x[1] : x \in pairs},
           !.renamed = pairs]

Due(k, phase) ==
    CASE phase = "rename" ->
           {x \in k.renamed : k.cur[x[1]] # None /\ x[2] \in k.want /\ k.cur[x[2]] = None}
      [] phase = "destroy" -> {b \in k.destroyed : k.cur[b] # None /\ b \notin k.want}
      [] phase = "create" -> {b \in k.created : k.cur[b] = None /\ b \in k.want}
      [] phase = "stale" -> {b \in Branches : k.cur[b] # None /\ b \notin k.want}
      [] phase = "move" -> {b \in k.want : k.cur[b] \notin {None, b}}
      [] phase = "missing" -> {b \in k.want : k.cur[b] = None}

\* The first phase from the n-th on that has something to do.
Enter(k, n) ==
    LET later == {m \in n..6 : Due(k, SyncPhases[m]) # {}}
        m == CHOOSE i \in later : \A j \in later : i <= j
    IN  IF later = {} THEN Idle
        ELSE [k EXCEPT !.pc = SyncPhases[m], !.todo = Due(k, SyncPhases[m])]

\* x is done with.
Done(k, x) ==
    LET n == CHOOSE i \in 1..6 : SyncPhases[i] = k.pc
        left == IF n <= 3 THEN Due(k, k.pc) \cap (k.todo \ {x}) ELSE k.todo \ {x}
    IN  IF left = {} THEN Enter(k, n + 1) ELSE [k EXCEPT !.todo = left]

\* The last three phases go in lexical order.
Next1(k) ==
    IF k.pc \in {"rename", "destroy", "create"} THEN k.todo
    ELSE LET at(b) == CHOOSE i \in DOMAIN Sorted : Sorted[i] = b
         IN  {b \in k.todo : \A c \in k.todo : at(b) <= at(c)}

\* The branch whose worktree x is about, and where it goes.
Subject(k, x) == IF k.pc = "rename" THEN x[2] ELSE x

Command(k, x) ==
    CASE k.pc = "rename" -> Moved(k.cur[x[1]], x[2])
      [] k.pc \in {"destroy", "stale"} -> Destroyed(k.cur[x])
      [] k.pc = "move" -> Moved(k.cur[x], x)
      [] k.pc = "create" -> Created(x, TRUE)
      [] k.pc = "missing" -> Created(x, FALSE)

\* The command fails by itself; the directories above its target may be made.
Broken(k, x) ==
    LET q == Subject(k, x)
    IN  IF k.pc \in {"destroy", "stale"} \/ There(trees, dirs, q) THEN Nothing
        ELSE Left(trees, MakeParents(trees, dirs, q), FALSE)

\* The snapshot after a command that returned normally.
Noted(k, x) ==
    IF k.pc = "rename" THEN [k EXCEPT !.cur[x[1]] = None, !.cur[x[2]] = x[2]]
    ELSE IF k.pc \in {"destroy", "stale"} THEN [k EXCEPT !.cur[x] = None]
    ELSE [k EXCEPT !.cur[x] = x]

\* Every other sync has read something else than what is there now.
Disturbed(s, h) ==
    [g \in Hooks |-> IF g = h \/ s[g].pc \in {"idle", "current"} THEN s[g]
                     ELSE [s[g] EXCEPT !.calm = FALSE]]

FreeHooks(s) == {h \in Hooks : s[h].pc = "idle" /\ \A g \in Hooks : s[g].child # h}

Waiting(h) == sync[h].child # None /\ sync[sync[h].child].pc # "idle"

\* The command in which hook g runs is waited for by the sync of hook h or, if
\* it was the last one, by the command in which h runs.
WaitedFor(s, h, g) ==
    [e \in Hooks |->
        IF (s[h].pc # "idle" /\ e = h) \/ (s[h].pc = "idle" /\ s[e].child = h)
        THEN [s[e] EXCEPT !.child = g] ELSE s[e]]

\* The sync of hook h leaves o and is k from then on.  The hook of a
\* transaction it ran runs first, if there is a process for it (a bound).
Becomes(h, k, o) ==
    LET same == o.trees = trees /\ o.dirs = dirs /\ o.refs = refs
        s == IF same THEN [sync EXCEPT ![h] = k] ELSE Disturbed([sync EXCEPT ![h] = k], h)
    IN  /\ trees' = o.trees /\ dirs' = o.dirs /\ refs' = o.refs
        /\ IF o.ran = None \/ FreeHooks(sync) \ {h} = {} THEN sync' = s
           ELSE \E g \in FreeHooks(sync) \ {h} :
                   sync' = [WaitedFor(s, h, g) EXCEPT
                       ![g] = Intends(o.ran, {}, [b \in o.ran |-> 0])]

\* A worktree whose directory is gone is an error of its constructor, and two
\* worktrees of a branch are one of _current_worktree_state().
Places(b) == {p \in Branches : trees[p] # None /\ trees[p].branch = b}

Readable ==
    /\ \A p \in Branches : trees[p] # None => There(trees, dirs, p)
    /\ \A b \in Branches : Cardinality(Places(b)) <= 1

\* _current_worktree_state(); an error ends the sync.
ReadCurrent(h) ==
    LET cur == [b \in Branches |-> IF Places(b) = {} THEN None ELSE CHOOSE p \in Places(b) : TRUE]
    IN  /\ sync[h].pc = "current"
        /\ sync' = [sync EXCEPT ![h] =
               IF Readable THEN [@ EXCEPT !.pc = "branches", !.cur = cur, !.calm = TRUE] ELSE Idle]
        /\ settled' = (settled \/ \A g \in Hooks \ {h} : sync[g].pc = "idle")
        /\ UNCHANGED <<refs, trees, dirs, uses, mishaps>>

ReadBranches(h) ==
    /\ sync[h].pc = "branches"
    /\ sync' = [sync EXCEPT ![h] = Enter([@ EXCEPT !.want = refs], 1)]
    /\ UNCHANGED <<refs, trees, dirs, settled, uses, mishaps>>

\* One worktree is moved, destroyed or created, or is left with a warning.
Converge(h) ==
    LET k == [sync[h] EXCEPT !.child = None]
    IN  /\ k.pc \notin {"idle", "current", "branches"} /\ ~Waiting(h)
        /\ \E x \in Next1(k) :
               LET o == Command(k, x)
               IN  Becomes(h, Done(IF o.ok THEN Noted(k, x) ELSE k, x), o)
        /\ UNCHANGED <<settled, uses, mishaps>>

\* A command of the sync fails.  In the middle of it that is a warning, and
\* while it reads it is an error that ends it.
SyncFails(h) ==
    LET k == [sync[h] EXCEPT !.child = None]
    IN  /\ uses + mishaps < MaxEvents /\ mishaps' = mishaps + 1
        /\ \/ /\ k.pc \in {"current", "branches"}
              /\ sync' = [sync EXCEPT ![h] = Idle]
              /\ UNCHANGED <<refs, trees, dirs>>
           \/ /\ k.pc \notin {"idle", "current", "branches"} /\ ~Waiting(h)
              /\ \E x \in Next1(k) : Becomes(h, Done(k, x), Broken(k, x))
        /\ settled' = FALSE
        /\ UNCHANGED uses

SyncKilled(h) ==
    /\ sync[h].pc # "idle" /\ ~Waiting(h)
    /\ uses + mishaps < MaxEvents /\ mishaps' = mishaps + 1
    /\ sync' = [sync EXCEPT ![h] = Idle]
    /\ settled' = FALSE
    /\ UNCHANGED <<refs, trees, dirs, uses>>

-----------------------------------------------------------------------------
(* What users do.                                                          *)

Use(s) ==
    /\ uses + mishaps < MaxEvents /\ uses' = uses + 1
    /\ settled' = FALSE /\ sync' = s
    /\ UNCHANGED mishaps

All(s) == Disturbed(s, None)

\* A transaction creates the branches C and destroys the branches D, or only
\* moves some on (a commit), and git runs the hook.
Transaction(h, C, D, object) ==
    /\ h \in FreeHooks(sync)
    /\ D \subseteq refs /\ C \cap refs = {} /\ Compatible(refs \cup C)
    /\ refs' = (refs \ D) \cup C
    /\ Use([All(sync) EXCEPT ![h] = Intends(C, D, object)])
    /\ UNCHANGED <<trees, dirs>>

\* The end of `git branch -m`: git makes the new name and the worktree's HEAD
\* follow it, after the transaction that destroyed the old one.
FinishRename(old, new) ==
    /\ old \notin refs /\ new \notin refs /\ Compatible(refs \cup {new})
    /\ CheckedOut(trees, old)
    /\ refs' = refs \cup {new}
    /\ trees' = [p \in Branches |->
           IF trees[p] # None /\ trees[p].branch = old
           THEN [trees[p] EXCEPT !.branch = new] ELSE trees[p]]
    /\ Use(All(sync))
    /\ UNCHANGED dirs

\* git switch, git switch --detach
Switch(p, b) ==
    /\ Present(trees, p) /\ b # trees[p].branch
    /\ b # None => b \in refs /\ ~CheckedOut(trees, b)
    /\ trees' = [trees EXCEPT ![p].branch = b]
    /\ Use(All(sync))
    /\ UNCHANGED <<refs, dirs>>

\* The files of a worktree change.
Edit(p) ==
    /\ Present(trees, p) /\ ~trees[p].dirty
    /\ trees' = [trees EXCEPT ![p].dirty = TRUE]
    /\ Use(All(sync))
    /\ UNCHANGED <<refs, dirs>>

\* rm -rf
RemoveDirectory(p) ==
    /\ Present(trees, p)
    /\ trees' = [q \in Branches |->
           IF q \in AtOrIn(p) /\ trees[q] # None THEN [trees[q] EXCEPT !.gone = TRUE]
           ELSE trees[q]]
    /\ dirs' = dirs \ AtOrIn(p)
    /\ Use(All(sync))
    /\ UNCHANGED refs

SyncStep == \E h \in Hooks : ReadCurrent(h) \/ ReadBranches(h) \/ Converge(h)

SyncNext ==
    \/ SyncStep
    \/ \E h \in Hooks : SyncFails(h) \/ SyncKilled(h)
    \/ \E h \in Hooks, C, D \in SUBSET Branches :
           /\ Cardinality(C) + Cardinality(D) <= 2
           /\ \E object \in [C \cup D -> {0, 1}] : Transaction(h, C, D, object)
    \/ \E b, c \in Branches : FinishRename(b, c)
    \/ \E p \in Branches, b \in Branches \cup {None} : Switch(p, b)
    \/ \E p \in Branches : Edit(p) \/ RemoveDirectory(p)

SyncSpec == WtInit /\ [][SyncNext]_syncVars

-----------------------------------------------------------------------------
(* Properties.                                                             *)

\* The variables have their types, and a directory mkdir() made is no worktree.
SyncTypeOK ==
    /\ refs \subseteq Branches /\ dirs \subseteq Branches
    /\ trees \in [Branches -> Trees \cup {None}]
    /\ \A p \in dirs : ~Present(trees, p)
    /\ \A h \in Hooks :
         /\ sync[h].pc \in {"idle", "current", "branches"} \cup {SyncPhases[n] : n \in 1..6}
         /\ sync[h].cur \in [Branches -> Branches \cup {None}]
         /\ sync[h].child \in Hooks \cup {None}

Quiescent == settled /\ \A h \in Hooks : sync[h].pc = "idle"

\* When a sync has ended and nothing else has happened since it began, every
\* branch has a worktree, or something is in the place of that worktree
\* (sync_worktrees(): "Converge worktrees to the authoritative branch set").  A
\* worktree whose directory is gone stops every sync, and so do two worktrees
\* of one branch, which `git branch -m` to a deleted branch's name makes.
EveryBranchServed ==
    Quiescent /\ Readable =>
        \A b \in refs : CheckedOut(trees, b) \/ There(trees, dirs, b)

\* bertrand_git.py:4695: "remove branches no longer present in the repository".
\* In the same state, no worktree is left of a branch that is no more, unless
\* it has changes.
DeletedBranchesLeave ==
    Quiescent /\ Readable =>
        \A p \in Branches : trees[p] # None /\ ~trees[p].dirty => trees[p].branch \in refs \cup {None}

\* The step is one of the sync of hook h.
Acts(h) ==
    /\ sync[h].pc # "idle"
    /\ [sync'[h] EXCEPT !.calm = TRUE] # [sync[h] EXCEPT !.calm = TRUE]

\* What it goes by is still true: what it has read, and that the branches of
\* its transaction which were renamed are no more.
UpToDate(h) == sync[h].calm /\ \A x \in sync[h].renamed : x[1] \notin refs

MovedAway(p) == Present(trees, p) /\ trees'[p] = None

\* A sync that is not disturbed makes no branch, takes no branch's worktree
\* away, and leaves the one that is in its place as it is: unless it has itself
\* made that one in the directory of a worktree which it then moves.  A sync
\* whose snapshots are no longer true may do all three.
SnapshotsDecide ==
    [][uses' = uses /\ (trees' # trees \/ refs' # refs) =>
         \E h \in Hooks :
             /\ Acts(h)
             /\ UpToDate(h) =>
                  /\ refs' = refs
                  /\ \A b \in refs :
                       /\ CheckedOut(trees, b) => CheckedOut(trees', b)
                       /\ trees[b] # None /\ trees[b].branch = b =>
                            trees'[b] = trees[b] \/ \E p \in Parents(b) : MovedAway(p)]_syncVars

\* git lists a worktree at the place where one is to be, or the one to move has
\* no directory any more, or lies around the place it is to move to.
GitRefuses(k, x) ==
    LET q == Subject(k, x)
        p == IF k.pc = "rename" THEN k.cur[x[1]] ELSE k.cur[x]
    IN  \/ k.pc \in {"rename", "move", "create", "missing"} /\ trees[q] # None
        \/ k.pc \in {"rename", "move"} /\ (~Present(trees, p) \/ In(q, p))

\* An empty directory stays in the place of a branch only when a command fails:
\* of itself, because what the sync had read has changed, or because git refuses
\* it; or when a user removes a worktree.  It keeps the branch's worktree from
\* being made.
Leftover(t, d) == {p \in d : \A q \in AtOrIn(p) : ~Present(t, q)}

LeftoversAreFailures ==
    [][Leftover(trees', dirs') # {} =>
         \/ Leftover(trees, dirs) # {}
         \/ uses' # uses \/ mishaps' # mishaps
         \/ \E h \in Hooks :
              /\ Acts(h)
              /\ UpToDate(h) => \E x \in Next1(sync[h]) : GitRefuses(sync[h], x)]_syncVars
=============================================================================
