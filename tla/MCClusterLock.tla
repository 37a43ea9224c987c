--------------------------- MODULE MCClusterLock ---------------------------
(* Small instances of ClusterLock for TLC.                                  *)
EXTENDS ClusterLock, TLC

CONSTANTS p1, p2, t1, t2, t3, i1, i2, i3

\* Two processes with one task each; the first can make a second instance
\* after it released or crashed.
TwoProcTasks == (t1 :> p1) @@ (t2 :> p2)
TwoProcInsts == (i1 :> p1) @@ (i2 :> p2) @@ (i3 :> p1)

\* Two processes; the two tasks of the first share its registered instance.
SharedTasks == (t1 :> p1) @@ (t2 :> p2) @@ (t3 :> p1)
SharedInsts == [i \in Insts |-> IF i = i2 THEN p2 ELSE p1]

\* One process whose two tasks share the registered instance.
OneProcTasks == (t1 :> p1) @@ (t2 :> p1)
OneProcInsts == [i \in Insts |-> p1]

OneTick == [i \in Insts |-> 1]
NoSkew == [p \in Procs |-> 0]
FirstAhead == [p \in Procs |-> IF p = p1 THEN 1 ELSE 0]

\* The two instances of the first process are interchangeable, and so are the
\* tasks of a single process.
FirstProcSymmetry == Permutations({i1, i3})
SharedSymmetry == Permutations({t1, t3})
OneProcSymmetry == FirstProcSymmetry \cup Permutations(Tasks)
=============================================================================
