----------------------------- MODULE MCHostLock -----------------------------
(* Small instances of HostLock for TLC.                                     *)
EXTENDS HostLock, TLC

CONSTANTS p1, p2, t1, t2, t3, i1, i2, i3

\* One process with two tasks and two instances, and a second process.
TwoProcTasks == [t \in Tasks |-> IF t = t2 THEN p2 ELSE p1]
TwoProcInsts == [i \in Insts |-> IF i = i2 THEN p2 ELSE p1]

\* The same tasks, but the second process makes the two instances: a process
\* with two tasks and two instances can wait for itself for ever.
OneInstPerTwoTasks == [i \in Insts |-> IF i = i1 THEN p1 ELSE p2]
=============================================================================
