--------------------------- MODULE MCHostAndBuilds ---------------------------
(***************************************************************************)
(* Small instances of two modules which share no state, in one run: a      *)
(* behaviour is that of the host's locks or that of the image builds, and  *)
(* the other part rests.  The locks may stop; the builds never do.         *)
(***************************************************************************)
EXTENDS MCHostLock, BuildController

CONSTANTS b1, b2, w, x, y, z, j1

OneTree == [b \in Builds |-> w]
InOrder == [b \in Builds |-> IF b = b1 THEN 1 ELSE 2]

\* Two builds of one worktree that share a platform.
SharedPlatform == {<<x, z>>, <<y, z>>}

VARIABLE part

\* The builds tell two stories: images that share a platform while no workload
\* is removed, and removed workloads whose builds all publish the same image.
Told ==
    \/ part = "builds" /\ cli' = NoCli
    \/ part = "removals" /\ image' \in {<<>>, <<x, z>>}

PartInit == Init /\ BuildInit /\ part \in {"locks", "builds", "removals"}

PartNext ==
    /\ UNCHANGED part
    /\ \/ part = "locks" /\ Next /\ UNCHANGED buildVars
       \/ BuildNext /\ Told /\ UNCHANGED vars

\* The fairness of the part that runs.
PartFairness ==
    \/ part = "locks" /\ Fairness
    \/ part # "locks" /\ BuildFairness

PartSpec == PartInit /\ [][PartNext]_<<part, vars, buildVars>> /\ PartFairness
=============================================================================
