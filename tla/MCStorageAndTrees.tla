-------------------------- MODULE MCStorageAndTrees --------------------------
(***************************************************************************)
(* Small instances of two modules which share no state, in one run: a      *)
(* behaviour is that of the storage reservations or that of the worktrees, *)
(* and the other part rests.  The storage never stops; the worktrees may,  *)
(* when users have done what the bound allows.                             *)
(***************************************************************************)
EXTENDS MCCephStorage, MCWorktrees

VARIABLE part

RestingStorage == Init /\ live = CHOOSE ready \in ReadySets : TRUE
RestingTrees == WtInit /\ refs = {}

PartInit ==
    \/ part = "storage" /\ Init /\ RestingTrees
    \/ part = "worktrees" /\ WtInit /\ RestingStorage

PartNext ==
    /\ UNCHANGED part
    /\ \/ part = "storage" /\ Next /\ UNCHANGED syncVars
       \/ part = "worktrees" /\ SyncNext /\ UNCHANGED vars
       \/ /\ part = "worktrees" /\ uses + mishaps = MaxEvents
          /\ UNCHANGED <<vars, syncVars>>

PartSpec == PartInit /\ [][PartNext]_<<part, vars, syncVars>>
=============================================================================
