--------------------------- MODULE MCCephStories ---------------------------
(***************************************************************************)
(* Two small instances of CephStorage in one run: storage actions with     *)
(* nothing reserved and one failure, and a reservation on one OSD with no  *)
(* actions and two failures.                                               *)
(***************************************************************************)
EXTENDS MCCephStorage

VARIABLE story

Told ==
    \/ story = "actions" /\ client' = client /\ faults' <= 1
    \/ story = "reservation" /\ ctl'.plan = {} /\ live' = live

StoryInit ==
    /\ Init /\ story \in {"actions", "reservation"}
    /\ story = "reservation" => Cardinality(live) = 1

StoryNext == Next /\ Told /\ UNCHANGED story

StorySpec == StoryInit /\ [][StoryNext]_<<vars, story>> /\ Fairness
=============================================================================
