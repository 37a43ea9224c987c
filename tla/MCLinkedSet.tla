---------------------------- MODULE MCLinkedSet ----------------------------
(* Small instances of LinkedSet for TLC.                                    *)
EXTENDS LinkedSet, TLC
CONSTANTS k1, k2, k3, k4
\* In a table of 4 buckets k1, k2 and k3 share a home, in one of 8 k1 and k2.
SomeHashes == (k1 :> 3) @@ (k2 :> 11) @@ (k3 :> 7) @@ (k4 :> 0)
SomeMoves == {-4, -1, 1, 4}
SetView == <<hset, pin, upd>>
=============================================================================
