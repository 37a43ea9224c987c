--------------------------- MODULE MCCephStorage ---------------------------
(* Small instances of CephStorage for TLC.                                  *)
EXTENDS CephStorage, TLC

CONSTANTS r1, r2, o1, o2, h1, h2, Ctl

OneHost == [o \in OSDs |-> h1]
OneEach == [o \in OSDs |-> IF o = o1 THEN h1 ELSE h2]
OneUnit == [r \in Res |-> 1]
TwoUnits == [o \in OSDs |-> 2]

ResSymmetry == Permutations(Res)
=============================================================================
