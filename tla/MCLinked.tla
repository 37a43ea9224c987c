------------------------------ MODULE MCLinked ------------------------------
(***************************************************************************)
(* Small instances for TLC of the two modules that share LinkedNodes: a    *)
(* behaviour is that of one list or of one set, and the other one rests.   *)
(***************************************************************************)
EXTENDS LinkedList, MCLinkedSet
CONSTANTS a, b
VARIABLE used
\* Past either end of a list of three, its ends, and its middle.
SomeIndices == {-4, -1, 0, 1, 2, 3}
SomeBounds == {-4, -2, 0, 1, 2, 4, NoBound}
SomeSteps == {-2, -1, 1, 2}
SomeSeqs == UNION {[1..n -> {a, b}] : n \in 0..2} \cup {<<Wrong>>, <<a, Wrong>>, <<b, Wrong>>}
ItemSymmetry == Permutations({a, b})

RestingList ==
    /\ view = EmptyView(FALSE, FALSE, MinCapacity) /\ guard = "none" /\ ext = Idle
    /\ op = <<"init">> /\ ret = None
RestingSet == StartsAs(EmptySet(FALSE, 0, TableMin))

LinkedInit ==
    \/ used = "list" /\ Init /\ RestingSet
    \/ used = "set" /\ SetInit /\ RestingList
LinkedNext ==
    /\ UNCHANGED used
    /\ \/ used = "list" /\ Next /\ UNCHANGED setVars
       \/ used = "set" /\ SetNext /\ UNCHANGED vars
LinkedSpec == LinkedInit /\ [][LinkedNext]_<<used, vars, setVars>>

\* What the last step did and returned is read by no step.
LinkedView == <<used, view, guard, ext, hset, pin, upd>>
=============================================================================
