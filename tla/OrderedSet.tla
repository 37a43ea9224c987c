----------------------------- MODULE OrderedSet -----------------------------
(***************************************************************************)
(* What a linked set promises its caller (set.h, "SET INTERFACE"): keys    *)
(* without duplicates in the order of insertion, at either end; the LRU    *)
(* operations move a key to the head and keep a set of fixed size within   *)
(* its limit by dropping the tail.                                         *)
(*                                                                         *)
(* elems is the sequence of keys, op and ret the last operation and what   *)
(* it returned or raised, limit the size of a fixed-size set or 0.         *)
(***************************************************************************)
EXTENDS Integers, Sequences, FiniteSets

CONSTANTS Keys, None

VARIABLES elems, op, ret, limit

Returns(value) == ret' = value
Unchanged == elems' = elems

Size == Len(elems)
Has(x) == \E k \in 1..Size : elems[k] = x
FromEnd(i) == IF i < 0 THEN i + Size ELSE i
Between(k, last) == IF k < 0 THEN 0 ELSE IF k > last THEN last ELSE k

PutAt(s, k, x) == SubSeq(s, 1, k) \o <<x>> \o SubSeq(s, k + 1, Len(s))
Without(x) == SelectSeq(elems, LAMBDA y : y # x)

\* The operation is one of these, with a key as its argument.
Named(names) == op'[1] \in names
WithKey(names) == Named(names) /\ Len(op') = 2 /\ op'[2] \in Keys

Init == elems = <<>> /\ op = <<"init">> /\ ret = None /\ limit \in Nat

AddTail ==
    /\ WithKey({"add", "update"})
    /\ elems' = IF Has(op'[2]) THEN elems ELSE Append(elems, op'[2])
    /\ Returns(None)

AddHead ==
    /\ WithKey({"add_left", "update_left"})
    /\ elems' = IF Has(op'[2]) THEN elems ELSE <<op'[2]>> \o elems
    /\ Returns(None)

\* A full set drops its tail for a new key.
LruAdd ==
    LET x == op'[2]
    IN  /\ WithKey({"lru_add"})
        /\ elems' = <<x>> \o IF ~Has(x) /\ limit # 0 /\ Size = limit
                              THEN SubSeq(elems, 1, Size - 1) ELSE Without(x)
        /\ Returns(None)

Insert ==
    LET x == op'[3]
    IN  /\ Named({"insert"}) /\ x \in Keys
        /\ \/ ~Has(x) /\ elems' = PutAt(elems, Between(FromEnd(op'[2]), Size), x) /\ Returns(None)
           \/ Has(x) /\ Unchanged /\ Returns("KeyError")

Remove ==
    /\ WithKey({"remove", "discard"})
    /\ elems' = Without(op'[2])
    /\ Returns(IF ~Has(op'[2]) /\ op'[1] = "remove" THEN "KeyError" ELSE None)

Contains ==
    LET x == op'[2]
    IN  /\ WithKey({"contains", "lru_contains"})
        /\ elems' = IF Has(x) /\ op'[1] = "lru_contains" THEN <<x>> \o Without(x) ELSE elems
        /\ Returns(IF Has(x) THEN "yes" ELSE "no")

Pop ==
    LET k == Between(FromEnd(op'[2]), Size - 1) + 1
    IN  /\ Named({"pop"})
        /\ \/ elems = <<>> /\ Unchanged /\ Returns("IndexError")
           \/ elems # <<>> /\ elems' = Without(elems[k]) /\ Returns(elems[k])

\* A key moves by n places, or to an index, and stops at either end.
Move ==
    LET x == op'[2] n == op'[3]
    IN  /\ Named({"move", "move_to_index"})
        /\ \/ ~Has(x) /\ Unchanged /\ Returns("KeyError")
           \/ \E k \in 1..Size :
                  /\ elems[k] = x
                  /\ elems' = PutAt(Without(x),
                         Between(IF op'[1] = "move" THEN k - 1 + n ELSE FromEnd(n), Size - 1), x)
                  /\ Returns(None)

Swap ==
    LET x == op'[2] y == op'[3]
    IN  /\ Named({"swap"})
        /\ \/ ~(Has(x) /\ Has(y)) /\ Unchanged /\ Returns("KeyError")
           \/ /\ Has(x) /\ Has(y)
              /\ elems' = [k \in 1..Size |->
                     IF elems[k] = x THEN y ELSE IF elems[k] = y THEN x ELSE elems[k]]
              /\ Returns(None)

Reverse ==
    Named({"reverse"}) /\ elems' = [k \in 1..Size |-> elems[Size + 1 - k]] /\ Returns(None)

Rotate ==
    /\ Named({"rotate"}) /\ elems # <<>>
    /\ elems' = [k \in 1..Size |-> elems[((k - 1 - op'[2]) % Size) + 1]]
    /\ Returns(None)

Clear == Named({"clear"}) /\ elems' = <<>> /\ Returns(None)

\* A failed update takes back what it added at its end.
TakeBack ==
    /\ Named({"update", "update_left"})
    /\ ret' \in {"MemoryError", "TypeError", "GeneratorError"}
    /\ \E k \in 0..Size :
           elems' = IF op'[1] = "update" THEN SubSeq(elems, 1, k)
                    ELSE SubSeq(elems, k + 1, Size)

Internal ==
    /\ Named({"update", "update_left", "exit", "defragment", "reserve"})
    /\ Named({"reserve"}) \/ Len(op') = 1
    /\ Unchanged /\ Returns(None)

\* No memory may be had, or the value has the wrong type: nothing happens.
Refused ==
    /\ \/ /\ Named({"add", "add_left", "lru_add", "insert"})
          /\ ret' \in {"MemoryError", "TypeError"}
       \/ Named({"defragment"}) /\ ret' = "MemoryError"
       \/ Named({"reserve"}) /\ ret' \in {"MemoryError", "ValueError"}
    /\ Unchanged

\* A damaged table ends what the set promises.
Undefined == Returns("undefined") /\ Unchanged

Next ==
    /\ limit' = limit
    /\ \/ AddTail \/ AddHead \/ LruAdd \/ Insert \/ Remove \/ Contains
       \/ Pop \/ Move \/ Swap \/ Reverse \/ Rotate \/ Clear
       \/ TakeBack \/ Internal \/ Refused \/ Undefined

Spec == Init /\ [][Next]_<<elems, op, ret, limit>>
=============================================================================
