------------------------------ MODULE ListSpec ------------------------------
(***************************************************************************)
(* What a linked list promises its caller: a Python list, with the         *)
(* exceptions of one (list.h, "LIST INTERFACE").  Memory, addresses and    *)
(* guards do not show, except that an operation which needs a node may be  *)
(* refused and then leaves the list as it was.                             *)
(*                                                                         *)
(* list is the sequence of elements, op the last operation with its        *)
(* arguments, ret what it returned or raised, and double the link          *)
(* structure, which should not show and does in one place (SetSlice).      *)
(***************************************************************************)
EXTENDS Integers, Sequences, FiniteSets

CONSTANTS Elems, None

VARIABLES list, op, ret, double

Returns(value) == ret' = value
Unchanged == list' = list

\* The operation is one of these, with an element as its argument.
Named(names) == op'[1] \in names
WithValue(names) == Named(names) /\ Len(op') = 2 /\ op'[2] \in Elems

\* Python's index: negative ones count from the end.
FromEnd(i) == IF i < 0 THEN i + Len(list) ELSE i
InRange(i) == FromEnd(i) \in 0..(Len(list) - 1)
Clamp(i, last) == IF FromEnd(i) < 0 THEN 0 ELSE IF FromEnd(i) > last THEN last ELSE FromEnd(i)

PutAt(k, items) == SubSeq(list, 1, k) \o items \o SubSeq(list, k + 1, Len(list))
Without(k) == SubSeq(list, 1, k - 1) \o SubSeq(list, k + 1, Len(list))

Init == double \in BOOLEAN /\ list = <<>> /\ op = <<"init">> /\ ret = None

\* append_left() adds at the tail as well (append.h:24), where list.h:289 has it
\* add at the head as collections.deque does.
AddTail ==
    /\ WithValue({"append", "append_left", "extend"})
    /\ list' = Append(list, op'[2]) /\ Returns(None)

AddHead ==
    /\ WithValue({"extend_left"})
    /\ list' = <<op'[2]>> \o list /\ Returns(None)

Insert ==
    /\ Named({"insert"}) /\ op'[3] \in Elems
    /\ list' = PutAt(Clamp(op'[2], Len(list)), <<op'[3]>>)
    /\ Returns(None)

\* Unlike Python's, pop() takes an index out of range as the nearest end.
Pop ==
    LET k == Clamp(op'[2], Len(list) - 1) + 1
    IN  /\ Named({"pop"})
        /\ \/ list = <<>> /\ Unchanged /\ Returns("IndexError")
           \/ list # <<>> /\ list' = Without(k) /\ Returns(list[k])

Remove ==
    LET at == {k \in DOMAIN list : list[k] = op'[2]}
    IN  /\ WithValue({"remove"})
        /\ \/ at = {} /\ Unchanged /\ Returns("KeyError")
           \/ \E k \in at : /\ \A j \in at : k <= j
                            /\ list' = Without(k) /\ Returns(None)

Contains ==
    /\ WithValue({"contains"})
    /\ Unchanged /\ Returns(IF \E k \in DOMAIN list : list[k] = op'[2] THEN "yes" ELSE "no")

GetItem ==
    /\ Named({"get"}) /\ Unchanged
    /\ Returns(IF InRange(op'[2]) THEN list[FromEnd(op'[2]) + 1] ELSE "IndexError")

SetItem ==
    /\ Named({"set"}) /\ InRange(op'[2]) /\ op'[3] \in Elems
    /\ list' = [list EXCEPT ![FromEnd(op'[2]) + 1] = op'[3]] /\ Returns(None)

DelItem ==
    /\ Named({"del"})
    /\ \/ InRange(op'[2]) /\ list' = Without(FromEnd(op'[2]) + 1) /\ Returns(None)
       \/ ~InRange(op'[2]) /\ Unchanged /\ Returns("IndexError")

Reverse ==
    /\ Named({"reverse"})
    /\ list' = [k \in DOMAIN list |-> list[Len(list) + 1 - k]] /\ Returns(None)

Rotate ==
    /\ Named({"rotate"}) /\ list # <<>>
    /\ list' = [k \in DOMAIN list |-> list[((k - 1 - op'[2]) % Len(list)) + 1]]
    /\ Returns(None)

Repeat ==
    /\ Named({"repeat"})
    /\ list' = [k \in 1..(IF op'[2] < 0 THEN 0 ELSE op'[2] * Len(list)) |-> list[((k - 1) % Len(list)) + 1]]
    /\ Returns(None)

Clear == Named({"clear"}) /\ list' = <<>> /\ Returns(None)

\* The elements at the indices from, from + by, ... of a slice, and the list with
\* them replaced or left out.
InSlice(k, from, n, by) == \E j \in 0..(n - 1) : k = from + j * by + 1

GetSlice ==
    /\ Named({"get_slice"})
    /\ Unchanged
    /\ Returns([j \in 1..op'[3] |-> list[op'[2] + (j - 1) * op'[4] + 1]])

DelSlice ==
    LET kept == {k \in DOMAIN list : ~InSlice(k, op'[2], op'[3], op'[4])}
    IN  /\ Named({"del_slice"})
        /\ list' = [j \in 1..Cardinality(kept) |->
               list[CHOOSE k \in kept : Cardinality({i \in kept : i <= k}) = j]]
        /\ Returns(None)

\* Two cases of an assignment differ in a doubly linked list, because
\* SliceIndices (slice.h:44-55) turns a slice round by its ends alone: items
\* assigned to an empty slice end up at some other index or in reverse, and
\* items that replace the one element in the middle may be reversed.
Reversal(s) == [k \in DOMAIN s |-> s[Len(s) + 1 - k]]

SetSlice ==
    LET from == op'[2] n == op'[3] by == op'[4] items == op'[5]
    IN  /\ Named({"set_slice"})
        /\ \/ /\ n = Len(items)
              /\ list' = [k \in DOMAIN list |->
                     IF InSlice(k, from, n, by) THEN items[(k - 1 - from) \div by + 1] ELSE list[k]]
           \/ /\ by = 1 /\ n > 0
              /\ \E s \in IF double /\ n = 1 THEN {items, Reversal(items)} ELSE {items} :
                     list' = SubSeq(list, 1, from) \o s \o SubSeq(list, from + n + 1, Len(list))
           \/ n = 0 /\ by = 1 /\ ~double /\ list' = PutAt(from, items)
           \/ /\ n = 0 /\ by = 1 /\ double
              /\ \E k \in 0..Len(list) : list' \in {PutAt(k, items), PutAt(k, Reversal(items))}
        /\ Returns(None)

\* index() and count() between two bounds.  In a doubly linked list index() may
\* also find x at the upper bound (index.h:49-58).
At(x, low, high) == {k \in low..high : list[k + 1] = x}
Ordinal(k) == <<"0", "1", "2", "3", "4", "5", "6", "7", "8">>[k + 1]
First(S) == Ordinal(CHOOSE k \in S : \A j \in S : k <= j)

Misordered(low, high) == list # <<>> /\ low > high

Index ==
    LET x == op'[2] low == op'[3] high == op'[4]
        at == At(x, low, high - 1)
    IN  /\ Named({"index"})
        /\ Unchanged
        /\ \/ Misordered(low, high) /\ Returns("IndexError")
           \/ ~Misordered(low, high) /\ at = {} /\ Returns("KeyError")
           \/ low < high /\ at # {} /\ Returns(First(at))
           \/ /\ double /\ low < high /\ high < Len(list)
              /\ at = {} /\ list[high + 1] = x /\ Returns(Ordinal(high))

Count ==
    LET x == op'[2] low == op'[3] high == op'[4]
    IN  /\ Named({"count"})
        /\ Unchanged
        /\ \/ Misordered(low, high) /\ Returns("IndexError")
           \/ ~Misordered(low, high) /\ Returns(Ordinal(Cardinality(At(x, low, high - 1))))

\* A failed extend takes back what it added at its end of the list.
RollBack ==
    /\ Named({"extend", "extend_left"})
    /\ ret' \in {"MemoryError", "TypeError", "GeneratorError"}
    /\ \E k \in 0..Len(list) :
           list' = IF op'[1] = "extend" THEN SubSeq(list, 1, k)
                   ELSE SubSeq(list, k + 1, Len(list))

\* Memory is managed and the elements stay.
Internal ==
    /\ op'[1] \in {"extend", "extend_left", "reserve", "exit", "defragment"}
    /\ Unchanged /\ Returns(None)

\* No memory may be had, or the value has the wrong type: nothing happens.
Refused ==
    /\ \/ /\ op'[1] \in {"append", "append_left", "insert", "set", "set_slice"}
          /\ ret' \in {"MemoryError", "TypeError"}
       \/ op'[1] = "set" /\ ~InRange(op'[2]) /\ ret' = "IndexError"
       \/ /\ op'[1] \in {"extend", "extend_left", "defragment"}
          /\ ret' = "MemoryError"
       \/ /\ op'[1] \in {"reserve", "repeat", "set_slice"}
          /\ ret' \in {"MemoryError", "ValueError"}
    /\ Unchanged

\* Undefined behaviour ends what the list promises.
Undefined == Returns("undefined") /\ op'[1] # "get_slice" /\ Unchanged

Next ==
    /\ double' = double
    /\ \/ AddTail \/ AddHead \/ Insert \/ Pop \/ Remove \/ Contains
       \/ GetItem \/ SetItem \/ DelItem \/ Index \/ Count \/ GetSlice \/ DelSlice \/ SetSlice
       \/ Reverse \/ Rotate \/ Repeat \/ Clear
       \/ RollBack \/ Internal \/ Refused \/ Undefined

Spec == Init /\ [][Next]_<<list, op, ret, double>>
=============================================================================
