-------------------------------- MODULE List --------------------------------
(***************************************************************************)
(* What CraDeque, CraLList and CraAList promise their clients              *)
(* (docs/collections): a sequence, of at most MaxCount elements here.  A   *)
(* call may run out of memory; it then says so, and the sequence is what   *)
(* it was.  Sorting compares the elements as numbers.                      *)
(*                                                                         *)
(* Positions count from 0, as in the code.                                 *)
(***************************************************************************)
EXTENDS Integers, Sequences, FiniteSets, SequencesExt

CONSTANTS Val, NoVal, MaxCount,
          MayFail   \* may a call run out of memory?

VARIABLES list,
          answer   \* what the last call returned
vars == <<list, answer>>

Returns(ok, out) == answer' = [ok |-> ok, out |-> out]
Fails == Returns(FALSE, NoVal) /\ UNCHANGED list
OutOfMemory == MayFail /\ Fails

Insert(i, v) == \/ /\ i <= Len(list)
                   /\ list' = InsertAt(list, i + 1, v)
                   /\ Returns(TRUE, NoVal)
                \/ i > Len(list) /\ Fails
                \/ OutOfMemory

PushFront(v) == Insert(0, v)
PushBack(v)  == Insert(Len(list), v)

PopAt(i) == \/ /\ i < Len(list)
               /\ list' = RemoveAt(list, i + 1)
               /\ Returns(TRUE, list[i + 1])
            \/ i >= Len(list) /\ Fails

PopFront == PopAt(0)
PopBack  == PopAt(IF list = << >> THEN 0 ELSE Len(list) - 1)

Get(i) == /\ IF i < Len(list) THEN Returns(TRUE, list[i + 1]) ELSE Returns(FALSE, NoVal)
          /\ UNCHANGED list

Set(i, v) == \/ i < Len(list) /\ list' = [list EXCEPT ![i + 1] = v] /\ Returns(TRUE, NoVal)
             \/ i >= Len(list) /\ Fails

Ascending(s) == \A i \in 1 .. Len(s) - 1 : s[i] <= s[i + 1]

\* The places of v, and the same elements in another order.
Places(s, v) == {i \in 1 .. Len(s) : s[i] = v}
Rearranged(s, t) ==
  Len(t) = Len(s) /\ \A v \in ToSet(s) : Cardinality(Places(t, v)) = Cardinality(Places(s, v))

Sort == \/ Rearranged(list, list') /\ Ascending(list') /\ Returns(TRUE, NoVal)
        \/ OutOfMemory

\* Sorted insertion keeps a sorted sequence sorted, and inserts anyhow.
AddSort(v) == /\ \E i \in 0 .. Len(list) : Insert(i, v)
              /\ Ascending(list) => Ascending(list')

ReverseAll == \/ list' = Reverse(list) /\ Returns(TRUE, NoVal)
              \/ OutOfMemory

Clear == list' = << >> /\ UNCHANGED answer

Init == list = << >> /\ answer = [ok |-> FALSE, out |-> NoVal]

Next == \/ \E i \in 0 .. MaxCount : PopAt(i) \/ Get(i) \/ \E v \in Val : Insert(i, v) \/ Set(i, v)
        \/ \E v \in Val : PushFront(v) \/ PushBack(v) \/ AddSort(v)
        \/ PopFront \/ PopBack \/ Sort \/ ReverseAll \/ Clear

Spec == Init /\ [][Next]_vars
=============================================================================
