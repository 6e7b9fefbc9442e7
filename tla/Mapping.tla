------------------------------ MODULE Mapping ------------------------------
(***************************************************************************)
(* What CraDict promises its clients (src/docs/collections/cra_dict.md): a *)
(* map from keys to values.  A call may run out of memory, and then leaves *)
(* the map as it was.                                                      *)
(***************************************************************************)
CONSTANTS Key, Val, NoVal

VARIABLES map,     \* the value of each key, NoVal for one that is absent
          answer   \* what the last call returned
vars == <<map, answer>>

Present(k) == map[k] # NoVal

Returns(ok, out) == answer' = [ok |-> ok, out |-> out]
Fails == Returns(FALSE, NoVal) /\ UNCHANGED map

Sets(k, v) == map' = [map EXCEPT ![k] = v]

\* A value that is replaced is handed out.
Put(k, v) == \/ Returns(TRUE, map[k]) /\ Sets(k, v)
             \/ ~Present(k) /\ Fails

Add(k, v) == \/ Returns(TRUE, NoVal) /\ ~Present(k) /\ Sets(k, v)
             \/ Fails

Pop(k) == \/ Present(k) /\ Returns(TRUE, map[k]) /\ Sets(k, NoVal)
          \/ ~Present(k) /\ Fails

Get(k) == Returns(Present(k), map[k]) /\ UNCHANGED map

Clear == map' = [k \in Key |-> NoVal] /\ UNCHANGED answer

Reserve == \E ok \in BOOLEAN : Returns(ok, NoVal) /\ UNCHANGED map

Init == map = [k \in Key |-> NoVal] /\ answer = [ok |-> FALSE, out |-> NoVal]

Next == \/ \E k \in Key, v \in Val : Put(k, v) \/ Add(k, v)
        \/ \E k \in Key : Pop(k) \/ Get(k)
        \/ Clear \/ Reserve

Spec == Init /\ [][Next]_vars
=============================================================================
