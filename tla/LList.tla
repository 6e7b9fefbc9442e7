------------------------------- MODULE LList -------------------------------
(***************************************************************************)
(* CraLList (src/src/collections/cra_llist.c): a ring of nodes linked both *)
(* ways, and a list of spare nodes linked by next.                         *)
(*                                                                         *)
(* A node is a number, Null stands for no node.  There is memory for       *)
(* Nodes nodes; an allocation may fail at any time and fails when there    *)
(* are no more.  What a spare or freed node held is forgotten.             *)
(*                                                                         *)
(* An operator whose comment starts with MUTANT is no part of the model:   *)
(* it is a slip the code could have, which the runs must notice.           *)
(***************************************************************************)
EXTENDS Integers, Sequences, FiniteSets, FiniteSetsExt, SequencesExt

CONSTANTS Val, NoVal, Nodes,
          MaxCount,
          Spares,   \* the numbers of spare nodes that are asked for
          Shrinks   \* may cra_llist_reserve be asked for fewer than there are?

LListAssumption == Nodes \in Nat /\ MaxCount \in Nat /\ Spares \subseteq Nat /\ Val \subseteq Int

VARIABLES llist,   \* the fields of struct CraLList and of its nodes
          lret     \* what the last call returned
vars == <<llist, lret>>

Null == 0
Node == 1 .. Nodes

Returns(ok, out) == lret' = [ok |-> ok, out |-> out]

S == INSTANCE Sorting

(***************************************************************************)
(* Nodes.  A record holds head, count, free_list, nfreelist, the functions *)
(* prev, next and val, and made, the nodes that are allocated.             *)
(***************************************************************************)
\* The node k links away from n.  The code would follow a null pointer behind Null.
Hop(link, n, k) ==
  LET Follow(m) == IF m = Null THEN Null ELSE link[m]
      hop[i \in 0 .. k] == IF i = 0 THEN n ELSE Follow(hop[i - 1])
  IN  hop[k]

\* cra_llist_get_node, from the nearer end.
GetNode(l, index) ==
  IF index <= l.count \div 2 THEN Hop(l.next, l.head, index)
                             ELSE Hop(l.prev, l.prev[l.head], l.count - 1 - index)

CanCreate(l) == l.made # Node
Unmade(l) == Min(Node \ l.made)

\* cra_llist_get_free_node: the node, and the list without it.
FreeNode(l) == IF l.free_list # Null THEN l.free_list ELSE Unmade(l)
WithoutFree(l) ==
  IF l.free_list # Null
    THEN [l EXCEPT !.free_list = l.next[l.free_list], !.nfreelist = @ - 1,
                   !.next[l.free_list] = Null]
    ELSE [l EXCEPT !.made = @ \cup {Unmade(l)}]

PutFree(l, n) == [l EXCEPT !.next[n] = l.free_list, !.prev[n] = Null, !.val[n] = NoVal,
                           !.free_list = n, !.nfreelist = @ + 1]

\* MUTANT: the node behind is not told.
LinkedOneWay(l, n, p) == [l EXCEPT !.prev[n] = p, !.next[n] = l.next[p], !.next[p] = n]

\* cra_llist_link_node: n behind p.
Linked(l, n, p) ==
  LET toldBehind == [l EXCEPT !.prev[n] = p, !.next[n] = l.next[p], !.prev[l.next[p]] = n]
  IN  [toldBehind EXCEPT !.next[p] = n]

Unlinked(l, n) ==
  LET toldBefore == [l EXCEPT !.next[l.prev[n]] = l.next[n]]
      toldBehind == [toldBefore EXCEPT !.prev[toldBefore.next[n]] = toldBefore.prev[n]]
  IN  [toldBehind EXCEPT !.prev[n] = Null, !.next[n] = Null]

\* cra_llist_insert_node, at a position up to count.
InsertNode(l, index, n) ==
  LET slot   == GetNode(l, index % l.count)
      linked == IF l.head = Null THEN [l EXCEPT !.prev[n] = n, !.next[n] = n]
                                 ELSE Linked(l, n, l.prev[slot])
  IN  [linked EXCEPT !.head = IF l.head = Null \/ index = 0 THEN n ELSE @, !.count = @ + 1]

\* cra_llist_remove_node
RemoveNode(l, n) ==
  LET put == PutFree(Unlinked(l, n), n)
  IN  [put EXCEPT !.count = @ - 1,
                  !.head = IF l.count = 1 THEN Null ELSE IF @ = n THEN l.next[n] ELSE @]

\* The nodes in their order.
Order(l) == [i \in 1 .. l.count |-> Hop(l.next, l.head, i - 1)]
Content(l) == [i \in 1 .. l.count |-> l.val[Order(l)[i]]]

(***************************************************************************)
(* The operations.                                                         *)
(***************************************************************************)
OutOfMemory == llist.free_list = Null /\ Returns(FALSE, NoVal) /\ UNCHANGED llist

CanGetFree == llist.free_list # Null \/ CanCreate(llist)

\* cra_llist_insert; a node that finds no place goes to the spare ones.
InsertInto(index, v) ==
  /\ CanGetFree
  /\ LET n == FreeNode(llist)
         l == WithoutFree(llist)
     IN  IF index <= llist.count
           THEN llist' = [InsertNode(l, index, n) EXCEPT !.val[n] = v] /\ Returns(TRUE, NoVal)
           ELSE llist' = PutFree(l, n) /\ Returns(FALSE, NoVal)

Insert(index, v) == InsertInto(index, v) \/ OutOfMemory

PopAt(index) ==
  IF index < llist.count
    THEN LET n == GetNode(llist, index)
         IN  llist' = RemoveNode(llist, n) /\ Returns(TRUE, llist.val[n])
    ELSE Returns(FALSE, NoVal) /\ UNCHANGED llist

Get(index) ==
  /\ Returns(index < llist.count,
             IF index < llist.count THEN llist.val[GetNode(llist, index)] ELSE NoVal)
  /\ UNCHANGED llist

\* cra_llist_get_and_set
Set(index, v) ==
  /\ Returns(index < llist.count, NoVal)
  /\ llist' = IF index < llist.count THEN [llist EXCEPT !.val[GetNode(llist, index)] = v]
                                     ELSE llist

\* All nodes become spare.  The last of the ring is linked to the spare ones.
Clear ==
  /\ llist' = IF llist.head = Null THEN llist
              ELSE LET ring == ToSet(Order(llist))
                   IN  [llist EXCEPT !.next[llist.prev[llist.head]] = llist.free_list,
                                     !.nfreelist = @ + llist.count,
                                     !.free_list = llist.head,
                                     !.head = Null, !.count = 0,
                                     !.prev = [n \in Node |-> IF n \in ring THEN Null ELSE @[n]],
                                     !.val = [n \in Node |-> IF n \in ring THEN NoVal ELSE @[n]]]
  /\ UNCHANGED lret

ReverseAll ==
  /\ llist' = IF llist.count < 2 THEN llist
              ELSE LET ring == ToSet(Order(llist))
                   IN  [llist EXCEPT
                          !.prev = [n \in Node |-> IF n \in ring THEN llist.next[n] ELSE @[n]],
                          !.next = [n \in Node |-> IF n \in ring THEN llist.prev[n] ELSE @[n]],
                          !.head = llist.prev[llist.head]]
  /\ Returns(TRUE, NoVal)

\* The values are sorted in the nodes they are in; a spare node is used meanwhile.
Sort ==
  \/ llist.count <= 1 /\ Returns(TRUE, NoVal) /\ UNCHANGED llist
  \/ /\ llist.count > 1 /\ CanGetFree
     /\ LET order == Order(llist)
            spare == PutFree(WithoutFree(llist), FreeNode(llist))
        IN  llist' = [spare EXCEPT !.val = [n \in Node |->
              IF n \in ToSet(order) THEN S!Sorted(Content(llist))[CHOOSE i \in DOMAIN order : order[i] = n]
                                    ELSE @[n]]]
     /\ Returns(TRUE, NoVal)
  \/ llist.count > 1 /\ OutOfMemory

\* In front of the first element that is greater.
AddSort(v) ==
  Insert(Min({llist.count} \cup {i \in 0 .. llist.count - 1 : Content(llist)[i + 1] > v}), v)

\* More spare nodes, as far as there is memory.
ReserveMore(nspare) ==
  /\ llist.nfreelist < nspare
  /\ \E n \in 0 .. nspare - llist.nfreelist :
       LET add[i \in 0 .. n] == IF i = 0 THEN llist
                                ELSE LET l == add[i - 1]
                                     IN  PutFree([l EXCEPT !.made = @ \cup {Unmade(l)}], Unmade(l))
       IN  /\ n <= Nodes - Cardinality(llist.made)
           /\ llist' = add[n]
           /\ Returns(n = nspare - llist.nfreelist, NoVal)

\* Fewer: the nodes are freed, and nfreelist stays as it was.
ReserveLess(nspare) ==
  /\ llist.nfreelist >= nspare
  /\ Shrinks \/ llist.nfreelist = nspare
  /\ LET n    == llist.nfreelist - nspare
         gone == {Hop(llist.next, llist.free_list, i) : i \in 0 .. n - 1}
     IN  llist' = [llist EXCEPT !.free_list = Hop(llist.next, @, n), !.made = @ \ gone,
                                !.next = [m \in Node |-> IF m \in gone THEN Null ELSE @[m]]]
  /\ Returns(TRUE, NoVal)

Fresh == [head |-> Null, count |-> 0, free_list |-> Null, nfreelist |-> 0, made |-> {},
          prev |-> [n \in Node |-> Null], next |-> [n \in Node |-> Null],
          val |-> [n \in Node |-> NoVal]]

\* cra_llist_uninit, and cra_llist_init again.
Renew == llist' = Fresh /\ UNCHANGED lret

Init == llist = Fresh /\ lret = [ok |-> FALSE, out |-> NoVal]

Next == \/ \E i \in 0 .. MaxCount : PopAt(i) \/ Get(i) \/ \E v \in Val : Insert(i, v) \/ Set(i, v)
        \/ \E v \in Val : AddSort(v)
        \/ Sort \/ ReverseAll \/ Clear \/ Renew
        \/ \E n \in Spares : ReserveMore(n) \/ ReserveLess(n)

Spec == Init /\ [][Next]_vars
-----------------------------------------------------------------------------
\* The ring read backwards is the ring read forwards, the spare nodes are as
\* many as nfreelist says, and every node that is allocated is in one of both.
Sound ==
  LET ring  == ToSet(Order(llist))
      spare == {Hop(llist.next, llist.free_list, i) : i \in 0 .. llist.nfreelist - 1}
  IN  /\ \A n \in ring : llist.next[llist.prev[n]] = n /\ llist.prev[llist.next[n]] = n
      /\ Cardinality(ring) = llist.count /\ (llist.head = Null <=> llist.count = 0)
      /\ Cardinality(spare) = llist.nfreelist
      /\ Hop(llist.next, llist.free_list, llist.nfreelist) = Null
      /\ ring \cap spare = {} /\ ring \cup spare = llist.made

\* The list implements a sequence.
Elements == INSTANCE List WITH list <- Content(llist), answer <- lret, MayFail <- TRUE
ListSpec == Elements!Spec
=============================================================================
