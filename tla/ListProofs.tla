----------------------------- MODULE ListProofs -----------------------------
(***************************************************************************)
(* Theorems about the linked list and the array list, for every number of  *)
(* nodes, every capacity and every set of numbers as values: the ring of   *)
(* the linked list and its spare nodes account for each node that is       *)
(* allocated, and both lists are sequences.                                *)
(*                                                                         *)
(* A linked list is in order (Sane) if its nodes are those of two          *)
(* sequences without repetitions, one linked in a ring both ways, the      *)
(* other in a row of spare nodes; an array list (ArrayKept) if its cells   *)
(* hold a sequence that fits its capacity.  Each call keeps such           *)
(* sequences, and what it does to the values is what the call of a         *)
(* sequence does.                                                          *)
(***************************************************************************)
EXTENDS LList, SequenceLemmas, TLAPS

(***************************************************************************)
(* Walking along links.                                                    *)
(***************************************************************************)
\* The node behind m, and none behind Null.
Next1(link, m) == IF m = Null THEN Null ELSE link[m]

\* What the recursive function of Hop is.
Walks(h, link, n, k) == h = [i \in 0 .. k |-> IF i = 0 THEN n ELSE Next1(link, h[i - 1])]

\* Hop arrives where a walk along the links arrives.
LEMMA HopIs ==
  ASSUME NEW link, NEW n, NEW k \in Nat, NEW w, w[0] = n, \A i \in 1 .. k : w[i] = Next1(link, w[i - 1])
  PROVE  Hop(link, n, k) = w[k]
<1> DEFINE g == [i \in 0 .. k |-> w[i]]
           hop[i \in 0 .. k] == IF i = 0 THEN n ELSE Next1(link, hop[i - 1])
<1>1. ASSUME NEW i \in 0 .. k
      PROVE  g[i] = IF i = 0 THEN n ELSE Next1(link, g[i - 1])
  <2>1. CASE i = 0
    BY <2>1
  <2>2. CASE i # 0
    <3>1. i \in 1 .. k /\ i - 1 \in 0 .. k
      BY <2>2
    <3>2. QED
      BY <2>2, <3>1
  <2>3. QED
    BY <2>1, <2>2
<1>2. Walks(g, link, n, k)
  <2>1. g = [i \in 0 .. k |-> g[i]]
    OBVIOUS
  <2> HIDE DEF g
  <2>2. QED
    BY <1>1, <2>1, Zenon DEF Walks
<1>3. hop = CHOOSE h : Walks(h, link, n, k)
  BY Zenon DEF Walks
<1>4. Hop(link, n, k) = hop[k]
  BY Zenon DEF Hop, Next1
<1> HIDE DEF hop, g
<1>5. Walks(hop, link, n, k)
  BY <1>2, <1>3, Zenon
<1>6. ASSUME NEW i \in 0 .. k
      PROVE  hop[i] = IF i = 0 THEN n ELSE Next1(link, hop[i - 1])
  BY <1>5, Zenon DEF Walks
<1> DEFINE T == {i \in Nat : i <= k => hop[i] = w[i]}
<1>7. 0 \in T
  BY <1>6
<1>8. ASSUME NEW i \in Nat, i \in T
      PROVE  i + 1 \in T
  <2>1. SUFFICES ASSUME i + 1 <= k PROVE hop[i + 1] = w[i + 1]
    OBVIOUS
  <2>2. PICK o : o = i + 1
    OBVIOUS
  <2>3. o \in 0 .. k /\ o \in 1 .. k /\ o # 0 /\ o - 1 = i /\ hop[i] = w[i]
    BY <1>8, <2>1, <2>2
  <2>4. QED
    BY <1>6, <2>2, <2>3
<1> HIDE DEF T
<1>9. \A i \in Nat : i \in T
  BY <1>7, <1>8, SetInduction
<1>10. QED
  BY <1>4, <1>9 DEF T

(***************************************************************************)
(* A ring and a chain of nodes.                                            *)
(***************************************************************************)
\* The position behind i among n that form a ring.
Succ(i, n) == IF i = n THEN 1 ELSE i + 1

\* o is linked in a ring, both ways.
Ring(next, prev, o) ==
  \A i \in 1 .. Len(o) : next[o[i]] = o[Succ(i, Len(o))] /\ prev[o[Succ(i, Len(o))]] = o[i]

\* s is linked in a row.
Row(next, s) == \A i \in 1 .. Len(s) : next[s[i]] = IF i = Len(s) THEN Null ELSE s[i + 1]

First(s) == IF Len(s) = 0 THEN Null ELSE s[1]

Distinct(s) == \A i, j \in 1 .. Len(s) : s[i] = s[j] => i = j

Apart(o, s) == \A i \in 1 .. Len(o), j \in 1 .. Len(s) : o[i] # s[j]

In(m, s) == \E i \in 1 .. Len(s) : s[i] = m

\* Null is no node.
LEMMA NodesAre ==
  ASSUME LListAssumption
  PROVE  Node \subseteq Nat /\ \A m \in Node : m # Null
BY DEF LListAssumption, Node, Null

\* k links forwards from the head.
LEMMA Forwards ==
  ASSUME LListAssumption, NEW next, NEW prev, NEW o \in Seq(Node), Ring(next, prev, o), NEW k \in Nat, k < Len(o)
  PROVE  Hop(next, o[1], k) = o[k + 1]
<1> DEFINE w == [i \in 0 .. k |-> o[i + 1]]
<1>1. w[0] = o[1] /\ w[k] = o[k + 1]
  OBVIOUS
<1>2. ASSUME NEW i \in 1 .. k
      PROVE  w[i] = Next1(next, w[i - 1])
  <2>1. i \in 1 .. Len(o) /\ Succ(i, Len(o)) = i + 1 /\ o[i] \in Node /\ o[i] # Null
    BY NodesAre DEF Succ
  <2>2. w[i - 1] = o[i] /\ w[i] = o[i + 1]
    OBVIOUS
  <2>3. QED
    BY <2>1, <2>2 DEF Next1, Ring
<1> HIDE DEF w
<1>3. Hop(next, o[1], k) = w[k]
  BY <1>1, <1>2, HopIs
<1>4. QED
  BY <1>1, <1>3

\* And backwards from its predecessor.
LEMMA Backwards ==
  ASSUME LListAssumption, NEW next, NEW prev, NEW o \in Seq(Node), Ring(next, prev, o), NEW k \in Nat, k < Len(o)
  PROVE  Hop(prev, prev[o[1]], k) = o[Len(o) - k]
<1> DEFINE w == [i \in 0 .. k |-> o[Len(o) - i]]
<1>1. Len(o) \in Nat /\ Len(o) > 0
  OBVIOUS
<1>2. w[0] = prev[o[1]] /\ w[k] = o[Len(o) - k]
  <2>1. Len(o) \in 1 .. Len(o) /\ Succ(Len(o), Len(o)) = 1
    BY <1>1 DEF Succ
  <2>2. prev[o[1]] = o[Len(o)]
    BY <2>1 DEF Ring
  <2>3. QED
    BY <1>1, <2>2
<1>3. ASSUME NEW i \in 1 .. k
      PROVE  w[i] = Next1(prev, w[i - 1])
  <2>1. PICK j \in 1 .. Len(o) : j = Len(o) - i
    BY <1>1, SMTT(30)
  <2>2. Succ(j, Len(o)) = j + 1 /\ o[j + 1] \in Node /\ o[j + 1] # Null
    BY <1>1, <2>1, NodesAre DEF Succ
  <2>3. w[i - 1] = o[j + 1] /\ w[i] = o[j]
    BY <1>1, <2>1
  <2>4. QED
    BY <2>1, <2>2, <2>3 DEF Next1, Ring
<1> HIDE DEF w
<1>4. Hop(prev, prev[o[1]], k) = w[k]
  BY <1>2, <1>3, HopIs
<1>5. QED
  BY <1>2, <1>4

\* Along the spare nodes, and to Null behind the last.
LEMMA AlongRow ==
  ASSUME LListAssumption, NEW next, NEW s \in Seq(Node), Row(next, s), NEW k \in Nat, k <= Len(s)
  PROVE  Hop(next, First(s), k) = IF k = Len(s) THEN Null ELSE s[k + 1]
<1> DEFINE w == [i \in 0 .. k |-> IF i = Len(s) THEN Null ELSE s[i + 1]]
<1>1. Len(s) \in Nat
  OBVIOUS
<1>2. w[0] = First(s) /\ w[k] = IF k = Len(s) THEN Null ELSE s[k + 1]
  BY <1>1 DEF First
<1>3. ASSUME NEW i \in 1 .. k
      PROVE  w[i] = Next1(next, w[i - 1])
  <2>1. i \in 1 .. Len(s) /\ s[i] \in Node /\ s[i] # Null
    BY <1>1, NodesAre
  <2>2. w[i - 1] = s[i] /\ w[i] = IF i = Len(s) THEN Null ELSE s[i + 1]
    BY <1>1
  <2>3. QED
    BY <2>1, <2>2 DEF Next1, Row
<1> HIDE DEF w
<1>4. Hop(next, First(s), k) = w[k]
  BY <1>2, <1>3, HopIs
<1>5. QED
  BY <1>2, <1>4

\* What an element more or less is for the nodes of a sequence.
LEMMA InsertedNode ==
  ASSUME NEW o \in Seq(Node), NEW i \in 1 .. Len(o) + 1, NEW n \in Node, NEW q, q = InsertAt(o, i, n)
  PROVE  /\ q \in Seq(Node) /\ Len(q) = Len(o) + 1
         /\ \A m : In(m, q) <=> In(m, o) \/ m = n
         /\ Distinct(o) /\ ~In(n, o) => Distinct(q)
         /\ \A j \in 1 .. Len(o) + 1 : q[j] = IF j < i THEN o[j] ELSE IF j = i THEN n ELSE o[j - 1]
<1>1. /\ q \in Seq(Node) /\ Len(q) = Len(o) + 1
      /\ \A j \in 1 .. Len(o) + 1 : q[j] = IF j < i THEN o[j] ELSE IF j = i THEN n ELSE o[j - 1]
  <2>1. IsPut(Node, q, o, i, n)
    BY InsertAtPuts
  <2>2. QED
    BY <2>1, Zenon DEF IsPut
<1>2. PICK l \in Nat : l = Len(o)
  OBVIOUS
<1>3. \A m : In(m, q) <=> In(m, o) \/ m = n
  <2>1. ASSUME NEW m, In(m, q)
        PROVE  In(m, o) \/ m = n
    <3>1. PICK j \in 1 .. l + 1 : q[j] = m
      BY <1>1, <1>2, <2>1 DEF In
    <3>2. (j < i => j \in 1 .. l) /\ (j > i => j - 1 \in 1 .. l)
      BY <1>2
    <3>3. QED
      BY <1>1, <1>2, <3>1, <3>2 DEF In
  <2>2. ASSUME NEW m, In(m, o)
        PROVE  In(m, q)
    <3>1. PICK j \in 1 .. l : o[j] = m
      BY <1>2, <2>2 DEF In
    <3>2. j \in 1 .. l + 1 /\ j + 1 \in 1 .. l + 1
      BY <1>2
    <3>3. q[IF j < i THEN j ELSE j + 1] = m
      BY <1>1, <1>2, <3>1, <3>2
    <3>4. QED
      BY <1>1, <1>2, <3>2, <3>3 DEF In
  <2>3. i \in 1 .. Len(q) /\ q[i] = n
    BY <1>1, <1>2
  <2>4. QED
    BY <2>1, <2>2, <2>3 DEF In
<1>4. ASSUME Distinct(o), ~In(n, o)
      PROVE  Distinct(q)
  <2>1. \A j \in 1 .. l : o[j] # n
    BY <1>2, <1>4 DEF In
  <2>2. ASSUME NEW j \in 1 .. l + 1, NEW k \in 1 .. l + 1, q[j] = q[k], j < k
        PROVE  FALSE
    <3>1. /\ j < i => j \in 1 .. l
          /\ j > i => j - 1 \in 1 .. l
          /\ k < i => k \in 1 .. l
          /\ k > i => k - 1 \in 1 .. l
      BY <1>2
    <3>2. CASE k < i
      BY <1>1, <1>2, <1>4, <2>2, <3>1, <3>2 DEF Distinct
    <3>3. CASE k = i
      BY <1>1, <1>2, <2>1, <2>2, <3>1, <3>3
    <3>4. CASE k > i
      <4>1. q[k] = o[k - 1] /\ k - 1 \in 1 .. l
        BY <1>1, <1>2, <3>1, <3>4
      <4>2. CASE j < i
        BY <1>1, <1>2, <1>4, <2>2, <3>1, <3>4, <4>1, <4>2 DEF Distinct
      <4>3. CASE j = i
        BY <1>1, <1>2, <2>1, <2>2, <4>1, <4>3
      <4>4. CASE j > i
        <5>1. o[j - 1] = o[k - 1] /\ j - 1 \in 1 .. l
          BY <1>1, <1>2, <2>2, <3>1, <4>1, <4>4
        <5>2. QED
          BY <1>2, <1>4, <2>2, <4>1, <5>1 DEF Distinct
      <4>5. QED
        BY <4>2, <4>3, <4>4
    <3>5. QED
      BY <1>2, <3>2, <3>3, <3>4
  <2>3. QED
    BY <1>1, <1>2, <2>2 DEF Distinct
<1>5. QED
  BY <1>1, <1>3, <1>4

\* Of these, what does not say where the elements are.
LEMMA InsertedAmong ==
  ASSUME NEW o \in Seq(Node), NEW i \in 1 .. Len(o) + 1, NEW n \in Node, NEW q, q = InsertAt(o, i, n)
  PROVE  /\ q \in Seq(Node) /\ Len(q) = Len(o) + 1
         /\ \A m : In(m, q) <=> In(m, o) \/ m = n
         /\ Distinct(o) /\ ~In(n, o) => Distinct(q)
BY InsertedNode

\* q is o with n at i.
PutAt(q, o, i, n) ==
  /\ q \in Seq(Node) /\ Len(q) = Len(o) + 1
  /\ \A j \in 1 .. Len(o) + 1 : q[j] = IF j < i THEN o[j] ELSE IF j = i THEN n ELSE o[j - 1]

\* A node put in.
LEMMA PutNode ==
  ASSUME NEW o \in Seq(Node), NEW i \in 1 .. Len(o) + 1, NEW n \in Node, NEW q, q = InsertAt(o, i, n)
  PROVE  PutAt(q, o, i, n)
<1>1. /\ q \in Seq(Node) /\ Len(q) = Len(o) + 1
      /\ \A j \in 1 .. Len(o) + 1 : q[j] = IF j < i THEN o[j] ELSE IF j = i THEN n ELSE o[j - 1]
  <2>1. IsPut(Node, q, o, i, n)
    BY InsertAtPuts
  <2>2. QED
    BY <2>1, Zenon DEF IsPut
<1>2. QED
  BY <1>1, Zenon DEF PutAt

\* A node taken out.
LEMMA RemovedNode ==
  ASSUME NEW o \in Seq(Node), Distinct(o), NEW i \in 1 .. Len(o), NEW q, q = RemoveAt(o, i)
  PROVE  /\ q \in Seq(Node) /\ Len(q) = Len(o) - 1
         /\ \A m : In(m, q) <=> In(m, o) /\ m # o[i]
         /\ Distinct(q)
         /\ \A j \in 1 .. Len(o) - 1 : q[j] = IF j < i THEN o[j] ELSE o[j + 1]
<1>1. /\ q \in Seq(Node) /\ Len(q) = Len(o) - 1
      /\ \A j \in 1 .. Len(o) - 1 : q[j] = IF j < i THEN o[j] ELSE o[j + 1]
  BY RemoveAtIs
<1>2. PICK l \in Nat : l = Len(o)
  OBVIOUS
<1>3. ASSUME NEW m, In(m, q)
      PROVE  In(m, o) /\ m # o[i]
  <2>1. PICK j \in 1 .. l - 1 : q[j] = m
    BY <1>1, <1>2, <1>3 DEF In
  <2>2. PICK k \in 1 .. l : k = (IF j < i THEN j ELSE j + 1) /\ k # i
    BY <1>2
  <2>3. o[k] = m
    BY <1>1, <1>2, <2>1, <2>2
  <2>4. QED
    BY <1>2, <2>2, <2>3 DEF In, Distinct
<1>4. ASSUME NEW m, In(m, o), m # o[i]
      PROVE  In(m, q)
  <2>1. PICK k \in 1 .. l : o[k] = m /\ k # i
    BY <1>2, <1>4 DEF In
  <2>2. PICK j \in 1 .. l - 1 : j = IF k < i THEN k ELSE k - 1
    BY <1>2, <2>1
  <2>3. q[j] = m
    BY <1>1, <1>2, <2>1, <2>2
  <2>4. QED
    BY <1>1, <1>2, <2>3 DEF In
<1>5. Distinct(q)
  <2>1. ASSUME NEW j \in 1 .. l - 1, NEW k \in 1 .. l - 1, q[j] = q[k]
        PROVE  j = k
    <3>1. PICK a \in 1 .. l : a = (IF j < i THEN j ELSE j + 1)
      BY <1>2
    <3>2. PICK b \in 1 .. l : b = (IF k < i THEN k ELSE k + 1)
      BY <1>2
    <3>3. q[j] = o[a] /\ q[k] = o[b]
      BY <1>1, <1>2, <3>1, <3>2
    <3>4. a = b
      BY <1>2, <2>1, <3>3 DEF Distinct
    <3>5. QED
      BY <3>1, <3>2, <3>4
  <2>2. QED
    BY <1>1, <1>2, <2>1 DEF Distinct
<1>6. QED
  BY <1>1, <1>3, <1>4, <1>5

Links == [Node -> Node \cup {Null}]

\* A ring is a ring where the nodes in it have the same neighbours.
LEMMA RingStays ==
  ASSUME NEW next, NEW prev, NEW o \in Seq(Node), Ring(next, prev, o), NEW f, NEW b,
         \A m \in Node : In(m, o) => f[m] = next[m] /\ b[m] = prev[m]
  PROVE  Ring(f, b, o)
<1>1. \A i \in 1 .. Len(o) : i \in 1 .. Len(o) /\ Succ(i, Len(o)) \in 1 .. Len(o)
  BY DEF Succ
<1>2. \A i \in 1 .. Len(o) : o[i] \in Node /\ In(o[i], o)
  BY DEF In
<1>3. QED
  BY <1>1, <1>2 DEF Ring

\* The same of a row.
LEMMA RowStays ==
  ASSUME NEW next, NEW s \in Seq(Node), Row(next, s), NEW f,
         \A m \in Node : In(m, s) => f[m] = next[m]
  PROVE  Row(f, s)
<1>1. \A i \in 1 .. Len(s) : s[i] \in Node /\ In(s[i], s)
  BY DEF In
<1>2. QED
  BY <1>1 DEF Row

\* A spare node more.
LEMMA RowPush ==
  ASSUME NEW next \in Links, NEW s \in Seq(Node), Row(next, s), NEW n \in Node, ~In(n, s),
         NEW f, f = [next EXCEPT ![n] = First(s)], NEW q, q = InsertAt(s, 1, n)
  PROVE  Row(f, q) /\ First(q) = n
<1>1. /\ q \in Seq(Node) /\ Len(q) = Len(s) + 1
      /\ \A j \in 1 .. Len(s) + 1 : q[j] = IF j < 1 THEN s[j] ELSE IF j = 1 THEN n ELSE s[j - 1]
  <2>1. 1 \in 1 .. Len(s) + 1
    OBVIOUS
  <2>2. QED
    BY <2>1, InsertAtIs
<1>2. PICK l \in Nat : l = Len(s)
  OBVIOUS
<1>3. \A j \in 1 .. l : s[j] \in Node /\ s[j] # n /\ f[s[j]] = next[s[j]]
  BY <1>2 DEF In, Links
<1>4. f[n] = First(s)
  BY DEF Links
<1>5. ASSUME NEW j \in 1 .. l + 1
      PROVE  f[q[j]] = IF j = l + 1 THEN Null ELSE q[j + 1]
  <2>1. CASE j = 1
    <3>1. q[j] = n /\ (l # 0 => q[j + 1] = s[1])
      BY <1>1, <1>2, <2>1
    <3>2. QED
      BY <1>2, <1>4, <2>1, <3>1 DEF First
  <2>2. CASE j # 1
    <3>1. PICK k \in 1 .. l : k = j - 1
      BY <1>2, <2>2
    <3>2. q[j] = s[k] /\ (j # l + 1 => q[j + 1] = s[k + 1])
      BY <1>1, <1>2, <2>2, <3>1
    <3>3. next[s[k]] = IF k = l THEN Null ELSE s[k + 1]
      BY <1>2 DEF Row
    <3>4. QED
      BY <1>2, <1>3, <3>1, <3>2, <3>3
  <2>3. QED
    BY <2>1, <2>2
<1>6. Row(f, q)
  BY <1>1, <1>2, <1>5 DEF Row
<1>7. q[1] = n /\ Len(q) # 0
  BY <1>1, <1>2
<1>8. QED
  BY <1>6, <1>7 DEF First

\* The first spare node is taken.
LEMMA RowPop ==
  ASSUME NEW next \in Links, NEW s \in Seq(Node), Row(next, s), Distinct(s), Len(s) > 0,
         NEW x \in Node \cup {Null}, NEW f, f = [next EXCEPT ![s[1]] = x], NEW q, q = RemoveAt(s, 1)
  PROVE  Row(f, q) /\ First(q) = next[s[1]]
<1>1. PICK l \in Nat : l = Len(s) /\ l > 0
  OBVIOUS
<1>2. /\ q \in Seq(Node) /\ Len(q) = l - 1
      /\ \A j \in 1 .. l - 1 : q[j] = s[j + 1]
  <2>1. s \in Seq(Node) /\ 1 \in 1 .. Len(s) /\ q = RemoveAt(s, 1)
    BY <1>1
  <2>2. /\ q \in Seq(Node) /\ Len(q) = Len(s) - 1
        /\ \A j \in 1 .. Len(s) - 1 : q[j] = IF j < 1 THEN s[j] ELSE s[j + 1]
    BY ONLY <2>1, RemoveAtIs
  <2>3. QED
    BY <1>1, <2>2
<1>3. \A j \in 2 .. l : s[j] \in Node /\ s[j] # s[1] /\ f[s[j]] = next[s[j]]
  BY <1>1 DEF Distinct, Links
<1>4. ASSUME NEW j \in 1 .. l - 1
      PROVE  f[q[j]] = IF j = l - 1 THEN Null ELSE q[j + 1]
  <2>1. PICK k \in 2 .. l : k = j + 1
    BY <1>1
  <2>2. q[j] = s[k] /\ (j # l - 1 => q[j + 1] = s[k + 1])
    BY <1>1, <1>2, <2>1
  <2>3. next[s[k]] = IF k = l THEN Null ELSE s[k + 1]
    BY <1>1 DEF Row
  <2>4. QED
    BY <1>1, <1>3, <2>1, <2>2, <2>3
<1>5. Row(f, q)
  BY <1>1, <1>2, <1>4 DEF Row
<1>6. next[s[1]] = IF l = 1 THEN Null ELSE s[2]
  BY <1>1 DEF Row
<1>7. l # 1 => q[1] = s[2]
  BY <1>1, <1>2
<1>8. QED
  BY <1>1, <1>2, <1>5, <1>6, <1>7 DEF First

\* The position before i.
Pred(i, n) == IF i = 1 THEN n ELSE i - 1

\* One position on and one back.
LEMMA SuccPred ==
  ASSUME NEW n \in Nat \ {0}, NEW i \in 1 .. n
  PROVE  /\ Succ(i, n) \in 1 .. n /\ Pred(i, n) \in 1 .. n
         /\ Succ(Pred(i, n), n) = i /\ Pred(Succ(i, n), n) = i
BY DEF Succ, Pred

\* f and b are next and prev, but for n between p and x.
Between(f, b, next, prev, n, p, x) ==
  /\ \A m \in Node : f[m] = IF m = p THEN n ELSE IF m = n THEN x ELSE next[m]
  /\ \A m \in Node : b[m] = IF m = x THEN n ELSE IF m = n THEN p ELSE prev[m]

\* A ring with one node more.
LEMMA RingInsert ==
  ASSUME NEW next \in Links, NEW prev \in Links, NEW o \in Seq(Node), Ring(next, prev, o), Distinct(o), Len(o) > 0,
         NEW n \in Node, ~In(n, o), NEW i \in 1 .. Len(o) + 1,
         NEW p, p = o[Pred(IF i = Len(o) + 1 THEN 1 ELSE i, Len(o))],
         NEW x, x = o[IF i = Len(o) + 1 THEN 1 ELSE i],
         NEW f, NEW b, Between(f, b, next, prev, n, p, x), NEW q, PutAt(q, o, i, n)
  PROVE  Ring(f, b, q)
<1>0. /\ \A m \in Node : f[m] = IF m = p THEN n ELSE IF m = n THEN x ELSE next[m]
      /\ \A m \in Node : b[m] = IF m = x THEN n ELSE IF m = n THEN p ELSE prev[m]
  BY Zenon DEF Between
<1>1. PICK l \in Nat \ {0} : l = Len(o)
  OBVIOUS
<1>2. /\ q \in Seq(Node) /\ Len(q) = l + 1
      /\ \A j \in 1 .. l + 1 : q[j] = IF j < i THEN o[j] ELSE IF j = i THEN n ELSE o[j - 1]
  BY <1>1 DEF PutAt
<1>3a. PICK c \in 1 .. l : c = IF i = l + 1 THEN 1 ELSE i
  BY <1>1
<1>3b. PICK a \in 1 .. l : a = IF c = 1 THEN l ELSE c - 1
  BY <1>1
<1>3. /\ c = IF i = l + 1 THEN 1 ELSE i
      /\ a = IF c = 1 THEN l ELSE c - 1
  BY <1>3a, <1>3b
<1>4. p = o[a] /\ x = o[c]
  BY <1>1, <1>3 DEF Pred
<1>5. \A j \in 1 .. l : o[j] \in Node /\ o[j] # n
  BY <1>1 DEF In
<1>6. \A j \in 1 .. l : (o[j] = p => j = a) /\ (o[j] = x => j = c)
  BY <1>1, <1>3, <1>4 DEF Distinct
\* The links that are not between p and x.
<1>7. ASSUME NEW j \in 1 .. l, j # a
      PROVE  f[o[j]] = o[Succ(j, l)] /\ b[o[Succ(j, l)]] = o[j] /\ Succ(j, l) \in 1 .. l
  <2>1. PICK k \in 1 .. l : k = Succ(j, l)
    BY <1>1, SuccPred
  <2>2. k # c
    BY <1>1, <1>3, <1>7, <2>1 DEF Succ
  <2>3. o[j] # p /\ o[k] # x
    BY <1>6, <1>7, <2>2
  <2>4. next[o[j]] = o[k] /\ prev[o[k]] = o[j]
    BY <1>1, <2>1 DEF Ring
  <2>5. f[o[j]] = next[o[j]] /\ b[o[k]] = prev[o[k]]
    BY <1>0, <1>5, <2>1, <2>3
  <2>6. QED
    BY <2>1, <2>4, <2>5
<1>8. f[p] = n /\ b[x] = n /\ f[n] = x /\ b[n] = p
  BY <1>0, <1>3, <1>4, <1>5
<1>9. ASSUME NEW j \in 1 .. l + 1
      PROVE  f[q[j]] = q[Succ(j, l + 1)] /\ b[q[Succ(j, l + 1)]] = q[j]
  <2>1. PICK k \in 1 .. l + 1 : k = Succ(j, l + 1)
    BY <1>1 DEF Succ
  <2>2. CASE j = i
    <3>1. q[j] = n /\ q[k] = x
      BY <1>1, <1>2, <1>3, <1>4, <2>1, <2>2 DEF Succ
    <3>2. QED
      BY <1>8, <2>1, <3>1
  <2>3. CASE k = i
    <3>1. q[j] = p /\ q[k] = n
      BY <1>1, <1>2, <1>3, <1>4, <2>1, <2>3 DEF Succ
    <3>2. QED
      BY <1>8, <2>1, <3>1
  <2>4. CASE j # i /\ k # i
    <3>1. PICK g \in 1 .. l : g = IF j < i THEN j ELSE j - 1
      BY <1>1, <2>4
    <3>2. g # a
      BY <1>1, <1>3, <2>1, <2>4, <3>1 DEF Succ
    <3>3. q[j] = o[g]
      BY <1>1, <1>2, <2>4, <3>1
    <3>4. q[k] = o[Succ(g, l)]
      <4>1. CASE j = l + 1
        <5>1. k = 1 /\ g = l /\ i > 1
          BY <1>1, <2>1, <2>4, <3>1, <4>1 DEF Succ
        <5>2. QED
          BY <1>1, <1>2, <5>1 DEF Succ
      <4>2. CASE j # l + 1
        <5>1. k = j + 1
          BY <2>1, <4>2 DEF Succ
        <5>2. CASE j < i
          <6>1. k < i /\ g = j /\ g # l
            BY <1>1, <2>4, <3>1, <5>1, <5>2
          <6>2. QED
            BY <1>1, <1>2, <5>1, <6>1 DEF Succ
        <5>3. CASE j > i
          <6>1. k > i /\ g = j - 1 /\ g # l /\ k - 1 = g + 1
            BY <1>1, <3>1, <4>2, <5>1, <5>3
          <6>2. QED
            BY <1>1, <1>2, <6>1 DEF Succ
        <5>4. QED
          BY <1>1, <2>4, <5>2, <5>3
      <4>3. QED
        BY <4>1, <4>2
    <3>5. QED
      BY <1>7, <2>1, <3>2, <3>3, <3>4
  <2>5. QED
    BY <2>2, <2>3, <2>4
<1>10. QED
  BY <1>2, <1>9 DEF Ring

\* A ring of one.
LEMMA RingOfOne ==
  ASSUME NEW n \in Node, NEW f, f[n] = n, NEW b, b[n] = n, NEW q, Len(q) = 1, q[1] = n
  PROVE  Ring(f, b, q)
BY DEF Ring, Succ

\* f and b are next and prev, but for n, and p and x on both sides of it.
Past(f, b, next, prev, n, p, x) ==
  /\ \A m \in Node : m # n => f[m] = IF m = p THEN x ELSE next[m]
  /\ \A m \in Node : m # n => b[m] = IF m = x THEN p ELSE prev[m]

\* A ring with one node less.
LEMMA RingRemove ==
  ASSUME NEW next \in Links, NEW prev \in Links, NEW o \in Seq(Node), Ring(next, prev, o), Distinct(o), Len(o) > 1,
         NEW i \in 1 .. Len(o),
         NEW p, p = o[Pred(i, Len(o))], NEW x, x = o[Succ(i, Len(o))],
         NEW f, NEW b, NEW n, n = o[i], Past(f, b, next, prev, n, p, x), NEW q, q = RemoveAt(o, i)
  PROVE  Ring(f, b, q)
<1>0. /\ \A m \in Node : m # o[i] => f[m] = IF m = p THEN x ELSE next[m]
      /\ \A m \in Node : m # o[i] => b[m] = IF m = x THEN p ELSE prev[m]
  BY Zenon DEF Past
<1>1. PICK l \in Nat \ {0} : l = Len(o) /\ l > 1
  OBVIOUS
<1>2. /\ q \in Seq(Node) /\ Len(q) = l - 1
      /\ \A j \in 1 .. l - 1 : q[j] = IF j < i THEN o[j] ELSE o[j + 1]
  <2>1. o \in Seq(Node) /\ i \in 1 .. Len(o) /\ q = RemoveAt(o, i)
    OBVIOUS
  <2>2. /\ q \in Seq(Node) /\ Len(q) = Len(o) - 1
        /\ \A j \in 1 .. Len(o) - 1 : q[j] = IF j < i THEN o[j] ELSE o[j + 1]
    BY <2>1, RemovedNode
  <2>3. QED
    BY <1>1, <2>2
<1>3. PICK a \in 1 .. l, c \in 1 .. l : /\ a = IF i = 1 THEN l ELSE i - 1
                                        /\ c = IF i = l THEN 1 ELSE i + 1
  BY <1>1
<1>4. p = o[a] /\ x = o[c] /\ a # i /\ c # i
  BY <1>1, <1>3 DEF Pred, Succ
<1>5. \A j \in 1 .. l : o[j] \in Node
  BY <1>1
<1>6. \A j, k \in 1 .. l : o[j] = o[k] => j = k
  BY <1>1 DEF Distinct
<1>7. ASSUME NEW j \in 1 .. l - 1
      PROVE  f[q[j]] = q[Succ(j, l - 1)] /\ b[q[Succ(j, l - 1)]] = q[j]
  <2>1. PICK k \in 1 .. l - 1 : k = Succ(j, l - 1)
    BY <1>1, <1>7 DEF Succ
  <2>2. PICK g \in 1 .. l : g = (IF j < i THEN j ELSE j + 1) /\ g # i
    BY <1>1
  <2>3. PICK h \in 1 .. l : h = (IF k < i THEN k ELSE k + 1) /\ h # i
    BY <1>1
  <2>4. q[j] = o[g] /\ q[k] = o[h]
    BY <1>2, <2>2, <2>3
  <2>5. CASE g = a
    <3>1. h = c
      BY <1>1, <1>3, <2>1, <2>2, <2>3, <2>5 DEF Succ
    <3>2. p # o[i] /\ x # o[i] /\ p \in Node /\ x \in Node
      BY <1>1, <1>4, <1>5, <1>6
    <3>3. f[p] = x /\ b[x] = p
      BY <1>0, <3>2
    <3>4. QED
      BY <1>4, <2>1, <2>4, <2>5, <3>1, <3>3
  <2>6. CASE g # a
    <3>1. h = Succ(g, l) /\ h # c
      BY <1>1, <1>3, <2>1, <2>2, <2>3, <2>6 DEF Succ
    <3>2. next[o[g]] = o[h] /\ prev[o[h]] = o[g]
      BY <1>1, <3>1 DEF Ring
    <3>3. o[g] # p /\ o[h] # x /\ o[g] # o[i] /\ o[h] # o[i]
      BY <1>1, <1>4, <1>6, <2>2, <2>3, <2>6, <3>1
    <3>4. f[o[g]] = next[o[g]] /\ b[o[h]] = prev[o[h]]
      BY <1>0, <1>5, <3>3
    <3>5. QED
      BY <2>1, <2>4, <3>2, <3>4
  <2>7. QED
    BY <2>5, <2>6
<1>8. QED
  BY <1>2, <1>7 DEF Ring

\* The nodes of o have the links the other way round.
Turned(f, b, next, prev, o) == \A m \in Node : In(m, o) => f[m] = prev[m] /\ b[m] = next[m]

\* A ring in the other direction.
LEMMA RingReverse ==
  ASSUME NEW next, NEW prev, NEW o \in Seq(Node), Ring(next, prev, o),
         NEW f, NEW b, Turned(f, b, next, prev, o), NEW q, IsBackwards(Node, q, o)
  PROVE  Ring(f, b, q)
<1>0. /\ q \in Seq(Node) /\ Len(q) = Len(o) /\ \A i \in 1 .. Len(o) : q[i] = o[Len(o) - i + 1]
      /\ \A m \in Node : In(m, o) => f[m] = prev[m] /\ b[m] = next[m]
  BY DEF IsBackwards, Turned
<1>1. PICK l \in Nat : l = Len(o)
  OBVIOUS
<1>2. ASSUME NEW j \in 1 .. l
      PROVE  f[q[j]] = q[Succ(j, l)] /\ b[q[Succ(j, l)]] = q[j]
  <2>1. PICK k \in 1 .. l : k = Succ(j, l)
    BY <1>1 DEF Succ
  <2>2a. PICK g \in 1 .. l : g = l - j + 1
    <3>1. l - j + 1 \in 1 .. l
      OBVIOUS
    <3>2. QED
      BY <3>1
  <2>2b. PICK h \in 1 .. l : h = l - k + 1
    <3>1. l - k + 1 \in 1 .. l
      OBVIOUS
    <3>2. QED
      BY <3>1
  <2>2. q[j] = o[g] /\ q[k] = o[h]
    BY <1>0, <1>1, <2>2a, <2>2b
  <2>3a. g = Succ(h, l)
    <3>1. CASE j = l
      BY <1>1, <2>1, <2>2a, <2>2b, <3>1 DEF Succ
    <3>2. CASE j # l
      BY <1>1, <2>1, <2>2a, <2>2b, <3>2 DEF Succ
    <3>3. QED
      BY <3>1, <3>2
  <2>3. q[j] = o[g] /\ q[k] = o[h] /\ g = Succ(h, l)
    BY <2>2, <2>3a
  <2>4. next[o[h]] = o[g] /\ prev[o[g]] = o[h]
    BY <1>1, <2>3 DEF Ring
  <2>5. /\ o[g] \in Node /\ o[h] \in Node /\ In(o[g], o) /\ In(o[h], o)
    BY <1>1 DEF In
  <2>6. QED
    BY <1>0, <2>1, <2>3, <2>4, <2>5
<1>3. QED
  BY <1>0, <1>1, <1>2 DEF Ring

ListSet == [head : Node \cup {Null}, count : Nat, free_list : Node \cup {Null}, nfreelist : Nat,
            made : SUBSET Node, prev : Links, next : Links, val : [Node -> Val \cup {NoVal}]]

\* The record l, field by field.
IsList(l, head, count, free, nfree, made, prev, next, val) ==
  /\ l.head = head /\ l.count = count /\ l.free_list = free /\ l.nfreelist = nfree
  /\ l.made = made /\ l.prev = prev /\ l.next = next /\ l.val = val

\* The fields of a list.
LEMMA ListFields ==
  ASSUME NEW l \in ListSet
  PROVE  /\ l.head \in Node \cup {Null} /\ l.count \in Nat /\ l.free_list \in Node \cup {Null}
         /\ l.nfreelist \in Nat /\ l.made \subseteq Node /\ l.prev \in Links /\ l.next \in Links
         /\ l.val \in [Node -> Val \cup {NoVal}]
BY DEF ListSet

\* One field written.
LEMMA WithHead ==
  ASSUME NEW l \in ListSet, NEW x \in Node \cup {Null}, NEW r, r = [l EXCEPT !.head = x]
  PROVE  r \in ListSet /\ IsList(r, x, l.count, l.free_list, l.nfreelist, l.made, l.prev, l.next, l.val)
BY DEF ListSet, IsList

\* Its count.
LEMMA WithCount ==
  ASSUME NEW l \in ListSet, NEW x \in Nat, NEW r, r = [l EXCEPT !.count = x]
  PROVE  r \in ListSet /\ IsList(r, l.head, x, l.free_list, l.nfreelist, l.made, l.prev, l.next, l.val)
BY DEF ListSet, IsList

\* The first spare node.
LEMMA WithFreeList ==
  ASSUME NEW l \in ListSet, NEW x \in Node \cup {Null}, NEW r, r = [l EXCEPT !.free_list = x]
  PROVE  r \in ListSet /\ IsList(r, l.head, l.count, x, l.nfreelist, l.made, l.prev, l.next, l.val)
BY DEF ListSet, IsList

\* The number of spare nodes.
LEMMA WithNFreeList ==
  ASSUME NEW l \in ListSet, NEW x \in Nat, NEW r, r = [l EXCEPT !.nfreelist = x]
  PROVE  r \in ListSet /\ IsList(r, l.head, l.count, l.free_list, x, l.made, l.prev, l.next, l.val)
BY DEF ListSet, IsList

\* The nodes that are allocated.
LEMMA WithMade ==
  ASSUME NEW l \in ListSet, NEW x \in SUBSET Node, NEW r, r = [l EXCEPT !.made = x]
  PROVE  r \in ListSet /\ IsList(r, l.head, l.count, l.free_list, l.nfreelist, x, l.prev, l.next, l.val)
BY DEF ListSet, IsList

\* The links backwards.
LEMMA WithPrev ==
  ASSUME NEW l \in ListSet, NEW x \in Links, NEW r, r = [l EXCEPT !.prev = x]
  PROVE  r \in ListSet /\ IsList(r, l.head, l.count, l.free_list, l.nfreelist, l.made, x, l.next, l.val)
BY DEF ListSet, IsList

\* The links forwards.
LEMMA WithNext ==
  ASSUME NEW l \in ListSet, NEW x \in Links, NEW r, r = [l EXCEPT !.next = x]
  PROVE  r \in ListSet /\ IsList(r, l.head, l.count, l.free_list, l.nfreelist, l.made, l.prev, x, l.val)
BY DEF ListSet, IsList

\* The values.
LEMMA WithVal ==
  ASSUME NEW l \in ListSet, NEW x \in [Node -> Val \cup {NoVal}], NEW r, r = [l EXCEPT !.val = x]
  PROVE  r \in ListSet /\ IsList(r, l.head, l.count, l.free_list, l.nfreelist, l.made, l.prev, l.next, x)
BY DEF ListSet, IsList

\* The whole record at once.
LEMMA ListOf ==
  ASSUME NEW l \in ListSet, NEW head \in Node \cup {Null}, NEW count \in Nat, NEW free \in Node \cup {Null},
         NEW nfree \in Nat, NEW made \in SUBSET Node, NEW prev \in Links, NEW next \in Links,
         NEW val \in [Node -> Val \cup {NoVal}],
         NEW r, r = [l EXCEPT !.head = head, !.count = count, !.free_list = free, !.nfreelist = nfree,
                              !.made = made, !.prev = prev, !.next = next, !.val = val]
  PROVE  r \in ListSet /\ IsList(r, head, count, free, nfree, made, prev, next, val)
BY DEF ListSet, IsList

\* A link more.
LEMMA LinkTo ==
  ASSUME NEW f \in Links, NEW n \in Node, NEW x \in Node \cup {Null}, NEW g, g = [f EXCEPT ![n] = x]
  PROVE  g \in Links /\ \A m \in Node : g[m] = IF m = n THEN x ELSE f[m]
BY DEF Links

\* What PutFree writes.
LEMMA PutFreeIs ==
  ASSUME NEW l \in ListSet, NEW n \in Node, NEW r, r = PutFree(l, n)
  PROVE  /\ r \in ListSet
         /\ IsList(r, l.head, l.count, n, l.nfreelist + 1, l.made, [l.prev EXCEPT ![n] = Null],
                   [l.next EXCEPT ![n] = l.free_list], [l.val EXCEPT ![n] = NoVal])
<1>1. PICK f : f = [l.next EXCEPT ![n] = l.free_list]
  OBVIOUS
<1>2. PICK b : b = [l.prev EXCEPT ![n] = Null]
  OBVIOUS
<1>3. PICK v : v = [l.val EXCEPT ![n] = NoVal]
  OBVIOUS
<1>4. f \in Links /\ b \in Links /\ v \in [Node -> Val \cup {NoVal}]
  <2>1. l.free_list \in Node \cup {Null} /\ l.prev \in Links /\ l.next \in Links
        /\ l.val \in [Node -> Val \cup {NoVal}]
    BY ListFields
  <2>2. QED
    BY <1>1, <1>2, <1>3, <2>1 DEF Links
<1>5. r = [l EXCEPT !.next = f, !.prev = b, !.val = v, !.free_list = n, !.nfreelist = l.nfreelist + 1]
  <2>1. r = [l EXCEPT !.next[n] = l.free_list, !.prev[n] = Null, !.val[n] = NoVal,
                      !.free_list = n, !.nfreelist = @ + 1]
    BY Zenon DEF PutFree
  <2>2. QED
    BY <1>1, <1>2, <1>3, <2>1 DEF ListSet
<1>6. r = [head |-> l.head, count |-> l.count, free_list |-> n, nfreelist |-> l.nfreelist + 1,
           made |-> l.made, prev |-> b, next |-> f, val |-> v]
  BY <1>5 DEF ListSet
<1>7. r \in ListSet
  <2>1. l.nfreelist + 1 \in Nat
    BY ListFields
  <2>2. QED
    BY <1>4, <1>6, <2>1, ListFields DEF ListSet
<1>8. IsList(r, l.head, l.count, n, l.nfreelist + 1, l.made, b, f, v)
  BY <1>6 DEF IsList
<1>9. QED
  BY <1>1, <1>2, <1>3, <1>7, <1>8

\* A list given by its fields.
LEMMA RecordIs ==
  ASSUME NEW head \in Node \cup {Null}, NEW count \in Nat, NEW free \in Node \cup {Null},
         NEW nfree \in Nat, NEW made \in SUBSET Node, NEW prev \in Links, NEW next \in Links,
         NEW val \in [Node -> Val \cup {NoVal}],
         NEW r, r = [head |-> head, count |-> count, free_list |-> free, nfreelist |-> nfree,
                     made |-> made, prev |-> prev, next |-> next, val |-> val]
  PROVE  r \in ListSet /\ IsList(r, head, count, free, nfree, made, prev, next, val)
BY DEF ListSet, IsList

\* cra_llist_get_free_node takes a spare node.
LEMMA TakenSpare ==
  ASSUME NEW l \in ListSet, l.free_list \in Node, l.free_list # Null, l.nfreelist > 0, NEW r, r = WithoutFree(l)
  PROVE  /\ r \in ListSet
         /\ IsList(r, l.head, l.count, l.next[l.free_list], l.nfreelist - 1, l.made, l.prev,
                   [l.next EXCEPT ![l.free_list] = Null], l.val)
<1>1. PICK f : f = [l.next EXCEPT ![l.free_list] = Null]
  OBVIOUS
<1>2. f \in Links /\ l.next[l.free_list] \in Node \cup {Null}
  <2>1. l.next \in Links
    BY ListFields
  <2>2. QED
    BY <1>1, <2>1 DEF Links
<1>3. r = [l EXCEPT !.free_list = l.next[l.free_list], !.nfreelist = @ - 1, !.next[l.free_list] = Null]
  BY Zenon DEF WithoutFree
<1>4. r = [head |-> l.head, count |-> l.count, free_list |-> l.next[l.free_list], nfreelist |-> l.nfreelist - 1,
           made |-> l.made, prev |-> l.prev, next |-> f, val |-> l.val]
  BY <1>1, <1>3 DEF ListSet
<1>5. l.nfreelist - 1 \in Nat
  BY ListFields
<1>6. QED
  BY <1>1, <1>2, <1>4, <1>5, ListFields, RecordIs

\* Or it allocates one.
LEMMA TakenNew ==
  ASSUME NEW l \in ListSet, l.free_list = Null, Unmade(l) \in Node, NEW r, r = WithoutFree(l)
  PROVE  /\ r \in ListSet
         /\ IsList(r, l.head, l.count, l.free_list, l.nfreelist, l.made \cup {Unmade(l)}, l.prev, l.next, l.val)
<1>1. r = [l EXCEPT !.made = @ \cup {Unmade(l)}]
  BY Zenon DEF WithoutFree
<1>2. PICK u : u = l.made \cup {Unmade(l)}
  OBVIOUS
<1>3. u \in SUBSET Node /\ r = [l EXCEPT !.made = u]
  BY <1>1, <1>2, ListFields
<1>4. QED
  BY <1>2, <1>3, WithMade

\* n stands between p and what was behind p.
LEMMA LinkedIs ==
  ASSUME NEW l \in ListSet, NEW n \in Node, NEW p \in Node, n # p, l.next[p] \in Node, l.next[p] # n,
         NEW r, r = Linked(l, n, p)
  PROVE  /\ r \in ListSet
         /\ IsList(r, l.head, l.count, l.free_list, l.nfreelist, l.made, r.prev, r.next, l.val)
         /\ \A m \in Node : r.next[m] = IF m = p THEN n ELSE IF m = n THEN l.next[p] ELSE l.next[m]
         /\ \A m \in Node : r.prev[m] = IF m = l.next[p] THEN n ELSE IF m = n THEN p ELSE l.prev[m]
<1>1. l.prev \in Links /\ l.next \in Links
  BY ListFields
<1>2. PICK x \in Node : x = l.next[p]
  OBVIOUS
<1>3. PICK t : t = [l EXCEPT !.prev[n] = p, !.next[n] = l.next[p], !.prev[l.next[p]] = n]
  OBVIOUS
<1>4. r = [t EXCEPT !.next[p] = n]
  BY <1>3, Zenon DEF Linked
<1>5. PICK f, g : f = [l.next EXCEPT ![n] = x] /\ g = [f EXCEPT ![p] = n]
  OBVIOUS
<1>6. PICK b, c : b = [l.prev EXCEPT ![n] = p] /\ c = [b EXCEPT ![x] = n]
  OBVIOUS
<1>7. /\ f \in Links /\ \A m \in Node : f[m] = IF m = n THEN x ELSE l.next[m]
      /\ b \in Links /\ \A m \in Node : b[m] = IF m = n THEN p ELSE l.prev[m]
  BY <1>1, <1>5, <1>6 DEF Links
<1>8. /\ g \in Links /\ \A m \in Node : g[m] = IF m = p THEN n ELSE f[m]
      /\ c \in Links /\ \A m \in Node : c[m] = IF m = x THEN n ELSE b[m]
  BY <1>5, <1>6, <1>7 DEF Links
<1>9. t = [head |-> l.head, count |-> l.count, free_list |-> l.free_list, nfreelist |-> l.nfreelist,
           made |-> l.made, prev |-> c, next |-> f, val |-> l.val]
  BY <1>2, <1>3, <1>5, <1>6 DEF ListSet
<1>10. r = [head |-> l.head, count |-> l.count, free_list |-> l.free_list, nfreelist |-> l.nfreelist,
            made |-> l.made, prev |-> c, next |-> g, val |-> l.val]
  BY <1>4, <1>5, <1>9
<1>11. r \in ListSet /\ IsList(r, l.head, l.count, l.free_list, l.nfreelist, l.made, c, g, l.val)
  BY <1>8, <1>10, ListFields, RecordIs
<1>12. r.prev = c /\ r.next = g
  BY <1>11 DEF IsList
<1>13. QED
  BY <1>2, <1>7, <1>8, <1>11, <1>12

\* The neighbours of n are linked to one another.
LEMMA UnlinkedIs ==
  ASSUME NEW l \in ListSet, NEW n \in Node, NEW p \in Node, NEW x \in Node, p = l.prev[n], x = l.next[n],
         NEW r, r = Unlinked(l, n)
  PROVE  /\ r \in ListSet
         /\ IsList(r, l.head, l.count, l.free_list, l.nfreelist, l.made, r.prev, r.next, l.val)
         /\ \A m \in Node : m # n => r.next[m] = IF m = p THEN x ELSE l.next[m]
         /\ \A m \in Node : m # n => r.prev[m] = IF m = x THEN p ELSE l.prev[m]
<1>1. l.prev \in Links /\ l.next \in Links /\ Null \in Node \cup {Null}
  BY ListFields
<1>2. PICK t : t = [l EXCEPT !.next[l.prev[n]] = l.next[n]]
  OBVIOUS
<1>3. PICK u : u = [t EXCEPT !.prev[t.next[n]] = t.prev[n]]
  OBVIOUS
<1>4. r = [u EXCEPT !.prev[n] = Null, !.next[n] = Null]
  BY <1>2, <1>3, Zenon DEF Unlinked
<1>5. PICK f, g : f = [l.next EXCEPT ![p] = x] /\ g = [f EXCEPT ![n] = Null]
  OBVIOUS
<1>6. PICK b, c : b = [l.prev EXCEPT ![x] = p] /\ c = [b EXCEPT ![n] = Null]
  OBVIOUS
<1>7. /\ f \in Links /\ \A m \in Node : f[m] = IF m = p THEN x ELSE l.next[m]
      /\ b \in Links /\ \A m \in Node : b[m] = IF m = x THEN p ELSE l.prev[m]
  BY <1>1, <1>5, <1>6 DEF Links
<1>8. /\ g \in Links /\ \A m \in Node : m # n => g[m] = f[m]
      /\ c \in Links /\ \A m \in Node : m # n => c[m] = b[m]
  BY <1>1, <1>5, <1>6, <1>7 DEF Links
<1>9. t = [head |-> l.head, count |-> l.count, free_list |-> l.free_list, nfreelist |-> l.nfreelist,
           made |-> l.made, prev |-> l.prev, next |-> f, val |-> l.val]
  BY <1>2, <1>5 DEF ListSet
<1>10. t.next[n] = x /\ t.prev[n] = p
  BY <1>7, <1>9
<1>11. u = [head |-> l.head, count |-> l.count, free_list |-> l.free_list, nfreelist |-> l.nfreelist,
            made |-> l.made, prev |-> b, next |-> f, val |-> l.val]
  <2>1. u = [t EXCEPT !.prev[x] = p]
    BY <1>3, <1>10
  <2>2. QED
    BY <1>6, <1>9, <2>1
<1>12. r = [head |-> l.head, count |-> l.count, free_list |-> l.free_list, nfreelist |-> l.nfreelist,
            made |-> l.made, prev |-> c, next |-> g, val |-> l.val]
  BY <1>4, <1>5, <1>6, <1>11
<1>13. r \in ListSet /\ IsList(r, l.head, l.count, l.free_list, l.nfreelist, l.made, c, g, l.val)
  BY <1>8, <1>12, ListFields, RecordIs
<1>14. r.prev = c /\ r.next = g
  BY <1>13 DEF IsList
<1>15. QED
  BY <1>7, <1>8, <1>13, <1>14

\* What RemoveNode writes.
LEMMA RemoveNodeIs ==
  ASSUME NEW l \in ListSet, NEW n \in Node, NEW p \in Node, NEW x \in Node, p = l.prev[n], x = l.next[n],
         l.count > 0, NEW h, h = (IF l.count = 1 THEN Null ELSE IF l.head = n THEN x ELSE l.head),
         NEW v, v = [l.val EXCEPT ![n] = NoVal], NEW r, r = RemoveNode(l, n)
  PROVE  /\ r \in ListSet
         /\ IsList(r, h, l.count - 1, n, l.nfreelist + 1, l.made, r.prev, r.next, v)
         /\ Past(r.next, r.prev, l.next, l.prev, n, p, x)
         /\ r.next[n] = l.free_list
<1>1. PICK u : u = Unlinked(l, n)
  OBVIOUS
<1>2. /\ u \in ListSet
      /\ IsList(u, l.head, l.count, l.free_list, l.nfreelist, l.made, u.prev, u.next, l.val)
      /\ \A m \in Node : m # n => u.next[m] = IF m = p THEN x ELSE l.next[m]
      /\ \A m \in Node : m # n => u.prev[m] = IF m = x THEN p ELSE l.prev[m]
  BY <1>1, UnlinkedIs
<1>3. PICK w : w = PutFree(u, n)
  OBVIOUS
<1>4. /\ w \in ListSet
      /\ IsList(w, u.head, u.count, n, u.nfreelist + 1, u.made, [u.prev EXCEPT ![n] = Null],
                [u.next EXCEPT ![n] = u.free_list], [u.val EXCEPT ![n] = NoVal])
  BY <1>2, <1>3, PutFreeIs
<1>5. /\ u.head = l.head /\ u.count = l.count /\ u.free_list = l.free_list /\ u.nfreelist = l.nfreelist
      /\ u.made = l.made /\ u.val = l.val /\ u.next \in Links /\ u.prev \in Links
  BY <1>2, ListFields DEF IsList
<1>6. /\ w.head = l.head /\ w.count = l.count /\ w.free_list = n /\ w.nfreelist = l.nfreelist + 1
      /\ w.made = l.made /\ w.val = [l.val EXCEPT ![n] = NoVal] /\ w.next = [u.next EXCEPT ![n] = l.free_list]
      /\ w.prev = [u.prev EXCEPT ![n] = Null]
  BY <1>4, <1>5 DEF IsList
<1>7. h \in Node \cup {Null}
  BY ListFields
<1>8. l.count - 1 \in Nat
  BY ListFields
<1>9. r = [w EXCEPT !.count = @ - 1,
                    !.head = IF l.count = 1 THEN Null ELSE IF @ = n THEN l.next[n] ELSE @]
  BY <1>1, <1>3, Zenon DEF RemoveNode
<1>10. r = [head |-> h, count |-> l.count - 1, free_list |-> w.free_list, nfreelist |-> w.nfreelist,
            made |-> w.made, prev |-> w.prev, next |-> w.next, val |-> w.val]
  <2>1. w = [head |-> w.head, count |-> w.count, free_list |-> w.free_list, nfreelist |-> w.nfreelist,
             made |-> w.made, prev |-> w.prev, next |-> w.next, val |-> w.val]
    BY <1>4 DEF ListSet
  <2>2. r = [head |-> IF l.count = 1 THEN Null ELSE IF w.head = n THEN l.next[n] ELSE w.head,
             count |-> w.count - 1, free_list |-> w.free_list, nfreelist |-> w.nfreelist,
             made |-> w.made, prev |-> w.prev, next |-> w.next, val |-> w.val]
    BY ONLY <1>9, <2>1
  <2>3. QED
    BY <1>6, <1>7, <2>2
<1>11. r \in ListSet /\ IsList(r, h, l.count - 1, w.free_list, w.nfreelist, w.made, w.prev, w.next, w.val)
  BY <1>4, <1>7, <1>8, <1>10, ListFields, RecordIs
<1>12. /\ r.head = h /\ r.count = l.count - 1 /\ r.free_list = n /\ r.nfreelist = l.nfreelist + 1
       /\ r.made = l.made /\ r.val = [l.val EXCEPT ![n] = NoVal] /\ r.next = w.next /\ r.prev = w.prev
  BY <1>6, <1>11 DEF IsList
<1>13. r.next[n] = l.free_list /\ \A m \in Node : m # n => r.next[m] = u.next[m] /\ r.prev[m] = u.prev[m]
  BY <1>5, <1>6, <1>12 DEF Links
<1>14. Past(r.next, r.prev, l.next, l.prev, n, p, x)
  BY <1>2, <1>13 DEF Past
<1>15. QED
  BY <1>7, <1>11, <1>12, <1>13, <1>14 DEF IsList

\* The ring of l is o, its spare nodes are s, and those in x are in hand.
Lies(l, o, s, x) ==
  /\ l \in ListSet
  /\ o \in Seq(Node) /\ s \in Seq(Node) /\ Distinct(o) /\ Distinct(s) /\ Apart(o, s)
  /\ Ring(l.next, l.prev, o) /\ Row(l.next, s)
  /\ l.head = First(o) /\ l.count = Len(o) /\ l.free_list = First(s) /\ l.nfreelist = Len(s)
  /\ \A m \in x : ~In(m, o) /\ ~In(m, s)
  /\ l.made = {m \in Node : In(m, o) \/ In(m, s) \/ m \in x}

\* What is said of l by itself, and of its fields.
LEMMA LiesIs ==
  ASSUME NEW l, NEW o, NEW s, NEW x, Lies(l, o, s, x)
  PROVE  /\ l \in ListSet
         /\ o \in Seq(Node) /\ s \in Seq(Node) /\ Distinct(o) /\ Distinct(s) /\ Apart(o, s)
         /\ Ring(l.next, l.prev, o) /\ Row(l.next, s)
         /\ l.head = First(o) /\ l.count = Len(o) /\ l.free_list = First(s) /\ l.nfreelist = Len(s)
BY Zenon DEF Lies

\* The nodes that are allocated.
LEMMA LiesMade ==
  ASSUME NEW l, NEW o, NEW s, NEW x, Lies(l, o, s, x)
  PROVE  /\ \A m \in x : ~In(m, o) /\ ~In(m, s)
         /\ l.made = {m \in Node : In(m, o) \/ In(m, s) \/ m \in x}
BY Zenon DEF Lies

\* A sequence of no nodes is empty; one of some has a first.
LEMMA FirstIs ==
  ASSUME LListAssumption, NEW s \in Seq(Node)
  PROVE  /\ First(s) = Null <=> Len(s) = 0
         /\ Len(s) > 0 => First(s) = s[1] /\ s[1] \in Node
BY NodesAre DEF First

\* Members of a sequence of nodes are nodes.
LEMMA InNode ==
  ASSUME NEW s \in Seq(Node), NEW m, In(m, s)
  PROVE  m \in Node
BY DEF In

\* Two sequences that share no node.
LEMMA ApartIs ==
  ASSUME NEW o \in Seq(Node), NEW s \in Seq(Node)
  PROVE  Apart(o, s) <=> \A m : ~(In(m, o) /\ In(m, s))
BY DEF Apart, In

\* cra_llist_get_node finds the node at index.
LEMMA GetNodeIs ==
  ASSUME LListAssumption, NEW l, NEW o, NEW s, NEW x, Lies(l, o, s, x), NEW i \in 0 .. Len(o) - 1
  PROVE  GetNode(l, i) = o[i + 1]
<1>1. PICK k \in Nat \ {0} : k = Len(o)
  <2>1. o \in Seq(Node)
    BY LiesIs
  <2>2. QED
    BY <2>1
<1>2. /\ o \in Seq(Node) /\ Ring(l.next, l.prev, o) /\ l.head = o[1] /\ l.count = k
  BY <1>1, LiesIs, FirstIs
<1>3. CASE i <= l.count \div 2
  <2>1. GetNode(l, i) = Hop(l.next, o[1], i)
    BY <1>2, <1>3 DEF GetNode
  <2>2. i \in Nat /\ i < Len(o)
    BY <1>1
  <2>3. QED
    BY <1>2, <2>1, <2>2, Forwards
<1>4. CASE ~ i <= l.count \div 2
  <2>1. PICK j : j = k - 1 - i
    OBVIOUS
  <2>2. j \in Nat /\ j < Len(o) /\ Len(o) - j = i + 1
    BY <1>1, <2>1
  <2>3. GetNode(l, i) = Hop(l.prev, l.prev[o[1]], j)
    BY <1>2, <1>4, <2>1 DEF GetNode
  <2>4. QED
    BY <1>2, <2>2, <2>3, Backwards
<1>5. QED
  BY <1>3, <1>4

\* The nodes, read along next, are those of the ring.
LEMMA OrderIs ==
  ASSUME LListAssumption, NEW l, NEW o, NEW s, NEW x, Lies(l, o, s, x)
  PROVE  Order(l) = o
<1>1. o \in Seq(Node) /\ Ring(l.next, l.prev, o) /\ l.head = First(o) /\ l.count = Len(o)
  BY LiesIs
<1>2. ASSUME NEW i \in 1 .. Len(o)
      PROVE  Hop(l.next, l.head, i - 1) = o[i]
  <2>1. PICK k \in Nat : k = i - 1
    OBVIOUS
  <2>2. k < Len(o) /\ l.head = o[1] /\ k + 1 = i
    BY <1>1, <2>1, FirstIs
  <2>3. Hop(l.next, o[1], k) = o[k + 1]
    BY <1>1, <2>2, Forwards
  <2>4. QED
    BY <2>1, <2>2, <2>3
<1>3. Order(l) = [i \in 1 .. Len(o) |-> o[i]]
  BY <1>1, <1>2 DEF Order
<1>4. o = [i \in 1 .. Len(o) |-> o[i]]
  BY <1>1
<1>5. QED
  BY <1>3, <1>4

\* The values in the nodes of o.
ValuesOf(val, o) == [i \in 1 .. Len(o) |-> val[o[i]]]

\* The values in their order.
LEMMA ContentIs ==
  ASSUME LListAssumption, NEW l, NEW o, NEW s, NEW x, Lies(l, o, s, x)
  PROVE  Content(l) = ValuesOf(l.val, o)
<1>1. Order(l) = o /\ l.count = Len(o)
  BY OrderIs, LiesIs
<1>2. QED
  BY <1>1 DEF Content, ValuesOf

\* A node that is given back is the first spare one.
LEMMA LiesPutFree ==
  ASSUME LListAssumption, NEW l, NEW o, NEW s, NEW n \in Node, Lies(l, o, s, {n}), NEW r, r = PutFree(l, n)
  PROVE  Lies(r, o, InsertAt(s, 1, n), {}) /\ \A m \in Node : m # n => r.val[m] = l.val[m]
<1>1. /\ l \in ListSet
      /\ o \in Seq(Node) /\ s \in Seq(Node) /\ Distinct(o) /\ Distinct(s) /\ Apart(o, s)
      /\ Ring(l.next, l.prev, o) /\ Row(l.next, s)
      /\ l.head = First(o) /\ l.count = Len(o) /\ l.free_list = First(s) /\ l.nfreelist = Len(s)
  BY LiesIs
<1>2. /\ ~In(n, o) /\ ~In(n, s)
      /\ l.made = {m \in Node : In(m, o) \/ In(m, s) \/ m = n}
  BY LiesMade
<1>3. /\ r \in ListSet
      /\ IsList(r, l.head, l.count, n, l.nfreelist + 1, l.made, [l.prev EXCEPT ![n] = Null],
                [l.next EXCEPT ![n] = l.free_list], [l.val EXCEPT ![n] = NoVal])
  BY <1>1, PutFreeIs
<1>4. /\ r.head = First(o) /\ r.count = Len(o) /\ r.free_list = n /\ r.nfreelist = Len(s) + 1
      /\ r.made = l.made /\ r.prev = [l.prev EXCEPT ![n] = Null] /\ r.next = [l.next EXCEPT ![n] = First(s)]
      /\ r.val = [l.val EXCEPT ![n] = NoVal]
  BY <1>1, <1>3 DEF IsList
<1>5. l.prev \in Links /\ l.next \in Links /\ l.val \in [Node -> Val \cup {NoVal}]
  BY <1>1, ListFields
<1>6. PICK q : q = InsertAt(s, 1, n)
  OBVIOUS
<1>7. 1 \in 1 .. Len(s) + 1
  BY <1>1
<1>8. /\ q \in Seq(Node) /\ Len(q) = Len(s) + 1
      /\ \A m : In(m, q) <=> In(m, s) \/ m = n
      /\ Distinct(s) /\ ~In(n, s) => Distinct(q)
  BY <1>1, <1>6, <1>7, InsertedNode
<1>9. Row(r.next, q) /\ First(q) = n
  BY <1>1, <1>2, <1>4, <1>5, <1>6, RowPush
<1>10. Ring(r.next, r.prev, o)
  <2>1. \A m \in Node : In(m, o) => r.next[m] = l.next[m] /\ r.prev[m] = l.prev[m]
    BY <1>2, <1>4, <1>5 DEF Links
  <2>2. QED
    BY <1>1, <2>1, RingStays
<1>11. Apart(o, q)
  <2>1. \A m : ~(In(m, o) /\ In(m, s))
    BY <1>1, ApartIs
  <2>2. \A m : ~(In(m, o) /\ In(m, q))
    BY <1>2, <1>8, <2>1
  <2>3. QED
    BY <1>1, <1>8, <2>2, ApartIs
<1>12. r.made = {m \in Node : In(m, o) \/ In(m, q) \/ m \in {}}
  BY <1>2, <1>4, <1>8
<1>13. Lies(r, o, q, {})
  BY <1>1, <1>2, <1>3, <1>4, <1>8, <1>9, <1>10, <1>11, <1>12 DEF Lies
<1>14. \A m \in Node : m # n => r.val[m] = l.val[m]
  BY <1>4, <1>5
<1>15. QED
  BY <1>6, <1>13, <1>14

\* A node that is taken: the first spare one, or a new one.
LEMMA LiesTaken ==
  ASSUME LListAssumption, NEW l, NEW o, NEW s, Lies(l, o, s, {}), l.free_list # Null \/ CanCreate(l),
         NEW n, n = FreeNode(l), NEW r, r = WithoutFree(l)
  PROVE  /\ n \in Node /\ r.val = l.val
         /\ Lies(r, o, IF l.free_list # Null THEN RemoveAt(s, 1) ELSE s, {n})
<1>1. /\ l \in ListSet
      /\ o \in Seq(Node) /\ s \in Seq(Node) /\ Distinct(o) /\ Distinct(s) /\ Apart(o, s)
      /\ Ring(l.next, l.prev, o) /\ Row(l.next, s)
      /\ l.head = First(o) /\ l.count = Len(o) /\ l.free_list = First(s) /\ l.nfreelist = Len(s)
  BY LiesIs
<1>2. l.made = {m \in Node : In(m, o) \/ In(m, s)}
  BY LiesMade
<1>3. l.prev \in Links /\ l.next \in Links /\ l.val \in [Node -> Val \cup {NoVal}]
  BY <1>1, ListFields
<1>4. CASE l.free_list # Null
  <2>1. n = s[1] /\ n \in Node /\ l.free_list = n /\ Len(s) > 0 /\ Len(s) \in Nat
    BY <1>1, <1>4, FirstIs DEF FreeNode
  <2>2. /\ r \in ListSet
        /\ IsList(r, l.head, l.count, l.next[n], l.nfreelist - 1, l.made, l.prev, [l.next EXCEPT ![n] = Null], l.val)
    BY <1>1, <1>4, <2>1, TakenSpare
  <2>3. /\ r.head = First(o) /\ r.count = Len(o) /\ r.free_list = l.next[n] /\ r.nfreelist = Len(s) - 1
        /\ r.made = l.made /\ r.prev = l.prev /\ r.next = [l.next EXCEPT ![n] = Null] /\ r.val = l.val
    BY <1>1, <2>2 DEF IsList
  <2>4. PICK q : q = RemoveAt(s, 1)
    OBVIOUS
  <2>5. 1 \in 1 .. Len(s)
    BY <2>1
  <2>6. /\ q \in Seq(Node) /\ Len(q) = Len(s) - 1
        /\ \A m : In(m, q) <=> In(m, s) /\ m # s[1]
        /\ Distinct(q)
    BY <1>1, <2>4, <2>5, RemovedNode
  <2>7. Row(r.next, q) /\ First(q) = l.next[n]
    <3>1. PICK g : g = r.next
      OBVIOUS
    <3>2. /\ l.next \in Links /\ s \in Seq(Node) /\ Row(l.next, s) /\ Distinct(s) /\ Len(s) > 0
          /\ Null \in Node \cup {Null} /\ g = [l.next EXCEPT ![s[1]] = Null] /\ q = RemoveAt(s, 1)
      BY <1>1, <1>3, <2>1, <2>3, <2>4, <3>1
    <3>3. Row(g, q) /\ First(q) = l.next[s[1]]
      BY ONLY <3>2, RowPop
    <3>4. QED
      BY <2>1, <3>1, <3>3
  <2>8. In(n, s) /\ ~In(n, q)
    BY <2>1, <2>5, <2>6 DEF In
  <2>9. \A m : ~(In(m, o) /\ In(m, s))
    BY <1>1, ApartIs
  <2>10. Apart(o, q)
    <3>1. \A m : ~(In(m, o) /\ In(m, q))
      BY <2>6, <2>9
    <3>2. QED
      BY <1>1, <2>6, <3>1, ApartIs
  <2>11. Ring(r.next, r.prev, o)
    <3>1. \A m \in Node : In(m, o) => r.next[m] = l.next[m] /\ r.prev[m] = l.prev[m]
      BY <1>3, <2>3, <2>8, <2>9 DEF Links
    <3>2. QED
      BY <1>1, <3>1, RingStays
  <2>12. r.made = {m \in Node : In(m, o) \/ In(m, q) \/ m \in {n}}
    BY <1>2, <2>1, <2>3, <2>6, <2>8
  <2>13. \A m \in {n} : ~In(m, o) /\ ~In(m, q)
    BY <2>8, <2>9
  <2>14. Lies(r, o, q, {n})
    BY <1>1, <2>2, <2>3, <2>6, <2>7, <2>10, <2>11, <2>12, <2>13 DEF Lies
  <2>15. QED
    BY <1>4, <2>1, <2>3, <2>4, <2>14
<1>5. CASE l.free_list = Null
  <2>1. Node \ l.made # {} /\ Node \ l.made \in SUBSET Nat
    BY <1>1, <1>5, ListFields, NodesAre DEF CanCreate
  <2>2. n = Unmade(l) /\ n \in Node /\ n \notin l.made
    BY <1>5, <2>1, HasMin DEF FreeNode, Unmade
  <2>3. r \in ListSet /\ IsList(r, l.head, l.count, l.free_list, l.nfreelist, l.made \cup {n}, l.prev, l.next, l.val)
    BY <1>1, <1>5, <2>2, TakenNew
  <2>4. /\ r.head = First(o) /\ r.count = Len(o) /\ r.free_list = First(s) /\ r.nfreelist = Len(s)
        /\ r.made = l.made \cup {n} /\ r.prev = l.prev /\ r.next = l.next /\ r.val = l.val
    BY <1>1, <2>3 DEF IsList
  <2>5. ~In(n, o) /\ ~In(n, s)
    BY <1>2, <2>2
  <2>6. r.made = {m \in Node : In(m, o) \/ In(m, s) \/ m \in {n}}
    BY <1>2, <2>2, <2>4
  <2>7. Lies(r, o, s, {n})
    BY <1>1, <2>3, <2>4, <2>5, <2>6 DEF Lies
  <2>8. QED
    BY <1>5, <2>2, <2>4, <2>7
<1>6. QED
  BY <1>4, <1>5

\* The first of one more.
LEMMA FirstPut ==
  ASSUME LListAssumption, NEW o \in Seq(Node), NEW i \in 1 .. Len(o) + 1, NEW n \in Node, NEW q, PutAt(q, o, i, n)
  PROVE  First(q) = IF i = 1 THEN n ELSE First(o)
<1>1. q \in Seq(Node) /\ Len(q) = Len(o) + 1 /\ q[1] = IF i = 1 THEN n ELSE o[1]
  BY DEF PutAt
<1>2. i # 1 => Len(o) # 0
  OBVIOUS
<1>3. QED
  BY <1>1, <1>2 DEF First

\* cra_llist_insert_node puts a node at index.
LEMMA LiesInserted ==
  ASSUME LListAssumption, NEW l, NEW o, NEW s, NEW n \in Node, Lies(l, o, s, {n}), NEW k \in 0 .. Len(o),
         NEW r, r = InsertNode(l, k, n)
  PROVE  Lies(r, InsertAt(o, k + 1, n), s, {}) /\ r.val = l.val
<1>1. /\ l \in ListSet
      /\ o \in Seq(Node) /\ s \in Seq(Node) /\ Distinct(o) /\ Distinct(s) /\ Apart(o, s)
      /\ Ring(l.next, l.prev, o) /\ Row(l.next, s)
      /\ l.head = First(o) /\ l.count = Len(o) /\ l.free_list = First(s) /\ l.nfreelist = Len(s)
  BY LiesIs
<1>2. /\ ~In(n, o) /\ ~In(n, s)
      /\ l.made = {m \in Node : In(m, o) \/ In(m, s) \/ m = n}
  BY LiesMade
<1>3. l.prev \in Links /\ l.next \in Links /\ l.val \in [Node -> Val \cup {NoVal}]
  BY <1>1, ListFields
<1>4. PICK i \in 1 .. Len(o) + 1 : i = k + 1
  BY <1>1
<1>5. PICK q : q = InsertAt(o, i, n)
  OBVIOUS
<1>6. /\ q \in Seq(Node) /\ Len(q) = Len(o) + 1
      /\ \A m : In(m, q) <=> In(m, o) \/ m = n
      /\ Distinct(o) /\ ~In(n, o) => Distinct(q)
  BY <1>1, <1>5, InsertedNode
<1>7. PutAt(q, o, i, n)
  BY <1>1, <1>5, PutNode
<1>8. First(q) = IF i = 1 THEN n ELSE First(o)
  BY <1>1, <1>7, FirstPut
<1>9. PICK w : w = IF l.head = Null THEN [l EXCEPT !.prev[n] = n, !.next[n] = n]
                   ELSE Linked(l, n, l.prev[GetNode(l, k % l.count)])
  OBVIOUS
<1>10. r = [w EXCEPT !.head = IF l.head = Null \/ k = 0 THEN n ELSE @, !.count = @ + 1]
  BY <1>9, Zenon DEF InsertNode
<1>11. /\ w \in ListSet
       /\ IsList(w, l.head, l.count, l.free_list, l.nfreelist, l.made, w.prev, w.next, l.val)
       /\ Ring(w.next, w.prev, q)
       /\ \A m \in Node : In(m, s) => w.next[m] = l.next[m]
  <2>1. CASE Len(o) = 0
    <3>1. l.head = Null
      BY <1>1, <2>1, FirstIs
    <3>2. PICK f, b : f = [l.next EXCEPT ![n] = n] /\ b = [l.prev EXCEPT ![n] = n]
      OBVIOUS
    <3>3. f \in Links /\ b \in Links /\ f[n] = n /\ b[n] = n /\ \A m \in Node : m # n => f[m] = l.next[m]
      BY <1>3, <3>2 DEF Links
    <3>4. w = [head |-> l.head, count |-> l.count, free_list |-> l.free_list, nfreelist |-> l.nfreelist,
               made |-> l.made, prev |-> b, next |-> f, val |-> l.val]
      BY <1>1, <1>9, <3>1, <3>2 DEF ListSet
    <3>5. w \in ListSet /\ IsList(w, l.head, l.count, l.free_list, l.nfreelist, l.made, b, f, l.val)
      BY <1>1, <3>3, <3>4, ListFields, RecordIs
    <3>6. w.next = f /\ w.prev = b
      BY <3>5 DEF IsList
    <3>7. Len(q) = 1 /\ q[1] = n
      BY <1>1, <1>7, <2>1 DEF PutAt
    <3>8. Ring(f, b, q)
      BY <3>3, <3>7, RingOfOne
    <3>9. QED
      BY <1>2, <3>3, <3>5, <3>6, <3>8
  <2>2. CASE Len(o) # 0
    <3>1. PICK c \in Nat \ {0} : c = Len(o)
      BY <1>1, <2>2
    <3>2. l.head # Null
      BY <1>1, <2>2, FirstIs
    <3>3. PICK j \in 1 .. c : j = IF i = c + 1 THEN 1 ELSE i
      BY <3>1
    <3>4. k % l.count = j - 1
      <4>1. k \in 0 .. 2 * c - 1 /\ l.count = c
        BY <1>1, <3>1
      <4>2. k % c = IF k < c THEN k ELSE k - c
        BY <4>1, Around
      <4>3. QED
        BY <1>4, <3>1, <3>3, <4>1, <4>2
    <3>5. GetNode(l, j - 1) = o[j]
      <4>1. PICK d : d = j - 1
        OBVIOUS
      <4>2. d \in 0 .. Len(o) - 1 /\ d + 1 = j
        BY <3>1, <3>3, <4>1
      <4>3. GetNode(l, d) = o[d + 1]
        BY <4>2, GetNodeIs
      <4>4. QED
        BY <4>1, <4>2, <4>3
    <3>6. PICK a \in 1 .. c : a = Pred(j, c) /\ Succ(a, c) = j
      BY <3>1, <3>3, SuccPred
    <3>7. PICK p, x : p = o[a] /\ x = o[j]
      OBVIOUS
    <3>8. l.next[p] = x /\ l.prev[x] = p
      BY <1>1, <3>1, <3>6, <3>7 DEF Ring
    <3>9. p \in Node /\ x \in Node /\ In(p, o) /\ In(x, o) /\ p # n /\ x # n
      BY <1>1, <1>2, <3>1, <3>3, <3>6, <3>7 DEF In
    <3>10. w = Linked(l, n, p)
      BY <1>9, <3>2, <3>4, <3>5, <3>7, <3>8
    <3>11. /\ w \in ListSet
           /\ IsList(w, l.head, l.count, l.free_list, l.nfreelist, l.made, w.prev, w.next, l.val)
           /\ \A m \in Node : w.next[m] = IF m = p THEN n ELSE IF m = n THEN x ELSE l.next[m]
           /\ \A m \in Node : w.prev[m] = IF m = x THEN n ELSE IF m = n THEN p ELSE l.prev[m]
      BY <1>1, <3>8, <3>9, <3>10, LinkedIs
    <3>12. Ring(w.next, w.prev, q)
      <4>1. PICK f, b : f = w.next /\ b = w.prev
        OBVIOUS
      <4>2. /\ l.next \in Links /\ l.prev \in Links /\ o \in Seq(Node) /\ Ring(l.next, l.prev, o) /\ Distinct(o)
            /\ Len(o) > 0 /\ n \in Node /\ ~In(n, o) /\ i \in 1 .. Len(o) + 1
            /\ p = o[Pred(IF i = Len(o) + 1 THEN 1 ELSE i, Len(o))]
            /\ x = o[IF i = Len(o) + 1 THEN 1 ELSE i]
            /\ Between(f, b, l.next, l.prev, n, p, x) /\ PutAt(q, o, i, n)
        <5>1. Between(f, b, l.next, l.prev, n, p, x)
          BY <3>11, <4>1, Zenon DEF Between
        <5>2. QED
          BY <1>1, <1>2, <1>3, <1>7, <3>1, <3>3, <3>6, <3>7, <5>1
      <4>3. Ring(f, b, q)
        BY ONLY <4>2, RingInsert
      <4>4. QED
        BY <4>1, <4>3
    <3>13. \A m \in Node : In(m, s) => m # p /\ m # n
      BY <1>1, <1>2, <3>9, ApartIs
    <3>14. QED
      BY <3>11, <3>12, <3>13
  <2>3. QED
    BY <2>1, <2>2
<1>12. PICK h : h = First(q)
  OBVIOUS
<1>13. h = (IF l.head = Null \/ k = 0 THEN n ELSE l.head) /\ h \in Node \cup {Null}
  <2>1. l.head = Null => Len(o) = 0
    BY <1>1, FirstIs
  <2>2. l.head \in Node \cup {Null}
    BY <1>1, ListFields
  <2>3. Len(o) = 0 => i = 1
    BY <1>4
  <2>4. QED
    BY <1>1, <1>4, <1>8, <1>12, <2>1, <2>2, <2>3
<1>14. w.head = l.head /\ w.count = Len(o) /\ w.free_list = First(s) /\ w.nfreelist = Len(s) /\ w.made = l.made /\ w.val = l.val
  BY <1>1, <1>11 DEF IsList
<1>15. r = [head |-> h, count |-> Len(q), free_list |-> First(s), nfreelist |-> Len(s), made |-> l.made,
            prev |-> w.prev, next |-> w.next, val |-> l.val]
  <2>1. w = [head |-> w.head, count |-> w.count, free_list |-> w.free_list, nfreelist |-> w.nfreelist,
             made |-> w.made, prev |-> w.prev, next |-> w.next, val |-> w.val]
    BY <1>11 DEF ListSet
  <2>2. r = [head |-> IF l.head = Null \/ k = 0 THEN n ELSE w.head, count |-> w.count + 1, free_list |-> w.free_list,
             nfreelist |-> w.nfreelist, made |-> w.made, prev |-> w.prev, next |-> w.next, val |-> w.val]
    BY ONLY <1>10, <2>1
  <2>3. QED
    BY <1>6, <1>13, <1>14, <2>2
<1>16. w.prev \in Links /\ w.next \in Links /\ First(s) \in Node \cup {Null} /\ Len(q) \in Nat /\ Len(s) \in Nat
  BY <1>1, <1>6, <1>11, <1>14, ListFields
<1>17. l.made \in SUBSET Node
  BY <1>1, ListFields
<1>18. r \in ListSet /\ IsList(r, h, Len(q), First(s), Len(s), l.made, w.prev, w.next, l.val)
  BY ONLY <1>3, <1>13, <1>15, <1>16, <1>17, RecordIs, ZenonT(60)
<1>19. /\ r.head = First(q) /\ r.count = Len(q) /\ r.free_list = First(s) /\ r.nfreelist = Len(s)
       /\ r.made = l.made /\ r.prev = w.prev /\ r.next = w.next /\ r.val = l.val
  BY <1>12, <1>18 DEF IsList
<1>20. Row(r.next, s)
  BY <1>1, <1>11, <1>19, RowStays
<1>21. Apart(q, s)
  <2>1. \A m : ~(In(m, o) /\ In(m, s))
    BY <1>1, ApartIs
  <2>2. \A m : ~(In(m, q) /\ In(m, s))
    BY <1>2, <1>6, <2>1
  <2>3. QED
    BY <1>1, <1>6, <2>2, ApartIs
<1>22. r.made = {m \in Node : In(m, q) \/ In(m, s) \/ m \in {}}
  BY <1>2, <1>6, <1>19
<1>23. Ring(r.next, r.prev, q) /\ Distinct(q)
  BY <1>1, <1>2, <1>6, <1>11, <1>19
<1>24. Lies(r, q, s, {})
  BY <1>1, <1>6, <1>18, <1>19, <1>20, <1>21, <1>22, <1>23 DEF Lies
<1>25. QED
  BY <1>4, <1>5, <1>19, <1>24

\* Other values in the nodes.
LEMMA LiesWithVal ==
  ASSUME NEW l, NEW o, NEW s, NEW x, Lies(l, o, s, x), NEW v \in [Node -> Val \cup {NoVal}],
         NEW r, r = [l EXCEPT !.val = v]
  PROVE  Lies(r, o, s, x) /\ r.val = v
<1>1. r \in ListSet /\ IsList(r, l.head, l.count, l.free_list, l.nfreelist, l.made, l.prev, l.next, v)
  BY LiesIs, WithVal
<1>2. /\ r.head = l.head /\ r.count = l.count /\ r.free_list = l.free_list /\ r.nfreelist = l.nfreelist
      /\ r.made = l.made /\ r.prev = l.prev /\ r.next = l.next /\ r.val = v
  BY <1>1 DEF IsList
<1>3. QED
  BY <1>1, <1>2, LiesIs, LiesMade DEF Lies

\* cra_llist_remove_node takes the node at i out, and makes it the first spare one.
LEMMA LiesRemoved ==
  ASSUME LListAssumption, NEW l, NEW o, NEW s, Lies(l, o, s, {}), NEW i \in 1 .. Len(o), NEW n, n = o[i],
         NEW r, r = RemoveNode(l, n)
  PROVE  /\ n \in Node
         /\ Lies(r, RemoveAt(o, i), InsertAt(s, 1, n), {})
         /\ \A m \in Node : m # n => r.val[m] = l.val[m]
<1>1. /\ l \in ListSet
      /\ o \in Seq(Node) /\ s \in Seq(Node) /\ Distinct(o) /\ Distinct(s) /\ Apart(o, s)
      /\ Ring(l.next, l.prev, o) /\ Row(l.next, s)
      /\ l.head = First(o) /\ l.count = Len(o) /\ l.free_list = First(s) /\ l.nfreelist = Len(s)
  BY LiesIs
<1>2. l.made = {m \in Node : In(m, o) \/ In(m, s)}
  BY LiesMade
<1>3. l.prev \in Links /\ l.next \in Links /\ l.val \in [Node -> Val \cup {NoVal}]
  BY <1>1, ListFields
<1>4. PICK c \in Nat \ {0} : c = Len(o)
  BY <1>1
<1>5. PICK a \in 1 .. c : a = Pred(i, c) /\ Succ(a, c) = i
  BY <1>4, SuccPred
<1>6. PICK d \in 1 .. c : d = Succ(i, c)
  BY <1>4, SuccPred
<1>7. PICK p, x : p = o[a] /\ x = o[d]
  OBVIOUS
<1>8. n \in Node /\ p \in Node /\ x \in Node /\ In(n, o) /\ In(p, o) /\ In(x, o)
  BY <1>1, <1>4, <1>7 DEF In
<1>9. p = l.prev[n] /\ x = l.next[n]
  BY <1>1, <1>4, <1>5, <1>6, <1>7 DEF Ring
<1>9a. PICK h : h = IF l.count = 1 THEN Null ELSE IF l.head = n THEN x ELSE l.head
  OBVIOUS
<1>9b. PICK v : v = [l.val EXCEPT ![n] = NoVal]
  OBVIOUS
<1>10. /\ r \in ListSet
       /\ IsList(r, h, l.count - 1, n, l.nfreelist + 1, l.made, r.prev, r.next, v)
       /\ Past(r.next, r.prev, l.next, l.prev, n, p, x)
       /\ r.next[n] = l.free_list
  <2>1. l \in ListSet /\ n \in Node /\ p \in Node /\ x \in Node /\ p = l.prev[n] /\ x = l.next[n] /\ l.count > 0
        /\ h = (IF l.count = 1 THEN Null ELSE IF l.head = n THEN x ELSE l.head)
        /\ v = [l.val EXCEPT ![n] = NoVal] /\ r = RemoveNode(l, n)
    BY <1>1, <1>4, <1>8, <1>9, <1>9a, <1>9b
  <2>2. QED
    BY ONLY <2>1, RemoveNodeIs
<1>11. /\ r.head = (IF c = 1 THEN Null ELSE IF First(o) = n THEN x ELSE First(o)) /\ r.count = c - 1
       /\ r.free_list = n /\ r.nfreelist = Len(s) + 1 /\ r.made = l.made /\ r.val = [l.val EXCEPT ![n] = NoVal]
  BY <1>1, <1>4, <1>9a, <1>9b, <1>10 DEF IsList
<1>12. PICK q : q = RemoveAt(o, i)
  OBVIOUS
<1>13. /\ q \in Seq(Node) /\ Len(q) = Len(o) - 1
       /\ \A m : In(m, q) <=> In(m, o) /\ m # o[i]
       /\ Distinct(q)
       /\ \A j \in 1 .. Len(o) - 1 : q[j] = IF j < i THEN o[j] ELSE o[j + 1]
  BY <1>1, <1>12, RemovedNode
<1>14. r.head = First(q)
  <2>1. CASE c = 1
    BY <1>4, <1>11, <1>13, <2>1 DEF First
  <2>2. CASE c # 1
    <3>1. First(q) = q[1] /\ First(o) = o[1]
      BY <1>4, <1>13, <2>2 DEF First
    <3>2. q[1] = IF i = 1 THEN o[2] ELSE o[1]
      BY <1>4, <1>13, <2>2
    <3>3. o[1] = o[i] <=> i = 1
      BY <1>1, <1>4, <2>2 DEF Distinct
    <3>4. i = 1 => d = 2
      BY <1>4, <1>6, <2>2 DEF Succ
    <3>5. QED
      BY <1>7, <1>11, <2>2, <3>1, <3>2, <3>3, <3>4
  <2>3. QED
    BY <2>1, <2>2
<1>15. Ring(r.next, r.prev, q)
  <2>1. CASE c = 1
    BY <1>4, <1>13, <2>1 DEF Ring
  <2>2. CASE c # 1
    <3>1. PICK f, b : f = r.next /\ b = r.prev
      OBVIOUS
    <3>2. Past(f, b, l.next, l.prev, n, p, x)
      BY <1>10, <3>1
    <3>3. n = o[i]
      OBVIOUS
    <3>4. p = o[Pred(i, Len(o))] /\ x = o[Succ(i, Len(o))] /\ Len(o) > 1
      BY <1>4, <1>5, <1>6, <1>7, <2>2
    <3>5. Ring(f, b, q)
      BY <1>1, <1>3, <1>12, <3>2, <3>3, <3>4, RingRemove
    <3>6. QED
      BY <3>1, <3>5
  <2>3. QED
    BY <2>1, <2>2
<1>16. \A m : ~(In(m, o) /\ In(m, s))
  BY <1>1, ApartIs
<1>17. PICK t : t = InsertAt(s, 1, n)
  OBVIOUS
<1>18. 1 \in 1 .. Len(s) + 1 /\ ~In(n, s)
  BY <1>1, <1>8, <1>16
<1>19. /\ t \in Seq(Node) /\ Len(t) = Len(s) + 1
       /\ \A m : In(m, t) <=> In(m, s) \/ m = n
       /\ Distinct(s) /\ ~In(n, s) => Distinct(t)
  <2>1. PICK i1 : i1 = 1
    OBVIOUS
  <2>2. s \in Seq(Node) /\ i1 \in 1 .. Len(s) + 1 /\ n \in Node /\ t = InsertAt(s, i1, n)
    BY <1>1, <1>8, <1>17, <1>18, <2>1
  <2>3. QED
    BY ONLY <2>2, InsertedAmong
<1>20. PICK g : g = [l.next EXCEPT ![n] = First(s)]
  OBVIOUS
<1>21. Row(g, t) /\ First(t) = n
  <2>1. /\ l.next \in Links /\ s \in Seq(Node) /\ Row(l.next, s) /\ n \in Node /\ ~In(n, s)
        /\ g = [l.next EXCEPT ![n] = First(s)] /\ t = InsertAt(s, 1, n)
    BY <1>1, <1>3, <1>8, <1>17, <1>18, <1>20
  <2>2. QED
    <3>1. PICK next : next = l.next
      OBVIOUS
    <3>2. /\ next \in Links /\ s \in Seq(Node) /\ Row(next, s) /\ n \in Node /\ ~In(n, s)
          /\ g = [next EXCEPT ![n] = First(s)] /\ t = InsertAt(s, 1, n)
      BY ONLY <2>1, <3>1
    <3>3. QED
      BY ONLY <3>2, RowPush, ZenonT(60)
<1>22. Row(r.next, t)
  <2>1. g[n] = First(s) /\ \A m \in Node : m # n => g[m] = l.next[m]
    BY <1>3, <1>8, <1>20 DEF Links
  <2>2. ASSUME NEW m \in Node, In(m, t)
        PROVE  r.next[m] = g[m]
    <3>1. CASE m = n
      BY <1>1, <1>10, <2>1, <3>1
    <3>2. CASE m # n
      <4>1. m # p
        BY <1>8, <1>16, <1>19, <2>2, <3>2
      <4>2. QED
        BY <1>10, <2>1, <3>2, <4>1 DEF Past
    <3>3. QED
      BY <3>1, <3>2
  <2>3. QED
    BY <1>19, <1>21, <2>2, RowStays
<1>23. Apart(q, t)
  <2>1. \A m : ~(In(m, q) /\ In(m, t))
    BY <1>13, <1>16, <1>19
  <2>2. QED
    BY <1>13, <1>19, <2>1, ApartIs
<1>24. r.made = {m \in Node : In(m, q) \/ In(m, t) \/ m \in {}}
  <2>1. \A m : (In(m, q) \/ In(m, t)) <=> (In(m, o) \/ In(m, s))
    BY <1>8, <1>13, <1>19
  <2>2. QED
    BY <1>2, <1>11, <2>1
<1>25. Lies(r, q, t, {})
  <2>1. r.count = Len(q) /\ r.free_list = First(t) /\ r.nfreelist = Len(t) /\ Distinct(t)
    BY <1>1, <1>4, <1>11, <1>13, <1>18, <1>19, <1>21
  <2>2. QED
    BY <1>10, <1>13, <1>14, <1>15, <1>19, <1>22, <1>23, <1>24, <2>1 DEF Lies
<1>26. \A m \in Node : m # n => r.val[m] = l.val[m]
  BY <1>3, <1>11
<1>27. QED
  BY <1>8, <1>12, <1>17, <1>25, <1>26

Filled(val, o) == \A i \in 1 .. Len(o) : val[o[i]] \in Val

\* l is a list of the nodes in o.
Holds(l, o, s) == Lies(l, o, s, {}) /\ Filled(l.val, o)

Sane(l) == \E o, s : Holds(l, o, s)

\* The values of nodes that are filled.
LEMMA ValuesType ==
  ASSUME NEW o \in Seq(Node), NEW val, Filled(val, o)
  PROVE  /\ ValuesOf(val, o) \in Seq(Val) /\ Len(ValuesOf(val, o)) = Len(o)
         /\ \A i \in 1 .. Len(o) : ValuesOf(val, o)[i] = val[o[i]]
BY DEF ValuesOf, Filled

\* The content of a list.
LEMMA ContentType ==
  ASSUME LListAssumption, NEW l, NEW o, NEW s, Holds(l, o, s)
  PROVE  /\ Content(l) \in Seq(Val) /\ Len(Content(l)) = Len(o) /\ l.count = Len(o) /\ Content(l) = ValuesOf(l.val, o)
         /\ o \in Seq(Node) /\ \A i \in 1 .. Len(o) : o[i] \in Node /\ Content(l)[i] = l.val[o[i]] /\ l.val[o[i]] \in Val
<1>1. Lies(l, o, s, {}) /\ Filled(l.val, o)
  BY DEF Holds
<1>2. o \in Seq(Node) /\ l.count = Len(o) /\ Content(l) = ValuesOf(l.val, o)
  BY <1>1, LiesIs, ContentIs
<1>3. \A i \in 1 .. Len(o) : o[i] \in Node /\ l.val[o[i]] \in Val
  BY <1>1, <1>2 DEF Filled
<1>4. QED
  BY <1>1, <1>2, <1>3, ValuesType

\* Other nodes are of no concern.
LEMMA ValuesStay ==
  ASSUME NEW o \in Seq(Node), NEW val, Filled(val, o), NEW w, \A m \in Node : In(m, o) => w[m] = val[m]
  PROVE  Filled(w, o) /\ ValuesOf(w, o) = ValuesOf(val, o)
<1>1. \A i \in 1 .. Len(o) : w[o[i]] = val[o[i]]
  BY DEF In
<1>2. QED
  BY <1>1 DEF Filled, ValuesOf

\* A value more.
LEMMA ValuesPut ==
  ASSUME NEW o \in Seq(Node), NEW val, Filled(val, o), NEW i \in 1 .. Len(o) + 1, NEW n \in Node, NEW v \in Val,
         NEW w, w[n] = v, \A m \in Node : In(m, o) => w[m] = val[m], NEW q, PutAt(q, o, i, n)
  PROVE  Filled(w, q) /\ ValuesOf(w, q) = InsertAt(ValuesOf(val, o), i, v)
<1>1. PICK k \in Nat : k = Len(o)
  OBVIOUS
<1>2. /\ q \in Seq(Node) /\ Len(q) = k + 1
      /\ \A j \in 1 .. k + 1 : q[j] = IF j < i THEN o[j] ELSE IF j = i THEN n ELSE o[j - 1]
  BY <1>1 DEF PutAt
<1>3. PICK c : c = ValuesOf(val, o)
  OBVIOUS
<1>4. c \in Seq(Val) /\ Len(c) = k /\ \A j \in 1 .. k : c[j] = w[o[j]]
  <2>1. \A j \in 1 .. k : o[j] \in Node /\ In(o[j], o)
    BY <1>1 DEF In
  <2>2. QED
    BY <1>1, <1>3, <2>1, ValuesType
<1>5. PICK d : d = InsertAt(c, i, v)
  OBVIOUS
<1>6. /\ d \in Seq(Val) /\ Len(d) = Len(c) + 1
      /\ \A j \in 1 .. Len(c) + 1 : d[j] = IF j < i THEN c[j] ELSE IF j = i THEN v ELSE c[j - 1]
  <2>1. i \in 1 .. Len(c) + 1
    BY <1>1, <1>4
  <2>2. IsPut(Val, d, c, i, v)
    BY <1>4, <1>5, <2>1, InsertAtPuts
  <2>3. QED
    BY <2>2 DEF IsPut
<1>7. ASSUME NEW j \in 1 .. k + 1
      PROVE  w[q[j]] = d[j]
  <2>1. CASE j < i
    <3>1. PICK g \in 1 .. k : g = j
      BY <1>1, <2>1
    <3>2. q[j] = o[g] /\ d[j] = c[g]
      BY <1>1, <1>2, <1>4, <1>6, <2>1, <3>1
    <3>3. QED
      BY <1>4, <3>2
  <2>2. CASE j = i
    BY <1>1, <1>2, <1>4, <1>6, <2>2
  <2>3. CASE j > i
    <3>1. PICK g \in 1 .. k : g = j - 1
      BY <1>1, <2>3
    <3>2. q[j] = o[g] /\ d[j] = c[g]
      BY <1>1, <1>2, <1>4, <1>6, <2>3, <3>1
    <3>3. QED
      BY <1>4, <3>2
  <2>4. QED
    BY <1>1, <2>1, <2>2, <2>3
<1>8. Filled(w, q)
  <2>1. \A j \in 1 .. Len(q) : d[j] \in Val /\ w[q[j]] = d[j]
    BY <1>1, <1>2, <1>4, <1>6, <1>7
  <2>2. QED
    BY <2>1 DEF Filled
<1>9. ValuesOf(w, q) = d
  <2>1. ValuesOf(w, q) \in Seq(Val) /\ Len(ValuesOf(w, q)) = k + 1 /\ \A j \in 1 .. k + 1 : ValuesOf(w, q)[j] = d[j]
    <3>1. PICK u : u = ValuesOf(w, q)
      OBVIOUS
    <3>2. u \in Seq(Val) /\ Len(u) = Len(q) /\ \A j \in 1 .. Len(q) : u[j] = w[q[j]]
      <4>1. q \in Seq(Node) /\ Filled(w, q) /\ u = ValuesOf(w, q)
        BY <1>2, <1>8, <3>1
      <4>2. QED
        BY ONLY <4>1, ValuesType
    <3>3. QED
      BY <1>2, <1>7, <3>1, <3>2
  <2>2. QED
    BY <1>1, <1>4, <1>6, <2>1, SeqEqual
<1>10. QED
  BY <1>3, <1>5, <1>8, <1>9

\* A value less.
LEMMA ValuesTaken ==
  ASSUME NEW o \in Seq(Node), Distinct(o), NEW val, Filled(val, o), NEW i \in 1 .. Len(o),
         NEW w, \A m \in Node : m # o[i] => w[m] = val[m], NEW q, q = RemoveAt(o, i)
  PROVE  Filled(w, q) /\ ValuesOf(w, q) = RemoveAt(ValuesOf(val, o), i)
<1>1. PICK k \in Nat \ {0} : k = Len(o)
  OBVIOUS
<1>2. /\ q \in Seq(Node) /\ Len(q) = k - 1
      /\ \A j \in 1 .. k - 1 : q[j] = IF j < i THEN o[j] ELSE o[j + 1]
  <2>1. IsCut(Node, q, o, i)
    BY RemoveAtCuts
  <2>2. QED
    BY <1>1, <2>1 DEF IsCut
<1>3. PICK c : c = ValuesOf(val, o)
  OBVIOUS
<1>4. c \in Seq(Val) /\ Len(c) = k /\ \A j \in 1 .. k : c[j] = val[o[j]]
  BY <1>1, <1>3, ValuesType
<1>5. PICK d : d = RemoveAt(c, i)
  OBVIOUS
<1>6. /\ d \in Seq(Val) /\ Len(d) = Len(c) - 1
      /\ \A j \in 1 .. Len(c) - 1 : d[j] = IF j < i THEN c[j] ELSE c[j + 1]
  <2>1. i \in 1 .. Len(c)
    BY <1>1, <1>4
  <2>2. IsCut(Val, d, c, i)
    BY <1>4, <1>5, <2>1, RemoveAtCuts
  <2>3. QED
    BY <2>2 DEF IsCut
<1>7. ASSUME NEW j \in 1 .. k - 1
      PROVE  w[q[j]] = d[j]
  <2>1. PICK g \in 1 .. k : g = (IF j < i THEN j ELSE j + 1) /\ g # i
    BY <1>1
  <2>2. q[j] = o[g] /\ d[j] = c[g]
    BY <1>1, <1>2, <1>4, <1>6, <2>1
  <2>3. o[g] # o[i] /\ o[g] \in Node
    BY <1>1, <2>1 DEF Distinct
  <2>4. QED
    BY <1>4, <2>2, <2>3
<1>8. Filled(w, q)
  <2>1. \A j \in 1 .. Len(q) : d[j] \in Val /\ w[q[j]] = d[j]
    BY <1>1, <1>2, <1>4, <1>6, <1>7
  <2>2. QED
    BY <2>1 DEF Filled
<1>9. ValuesOf(w, q) = d
  <2>1. ValuesOf(w, q) \in Seq(Val) /\ Len(ValuesOf(w, q)) = k - 1 /\ \A j \in 1 .. k - 1 : ValuesOf(w, q)[j] = d[j]
    <3>1. PICK u : u = ValuesOf(w, q)
      OBVIOUS
    <3>2. u \in Seq(Val) /\ Len(u) = Len(q) /\ \A j \in 1 .. Len(q) : u[j] = w[q[j]]
      <4>1. q \in Seq(Node) /\ Filled(w, q) /\ u = ValuesOf(w, q)
        BY <1>2, <1>8, <3>1
      <4>2. QED
        BY ONLY <4>1, ValuesType
    <3>3. QED
      BY <1>2, <1>7, <3>1, <3>2
  <2>2. QED
    BY <1>1, <1>4, <1>6, <2>1, SeqEqual
<1>10. QED
  BY <1>3, <1>5, <1>8, <1>9

\* cra_llist_insert, when there is a node and a place for it.
LEMMA InsertHolds ==
  ASSUME LListAssumption, NEW l, NEW o, NEW s, Holds(l, o, s), l.free_list # Null \/ CanCreate(l),
         NEW k \in Nat, k <= l.count, NEW v \in Val, NEW n, n = FreeNode(l), NEW w, w = WithoutFree(l),
         NEW r, r = [InsertNode(w, k, n) EXCEPT !.val[n] = v]
  PROVE  Sane(r) /\ Content(r) = InsertAt(Content(l), k + 1, v)
<1>1. Lies(l, o, s, {}) /\ Filled(l.val, o)
  BY DEF Holds
<1>2. o \in Seq(Node) /\ l.count = Len(o)
  BY <1>1, LiesIs
<1>3. PICK t : t = IF l.free_list # Null THEN RemoveAt(s, 1) ELSE s
  OBVIOUS
<1>4. n \in Node /\ w.val = l.val /\ Lies(w, o, t, {n})
  BY <1>1, <1>3, LiesTaken
<1>5. PICK i \in 1 .. Len(o) + 1 : i = k + 1 /\ k \in 0 .. Len(o)
  BY <1>2
<1>6. PICK q, g : q = InsertAt(o, i, n) /\ g = InsertNode(w, k, n)
  OBVIOUS
<1>7. Lies(g, q, t, {}) /\ g.val = l.val
  BY <1>4, <1>5, <1>6, LiesInserted
<1>8. PutAt(q, o, i, n)
  BY <1>2, <1>4, <1>6, PutNode
<1>9. l.val \in [Node -> Val \cup {NoVal}]
  BY <1>1, LiesIs, ListFields
<1>10. PICK x : x = [l.val EXCEPT ![n] = v]
  OBVIOUS
<1>11. x \in [Node -> Val \cup {NoVal}] /\ x[n] = v /\ \A m \in Node : m # n => x[m] = l.val[m]
  BY <1>4, <1>9, <1>10
<1>12. r = [g EXCEPT !.val = x]
  <2>1. g \in ListSet
    BY <1>7, LiesIs
  <2>2. r = [g EXCEPT !.val[n] = v]
    BY <1>6
  <2>3. QED
    BY <1>7, <1>10, <2>1, <2>2 DEF ListSet
<1>13. Lies(r, q, t, {}) /\ r.val = x
  <2>1. Lies(g, q, t, {}) /\ x \in [Node -> Val \cup {NoVal}] /\ r = [g EXCEPT !.val = x]
    BY <1>7, <1>11, <1>12
  <2>2. QED
    BY ONLY <2>1, LiesWithVal
<1>14. ~In(n, o)
  BY <1>4, LiesMade
<1>15. \A m \in Node : In(m, o) => x[m] = l.val[m]
  BY <1>11, <1>14
<1>16. Filled(x, q) /\ ValuesOf(x, q) = InsertAt(ValuesOf(l.val, o), i, v)
  BY <1>1, <1>2, <1>4, <1>8, <1>11, <1>15, ValuesPut
<1>17. Holds(r, q, t)
  BY <1>13, <1>16 DEF Holds
<1>18. Content(r) = ValuesOf(x, q) /\ Content(l) = ValuesOf(l.val, o)
  BY <1>1, <1>13, ContentIs
<1>19. QED
  BY <1>5, <1>16, <1>17, <1>18, Zenon DEF Sane

\* When there is no place, the node becomes a spare one.
LEMMA NoPlaceHolds ==
  ASSUME LListAssumption, NEW l, NEW o, NEW s, Holds(l, o, s), l.free_list # Null \/ CanCreate(l),
         NEW n, n = FreeNode(l), NEW w, w = WithoutFree(l), NEW r, r = PutFree(w, n)
  PROVE  /\ Sane(r) /\ Content(r) = Content(l)
         /\ \E t : Holds(r, o, t) /\ \A m \in Node : In(m, o) => r.val[m] = l.val[m]
<1>1. Lies(l, o, s, {}) /\ Filled(l.val, o)
  BY DEF Holds
<1>2. o \in Seq(Node)
  BY <1>1, LiesIs
<1>3. PICK t : t = IF l.free_list # Null THEN RemoveAt(s, 1) ELSE s
  OBVIOUS
<1>4. n \in Node /\ w.val = l.val /\ Lies(w, o, t, {n})
  BY <1>1, <1>3, LiesTaken
<1>5. PICK q : q = InsertAt(t, 1, n)
  OBVIOUS
<1>6. Lies(r, o, q, {}) /\ \A m \in Node : m # n => r.val[m] = w.val[m]
  BY <1>4, <1>5, LiesPutFree
<1>7. ~In(n, o)
  BY <1>4, LiesMade
<1>8. \A m \in Node : In(m, o) => r.val[m] = l.val[m]
  BY <1>4, <1>6, <1>7
<1>9. Filled(r.val, o) /\ ValuesOf(r.val, o) = ValuesOf(l.val, o)
  BY <1>1, <1>2, <1>8, ValuesStay
<1>10. Holds(r, o, q)
  BY <1>6, <1>9 DEF Holds
<1>11. Content(r) = ValuesOf(r.val, o) /\ Content(l) = ValuesOf(l.val, o)
  BY <1>1, <1>6, ContentIs
<1>12. Sane(r)
  BY <1>10, Zenon DEF Sane
<1>13. QED
  BY <1>8, <1>9, <1>10, <1>11, <1>12

\* cra_llist_pop_at
LEMMA PopHolds ==
  ASSUME LListAssumption, NEW l, NEW o, NEW s, Holds(l, o, s), NEW k \in Nat, k < l.count,
         NEW n, n = GetNode(l, k), NEW r, r = RemoveNode(l, n)
  PROVE  Sane(r) /\ Content(r) = RemoveAt(Content(l), k + 1) /\ l.val[n] = Content(l)[k + 1]
<1>1. Lies(l, o, s, {}) /\ Filled(l.val, o)
  BY DEF Holds
<1>2. o \in Seq(Node) /\ l.count = Len(o) /\ Distinct(o)
  BY <1>1, LiesIs
<1>3. PICK i \in 1 .. Len(o) : i = k + 1 /\ k \in 0 .. Len(o) - 1
  BY <1>2
<1>4. n = o[i]
  BY <1>1, <1>3, GetNodeIs
<1>5. PICK q, t : q = RemoveAt(o, i) /\ t = InsertAt(s, 1, n)
  OBVIOUS
<1>6. /\ n \in Node /\ Lies(r, q, t, {})
      /\ \A m \in Node : m # n => r.val[m] = l.val[m]
  BY <1>1, <1>4, <1>5, LiesRemoved
<1>7. Filled(r.val, q) /\ ValuesOf(r.val, q) = RemoveAt(ValuesOf(l.val, o), i)
  <2>1. PICK w : w = r.val
    OBVIOUS
  <2>2. \A m \in Node : m # o[i] => w[m] = l.val[m]
    BY <1>4, <1>6, <2>1
  <2>3. Filled(w, q) /\ ValuesOf(w, q) = RemoveAt(ValuesOf(l.val, o), i)
    BY <1>1, <1>2, <1>5, <2>2, ValuesTaken
  <2>4. QED
    BY <2>1, <2>3
<1>8. Holds(r, q, t)
  BY <1>6, <1>7 DEF Holds
<1>9. Content(r) = ValuesOf(r.val, q) /\ Content(l) = ValuesOf(l.val, o)
  BY <1>1, <1>6, ContentIs
<1>10. Content(l)[i] = l.val[n]
  BY <1>4, ContentType
<1>11. Sane(r)
  BY <1>8, Zenon DEF Sane
<1>12. QED
  BY <1>3, <1>7, <1>9, <1>10, <1>11

\* cra_llist_get
LEMMA GetHolds ==
  ASSUME LListAssumption, NEW l, NEW o, NEW s, Holds(l, o, s), NEW k \in Nat, k < l.count
  PROVE  l.val[GetNode(l, k)] = Content(l)[k + 1]
<1>1. Lies(l, o, s, {}) /\ Filled(l.val, o)
  BY DEF Holds
<1>2. o \in Seq(Node) /\ l.count = Len(o)
  BY <1>1, LiesIs
<1>3. PICK i \in 1 .. Len(o) : i = k + 1 /\ k \in 0 .. Len(o) - 1
  BY <1>2
<1>4. GetNode(l, k) = o[i]
  BY <1>1, <1>3, GetNodeIs
<1>5. QED
  BY <1>3, <1>4, ContentType

\* cra_llist_get_and_set
LEMMA SetHolds ==
  ASSUME LListAssumption, NEW l, NEW o, NEW s, Holds(l, o, s), NEW k \in Nat, k < l.count, NEW v \in Val,
         NEW r, r = [l EXCEPT !.val[GetNode(l, k)] = v]
  PROVE  Sane(r) /\ Content(r) = [Content(l) EXCEPT ![k + 1] = v]
<1>1. Lies(l, o, s, {}) /\ Filled(l.val, o)
  BY DEF Holds
<1>2. o \in Seq(Node) /\ l.count = Len(o) /\ Distinct(o) /\ l \in ListSet
  BY <1>1, LiesIs
<1>3. PICK i \in 1 .. Len(o) : i = k + 1 /\ k \in 0 .. Len(o) - 1
  BY <1>2
<1>4. GetNode(l, k) = o[i] /\ o[i] \in Node
  BY <1>1, <1>2, <1>3, GetNodeIs
<1>5. l.val \in [Node -> Val \cup {NoVal}]
  BY <1>2, ListFields
<1>6. PICK x : x = [l.val EXCEPT ![o[i]] = v]
  OBVIOUS
<1>7. x \in [Node -> Val \cup {NoVal}] /\ \A m \in Node : x[m] = IF m = o[i] THEN v ELSE l.val[m]
  BY <1>4, <1>5, <1>6
<1>8. r = [l EXCEPT !.val = x]
  BY <1>2, <1>4, <1>6 DEF ListSet
<1>9. Lies(r, o, s, {}) /\ r.val = x
  <2>1. Lies(l, o, s, {}) /\ x \in [Node -> Val \cup {NoVal}] /\ r = [l EXCEPT !.val = x]
    BY <1>1, <1>7, <1>8
  <2>2. QED
    BY ONLY <2>1, LiesWithVal
<1>10. ASSUME NEW j \in 1 .. Len(o)
       PROVE  x[o[j]] = (IF j = i THEN v ELSE l.val[o[j]]) /\ x[o[j]] \in Val /\ l.val[o[j]] \in Val
  <2>1. o[j] \in Node /\ (o[j] = o[i] => j = i)
    BY <1>2 DEF Distinct
  <2>2. QED
    BY <1>1, <1>7, <2>1 DEF Filled
<1>11. Filled(x, o)
  BY <1>10 DEF Filled
<1>12. Holds(r, o, s)
  BY <1>9, <1>11 DEF Holds
<1>13. Sane(r)
  BY <1>12, Zenon DEF Sane
<1>14. Content(r) = ValuesOf(x, o) /\ Content(l) = ValuesOf(l.val, o)
  BY <1>1, <1>9, ContentIs
<1>15. ValuesOf(x, o) = [ValuesOf(l.val, o) EXCEPT ![i] = v]
  BY <1>2, <1>10 DEF ValuesOf
<1>16. QED
  BY <1>3, <1>13, <1>14, <1>15

\* The set of the nodes of the ring.
LEMMA RingSet ==
  ASSUME LListAssumption, NEW l, NEW o, NEW s, NEW x, Lies(l, o, s, x)
  PROVE  \A m : m \in ToSet(Order(l)) <=> In(m, o)
<1>1. Order(l) = o /\ o \in Seq(Node)
  BY OrderIs, LiesIs
<1>2. QED
  BY <1>1 DEF ToSet, In

\* q has the elements of o and of s.
HasBoth(q, o, s) == \A m : In(m, q) <=> In(m, o) \/ In(m, s)

\* One sequence of nodes behind the other.
LEMMA BothAre ==
  ASSUME NEW o \in Seq(Node), NEW s \in Seq(Node), Distinct(o), Distinct(s), Apart(o, s), NEW q, q = o \o s
  PROVE  q \in Seq(Node) /\ Len(q) = Len(o) + Len(s) /\ HasBoth(q, o, s) /\ Distinct(q)
<1>0a. PICK k \in Nat : k = Len(o)
  OBVIOUS
<1>0b. PICK c \in Nat : c = Len(s)
  OBVIOUS
<1>1. k = Len(o) /\ c = Len(s)
  BY <1>0a, <1>0b
<1>2. /\ q \in Seq(Node) /\ Len(q) = k + c
      /\ \A j \in 1 .. k : q[j] = o[j]
      /\ \A j \in 1 .. c : q[k + j] = s[j]
  BY <1>1
<1>3. /\ \A j \in 1 .. k : o[j] \in Node
      /\ \A j \in 1 .. c : s[j] \in Node
      /\ \A j \in 1 .. k, m \in 1 .. c : o[j] # s[m]
      /\ \A j, m \in 1 .. k : o[j] = o[m] => j = m
  BY <1>1 DEF Distinct, Apart
<1>8. ASSUME NEW m
      PROVE  In(m, q) <=> In(m, o) \/ In(m, s)
  <2>1. ASSUME In(m, q)
        PROVE  In(m, o) \/ In(m, s)
    <3>1. PICK j \in 1 .. k + c : q[j] = m
      BY <1>2, <2>1 DEF In
    <3>2. CASE j <= k
      BY <1>1, <1>2, <3>1, <3>2 DEF In
    <3>3. CASE j > k
      <4>1. PICK i \in 1 .. c : j = k + i
        <5>1. j - k \in 1 .. c /\ j = k + (j - k)
          BY <3>3
        <5>2. QED
          BY <5>1
      <4>2. QED
        BY <1>1, <1>2, <3>1, <4>1 DEF In
    <3>4. QED
      BY <3>2, <3>3
  <2>2. ASSUME In(m, o)
        PROVE  In(m, q)
    <3>1. PICK j \in 1 .. k : o[j] = m
      BY <1>1, <2>2 DEF In
    <3>2. j \in 1 .. Len(q) /\ q[j] = m
      BY <1>2, <3>1
    <3>3. QED
      BY <3>2 DEF In
  <2>3. ASSUME In(m, s)
        PROVE  In(m, q)
    <3>1. PICK j \in 1 .. c : s[j] = m
      BY <1>1, <2>3 DEF In
    <3>2. k + j \in 1 .. Len(q) /\ q[k + j] = m
      BY <1>2, <3>1
    <3>3. QED
      BY <3>2 DEF In
  <2>4. QED
    BY <2>1, <2>2, <2>3
<1>9. Distinct(q)
  <2>1. ASSUME NEW i \in 1 .. k + c, NEW j \in 1 .. k + c, q[i] = q[j], i < j
        PROVE  FALSE
    <3>1. CASE j <= k
      BY <1>2, <1>3, <2>1, <3>1
    <3>2. CASE j > k
      <4>1. PICK d \in 1 .. c : d = j - k
        BY <3>2
      <4>2. q[j] = s[d]
        <5>1. k + d = j
          BY <4>1
        <5>2. QED
          BY <1>2, <5>1
      <4>3. CASE i <= k
        BY <1>2, <1>3, <2>1, <4>2, <4>3
      <4>4. CASE i > k
        <5>1. PICK e \in 1 .. c : e = i - k
          BY <4>4
        <5>2. q[i] = s[e]
          <6>1. k + e = i
            BY <5>1
          <6>2. QED
            BY <1>2, <6>1
        <5>3. e = d
          BY <1>1, <2>1, <4>2, <5>2 DEF Distinct
        <5>4. QED
          BY <2>1, <4>1, <5>1, <5>3
      <4>5. QED
        BY <4>3, <4>4
    <3>3. QED
      BY <3>1, <3>2
  <2>2. QED
    BY <1>2, <2>1 DEF Distinct
<1>10. QED
  BY <1>1, <1>2, <1>8, <1>9 DEF HasBoth

\* f is next, but for a link from last to x.
LinksLast(f, next, last, x) == \A m \in Node : f[m] = IF m = last THEN x ELSE next[m]

\* One row behind the other.
LEMMA RowCat ==
  ASSUME NEW next \in Links, NEW prev, NEW o \in Seq(Node), NEW s \in Seq(Node), Len(o) > 0,
         Ring(next, prev, o), Row(next, s), Distinct(o), Apart(o, s),
         NEW last, last = o[Len(o)], NEW f \in Links,
         LinksLast(f, next, last, First(s)), NEW q, q = o \o s
  PROVE  Row(f, q) /\ q[1] = o[1]
<1>0a. PICK k \in Nat \ {0} : k = Len(o)
  OBVIOUS
<1>0b. PICK c \in Nat : c = Len(s)
  OBVIOUS
<1>1. k = Len(o) /\ c = Len(s)
  BY <1>0a, <1>0b
<1>2. /\ q \in Seq(Node) /\ Len(q) = k + c
      /\ \A j \in 1 .. k : q[j] = o[j]
      /\ \A j \in 1 .. c : q[k + j] = s[j]
  BY <1>1
<1>3. /\ \A j \in 1 .. k : o[j] \in Node
      /\ \A j \in 1 .. c : s[j] \in Node
      /\ \A j \in 1 .. k, m \in 1 .. c : o[j] # s[m]
      /\ \A j, m \in 1 .. k : o[j] = o[m] => j = m
  BY <1>1 DEF Distinct, Apart
<1>4. /\ f[o[k]] = First(s)
      /\ \A j \in 1 .. k - 1 : f[o[j]] = next[o[j]]
      /\ \A j \in 1 .. c : f[s[j]] = next[s[j]]
  <2>1. \A m \in Node : f[m] = IF m = o[k] THEN First(s) ELSE next[m]
    BY <1>1 DEF LinksLast
  <2>2. k \in 1 .. k /\ \A j \in 1 .. k - 1 : j \in 1 .. k /\ j # k
    OBVIOUS
  <2>3. QED
    BY <1>3, <2>1, <2>2
<1>5. ASSUME NEW j \in 1 .. k + c
      PROVE  f[q[j]] = IF j = k + c THEN Null ELSE q[j + 1]
  <2>1. CASE j < k
    <3>1. PICK i \in 1 .. k - 1 : i = j
      BY <2>1
    <3>2. next[o[i]] = o[i + 1] /\ q[i] = o[i] /\ q[i + 1] = o[i + 1]
      BY <1>1, <1>2 DEF Ring, Succ
    <3>3. QED
      BY <1>4, <2>1, <3>1, <3>2
  <2>2. CASE j = k
    <3>1. q[j] = o[k]
      BY <1>2, <2>2
    <3>2. CASE c = 0
      BY <1>1, <1>4, <2>2, <3>1, <3>2 DEF First
    <3>3. CASE c # 0
      <4>1. q[k + 1] = s[1] /\ First(s) = s[1]
        BY <1>1, <1>2, <3>3 DEF First
      <4>2. QED
        BY <1>4, <2>2, <3>1, <3>3, <4>1
    <3>4. QED
      BY <3>2, <3>3
  <2>3. CASE j > k
    <3>1. PICK i \in 1 .. c : i = j - k
      BY <2>3
    <3>2. q[j] = s[i] /\ (i # c => q[j + 1] = s[i + 1])
      <4>1. q[k + i] = s[i]
        BY <1>2
      <4>2. ASSUME i # c
            PROVE  q[j + 1] = s[i + 1]
        <5>1. PICK d \in 1 .. c : d = i + 1
          BY <4>2
        <5>2. q[k + d] = s[d] /\ k + d = j + 1
          BY <1>2, <3>1, <5>1
        <5>3. QED
          BY <5>1, <5>2
      <4>3. k + i = j
        BY <3>1
      <4>4. QED
        BY <4>1, <4>2, <4>3
    <3>3. next[s[i]] = IF i = c THEN Null ELSE s[i + 1]
      BY <1>1 DEF Row
    <3>4. j = k + c <=> i = c
      BY <3>1
    <3>5. QED
      BY <1>4, <3>2, <3>3, <3>4
  <2>4. j < k \/ j = k \/ j > k
    OBVIOUS
  <2>5. QED
    BY ONLY <2>1, <2>2, <2>3, <2>4
<1>6. Row(f, q)
  BY <1>2, <1>5 DEF Row
<1>7. q[1] = o[1]
  BY <1>1, <1>2
<1>8. QED
  BY <1>6, <1>7

\* cra_llist_clear
Emptied(l, ring) ==
  [l EXCEPT !.next[l.prev[l.head]] = l.free_list, !.nfreelist = @ + l.count,
            !.free_list = l.head, !.head = Null, !.count = 0,
            !.prev = [n \in Node |-> IF n \in ring THEN Null ELSE @[n]],
            !.val = [n \in Node |-> IF n \in ring THEN NoVal ELSE @[n]]]

\* It leaves nothing.
LEMMA ClearHolds ==
  ASSUME LListAssumption, NEW l, NEW o, NEW s, Holds(l, o, s), l.head # Null, NEW ring, ring = ToSet(Order(l)),
         NEW r, r = Emptied(l, ring)
  PROVE  Sane(r) /\ Content(r) = << >>
<1>1. Lies(l, o, s, {}) /\ Filled(l.val, o)
  BY DEF Holds
<1>2. /\ l \in ListSet
      /\ o \in Seq(Node) /\ s \in Seq(Node) /\ Distinct(o) /\ Distinct(s) /\ Apart(o, s)
      /\ Ring(l.next, l.prev, o) /\ Row(l.next, s)
      /\ l.head = First(o) /\ l.count = Len(o) /\ l.free_list = First(s) /\ l.nfreelist = Len(s)
  BY <1>1, LiesIs
<1>3. l.made = {m \in Node : In(m, o) \/ In(m, s)}
  BY <1>1, LiesMade
<1>4. l.prev \in Links /\ l.next \in Links /\ l.val \in [Node -> Val \cup {NoVal}] /\ l.made \in SUBSET Node
      /\ l.head \in Node \cup {Null} /\ l.free_list \in Node \cup {Null}
  BY <1>2, ListFields
<1>5. Len(o) > 0 /\ Len(o) \in Nat /\ Len(s) \in Nat
  BY <1>2, FirstIs
<1>6. l.prev[l.head] = o[Len(o)]
  <2>1. Len(o) \in 1 .. Len(o) /\ Succ(Len(o), Len(o)) = 1 /\ l.head = o[1]
    BY <1>2, <1>5, FirstIs DEF Succ
  <2>2. QED
    BY <1>2, <2>1 DEF Ring
<1>7. PICK f : f = [l.next EXCEPT ![o[Len(o)]] = First(s)]
  OBVIOUS
<1>8. PICK b : b = [n \in Node |-> IF n \in ring THEN Null ELSE l.prev[n]]
  OBVIOUS
<1>9. PICK v : v = [n \in Node |-> IF n \in ring THEN NoVal ELSE l.val[n]]
  OBVIOUS
<1>10. b \in Links /\ v \in [Node -> Val \cup {NoVal}] /\ f \in Links
  BY <1>2, <1>4, <1>5, <1>7, <1>8, <1>9 DEF Links
<1>11. PICK q : q = o \o s
  OBVIOUS
<1>12. /\ q \in Seq(Node) /\ Len(q) = Len(o) + Len(s) /\ Row(f, q) /\ First(q) = First(o)
       /\ \A m : In(m, q) <=> In(m, o) \/ In(m, s)
       /\ Distinct(s) => Distinct(q)
  <2>1. q \in Seq(Node) /\ Len(q) = Len(o) + Len(s) /\ HasBoth(q, o, s) /\ Distinct(q)
    BY <1>2, <1>11, BothAre
  <2>2. PICK next, prev : next = l.next /\ prev = l.prev
    OBVIOUS
  <2>3. PICK last : last = o[Len(o)]
    OBVIOUS
  <2>4. next \in Links /\ Ring(next, prev, o) /\ Row(next, s)
        /\ LinksLast(f, next, last, First(s)) /\ f \in Links /\ o \in Seq(Node) /\ s \in Seq(Node) /\ Len(o) > 0
        /\ Distinct(o) /\ Apart(o, s) /\ last = o[Len(o)] /\ q = o \o s
    BY <1>2, <1>4, <1>5, <1>7, <1>10, <1>11, <2>2, <2>3 DEF Links, LinksLast
  <2>5. Row(f, q) /\ q[1] = o[1]
    <3>1. Row(f, q)
      BY ONLY <2>4, RowCat, Zenon
    <3>2. q[1] = o[1]
      BY ONLY <2>4, RowCat
    <3>3. QED
      BY <3>1, <3>2
  <2>6. First(q) = First(o)
    BY <1>5, <2>1, <2>5 DEF First
  <2>7. QED
    BY <2>1, <2>5, <2>6 DEF HasBoth
<1>13. r = [head |-> Null, count |-> 0, free_list |-> l.head, nfreelist |-> l.nfreelist + l.count,
            made |-> l.made, prev |-> b, next |-> f, val |-> v]
  BY <1>2, <1>6, <1>7, <1>8, <1>9 DEF ListSet, Emptied
<1>14. r \in ListSet /\ IsList(r, Null, 0, l.head, l.nfreelist + l.count, l.made, b, f, v)
  <2>1. Null \in Node \cup {Null} /\ 0 \in Nat /\ l.nfreelist + l.count \in Nat
    BY <1>2, <1>5
  <2>2. QED
    BY <1>4, <1>10, <1>13, <2>1, RecordIs
<1>15. /\ r.head = Null /\ r.count = 0 /\ r.free_list = l.head /\ r.nfreelist = l.nfreelist + l.count
       /\ r.made = l.made /\ r.prev = b /\ r.next = f /\ r.val = v
  BY <1>14 DEF IsList
<1>16a. PICK none : none = << >>
  OBVIOUS
<1>16. none \in Seq(Node) /\ none = << >> /\ Len(none) = 0
  BY <1>16a
<1>17. /\ Distinct(none) /\ Apart(none, q) /\ Ring(f, b, none) /\ First(none) = Null /\ Filled(v, none)
       /\ \A m : ~In(m, none)
  BY <1>16 DEF Distinct, Apart, Ring, First, Filled, In
<1>18. r.made = {m \in Node : In(m, none) \/ In(m, q) \/ m \in {}}
  BY <1>3, <1>12, <1>15, <1>17
<1>19. Lies(r, none, q, {})
  <2>1. r.nfreelist = Len(q) /\ r.free_list = First(q) /\ r.head = First(none) /\ r.count = Len(none)
    BY <1>2, <1>5, <1>12, <1>15, <1>16, <1>17
  <2>2. QED
    BY <1>2, <1>12, <1>14, <1>15, <1>16, <1>17, <1>18, <2>1 DEF Lies
<1>20. Holds(r, none, q)
  BY <1>15, <1>17, <1>19 DEF Holds
<1>21. Sane(r)
  BY <1>20, Zenon DEF Sane
<1>22. Content(r) \in Seq(Val) /\ Len(Content(r)) = 0
  BY <1>16, <1>20, ContentType
<1>23. QED
  BY <1>21, <1>22

\* The nodes are not infinitely many.
LEMMA NodesFinite ==
  ASSUME LListAssumption
  PROVE  IsFiniteSet(Node) /\ Cardinality(Node) = Nodes
BY FS_Interval DEF LListAssumption, Node

\* A new node among the spare ones.
Added(l) == PutFree([l EXCEPT !.made = @ \cup {Unmade(l)}], Unmade(l))

\* The node that is allocated next.
LEMMA UnmadeIs ==
  ASSUME LListAssumption, NEW l \in ListSet, CanCreate(l)
  PROVE  Unmade(l) \in Node /\ Unmade(l) \notin l.made
<1>1. Node \ l.made # {} /\ Node \ l.made \in SUBSET Nat
  BY ListFields, NodesAre DEF CanCreate
<1>2. QED
  BY <1>1, HasMin DEF Unmade

\* A list with one spare node more is a list.
LEMMA AddedType ==
  ASSUME LListAssumption, NEW l \in ListSet, CanCreate(l)
  PROVE  Added(l) \in ListSet
<1>1. PICK n : n = Unmade(l)
  OBVIOUS
<1>2. n \in Node /\ l.made \cup {n} \in SUBSET Node
  BY <1>1, UnmadeIs, ListFields
<1>3. PICK r : r = [l EXCEPT !.made = l.made \cup {n}]
  OBVIOUS
<1>4. r \in ListSet
  BY <1>2, <1>3, WithMade
<1>5. Added(l) = PutFree(r, n)
  BY <1>1, <1>3 DEF Added
<1>6. QED
  BY <1>2, <1>4, <1>5, PutFreeIs

\* r is l with i spare nodes more.
Grown(l, r, o, i) ==
  /\ \E t : Holds(r, o, t)
  /\ ValuesOf(r.val, o) = ValuesOf(l.val, o)
  /\ Cardinality(r.made) = Cardinality(l.made) + i

\* The nodes that are allocated can be counted.
LEMMA MadeFinite ==
  ASSUME LListAssumption, NEW l \in ListSet
  PROVE  IsFiniteSet(l.made) /\ Cardinality(l.made) \in Nat
<1>1. l.made \subseteq Node /\ IsFiniteSet(Node)
  BY ListFields, NodesFinite
<1>2. IsFiniteSet(l.made)
  BY <1>1, FS_Subset
<1>3. QED
  BY <1>2, FS_CardinalityType

\* One spare node more.
LEMMA GrownMore ==
  ASSUME LListAssumption, NEW l \in ListSet, NEW r, NEW o, NEW i \in Nat, Grown(l, r, o, i),
         i < Nodes - Cardinality(l.made)
  PROVE  r \in ListSet /\ CanCreate(r) /\ Grown(l, Added(r), o, i + 1)
<1>1. PICK t : Holds(r, o, t)
  BY DEF Grown
<1>2. Lies(r, o, t, {}) /\ Filled(r.val, o)
  BY <1>1 DEF Holds
<1>3. /\ r \in ListSet
      /\ o \in Seq(Node) /\ t \in Seq(Node) /\ Distinct(o) /\ Distinct(t) /\ Apart(o, t)
      /\ Ring(r.next, r.prev, o) /\ Row(r.next, t)
      /\ r.head = First(o) /\ r.count = Len(o) /\ r.free_list = First(t) /\ r.nfreelist = Len(t)
  BY <1>2, LiesIs
<1>4. r.made = {m \in Node : In(m, o) \/ In(m, t)}
  BY <1>2, LiesMade
<1>5. Cardinality(r.made) = Cardinality(l.made) + i /\ Cardinality(l.made) \in Nat /\ IsFiniteSet(r.made)
  BY <1>3, MadeFinite DEF Grown
<1>6. CanCreate(r)
  <2>1. Nodes \in Nat /\ Cardinality(Node) = Nodes
    BY NodesFinite DEF LListAssumption
  <2>2. QED
    BY <1>5, <2>1 DEF CanCreate
<1>7. PICK n : n = Unmade(r)
  OBVIOUS
<1>8. n \in Node /\ n \notin r.made
  BY <1>3, <1>6, <1>7, UnmadeIs
<1>9. PICK u : u = r.made \cup {n}
  OBVIOUS
<1>10. u \in SUBSET Node /\ Cardinality(u) = Cardinality(l.made) + (i + 1)
  <2>1. Cardinality(u) = Cardinality(r.made) + 1
    BY <1>5, <1>8, <1>9, FS_AddElement
  <2>2. u \in SUBSET Node
    BY <1>3, <1>8, <1>9, ListFields
  <2>3. QED
    BY <1>5, <2>1, <2>2
<1>11. PICK w : w = [r EXCEPT !.made = u]
  OBVIOUS
<1>12. /\ w \in ListSet
       /\ w.head = r.head /\ w.count = r.count /\ w.free_list = r.free_list /\ w.nfreelist = r.nfreelist
       /\ w.made = u /\ w.prev = r.prev /\ w.next = r.next /\ w.val = r.val
  <2>1. w \in ListSet /\ IsList(w, r.head, r.count, r.free_list, r.nfreelist, u, r.prev, r.next, r.val)
    BY <1>3, <1>10, <1>11, WithMade
  <2>2. QED
    BY <2>1 DEF IsList
<1>13. Lies(w, o, t, {n})
  <2>1. \A m \in {n} : ~In(m, o) /\ ~In(m, t)
    BY <1>4, <1>8
  <2>2. w.made = {m \in Node : In(m, o) \/ In(m, t) \/ m \in {n}}
    BY <1>4, <1>8, <1>9, <1>12
  <2>3. QED
    BY <1>3, <1>12, <2>1, <2>2 DEF Lies
<1>14. PICK g, q : g = PutFree(w, n) /\ q = InsertAt(t, 1, n)
  OBVIOUS
<1>15. Lies(g, o, q, {}) /\ \A m \in Node : m # n => g.val[m] = w.val[m]
  BY <1>8, <1>13, <1>14, LiesPutFree
<1>16. g.made = u
  <2>1. g.made = w.made
    <3>1. w \in ListSet /\ n \in Node /\ g = PutFree(w, n)
      BY <1>8, <1>12, <1>14
    <3>2. IsList(g, w.head, w.count, n, w.nfreelist + 1, w.made, [w.prev EXCEPT ![n] = Null],
                 [w.next EXCEPT ![n] = w.free_list], [w.val EXCEPT ![n] = NoVal])
      BY ONLY <3>1, PutFreeIs
    <3>3. QED
      BY <3>2 DEF IsList
  <2>2. QED
    BY <1>12, <2>1
<1>17. ~In(n, o)
  BY <1>13, LiesMade
<1>18. Filled(g.val, o) /\ ValuesOf(g.val, o) = ValuesOf(r.val, o)
  <2>1. \A m \in Node : In(m, o) => g.val[m] = r.val[m]
    BY <1>12, <1>15, <1>17
  <2>2. QED
    BY <1>2, <1>3, <2>1, ValuesStay
<1>19. Holds(g, o, q)
  BY <1>15, <1>18 DEF Holds
<1>20. Added(r) = g
  BY <1>7, <1>9, <1>11, <1>14 DEF Added
<1>21. ValuesOf(g.val, o) = ValuesOf(l.val, o)
  BY <1>18 DEF Grown
<1>22. Grown(l, g, o, i + 1)
  BY <1>10, <1>16, <1>19, <1>21 DEF Grown
<1>23. QED
  BY <1>3, <1>6, <1>20, <1>22

\* What the recursive function of ReserveMore is.
AddsTo(h, l, n) == h = [i \in 0 .. n |-> IF i = 0 THEN l ELSE Added(h[i - 1])]

\* cra_llist_reserve, of more spare nodes.
LEMMA AddHolds ==
  ASSUME LListAssumption, NEW l, NEW o, NEW s, Holds(l, o, s), NEW n \in Nat, n <= Nodes - Cardinality(l.made),
         NEW add, add = CHOOSE h : AddsTo(h, l, n)
  PROVE  Sane(add[n]) /\ Content(add[n]) = Content(l)
<1>1. l \in ListSet /\ Lies(l, o, s, {})
  BY LiesIs DEF Holds
<1>2. Cardinality(l.made) \in Nat /\ Nodes \in Nat
  BY <1>1, MadeFinite DEF LListAssumption
<1> DEFINE G == [r \in ListSet |-> IF CanCreate(r) THEN Added(r) ELSE r]
<1>3. G \in [ListSet -> ListSet]
  BY AddedType
<1>4. \A r \in ListSet : CanCreate(r) => G[r] = Added(r)
  OBVIOUS
<1> HIDE DEF G
<1>5. PICK f : Iterated(f, ListSet, G, l, n)
  BY <1>1, <1>3, Iterates
<1>6. f \in [0 .. n -> ListSet] /\ f[0] = l /\ \A i \in 1 .. n : f[i] = G[f[i - 1]]
  BY <1>5 DEF Iterated
<1> DEFINE T == {i \in Nat : i <= n => Grown(l, f[i], o, i)}
<1>7. 0 \in T
  <2>1. Cardinality(l.made) = Cardinality(l.made) + 0
    BY <1>2
  <2>2. Grown(l, l, o, 0)
    BY <2>1 DEF Grown
  <2>3. QED
    BY <1>6, <2>2
<1>8. ASSUME NEW i \in Nat, i \in T
      PROVE  i + 1 \in T
  <2>1. SUFFICES ASSUME i + 1 <= n PROVE Grown(l, f[i + 1], o, i + 1)
    OBVIOUS
  <2>2. Grown(l, f[i], o, i) /\ i < Nodes - Cardinality(l.made)
    BY <1>2, <1>8, <2>1
  <2>3. f[i] \in ListSet /\ CanCreate(f[i]) /\ Grown(l, Added(f[i]), o, i + 1)
    BY <1>1, <2>2, GrownMore
  <2>4. PICK j \in 1 .. n : j = i + 1
    BY <2>1
  <2>5. f[j] = G[f[j - 1]] /\ j - 1 = i
    BY <1>6, <2>4
  <2>6. f[i + 1] = Added(f[i])
    BY <1>4, <2>3, <2>4, <2>5
  <2>7. QED
    BY <2>3, <2>6
<1> HIDE DEF T
<1>9. \A i \in Nat : i \in T
  BY <1>7, <1>8, SetInduction
<1>10. \A i \in 0 .. n : Grown(l, f[i], o, i)
  BY <1>9 DEF T
<1>11. ASSUME NEW i \in 1 .. n
       PROVE  f[i] = Added(f[i - 1])
  <2>1. PICK j \in 0 .. n : j = i - 1 /\ j \in Nat /\ j < Nodes - Cardinality(l.made)
    BY <1>2
  <2>2. Grown(l, f[j], o, j)
    BY <1>10
  <2>3. f[j] \in ListSet /\ CanCreate(f[j])
    BY <1>1, <2>1, <2>2, GrownMore
  <2>4. QED
    BY <1>4, <1>6, <2>1, <2>3
<1>12. AddsTo(f, l, n)
  <2>1. f = [i \in 0 .. n |-> f[i]]
    BY <1>6
  <2>2. \A i \in 0 .. n : f[i] = IF i = 0 THEN l ELSE Added(f[i - 1])
    <3>1. \A i \in 0 .. n : i # 0 => i \in 1 .. n
      OBVIOUS
    <3>2. QED
      BY <1>6, <1>11, <3>1
  <2>3. QED
    BY <2>1, <2>2, Zenon DEF AddsTo
<1>13. AddsTo(add, l, n)
  BY <1>12, Zenon
<1>14. ASSUME NEW i \in 0 .. n
       PROVE  add[i] = IF i = 0 THEN l ELSE Added(add[i - 1])
  BY <1>13, Zenon DEF AddsTo
<1> DEFINE E == {i \in Nat : i <= n => add[i] = f[i]}
<1>15. 0 \in E
  BY <1>6, <1>14
<1>16. ASSUME NEW i \in Nat, i \in E
       PROVE  i + 1 \in E
  <2>1. SUFFICES ASSUME i + 1 <= n PROVE add[i + 1] = f[i + 1]
    OBVIOUS
  <2>2. PICK j : j = i + 1
    OBVIOUS
  <2>3. j \in 0 .. n /\ j \in 1 .. n /\ j # 0 /\ j - 1 = i /\ add[i] = f[i]
    BY <1>16, <2>1, <2>2
  <2>4. QED
    BY <1>11, <1>14, <2>2, <2>3
<1> HIDE DEF E
<1>17. \A i \in Nat : i \in E
  BY <1>15, <1>16, SetInduction
<1>18. add[n] = f[n]
  BY <1>17 DEF E
<1>19. PICK r : r = add[n]
  OBVIOUS
<1>20. Grown(l, r, o, n)
  BY <1>10, <1>18, <1>19
<1>21. PICK t : Holds(r, o, t)
  BY <1>20 DEF Grown
<1>22. ValuesOf(r.val, o) = ValuesOf(l.val, o)
  BY <1>20 DEF Grown
<1>23. Content(r) = ValuesOf(r.val, o) /\ Content(l) = ValuesOf(l.val, o)
  BY <1>1, <1>21, ContentIs DEF Holds
<1>24. Sane(r)
  BY <1>21, Zenon DEF Sane
<1>25. QED
  BY <1>19, <1>22, <1>23, <1>24

\* The nodes in the other order.
LEMMA ReversedNodes ==
  ASSUME NEW o \in Seq(Node), NEW q, IsBackwards(Node, q, o), Distinct(o)
  PROVE  Distinct(q) /\ \A m : In(m, q) <=> In(m, o)
<1>1. PICK k \in Nat : k = Len(o)
  OBVIOUS
<1>2. \A i \in 1 .. k : k - i + 1 \in 1 .. k /\ k - (k - i + 1) + 1 = i
  OBVIOUS
<1>3. Len(q) = k /\ \A i \in 1 .. k : q[i] = o[k - i + 1]
  BY <1>1 DEF IsBackwards
<1>4. ASSUME NEW m, In(m, q)
      PROVE  In(m, o)
  <2>1. PICK i \in 1 .. k : q[i] = m
    BY <1>3, <1>4 DEF In
  <2>2. PICK j \in 1 .. k : j = k - i + 1
    BY <1>2
  <2>3. o[j] = m
    BY <1>3, <2>1, <2>2
  <2>4. QED
    BY <1>1, <2>3 DEF In
<1>5. ASSUME NEW m, In(m, o)
      PROVE  In(m, q)
  <2>1. PICK i \in 1 .. k : o[i] = m
    BY <1>1, <1>5 DEF In
  <2>2. PICK j \in 1 .. k : j = k - i + 1
    BY <1>2
  <2>3. k - j + 1 = i
    BY <2>2
  <2>4. q[j] = m
    BY <1>3, <2>1, <2>3
  <2>5. QED
    BY <1>3, <2>4 DEF In
<1>6. ASSUME NEW i \in 1 .. k, NEW j \in 1 .. k, q[i] = q[j]
      PROVE  i = j
  <2>1. PICK g \in 1 .. k : g = k - i + 1
    BY <1>2
  <2>2. PICK h \in 1 .. k : h = k - j + 1
    BY <1>2
  <2>3. o[g] = o[h]
    BY <1>3, <1>6, <2>1, <2>2
  <2>4. g = h
    BY <1>1, <2>3 DEF Distinct
  <2>5. QED
    BY <2>1, <2>2, <2>4
<1>7. QED
  BY <1>3, <1>4, <1>5, <1>6 DEF Distinct

\* cra_llist_reverse
Reversed(l, ring) ==
  [l EXCEPT !.prev = [n \in Node |-> IF n \in ring THEN l.next[n] ELSE @[n]],
            !.next = [n \in Node |-> IF n \in ring THEN l.prev[n] ELSE @[n]],
            !.head = l.prev[l.head]]

\* It turns the elements round.
LEMMA ReverseHolds ==
  ASSUME LListAssumption, NEW l, NEW o, NEW s, Holds(l, o, s), l.count >= 2, NEW ring, ring = ToSet(Order(l)),
         NEW r, r = Reversed(l, ring)
  PROVE  Sane(r) /\ Content(r) = Reverse(Content(l))
<1>1. Lies(l, o, s, {}) /\ Filled(l.val, o)
  BY DEF Holds
<1>2. /\ l \in ListSet
      /\ o \in Seq(Node) /\ s \in Seq(Node) /\ Distinct(o) /\ Distinct(s) /\ Apart(o, s)
      /\ Ring(l.next, l.prev, o) /\ Row(l.next, s)
      /\ l.head = First(o) /\ l.count = Len(o) /\ l.free_list = First(s) /\ l.nfreelist = Len(s)
  BY <1>1, LiesIs
<1>3. l.made = {m \in Node : In(m, o) \/ In(m, s)}
  BY <1>1, LiesMade
<1>4. l.prev \in Links /\ l.next \in Links /\ l.val \in [Node -> Val \cup {NoVal}] /\ l.made \in SUBSET Node
      /\ l.free_list \in Node \cup {Null} /\ l.count \in Nat /\ l.nfreelist \in Nat
  BY <1>2, ListFields
<1>5. \A m : m \in ring <=> In(m, o)
  BY <1>1, RingSet
<1>6. PICK f : f = [n \in Node |-> IF n \in ring THEN l.prev[n] ELSE l.next[n]]
  OBVIOUS
<1>7. PICK b : b = [n \in Node |-> IF n \in ring THEN l.next[n] ELSE l.prev[n]]
  OBVIOUS
<1>8. f \in Links /\ b \in Links
  BY <1>4, <1>6, <1>7 DEF Links
<1>9. PICK q : q = Reverse(o)
  OBVIOUS
<1>9a. IsBackwards(Node, q, o)
  BY <1>2, <1>9, BackwardsIs
<1>10. q \in Seq(Node) /\ Len(q) = Len(o) /\ \A i \in 1 .. Len(o) : q[i] = o[Len(o) - i + 1]
  BY <1>9a DEF IsBackwards
<1>11. Distinct(q) /\ \A m : In(m, q) <=> In(m, o)
  BY <1>2, <1>9a, ReversedNodes
<1>12. Ring(f, b, q)
  <2>1. PICK next, prev : next = l.next /\ prev = l.prev
    OBVIOUS
  <2>2. Turned(f, b, next, prev, o)
    BY <1>5, <1>6, <1>7, <2>1 DEF Turned
  <2>3. Ring(next, prev, o)
    BY <1>2, <2>1
  <2>4. QED
    BY <1>2, <1>9a, <2>2, <2>3, RingReverse
<1>13. \A m : ~(In(m, o) /\ In(m, s))
  BY <1>2, ApartIs
<1>14. Row(f, s)
  <2>1. \A m \in Node : In(m, s) => f[m] = l.next[m]
    BY <1>5, <1>6, <1>13
  <2>2. QED
    BY <1>2, <2>1, RowStays
<1>15. Apart(q, s)
  <2>1. \A m : ~(In(m, q) /\ In(m, s))
    BY <1>11, <1>13
  <2>2. QED
    BY <1>2, <1>10, <2>1, ApartIs
<1>16. l.prev[l.head] = First(q) /\ First(q) \in Node
  <2>1. Len(o) \in 1 .. Len(o) /\ Succ(Len(o), Len(o)) = 1 /\ l.head = o[1]
    BY <1>2, FirstIs DEF Succ
  <2>2. l.prev[l.head] = o[Len(o)]
    BY <1>2, <2>1 DEF Ring
  <2>3. 1 \in 1 .. Len(o) /\ Len(o) - 1 + 1 = Len(o)
    BY <1>2
  <2>4. q[1] = o[Len(o)]
    BY <1>10, <2>3
  <2>5. First(q) = q[1] /\ q[1] \in Node
    BY <1>2, <1>10, FirstIs
  <2>6. QED
    BY <2>2, <2>4, <2>5
<1>17. r = [head |-> First(q), count |-> l.count, free_list |-> l.free_list, nfreelist |-> l.nfreelist,
            made |-> l.made, prev |-> b, next |-> f, val |-> l.val]
  BY <1>2, <1>6, <1>7, <1>16 DEF ListSet, Reversed
<1>18. r \in ListSet /\ IsList(r, First(q), l.count, l.free_list, l.nfreelist, l.made, b, f, l.val)
  BY <1>4, <1>8, <1>16, <1>17, RecordIs
<1>19. /\ r.head = First(q) /\ r.count = Len(q) /\ r.free_list = First(s) /\ r.nfreelist = Len(s)
       /\ r.made = l.made /\ r.prev = b /\ r.next = f /\ r.val = l.val
  BY <1>2, <1>10, <1>18 DEF IsList
<1>20. r.made = {m \in Node : In(m, q) \/ In(m, s) \/ m \in {}}
  BY <1>3, <1>11, <1>19
<1>21. Lies(r, q, s, {})
  BY <1>2, <1>10, <1>11, <1>12, <1>14, <1>15, <1>18, <1>19, <1>20 DEF Lies
<1>22. \A i \in 1 .. Len(o) : Len(o) - i + 1 \in 1 .. Len(o)
  BY <1>2
<1>23. Filled(l.val, q)
  BY <1>1, <1>10, <1>22 DEF Filled
<1>24. Holds(r, q, s)
  BY <1>19, <1>21, <1>23 DEF Holds
<1>25. ValuesOf(l.val, q) = Reverse(ValuesOf(l.val, o))
  <2>1. PICK c, d : c = ValuesOf(l.val, o) /\ d = ValuesOf(l.val, q)
    OBVIOUS
  <2>2. c \in Seq(Val) /\ Len(c) = Len(o) /\ \A i \in 1 .. Len(o) : c[i] = l.val[o[i]]
    BY <1>1, <1>2, <2>1, ValuesType
  <2>3. d \in Seq(Val) /\ Len(d) = Len(q) /\ \A i \in 1 .. Len(q) : d[i] = l.val[q[i]]
    BY <1>10, <1>23, <2>1, ValuesType
  <2>4. PICK e : e = Reverse(c)
    OBVIOUS
  <2>5a. IsBackwards(Val, e, c)
    BY <2>2, <2>4, BackwardsIs
  <2>5. e \in Seq(Val) /\ Len(e) = Len(c) /\ \A i \in 1 .. Len(c) : e[i] = c[Len(c) - i + 1]
    BY <2>5a DEF IsBackwards
  <2>6. ASSUME NEW i \in 1 .. Len(o)
        PROVE  d[i] = e[i]
    <3>1. PICK j \in 1 .. Len(o) : j = Len(o) - i + 1
      BY <1>22
    <3>2. q[i] = o[j] /\ e[i] = c[j]
      BY <1>10, <2>2, <2>5, <3>1
    <3>3. QED
      BY <1>10, <2>2, <2>3, <3>2
  <2>7. d = e
    BY <1>10, <2>2, <2>3, <2>5, <2>6, SeqEqual
  <2>8. QED
    BY <2>1, <2>4, <2>7
<1>26. Content(r) = ValuesOf(l.val, q) /\ Content(l) = ValuesOf(l.val, o)
  BY <1>1, <1>19, <1>21, ContentIs
<1>27. Sane(r)
  BY <1>24, Zenon DEF Sane
<1>28. QED
  BY <1>25, <1>26, <1>27

\* A list of one backwards.
LEMMA ReverseFew ==
  ASSUME LListAssumption, NEW l, NEW o, NEW s, Holds(l, o, s), l.count < 2
  PROVE  Reverse(Content(l)) = Content(l)
<1>1. PICK c : c = Content(l)
  OBVIOUS
<1>2. c \in Seq(Val) /\ Len(c) < 2
  BY <1>1, ContentType
<1>3. PICK e : e = Reverse(c)
  OBVIOUS
<1>4a. IsBackwards(Val, e, c)
  BY <1>2, <1>3, BackwardsIs
<1>4. e \in Seq(Val) /\ Len(e) = Len(c) /\ \A i \in 1 .. Len(c) : e[i] = c[Len(c) - i + 1]
  BY <1>4a DEF IsBackwards
<1>5. \A i \in 1 .. Len(c) : Len(c) - i + 1 = i
  BY <1>2
<1>6. e = c
  BY <1>2, <1>4, <1>5, SeqEqual
<1>7. QED
  BY <1>1, <1>3, <1>6

\* A new list is empty.
LEMMA FreshHolds ==
  ASSUME LListAssumption
  PROVE  Sane(Fresh) /\ Content(Fresh) = << >>
<1>1. PICK none : none = << >>
  OBVIOUS
<1>2. none \in Seq(Node) /\ Len(none) = 0
  BY <1>1
<1>3. PICK b : b = [n \in Node |-> Null]
  OBVIOUS
<1>4. PICK v : v = [n \in Node |-> NoVal]
  OBVIOUS
<1>5. b \in Links /\ v \in [Node -> Val \cup {NoVal}]
  BY <1>3, <1>4 DEF Links
<1>6. PICK r : r = Fresh
  OBVIOUS
<1>7. r = [head |-> Null, count |-> 0, free_list |-> Null, nfreelist |-> 0, made |-> {}, prev |-> b, next |-> b,
           val |-> v]
  BY <1>3, <1>4, <1>6 DEF Fresh
<1>8. r \in ListSet /\ IsList(r, Null, 0, Null, 0, {}, b, b, v)
  BY <1>5, <1>7, RecordIs
<1>9. /\ r.head = Null /\ r.count = 0 /\ r.free_list = Null /\ r.nfreelist = 0 /\ r.made = {} /\ r.prev = b
      /\ r.next = b /\ r.val = v
  BY <1>8 DEF IsList
<1>10. /\ Distinct(none) /\ Apart(none, none) /\ Ring(b, b, none) /\ Row(b, none) /\ First(none) = Null
       /\ Filled(v, none) /\ \A m : ~In(m, none)
  BY <1>2 DEF Distinct, Apart, Ring, Row, First, Filled, In
<1>11. Lies(r, none, none, {})
  BY <1>2, <1>8, <1>9, <1>10 DEF Lies
<1>12. Holds(r, none, none)
  BY <1>9, <1>10, <1>11 DEF Holds
<1>13. Sane(r)
  BY <1>12, Zenon DEF Sane
<1>14. Content(r) \in Seq(Val) /\ Len(Content(r)) = 0
  BY <1>2, <1>12, ContentType
<1>15. QED
  BY <1>6, <1>13, <1>14

\* cra_llist_reserve, of fewer spare nodes.
Shrunk(l, n) ==
  LET gone == {Hop(l.next, l.free_list, i) : i \in 0 .. n - 1}
  IN  [l EXCEPT !.free_list = Hop(l.next, @, n), !.made = @ \ gone,
                !.next = [m \in Node |-> IF m \in gone THEN Null ELSE @[m]]]

\* When there are as many spare nodes as are asked for, none is freed.
LEMMA NothingFreed ==
  ASSUME LListAssumption, NEW l, NEW o, NEW s, Holds(l, o, s)
  PROVE  Shrunk(l, 0) = l
<1>a. PICK gone : gone = {Hop(l.next, l.free_list, i) : i \in 0 .. 0 - 1}
  OBVIOUS
<1>b. PICK r : r = Shrunk(l, 0)
  OBVIOUS
<1>c. r = [l EXCEPT !.free_list = Hop(l.next, @, 0), !.made = @ \ gone,
                    !.next = [m \in Node |-> IF m \in gone THEN Null ELSE @[m]]]
  BY <1>a, <1>b DEF Shrunk
<1>1. l \in ListSet
  BY LiesIs DEF Holds
<1>2. gone = {}
  BY <1>a
<1>3. Hop(l.next, l.free_list, 0) = l.free_list
  <2>1. PICK w : w = [i \in 0 .. 0 |-> l.free_list]
    OBVIOUS
  <2>2. w[0] = l.free_list
    BY <2>1
  <2>3. \A i \in 1 .. 0 : w[i] = Next1(l.next, w[i - 1])
    OBVIOUS
  <2>4. Hop(l.next, l.free_list, 0) = w[0]
    BY <2>2, <2>3, HopIs
  <2>5. QED
    BY <2>2, <2>4
<1>4. PICK f : f = [m \in Node |-> IF m \in gone THEN Null ELSE l.next[m]]
  OBVIOUS
<1>5. f = l.next
  <2>1. l.next \in Links
    BY <1>1, ListFields
  <2>2. QED
    BY <1>2, <1>4, <2>1 DEF Links
<1>6. l.made \ gone = l.made
  BY <1>2
<1>7. r = [head |-> l.head, count |-> l.count, free_list |-> l.free_list, nfreelist |-> l.nfreelist,
           made |-> l.made, prev |-> l.prev, next |-> l.next, val |-> l.val]
  <2>1. r = [l EXCEPT !.free_list = l.free_list, !.made = l.made, !.next = f]
    BY <1>3, <1>4, <1>6, <1>c
  <2>2. QED
    BY <1>1, <1>5, <2>1 DEF ListSet
<1>8. QED
  BY <1>1, <1>7, <1>b DEF ListSet

\* The sort of the list is the sort that is shown to sort.
LEMMA SortedBoth ==
  ASSUME NEW c
  PROVE  S!Sorted(c) = Sorted(c)
<1>1. \A t, left, right, temp : S!Parted(t, left, right, temp) = Parted(t, left, right, temp)
  BY DEF S!Parted, Parted, S!Meet, Meet, S!StopsBelow, StopsBelow, S!StopsBeyond, StopsBeyond, S!Max, Max, S!Min, Min
<1>2. \A m : S!SortPart(m) = SortPart(m)
  BY <1>1 DEF S!SortPart, SortPart, S!WorthSorting, WorthSorting
<1>3. \A t, begin, end : S!QuickSorted(t, begin, end) = QuickSorted(t, begin, end)
  BY ZenonT(60) DEF S!QuickSorted, QuickSorted, S!SortPart, SortPart, S!WorthSorting, WorthSorting, S!Parted, Parted, S!Meet, Meet,
         S!StopsBelow, StopsBelow, S!StopsBeyond, StopsBeyond, S!Max, Max, S!Min, Min
<1>4. QED
  BY <1>3 DEF S!Sorted, Sorted

\* cra_llist_sort, when there is a node to keep an element in meanwhile.
LEMMA SortHolds ==
  ASSUME LListAssumption, NEW l, NEW o, NEW s, Holds(l, o, s), l.free_list # Null \/ CanCreate(l),
         NEW order, order = Order(l), NEW spare, spare = PutFree(WithoutFree(l), FreeNode(l)),
         NEW r, r = [spare EXCEPT !.val = [n \in Node |->
           IF n \in ToSet(order) THEN S!Sorted(Content(l))[CHOOSE i \in DOMAIN order : order[i] = n] ELSE @[n]]]
  PROVE  Sane(r) /\ SortsTo(Content(r), Content(l))
<1>1. PICK t : Holds(spare, o, t) /\ \A m \in Node : In(m, o) => spare.val[m] = l.val[m]
  <2>1. PICK n, w : n = FreeNode(l) /\ w = WithoutFree(l)
    OBVIOUS
  <2>2. spare = PutFree(w, n)
    BY <2>1
  <2>3. QED
    BY <2>1, <2>2, NoPlaceHolds
<1>2. Lies(l, o, s, {}) /\ Lies(spare, o, t, {})
  BY <1>1 DEF Holds
<1>3. o \in Seq(Node) /\ Distinct(o) /\ order = o
  BY <1>2, LiesIs, OrderIs
<1>4. PICK c, d : c = Content(l) /\ d = Sorted(c)
  OBVIOUS
<1>5. c \in Seq(Val) /\ Len(c) = Len(o)
  BY <1>4, ContentType
<1>6. d \in Seq(Val) /\ Len(d) = Len(o) /\ SortsTo(d, c)
  <2>1. Val \in SUBSET Int
    BY DEF LListAssumption
  <2>2. QED
    BY <1>4, <1>5, <2>1, SortedType
<1>7. PICK x : x = [n \in Node |-> IF n \in ToSet(o) THEN d[CHOOSE i \in DOMAIN o : o[i] = n] ELSE spare.val[n]]
  OBVIOUS
<1>8. spare \in ListSet
  BY <1>2, LiesIs
<1>9. r = [spare EXCEPT !.val = x]
  <2>1. S!Sorted(Content(l)) = d
    BY <1>4, SortedBoth, Zenon
  <2>2. PICK y : y = [n \in Node |-> IF n \in ToSet(order) THEN S!Sorted(Content(l))[CHOOSE i \in DOMAIN order : order[i] = n]
                                   ELSE spare.val[n]]
    OBVIOUS
  <2>3. y = x
    BY <1>3, <1>7, <2>1, <2>2
  <2>4. r = [spare EXCEPT !.val = y]
    BY <2>2
  <2>5. QED
    BY <2>3, <2>4
<1>10. ASSUME NEW i \in 1 .. Len(o)
       PROVE  x[o[i]] = d[i] /\ d[i] \in Val
  <2>1. o[i] \in Node /\ o[i] \in ToSet(o)
    BY <1>3 DEF ToSet
  <2>2. \A j \in DOMAIN o : o[j] = o[i] => j = i
    BY <1>3 DEF Distinct
  <2>3. (CHOOSE j \in DOMAIN o : o[j] = o[i]) = i
    <3>1. i \in DOMAIN o
      BY <1>3
    <3>2. QED
      BY <2>2, <3>1
  <2>4. QED
    BY <1>6, <1>7, <2>1, <2>3
<1>11. x \in [Node -> Val \cup {NoVal}]
  <2>1. ASSUME NEW n \in Node
        PROVE  x[n] \in Val \cup {NoVal}
    <3>1. CASE n \in ToSet(o)
      <4>1. PICK i \in 1 .. Len(o) : o[i] = n
        BY <1>3, <3>1 DEF ToSet
      <4>2. QED
        BY <1>10, <4>1
    <3>2. CASE n \notin ToSet(o)
      BY <1>7, <1>8, <3>2, ListFields
    <3>3. QED
      BY <3>1, <3>2
  <2>2. QED
    BY <1>7, <2>1
<1>12. Lies(r, o, t, {}) /\ r.val = x
  <2>1. Lies(spare, o, t, {}) /\ x \in [Node -> Val \cup {NoVal}] /\ r = [spare EXCEPT !.val = x]
    BY <1>2, <1>9, <1>11
  <2>2. QED
    BY ONLY <2>1, LiesWithVal
<1>13. Filled(x, o)
  BY <1>10 DEF Filled
<1>14. Holds(r, o, t)
  BY <1>12, <1>13 DEF Holds
<1>15. Sane(r)
  BY <1>14, Zenon DEF Sane
<1>16. Content(r) = d
  <2>1. PICK u : u = ValuesOf(x, o)
    OBVIOUS
  <2>2. u \in Seq(Val) /\ Len(u) = Len(o) /\ \A i \in 1 .. Len(o) : u[i] = x[o[i]]
    BY <1>3, <1>13, <2>1, ValuesType
  <2>3. \A i \in 1 .. Len(o) : u[i] = d[i]
    BY <1>10, <2>2
  <2>4. u = d
    BY <1>6, <2>2, <2>3, SeqEqual
  <2>5. QED
    BY <1>12, <2>1, <2>4, ContentIs
<1>17. QED
  BY <1>4, <1>6, <1>15, <1>16

\* Cardinality is one, however it is reached.
LEMMA Cards ==
  ASSUME NEW S0
  PROVE  Elements!Cardinality(S0) = Cardinality(S0)
BY DEF Elements!Cardinality, Cardinality

\* It is what a sequence promises.
LEMMA SortKept ==
  ASSUME NEW s, NEW t, SortsTo(t, s)
  PROVE  Elements!Rearranged(s, t) /\ Elements!Ascending(t)
<1>1. PICK n : n = Len(s)
  OBVIOUS
<1>2. n \in Nat /\ Len(t) = n /\ Len(s) = n
  BY <1>1, ShuffledType DEF SortsTo
<1>3. \A i, j \in 1 .. n : i < j => t[i] <= t[j]
  BY <1>1 DEF SortsTo
<1>4. Elements!Ascending(t)
  <2>1. \A i \in 1 .. n - 1 : i \in 1 .. n /\ i + 1 \in 1 .. n /\ i < i + 1
    BY <1>2
  <2>2. QED
    BY <1>2, <1>3, <2>1 DEF Elements!Ascending
<1>5. ASSUME NEW v
      PROVE  Elements!Cardinality(Elements!Places(t, v)) = Elements!Cardinality(Elements!Places(s, v))
  <2>1. PICK a, b : a = Elements!Places(t, v) /\ b = Elements!Places(s, v)
    OBVIOUS
  <2>2. Cardinality(a) = Cardinality(b)
    <3>1. a = PlacesOf(t, v) /\ b = PlacesOf(s, v)
      BY <2>1 DEF Elements!Places, PlacesOf
    <3>2. QED
      BY <3>1, SortedPlaces
  <2>3. Elements!Cardinality(a) = Cardinality(a) /\ Elements!Cardinality(b) = Cardinality(b)
    BY Cards
  <2>4. QED
    BY <2>1, <2>2, <2>3
<1>6. QED
  BY <1>2, <1>4, <1>5 DEF Elements!Rearranged

\* The fields that the calls test.
LEMMA SaneIs ==
  ASSUME LListAssumption, Sane(llist)
  PROVE  /\ llist \in ListSet /\ llist.count \in Nat /\ llist.nfreelist \in Nat
         /\ Content(llist) \in Seq(Val) /\ Len(Content(llist)) = llist.count
<1>1. PICK o, s : Holds(llist, o, s)
  BY DEF Sane
<1>2. llist \in ListSet
  BY <1>1, LiesIs DEF Holds
<1>3. Content(llist) \in Seq(Val) /\ Len(Content(llist)) = llist.count
  BY <1>1, ContentType
<1>4. QED
  BY <1>2, <1>3, ListFields

\* A call that fails.
LEMMA OutOfMemoryStep ==
  ASSUME Sane(llist), Returns(FALSE, NoVal) /\ UNCHANGED llist
  PROVE  Sane(llist)' /\ Elements!Fails /\ Elements!OutOfMemory
<1>1. llist' = llist /\ lret' = [ok |-> FALSE, out |-> NoVal]
  BY DEF Returns
<1>2. Sane(llist)' /\ Content(llist)' = Content(llist)
  BY <1>1
<1>3. Elements!Fails
  BY <1>1, <1>2 DEF Elements!Fails, Elements!Returns
<1>4. QED
  BY <1>2, <1>3 DEF Elements!OutOfMemory

\* cra_llist_insert
LEMMA InsertStep ==
  ASSUME LListAssumption, Sane(llist), NEW i \in Nat, NEW v \in Val, Insert(i, v)
  PROVE  /\ Sane(llist)' /\ Elements!Insert(i, v)
         /\ \/ Content(llist)' = Content(llist)
            \/ i <= llist.count /\ Content(llist)' = InsertAt(Content(llist), i + 1, v)
<1>1. PICK o, s : Holds(llist, o, s)
  BY DEF Sane
<1>2. llist.count \in Nat /\ Len(Content(llist)) = llist.count
  BY SaneIs
<1>3. CASE OutOfMemory
  <2>1. Sane(llist)' /\ Elements!OutOfMemory /\ Elements!Fails
    BY <1>3, OutOfMemoryStep DEF OutOfMemory
  <2>2. Content(llist)' = Content(llist)
    BY <1>3 DEF OutOfMemory
  <2>3. QED
    BY <2>1, <2>2 DEF Elements!Insert
<1>4. CASE InsertInto(i, v)
  <2>1. PICK n, w : n = FreeNode(llist) /\ w = WithoutFree(llist)
    OBVIOUS
  <2>2. llist.free_list # Null \/ CanCreate(llist)
    BY <1>4 DEF InsertInto, CanGetFree
  <2>3. CASE i <= llist.count
    <3>1. PICK r : r = [InsertNode(w, i, n) EXCEPT !.val[n] = v]
      OBVIOUS
    <3>2. llist' = r /\ lret' = [ok |-> TRUE, out |-> NoVal]
      BY <1>4, <2>1, <2>3, <3>1 DEF InsertInto, Returns
    <3>3. Sane(r) /\ Content(r) = InsertAt(Content(llist), i + 1, v)
      BY <1>1, <2>1, <2>2, <2>3, <3>1, InsertHolds
    <3>4. Sane(llist)' /\ Content(llist)' = InsertAt(Content(llist), i + 1, v)
      BY <3>2, <3>3
    <3>5. InsertAt(Content(llist), i + 1, v) = Elements!InsertAt(Content(llist), i + 1, v)
      BY DEF InsertAt, Elements!InsertAt
    <3>6. i <= Len(Content(llist))
      BY <1>2, <2>3
    <3>7. Elements!Insert(i, v)
      BY <3>2, <3>4, <3>5, <3>6 DEF Elements!Insert, Elements!Returns
    <3>8. QED
      BY <2>3, <3>4, <3>7
  <2>4. CASE ~ i <= llist.count
    <3>1. PICK r : r = PutFree(w, n)
      OBVIOUS
    <3>2. llist' = r /\ lret' = [ok |-> FALSE, out |-> NoVal]
      BY <1>4, <2>1, <2>4, <3>1 DEF InsertInto, Returns
    <3>3. Sane(r) /\ Content(r) = Content(llist)
      BY <1>1, <2>1, <2>2, <3>1, NoPlaceHolds
    <3>4. Sane(llist)' /\ Content(llist)' = Content(llist)
      BY <3>2, <3>3
    <3>5. i > Len(Content(llist))
      BY <1>2, <2>4
    <3>6. Elements!Fails
      BY <3>2, <3>4 DEF Elements!Fails, Elements!Returns
    <3>7. Elements!Insert(i, v)
      BY <3>5, <3>6, Zenon DEF Elements!Insert
    <3>8. QED
      BY <3>4, <3>7
  <2>5. QED
    BY <2>3, <2>4
<1>5. QED
  BY <1>3, <1>4, Zenon DEF Insert

\* cra_llist_pop_at
LEMMA PopAtStep ==
  ASSUME LListAssumption, Sane(llist), NEW i \in Nat, PopAt(i)
  PROVE  Sane(llist)' /\ Elements!PopAt(i)
<1>1. PICK o, s : Holds(llist, o, s)
  BY DEF Sane
<1>2. llist.count \in Nat /\ Len(Content(llist)) = llist.count
  BY SaneIs
<1>3. CASE i < llist.count
  <2>1. PICK n : n = GetNode(llist, i)
    OBVIOUS
  <2>2. PICK r : r = RemoveNode(llist, n)
    OBVIOUS
  <2>3. llist' = r /\ lret' = [ok |-> TRUE, out |-> llist.val[n]]
    BY <1>3, <2>1, <2>2 DEF PopAt, Returns
  <2>4. Sane(r) /\ Content(r) = RemoveAt(Content(llist), i + 1) /\ llist.val[n] = Content(llist)[i + 1]
    BY <1>1, <1>3, <2>1, <2>2, PopHolds
  <2>5. Sane(llist)' /\ Content(llist)' = RemoveAt(Content(llist), i + 1)
    BY <2>3, <2>4
  <2>6. RemoveAt(Content(llist), i + 1) = Elements!RemoveAt(Content(llist), i + 1)
    BY DEF RemoveAt, Elements!RemoveAt
  <2>7. i < Len(Content(llist))
    BY <1>2, <1>3
  <2>8. QED
    BY <2>3, <2>4, <2>5, <2>6, <2>7 DEF Elements!PopAt, Elements!Returns
<1>4. CASE ~ i < llist.count
  <2>1. Sane(llist)' /\ Elements!Fails
    BY <1>4, OutOfMemoryStep DEF PopAt
  <2>2. i >= Len(Content(llist))
    BY <1>2, <1>4
  <2>3. QED
    BY <2>1, <2>2, Zenon DEF Elements!PopAt
<1>5. QED
  BY <1>3, <1>4

\* cra_llist_get
LEMMA GetStep ==
  ASSUME LListAssumption, Sane(llist), NEW i \in Nat, Get(i)
  PROVE  Sane(llist)' /\ Elements!Get(i)
<1>1. PICK o, s : Holds(llist, o, s)
  BY DEF Sane
<1>2. llist.count \in Nat /\ Len(Content(llist)) = llist.count
  BY SaneIs
<1>3. /\ llist' = llist
      /\ lret' = [ok |-> i < llist.count, out |-> IF i < llist.count THEN llist.val[GetNode(llist, i)] ELSE NoVal]
  BY DEF Get, Returns
<1>4. Sane(llist)' /\ Content(llist)' = Content(llist)
  BY <1>3
<1>5. CASE i < llist.count
  <2>1. llist.val[GetNode(llist, i)] = Content(llist)[i + 1]
    BY <1>1, <1>5, GetHolds
  <2>2. lret' = [ok |-> TRUE, out |-> Content(llist)[i + 1]] /\ i < Len(Content(llist))
    BY <1>2, <1>3, <1>5, <2>1
  <2>3. QED
    BY <1>4, <2>2 DEF Elements!Get, Elements!Returns
<1>6. CASE ~ i < llist.count
  <2>1. ~(i < Len(Content(llist)))
    BY <1>2, <1>6
  <2>2. (i < llist.count) = FALSE
    BY <1>6
  <2>3. lret' = [ok |-> FALSE, out |-> NoVal]
    BY <1>3, <1>6, <2>2, Zenon
  <2>4. QED
    BY <1>4, <2>1, <2>3, Zenon DEF Elements!Get, Elements!Returns
<1>7. QED
  BY <1>5, <1>6

\* cra_llist_get_and_set
LEMMA SetStep ==
  ASSUME LListAssumption, Sane(llist), NEW i \in Nat, NEW v \in Val, Set(i, v)
  PROVE  Sane(llist)' /\ Elements!Set(i, v)
<1>1. PICK o, s : Holds(llist, o, s)
  BY DEF Sane
<1>2. llist.count \in Nat /\ Len(Content(llist)) = llist.count
  BY SaneIs
<1>3. CASE i < llist.count
  <2>1. PICK r : r = [llist EXCEPT !.val[GetNode(llist, i)] = v]
    OBVIOUS
  <2>2. Sane(r) /\ Content(r) = [Content(llist) EXCEPT ![i + 1] = v]
    BY <1>1, <1>3, <2>1, SetHolds
  <2>3. llist' = r
    BY <1>3, <2>1 DEF Set
  <2>4. Sane(llist)' /\ Content(llist)' = [Content(llist) EXCEPT ![i + 1] = v]
    BY <2>2, <2>3
  <2>5. (i < llist.count) = TRUE
    BY <1>3
  <2>6. lret' = [ok |-> TRUE, out |-> NoVal]
    BY <2>5, Zenon DEF Set, Returns
  <2>7. i < Len(Content(llist))
    BY <1>2, <1>3
  <2>8. QED
    BY <2>4, <2>6, <2>7, Zenon DEF Elements!Set, Elements!Returns
<1>4. CASE ~ i < llist.count
  <2>1. llist' = llist
    BY <1>4 DEF Set
  <2>2. (i < llist.count) = FALSE
    BY <1>4
  <2>3. lret' = [ok |-> FALSE, out |-> NoVal]
    BY <2>2, Zenon DEF Set, Returns
  <2>4. Sane(llist)' /\ Elements!Fails
    BY <2>1, <2>3, OutOfMemoryStep DEF Returns
  <2>5. i >= Len(Content(llist))
    BY <1>2, <1>4
  <2>6. QED
    BY <2>4, <2>5, Zenon DEF Elements!Set
<1>5. QED
  BY <1>3, <1>4

\* An element that is put in front of the first greater one.
LEMMA PutInOrder ==
  ASSUME NEW c \in Seq(Int), Elements!Ascending(c), NEW v \in Int, NEW k \in 0 .. Len(c),
         k = Len(c) \/ c[k + 1] > v, \A i \in 0 .. Len(c) - 1 : c[i + 1] > v => k <= i,
         NEW d, d = InsertAt(c, k + 1, v)
  PROVE  Elements!Ascending(d)
<1>1. PICK n \in Nat : n = Len(c)
  OBVIOUS
<1>2. PICK g \in 1 .. Len(c) + 1 : g = k + 1
  OBVIOUS
<1>3. IsPut(Int, d, c, g, v)
  BY <1>2, InsertAtPuts
<1>4. /\ d \in Seq(Int) /\ Len(d) = n + 1
      /\ \A j \in 1 .. n + 1 : d[j] = IF j < g THEN c[j] ELSE IF j = g THEN v ELSE c[j - 1]
  BY <1>1, <1>3 DEF IsPut
<1>4a. d[g] = v
  BY <1>1, <1>2, <1>4
<1>4b. \A j \in 1 .. n : j < g => d[j] = c[j]
  <2>1. SUFFICES ASSUME NEW j \in 1 .. n, j < g PROVE d[j] = c[j]
    OBVIOUS
  <2>2. j \in 1 .. n + 1
    BY <1>1
  <2>3. d[j] = IF j < g THEN c[j] ELSE IF j = g THEN v ELSE c[j - 1]
    BY <1>4, <2>2, Zenon
  <2>4. QED
    BY <2>1, <2>3, Zenon
<1>4c. \A j \in 1 .. n : j >= g => d[j + 1] = c[j]
  <2>1. SUFFICES ASSUME NEW j \in 1 .. n, j >= g PROVE d[j + 1] = c[j]
    OBVIOUS
  <2>2. PICK h \in 1 .. n + 1 : h = j + 1
    BY <1>1
  <2>3. h > g /\ h - 1 = j
    BY <1>1, <1>2, <2>1, <2>2
  <2>4. d[h] = c[h - 1]
    <3>1. d[h] = IF h < g THEN c[h] ELSE IF h = g THEN v ELSE c[h - 1]
      BY <1>4, Zenon
    <3>2. ~ h < g /\ ~ h = g
      BY <1>1, <1>2, <2>3
    <3>3. QED
      BY <3>1, <3>2, Zenon
  <2>5. QED
    BY <2>2, <2>3, <2>4
<1>5. \A i \in 1 .. n - 1 : c[i] <= c[i + 1]
  BY <1>1 DEF Elements!Ascending
<1>6. \A i \in 1 .. n : c[i] \in Int
  BY <1>1
<1>7. g \in 1 .. n + 1 /\ (g = n + 1 \/ c[g] > v)
  BY <1>1, <1>2
<1>8. \A i \in 1 .. n : i < g => c[i] <= v
  <2>1. SUFFICES ASSUME NEW i \in 1 .. n, i < g PROVE c[i] <= v
    OBVIOUS
  <2>2. PICK j \in 0 .. n - 1 : j = i - 1 /\ j + 1 = i
    BY <1>1
  <2>3. ~ k <= j
    BY <1>1, <1>2, <2>1, <2>2
  <2>4. ~ c[i] > v
    BY <1>1, <2>2, <2>3
  <2>5. QED
    BY <1>6, <2>4
<1>9. ASSUME NEW i \in 1 .. n
      PROVE  d[i] <= d[i + 1]
  <2>1. i \in 1 .. n + 1 /\ i + 1 \in 1 .. n + 1
    BY <1>1
  <2>2. CASE i + 1 < g
    <3>1. d[i] = c[i] /\ d[i + 1] = c[i + 1] /\ i \in 1 .. n - 1
      <4>1. i < g /\ i + 1 \in 1 .. n /\ i \in 1 .. n - 1
        BY <1>1, <1>2, <1>7, <2>1, <2>2
      <4>2. QED
        BY <1>4b, <2>2, <4>1
    <3>2. QED
      BY <1>5, <3>1
  <2>3. CASE i + 1 = g
    <3>1. d[i] = c[i] /\ d[i + 1] = v /\ i < g
      <4>1. i < g
        BY <1>2, <2>3
      <4>2. QED
        BY <1>4a, <1>4b, <2>3, <4>1
    <3>2. QED
      BY <1>8, <3>1
  <2>4. CASE i = g
    <3>1. d[i] = v /\ d[i + 1] = c[i] /\ g # n + 1
      <4>1. i >= g /\ g # n + 1
        BY <1>1, <1>2, <2>4
      <4>2. QED
        BY <1>4a, <1>4c, <2>4, <4>1
    <3>2. QED
      BY <1>6, <1>7, <2>4, <3>1
  <2>5. CASE i > g
    <3>1. PICK j \in 1 .. n - 1 : j = i - 1 /\ j + 1 = i
      BY <1>1, <1>7, <2>5
    <3>2. d[i] = c[j] /\ d[i + 1] = c[i]
      <4>1. i >= g /\ j >= g /\ j \in 1 .. n
        BY <1>1, <1>2, <2>5, <3>1
      <4>2. QED
        BY <1>4c, <3>1, <4>1
    <3>3. QED
      BY <1>5, <3>1, <3>2
  <2>6. QED
    BY <1>1, <1>7, <2>2, <2>3, <2>4, <2>5
<1>10. QED
  BY <1>1, <1>4, <1>9 DEF Elements!Ascending

\* cra_llist_add_sort
LEMMA AddSortStep ==
  ASSUME LListAssumption, Sane(llist), NEW v \in Val, AddSort(v)
  PROVE  Sane(llist)' /\ Elements!AddSort(v)
<1>1. PICK n, c : n = llist.count /\ c = Content(llist)
  OBVIOUS
<1>2. n \in Nat /\ c \in Seq(Val) /\ Len(c) = n
  BY <1>1, SaneIs
<1>3. PICK z : z = {n} \cup {i \in 0 .. n - 1 : c[i + 1] > v}
  OBVIOUS
<1>4. z \in SUBSET Nat /\ z # {}
  BY <1>2, <1>3
<1>5. PICK k : k = Min(z)
  OBVIOUS
<1>6. k \in z /\ \A y \in z : k <= y
  BY <1>4, <1>5, HasMin
<1>7. k \in Nat /\ k \in 0 .. n
  BY <1>2, <1>3, <1>6
<1>8. Insert(k, v)
  BY <1>1, <1>3, <1>5, Zenon DEF AddSort
<1>9. /\ Sane(llist)' /\ Elements!Insert(k, v)
      /\ \/ Content(llist)' = Content(llist)
         \/ k <= llist.count /\ Content(llist)' = InsertAt(Content(llist), k + 1, v)
  BY <1>7, <1>8, InsertStep
<1>10. ASSUME Elements!Ascending(Content(llist))
       PROVE  Elements!Ascending(Content(llist))'
  <2>1. CASE Content(llist)' = Content(llist)
    BY <1>10, <2>1 DEF Elements!Ascending
  <2>2. CASE Content(llist)' = InsertAt(Content(llist), k + 1, v)
    <3>1. PICK d : d = InsertAt(c, k + 1, v)
      OBVIOUS
    <3>2. v \in Int /\ c \in Seq(Int)
      <4>1. \A i \in 1 .. Len(c) : c[i] \in Val
        BY <1>2
      <4>2. Val \subseteq Int
        BY DEF LListAssumption
      <4>3. \A i \in 1 .. Len(c) : c[i] \in Int
        BY <4>1, <4>2
      <4>4. QED
        BY <1>2, <4>2, <4>3
    <3>3. k = Len(c) \/ c[k + 1] > v
      BY <1>2, <1>3, <1>6
    <3>4. \A i \in 0 .. Len(c) - 1 : c[i + 1] > v => k <= i
      BY <1>2, <1>3, <1>6
    <3>5. k \in 0 .. Len(c) /\ Elements!Ascending(c)
      BY <1>1, <1>2, <1>7, <1>10
    <3>6. Elements!Ascending(d)
      BY <3>1, <3>2, <3>3, <3>4, <3>5, PutInOrder
    <3>7. Content(llist)' = d
      BY <1>1, <2>2, <3>1
    <3>8. QED
      BY <3>6, <3>7 DEF Elements!Ascending
  <2>3. QED
    BY <1>9, <2>1, <2>2
<1>11. k \in 0 .. Len(Content(llist))
  BY <1>1, <1>2, <1>7
<1>12. Elements!AddSort(v)
  BY <1>9, <1>10, <1>11, Zenon DEF Elements!AddSort
<1>13. QED
  BY <1>9, <1>12

\* cra_llist_sort
LEMMA SortStep ==
  ASSUME LListAssumption, Sane(llist), Sort
  PROVE  Sane(llist)' /\ Elements!Sort
<1>1. PICK o, s : Holds(llist, o, s)
  BY DEF Sane
<1>2. llist.count \in Nat /\ Content(llist) \in Seq(Val) /\ Len(Content(llist)) = llist.count
  BY SaneIs
<1>3. PICK c : c = Content(llist)
  OBVIOUS
<1>4. CASE llist.count <= 1 /\ Returns(TRUE, NoVal) /\ UNCHANGED llist
  <2>1. Sane(llist)' /\ Content(llist)' = c /\ lret' = [ok |-> TRUE, out |-> NoVal]
    BY <1>3, <1>4 DEF Returns
  <2>2. Elements!Rearranged(c, c)
    BY Zenon DEF Elements!Rearranged
  <2>3. Elements!Ascending(c)
    BY <1>2, <1>3, <1>4 DEF Elements!Ascending
  <2>4. Elements!Rearranged(Content(llist), Content(llist)') /\ Elements!Ascending(Content(llist)')
    BY <1>3, <2>1, <2>2, <2>3, Zenon
  <2>5. QED
    BY <2>1, <2>4, Zenon DEF Elements!Sort, Elements!Returns
<1>5. CASE llist.count > 1 /\ OutOfMemory
  BY <1>5, OutOfMemoryStep, Zenon DEF OutOfMemory, Elements!Sort
<1>6. ASSUME CanGetFree, Returns(TRUE, NoVal),
             NEW order, order = Order(llist), NEW spare, spare = PutFree(WithoutFree(llist), FreeNode(llist)),
             NEW r, r = [spare EXCEPT !.val = [n \in Node |->
               IF n \in ToSet(order) THEN S!Sorted(Content(llist))[CHOOSE i \in DOMAIN order : order[i] = n] ELSE @[n]]],
             llist' = r
      PROVE  Sane(llist)' /\ Elements!Sort
  <2>1. llist.free_list # Null \/ CanCreate(llist)
    BY <1>6 DEF CanGetFree
  <2>2. Sane(r) /\ SortsTo(Content(r), c)
    BY <1>1, <1>3, <1>6, <2>1, SortHolds
  <2>3. Elements!Rearranged(c, Content(r)) /\ Elements!Ascending(Content(r))
    BY <2>2, SortKept
  <2>4. Sane(llist)' /\ Content(llist)' = Content(r) /\ lret' = [ok |-> TRUE, out |-> NoVal]
    BY <1>6, <2>2 DEF Returns
  <2>5. Elements!Rearranged(Content(llist), Content(llist)') /\ Elements!Ascending(Content(llist)')
    BY <1>3, <2>3, <2>4, Zenon
  <2>6. QED
    BY <2>4, <2>5, Zenon DEF Elements!Sort, Elements!Returns
<1>7. QED
  BY <1>4, <1>5, <1>6, ZenonT(60) DEF Sort

\* cra_llist_reverse
LEMMA ReverseStep ==
  ASSUME LListAssumption, Sane(llist), ReverseAll
  PROVE  Sane(llist)' /\ Elements!ReverseAll
<1>1. PICK o, s : Holds(llist, o, s)
  BY DEF Sane
<1>2. llist.count \in Nat
  BY SaneIs
<1>3. PICK e : llist' = e /\ Sane(e) /\ Content(e) = Reverse(Content(llist))
  <2>1. CASE llist.count < 2
    <3>1. llist' = llist
      BY <2>1 DEF ReverseAll
    <3>2. QED
      BY <1>1, <2>1, <3>1, ReverseFew
  <2>2. CASE ~ llist.count < 2
    <3>1. PICK ring : ring = ToSet(Order(llist))
      OBVIOUS
    <3>2. PICK r : r = Reversed(llist, ring)
      OBVIOUS
    <3>3. llist' = r
      BY <2>2, <3>1, <3>2, Zenon DEF ReverseAll, Reversed
    <3>4. llist.count >= 2
      BY <1>2, <2>2
    <3>5. Sane(r) /\ Content(r) = Reverse(Content(llist))
      BY <1>1, <3>1, <3>2, <3>4, ReverseHolds
    <3>6. QED
      BY <3>3, <3>5
  <2>3. QED
    BY <2>1, <2>2
<1>4. Sane(llist)' /\ Content(llist)' = Reverse(Content(llist))
  BY <1>3
<1>5. Reverse(Content(llist)) = Elements!Reverse(Content(llist))
  BY DEF Reverse, Elements!Reverse
<1>6. lret' = [ok |-> TRUE, out |-> NoVal]
  BY DEF ReverseAll, Returns
<1>7. QED
  BY <1>4, <1>5, <1>6 DEF Elements!ReverseAll, Elements!Returns

\* cra_llist_clear, and a new list.
LEMMA ClearStep ==
  ASSUME LListAssumption, Sane(llist), Clear \/ Renew
  PROVE  Sane(llist)' /\ Elements!Clear
<1>1. PICK o, s : Holds(llist, o, s)
  BY DEF Sane
<1>2. PICK e : llist' = e /\ Sane(e) /\ Content(e) = << >>
  <2>1. CASE Renew
    BY <2>1, FreshHolds DEF Renew
  <2>2. CASE Clear /\ llist.head = Null
    <3>1. llist' = llist
      BY <2>2 DEF Clear
    <3>2. Lies(llist, o, s, {})
      BY <1>1 DEF Holds
    <3>3. Len(o) = 0
      BY <2>2, <3>2, LiesIs, FirstIs
    <3>4. Content(llist) \in Seq(Val) /\ Len(Content(llist)) = 0
      BY <1>1, <3>3, ContentType
    <3>5. Content(llist) = << >>
      BY <3>4
    <3>6. QED
      BY <3>1, <3>5
  <2>3. CASE Clear /\ llist.head # Null
    <3>1. PICK ring : ring = ToSet(Order(llist))
      OBVIOUS
    <3>2. PICK r : r = Emptied(llist, ring)
      OBVIOUS
    <3>3. llist' = r
      BY <2>3, <3>1, <3>2, Zenon DEF Clear, Emptied
    <3>4. Sane(r) /\ Content(r) = << >>
      BY <1>1, <2>3, <3>1, <3>2, ClearHolds
    <3>5. QED
      BY <3>3, <3>4
  <2>4. QED
    BY <2>1, <2>2, <2>3
<1>3. Sane(llist)' /\ Content(llist)' = << >>
  BY <1>2
<1>4. lret' = lret
  BY DEF Clear, Renew
<1>5. QED
  BY <1>3, <1>4 DEF Elements!Clear

\* A call that leaves the elements as they are is one that a sequence allows.
LEMMA Idle ==
  ASSUME LListAssumption, NEW c \in Seq(Val), Content(llist) = c, Content(llist)' = c,
         NEW b \in BOOLEAN, lret' = [ok |-> b, out |-> NoVal]
  PROVE  Elements!Next
<1>1. CASE b = FALSE
  <2>1. Elements!Fails
    BY <1>1 DEF Elements!Fails, Elements!Returns
  <2>2. Elements!ReverseAll
    BY <2>1, Zenon DEF Elements!ReverseAll, Elements!OutOfMemory
  <2>3. QED
    BY <2>2, Zenon DEF Elements!Next
<1>2. CASE b = TRUE /\ Len(c) = 0
  <2>1. PICK e : e = Reverse(c)
    OBVIOUS
  <2>2. IsBackwards(Val, e, c)
    BY <2>1, BackwardsIs
  <2>3. e \in Seq(Val) /\ Len(e) = Len(c) /\ \A i \in 1 .. Len(c) : e[i] = c[i]
    BY <1>2, <2>2 DEF IsBackwards
  <2>4. e = c
    BY <2>3, SeqEqual
  <2>5. Elements!Reverse(c) = e
    BY <2>1 DEF Reverse, Elements!Reverse
  <2>6. Content(llist)' = Elements!Reverse(Content(llist)) /\ lret' = [ok |-> TRUE, out |-> NoVal]
    BY <1>2, <2>4, <2>5
  <2>7. Elements!ReverseAll
    BY <2>6, Zenon DEF Elements!ReverseAll, Elements!Returns
  <2>8. QED
    BY <2>7, Zenon DEF Elements!Next
<1>3. CASE b = TRUE /\ Len(c) # 0
  <2>1. PICK v : v = c[1]
    OBVIOUS
  <2>2. v \in Val
    BY <1>3, <2>1
  <2>3. [c EXCEPT ![0 + 1] = v] = c
    BY <1>3, <2>1
  <2>4. Content(llist)' = [Content(llist) EXCEPT ![0 + 1] = v] /\ lret' = [ok |-> TRUE, out |-> NoVal]
    BY <1>3, <2>3
  <2>5. 0 < Len(Content(llist))
    BY <1>3
  <2>6. Elements!Set(0, v)
    BY <2>4, <2>5, Zenon DEF Elements!Set, Elements!Returns
  <2>7. 0 \in 0 .. MaxCount
    BY DEF LListAssumption
  <2>8. QED
    BY <2>2, <2>6, <2>7, Zenon DEF Elements!Next
<1>4. QED
  BY <1>1, <1>2, <1>3

\* cra_llist_reserve, of more spare nodes.
LEMMA ReserveMoreStep ==
  ASSUME LListAssumption, Sane(llist), NEW k \in Nat, ReserveMore(k)
  PROVE  Sane(llist)' /\ Elements!Next
<1>1. PICK o, s : Holds(llist, o, s)
  BY DEF Sane
<1>2. Content(llist) \in Seq(Val) /\ llist.nfreelist \in Nat
  BY SaneIs
<1>3. PICK n \in 0 .. k - llist.nfreelist :
        /\ n <= Nodes - Cardinality(llist.made)
        /\ llist' = (CHOOSE h : AddsTo(h, llist, n))[n]
        /\ lret' = [ok |-> n = k - llist.nfreelist, out |-> NoVal]
  BY Zenon DEF ReserveMore, Added, AddsTo, Returns
<1>4. n \in Nat
  BY <1>2, <1>3
<1>5. PICK add : add = CHOOSE h : AddsTo(h, llist, n)
  OBVIOUS
<1>6. Sane(add[n]) /\ Content(add[n]) = Content(llist)
  BY <1>1, <1>3, <1>4, <1>5, AddHolds
<1>7. Sane(llist)' /\ Content(llist)' = Content(llist)
  BY <1>3, <1>5, <1>6
<1>8. QED
  BY <1>2, <1>3, <1>7, Idle

\* cra_llist_reserve, when it has nothing to free.
LEMMA ReserveLessStep ==
  ASSUME LListAssumption, ~Shrinks, Sane(llist), NEW k \in Nat, ReserveLess(k)
  PROVE  Sane(llist)' /\ Elements!Next
<1>1. PICK o, s : Holds(llist, o, s)
  BY DEF Sane
<1>2. Content(llist) \in Seq(Val) /\ llist.nfreelist \in Nat
  BY SaneIs
<1>3. llist' = Shrunk(llist, llist.nfreelist - k)
  BY Zenon DEF ReserveLess, Shrunk
<1>4. llist.nfreelist - k = 0
  BY <1>2 DEF ReserveLess
<1>5. llist' = llist
  BY <1>1, <1>3, <1>4, NothingFreed
<1>6. lret' = [ok |-> TRUE, out |-> NoVal]
  BY DEF ReserveLess, Returns
<1>7. Sane(llist)' /\ Content(llist)' = Content(llist)
  BY <1>5
<1>8. QED
  BY <1>2, <1>6, <1>7, Idle

\* Every step of the list keeps it in order, and is a step of a sequence or none.
LEMMA LListNext ==
  ASSUME LListAssumption, ~Shrinks, Sane(llist), [Next]_vars
  PROVE  Sane(llist)' /\ [Elements!Next]_(Elements!vars)
<1>1. \A i \in 0 .. MaxCount : i \in Nat
  OBVIOUS
<1>2. CASE UNCHANGED vars
  BY <1>2 DEF vars, Elements!vars
<1>3. ASSUME NEW i \in 0 .. MaxCount, PopAt(i) PROVE Sane(llist)' /\ Elements!Next
  <2>1. Sane(llist)' /\ Elements!PopAt(i)
    BY <1>1, <1>3, PopAtStep
  <2>2. QED
    BY <2>1, Zenon DEF Elements!Next
<1>4. ASSUME NEW i \in 0 .. MaxCount, Get(i) PROVE Sane(llist)' /\ Elements!Next
  <2>1. Sane(llist)' /\ Elements!Get(i)
    BY <1>1, <1>4, GetStep
  <2>2. QED
    BY <2>1, Zenon DEF Elements!Next
<1>5. ASSUME NEW i \in 0 .. MaxCount, NEW v \in Val, Insert(i, v) PROVE Sane(llist)' /\ Elements!Next
  <2>1. Sane(llist)' /\ Elements!Insert(i, v)
    BY <1>1, <1>5, InsertStep
  <2>2. QED
    BY <2>1, Zenon DEF Elements!Next
<1>6. ASSUME NEW i \in 0 .. MaxCount, NEW v \in Val, Set(i, v) PROVE Sane(llist)' /\ Elements!Next
  <2>1. Sane(llist)' /\ Elements!Set(i, v)
    BY <1>1, <1>6, SetStep
  <2>2. QED
    BY <2>1, Zenon DEF Elements!Next
<1>7. ASSUME NEW v \in Val, AddSort(v) PROVE Sane(llist)' /\ Elements!Next
  <2>1. Sane(llist)' /\ Elements!AddSort(v)
    BY <1>7, AddSortStep
  <2>2. QED
    BY <2>1, Zenon DEF Elements!Next
<1>8. CASE Sort
  BY <1>8, SortStep, Zenon DEF Elements!Next
<1>9. CASE ReverseAll
  BY <1>9, ReverseStep, Zenon DEF Elements!Next
<1>10. CASE Clear \/ Renew
  BY <1>10, ClearStep, Zenon DEF Elements!Next
<1>11. ASSUME NEW n \in Spares, ReserveMore(n) \/ ReserveLess(n) PROVE Sane(llist)' /\ Elements!Next
  <2>1. n \in Nat
    BY DEF LListAssumption
  <2>2. QED
    BY <1>11, <2>1, ReserveMoreStep, ReserveLessStep
<1>12. CASE Next
  BY <1>3, <1>4, <1>5, <1>6, <1>7, <1>8, <1>9, <1>10, <1>11, <1>12, Zenon DEF Next
<1>13. QED
  BY <1>2, <1>12

\* As many nodes as a sequence without repetitions is long.
LEMMA CountIn ==
  ASSUME NEW s \in Seq(Node), Distinct(s), NEW T, \A m : m \in T <=> In(m, s)
  PROVE  Cardinality(T) = Len(s)
<1>1. PICK n \in Nat : n = Len(s)
  OBVIOUS
<1>2. PICK D : D = 1 .. n
  OBVIOUS
<1>3. PICK f : f = [i \in D |-> s[i]]
  OBVIOUS
<1>4. f \in [D -> T]
  BY <1>1, <1>2, <1>3 DEF In
<1>5. \A i, j \in D : f[i] = f[j] => i = j
  BY <1>1, <1>2, <1>3 DEF Distinct
<1>6. \A m \in T : \E i \in D : f[i] = m
  BY <1>1, <1>2, <1>3 DEF In
<1>7. f \in Bijection(D, T)
  BY <1>4, <1>5, <1>6 DEF Bijection, Injection, Surjection, IsInjective
<1>8. IsFiniteSet(D) /\ Cardinality(D) = n
  <2>1. n \in Int /\ 1 \in Int
    OBVIOUS
  <2>2. Cardinality(D) = IF 1 > n THEN 0 ELSE n - 1 + 1
    BY <1>2, <2>1, FS_Interval
  <2>3. Cardinality(D) = n
    BY <2>1, <2>2
  <2>4. QED
    BY <1>2, <2>1, <2>3, FS_Interval
<1>9. ExistsBijection(D, T)
  BY <1>7 DEF ExistsBijection
<1>10. QED
  BY <1>1, <1>8, <1>9, FS_Bijection

\* The nodes along the spare ones.
LEMMA SpareSet ==
  ASSUME LListAssumption, NEW l, NEW o, NEW s, Holds(l, o, s),
         NEW T, T = {Hop(l.next, l.free_list, i) : i \in 0 .. l.nfreelist - 1}
  PROVE  (\A m : m \in T <=> In(m, s)) /\ Hop(l.next, l.free_list, l.nfreelist) = Null
<1>1. s \in Seq(Node) /\ Row(l.next, s) /\ l.free_list = First(s) /\ l.nfreelist = Len(s)
  BY LiesIs DEF Holds
<1>2. PICK n \in Nat : n = Len(s)
  BY <1>1
<1>3. PICK next, f : next = l.next /\ f = l.free_list
  OBVIOUS
<1>4. \A k \in Nat : k <= n => Hop(next, f, k) = IF k = n THEN Null ELSE s[k + 1]
  BY <1>1, <1>2, <1>3, AlongRow
<1>5. T = {Hop(next, f, i) : i \in 0 .. n - 1}
  BY <1>1, <1>2, <1>3
<1>6. ASSUME NEW m, m \in T PROVE In(m, s)
  <2>1. PICK i \in 0 .. n - 1 : m = Hop(next, f, i)
    BY <1>5, <1>6
  <2>2. i \in Nat /\ i <= n /\ i # n /\ i + 1 \in 1 .. n
    BY <2>1
  <2>3. m = s[i + 1]
    BY <1>4, <2>1, <2>2
  <2>4. QED
    BY <1>2, <2>2, <2>3 DEF In
<1>7. ASSUME NEW m, In(m, s) PROVE m \in T
  <2>1. PICK j \in 1 .. n : m = s[j]
    BY <1>2, <1>7 DEF In
  <2>2. PICK i \in 0 .. n - 1 : i = j - 1 /\ i + 1 = j
    BY <2>1
  <2>3. i \in Nat /\ i <= n /\ i # n
    BY <2>2
  <2>4. Hop(next, f, i) = m
    BY <1>4, <2>1, <2>2, <2>3
  <2>5. QED
    BY <1>5, <2>4
<1>8. Hop(next, f, n) = Null
  BY <1>2, <1>4
<1>9. QED
  BY <1>1, <1>2, <1>3, <1>6, <1>7, <1>8

\* A list in order is sound.
LEMMA SaneSound ==
  ASSUME LListAssumption, Sane(llist)
  PROVE  Sound
<1>1. PICK o, s : Holds(llist, o, s)
  BY DEF Sane
<1>2. Lies(llist, o, s, {})
  BY <1>1 DEF Holds
<1>3. /\ o \in Seq(Node) /\ s \in Seq(Node) /\ Distinct(o) /\ Distinct(s) /\ Apart(o, s)
      /\ Ring(llist.next, llist.prev, o)
      /\ llist.head = First(o) /\ llist.count = Len(o) /\ llist.nfreelist = Len(s)
  BY <1>2, LiesIs
<1>4. llist.made = {m \in Node : In(m, o) \/ In(m, s)}
  BY <1>2, LiesMade
<1>5. PICK ring : ring = ToSet(Order(llist))
  OBVIOUS
<1>6. PICK spare : spare = {Hop(llist.next, llist.free_list, i) : i \in 0 .. llist.nfreelist - 1}
  OBVIOUS
<1>7. \A m : m \in ring <=> In(m, o)
  BY <1>2, <1>5, RingSet
<1>8. (\A m : m \in spare <=> In(m, s)) /\ Hop(llist.next, llist.free_list, llist.nfreelist) = Null
  BY <1>1, <1>6, SpareSet
<1>9. Cardinality(ring) = llist.count /\ Cardinality(spare) = llist.nfreelist
  BY <1>3, <1>7, <1>8, CountIn
<1>10. llist.head = Null <=> llist.count = 0
  BY <1>3, FirstIs
<1>11. ring \cap spare = {}
  BY <1>3, <1>7, <1>8, ApartIs
<1>12. ring \cup spare = llist.made
  BY <1>3, <1>4, <1>7, <1>8, InNode
<1>13. ASSUME NEW n \in ring
       PROVE  llist.next[llist.prev[n]] = n /\ llist.prev[llist.next[n]] = n
  <2>1. PICK i \in 1 .. Len(o) : o[i] = n
    BY <1>7 DEF In
  <2>2. PICK k \in Nat \ {0} : k = Len(o) /\ i \in 1 .. k
    BY <1>3
  <2>3. PICK j : j = Pred(i, k)
    OBVIOUS
  <2>4. j \in 1 .. k /\ Succ(j, k) = i
    BY <2>2, <2>3, SuccPred
  <2>5. llist.next[o[j]] = n /\ llist.prev[n] = o[j]
    BY <1>3, <2>1, <2>2, <2>4 DEF Ring
  <2>6. llist.next[n] = o[Succ(i, k)] /\ llist.prev[o[Succ(i, k)]] = n
    BY <1>3, <2>1, <2>2 DEF Ring
  <2>7. QED
    BY <2>5, <2>6
<1>14. QED
  BY <1>5, <1>6, <1>8, <1>9, <1>10, <1>11, <1>12, <1>13 DEF Sound

\* A new list is in order, and empty.
LEMMA LListInit ==
  ASSUME LListAssumption, Init
  PROVE  Sane(llist) /\ Elements!Init
<1>1. llist = Fresh /\ lret = [ok |-> FALSE, out |-> NoVal]
  BY DEF Init
<1>2. QED
  BY <1>1, FreshHolds DEF Elements!Init

\* The linked list: after any calls the ring read backwards is the ring read
\* forwards, the spare nodes are as many as nfreelist says, and each node that is
\* allocated is in one of both, none in both: nothing leaks and nothing is in
\* use twice.  Fewer spare nodes than there are must not be asked for.
THEOREM LListSound ==
  ASSUME LListAssumption, ~Shrinks
  PROVE  Spec => []Sound
<1>1. Init => Sane(llist)
  BY LListInit
<1>2. Sane(llist) /\ [Next]_vars => Sane(llist)'
  BY LListNext
<1>3. Sane(llist) => Sound
  BY SaneSound
<1>4. QED
  BY <1>1, <1>2, <1>3, PTL DEF Spec

\* The linked list implements a sequence: links, spare nodes and the order the
\* steps of a call take place in cannot be told from outside.
THEOREM LListIsSequence ==
  ASSUME LListAssumption, ~Shrinks
  PROVE  Spec => ListSpec
<1>1. Init => Sane(llist) /\ Elements!Init
  BY LListInit
<1>2. Sane(llist) /\ [Next]_vars => Sane(llist)' /\ [Elements!Next]_(Elements!vars)
  BY LListNext
<1>3. QED
  BY <1>1, <1>2, PTL DEF Spec, ListSpec, Elements!Spec

(***************************************************************************)
(* The array list.                                                         *)
(***************************************************************************)
CONSTANTS MinCapacity, Capacities
VARIABLES alist, aret

A == INSTANCE AList

(***************************************************************************)
(* An array and what it holds.                                             *)
(***************************************************************************)
\* What a cell may hold, and arrays of so many cells.
ArrayCells == Val \cup {NoVal}
ArraysOf(n) == [0 .. n - 1 -> ArrayCells]

\* l holds the elements of c.
HoldsArray(l, c) ==
  /\ l \in [count : Nat, capacity : Nat \ {0}, array : UNION {ArraysOf(n) : n \in Nat}]
  /\ l.array \in ArraysOf(l.capacity)
  /\ c \in Seq(Val) /\ l.count = Len(c) /\ l.count <= l.capacity
  /\ \A i \in 1 .. Len(c) : l.array[i - 1] = c[i]

\* A list given by its fields.
LEMMA ArrayRecord ==
  ASSUME NEW count \in Nat, NEW capacity \in Nat \ {0}, NEW array \in ArraysOf(capacity), NEW c \in Seq(Val),
         count = Len(c), count <= capacity, \A i \in 1 .. Len(c) : array[i - 1] = c[i],
         NEW r, r = [count |-> count, capacity |-> capacity, array |-> array]
  PROVE  HoldsArray(r, c)
<1>1. r.count = count /\ r.capacity = capacity /\ r.array = array
  OBVIOUS
<1>2. array \in UNION {ArraysOf(n) : n \in Nat}
  OBVIOUS
<1>3. r \in [count : Nat, capacity : Nat \ {0}, array : UNION {ArraysOf(n) : n \in Nat}]
  BY <1>2
<1>4. QED
  BY <1>1, <1>3 DEF HoldsArray

\* The fields of a list.
LEMMA ArrayFields ==
  ASSUME NEW l, NEW c, HoldsArray(l, c)
  PROVE  /\ l.count \in Nat /\ l.capacity \in Nat \ {0} /\ l.array \in ArraysOf(l.capacity)
         /\ c \in Seq(Val) /\ l.count = Len(c) /\ l.count <= l.capacity
         /\ \A i \in 1 .. Len(c) : l.array[i - 1] = c[i]
         /\ l = [count |-> l.count, capacity |-> l.capacity, array |-> l.array]
<1>1. l \in [count : Nat, capacity : Nat \ {0}, array : UNION {ArraysOf(n) : n \in Nat}]
  BY DEF HoldsArray
<1>2. l = [count |-> l.count, capacity |-> l.capacity, array |-> l.array]
  BY <1>1
<1>3. l.count \in Nat /\ l.capacity \in Nat \ {0}
  BY <1>1
<1>4. QED
  BY <1>2, <1>3, Zenon DEF HoldsArray

\* The elements are its content.
LEMMA ArrayContentIs ==
  ASSUME NEW l, NEW c, HoldsArray(l, c)
  PROVE  A!Content(l) = c
<1>1. c \in Seq(Val) /\ l.count = Len(c) /\ \A i \in 1 .. Len(c) : l.array[i - 1] = c[i]
  BY ArrayFields
<1>2. PICK d : d = [i \in 1 .. l.count |-> l.array[i - 1]]
  OBVIOUS
<1>3. d \in Seq(Val) /\ Len(d) = Len(c) /\ \A i \in 1 .. Len(c) : d[i] = c[i]
  <2>1. d = [i \in 1 .. Len(c) |-> l.array[i - 1]]
    BY <1>1, <1>2
  <2>2. \A i \in 1 .. Len(c) : d[i] = c[i] /\ c[i] \in Val
    BY <1>1, <2>1
  <2>3. QED
    BY <2>1, <2>2
<1>4. d = c
  BY <1>1, <1>3, SeqEqual
<1>5. QED
  BY <1>2, <1>4 DEF A!Content

\* A list that holds something.
ArrayKept(l) == \E c : HoldsArray(l, c)

\* What a list that holds something has.
LEMMA ArrayKeptIs ==
  ASSUME NEW l, ArrayKept(l)
  PROVE  HoldsArray(l, A!Content(l)) /\ A!Content(l) \in Seq(Val) /\ Len(A!Content(l)) = l.count /\ l.count \in Nat
<1>1. PICK c : HoldsArray(l, c)
  BY DEF ArrayKept
<1>2. A!Content(l) = c
  BY <1>1, ArrayContentIs
<1>3. QED
  BY <1>1, <1>2, ArrayFields

\* A larger array, or one that is as large as the elements need.
LEMMA ArrayReallocs ==
  ASSUME NEW l, NEW c, HoldsArray(l, c), NEW k \in Nat \ {0}, l.count <= k,
         NEW r, r = [l EXCEPT !.capacity = k, !.array = A!Reallocated(@, k)]
  PROVE  HoldsArray(r, c) /\ r.capacity = k
<1>1. /\ l.count \in Nat /\ l.capacity \in Nat \ {0} /\ l.array \in ArraysOf(l.capacity)
      /\ c \in Seq(Val) /\ l.count = Len(c) /\ l.count <= l.capacity
      /\ \A i \in 1 .. Len(c) : l.array[i - 1] = c[i]
      /\ l = [count |-> l.count, capacity |-> l.capacity, array |-> l.array]
  BY ArrayFields
<1>2. PICK a : a = A!Reallocated(l.array, k)
  OBVIOUS
<1>3. a \in ArraysOf(k) /\ \A i \in 0 .. k - 1 : a[i] = IF i \in 0 .. l.capacity - 1 THEN l.array[i] ELSE NoVal
  BY <1>1, <1>2 DEF A!Reallocated, ArraysOf, ArrayCells
<1>4. r = [count |-> l.count, capacity |-> k, array |-> a]
  BY <1>1, <1>2
<1>5. \A i \in 1 .. Len(c) : a[i - 1] = c[i]
  <2>1. SUFFICES ASSUME NEW i \in 1 .. Len(c) PROVE a[i - 1] = c[i]
    OBVIOUS
  <2>2. PICK j : j = i - 1
    OBVIOUS
  <2>3. j \in 0 .. k - 1 /\ j \in 0 .. l.capacity - 1
    BY <1>1, <2>2
  <2>4. a[j] = l.array[j]
    BY <1>3, <2>3
  <2>5. QED
    BY <1>1, <2>2, <2>4
<1>6. PICK count : count = l.count
  OBVIOUS
<1>7. /\ count \in Nat /\ k \in Nat \ {0} /\ a \in ArraysOf(k) /\ c \in Seq(Val) /\ count = Len(c) /\ count <= k
      /\ r = [count |-> count, capacity |-> k, array |-> a]
      /\ \A i \in 1 .. Len(c) : a[i - 1] = c[i]
  BY <1>1, <1>3, <1>4, <1>5, <1>6
<1>8. r.capacity = k
  BY ONLY <1>7
<1>9. HoldsArray(r, c)
  BY ONLY <1>7, ArrayRecord
<1>10. QED
  BY <1>8, <1>9

\* A place is made for an element behind index others.
LEMMA ArrayPlaceMade ==
  ASSUME NEW l, NEW c, HoldsArray(l, c), l.count < l.capacity, NEW index \in 0 .. l.count, NEW v \in Val,
         NEW r, r = [l EXCEPT !.array = [A!Memmove(l.array, index + 1, index, l.count - index) EXCEPT ![index] = v],
                              !.count = @ + 1]
  PROVE  HoldsArray(r, InsertAt(c, index + 1, v))
<1>1. /\ l.count \in Nat /\ l.capacity \in Nat \ {0} /\ l.array \in ArraysOf(l.capacity)
      /\ c \in Seq(Val) /\ l.count = Len(c) /\ l.count <= l.capacity
      /\ \A i \in 1 .. Len(c) : l.array[i - 1] = c[i]
      /\ l = [count |-> l.count, capacity |-> l.capacity, array |-> l.array]
  BY ArrayFields
<1>2. PICK n, k, x : n = l.count /\ k = l.capacity /\ x = l.array
  OBVIOUS
<1>3. PICK a : a = A!Memmove(x, index + 1, index, n - index)
  OBVIOUS
<1>4. a \in ArraysOf(k) /\ \A i \in 0 .. k - 1 : a[i] = IF i \in index + 1 .. n THEN x[i - 1] ELSE x[i]
  <2>1. x \in [0 .. k - 1 -> ArrayCells] /\ n \in Nat /\ k \in Nat /\ n < k /\ index \in 0 .. n
    BY <1>1, <1>2 DEF ArraysOf
  <2>2. a = [i \in 0 .. k - 1 |-> IF i \in index + 1 .. (index + 1) + (n - index) - 1 THEN x[i - (index + 1) + index] ELSE x[i]]
    BY <1>3, <2>1 DEF A!Memmove
  <2>3. ASSUME NEW i \in 0 .. k - 1
        PROVE  a[i] = (IF i \in index + 1 .. n THEN x[i - 1] ELSE x[i]) /\ a[i] \in ArrayCells
    <3>1. (index + 1) + (n - index) - 1 = n /\ i - (index + 1) + index = i - 1
      BY <2>1
    <3>2. i \in index + 1 .. n => i - 1 \in 0 .. k - 1
      BY <2>1
    <3>3. a[i] = IF i \in index + 1 .. n THEN x[i - 1] ELSE x[i]
      BY <2>2, <3>1
    <3>4. QED
      BY <2>1, <3>2, <3>3
  <2>4. QED
    BY <2>2, <2>3 DEF ArraysOf
<1>5. PICK b : b = [a EXCEPT ![index] = v]
  OBVIOUS
<1>6. b \in ArraysOf(k) /\ b[index] = v /\ \A i \in 0 .. k - 1 : i # index => b[i] = a[i]
  <2>1. index \in 0 .. k - 1
    BY <1>1, <1>2
  <2>2. QED
    BY <1>4, <1>5, <2>1 DEF ArraysOf, ArrayCells
<1>7. r = [count |-> n + 1, capacity |-> k, array |-> b]
  BY <1>1, <1>2, <1>3, <1>5
<1>8. PICK d : d = InsertAt(c, index + 1, v)
  OBVIOUS
<1>9. /\ d \in Seq(Val) /\ Len(d) = n + 1
      /\ \A j \in 1 .. n + 1 : d[j] = IF j < index + 1 THEN c[j] ELSE IF j = index + 1 THEN v ELSE c[j - 1]
  <2>1. c \in Seq(Val) /\ index + 1 \in 1 .. Len(c) + 1 /\ Len(c) = n
    BY <1>1, <1>2
  <2>2. IsPut(Val, d, c, index + 1, v)
    BY <1>8, <2>1, InsertAtPuts
  <2>3. QED
    BY <2>1, <2>2 DEF IsPut
<1>10. \A i \in 1 .. Len(d) : b[i - 1] = d[i]
  <2>1. SUFFICES ASSUME NEW i \in 1 .. n + 1 PROVE b[i - 1] = d[i]
    BY <1>9
  <2>2. n \in Nat /\ k \in Nat /\ n < k /\ n = Len(c) /\ \A j \in 1 .. n : x[j - 1] = c[j]
    BY <1>1, <1>2
  <2>3. CASE i - 1 < index
    <3>1. i \in 1 .. n /\ i - 1 \in 0 .. k - 1 /\ i - 1 # index /\ ~(i - 1 \in index + 1 .. n) /\ i < index + 1
      BY <1>1, <1>2, <2>2, <2>3
    <3>2. b[i - 1] = x[i - 1]
      BY <1>4, <1>6, <3>1
    <3>3. d[i] = c[i]
      BY <1>9, <3>1
    <3>4. QED
      BY <2>2, <3>1, <3>2, <3>3
  <2>4. CASE i - 1 = index
    BY <1>6, <1>9, <2>4
  <2>5. CASE i - 1 > index
    <3>1. PICK j : j = i - 1
      OBVIOUS
    <3>2. /\ j \in 1 .. n /\ j \in 0 .. k - 1 /\ j # index /\ j \in index + 1 .. n
          /\ ~(i < index + 1) /\ i # index + 1
      BY <2>2, <2>5, <3>1
    <3>3. b[j] = x[j - 1]
      BY <1>4, <1>6, <3>2
    <3>4. d[i] = c[j]
      BY <1>9, <3>1, <3>2
    <3>5. QED
      BY <2>2, <3>1, <3>2, <3>3, <3>4
  <2>6. QED
    BY <2>3, <2>4, <2>5
<1>11. PICK m : m = n + 1
  OBVIOUS
<1>12. /\ m \in Nat /\ k \in Nat \ {0} /\ b \in ArraysOf(k) /\ d \in Seq(Val) /\ m = Len(d) /\ m <= k
       /\ r = [count |-> m, capacity |-> k, array |-> b]
       /\ \A i \in 1 .. Len(d) : b[i - 1] = d[i]
  <2>1. m \in Nat /\ m <= k /\ k \in Nat \ {0}
    BY <1>1, <1>2, <1>11
  <2>2. d \in Seq(Val) /\ m = Len(d) /\ b \in ArraysOf(k)
    BY <1>6, <1>9, <1>11
  <2>3. r = [count |-> m, capacity |-> k, array |-> b]
    BY <1>7, <1>11
  <2>4. QED
    BY <2>1, <2>2, <2>3, <1>10
<1>13. HoldsArray(r, d)
  BY ONLY <1>12, ArrayRecord
<1>14. QED
  BY <1>8, <1>13

\* What is behind the elements is forgotten.
LEMMA ArrayForgottenHolds ==
  ASSUME NEW l, NEW c, HoldsArray(l, c), NEW r, r = A!Forgotten(l)
  PROVE  HoldsArray(r, c)
<1>1. /\ l.count \in Nat /\ l.capacity \in Nat \ {0} /\ l.array \in ArraysOf(l.capacity)
      /\ c \in Seq(Val) /\ l.count = Len(c) /\ l.count <= l.capacity
      /\ \A i \in 1 .. Len(c) : l.array[i - 1] = c[i]
      /\ l = [count |-> l.count, capacity |-> l.capacity, array |-> l.array]
  BY ArrayFields
<1>2. PICK n, k, x : n = l.count /\ k = l.capacity /\ x = l.array
  OBVIOUS
<1>3. PICK a : a = [i \in 0 .. k - 1 |-> IF i < n THEN x[i] ELSE NoVal]
  OBVIOUS
<1>4. x \in [0 .. k - 1 -> ArrayCells]
  BY <1>1, <1>2 DEF ArraysOf
<1>5. r = [count |-> n, capacity |-> k, array |-> a]
  <2>1. DOMAIN x = 0 .. k - 1
    BY <1>4
  <2>2. a = [i \in DOMAIN x |-> IF i < n THEN x[i] ELSE NoVal]
    BY <1>3, <2>1
  <2>3. r = [l EXCEPT !.array = a]
    BY <1>2, <2>2 DEF A!Forgotten
  <2>4. QED
    BY <1>1, <1>2, <2>3
<1>6. a \in ArraysOf(k) /\ \A i \in 1 .. Len(c) : a[i - 1] = c[i]
  <2>1. ASSUME NEW i \in 1 .. Len(c)
        PROVE  a[i - 1] = c[i]
    <3>1. i - 1 \in 0 .. k - 1 /\ i - 1 < n
      BY <1>1, <1>2
    <3>2. a[i - 1] = x[i - 1]
      BY <1>3, <3>1
    <3>3. QED
      BY <1>1, <1>2, <3>2
  <2>2. a \in ArraysOf(k)
    BY <1>3, <1>4 DEF ArraysOf, ArrayCells
  <2>3. QED
    BY <2>1, <2>2
<1>7. /\ n \in Nat /\ k \in Nat \ {0} /\ a \in ArraysOf(k) /\ c \in Seq(Val) /\ n = Len(c) /\ n <= k
      /\ r = [count |-> n, capacity |-> k, array |-> a]
      /\ \A i \in 1 .. Len(c) : a[i - 1] = c[i]
  BY <1>1, <1>2, <1>5, <1>6
<1>8. QED
  BY ONLY <1>7, ArrayRecord

\* The place of an element that is taken out is closed.
LEMMA ArrayPlaceClosed ==
  ASSUME NEW l, NEW c, HoldsArray(l, c), NEW index \in Nat, index < l.count,
         NEW r, r = [l EXCEPT !.array = A!Memmove(@, index, index + 1, l.count - index - 1), !.count = @ - 1]
  PROVE  HoldsArray(r, RemoveAt(c, index + 1))
<1>1. /\ l.count \in Nat /\ l.capacity \in Nat \ {0} /\ l.array \in ArraysOf(l.capacity)
      /\ c \in Seq(Val) /\ l.count = Len(c) /\ l.count <= l.capacity
      /\ \A i \in 1 .. Len(c) : l.array[i - 1] = c[i]
      /\ l = [count |-> l.count, capacity |-> l.capacity, array |-> l.array]
  BY ArrayFields
<1>2. PICK n, k, x : n = l.count /\ k = l.capacity /\ x = l.array
  OBVIOUS
<1>3. n \in Nat /\ k \in Nat \ {0} /\ n <= k /\ index < n /\ n = Len(c) /\ x \in [0 .. k - 1 -> ArrayCells]
  BY <1>1, <1>2 DEF ArraysOf
<1>4. PICK a : a = A!Memmove(x, index, index + 1, n - index - 1)
  OBVIOUS
<1>5. a \in ArraysOf(k) /\ \A i \in 0 .. k - 1 : a[i] = IF i \in index .. n - 2 THEN x[i + 1] ELSE x[i]
  <2>1. a = [i \in 0 .. k - 1 |-> IF i \in index .. index + (n - index - 1) - 1 THEN x[i - index + (index + 1)] ELSE x[i]]
    BY <1>3, <1>4 DEF A!Memmove
  <2>2. ASSUME NEW i \in 0 .. k - 1
        PROVE  a[i] = (IF i \in index .. n - 2 THEN x[i + 1] ELSE x[i]) /\ a[i] \in ArrayCells
    <3>1. index + (n - index - 1) - 1 = n - 2 /\ i - index + (index + 1) = i + 1
      <4>1. n \in Int /\ index \in Int /\ i \in Int
        BY <1>3
      <4>2. QED
        BY ONLY <4>1
    <3>2. i \in index .. n - 2 => i + 1 \in 0 .. k - 1
      BY <1>3
    <3>3. a[i] = IF i \in index .. n - 2 THEN x[i + 1] ELSE x[i]
      BY <2>1, <3>1
    <3>4. QED
      BY <1>3, <3>2, <3>3
  <2>3. QED
    BY <2>1, <2>2 DEF ArraysOf
<1>6. PICK d, m : d = RemoveAt(c, index + 1) /\ m = n - 1
  OBVIOUS
<1>7. /\ d \in Seq(Val) /\ Len(d) = m
      /\ \A j \in 1 .. m : d[j] = IF j < index + 1 THEN c[j] ELSE c[j + 1]
  <2>1. c \in Seq(Val) /\ index + 1 \in 1 .. Len(c) /\ Len(c) = n
    BY <1>1, <1>2, <1>3
  <2>2. IsCut(Val, d, c, index + 1)
    BY <1>6, <2>1, RemoveAtCuts
  <2>3. QED
    BY <1>6, <2>1, <2>2 DEF IsCut
<1>8. \A i \in 1 .. Len(d) : a[i - 1] = d[i]
  <2>1. SUFFICES ASSUME NEW i \in 1 .. m PROVE a[i - 1] = d[i]
    BY <1>7
  <2>2. m \in Nat /\ i \in Int /\ 1 <= i /\ i <= m /\ \A j \in 1 .. n : x[j - 1] = c[j]
    BY <1>1, <1>2, <1>3, <1>6
  <2>3. PICK j : j = i - 1
    OBVIOUS
  <2>4. j \in 0 .. k - 1 /\ i \in 1 .. n /\ i + 1 \in 1 .. n /\ (i + 1) - 1 = j + 1
    BY <1>3, <1>6, <2>2, <2>3
  <2>5. CASE i < index + 1
    <3>1. ~(j \in index .. n - 2)
      BY <1>3, <2>2, <2>3, <2>5
    <3>2. a[j] = x[j]
      BY <1>5, <2>4, <3>1
    <3>3. d[i] = c[i]
      BY <1>7, <2>5
    <3>4. QED
      BY <2>2, <2>3, <2>4, <3>2, <3>3
  <2>6. CASE ~(i < index + 1)
    <3>1. j \in index .. n - 2
      BY <1>3, <1>6, <2>2, <2>3, <2>6
    <3>2. a[j] = x[j + 1]
      BY <1>5, <2>4, <3>1
    <3>3. d[i] = c[i + 1]
      BY <1>7, <2>6
    <3>4. x[(i + 1) - 1] = c[i + 1]
      BY <2>2, <2>4
    <3>5. QED
      BY <2>3, <2>4, <3>2, <3>3, <3>4
  <2>7. QED
    BY <2>5, <2>6
<1>9. /\ m \in Nat /\ k \in Nat \ {0} /\ a \in ArraysOf(k) /\ d \in Seq(Val) /\ m = Len(d) /\ m <= k
      /\ r = [count |-> m, capacity |-> k, array |-> a]
      /\ \A i \in 1 .. Len(d) : a[i - 1] = d[i]
  <2>1. m \in Nat /\ m <= k
    BY <1>3, <1>6
  <2>2. r = [count |-> m, capacity |-> k, array |-> a]
    BY <1>1, <1>2, <1>4, <1>6
  <2>3. QED
    BY <1>3, <1>5, <1>7, <1>8, <2>1, <2>2
<1>10. HoldsArray(r, d)
  BY ONLY <1>9, ArrayRecord
<1>11. QED
  BY <1>6, <1>10

\* An array with other elements in the cells that are in use.
LEMMA ArrayWithElements ==
  ASSUME NEW l, NEW c, HoldsArray(l, c), NEW a \in ArraysOf(l.capacity), NEW d \in Seq(Val), Len(d) = l.count,
         \A i \in 1 .. Len(d) : a[i - 1] = d[i],
         NEW r, r = [l EXCEPT !.array = a]
  PROVE  HoldsArray(r, d)
<1>1. /\ l.count \in Nat /\ l.capacity \in Nat \ {0} /\ l.array \in ArraysOf(l.capacity)
      /\ c \in Seq(Val) /\ l.count = Len(c) /\ l.count <= l.capacity
      /\ l = [count |-> l.count, capacity |-> l.capacity, array |-> l.array]
  BY ArrayFields
<1>2. PICK n, k, x : n = l.count /\ k = l.capacity /\ x = l.array
  OBVIOUS
<1>3. /\ n \in Nat /\ k \in Nat \ {0} /\ a \in ArraysOf(k) /\ d \in Seq(Val) /\ n = Len(d) /\ n <= k
      /\ r = [count |-> n, capacity |-> k, array |-> a]
      /\ \A i \in 1 .. Len(d) : a[i - 1] = d[i]
  BY <1>1, <1>2
<1>4. QED
  BY ONLY <1>3, ArrayRecord

\* An element is replaced.
LEMMA ArrayElementSet ==
  ASSUME NEW l, NEW c, HoldsArray(l, c), NEW index \in Nat, index < l.count, NEW v \in Val,
         NEW r, r = [l EXCEPT !.array[index] = v]
  PROVE  HoldsArray(r, [c EXCEPT ![index + 1] = v])
<1>1. /\ l.count \in Nat /\ l.capacity \in Nat \ {0} /\ l.array \in ArraysOf(l.capacity)
      /\ c \in Seq(Val) /\ l.count = Len(c) /\ l.count <= l.capacity
      /\ \A i \in 1 .. Len(c) : l.array[i - 1] = c[i]
      /\ l = [count |-> l.count, capacity |-> l.capacity, array |-> l.array]
  BY ArrayFields
<1>2. PICK x, k : x = l.array /\ k = l.capacity
  OBVIOUS
<1>3. PICK a, d : a = [x EXCEPT ![index] = v] /\ d = [c EXCEPT ![index + 1] = v]
  OBVIOUS
<1>4. r = [l EXCEPT !.array = a]
  BY <1>1, <1>2, <1>3
<1>5. d \in Seq(Val) /\ Len(d) = Len(c) /\ \A i \in 1 .. Len(c) : d[i] = IF i = index + 1 THEN v ELSE c[i]
  <2>1. index + 1 \in 1 .. Len(c)
    BY <1>1
  <2>2. QED
    BY <1>1, <1>3, <2>1
<1>6. a \in ArraysOf(k) /\ \A i \in 0 .. k - 1 : a[i] = IF i = index THEN v ELSE x[i]
  <2>1. x \in [0 .. k - 1 -> ArrayCells] /\ index \in 0 .. k - 1 /\ v \in ArrayCells
    BY <1>1, <1>2 DEF ArraysOf, ArrayCells
  <2>2. QED
    BY <1>3, <2>1 DEF ArraysOf
<1>7. \A i \in 1 .. Len(d) : a[i - 1] = d[i]
  <2>1. SUFFICES ASSUME NEW i \in 1 .. Len(c) PROVE a[i - 1] = d[i]
    BY <1>5
  <2>2. i - 1 \in 0 .. k - 1 /\ (i - 1 = index <=> i = index + 1)
    BY <1>1, <1>2
  <2>3. x[i - 1] = c[i]
    BY <1>1, <1>2
  <2>4. QED
    BY <1>5, <1>6, <2>2, <2>3
<1>8. HoldsArray(r, d)
  <2>1. /\ HoldsArray(l, c) /\ a \in ArraysOf(l.capacity) /\ d \in Seq(Val) /\ Len(d) = l.count
        /\ \A i \in 1 .. Len(d) : a[i - 1] = d[i]
        /\ r = [l EXCEPT !.array = a]
    BY <1>1, <1>2, <1>4, <1>5, <1>6, <1>7
  <2>2. QED
    BY ONLY <2>1, ArrayWithElements
<1>9. QED
  BY <1>3, <1>8

\* What the recursive function of Turned is.
Turns(h, a, n, m) == h = [k \in 0 .. m |-> IF k = 0 THEN a ELSE A!Swap(h[k - 1], k - 1, n - k)]

\* a with the first and the last k of n cells exchanged.
TurnedBy(a, n, k) == [i \in DOMAIN a |-> IF i < n /\ (i < k \/ i >= n - k) THEN a[n - 1 - i] ELSE a[i]]

\* One more pair of cells.
LEMMA TurnedMore ==
  ASSUME NEW n \in Nat, NEW m \in Nat, n <= m, NEW a, DOMAIN a = 0 .. m - 1, NEW k \in 1 .. n \div 2
  PROVE  TurnedBy(a, n, k) = A!Swap(TurnedBy(a, n, k - 1), k - 1, n - k)
<1>1. PICK j, b, d : j = k - 1 /\ b = TurnedBy(a, n, j) /\ d = TurnedBy(a, n, k)
  OBVIOUS
<1>2. j \in Int /\ n \in Int /\ k \in Int /\ 1 <= k /\ 2 * k <= n /\ k = j + 1 /\ n <= m /\ n - k \in Int
  <2>1. 2 * (n \div 2) <= n /\ n \div 2 \in Int
    OBVIOUS
  <2>2. QED
    BY <1>1, <2>1
<1>3. \A i \in 0 .. m - 1 : b[i] = IF i < n /\ (i < j \/ i >= n - j) THEN a[n - 1 - i] ELSE a[i]
  BY <1>1 DEF TurnedBy
<1>4. d = [i \in 0 .. m - 1 |-> IF i < n /\ (i < k \/ i >= n - k) THEN a[n - 1 - i] ELSE a[i]]
  BY <1>1 DEF TurnedBy
<1>5. j \in 0 .. m - 1 /\ n - k \in 0 .. m - 1 /\ j # n - k
  BY <1>2
<1>6. b[j] = a[j] /\ b[n - k] = a[n - k]
  <2>1. ~(j < n /\ (j < j \/ j >= n - j)) /\ ~(n - k < n /\ (n - k < j \/ n - k >= n - j))
    BY <1>2
  <2>2. QED
    BY <1>3, <1>5, <2>1
<1>7. PICK e : e = A!Swap(b, j, n - k)
  OBVIOUS
<1>8. DOMAIN b = 0 .. m - 1
  BY <1>1 DEF TurnedBy
<1>9. e = [i \in 0 .. m - 1 |-> IF i = n - k THEN b[j] ELSE IF i = j THEN b[n - k] ELSE b[i]]
  BY <1>5, <1>7, <1>8 DEF A!Swap
<1>10. ASSUME NEW i \in 0 .. m - 1
       PROVE  d[i] = e[i]
  <2>1. i \in Int /\ 0 <= i
    BY <1>2
  <2>2. CASE i = n - k
    <3>1. i < n /\ (i < k \/ i >= n - k) /\ n - 1 - i = j
      BY <1>2, <2>1, <2>2
    <3>2. d[i] = a[j]
      BY <1>4, <3>1
    <3>3. QED
      BY <1>6, <1>9, <2>2, <3>2
  <2>3. CASE i = j
    <3>1. i < n /\ (i < k \/ i >= n - k) /\ n - 1 - i = n - k
      BY <1>2, <2>1, <2>3
    <3>2. d[i] = a[n - k]
      BY <1>4, <3>1
    <3>3. QED
      BY <1>5, <1>6, <1>9, <2>3, <3>2
  <2>4. CASE i # j /\ i # n - k
    <3>1. (i < n /\ (i < k \/ i >= n - k)) <=> (i < n /\ (i < j \/ i >= n - j))
      BY <1>2, <2>1, <2>4
    <3>2. e[i] = b[i]
      BY <1>9, <2>4
    <3>3. QED
      BY <1>3, <1>4, <3>1, <3>2
  <2>5. QED
    BY <2>2, <2>3, <2>4
<1>11. d = e
  <2>1. d = [i \in 0 .. m - 1 |-> d[i]] /\ e = [i \in 0 .. m - 1 |-> e[i]]
    BY <1>4, <1>9
  <2>2. QED
    BY <1>10, <2>1
<1>12. QED
  BY <1>1, <1>7, <1>11

\* b is a with its first n of m cells turned around.
IsTurned(V, b, a, n, m) ==
  b \in [0 .. m - 1 -> V] /\ \A i \in 0 .. m - 1 : b[i] = IF i < n THEN a[n - 1 - i] ELSE a[i]

\* Turned turns the first n cells around.
LEMMA TurnedIs ==
  ASSUME NEW n \in Nat, NEW m \in Nat, n <= m, NEW V, NEW a \in [0 .. m - 1 -> V]
  PROVE  IsTurned(V, A!Turned(a, n), a, n, m)
<1> DEFINE g == [k \in 0 .. n \div 2 |-> TurnedBy(a, n, k)]
           swapped[k \in 0 .. n \div 2] == IF k = 0 THEN a ELSE A!Swap(swapped[k - 1], k - 1, n - k)
<1>1. PICK mid : mid = n \div 2
  OBVIOUS
<1>2. mid \in Nat /\ n \in Int /\ n - 2 * mid \in 0 .. 1
  BY <1>1
<1>3. TurnedBy(a, n, 0) = a
  <2>1. PICK d : d = TurnedBy(a, n, 0)
    OBVIOUS
  <2>2. d = [i \in 0 .. m - 1 |-> IF i < n /\ (i < 0 \/ i >= n - 0) THEN a[n - 1 - i] ELSE a[i]]
    BY <2>1 DEF TurnedBy
  <2>3. \A i \in 0 .. m - 1 : ~(i < n /\ (i < 0 \/ i >= n - 0))
    OBVIOUS
  <2>4. \A i \in 0 .. m - 1 : d[i] = a[i]
    BY <2>2, <2>3
  <2>5. QED
    BY <2>1, <2>2, <2>4
<1>4. ASSUME NEW k \in 0 .. n \div 2
      PROVE  g[k] = IF k = 0 THEN a ELSE A!Swap(g[k - 1], k - 1, n - k)
  <2>1. CASE k = 0
    BY <1>3, <2>1
  <2>2. CASE k # 0
    <3>1. k \in 1 .. n \div 2 /\ k - 1 \in 0 .. n \div 2
      BY <1>1, <1>2, <2>2
    <3>2. TurnedBy(a, n, k) = A!Swap(TurnedBy(a, n, k - 1), k - 1, n - k)
      BY <3>1, TurnedMore
    <3>3. g[k] = TurnedBy(a, n, k) /\ g[k - 1] = TurnedBy(a, n, k - 1)
      BY <3>1
    <3>4. QED
      BY <2>2, <3>2, <3>3
  <2>3. QED
    BY <2>1, <2>2
<1>5. Turns(g, a, n, n \div 2)
  <2>1. g = [k \in 0 .. n \div 2 |-> g[k]]
    OBVIOUS
  <2> HIDE DEF g
  <2>2. QED
    BY <1>4, <2>1, Zenon DEF Turns
<1>6. swapped = CHOOSE h : Turns(h, a, n, n \div 2)
  BY Zenon DEF Turns
<1>7. A!Turned(a, n) = swapped[n \div 2]
  BY Zenon DEF A!Turned
<1>8. \A k \in 0 .. mid : g[k] = TurnedBy(a, n, k)
  BY <1>1
<1> HIDE DEF swapped, g
<1>9. Turns(swapped, a, n, mid) /\ Turns(g, a, n, mid)
  BY <1>1, <1>5, <1>6, Zenon
<1>10. ASSUME NEW k \in 0 .. mid
       PROVE  /\ swapped[k] = IF k = 0 THEN a ELSE A!Swap(swapped[k - 1], k - 1, n - k)
              /\ g[k] = IF k = 0 THEN a ELSE A!Swap(g[k - 1], k - 1, n - k)
  BY <1>9, Zenon DEF Turns
<1> DEFINE T == {k \in Nat : k <= mid => swapped[k] = g[k]}
<1>11. 0 \in T
  <2>1. 0 \in 0 .. mid
    BY <1>2
  <2>2. swapped[0] = g[0]
    BY <1>10, <2>1
  <2>3. QED
    BY <2>2
<1>12. ASSUME NEW k \in Nat, k \in T
       PROVE  k + 1 \in T
  <2>1. SUFFICES ASSUME k + 1 <= mid PROVE swapped[k + 1] = g[k + 1]
    OBVIOUS
  <2>2. PICK j : j = k + 1
    OBVIOUS
  <2>3. j \in 0 .. mid /\ j # 0 /\ j - 1 = k /\ k <= mid
    BY <1>2, <2>1, <2>2
  <2>4. swapped[k] = g[k]
    BY <1>12, <2>3
  <2>5. swapped[j] = A!Swap(swapped[k], j - 1, n - j) /\ g[j] = A!Swap(g[k], j - 1, n - j)
    BY <1>10, <2>3
  <2>6. QED
    BY <2>2, <2>4, <2>5
<1>13. \A k \in Nat : k \in T
  <2>1. T \in SUBSET Nat
    OBVIOUS
  <2> HIDE DEF T
  <2>2. QED
    BY <1>11, <1>12, <2>1, SetInduction
<1>14. A!Turned(a, n) = TurnedBy(a, n, mid)
  BY <1>1, <1>2, <1>7, <1>8, <1>13
<1>15. PICK d : d = TurnedBy(a, n, mid)
  OBVIOUS
<1>16. d = [i \in 0 .. m - 1 |-> IF i < n /\ (i < mid \/ i >= n - mid) THEN a[n - 1 - i] ELSE a[i]]
  BY <1>15 DEF TurnedBy
<1>17. ASSUME NEW i \in 0 .. m - 1
       PROVE  d[i] = (IF i < n THEN a[n - 1 - i] ELSE a[i]) /\ d[i] \in V
  <2>1. i \in Int /\ 0 <= i
    OBVIOUS
  <2>2. CASE i < n /\ (i < mid \/ i >= n - mid)
    <3>1. d[i] = a[n - 1 - i]
      BY <1>16, <2>2
    <3>2. n - 1 - i \in 0 .. m - 1
      BY <1>2, <2>1, <2>2
    <3>3. QED
      BY <2>2, <3>1, <3>2
  <2>3. CASE ~(i < n /\ (i < mid \/ i >= n - mid))
    <3>1. d[i] = a[i]
      BY <1>16, <2>3
    <3>2. i < n => n - 1 - i = i
      BY <1>2, <2>1, <2>3
    <3>3. QED
      BY <3>1, <3>2
  <2>4. QED
    BY <2>2, <2>3
<1>18. d \in [0 .. m - 1 -> V]
  BY <1>16, <1>17
<1>19. IsTurned(V, d, a, n, m)
  BY <1>17, <1>18, Zenon DEF IsTurned
<1>20. QED
  BY <1>14, <1>15, <1>19

\* The sort and the search of the list are those that are shown to sort and to find.
LEMMA ArraySortedBoth ==
  ASSUME NEW c
  PROVE  A!S!Sorted(c) = Sorted(c)
<1>1. \A t, begin, end : A!S!QuickSorted(t, begin, end) = QuickSorted(t, begin, end)
  BY ZenonT(60) DEF A!S!QuickSorted, QuickSorted, A!S!SortPart, SortPart, A!S!WorthSorting, WorthSorting, A!S!Parted, Parted, A!S!Meet, Meet,
         A!S!StopsBelow, StopsBelow, A!S!StopsBeyond, StopsBeyond, A!S!Max, Max, A!S!Min, Min
<1>2. QED
  BY <1>1 DEF A!S!Sorted, Sorted

LEMMA ArraySearchedBoth ==
  ASSUME NEW c, NEW v
  PROVE  A!S!Searched(c, v) = Searched(c, v)
BY Zenon DEF A!S!Searched, Searched, A!S!Halved, Halved

\* The sequence backwards.
LEMMA ArrayTurnedHolds ==
  ASSUME NEW l, NEW c, HoldsArray(l, c), NEW r, r = [l EXCEPT !.array = A!Turned(@, l.count)]
  PROVE  HoldsArray(r, Reverse(c))
<1>1. /\ l.count \in Nat /\ l.capacity \in Nat \ {0} /\ l.array \in ArraysOf(l.capacity)
      /\ c \in Seq(Val) /\ l.count = Len(c) /\ l.count <= l.capacity
      /\ \A i \in 1 .. Len(c) : l.array[i - 1] = c[i]
  BY ArrayFields
<1>2. PICK n, k, x : n = l.count /\ k = l.capacity /\ x = l.array
  OBVIOUS
<1>3. n \in Nat /\ k \in Nat /\ n <= k /\ x \in [0 .. k - 1 -> ArrayCells] /\ n = Len(c)
  BY <1>1, <1>2 DEF ArraysOf
<1>4. PICK a, d : a = A!Turned(x, n) /\ d = Reverse(c)
  OBVIOUS
<1>5. a \in [0 .. k - 1 -> ArrayCells] /\ \A i \in 0 .. k - 1 : a[i] = IF i < n THEN x[n - 1 - i] ELSE x[i]
  <2>1. PICK V : V = ArrayCells
    OBVIOUS
  <2>2. n \in Nat /\ k \in Nat /\ n <= k /\ x \in [0 .. k - 1 -> V]
    BY <1>3, <2>1
  <2>3. IsTurned(V, A!Turned(x, n), x, n, k)
    BY ONLY <2>2, TurnedIs
  <2>4. QED
    BY <1>4, <2>1, <2>3, Zenon DEF IsTurned
<1>6. d \in Seq(Val) /\ Len(d) = n /\ \A i \in 1 .. n : d[i] = c[n - i + 1]
  <2>1. IsBackwards(Val, d, c)
    BY <1>1, <1>4, BackwardsIs
  <2>2. QED
    BY <1>3, <2>1 DEF IsBackwards
<1>7. \A i \in 1 .. Len(d) : a[i - 1] = d[i]
  <2>1. SUFFICES ASSUME NEW i \in 1 .. n PROVE a[i - 1] = d[i]
    BY <1>6
  <2>2. PICK j, h : j = i - 1 /\ h = n - i + 1
    OBVIOUS
  <2>3. j \in 0 .. k - 1 /\ j < n /\ n - 1 - j = h - 1 /\ h \in 1 .. Len(c)
    BY <1>3, <2>2
  <2>4. a[j] = x[h - 1]
    BY <1>5, <2>3
  <2>5. x[h - 1] = c[h]
    BY <1>1, <1>2, <2>3
  <2>6. QED
    BY <1>6, <2>2, <2>4, <2>5
<1>8. a \in ArraysOf(l.capacity)
  BY <1>2, <1>5 DEF ArraysOf
<1>9. r = [l EXCEPT !.array = a]
  BY <1>2, <1>4
<1>10. /\ HoldsArray(l, c) /\ a \in ArraysOf(l.capacity) /\ d \in Seq(Val) /\ Len(d) = l.count
       /\ \A i \in 1 .. Len(d) : a[i - 1] = d[i]
       /\ r = [l EXCEPT !.array = a]
  BY <1>2, <1>6, <1>7, <1>8, <1>9
<1>11. HoldsArray(r, d)
  BY ONLY <1>10, ArrayWithElements
<1>12. QED
  BY <1>4, <1>11

\* The elements are sorted where they are.
LEMMA ArraySortHolds ==
  ASSUME NEW l, NEW c, HoldsArray(l, c), NEW d \in Seq(Val), Len(d) = Len(c),
         NEW r, r = [l EXCEPT !.array = [i \in DOMAIN @ |-> IF i < l.count THEN d[i + 1] ELSE @[i]]]
  PROVE  HoldsArray(r, d)
<1>1. /\ l.count \in Nat /\ l.capacity \in Nat \ {0} /\ l.array \in ArraysOf(l.capacity)
      /\ c \in Seq(Val) /\ l.count = Len(c) /\ l.count <= l.capacity
  BY ArrayFields
<1>2. PICK n, k, x : n = l.count /\ k = l.capacity /\ x = l.array
  OBVIOUS
<1>3. n \in Nat /\ k \in Nat /\ n <= k /\ x \in [0 .. k - 1 -> ArrayCells] /\ n = Len(d)
  BY <1>1, <1>2 DEF ArraysOf
<1>4. PICK a : a = [i \in DOMAIN x |-> IF i < n THEN d[i + 1] ELSE x[i]]
  OBVIOUS
<1>5. a \in [0 .. k - 1 -> ArrayCells] /\ \A i \in 0 .. k - 1 : i < n => a[i] = d[i + 1]
  <2>1. \A i \in 0 .. k - 1 : i < n => d[i + 1] \in ArrayCells
    <3>1. \A i \in 0 .. k - 1 : i < n => i + 1 \in 1 .. Len(d)
      BY <1>3
    <3>2. \A i \in 1 .. Len(d) : d[i] \in Val
      OBVIOUS
    <3>3. QED
      BY <3>1, <3>2 DEF ArrayCells
  <2>2. QED
    BY <1>3, <1>4, <2>1
<1>6. \A i \in 1 .. Len(d) : a[i - 1] = d[i]
  <2>1. SUFFICES ASSUME NEW i \in 1 .. n PROVE a[i - 1] = d[i]
    BY <1>3
  <2>2. PICK j : j = i - 1
    OBVIOUS
  <2>3. j \in 0 .. k - 1 /\ j < n /\ j + 1 = i
    BY <1>3, <2>2
  <2>4. QED
    BY <1>5, <2>2, <2>3
<1>7. a \in ArraysOf(l.capacity)
  BY <1>2, <1>5 DEF ArraysOf
<1>8. r = [l EXCEPT !.array = a]
  BY <1>2, <1>4
<1>9. /\ HoldsArray(l, c) /\ a \in ArraysOf(l.capacity) /\ d \in Seq(Val) /\ Len(d) = l.count
      /\ \A i \in 1 .. Len(d) : a[i - 1] = d[i]
      /\ r = [l EXCEPT !.array = a]
  BY <1>1, <1>2, <1>3, <1>6, <1>7, <1>8
<1>10. QED
  BY ONLY <1>9, ArrayWithElements

\* Cardinality is one, however it is reached.
LEMMA ArrayCards ==
  ASSUME NEW S0
  PROVE  A!Elements!Cardinality(S0) = Cardinality(S0)
BY DEF A!Elements!Cardinality, Cardinality

\* A sorted sequence is what a sequence promises.
LEMMA ArraySortKept ==
  ASSUME NEW s, NEW t, SortsTo(t, s)
  PROVE  A!Elements!Rearranged(s, t) /\ A!Elements!Ascending(t)
<1>1. PICK n : n = Len(s)
  OBVIOUS
<1>2. n \in Nat /\ Len(t) = n /\ Len(s) = n
  BY <1>1, ShuffledType DEF SortsTo
<1>3. \A i, j \in 1 .. n : i < j => t[i] <= t[j]
  BY <1>1 DEF SortsTo
<1>4. A!Elements!Ascending(t)
  <2>1. \A i \in 1 .. n - 1 : i \in 1 .. n /\ i + 1 \in 1 .. n /\ i < i + 1
    BY <1>2
  <2>2. QED
    BY <1>2, <1>3, <2>1 DEF A!Elements!Ascending
<1>5. ASSUME NEW v
      PROVE  A!Elements!Cardinality(A!Elements!Places(t, v)) = A!Elements!Cardinality(A!Elements!Places(s, v))
  <2>1. PICK a, b : a = A!Elements!Places(t, v) /\ b = A!Elements!Places(s, v)
    OBVIOUS
  <2>2. Cardinality(a) = Cardinality(b)
    <3>1. a = PlacesOf(t, v) /\ b = PlacesOf(s, v)
      BY <2>1 DEF A!Elements!Places, PlacesOf
    <3>2. QED
      BY <3>1, SortedPlaces
  <2>3. A!Elements!Cardinality(a) = Cardinality(a) /\ A!Elements!Cardinality(b) = Cardinality(b)
    BY ArrayCards
  <2>4. QED
    BY <2>1, <2>2, <2>3
<1>6. QED
  BY <1>2, <1>4, <1>5 DEF A!Elements!Rearranged

\* A call that fails.
LEMMA ArrayFails ==
  ASSUME ArrayKept(alist), A!Returns(FALSE, NoVal) /\ UNCHANGED alist
  PROVE  ArrayKept(alist)' /\ A!Content(alist)' = A!Content(alist) /\ A!Elements!Fails /\ A!Elements!OutOfMemory
<1>1. alist' = alist /\ aret' = [ok |-> FALSE, out |-> NoVal]
  BY DEF A!Returns
<1>2. ArrayKept(alist)' /\ A!Content(alist)' = A!Content(alist)
  BY <1>1
<1>3. A!Elements!Fails
  BY <1>1, <1>2 DEF A!Elements!Fails, A!Elements!Returns
<1>4. QED
  BY <1>2, <1>3 DEF A!Elements!OutOfMemory

\* What the next list holds.
LEMMA ArrayNextHolds ==
  ASSUME NEW r, NEW d, HoldsArray(r, d), alist' = r
  PROVE  ArrayKept(alist)' /\ A!Content(alist)' = d
<1>1. A!Content(r) = d
  BY ArrayContentIs
<1>2. ArrayKept(r)
  BY Zenon DEF ArrayKept
<1>3. QED
  BY <1>1, <1>2

\* cra_alist_insert
LEMMA ArrayInserts ==
  ASSUME A!AListAssumption, ArrayKept(alist), NEW i \in Nat, NEW v \in Val, A!Insert(i, v)
  PROVE  /\ ArrayKept(alist)' /\ A!Elements!Insert(i, v)
         /\ \/ A!Content(alist)' = A!Content(alist)
            \/ i <= alist.count /\ A!Content(alist)' = InsertAt(A!Content(alist), i + 1, v)
<1>1. PICK c : c = A!Content(alist)
  OBVIOUS
<1>2. HoldsArray(alist, c) /\ c \in Seq(Val) /\ Len(c) = alist.count /\ alist.count \in Nat
  BY <1>1, ArrayKeptIs
<1>3. alist.count \in Nat /\ alist.capacity \in Nat \ {0} /\ alist.count <= alist.capacity
  BY <1>2, ArrayFields
<1>4. ASSUME i <= alist.count,
             NEW l, l = IF alist.count = alist.capacity THEN A!Resized(A!Expanded(alist.capacity)) ELSE alist,
             NEW r, r = [l EXCEPT !.array = [A!Memmove(l.array, i + 1, i, l.count - i) EXCEPT ![i] = v], !.count = @ + 1],
             alist' = r, A!Returns(TRUE, NoVal)
      PROVE  /\ ArrayKept(alist)' /\ A!Elements!Insert(i, v)
             /\ i <= alist.count /\ A!Content(alist)' = InsertAt(A!Content(alist), i + 1, v)
  <2>1. HoldsArray(l, c) /\ l.count < l.capacity /\ l.count = alist.count
    <3>1. CASE alist.count = alist.capacity
      <4>1. PICK k : k = 2 * alist.capacity
        OBVIOUS
      <4>2. k \in Nat \ {0} /\ alist.count <= k /\ alist.count < k
        BY <1>3, <3>1, <4>1
      <4>3. l = [alist EXCEPT !.capacity = k, !.array = A!Reallocated(@, k)]
        BY <1>4, <3>1, <4>1 DEF A!Resized, A!Expanded
      <4>4. HoldsArray(l, c) /\ l.capacity = k
        BY <1>2, <4>2, <4>3, ArrayReallocs, ZenonT(60)
      <4>5. l.count = Len(c)
        BY <4>4, ArrayFields
      <4>6. QED
        BY <1>2, <4>2, <4>4, <4>5
    <3>2. CASE alist.count # alist.capacity
      <4>1. l = alist
        BY <1>4, <3>2
      <4>2. alist.count < alist.capacity
        BY <1>3, <3>2
      <4>3. QED
        BY <1>2, <4>1, <4>2
    <3>3. QED
      BY <3>1, <3>2
  <2>2. i \in 0 .. l.count
    BY <1>3, <1>4, <2>1
  <2>3. PICK d : d = InsertAt(c, i + 1, v)
    OBVIOUS
  <2>4. HoldsArray(r, d)
    BY <1>4, <2>1, <2>2, <2>3, ArrayPlaceMade
  <2>5. ArrayKept(alist)' /\ A!Content(alist)' = d
    BY <1>4, <2>4, ArrayNextHolds
  <2>6. InsertAt(c, i + 1, v) = A!Elements!InsertAt(c, i + 1, v)
    BY DEF InsertAt, A!Elements!InsertAt
  <2>7. A!Content(alist)' = A!Elements!InsertAt(A!Content(alist), i + 1, v) /\ i <= Len(A!Content(alist))
    BY <1>1, <1>2, <1>4, <2>3, <2>5, <2>6
  <2>8. aret' = [ok |-> TRUE, out |-> NoVal]
    BY <1>4 DEF A!Returns
  <2>9. A!Elements!Insert(i, v)
    BY <2>7, <2>8, Zenon DEF A!Elements!Insert, A!Elements!Returns
  <2>10. QED
    BY <1>1, <1>4, <2>3, <2>5, <2>9
<1>5. ASSUME i > alist.count, A!Returns(FALSE, NoVal) /\ UNCHANGED alist
      PROVE  ArrayKept(alist)' /\ A!Elements!Insert(i, v) /\ A!Content(alist)' = A!Content(alist)
  <2>1. ArrayKept(alist)' /\ A!Content(alist)' = A!Content(alist) /\ A!Elements!Fails
    BY <1>5, ArrayFails
  <2>2. i > Len(A!Content(alist))
    BY <1>1, <1>2, <1>5
  <2>3. QED
    BY <2>1, <2>2, Zenon DEF A!Elements!Insert
<1>6. ASSUME A!Returns(FALSE, NoVal) /\ UNCHANGED alist
      PROVE  ArrayKept(alist)' /\ A!Elements!Insert(i, v) /\ A!Content(alist)' = A!Content(alist)
  <2>1. ArrayKept(alist)' /\ A!Content(alist)' = A!Content(alist) /\ A!Elements!OutOfMemory
    BY <1>6, ArrayFails
  <2>2. QED
    BY <2>1, Zenon DEF A!Elements!Insert
<1>7. QED
  BY <1>4, <1>5, <1>6, Zenon DEF A!Insert, A!OutOfMemory

\* cra_alist_pop_at
LEMMA ArrayPops ==
  ASSUME A!AListAssumption, ArrayKept(alist), NEW i \in Nat, A!PopAt(i)
  PROVE  ArrayKept(alist)' /\ A!Elements!PopAt(i)
<1>1. PICK c : c = A!Content(alist)
  OBVIOUS
<1>2. HoldsArray(alist, c) /\ c \in Seq(Val) /\ Len(c) = alist.count /\ alist.count \in Nat
  BY <1>1, ArrayKeptIs
<1>3. ASSUME i < alist.count, A!Returns(TRUE, alist.array[i]),
             NEW p, p = [alist EXCEPT !.array = A!Memmove(@, i, i + 1, alist.count - i - 1), !.count = @ - 1],
             alist' = A!Forgotten(p)
      PROVE  ArrayKept(alist)' /\ A!Elements!PopAt(i)
  <2>1. PICK d : d = RemoveAt(c, i + 1)
    OBVIOUS
  <2>2. HoldsArray(p, d)
    BY <1>2, <1>3, <2>1, ArrayPlaceClosed
  <2>3. PICK r : r = A!Forgotten(p)
    OBVIOUS
  <2>4. HoldsArray(r, d)
    BY <2>2, <2>3, ArrayForgottenHolds
  <2>5. ArrayKept(alist)' /\ A!Content(alist)' = d
    BY <1>3, <2>3, <2>4, ArrayNextHolds
  <2>6. RemoveAt(c, i + 1) = A!Elements!RemoveAt(c, i + 1)
    BY DEF RemoveAt, A!Elements!RemoveAt
  <2>7. alist.array[i] = c[i + 1]
    <3>1. \A j \in 1 .. Len(c) : alist.array[j - 1] = c[j]
      BY <1>2, ArrayFields
    <3>2. i + 1 \in 1 .. Len(c) /\ (i + 1) - 1 = i
      BY <1>2, <1>3
    <3>3. QED
      BY <3>1, <3>2
  <2>8. aret' = [ok |-> TRUE, out |-> c[i + 1]] /\ i < Len(c)
    BY <1>2, <1>3, <2>7 DEF A!Returns
  <2>9. /\ A!Content(alist)' = A!Elements!RemoveAt(A!Content(alist), i + 1) /\ i < Len(A!Content(alist))
        /\ aret' = [ok |-> TRUE, out |-> A!Content(alist)[i + 1]]
    BY <1>1, <2>1, <2>5, <2>6, <2>8
  <2>10. QED
    BY <2>5, <2>9, Zenon DEF A!Elements!PopAt, A!Elements!Returns
<1>4. ASSUME ~(i < alist.count), A!Returns(FALSE, NoVal) /\ UNCHANGED alist
      PROVE  ArrayKept(alist)' /\ A!Elements!PopAt(i)
  <2>1. ArrayKept(alist)' /\ A!Elements!Fails
    BY <1>4, ArrayFails
  <2>2. i >= Len(A!Content(alist))
    BY <1>1, <1>2, <1>4
  <2>3. QED
    BY <2>1, <2>2, Zenon DEF A!Elements!PopAt
<1>5. QED
  BY <1>3, <1>4, Zenon DEF A!PopAt

\* cra_alist_get
LEMMA ArrayGets ==
  ASSUME A!AListAssumption, ArrayKept(alist), NEW i \in Nat, A!Get(i)
  PROVE  ArrayKept(alist)' /\ A!Elements!Get(i)
<1>1. PICK c : c = A!Content(alist)
  OBVIOUS
<1>2. HoldsArray(alist, c) /\ c \in Seq(Val) /\ Len(c) = alist.count /\ alist.count \in Nat
  BY <1>1, ArrayKeptIs
<1>3. alist' = alist
  BY DEF A!Get
<1>4. ArrayKept(alist)' /\ A!Content(alist)' = A!Content(alist)
  BY <1>3
<1>5. aret' = IF i < Len(c) THEN [ok |-> TRUE, out |-> c[i + 1]] ELSE [ok |-> FALSE, out |-> NoVal]
  <2>1. CASE i < alist.count
    <3>1. \A j \in 1 .. Len(c) : alist.array[j - 1] = c[j]
      BY <1>2, ArrayFields
    <3>2. i + 1 \in 1 .. Len(c) /\ (i + 1) - 1 = i
      BY <1>2, <2>1
    <3>3. alist.array[i] = c[i + 1]
      BY <3>1, <3>2
    <3>4. aret' = [ok |-> TRUE, out |-> alist.array[i]]
      BY <2>1 DEF A!Get, A!Returns
    <3>5. QED
      BY <1>2, <2>1, <3>3, <3>4
  <2>2. CASE ~(i < alist.count)
    <3>1. (i < alist.count) = FALSE
      BY <2>2
    <3>2. aret' = [ok |-> FALSE, out |-> NoVal]
      BY <2>2, <3>1, Zenon DEF A!Get, A!Returns
    <3>3. QED
      BY <1>2, <2>2, <3>2
  <2>3. QED
    BY <2>1, <2>2
<1>6. A!Elements!Get(i)
  BY <1>1, <1>4, <1>5 DEF A!Elements!Get, A!Elements!Returns
<1>7. QED
  BY <1>4, <1>6

\* cra_alist_get_and_set
LEMMA ArraySets ==
  ASSUME A!AListAssumption, ArrayKept(alist), NEW i \in Nat, NEW v \in Val, A!Set(i, v)
  PROVE  ArrayKept(alist)' /\ A!Elements!Set(i, v)
<1>1. PICK c : c = A!Content(alist)
  OBVIOUS
<1>2. HoldsArray(alist, c) /\ c \in Seq(Val) /\ Len(c) = alist.count /\ alist.count \in Nat
  BY <1>1, ArrayKeptIs
<1>3. CASE i < alist.count
  <2>1. PICK r, d : r = [alist EXCEPT !.array[i] = v] /\ d = [c EXCEPT ![i + 1] = v]
    OBVIOUS
  <2>2. alist' = r /\ aret' = [ok |-> TRUE, out |-> NoVal]
    BY <1>3, <2>1 DEF A!Set, A!Returns
  <2>3. HoldsArray(r, d)
    BY <1>2, <1>3, <2>1, ArrayElementSet
  <2>4. ArrayKept(alist)' /\ A!Content(alist)' = d
    BY <2>2, <2>3, ArrayNextHolds
  <2>5. A!Content(alist)' = [A!Content(alist) EXCEPT ![i + 1] = v] /\ i < Len(A!Content(alist))
    BY <1>1, <1>2, <1>3, <2>1, <2>4
  <2>6. QED
    BY <2>2, <2>4, <2>5, Zenon DEF A!Elements!Set, A!Elements!Returns
<1>4. CASE ~(i < alist.count)
  <2>1. A!Returns(FALSE, NoVal) /\ UNCHANGED alist
    <3>1. (i < alist.count) = FALSE
      BY <1>4
    <3>2. alist' = alist
      BY <1>4 DEF A!Set
    <3>3. A!Returns(FALSE, NoVal)
      BY <3>1, Zenon DEF A!Set, A!Returns
    <3>4. QED
      BY <3>2, <3>3
  <2>2. ArrayKept(alist)' /\ A!Elements!Fails
    BY <2>1, ArrayFails
  <2>3. i >= Len(A!Content(alist))
    BY <1>1, <1>2, <1>4
  <2>4. QED
    BY <2>2, <2>3, Zenon DEF A!Elements!Set
<1>5. QED
  BY <1>3, <1>4

\* cra_alist_add_sort
LEMMA ArrayAddsSorted ==
  ASSUME A!AListAssumption, ArrayKept(alist), NEW v \in Val, A!AddSort(v)
  PROVE  ArrayKept(alist)' /\ A!Elements!AddSort(v)
<1>1. PICK c : c = A!Content(alist)
  OBVIOUS
<1>2. c \in Seq(Val) /\ Len(c) = alist.count /\ alist.count \in Nat
  BY <1>1, ArrayKeptIs
<1>3. v \in Int /\ c \in Seq(Int)
  <2>1. Val \subseteq Int
    BY DEF A!AListAssumption
  <2>2. \A i \in 1 .. Len(c) : c[i] \in Val
    BY <1>2
  <2>3. \A i \in 1 .. Len(c) : c[i] \in Int
    BY <2>1, <2>2
  <2>4. QED
    BY <1>2, <2>1, <2>3
<1>4. PICK k : k = IF alist.count = 0 THEN 0 ELSE A!S!Searched(A!Content(alist), v) - 1
  OBVIOUS
<1>5. k \in 0 .. Len(c) /\ (k = 0 \/ c[k] <= v) /\ (k = Len(c) \/ c[k + 1] >= v)
  <2>1. CASE alist.count = 0
    BY <1>2, <1>4, <2>1
  <2>2. CASE alist.count # 0
    <3>1. PICK g : g = Searched(c, v)
      OBVIOUS
    <3>2. g \in 1 .. Len(c) + 1 /\ (g = 1 \/ c[g - 1] < v) /\ (g = Len(c) + 1 \/ c[g] >= v)
      BY <1>3, <3>1, SearchedIs
    <3>3. k = g - 1
      BY <1>1, <1>4, <2>2, <3>1, ArraySearchedBoth
    <3>4. PICK n : n = Len(c)
      OBVIOUS
    <3>5. n \in Nat /\ g \in 1 .. n + 1 /\ \A i \in 1 .. n : c[i] \in Int
      BY <1>3, <3>2, <3>4
    <3>6. k \in 0 .. n /\ k + 1 = g
      BY <3>3, <3>5
    <3>7. k = 0 \/ c[k] <= v
      <4>1. CASE g = 1
        BY <3>3, <4>1
      <4>2. CASE g # 1
        <5>1. k \in 1 .. n /\ c[k] < v
          BY <3>2, <3>3, <3>5, <4>2
        <5>2. QED
          BY <1>3, <3>5, <5>1
      <4>3. QED
        BY <4>1, <4>2
    <3>8. k = n \/ c[k + 1] >= v
      BY <3>2, <3>4, <3>6
    <3>9. QED
      BY <3>4, <3>6, <3>7, <3>8
  <2>3. QED
    BY <2>1, <2>2
<1>6. A!Insert(k, v) /\ k \in Nat
  <2>1. A!Insert(k, v)
    BY <1>4, Zenon DEF A!AddSort
  <2>2. QED
    BY <1>2, <1>5, <2>1
<1>7. /\ ArrayKept(alist)' /\ A!Elements!Insert(k, v)
      /\ \/ A!Content(alist)' = A!Content(alist)
         \/ k <= alist.count /\ A!Content(alist)' = InsertAt(A!Content(alist), k + 1, v)
  BY <1>6, ArrayInserts
<1>8. ASSUME A!Elements!Ascending(A!Content(alist))
      PROVE  A!Elements!Ascending(A!Content(alist))'
  <2>1. CASE A!Content(alist)' = A!Content(alist)
    BY <1>8, <2>1 DEF A!Elements!Ascending
  <2>2. CASE A!Content(alist)' = InsertAt(A!Content(alist), k + 1, v)
    <3>1. PICK d : d = InsertAt(c, k + 1, v)
      OBVIOUS
    <3>2. Rising(c)
      BY <1>1, <1>8 DEF Rising, A!Elements!Ascending
    <3>3. Rising(d)
      BY <1>3, <1>5, <3>1, <3>2, PutBetween
    <3>4. A!Content(alist)' = d
      BY <1>1, <2>2, <3>1
    <3>5. QED
      BY <3>3, <3>4 DEF Rising, A!Elements!Ascending
  <2>3. QED
    BY <1>7, <2>1, <2>2
<1>9. k \in 0 .. Len(A!Content(alist))
  BY <1>1, <1>5
<1>10. A!Elements!AddSort(v)
  BY <1>7, <1>8, <1>9, Zenon DEF A!Elements!AddSort
<1>11. QED
  BY <1>7, <1>10

\* cra_alist_sort
LEMMA ArraySorts ==
  ASSUME A!AListAssumption, ArrayKept(alist), A!Sort
  PROVE  ArrayKept(alist)' /\ A!Elements!Sort
<1>1. PICK c, d : c = A!Content(alist) /\ d = Sorted(c)
  OBVIOUS
<1>2. HoldsArray(alist, c) /\ c \in Seq(Val) /\ Len(c) = alist.count /\ alist.count \in Nat
  BY <1>1, ArrayKeptIs
<1>3. d \in Seq(Val) /\ Len(d) = Len(c) /\ SortsTo(d, c)
  <2>1. Val \in SUBSET Int
    BY DEF A!AListAssumption
  <2>2. QED
    BY <1>1, <1>2, <2>1, SortedType
<1>4. ASSUME alist' = [alist EXCEPT !.array = [i \in DOMAIN @ |-> IF i < alist.count THEN A!S!Sorted(A!Content(alist))[i + 1] ELSE @[i]]],
             A!Returns(TRUE, NoVal)
      PROVE  ArrayKept(alist)' /\ A!Elements!Sort
  <2>1. PICK e : e = A!S!Sorted(A!Content(alist))
    OBVIOUS
  <2>2. e = d
    BY <1>1, <2>1, ArraySortedBoth
  <2>3. PICK r : r = [alist EXCEPT !.array = [i \in DOMAIN @ |-> IF i < alist.count THEN e[i + 1] ELSE @[i]]]
    OBVIOUS
  <2>4. alist' = r
    BY <1>4, <2>1, <2>3, Zenon
  <2>5. HoldsArray(r, d)
    <3>1. r = [alist EXCEPT !.array = [i \in DOMAIN @ |-> IF i < alist.count THEN d[i + 1] ELSE @[i]]]
      BY <2>2, <2>3, Zenon
    <3>2. QED
      BY <1>2, <1>3, <3>1, ArraySortHolds
  <2>6. ArrayKept(alist)' /\ A!Content(alist)' = d
    BY <2>4, <2>5, ArrayNextHolds
  <2>7. A!Elements!Rearranged(c, d) /\ A!Elements!Ascending(d)
    BY <1>3, ArraySortKept
  <2>8. aret' = [ok |-> TRUE, out |-> NoVal]
    BY <1>4 DEF A!Returns
  <2>9. A!Elements!Rearranged(A!Content(alist), A!Content(alist)') /\ A!Elements!Ascending(A!Content(alist)')
    BY <1>1, <2>6, <2>7, Zenon
  <2>10. QED
    BY <2>6, <2>8, <2>9, Zenon DEF A!Elements!Sort, A!Elements!Returns
<1>5. ASSUME A!Returns(FALSE, NoVal) /\ UNCHANGED alist
      PROVE  ArrayKept(alist)' /\ A!Elements!Sort
  <2>1. ArrayKept(alist)' /\ A!Elements!OutOfMemory
    BY <1>5, ArrayFails
  <2>2. QED
    BY <2>1, Zenon DEF A!Elements!Sort
<1>6. QED
  BY <1>4, <1>5, Zenon DEF A!Sort, A!OutOfMemory

\* cra_alist_reverse
LEMMA ArrayReverses ==
  ASSUME A!AListAssumption, ArrayKept(alist), A!ReverseAll
  PROVE  ArrayKept(alist)' /\ A!Elements!ReverseAll
<1>1. PICK c : c = A!Content(alist)
  OBVIOUS
<1>2. HoldsArray(alist, c)
  BY <1>1, ArrayKeptIs
<1>3. ASSUME alist' = [alist EXCEPT !.array = A!Turned(@, alist.count)], A!Returns(TRUE, NoVal)
      PROVE  ArrayKept(alist)' /\ A!Elements!ReverseAll
  <2>1. PICK r : r = [alist EXCEPT !.array = A!Turned(@, alist.count)]
    OBVIOUS
  <2>2. PICK d : d = Reverse(c)
    OBVIOUS
  <2>3. HoldsArray(r, d)
    BY <1>2, <2>1, <2>2, ArrayTurnedHolds
  <2>4. ArrayKept(alist)' /\ A!Content(alist)' = d
    BY <1>3, <2>1, <2>3, ArrayNextHolds
  <2>5. Reverse(c) = A!Elements!Reverse(c)
    BY DEF Reverse, A!Elements!Reverse
  <2>6. aret' = [ok |-> TRUE, out |-> NoVal] /\ A!Content(alist)' = A!Elements!Reverse(A!Content(alist))
    BY <1>1, <1>3, <2>2, <2>4, <2>5 DEF A!Returns
  <2>7. QED
    BY <2>4, <2>6, Zenon DEF A!Elements!ReverseAll, A!Elements!Returns
<1>4. ASSUME A!Returns(FALSE, NoVal) /\ UNCHANGED alist
      PROVE  ArrayKept(alist)' /\ A!Elements!ReverseAll
  <2>1. ArrayKept(alist)' /\ A!Elements!OutOfMemory
    BY <1>4, ArrayFails
  <2>2. QED
    BY <2>1, Zenon DEF A!Elements!ReverseAll
<1>5. QED
  BY <1>3, <1>4, Zenon DEF A!ReverseAll, A!OutOfMemory

\* A new array is empty.
LEMMA ArrayFreshHolds ==
  ASSUME A!AListAssumption
  PROVE  HoldsArray(A!Fresh, << >>)
<1>1. PICK k, a : k = MinCapacity /\ a = [i \in 0 .. MinCapacity - 1 |-> NoVal]
  OBVIOUS
<1>2. PICK r, n, c : r = A!Fresh /\ n = 0 /\ c = << >>
  OBVIOUS
<1>3. k \in Nat \ {0} /\ a \in ArraysOf(k)
  BY <1>1 DEF A!AListAssumption, ArraysOf, ArrayCells
<1>4. n \in Nat /\ c \in Seq(Val) /\ n = Len(c) /\ n <= k
  BY <1>2, <1>3
<1>5. r = [count |-> n, capacity |-> k, array |-> a] /\ \A i \in 1 .. Len(c) : a[i - 1] = c[i]
  BY <1>1, <1>2 DEF A!Fresh
<1>6. /\ n \in Nat /\ k \in Nat \ {0} /\ a \in ArraysOf(k) /\ c \in Seq(Val) /\ n = Len(c) /\ n <= k
      /\ r = [count |-> n, capacity |-> k, array |-> a]
      /\ \A i \in 1 .. Len(c) : a[i - 1] = c[i]
  BY <1>3, <1>4, <1>5
<1>7. HoldsArray(r, c)
  BY ONLY <1>6, ArrayRecord
<1>8. QED
  BY <1>2, <1>7

\* cra_alist_clear, and a new list.
LEMMA ArrayClears ==
  ASSUME A!AListAssumption, ArrayKept(alist), A!Clear \/ A!Renew
  PROVE  ArrayKept(alist)' /\ A!Elements!Clear
<1>1. HoldsArray(alist', << >>)
  <2>1. CASE A!Renew
    BY <2>1, ArrayFreshHolds DEF A!Renew
  <2>2. CASE A!Clear
    <3>1. PICK c : HoldsArray(alist, c)
      BY DEF ArrayKept
    <3>2. /\ alist.count \in Nat /\ alist.capacity \in Nat \ {0} /\ alist.array \in ArraysOf(alist.capacity)
          /\ alist = [count |-> alist.count, capacity |-> alist.capacity, array |-> alist.array]
      BY <3>1, ArrayFields
    <3>3. PICK n, k, a, d : n = 0 /\ k = alist.capacity /\ a = alist.array /\ d = << >>
      OBVIOUS
    <3>4. PICK r : r = [alist EXCEPT !.count = 0]
      OBVIOUS
    <3>5. /\ n \in Nat /\ k \in Nat \ {0} /\ a \in ArraysOf(k) /\ d \in Seq(Val) /\ n = Len(d) /\ n <= k
          /\ r = [count |-> n, capacity |-> k, array |-> a]
          /\ \A i \in 1 .. Len(d) : a[i - 1] = d[i]
      BY <3>2, <3>3, <3>4
    <3>6. HoldsArray(r, d)
      BY ONLY <3>5, ArrayRecord
    <3>7. PICK z : z = A!Forgotten(r)
      OBVIOUS
    <3>8. HoldsArray(z, d)
      BY <3>6, <3>7, ArrayForgottenHolds
    <3>9. alist' = z
      BY <2>2, <3>4, <3>7, Zenon DEF A!Clear
    <3>10. QED
      BY <3>3, <3>8, <3>9
  <2>3. QED
    BY <2>1, <2>2
<1>2. PICK r, d : r = alist' /\ d = << >>
  OBVIOUS
<1>3. ArrayKept(alist)' /\ A!Content(alist)' = d
  BY <1>1, <1>2, ArrayNextHolds
<1>4. aret' = aret
  BY DEF A!Clear, A!Renew
<1>5. QED
  BY <1>2, <1>3, <1>4 DEF A!Elements!Clear

\* A call that leaves the elements as they are is one that a sequence allows.
LEMMA ArrayIdle ==
  ASSUME A!AListAssumption, NEW c \in Seq(Val), A!Content(alist) = c, A!Content(alist)' = c,
         NEW b \in BOOLEAN, aret' = [ok |-> b, out |-> NoVal]
  PROVE  A!Elements!Next
<1>1. CASE b = FALSE
  <2>1. A!Elements!Fails
    BY <1>1 DEF A!Elements!Fails, A!Elements!Returns
  <2>2. A!Elements!ReverseAll
    BY <2>1, Zenon DEF A!Elements!ReverseAll, A!Elements!OutOfMemory
  <2>3. QED
    BY <2>2, Zenon DEF A!Elements!Next
<1>2. CASE b = TRUE /\ Len(c) = 0
  <2>1. PICK e : e = Reverse(c)
    OBVIOUS
  <2>2. IsBackwards(Val, e, c)
    BY <2>1, BackwardsIs
  <2>3. e \in Seq(Val) /\ Len(e) = Len(c) /\ \A i \in 1 .. Len(c) : e[i] = c[i]
    BY <1>2, <2>2 DEF IsBackwards
  <2>4. e = c
    BY <2>3, SeqEqual
  <2>5. A!Elements!Reverse(c) = e
    BY <2>1 DEF Reverse, A!Elements!Reverse
  <2>6. A!Content(alist)' = A!Elements!Reverse(A!Content(alist)) /\ aret' = [ok |-> TRUE, out |-> NoVal]
    BY <1>2, <2>4, <2>5
  <2>7. A!Elements!ReverseAll
    BY <2>6, Zenon DEF A!Elements!ReverseAll, A!Elements!Returns
  <2>8. QED
    BY <2>7, Zenon DEF A!Elements!Next
<1>3. CASE b = TRUE /\ Len(c) # 0
  <2>1. PICK v : v = c[1]
    OBVIOUS
  <2>2. v \in Val
    BY <1>3, <2>1
  <2>3. [c EXCEPT ![0 + 1] = v] = c
    BY <1>3, <2>1
  <2>4. A!Content(alist)' = [A!Content(alist) EXCEPT ![0 + 1] = v] /\ aret' = [ok |-> TRUE, out |-> NoVal]
    BY <1>3, <2>3
  <2>5. 0 < Len(A!Content(alist))
    BY <1>3
  <2>6. A!Elements!Set(0, v)
    BY <2>4, <2>5, Zenon DEF A!Elements!Set, A!Elements!Returns
  <2>7. 0 \in 0 .. MaxCount
    BY DEF A!AListAssumption
  <2>8. QED
    BY <2>2, <2>6, <2>7, Zenon DEF A!Elements!Next
<1>4. QED
  BY <1>1, <1>2, <1>3

\* cra_alist_reserve
LEMMA ArrayReserves ==
  ASSUME A!AListAssumption, ArrayKept(alist), NEW n \in Nat, A!Reserve(n)
  PROVE  ArrayKept(alist)' /\ A!Elements!Next
<1>1. PICK c : c = A!Content(alist)
  OBVIOUS
<1>2. HoldsArray(alist, c) /\ c \in Seq(Val) /\ Len(c) = alist.count /\ alist.count \in Nat
  BY <1>1, ArrayKeptIs
<1>3. ASSUME alist' = A!Resized(A!Max({n, alist.count, MinCapacity})), A!Returns(TRUE, NoVal)
      PROVE  ArrayKept(alist)' /\ A!Elements!Next
  <2>1. PICK z, k : z = {n, alist.count, MinCapacity} /\ k = A!Max(z)
    OBVIOUS
  <2>2. k \in z /\ \A y \in z : y <= k
    <3>1. z \in SUBSET Nat /\ z # {} /\ MinCapacity \in Nat
      BY <1>2, <2>1 DEF A!AListAssumption
    <3>2. \E y \in z : \A x \in z : y >= x
      <4>1. PICK p : p = IF n >= alist.count THEN n ELSE alist.count
        OBVIOUS
      <4>2. p \in Nat /\ p >= n /\ p >= alist.count /\ p \in z
        BY <1>2, <2>1, <4>1
      <4>3. PICK q : q = IF p >= MinCapacity THEN p ELSE MinCapacity
        OBVIOUS
      <4>4. q \in z /\ q >= n /\ q >= alist.count /\ q >= MinCapacity
        BY <1>2, <2>1, <3>1, <4>2, <4>3
      <4>5. QED
        BY <2>1, <4>4
    <3>3. k = CHOOSE y \in z : \A x \in z : y >= x
      BY <2>1 DEF A!Max
    <3>4. k \in z /\ \A x \in z : k >= x
      BY <3>2, <3>3, Zenon
    <3>5. \A x \in z : x \in Nat
      BY <3>1
    <3>6. QED
      BY <3>4, <3>5
  <2>3. k \in Nat \ {0} /\ alist.count <= k
    <3>1. k \in Nat /\ MinCapacity <= k /\ alist.count <= k /\ MinCapacity \in Nat \ {0}
      BY <1>2, <2>1, <2>2 DEF A!AListAssumption
    <3>2. QED
      BY <3>1
  <2>4. PICK r : r = [alist EXCEPT !.capacity = k, !.array = A!Reallocated(@, k)]
    OBVIOUS
  <2>5. HoldsArray(r, c)
    BY <1>2, <2>3, <2>4, ArrayReallocs
  <2>6. alist' = r
    BY <1>3, <2>1, <2>4, Zenon DEF A!Resized
  <2>7. ArrayKept(alist)' /\ A!Content(alist)' = c
    BY <2>5, <2>6, ArrayNextHolds
  <2>8. aret' = [ok |-> TRUE, out |-> NoVal] /\ TRUE \in BOOLEAN
    BY <1>3 DEF A!Returns
  <2>9. QED
    BY <1>1, <1>2, <2>7, <2>8, ArrayIdle
<1>4. ASSUME A!Returns(FALSE, NoVal) /\ UNCHANGED alist
      PROVE  ArrayKept(alist)' /\ A!Elements!Next
  <2>1. ArrayKept(alist)' /\ A!Elements!OutOfMemory
    BY <1>4, ArrayFails
  <2>2. A!Elements!ReverseAll
    BY <2>1, Zenon DEF A!Elements!ReverseAll
  <2>3. QED
    BY <2>1, <2>2, Zenon DEF A!Elements!Next
<1>5. QED
  BY <1>3, <1>4, Zenon DEF A!Reserve, A!OutOfMemory

\* Every step is one of a sequence.
LEMMA ArrayNext ==
  ASSUME A!AListAssumption, ArrayKept(alist), [A!Next]_(A!vars)
  PROVE  ArrayKept(alist)' /\ [A!Elements!Next]_(A!Elements!vars)
<1>1. ASSUME NEW i \in 0 .. MaxCount, A!PopAt(i) \/ A!Get(i)
      PROVE  ArrayKept(alist)' /\ A!Elements!Next
  <2>1. i \in Nat
    BY DEF A!AListAssumption
  <2>2. ArrayKept(alist)' /\ (A!Elements!PopAt(i) \/ A!Elements!Get(i))
    BY <1>1, <2>1, ArrayPops, ArrayGets
  <2>3. QED
    BY <2>2, Zenon DEF A!Elements!Next
<1>2. ASSUME NEW i \in 0 .. MaxCount, NEW v \in Val, A!Insert(i, v) \/ A!Set(i, v)
      PROVE  ArrayKept(alist)' /\ A!Elements!Next
  <2>1. i \in Nat
    BY DEF A!AListAssumption
  <2>2. ArrayKept(alist)' /\ (A!Elements!Insert(i, v) \/ A!Elements!Set(i, v))
    BY <1>2, <2>1, ArrayInserts, ArraySets
  <2>3. QED
    BY <2>2, Zenon DEF A!Elements!Next
<1>3. ASSUME NEW v \in Val, A!AddSort(v)
      PROVE  ArrayKept(alist)' /\ A!Elements!Next
  <2>1. ArrayKept(alist)' /\ A!Elements!AddSort(v)
    BY <1>3, ArrayAddsSorted
  <2>2. QED
    BY <2>1, Zenon DEF A!Elements!Next
<1>4. ASSUME A!Sort \/ A!ReverseAll \/ A!Clear \/ A!Renew
      PROVE  ArrayKept(alist)' /\ A!Elements!Next
  <2>1. ArrayKept(alist)' /\ (A!Elements!Sort \/ A!Elements!ReverseAll \/ A!Elements!Clear)
    BY <1>4, ArraySorts, ArrayReverses, ArrayClears
  <2>2. QED
    BY <2>1, Zenon DEF A!Elements!Next
<1>5. ASSUME NEW n \in Capacities, A!Reserve(n)
      PROVE  ArrayKept(alist)' /\ A!Elements!Next
  <2>1. n \in Nat
    BY DEF A!AListAssumption
  <2>2. QED
    BY <1>5, <2>1, ArrayReserves
<1>6. ASSUME UNCHANGED A!vars
      PROVE  ArrayKept(alist)' /\ UNCHANGED A!Elements!vars
  BY <1>6 DEF A!vars, A!Elements!vars
<1>7. QED
  BY <1>1, <1>2, <1>3, <1>4, <1>5, <1>6, Zenon DEF A!Next

\* A new list is empty.
LEMMA ArrayInit ==
  ASSUME A!AListAssumption, A!Init
  PROVE  ArrayKept(alist) /\ A!Elements!Init
<1>1. PICK r, c : r = A!Fresh /\ c = << >>
  OBVIOUS
<1>2. HoldsArray(r, c)
  BY <1>1, ArrayFreshHolds
<1>3. alist = r /\ aret = [ok |-> FALSE, out |-> NoVal]
  BY <1>1 DEF A!Init
<1>4. ArrayKept(alist) /\ A!Content(alist) = << >>
  BY <1>1, <1>2, <1>3, ArrayContentIs DEF ArrayKept
<1>5. QED
  BY <1>3, <1>4 DEF A!Elements!Init

\* The array list implements a sequence: growing, shrinking and shifting neither
\* lose, double nor reorder an element, sorting sorts, and the binary search puts
\* an element where a sorted list stays sorted.
THEOREM AListIsSequence ==
  ASSUME A!AListAssumption
  PROVE  A!Spec => A!ListSpec
<1>1. A!Init => ArrayKept(alist) /\ A!Elements!Init
  BY ArrayInit
<1>2. ArrayKept(alist) /\ [A!Next]_(A!vars) => ArrayKept(alist)' /\ [A!Elements!Next]_(A!Elements!vars)
  BY ArrayNext
<1>3. QED
  BY <1>1, <1>2, PTL DEF A!Spec, A!ListSpec, A!Elements!Spec
=============================================================================
