-------------------------- MODULE ContainersProofs --------------------------
(***************************************************************************)
(* Theorems about the containers.  The dictionary, for every set of keys,  *)
(* every hash and every table of primes that grows by enough: the chains,  *)
(* the free list and the count agree, the entries fit the memory they are  *)
(* in, and the whole is a map.  The deque and the lists as MCContainers    *)
(* composes them: what DequeProofs and ListProofs prove holds of it.       *)
(***************************************************************************)
EXTENDS MCContainers, SequenceLemmas, FiniteSetTheorems, TLAPS

(***************************************************************************)
(* Chains of entries.                                                      *)
(***************************************************************************)
\* The entries in use.
Taken(e) == {i \in 1 .. Len(e) : e[i].hash # Free}

\* s is the chain that starts at index i.
IsChain(e, i, s) ==
  /\ s \in Seq(Nat) /\ \A n \in 1 .. Len(s) : s[n] \in 1 .. Len(e)
  /\ \A m, n \in 1 .. Len(s) : s[m] = s[n] => m = n
  /\ i = IF Len(s) = 0 THEN Nil ELSE s[1]
  /\ \A n \in 1 .. Len(s) : e[s[n]].next = IF n = Len(s) THEN Nil ELSE s[n + 1]

Members(s) == {s[n] : n \in 1 .. Len(s)}

\* The indices in T, and no others, are reached from i, each once.
Chained(e, i, T) == \E s : IsChain(e, i, s) /\ Members(s) = T

\* What `next` says of the indices in T is the same in f as in e.
SameNext(e, f, T) == \A m \in T : m \in 1 .. Len(f) /\ f[m].next = e[m].next

\* Nothing is reached from Nil, and something from everywhere else.
LEMMA ChainEnds ==
  ASSUME NEW e, NEW i, NEW T, Chained(e, i, T)
  PROVE  /\ T \subseteq 1 .. Len(e)
         /\ i = Nil => T = {}
         /\ i # Nil => i \in T
<1>1. PICK s : IsChain(e, i, s) /\ Members(s) = T
  BY DEF Chained
<1>2. Len(s) \in Nat /\ \A n \in 1 .. Len(s) : s[n] \in 1 .. Len(e) /\ s[n] # Nil
  BY <1>1 DEF IsChain, Nil
<1>3. CASE Len(s) = 0
  BY <1>1, <1>3 DEF IsChain, Members
<1>4. CASE Len(s) # 0
  <2>1. 1 \in 1 .. Len(s) /\ i = s[1]
    BY <1>1, <1>2, <1>4 DEF IsChain
  <2>2. QED
    BY <1>1, <1>2, <2>1 DEF Members
<1>5. QED
  BY <1>3, <1>4

\* Nil is the start of the chain of nothing.
LEMMA ChainOfNone ==
  ASSUME NEW e
  PROVE  Chained(e, Nil, {})
<1>1. IsChain(e, Nil, << >>) /\ Members(<< >>) = {}
  BY DEF IsChain, Members
<1>2. QED
  BY <1>1 DEF Chained

\* A chain is a chain where its entries have the same successors.
LEMMA ChainStays ==
  ASSUME NEW e, NEW i, NEW T, Chained(e, i, T), NEW f, SameNext(e, f, T)
  PROVE  Chained(f, i, T)
<1>1. PICK s : IsChain(e, i, s) /\ Members(s) = T
  BY DEF Chained
<1>2. \A n \in 1 .. Len(s) : s[n] \in T
  BY <1>1 DEF Members
<1>3. \A n \in 1 .. Len(s) : s[n] \in 1 .. Len(f) /\ f[s[n]].next = e[s[n]].next
  BY <1>2 DEF SameNext
<1>4. IsChain(f, i, s)
  BY <1>1, <1>3 DEF IsChain
<1>5. QED
  BY <1>1, <1>4 DEF Chained

\* A chain gets a new first entry.
LEMMA ChainLonger ==
  ASSUME NEW e, NEW i, NEW T, Chained(e, i, T), NEW f, SameNext(e, f, T),
         NEW j \in 1 .. Len(f), j \notin T, f[j].next = i
  PROVE  Chained(f, j, T \cup {j})
<1>1. PICK s : IsChain(f, i, s) /\ Members(s) = T
  BY ChainStays DEF Chained
<1> DEFINE r == <<j>> \o s
<1>2. s \in Seq(Nat) /\ Len(s) \in Nat /\ j \in Nat
  BY <1>1 DEF IsChain
<1>3. r \in Seq(Nat) /\ Len(r) = Len(s) + 1 /\ r[1] = j /\ \A n \in 1 .. Len(s) : r[n + 1] = s[n]
  BY <1>2
<1> HIDE DEF r
<1>4. \A n \in 1 .. Len(r) : n = 1 \/ (n - 1 \in 1 .. Len(s) /\ (n - 1) + 1 = n)
  BY <1>2, <1>3
<1>5. \A n \in 1 .. Len(r) : n # 1 => r[n] = s[n - 1] /\ n - 1 \in 1 .. Len(s)
  BY <1>3, <1>4
<1>6. \A n \in 1 .. Len(s) : s[n] # j
  BY <1>1 DEF Members
<1>7. \A n \in 1 .. Len(r) : r[n] \in 1 .. Len(f)
  BY <1>1, <1>3, <1>5 DEF IsChain
<1>8. \A m, n \in 1 .. Len(r) : r[m] = r[n] => m = n
  <2> SUFFICES ASSUME NEW m \in 1 .. Len(r), NEW n \in 1 .. Len(r), r[m] = r[n] PROVE m = n
    OBVIOUS
  <2>1. CASE m = 1 \/ n = 1
    BY <1>3, <1>5, <1>6, <2>1
  <2>2. CASE m # 1 /\ n # 1
    <3>1. s[m - 1] = s[n - 1] /\ m - 1 \in 1 .. Len(s) /\ n - 1 \in 1 .. Len(s)
      BY <1>5, <2>2
    <3>2. m - 1 = n - 1
      BY <1>1, <3>1 DEF IsChain
    <3>3. QED
      BY <1>2, <1>3, <3>2
  <2>3. QED
    BY <2>1, <2>2
<1>9. \A n \in 1 .. Len(r) : f[r[n]].next = IF n = Len(r) THEN Nil ELSE r[n + 1]
  <2> SUFFICES ASSUME NEW n \in 1 .. Len(r) PROVE f[r[n]].next = IF n = Len(r) THEN Nil ELSE r[n + 1]
    OBVIOUS
  <2>1. CASE n = 1
    <3>1. f[r[n]].next = IF Len(s) = 0 THEN Nil ELSE s[1]
      BY <1>1, <1>3, <2>1 DEF IsChain
    <3>2. Len(s) # 0 => r[2] = s[1]
      <4>1. Len(s) # 0 => 1 \in 1 .. Len(s) /\ 1 + 1 = 2
        BY <1>2
      <4>2. QED
        BY <1>3, <4>1
    <3>3. n = Len(r) <=> Len(s) = 0
      BY <1>2, <1>3, <2>1
    <3>4. QED
      BY <2>1, <3>1, <3>2, <3>3
  <2>2. CASE n # 1
    <3>1. r[n] = s[n - 1] /\ n - 1 \in 1 .. Len(s)
      BY <1>5, <2>2
    <3>2. f[s[n - 1]].next = IF n - 1 = Len(s) THEN Nil ELSE s[(n - 1) + 1]
      BY <1>1, <3>1 DEF IsChain
    <3>3. (n - 1) + 1 = n /\ (n - 1 = Len(s) <=> n = Len(r))
      BY <1>2, <1>3
    <3>4. n # Len(r) => n \in 1 .. Len(s)
      BY <1>2, <1>3
    <3>5. QED
      BY <1>3, <3>1, <3>2, <3>3, <3>4
  <2>3. QED
    BY <2>1, <2>2
<1>10. IsChain(f, j, r)
  <2>1. j = IF Len(r) = 0 THEN Nil ELSE r[1]
    BY <1>2, <1>3
  <2>2. QED
    BY <1>3, <1>7, <1>8, <1>9, <2>1 DEF IsChain
<1>11. Members(r) = T \cup {j}
  <2>1. \A n \in 1 .. Len(r) : r[n] \in T \cup {j}
    BY <1>1, <1>3, <1>5 DEF Members
  <2>2. \A n \in 1 .. Len(s) : n + 1 \in 1 .. Len(r)
    BY <1>2, <1>3
  <2>3. 1 \in 1 .. Len(r)
    BY <1>2, <1>3
  <2>4. T = {s[n] : n \in 1 .. Len(s)}
    BY <1>1 DEF Members
  <2>5. Members(r) \subseteq T \cup {j}
    BY <2>1 DEF Members
  <2>6. j \in Members(r)
    BY <1>3, <2>3 DEF Members
  <2>7. \A n \in 1 .. Len(s) : s[n] \in Members(r)
    BY <1>3, <2>2 DEF Members
  <2>8. QED
    BY <2>4, <2>5, <2>6, <2>7
<1>12. QED
  BY <1>10, <1>11 DEF Chained

\* A chain loses its first entry.
LEMMA ChainShorter ==
  ASSUME NEW e, NEW i, NEW T, Chained(e, i, T), i # Nil
  PROVE  Chained(e, e[i].next, T \ {i})
<1>1. PICK s : IsChain(e, i, s) /\ Members(s) = T
  BY DEF Chained
<1> DEFINE r == Tail(s)
<1>2. s \in Seq(Nat) /\ Len(s) \in Nat /\ Len(s) # 0 /\ s[1] = i
  BY <1>1 DEF IsChain
<1>3. r \in Seq(Nat) /\ Len(r) = Len(s) - 1 /\ \A n \in 1 .. Len(r) : r[n] = s[n + 1]
  BY <1>2
<1> HIDE DEF r
<1>4. \A n \in 1 .. Len(r) : n + 1 \in 1 .. Len(s) /\ n + 1 # 1
  BY <1>2, <1>3
<1>5. Len(r) \in Nat /\ 1 \in 1 .. Len(s)
  BY <1>2, <1>3
<1>6. \A n \in 1 .. Len(r) : r[n] \in 1 .. Len(e)
  BY <1>1, <1>3, <1>4 DEF IsChain
<1>7. \A m, n \in 1 .. Len(r) : r[m] = r[n] => m = n
  <2> SUFFICES ASSUME NEW m \in 1 .. Len(r), NEW n \in 1 .. Len(r), r[m] = r[n] PROVE m = n
    OBVIOUS
  <2>1. s[m + 1] = s[n + 1]
    BY <1>3
  <2>2. m + 1 = n + 1
    BY <1>1, <1>4, <2>1 DEF IsChain
  <2>3. QED
    BY <1>5, <2>2
<1>8. \A n \in 1 .. Len(r) : e[r[n]].next = IF n = Len(r) THEN Nil ELSE r[n + 1]
  <2> SUFFICES ASSUME NEW n \in 1 .. Len(r) PROVE e[r[n]].next = IF n = Len(r) THEN Nil ELSE r[n + 1]
    OBVIOUS
  <2>1. e[s[n + 1]].next = IF n + 1 = Len(s) THEN Nil ELSE s[(n + 1) + 1]
    BY <1>1, <1>4 DEF IsChain
  <2>2. (n + 1 = Len(s) <=> n = Len(r)) /\ (n # Len(r) => n + 1 \in 1 .. Len(r))
    BY <1>2, <1>3
  <2>3. QED
    BY <1>3, <2>1, <2>2
<1>9. e[i].next = IF Len(r) = 0 THEN Nil ELSE r[1]
  <2>1. e[s[1]].next = IF 1 = Len(s) THEN Nil ELSE s[1 + 1]
    BY <1>1, <1>5 DEF IsChain
  <2>2. (1 = Len(s) <=> Len(r) = 0) /\ (Len(r) # 0 => 1 \in 1 .. Len(r))
    BY <1>2, <1>3
  <2>3. QED
    BY <1>2, <1>3, <2>1, <2>2
<1>10. IsChain(e, e[i].next, r)
  BY <1>3, <1>6, <1>7, <1>8, <1>9 DEF IsChain
<1>11. Members(r) = T \ {i}
  <2>1. \A n \in 1 .. Len(s) : n # 1 => n - 1 \in 1 .. Len(r) /\ (n - 1) + 1 = n
    BY <1>2, <1>3
  <2>2. \A n \in 1 .. Len(s) : n # 1 => s[n] # s[1]
    BY <1>1, <1>5 DEF IsChain
  <2>3. \A n \in 1 .. Len(s) : s[n] # i => n # 1 /\ s[n] = r[n - 1]
    BY <1>2, <1>3, <2>1
  <2>4. T = {s[n] : n \in 1 .. Len(s)}
    BY <1>1 DEF Members
  <2>5. T \ {i} \subseteq Members(r)
    <3>1. SUFFICES ASSUME NEW m \in T, m # i PROVE m \in Members(r)
      OBVIOUS
    <3>2. PICK n \in 1 .. Len(s) : m = s[n]
      BY <2>4
    <3>3. n # 1 /\ m = r[n - 1]
      BY <2>3, <3>1, <3>2
    <3>4. PICK k : k = n - 1
      OBVIOUS
    <3>5. k \in 1 .. Len(r) /\ m = r[k]
      BY <2>1, <3>3, <3>4
    <3>6. QED
      BY <3>5, Zenon DEF Members
  <2>6. Members(r) \subseteq T \ {i}
    <3>1. SUFFICES ASSUME NEW m \in Members(r) PROVE m \in T /\ m # i
      OBVIOUS
    <3>2. PICK n \in 1 .. Len(r) : m = r[n]
      BY <3>1 DEF Members
    <3>3. PICK k : k = n + 1
      OBVIOUS
    <3>4. k \in 1 .. Len(s) /\ k # 1 /\ m = s[k]
      BY <1>3, <1>4, <3>2, <3>3
    <3>5. QED
      BY <1>2, <2>2, <2>4, <3>4
  <2>7. QED
    BY <2>5, <2>6
<1>12. QED
  BY <1>10, <1>11 DEF Chained

\* What the recursive function of Follow is.
Hops(h, e, i) ==
  h = [n \in 1 .. Len(e) |->
         IF n = 1 THEN i ELSE IF h[n - 1] = Nil THEN Nil ELSE e[h[n - 1]].next]

\* Its value at one place.
LEMMA HopsAt ==
  ASSUME NEW h, NEW e, NEW i, Hops(h, e, i), NEW n \in 1 .. Len(e)
  PROVE  h[n] = IF n = 1 THEN i ELSE IF h[n - 1] = Nil THEN Nil ELSE e[h[n - 1]].next
BY Zenon DEF Hops

\* A chain is no longer than the table.
LEMMA ChainFits ==
  ASSUME NEW e, Len(e) \in Nat, NEW i, NEW s, IsChain(e, i, s)
  PROVE  Len(s) \in Nat /\ Len(s) <= Len(e)
<1>1. Len(s) \in Nat
  BY DEF IsChain
<1> DEFINE n == Len(s)
           m == Len(e)
           f == [j \in 1 .. n |-> s[j]]
<1>2. \A j \in 1 .. n : s[j] \in 1 .. m
  BY DEF IsChain
<1>3. \A j, l \in 1 .. n : s[j] = s[l] => j = l
  BY DEF IsChain
<1>4. f \in Injection(1 .. n, 1 .. m)
  <2> HIDE DEF n, m
  <2>1. f \in [1 .. n -> 1 .. m]
    BY <1>2
  <2>2. \A a, b \in 1 .. n : f[a] = f[b] => a = b
    BY <1>3
  <2> HIDE DEF f
  <2>3. QED
    BY <2>1, <2>2 DEF Injection, IsInjective
<1>5. IsFiniteSet(1 .. m) /\ Cardinality(1 .. m) = m /\ Cardinality(1 .. n) = n
  <2>1. n \in Nat /\ m \in Nat
    BY <1>1
  <2> HIDE DEF n, m
  <2>2. IsFiniteSet(1 .. m) /\ Cardinality(1 .. m) = IF 1 > m THEN 0 ELSE m - 1 + 1
    BY <2>1, FS_Interval
  <2>3. Cardinality(1 .. n) = IF 1 > n THEN 0 ELSE n - 1 + 1
    BY <2>1, FS_Interval
  <2>4. QED
    BY <2>1, <2>2, <2>3
<1>6. Cardinality(1 .. n) <= Cardinality(1 .. m)
  <2> HIDE DEF f, n, m
  <2>1. QED
    BY <1>4, <1>5, FS_Injection
<1>7. QED
  BY <1>1, <1>5, <1>6

\* There is such a function, and it reads the chain and then Nil.
LEMMA HopsAre ==
  ASSUME NEW e, Len(e) \in Nat, NEW i, i # Nil, NEW s, IsChain(e, i, s),
         NEW g, g = [n \in 1 .. Len(e) |-> IF n <= Len(s) THEN s[n] ELSE Nil]
  PROVE  /\ Hops(g, e, i)
         /\ \A h : Hops(h, e, i) => h = g
<1>1. Len(s) \in Nat /\ Len(s) <= Len(e)
  BY ChainFits
<1>2. Len(s) # 0 /\ s[1] = i
  BY <1>1 DEF IsChain
<1>3. \A n \in 1 .. Len(s) : s[n] # Nil /\ e[s[n]].next = IF n = Len(s) THEN Nil ELSE s[n + 1]
  BY DEF IsChain, Nil
<1>4. \A n \in 1 .. Len(e) : g[n] = IF n <= Len(s) THEN s[n] ELSE Nil
  OBVIOUS
<1>5. ASSUME NEW n \in 1 .. Len(e)
      PROVE  g[n] = IF n = 1 THEN i ELSE IF g[n - 1] = Nil THEN Nil ELSE e[g[n - 1]].next
  <2>1. CASE n = 1
    BY <1>1, <1>2, <1>4, <2>1
  <2>2. CASE n # 1
    <3>1. n - 1 \in 1 .. Len(e) /\ (n - 1) + 1 = n
      BY <2>2
    <3>2. CASE n - 1 <= Len(s)
      <4>1. n - 1 \in 1 .. Len(s) /\ (n - 1 = Len(s) <=> ~(n <= Len(s)))
        BY <1>1, <3>1, <3>2
      <4>2. g[n - 1] = s[n - 1] /\ s[n - 1] # Nil
        BY <1>3, <1>4, <3>1, <3>2, <4>1
      <4>3. e[s[n - 1]].next = IF n - 1 = Len(s) THEN Nil ELSE s[n]
        BY <1>3, <3>1, <4>1
      <4>4. QED
        BY <1>4, <2>2, <4>1, <4>2, <4>3
    <3>3. CASE ~(n - 1 <= Len(s))
      <4>1. ~(n <= Len(s))
        BY <1>1, <3>3
      <4>2. QED
        BY <1>4, <2>2, <3>1, <3>3, <4>1
    <3>4. QED
      BY <3>2, <3>3
  <2>3. QED
    BY <2>1, <2>2
<1>6. Hops(g, e, i)
  <2>1. g = [n \in 1 .. Len(e) |-> g[n]]
    OBVIOUS
  <2>2. QED
    BY <1>5, <2>1, Zenon DEF Hops
<1>7. ASSUME NEW h, Hops(h, e, i)
      PROVE  h = g
  <2> DEFINE T == {n \in Nat : n \in 1 .. Len(e) => h[n] = g[n]}
  <2>1. 0 \in T
    OBVIOUS
  <2>2. ASSUME NEW n \in Nat, n \in T
        PROVE  n + 1 \in T
    <3> SUFFICES ASSUME n + 1 \in 1 .. Len(e)
                 PROVE  h[n + 1] = g[n + 1]
      OBVIOUS
    <3> DEFINE j == n + 1
    <3>1. j \in 1 .. Len(e) /\ j - 1 = n /\ (j # 1 => n \in 1 .. Len(e))
      OBVIOUS
    <3>2. j # 1 => h[n] = g[n]
      BY <2>2, <3>1
    <3> HIDE DEF j
    <3>3. h[j] = IF j = 1 THEN i ELSE IF h[j - 1] = Nil THEN Nil ELSE e[h[j - 1]].next
      BY <1>7, <3>1, HopsAt
    <3>4. g[j] = IF j = 1 THEN i ELSE IF g[j - 1] = Nil THEN Nil ELSE e[g[j - 1]].next
      BY <1>5, <3>1
    <3>5. h[j] = g[j]
      BY <3>1, <3>2, <3>3, <3>4, Zenon
    <3>6. QED
      BY <3>5 DEF j
  <2> HIDE DEF T
  <2>3. \A n \in Nat : n \in T
    BY <2>1, <2>2, SetInduction
  <2>4. \A n \in 1 .. Len(e) : h[n] = g[n]
    <3>1. TAKE n \in 1 .. Len(e)
    <3>2. n \in T
      BY <2>3
    <3>3. QED
      BY <3>2, Zenon DEF T
  <2>5. h = [n \in 1 .. Len(e) |-> h[n]]
    BY <1>7, Zenon DEF Hops
  <2>6. QED
    BY <2>4, <2>5
<1>8. QED
  BY <1>6, <1>7

\* Follow reads the chain.
LEMMA FollowIs ==
  ASSUME NEW t, Len(t.entries) \in Nat, NEW i, NEW s, IsChain(t.entries, i, s)
  PROVE  Follow(t, i) = s
<1> DEFINE most == Len(t.entries)
           Behind(j) == IF j = Nil THEN Nil ELSE t.entries[j].next
           hop[n \in 1 .. most] == IF n = 1 THEN i ELSE Behind(hop[n - 1])
<1>1. Follow(t, i) = IF i = Nil THEN << >>
                     ELSE [n \in 1 .. Cardinality({m \in 1 .. most : hop[m] # Nil}) |-> hop[n]]
  BY Zenon DEF Follow
<1>2. hop = CHOOSE h : Hops(h, t.entries, i)
  BY Zenon DEF Hops
<1> HIDE DEF hop
<1>3. Len(s) \in Nat /\ Len(s) <= most /\ s \in Seq(Nat)
  BY ChainFits DEF IsChain
<1>4. CASE i = Nil
  <2>1. Len(s) = 0
    <3>1. Len(s) # 0 => i = s[1] /\ 1 \in 1 .. Len(s)
      BY <1>3 DEF IsChain
    <3>2. QED
      BY <1>4, <3>1 DEF IsChain, Nil
  <2>2. s = << >>
    BY <1>3, <2>1
  <2>3. QED
    BY <1>1, <1>4, <2>2
<1>5. CASE i # Nil
  <2> DEFINE g == [n \in 1 .. most |-> IF n <= Len(s) THEN s[n] ELSE Nil]
  <2>1. Hops(g, t.entries, i) /\ \A h : Hops(h, t.entries, i) => h = g
    <3>1. g = [n \in 1 .. Len(t.entries) |-> IF n <= Len(s) THEN s[n] ELSE Nil]
      OBVIOUS
    <3>2. PICK e : e = t.entries
      OBVIOUS
    <3> HIDE DEF g
    <3>3. Len(e) \in Nat /\ IsChain(e, i, s) /\ g = [n \in 1 .. Len(e) |-> IF n <= Len(s) THEN s[n] ELSE Nil]
      BY <3>1, <3>2
    <3>4. Hops(g, e, i) /\ \A h : Hops(h, e, i) => h = g
      BY ONLY <1>5, <3>3, HopsAre
    <3>5. QED
      BY <3>2, <3>4
  <2>2. hop = g
    <3> HIDE DEF g
    <3>1. QED
      BY <1>2, <2>1, Zenon
  <2>3. \A n \in 1 .. most : hop[n] = IF n <= Len(s) THEN s[n] ELSE Nil
    BY <2>2
  <2>4. \A n \in 1 .. Len(s) : s[n] # Nil /\ n \in 1 .. most
    BY <1>3 DEF IsChain, Nil
  <2>5. {m \in 1 .. most : hop[m] # Nil} = 1 .. Len(s)
    BY <1>3, <2>3, <2>4
  <2>6. Cardinality(1 .. Len(s)) = Len(s)
    <3>1. PICK k \in Nat : k = Len(s)
      BY <1>3
    <3>2. Cardinality(1 .. k) = IF 1 > k THEN 0 ELSE k - 1 + 1
      BY ONLY k \in Nat, FS_Interval
    <3>3. Cardinality(1 .. k) = k
      BY ONLY k \in Nat, <3>2
    <3>4. QED
      BY <3>1, <3>3
  <2>7. Follow(t, i) = [n \in 1 .. Len(s) |-> hop[n]]
    BY <1>1, <1>5, <2>5, <2>6, Zenon
  <2>8. \A n \in 1 .. Len(s) : hop[n] = s[n]
    BY <2>3, <2>4
  <2>9. s = [n \in 1 .. Len(s) |-> s[n]]
    BY <1>3
  <2>10. QED
    BY <2>7, <2>8, <2>9
<1>6. QED
  BY <1>4, <1>5

(***************************************************************************)
(* The dictionary: what makes its table tidy, and what is found in it.     *)
(***************************************************************************)
Entry == [hash : Nat \cup {Free}, next : Nat, key : Key \cup {NoVal}, val : Val \cup {NoVal}]

Table == [capacity : Nat \ {0}, room : Nat, freelist : Nat, entries : Seq(Entry),
          buckets : UNION {[0 .. n - 1 -> Nat] : n \in Nat}]

\* The entries that belong to bucket b, and those that belong to none.
InBucket(t, b) == {i \in Taken(t.entries) : t.entries[i].hash % t.capacity = b}
Vacant(e)      == (1 .. Len(e)) \ Taken(e)

IsTable(t) == t \in Table /\ t.buckets \in [0 .. t.capacity - 1 -> Nat]

Linkage(t) == /\ \A b \in 0 .. t.capacity - 1 : Chained(t.entries, t.buckets[b], InBucket(t, b))
              /\ Chained(t.entries, t.freelist, Vacant(t.entries))

IsPair(entry) == entry.key \in Key /\ entry.val \in Val /\ entry.hash = Hash[entry.key]

Keys(t) == /\ \A i \in Taken(t.entries) : IsPair(t.entries[i])
           /\ \A i, j \in Taken(t.entries) : t.entries[i].key = t.entries[j].key => i = j

\* A table whose chains hold what they should.
Tidy(t) == IsTable(t) /\ Linkage(t) /\ Keys(t)

\* What it maps to what.
Pairs(t) == {<<t.entries[i].key, t.entries[i].val>> : i \in Taken(t.entries)}

\* The next prime is one, and no less than what was asked for.
LEMMA NextPrimeIs ==
  ASSUME NEW n \in Nat, InTable(n)
  PROVE  NextPrime(n) \in Primes /\ NextPrime(n) \in Nat \ {0} /\ NextPrime(n) >= n
<1> DEFINE S == {p \in Primes : p >= n}
<1>1. S \subseteq Nat /\ S # {}
  BY DictAssumption DEF InTable
<1>2. Min(S) \in S
  BY <1>1, HasMin
<1>3. QED
  BY <1>2, DictAssumption DEF NextPrime

\* A hash belongs to a bucket.
LEMMA BucketIs ==
  ASSUME NEW h \in Nat, NEW c \in Nat \ {0}
  PROVE  h % c \in 0 .. c - 1
OBVIOUS

\* The chain of a key holds the entries of its bucket.
LEMMA ChainIs ==
  ASSUME NEW t, Tidy(t), NEW k \in Key
  PROVE  /\ IsChain(t.entries, t.buckets[Bucket(t, k)], Chain(t, k))
         /\ Members(Chain(t, k)) = InBucket(t, Bucket(t, k))
<1>1. Hash[k] \in Nat /\ t.capacity \in Nat \ {0} /\ Len(t.entries) \in Nat
  BY DictAssumption DEF Tidy, IsTable, Table
<1>2. Bucket(t, k) \in 0 .. t.capacity - 1
  BY <1>1, BucketIs DEF Bucket
<1>3. PICK s : /\ IsChain(t.entries, t.buckets[Bucket(t, k)], s)
               /\ Members(s) = InBucket(t, Bucket(t, k))
  BY <1>2 DEF Tidy, Linkage, Chained
<1>4. Follow(t, t.buckets[Bucket(t, k)]) = s
  BY <1>1, <1>3, FollowIs
<1>5. QED
  BY <1>3, <1>4 DEF Chain

\* A key is found when it is the key of an entry in use.
LEMMA FoundIs ==
  ASSUME NEW t, Tidy(t), NEW k \in Key
  PROVE  /\ \A i \in Taken(t.entries) : t.entries[i].key = k => Has(t, k) /\ At(t, k) = i
         /\ Has(t, k) => /\ At(t, k) \in Taken(t.entries)
                         /\ t.entries[At(t, k)].key = k
                         /\ Min(Found(t, k)) \in 1 .. Len(Chain(t, k))
<1> DEFINE s == Chain(t, k)
<1>1. IsChain(t.entries, t.buckets[Bucket(t, k)], s) /\ Members(s) = InBucket(t, Bucket(t, k))
  BY ChainIs
<1>2. s \in Seq(Nat) /\ Len(s) \in Nat /\ DOMAIN s = 1 .. Len(s)
  BY <1>1 DEF IsChain
<1>3. Found(t, k) = {n \in 1 .. Len(s) : t.entries[s[n]].hash = Hash[k] /\ t.entries[s[n]].key = k}
  BY <1>2, Zenon DEF Found
<1>4. Has(t, k) <=> Found(t, k) # {}
  BY DEF Has
<1>5. At(t, k) = s[Min(Found(t, k))]
  BY DEF At
<1> HIDE DEF s
<1>6. ASSUME Has(t, k)
      PROVE  /\ At(t, k) \in Taken(t.entries)
             /\ t.entries[At(t, k)].key = k
             /\ Min(Found(t, k)) \in 1 .. Len(s)
  <2>1. Found(t, k) \subseteq Nat /\ Found(t, k) # {}
    BY <1>3, <1>4, <1>6
  <2>2. Min(Found(t, k)) \in Found(t, k)
    BY <2>1, HasMin
  <2>3. Min(Found(t, k)) \in 1 .. Len(s) /\ t.entries[At(t, k)].key = k
    BY <1>3, <1>5, <2>2
  <2>4. At(t, k) \in InBucket(t, Bucket(t, k))
    BY <1>1, <1>5, <2>3 DEF Members
  <2>5. QED
    BY <2>3, <2>4 DEF InBucket
<1>7. ASSUME NEW i \in Taken(t.entries), t.entries[i].key = k
      PROVE  Has(t, k) /\ At(t, k) = i
  <2>1. t.entries[i].hash = Hash[k]
    BY <1>7 DEF Tidy, Keys, IsPair
  <2>2. i \in Members(s)
    BY <1>1, <2>1 DEF InBucket, Bucket
  <2>3. PICK n \in 1 .. Len(s) : i = s[n]
    BY <2>2 DEF Members
  <2>4. Has(t, k)
    BY <1>3, <1>4, <1>7, <2>1, <2>3
  <2>5. QED
    BY <1>6, <1>7, <2>4 DEF Tidy, Keys
<1>8. QED
  BY <1>6, <1>7 DEF s

\* The values are those of the pairs.
LEMMA ValueIs ==
  ASSUME NEW t, Tidy(t), NEW k \in Key
  PROVE  /\ Has(t, k) => Value(t, k) \in Val /\ Value(t, k) # NoVal /\ <<k, Value(t, k)>> \in Pairs(t)
         /\ ~Has(t, k) => Value(t, k) = NoVal /\ \A v : <<k, v>> \notin Pairs(t)
         /\ \A v : <<k, v>> \in Pairs(t) => Value(t, k) = v
<1>1. ASSUME Has(t, k)
      PROVE  Value(t, k) \in Val /\ Value(t, k) # NoVal /\ <<k, Value(t, k)>> \in Pairs(t)
  <2>1. Value(t, k) = t.entries[At(t, k)].val
    BY <1>1 DEF Value
  <2>2. At(t, k) \in Taken(t.entries) /\ t.entries[At(t, k)].key = k
    BY <1>1, FoundIs
  <2>3. Value(t, k) \in Val
    BY <2>1, <2>2 DEF Tidy, Keys, IsPair
  <2>4. QED
    BY <2>1, <2>2, <2>3, DictAssumption DEF Pairs
<1>2. ASSUME NEW v, <<k, v>> \in Pairs(t)
      PROVE  Has(t, k) /\ Value(t, k) = v
  <2>1. PICK i \in Taken(t.entries) : t.entries[i].key = k /\ t.entries[i].val = v
    BY <1>2 DEF Pairs
  <2>2. Has(t, k) /\ At(t, k) = i
    BY <2>1, FoundIs
  <2>3. QED
    BY <2>1, <2>2 DEF Value
<1>3. ~Has(t, k) => Value(t, k) = NoVal
  BY DEF Value
<1>4. QED
  BY <1>1, <1>2, <1>3

(***************************************************************************)
(* The dictionary: what each operation does to a tidy table.               *)
(***************************************************************************)
\* An entry put into place j of a table, at the front of its chain.
LEMMA Grown ==
  ASSUME NEW t, Tidy(t), NEW u, IsTable(u), u.capacity = t.capacity,
         NEW x, IsPair(x), \A i \in Taken(t.entries) : t.entries[i].key # x.key,
         NEW j \in 1 .. Len(u.entries), j \notin Taken(t.entries),
         \A i \in Taken(t.entries) : i \in 1 .. Len(u.entries) /\ u.entries[i] = t.entries[i],
         Taken(u.entries) = Taken(t.entries) \cup {j},
         u.entries[j].hash = x.hash, u.entries[j].key = x.key, u.entries[j].val = x.val,
         u.entries[j].next = t.buckets[x.hash % t.capacity],
         \A c \in 0 .. t.capacity - 1 :
           u.buckets[c] = IF c = x.hash % t.capacity THEN j ELSE t.buckets[c],
         Chained(u.entries, u.freelist, Vacant(u.entries))
  PROVE  Tidy(u) /\ Pairs(u) = Pairs(t) \cup {<<x.key, x.val>>}
<1> DEFINE e == t.entries
           f == u.entries
           b == x.hash % t.capacity
<1>1. IsPair(f[j])
  BY DEF IsPair
<1>2. \A i \in Taken(e) : f[i] = e[i] /\ i # j
  OBVIOUS
<1>3. \A i \in Taken(f) : i = j \/ i \in Taken(e)
  OBVIOUS
<1>4. Keys(u)
  <2>1. \A i \in Taken(e) : IsPair(e[i])
    BY DEF Tidy, Keys
  <2>2. \A i, m \in Taken(e) : e[i].key = e[m].key => i = m
    BY DEF Tidy, Keys
  <2>3. \A i \in Taken(f) : IsPair(f[i])
    BY <1>1, <1>2, <1>3, <2>1
  <2>4. \A i, m \in Taken(f) : f[i].key = f[m].key => i = m
    BY <1>2, <1>3, <2>2
  <2>5. QED
    BY <2>3, <2>4 DEF Keys
<1>5. ASSUME NEW c \in 0 .. u.capacity - 1
      PROVE  Chained(f, u.buckets[c], InBucket(u, c))
  <2>1. Chained(e, t.buckets[c], InBucket(t, c))
    BY <1>5 DEF Tidy, Linkage
  <2>2. SameNext(e, f, InBucket(t, c))
    BY <1>2 DEF SameNext, InBucket
  <2>3. CASE c = b
    <3>1. InBucket(u, c) = InBucket(t, c) \cup {j}
      BY <1>2, <1>3, <2>3 DEF InBucket
    <3>2. u.buckets[c] = j /\ f[j].next = t.buckets[c] /\ j \notin InBucket(t, c)
      BY <1>5, <2>3 DEF InBucket
    <3>3. Chained(f, j, InBucket(t, c) \cup {j})
      <4>1. j \in 1 .. Len(f)
        OBVIOUS
      <4> HIDE DEF e, f
      <4>2. QED
        BY <2>1, <2>2, <3>2, <4>1, ChainLonger
    <3>4. QED
      BY <3>1, <3>2, <3>3
  <2>4. CASE c # b
    <3>1. InBucket(u, c) = InBucket(t, c)
      BY <1>2, <1>3, <2>4 DEF InBucket
    <3>2. u.buckets[c] = t.buckets[c]
      BY <1>5, <2>4
    <3>3. Chained(f, t.buckets[c], InBucket(t, c))
      <4> HIDE DEF e, f
      <4>1. QED
        BY <2>1, <2>2, ChainStays
    <3>4. QED
      BY <3>1, <3>2, <3>3
  <2>5. QED
    BY <2>3, <2>4
<1>6. Linkage(u)
  BY <1>5 DEF Linkage
<1>7. Pairs(u) = Pairs(t) \cup {<<x.key, x.val>>}
  <2>1. \A i \in Taken(f) : <<f[i].key, f[i].val>> \in Pairs(t) \cup {<<x.key, x.val>>}
    BY <1>2, <1>3 DEF Pairs
  <2>2. Pairs(u) \subseteq Pairs(t) \cup {<<x.key, x.val>>}
    BY <2>1 DEF Pairs
  <2>3. j \in Taken(f) /\ f[j].key = x.key /\ f[j].val = x.val
    OBVIOUS
  <2>4. <<x.key, x.val>> \in Pairs(u)
    BY <2>3 DEF Pairs
  <2>5. \A i \in Taken(e) : i \in Taken(f) /\ <<e[i].key, e[i].val>> = <<f[i].key, f[i].val>>
    BY <1>2
  <2>6. Pairs(t) \subseteq Pairs(u)
    BY <2>5 DEF Pairs
  <2>7. QED
    BY <2>2, <2>4, <2>6
<1>8. QED
  BY <1>4, <1>6, <1>7 DEF Tidy

IsEntry(x) == x \in Entry /\ IsPair(x)

\* What Appended makes, field by field.
LEMMA AppendedIs ==
  ASSUME NEW t, IsTable(t), NEW x, IsEntry(x), NEW u, u = Appended(t, x)
  PROVE  LET b == x.hash % t.capacity
             n == Len(t.entries) + 1
         IN  /\ IsTable(u) /\ n \in Nat
             /\ u.capacity = t.capacity /\ u.room = t.room /\ u.freelist = t.freelist
             /\ Len(u.entries) = n /\ \A i \in 1 .. Len(t.entries) : u.entries[i] = t.entries[i]
             /\ u.entries[n] = [x EXCEPT !.next = t.buckets[b]]
             /\ \A c \in 0 .. t.capacity - 1 : u.buckets[c] = IF c = b THEN n ELSE t.buckets[c]
<1> DEFINE b == x.hash % t.capacity
           n == Len(t.entries) + 1
           y == [x EXCEPT !.next = t.buckets[b]]
<1>1. /\ t \in Table /\ t.capacity \in Nat \ {0} /\ t.entries \in Seq(Entry)
      /\ t.buckets \in [0 .. t.capacity - 1 -> Nat]
  BY DEF IsTable, Table
<1>2. x \in Entry /\ x.hash \in Nat
  BY DictAssumption DEF IsEntry, IsPair
<1>3. b \in 0 .. t.capacity - 1
  BY <1>1, <1>2, BucketIs
<1>4. n \in Nat /\ t.buckets[b] \in Nat
  BY <1>1, <1>3
<1>5. u = [t EXCEPT !.entries = Append(@, y), !.buckets[b] = n]
  BY Zenon DEF Appended
<1> HIDE DEF b, n
<1>6. y \in Entry
  BY <1>2, <1>4 DEF Entry
<1> HIDE DEF y
<1>7. /\ u.capacity = t.capacity /\ u.room = t.room /\ u.freelist = t.freelist
      /\ u.entries = Append(t.entries, y)
      /\ u.buckets = [t.buckets EXCEPT ![b] = n]
      /\ u = [capacity |-> t.capacity, room |-> t.room, freelist |-> t.freelist,
              entries |-> Append(t.entries, y), buckets |-> [t.buckets EXCEPT ![b] = n]]
  BY <1>1, <1>5 DEF Table
<1>8. Append(t.entries, y) \in Seq(Entry)
  BY <1>1, <1>6
<1>9. [t.buckets EXCEPT ![b] = n] \in [0 .. t.capacity - 1 -> Nat]
  BY <1>1, <1>3, <1>4
<1>10. IsTable(u)
  <2>1. [t.buckets EXCEPT ![b] = n] \in UNION {[0 .. m - 1 -> Nat] : m \in Nat}
    BY <1>1, <1>9
  <2>2. u \in Table
    BY <1>1, <1>7, <1>8, <2>1 DEF Table
  <2>3. QED
    BY <1>7, <1>9, <2>2 DEF IsTable
<1>11. Len(u.entries) = n /\ \A i \in 1 .. Len(t.entries) : u.entries[i] = t.entries[i]
  BY <1>1, <1>6, <1>7 DEF n
<1>12. u.entries[n] = y
  BY <1>1, <1>6, <1>7 DEF n
<1>13. \A c \in 0 .. t.capacity - 1 : u.buckets[c] = IF c = b THEN n ELSE t.buckets[c]
  BY <1>1, <1>7
<1>14. QED
  BY <1>4, <1>7, <1>10, <1>11, <1>12, <1>13 DEF b, n, y

\* An entry appended keeps the table tidy.
LEMMA AppendKeeps ==
  ASSUME NEW t, Tidy(t), NEW x, IsEntry(x), \A i \in Taken(t.entries) : t.entries[i].key # x.key,
         NEW u, u = Appended(t, x)
  PROVE  /\ Tidy(u) /\ Pairs(u) = Pairs(t) \cup {<<x.key, x.val>>}
         /\ u.capacity = t.capacity /\ u.room = t.room /\ u.freelist = t.freelist
         /\ Len(u.entries) = Len(t.entries) + 1
         /\ Taken(u.entries) = Taken(t.entries) \cup {Len(t.entries) + 1}
<1> DEFINE b == x.hash % t.capacity
           n == Len(t.entries) + 1
<1>1. /\ IsTable(u) /\ n \in Nat
      /\ u.capacity = t.capacity /\ u.room = t.room /\ u.freelist = t.freelist
      /\ Len(u.entries) = n /\ \A i \in 1 .. Len(t.entries) : u.entries[i] = t.entries[i]
      /\ u.entries[n] = [x EXCEPT !.next = t.buckets[b]]
      /\ \A c \in 0 .. t.capacity - 1 : u.buckets[c] = IF c = b THEN n ELSE t.buckets[c]
  BY AppendedIs DEF Tidy
<1>2. Len(t.entries) \in Nat
  BY DEF Tidy, IsTable, Table
<1>3. x \in Entry /\ x.hash \in Nat
  BY DictAssumption DEF IsEntry, IsPair
<1>4. /\ u.entries[n].hash = x.hash /\ u.entries[n].key = x.key /\ u.entries[n].val = x.val
      /\ u.entries[n].next = t.buckets[b]
  BY <1>1, <1>3 DEF Entry
<1>5. \A i \in 1 .. n : i = n \/ i \in 1 .. Len(t.entries)
  BY <1>2
<1>6. n \in 1 .. n /\ n \notin 1 .. Len(t.entries) /\ 1 .. Len(t.entries) \subseteq 1 .. n
  BY <1>2
<1>7. \A i \in Taken(t.entries) : i \in 1 .. Len(u.entries) /\ u.entries[i] = t.entries[i] /\ i # n
  BY <1>1, <1>6 DEF Taken
<1>8. Taken(u.entries) = Taken(t.entries) \cup {n}
  <2>1. u.entries[n].hash # Free
    BY <1>3, <1>4 DEF Free
  <2>2. \A i \in Taken(u.entries) : i = n \/ i \in Taken(t.entries)
    BY <1>1, <1>5 DEF Taken
  <2>3. \A i \in Taken(t.entries) : i \in Taken(u.entries)
    BY <1>1, <1>6 DEF Taken
  <2>4. n \in Taken(u.entries)
    BY <1>1, <1>6, <2>1 DEF Taken
  <2>5. QED
    BY <2>2, <2>3, <2>4
<1>9. Chained(u.entries, u.freelist, Vacant(u.entries))
  <2>1. Vacant(u.entries) = Vacant(t.entries)
    BY <1>1, <1>5, <1>6, <1>8 DEF Vacant
  <2>2. Chained(t.entries, t.freelist, Vacant(t.entries))
    BY DEF Tidy, Linkage
  <2>3. SameNext(t.entries, u.entries, Vacant(t.entries))
    BY <1>1, <1>6 DEF SameNext, Vacant
  <2>4. Chained(u.entries, t.freelist, Vacant(t.entries))
    <3>1. PICK e, f : e = t.entries /\ f = u.entries
      OBVIOUS
    <3>2. Chained(e, t.freelist, Vacant(t.entries)) /\ SameNext(e, f, Vacant(t.entries))
      BY <2>2, <2>3, <3>1
    <3>3. Chained(f, t.freelist, Vacant(t.entries))
      BY ONLY <3>2, ChainStays
    <3>4. QED
      BY <3>1, <3>3
  <2>5. QED
    BY <1>1, <2>1, <2>4
<1>10. IsPair(x) /\ n \in 1 .. Len(u.entries) /\ n \notin Taken(t.entries)
  BY <1>1, <1>6, <1>7 DEF IsEntry
<1>11. Tidy(u) /\ Pairs(u) = Pairs(t) \cup {<<x.key, x.val>>}
  <2>1. PICK j : j = n
    OBVIOUS
  <2>2. /\ Tidy(t) /\ IsTable(u) /\ u.capacity = t.capacity
        /\ IsPair(x) /\ \A i \in Taken(t.entries) : t.entries[i].key # x.key
        /\ j \in 1 .. Len(u.entries) /\ j \notin Taken(t.entries)
        /\ \A i \in Taken(t.entries) : i \in 1 .. Len(u.entries) /\ u.entries[i] = t.entries[i]
        /\ Taken(u.entries) = Taken(t.entries) \cup {j}
        /\ u.entries[j].hash = x.hash /\ u.entries[j].key = x.key /\ u.entries[j].val = x.val
        /\ u.entries[j].next = t.buckets[x.hash % t.capacity]
        /\ \A c \in 0 .. t.capacity - 1 :
             u.buckets[c] = IF c = x.hash % t.capacity THEN j ELSE t.buckets[c]
        /\ Chained(u.entries, u.freelist, Vacant(u.entries))
    BY <1>1, <1>4, <1>7, <1>8, <1>9, <1>10, <2>1
  <2>3. QED
    BY ONLY <2>2, Grown
<1>12. QED
  BY <1>1, <1>8, <1>11

\* A key that is not found is the key of no entry in use.
LEMMA NotHas ==
  ASSUME NEW t, Tidy(t), NEW k \in Key, ~Has(t, k)
  PROVE  \A i \in Taken(t.entries) : t.entries[i].key # k
BY FoundIs

\* A table of its parts.
LEMMA TableOf ==
  ASSUME NEW c \in Nat \ {0}, NEW r \in Nat, NEW l \in Nat, NEW e \in Seq(Entry), NEW h \in [0 .. c - 1 -> Nat]
  PROVE  IsTable([capacity |-> c, room |-> r, freelist |-> l, entries |-> e, buckets |-> h])
<1>1. h \in UNION {[0 .. m - 1 -> Nat] : m \in Nat}
  OBVIOUS
<1>2. QED
  BY <1>1 DEF IsTable, Table

\* One place more is in use.
OneMore(e, f) == \E j \in 1 .. Len(f) : j \notin Taken(e) /\ Taken(f) = Taken(e) \cup {j}

\* A new entry, in a free place or behind the last one.
LEMMA LinkedKeeps ==
  ASSUME NEW t, Tidy(t), NEW k \in Key, ~Has(t, k), NEW v \in Val, NEW u, u = Linked(t, k, v)
  PROVE  /\ Tidy(u) /\ Pairs(u) = Pairs(t) \cup {<<k, v>>}
         /\ u.capacity = t.capacity /\ u.room = t.room
         /\ \/ Len(u.entries) = Len(t.entries) + 1
            \/ Len(u.entries) = Len(t.entries)
         /\ t.freelist = Nil => Len(u.entries) = Len(t.entries) + 1
         /\ t.freelist # Nil => Len(u.entries) = Len(t.entries)
         /\ OneMore(t.entries, u.entries)
<1> DEFINE b == Bucket(t, k)
           x == [hash |-> Hash[k], next |-> t.buckets[b], key |-> k, val |-> v]
<1>1. /\ t \in Table /\ t.capacity \in Nat \ {0} /\ t.entries \in Seq(Entry) /\ t.freelist \in Nat
      /\ Len(t.entries) \in Nat /\ t.buckets \in [0 .. t.capacity - 1 -> Nat]
  BY DEF Tidy, IsTable, Table
<1>2. Hash[k] \in Nat /\ b \in 0 .. t.capacity - 1
  BY <1>1, BucketIs, DictAssumption DEF Bucket
<1>3. IsEntry(x) /\ x.hash = Hash[k] /\ x.key = k /\ x.val = v /\ x.next = t.buckets[b]
  BY <1>1, <1>2 DEF IsEntry, Entry, IsPair
<1>4. b = x.hash % t.capacity
  BY DEF Bucket
<1>5. \A i \in Taken(t.entries) : t.entries[i].key # x.key
  BY <1>3, NotHas
<1>6. u = IF t.freelist # Nil
            THEN [t EXCEPT !.buckets[b] = t.freelist, !.entries[t.freelist] = x,
                           !.freelist = t.entries[t.freelist].next]
            ELSE Appended(t, x)
  BY Zenon DEF Linked
<1> HIDE DEF x
<1>7. CASE t.freelist = Nil
  <2>1. u = Appended(t, x)
    BY <1>6, <1>7
  <2>2. /\ Tidy(u) /\ Pairs(u) = Pairs(t) \cup {<<x.key, x.val>>}
        /\ u.capacity = t.capacity /\ u.room = t.room /\ u.freelist = t.freelist
        /\ Len(u.entries) = Len(t.entries) + 1
        /\ Taken(u.entries) = Taken(t.entries) \cup {Len(t.entries) + 1}
    <3>1. Tidy(t) /\ IsEntry(x) /\ \A i \in Taken(t.entries) : t.entries[i].key # x.key
      BY <1>3, <1>5
    <3>2. QED
      BY ONLY <2>1, <3>1, AppendKeeps
  <2>3. Len(t.entries) + 1 \in 1 .. Len(u.entries) /\ Len(t.entries) + 1 \notin Taken(t.entries)
    BY <1>1, <2>2 DEF Taken
  <2>4. QED
    BY <1>3, <1>7, <2>2, <2>3 DEF OneMore
<1>8. CASE t.freelist # Nil
  <2> DEFINE j == t.freelist
             e == t.entries
             f == u.entries
  <2>1. /\ j \in Vacant(e) /\ Chained(e, j, Vacant(e))
        /\ Chained(e, e[j].next, Vacant(e) \ {j})
    <3>1. Chained(e, j, Vacant(e))
      BY DEF Tidy, Linkage
    <3>2. QED
      BY <1>8, <3>1, ChainEnds, ChainShorter
  <2>2. j \in 1 .. Len(e) /\ j \notin Taken(e)
    BY <2>1 DEF Vacant
  <2>3. e[j].next \in Nat
    <3>1. e[j] \in Entry
      BY <1>1, <2>2
    <3>2. QED
      BY <3>1 DEF Entry
  <2>4. u = [capacity |-> t.capacity, room |-> t.room, freelist |-> e[j].next,
             entries |-> [e EXCEPT ![j] = x], buckets |-> [t.buckets EXCEPT ![b] = j]]
    BY <1>1, <1>6, <1>8 DEF Table
  <2>5. [e EXCEPT ![j] = x] \in Seq(Entry) /\ [t.buckets EXCEPT ![b] = j] \in [0 .. t.capacity - 1 -> Nat]
    BY <1>1, <1>2, <1>3, <2>2 DEF IsEntry
  <2>6. IsTable(u)
    <3>1. [t.buckets EXCEPT ![b] = j] \in UNION {[0 .. m - 1 -> Nat] : m \in Nat}
      BY <1>1, <2>5
    <3>2. t.room \in Nat
      BY <1>1 DEF Table
    <3>3. QED
      BY <1>1, <2>3, <2>4, <2>5, <3>1, <3>2 DEF IsTable, Table
  <2>7. Len(f) = Len(e) /\ f[j] = x /\ \A i \in 1 .. Len(e) : i # j => f[i] = e[i]
    BY <1>1, <2>2, <2>4
  <2>8. \A c \in 0 .. t.capacity - 1 : u.buckets[c] = IF c = b THEN j ELSE t.buckets[c]
    BY <1>1, <2>4
  <2>9. u.capacity = t.capacity /\ u.room = t.room /\ u.freelist = e[j].next
    BY <2>4
  <2> HIDE DEF j, e, f
  <2>10. x.hash # Free
    BY <1>2, <1>3 DEF Free
  <2>11. Taken(f) = Taken(e) \cup {j}
    BY <2>2, <2>7, <2>10 DEF Taken
  <2>12. Vacant(f) = Vacant(e) \ {j}
    BY <2>7, <2>11 DEF Vacant
  <2>13. SameNext(e, f, Vacant(e) \ {j})
    BY <2>7 DEF SameNext, Vacant
  <2>14. Chained(f, u.freelist, Vacant(f))
    BY <2>1, <2>9, <2>12, <2>13, ChainStays
  <2>15. \A i \in Taken(e) : i \in 1 .. Len(f) /\ f[i] = e[i]
    BY <2>2, <2>7 DEF Taken
  <2>16. PICK m : m = j
    OBVIOUS
  <2>17. /\ Tidy(t) /\ IsTable(u) /\ u.capacity = t.capacity
         /\ IsPair(x) /\ \A i \in Taken(t.entries) : t.entries[i].key # x.key
         /\ m \in 1 .. Len(u.entries) /\ m \notin Taken(t.entries)
         /\ \A i \in Taken(t.entries) : i \in 1 .. Len(u.entries) /\ u.entries[i] = t.entries[i]
         /\ Taken(u.entries) = Taken(t.entries) \cup {m}
         /\ u.entries[m].hash = x.hash /\ u.entries[m].key = x.key /\ u.entries[m].val = x.val
         /\ u.entries[m].next = t.buckets[x.hash % t.capacity]
         /\ \A c \in 0 .. t.capacity - 1 :
              u.buckets[c] = IF c = x.hash % t.capacity THEN m ELSE t.buckets[c]
         /\ Chained(u.entries, u.freelist, Vacant(u.entries))
    BY <1>3, <1>4, <1>5, <2>2, <2>6, <2>7, <2>8, <2>9, <2>11, <2>14, <2>15, <2>16 DEF e, f, IsEntry
  <2>18. Tidy(u) /\ Pairs(u) = Pairs(t) \cup {<<x.key, x.val>>}
    BY ONLY <2>17, Grown
  <2>19. QED
    BY <1>1, <1>3, <1>8, <2>2, <2>7, <2>9, <2>11, <2>17, <2>18 DEF e, f, OneMore
<1>9. QED
  BY <1>7, <1>8

Replaced(t, k, v) == [t EXCEPT !.entries[At(t, k)].val = v]

\* A value that is replaced leaves the chains alone.
LEMMA ReplacedKeeps ==
  ASSUME NEW t, Tidy(t), NEW k \in Key, Has(t, k), NEW v \in Val,
         NEW u, u = Replaced(t, k, v)
  PROVE  /\ Tidy(u) /\ Pairs(u) = (Pairs(t) \ {<<k, Value(t, k)>>}) \cup {<<k, v>>}
         /\ u.capacity = t.capacity /\ u.room = t.room
         /\ Len(u.entries) = Len(t.entries) /\ Taken(u.entries) = Taken(t.entries)
<1> DEFINE j == At(t, k)
           e == t.entries
           f == u.entries
           x == [e[j] EXCEPT !.val = v]
<1>1. /\ t \in Table /\ t.capacity \in Nat \ {0} /\ e \in Seq(Entry) /\ t.freelist \in Nat
      /\ Len(e) \in Nat /\ t.buckets \in [0 .. t.capacity - 1 -> Nat] /\ t.room \in Nat
  BY DEF Tidy, IsTable, Table
<1>2. j \in Taken(e) /\ e[j].key = k
  BY FoundIs
<1>3. j \in 1 .. Len(e) /\ e[j] \in Entry
  BY <1>1, <1>2 DEF Taken
<1>4. /\ x \in Entry /\ x.hash = e[j].hash /\ x.next = e[j].next /\ x.key = k /\ x.val = v
  BY <1>2, <1>3 DEF Entry
<1>5. e[j].val = Value(t, k)
  BY DEF Value
<1>6. u = [t EXCEPT !.entries = [e EXCEPT ![j] = x]]
  <2>0. u = [t EXCEPT !.entries[j].val = v]
    BY DEF Replaced
  <2>1. e[j] = [hash |-> e[j].hash, next |-> e[j].next, key |-> e[j].key, val |-> e[j].val]
    BY <1>3 DEF Entry
  <2>2. QED
    BY <1>1, <1>3, <2>0, <2>1
<1> HIDE DEF j, x
<1>7. u = [capacity |-> t.capacity, room |-> t.room, freelist |-> t.freelist,
           entries |-> [e EXCEPT ![j] = x], buckets |-> t.buckets]
  BY <1>1, <1>6 DEF Table
<1>8. [e EXCEPT ![j] = x] \in Seq(Entry)
  BY <1>1, <1>3, <1>4
<1>9. IsTable(u)
  <2>1. PICK g \in Seq(Entry) : g = [e EXCEPT ![j] = x]
    BY <1>8
  <2>2. IsTable([capacity |-> t.capacity, room |-> t.room, freelist |-> t.freelist,
                 entries |-> g, buckets |-> t.buckets])
    BY <1>1, TableOf
  <2>3. QED
    BY <1>7, <2>1, <2>2
<1>10. /\ Len(f) = Len(e) /\ f[j] = x /\ \A i \in 1 .. Len(e) : i # j => f[i] = e[i]
       /\ u.capacity = t.capacity /\ u.room = t.room /\ u.freelist = t.freelist /\ u.buckets = t.buckets
  BY <1>1, <1>3, <1>7
<1>11. \A i \in 1 .. Len(e) : f[i].hash = e[i].hash /\ f[i].next = e[i].next /\ f[i].key = e[i].key
  BY <1>2, <1>4, <1>10
<1>12. Keys(t) /\ Linkage(t)
  BY DEF Tidy
<1> HIDE DEF f
<1>13. Taken(f) = Taken(e) /\ Vacant(f) = Vacant(e)
  BY <1>10, <1>11 DEF Taken, Vacant
<1>14. Keys(u)
  <2>1. \A i \in Taken(e) : IsPair(e[i])
    BY <1>12 DEF Keys
  <2>2. \A i \in Taken(e) : IsPair(f[i])
    <3> SUFFICES ASSUME NEW i \in Taken(e) PROVE IsPair(f[i])
      OBVIOUS
    <3>1. CASE i = j
      BY <1>4, <1>10, <2>1, <3>1, <1>2 DEF IsPair
    <3>2. CASE i # j
      BY <1>10, <2>1, <3>2 DEF Taken
    <3>3. QED
      BY <3>1, <3>2
  <2>3. \A i \in Taken(e) : f[i].key = e[i].key
    BY <1>11 DEF Taken
  <2>4. \A i, m \in Taken(e) : e[i].key = e[m].key => i = m
    BY <1>12 DEF Keys
  <2>5. QED
    BY <1>13, <2>2, <2>3, <2>4 DEF Keys, f
<1>15. ASSUME NEW i, NEW T, Chained(e, i, T)
       PROVE  Chained(f, i, T)
  <2>1. T \subseteq 1 .. Len(e)
    <3> HIDE DEF e
    <3>1. QED
      BY <1>15, ChainEnds
  <2>2. SameNext(e, f, T)
    BY <1>10, <1>11, <2>1 DEF SameNext
  <2> HIDE DEF e
  <2>3. QED
    BY <1>15, <2>2, ChainStays
<1>16. Linkage(u)
  <2>1. \A c : InBucket(u, c) = InBucket(t, c)
    BY <1>10, <1>11, <1>13 DEF InBucket, Taken, f
  <2>2. \A b \in 0 .. t.capacity - 1 : Chained(f, t.buckets[b], InBucket(t, b))
    BY <1>12, <1>15 DEF Linkage
  <2>3. Chained(f, t.freelist, Vacant(e))
    BY <1>12, <1>15 DEF Linkage
  <2>4. QED
    BY <1>10, <1>13, <2>1, <2>2, <2>3 DEF Linkage, f
<1>17. Pairs(u) = (Pairs(t) \ {<<k, Value(t, k)>>}) \cup {<<k, v>>}
  <2>1. \A i \in Taken(e) : i # j => e[i].key # k /\ <<f[i].key, f[i].val>> = <<e[i].key, e[i].val>>
    BY <1>2, <1>10, <1>12 DEF Keys, Taken
  <2>2. <<f[j].key, f[j].val>> = <<k, v>> /\ <<e[j].key, e[j].val>> = <<k, Value(t, k)>>
    BY <1>2, <1>4, <1>5, <1>10
  <2>3. Pairs(u) = {<<f[i].key, f[i].val>> : i \in Taken(e)}
    BY <1>13 DEF Pairs, f
  <2>4. Pairs(t) = {<<e[i].key, e[i].val>> : i \in Taken(e)}
    BY DEF Pairs
  <2>5. \A i \in Taken(e) : <<f[i].key, f[i].val>> \in (Pairs(t) \ {<<k, Value(t, k)>>}) \cup {<<k, v>>}
    BY <2>1, <2>2, <2>4
  <2>6. <<k, v>> \in Pairs(u)
    BY <1>2, <2>2, <2>3
  <2>7. \A i \in Taken(e) : i # j => <<e[i].key, e[i].val>> \in Pairs(u)
    BY <2>1, <2>3
  <2>8. QED
    BY <2>2, <2>3, <2>4, <2>5, <2>6, <2>7
<1>18. QED
  BY <1>9, <1>10, <1>13, <1>14, <1>16, <1>17 DEF Tidy, f

\* The first entry of its chain goes to the list of free entries.
LEMMA UnlinkedKeeps ==
  ASSUME Tidy(table), NEW k \in Key, Has(table, k), First(k), NEW u, u = Unlinked(k)
  PROVE  /\ Tidy(u) /\ Pairs(u) = Pairs(table) \ {<<k, Value(table, k)>>}
         /\ u.capacity = table.capacity /\ u.room = table.room
         /\ Len(u.entries) = Len(table.entries)
         /\ \E j \in Taken(table.entries) : Taken(u.entries) = Taken(table.entries) \ {j}
<1>1. PICK t : t = table
  OBVIOUS
<1> DEFINE e == t.entries
           f == u.entries
           j == At(t, k)
           b == Bucket(t, k)
           y == [hash |-> Free, next |-> t.freelist, key |-> NoVal, val |-> NoVal]
<1>2. /\ t \in Table /\ t.capacity \in Nat \ {0} /\ e \in Seq(Entry) /\ t.freelist \in Nat
      /\ Len(e) \in Nat /\ t.buckets \in [0 .. t.capacity - 1 -> Nat] /\ t.room \in Nat
  BY <1>1 DEF Tidy, IsTable, Table
<1>3. Tidy(t) /\ Has(t, k) /\ j = t.buckets[b]
  BY <1>1 DEF First
<1>4. u = [[t EXCEPT !.buckets[b] = e[j].next] EXCEPT !.entries[j] = y, !.freelist = j]
  BY <1>1, <1>3 DEF Unlinked, First, FreedIndex
<1>5. j \in Taken(e) /\ e[j].key = k
  BY <1>3, FoundIs
<1>6. j \in 1 .. Len(e) /\ j \in Nat /\ j # Nil /\ e[j] \in Entry
  BY <1>2, <1>5 DEF Taken, Nil
<1>7. y \in Entry /\ y.hash = Free /\ y.next = t.freelist
  BY <1>2 DEF Entry
<1>8. e[j].val = Value(t, k)
  BY <1>3 DEF Value
<1>9. Hash[k] \in Nat /\ b \in 0 .. t.capacity - 1
  BY <1>2, BucketIs, DictAssumption DEF Bucket
<1>10. e[j].next \in Nat
  BY <1>6 DEF Entry
<1>11. Keys(t) /\ Linkage(t)
  BY <1>3 DEF Tidy
<1>12. e[j].hash % t.capacity = b
  BY <1>5, <1>11 DEF Keys, IsPair, Bucket
<1> HIDE DEF j, y, b
<1>13. u = [capacity |-> t.capacity, room |-> t.room, freelist |-> j,
            entries |-> [e EXCEPT ![j] = y], buckets |-> [t.buckets EXCEPT ![b] = e[j].next]]
  BY <1>2, <1>4 DEF Table
<1>14. IsTable(u)
  <2>1. PICK g \in Seq(Entry) : g = [e EXCEPT ![j] = y]
    <3>1. PICK d \in Seq(Entry) : d = e
      BY <1>2
    <3>2. j \in 1 .. Len(d) /\ y \in Entry
      BY <1>6, <1>7, <3>1
    <3>3. [d EXCEPT ![j] = y] \in Seq(Entry)
      BY ONLY d \in Seq(Entry), <3>2
    <3>4. QED
      BY <3>1, <3>3
  <2>2. PICK h \in [0 .. t.capacity - 1 -> Nat] : h = [t.buckets EXCEPT ![b] = e[j].next]
    BY <1>2, <1>9, <1>10
  <2>3. IsTable([capacity |-> t.capacity, room |-> t.room, freelist |-> j, entries |-> g, buckets |-> h])
    BY <1>2, <1>6, TableOf
  <2>4. QED
    BY <1>13, <2>1, <2>2, <2>3
<1>15. /\ Len(f) = Len(e) /\ f[j] = y /\ \A i \in 1 .. Len(e) : i # j => f[i] = e[i]
       /\ u.capacity = t.capacity /\ u.room = t.room /\ u.freelist = j
       /\ \A c \in 0 .. t.capacity - 1 : u.buckets[c] = IF c = b THEN e[j].next ELSE t.buckets[c]
  BY <1>2, <1>6, <1>13
<1> HIDE DEF e, f
<1>16. Taken(f) = Taken(e) \ {j} /\ Vacant(f) = Vacant(e) \cup {j}
  <2>1. \A i \in 1 .. Len(e) : i \in Taken(f) <=> (i # j /\ i \in Taken(e))
    BY <1>7, <1>15 DEF Taken
  <2>2. Taken(f) \subseteq 1 .. Len(e) /\ Taken(e) \subseteq 1 .. Len(e)
    BY <1>15 DEF Taken
  <2>3. QED
    BY <1>6, <1>15, <2>1, <2>2 DEF Vacant
<1>17. Keys(u)
  <2>1. \A i \in Taken(f) : i \in Taken(e) /\ f[i] = e[i]
    BY <1>15, <1>16 DEF Taken
  <2>2. \A i \in Taken(e) : IsPair(e[i])
    BY <1>11 DEF Keys, e
  <2>3. \A i, m \in Taken(e) : e[i].key = e[m].key => i = m
    BY <1>11 DEF Keys, e
  <2>4. \A i \in Taken(f) : IsPair(f[i])
    BY <2>1, <2>2
  <2>5. \A i, m \in Taken(f) : f[i].key = f[m].key => i = m
    BY <2>1, <2>3
  <2>6. QED
    BY <2>4, <2>5 DEF Keys, f
<1>18. ASSUME NEW c \in 0 .. t.capacity - 1
       PROVE  Chained(f, u.buckets[c], InBucket(u, c))
  <2>1. Chained(e, t.buckets[c], InBucket(t, c))
    BY <1>11 DEF Linkage, e
  <2>2. \A i \in Taken(f) : i \in Taken(e) /\ i # j /\ f[i] = e[i]
    BY <1>15, <1>16 DEF Taken
  <2>3. \A i \in Taken(e) : i # j => i \in Taken(f) /\ f[i] = e[i]
    BY <1>15, <1>16 DEF Taken
  <2>4. InBucket(u, c) = InBucket(t, c) \ {j}
    BY <1>15, <2>2, <2>3 DEF InBucket, e, f
  <2>5. SameNext(e, f, InBucket(t, c) \ {j})
    <3>1. \A i \in InBucket(t, c) : i \in Taken(e) /\ i \in 1 .. Len(e)
      BY DEF InBucket, Taken, e
    <3>2. QED
      BY <1>15, <2>3, <3>1 DEF SameNext
  <2>6. CASE c = b
    <3>1. Chained(e, e[j].next, InBucket(t, c) \ {j})
      BY <1>3, <1>6, <2>1, <2>6, ChainShorter
    <3>2. Chained(f, e[j].next, InBucket(t, c) \ {j})
      BY <2>5, <3>1, ChainStays
    <3>3. QED
      BY <1>15, <2>4, <2>6, <3>2
  <2>7. CASE c # b
    <3>1. j \notin InBucket(t, c)
      BY <1>12, <2>7 DEF InBucket, e
    <3>2. InBucket(t, c) \ {j} = InBucket(t, c)
      BY <3>1
    <3>3. Chained(f, t.buckets[c], InBucket(t, c))
      BY <2>1, <2>5, <3>2, ChainStays
    <3>4. QED
      BY <1>15, <2>4, <2>7, <3>2, <3>3
  <2>8. QED
    BY <2>6, <2>7
<1>19. Chained(f, u.freelist, Vacant(f))
  <2>1. Chained(e, t.freelist, Vacant(e))
    BY <1>11 DEF Linkage, e
  <2>2. j \notin Vacant(e) /\ j \in 1 .. Len(f) /\ f[j].next = t.freelist
    BY <1>5, <1>6, <1>7, <1>15 DEF Vacant, e
  <2>3. SameNext(e, f, Vacant(e))
    BY <1>15, <2>2 DEF SameNext, Vacant
  <2>4. Chained(f, j, Vacant(e) \cup {j})
    BY <2>1, <2>2, <2>3, ChainLonger
  <2>5. QED
    BY <1>15, <1>16, <2>4
<1>20. Linkage(u)
  BY <1>15, <1>18, <1>19 DEF Linkage, f
<1>21. Pairs(u) = Pairs(t) \ {<<k, Value(t, k)>>}
  <2>1. \A i \in Taken(e) : i # j => e[i].key # k
    BY <1>5, <1>11 DEF Keys, e
  <2>2. e[j].key = k /\ e[j].val = Value(t, k) /\ j \in Taken(e)
    BY <1>5, <1>8 DEF e
  <2>3. \A i \in Taken(f) : i \in Taken(e) /\ i # j /\ f[i] = e[i]
    BY <1>15, <1>16 DEF Taken
  <2>4. \A i \in Taken(e) : i # j => i \in Taken(f) /\ f[i] = e[i]
    BY <1>15, <1>16 DEF Taken
  <2>5. Pairs(u) = {<<f[i].key, f[i].val>> : i \in Taken(f)} /\ Pairs(t) = {<<e[i].key, e[i].val>> : i \in Taken(e)}
    BY DEF Pairs, e, f
  <2>6. \A i \in Taken(f) : <<f[i].key, f[i].val>> \in Pairs(t) \ {<<k, Value(t, k)>>}
    BY <2>1, <2>3, <2>5
  <2>7. \A i \in Taken(e) : <<e[i].key, e[i].val>> \in Pairs(u) \/ <<e[i].key, e[i].val>> = <<k, Value(t, k)>>
    BY <2>2, <2>4, <2>5
  <2>8. QED
    BY <2>5, <2>6, <2>7
<1>22. Tidy(u)
  BY <1>14, <1>17, <1>20 DEF Tidy
<1>23. QED
  <2>1. Len(u.entries) = Len(t.entries) /\ j \in Taken(t.entries) /\ Taken(u.entries) = Taken(t.entries) \ {j}
    BY <1>5, <1>15, <1>16 DEF e, f
  <2>2. QED
    BY <1>1, <1>15, <1>21, <1>22, <2>1

\* A table without entries.
LEMMA NoneIsTidy ==
  ASSUME NEW t, IsTable(t), t.entries = << >>, t.freelist = Nil,
         \A b \in 0 .. t.capacity - 1 : t.buckets[b] = Nil
  PROVE  Tidy(t) /\ Pairs(t) = {} /\ Taken(t.entries) = {} /\ Len(t.entries) = 0
<1>1. Len(t.entries) = 0 /\ 1 .. 0 = {}
  OBVIOUS
<1>2. Taken(t.entries) = {}
  BY <1>1 DEF Taken
<1>3. Vacant(t.entries) = {}
  BY <1>1 DEF Vacant
<1>4. \A b : InBucket(t, b) = {}
  BY <1>2 DEF InBucket
<1>5. \A b \in 0 .. t.capacity - 1 : Chained(t.entries, t.buckets[b], InBucket(t, b))
  BY <1>4, ChainOfNone
<1>6. Chained(t.entries, t.freelist, Vacant(t.entries))
  BY <1>3, ChainOfNone
<1>7. Linkage(t)
  BY <1>5, <1>6 DEF Linkage
<1>8. Keys(t)
  BY <1>2 DEF Keys
<1>9. Pairs(t) = {}
  BY <1>2 DEF Pairs
<1>10. QED
  BY <1>1, <1>2, <1>7, <1>8, <1>9 DEF Tidy

\* What Empty makes.
LEMMA EmptyIsTidy ==
  ASSUME NEW c \in Nat \ {0}, NEW r \in Nat, NEW t, t = Empty(c, r)
  PROVE  /\ Tidy(t) /\ Pairs(t) = {} /\ Taken(t.entries) = {} /\ Len(t.entries) = 0
         /\ t.capacity = c /\ t.room = r /\ t.freelist = Nil
<1>1. PICK h : h = [b \in 0 .. c - 1 |-> Nil]
  OBVIOUS
<1>2. h \in [0 .. c - 1 -> Nat] /\ \A b \in 0 .. c - 1 : h[b] = Nil
  BY <1>1 DEF Nil
<1>3. t = [capacity |-> c, room |-> r, freelist |-> Nil, entries |-> << >>, buckets |-> h]
  BY <1>1 DEF Empty
<1>4. << >> \in Seq(Entry) /\ Nil \in Nat
  BY DEF Nil
<1>5. IsTable(t)
  BY <1>2, <1>3, <1>4, TableOf
<1>6. /\ t.capacity = c /\ t.room = r /\ t.freelist = Nil /\ t.entries = << >>
      /\ \A b \in 0 .. t.capacity - 1 : t.buckets[b] = Nil
  BY <1>2, <1>3
<1>7. QED
  BY <1>5, <1>6, NoneIsTidy

(***************************************************************************)
(* The dictionary: all entries in use appended to an empty table.          *)
(***************************************************************************)
\* What the recursive function of Rehashed is.
Moves(f, e, n, c, r) ==
  f = [i \in 0 .. n |-> IF i = 0 THEN Empty(c, r)
                        ELSE IF e[i].hash = Free THEN f[i - 1]
                        ELSE Appended(f[i - 1], e[i])]

\* Its value at one place.
LEMMA MovesAt ==
  ASSUME NEW f, NEW e, NEW n, NEW c, NEW r, Moves(f, e, n, c, r), NEW i \in 0 .. n
  PROVE  f[i] = IF i = 0 THEN Empty(c, r)
                ELSE IF e[i].hash = Free THEN f[i - 1]
                ELSE Appended(f[i - 1], e[i])
BY Zenon DEF Moves

\* There is one.
LEMMA MovesExist ==
  ASSUME NEW e, NEW c, NEW r
  PROVE  \A n \in Nat : \E f : Moves(f, e, n, c, r)
<1> DEFINE T == {n \in Nat : \E f : Moves(f, e, n, c, r)}
<1>1. 0 \in T
  <2> DEFINE f == [i \in 0 .. 0 |-> Empty(c, r)]
  <2>1. \A i \in 0 .. 0 : i = 0
    OBVIOUS
  <2>2. Moves(f, e, 0, c, r)
    BY <2>1, Zenon DEF Moves
  <2>3. QED
    BY <2>2
<1>2. ASSUME NEW n \in Nat, n \in T
      PROVE  n + 1 \in T
  <2>1. PICK f : Moves(f, e, n, c, r)
    BY <1>2
  <2> DEFINE m == n + 1
             g == [i \in 0 .. m |-> IF i \in 0 .. n THEN f[i]
                                    ELSE IF e[i].hash = Free THEN f[n] ELSE Appended(f[n], e[i])]
  <2>2. \A i \in 0 .. m : i \in 0 .. n \/ (i = m /\ i # 0 /\ i - 1 = n /\ i \notin 0 .. n)
    OBVIOUS
  <2>3. \A i \in 0 .. n : i \in 0 .. m /\ (i # 0 => i - 1 \in 0 .. n /\ i - 1 \in 0 .. m)
    OBVIOUS
  <2>4. n \in 0 .. n /\ n \in 0 .. m /\ m \in Nat
    OBVIOUS
  <2> HIDE DEF m
  <2>5. \A i \in 0 .. n : g[i] = f[i]
    BY <2>3, Zenon
  <2>6. ASSUME NEW i \in 0 .. m
        PROVE  g[i] = IF i = 0 THEN Empty(c, r)
                      ELSE IF e[i].hash = Free THEN g[i - 1]
                      ELSE Appended(g[i - 1], e[i])
    <3>1. CASE i \in 0 .. n
      <4>1. f[i] = IF i = 0 THEN Empty(c, r)
                   ELSE IF e[i].hash = Free THEN f[i - 1]
                   ELSE Appended(f[i - 1], e[i])
        BY <2>1, <3>1, MovesAt
      <4>2. g[i] = f[i] /\ (i # 0 => g[i - 1] = f[i - 1])
        BY <2>3, <2>5, <3>1
      <4> HIDE DEF g
      <4>3. QED
        BY <4>1, <4>2, Zenon
    <3>2. CASE i \notin 0 .. n
      <4>1. i # 0 /\ i - 1 = n
        BY <2>2, <3>2
      <4>2. g[i] = IF e[i].hash = Free THEN f[n] ELSE Appended(f[n], e[i])
        BY <3>2, Zenon
      <4>3. g[n] = f[n]
        BY <2>4, <2>5
      <4> HIDE DEF g
      <4>4. QED
        BY <4>1, <4>2, <4>3, Zenon
    <3>3. QED
      BY <3>1, <3>2
  <2>7. g = [i \in 0 .. m |-> g[i]]
    OBVIOUS
  <2>8. Moves(g, e, m, c, r)
    <3> HIDE DEF g
    <3>1. QED
      BY <2>6, <2>7, Zenon DEF Moves
  <2>9. QED
    BY <2>4, <2>8 DEF m
<1> HIDE DEF T
<1>3. \A n \in Nat : n \in T
  BY <1>1, <1>2, SetInduction
<1>4. QED
  BY <1>3 DEF T

\* The entries in use among the first n.
TakenTo(e, n) == {i \in Taken(e) : i <= n}

PairsTo(e, n) == {<<e[i].key, e[i].val>> : i \in TakenTo(e, n)}

\* u holds the first n entries of e, as far as they are in use.
MovedTo(u, e, n, c, r) ==
  /\ Tidy(u) /\ u.capacity = c /\ u.room = r /\ u.freelist = Nil
  /\ Pairs(u) = PairsTo(e, n)
  /\ Taken(u.entries) = 1 .. Len(u.entries)
  /\ Len(u.entries) = Cardinality(TakenTo(e, n))

\* One entry more.
LEMMA MovedOneMore ==
  ASSUME NEW t, Tidy(t), NEW n \in Nat, n + 1 \in 1 .. Len(t.entries),
         NEW c, NEW r, NEW u, MovedTo(u, t.entries, n, c, r),
         NEW w, w = IF t.entries[n + 1].hash = Free THEN u ELSE Appended(u, t.entries[n + 1])
  PROVE  MovedTo(w, t.entries, n + 1, c, r)
<1> DEFINE e == t.entries
           m == n + 1
<1>1. /\ e \in Seq(Entry) /\ Len(e) \in Nat /\ m \in Nat /\ m \in 1 .. Len(e) /\ m # n /\ ~(m <= n)
      /\ \A i \in Nat : i <= m <=> i <= n \/ i = m
  BY DEF Tidy, IsTable, Table
<1>2. w = IF e[m].hash = Free THEN u ELSE Appended(u, e[m])
  OBVIOUS
<1>3. Keys(t)
  BY DEF Tidy
<1>4. MovedTo(u, e, n, c, r)
  OBVIOUS
<1> HIDE DEF m
<1>5. Taken(e) \subseteq Nat /\ Taken(e) \subseteq 1 .. Len(e)
  BY <1>1 DEF Taken
<1>6. CASE e[m].hash = Free
  <2>1. m \notin Taken(e)
    BY <1>6 DEF Taken
  <2>2. TakenTo(e, m) = TakenTo(e, n)
    BY <1>1, <1>5, <2>1 DEF TakenTo
  <2>3. MovedTo(u, e, m, c, r)
    BY <1>4, <2>2 DEF MovedTo, PairsTo
  <2>4. QED
    BY <1>2, <1>6, <2>3 DEF m
<1>7. CASE e[m].hash # Free
  <2>1. m \in Taken(e)
    BY <1>1, <1>7 DEF Taken
  <2>2. TakenTo(e, m) = TakenTo(e, n) \cup {m} /\ m \notin TakenTo(e, n)
    BY <1>1, <1>5, <2>1 DEF TakenTo
  <2>3. IsFiniteSet(TakenTo(e, n))
    <3>1. PICK l \in Nat : l = Len(e)
      BY <1>1
    <3>2. IsFiniteSet(1 .. l)
      BY ONLY l \in Nat, FS_Interval
    <3>3. TakenTo(e, n) \in SUBSET (1 .. l)
      BY <1>5, <3>1 DEF TakenTo
    <3>4. QED
      BY ONLY <3>2, <3>3, FS_Subset
  <2>4. Cardinality(TakenTo(e, m)) = Cardinality(TakenTo(e, n)) + 1
    BY <2>2, <2>3, FS_AddElement
  <2>5. PairsTo(e, m) = PairsTo(e, n) \cup {<<e[m].key, e[m].val>>}
    BY <2>2 DEF PairsTo
  <2>6. IsEntry(e[m])
    BY <1>1, <1>3, <2>1 DEF IsEntry, Keys
  <2>7. \A i \in TakenTo(e, n) : e[i].key # e[m].key
    BY <1>3, <2>1, <2>2 DEF Keys, TakenTo
  <2>8. \A i \in Taken(u.entries) : u.entries[i].key # e[m].key
    <3> SUFFICES ASSUME NEW i \in Taken(u.entries) PROVE u.entries[i].key # e[m].key
      OBVIOUS
    <3>1. <<u.entries[i].key, u.entries[i].val>> \in Pairs(u)
      BY DEF Pairs
    <3>2. <<u.entries[i].key, u.entries[i].val>> \in PairsTo(e, n)
      BY <1>4, <3>1 DEF MovedTo
    <3>3. PICK a \in TakenTo(e, n) : <<u.entries[i].key, u.entries[i].val>> = <<e[a].key, e[a].val>>
      BY <3>2 DEF PairsTo
    <3>4. QED
      BY <2>7, <3>3
  <2>9. PICK x : x = e[m]
    OBVIOUS
  <2>10. Tidy(u) /\ IsEntry(x) /\ (\A i \in Taken(u.entries) : u.entries[i].key # x.key) /\ w = Appended(u, x)
    BY <1>2, <1>4, <1>7, <2>6, <2>8, <2>9 DEF MovedTo
  <2>11. /\ Tidy(w) /\ Pairs(w) = Pairs(u) \cup {<<x.key, x.val>>}
         /\ w.capacity = u.capacity /\ w.room = u.room /\ w.freelist = u.freelist
         /\ Len(w.entries) = Len(u.entries) + 1
         /\ Taken(w.entries) = Taken(u.entries) \cup {Len(u.entries) + 1}
    BY ONLY <2>10, AppendKeeps
  <2>12. Len(u.entries) \in Nat
    BY <2>10 DEF Tidy, IsTable, Table
  <2>13. Taken(w.entries) = 1 .. Len(w.entries)
    <3>1. Taken(u.entries) = 1 .. Len(u.entries)
      BY <1>4 DEF MovedTo
    <3>2. PICK l \in Nat : l = Len(u.entries)
      BY <2>12
    <3>3. (1 .. l) \cup {l + 1} = 1 .. l + 1
      OBVIOUS
    <3>4. QED
      BY <2>11, <3>1, <3>2, <3>3
  <2>14. MovedTo(w, e, m, c, r)
    BY <1>4, <2>4, <2>5, <2>9, <2>11, <2>13 DEF MovedTo
  <2>15. QED
    BY <2>14 DEF m
<1>8. QED
  BY <1>6, <1>7

\* All of them, one after the other.
LEMMA MovesMove ==
  ASSUME NEW t, Tidy(t), NEW c \in Nat \ {0}, NEW r \in Nat,
         NEW f, Moves(f, t.entries, Len(t.entries), c, r)
  PROVE  MovedTo(f[Len(t.entries)], t.entries, Len(t.entries), c, r)
<1> DEFINE e == t.entries
           T == {n \in Nat : n <= Len(e) => MovedTo(f[n], e, n, c, r)}
<1>1. Len(e) \in Nat
  BY DEF Tidy, IsTable, Table
<1>2. 0 \in T
  <2>1. f[0] = Empty(c, r)
    <3>1. 0 \in 0 .. Len(e)
      BY <1>1
    <3>2. QED
      BY <3>1, MovesAt
  <2>2. /\ Tidy(f[0]) /\ Pairs(f[0]) = {} /\ Taken(f[0].entries) = {} /\ Len(f[0].entries) = 0
        /\ f[0].capacity = c /\ f[0].room = r /\ f[0].freelist = Nil
    BY <2>1, EmptyIsTidy
  <2>3. TakenTo(e, 0) = {}
    BY <1>1 DEF TakenTo, Taken
  <2>4. PairsTo(e, 0) = {} /\ Cardinality({}) = 0 /\ 1 .. 0 = {}
    BY <2>3, FS_EmptySet DEF PairsTo
  <2>5. MovedTo(f[0], e, 0, c, r)
    BY <2>2, <2>3, <2>4 DEF MovedTo
  <2>6. QED
    BY <2>5
<1>3. ASSUME NEW n \in Nat, n \in T
      PROVE  n + 1 \in T
  <2> SUFFICES ASSUME n + 1 <= Len(e)
               PROVE  MovedTo(f[n + 1], e, n + 1, c, r)
    OBVIOUS
  <2>1. MovedTo(f[n], e, n, c, r)
    BY <1>1, <1>3
  <2>2. n + 1 \in 0 .. Len(e) /\ n + 1 # 0 /\ (n + 1) - 1 = n /\ n + 1 \in 1 .. Len(e)
    BY <1>1
  <2>3. PICK m : m = n + 1
    OBVIOUS
  <2>4. f[m] = IF m = 0 THEN Empty(c, r) ELSE IF e[m].hash = Free THEN f[m - 1] ELSE Appended(f[m - 1], e[m])
    BY <2>2, <2>3, MovesAt
  <2>5. f[n + 1] = IF e[n + 1].hash = Free THEN f[n] ELSE Appended(f[n], e[n + 1])
    BY <2>2, <2>3, <2>4
  <2>6. QED
    BY <2>1, <2>2, <2>5, MovedOneMore
<1> HIDE DEF T
<1>4. \A n \in Nat : n \in T
  BY <1>2, <1>3, SetInduction
<1>5. QED
  BY <1>1, <1>4 DEF T

\* The capacity and the room that Rehashed asks for.
NewCapacity(n) == NextPrime(IF n < count THEN count ELSE n)
NewRoom(n)     == IF n < count THEN NewCapacity(n) ELSE Usable(NewCapacity(n))

\* What a rehash leaves.
LEMMA RehashedIs ==
  ASSUME Tidy(table), NEW n, NewCapacity(n) \in Nat \ {0}, NewRoom(n) \in Nat, NEW u, u = Rehashed(n)
  PROVE  /\ Tidy(u) /\ Pairs(u) = Pairs(table)
         /\ u.capacity = NewCapacity(n) /\ u.room = NewRoom(n) /\ u.freelist = Nil
         /\ Taken(u.entries) = 1 .. Len(u.entries)
         /\ Len(u.entries) = Cardinality(Taken(table.entries))
<1> DEFINE fewer == n < count
           capacity == NextPrime(IF fewer THEN count ELSE n)
           moved[i \in 0 .. Len(table.entries)] ==
             IF i = 0 THEN Empty(capacity, IF fewer THEN capacity ELSE Usable(capacity))
             ELSE IF table.entries[i].hash = Free THEN moved[i - 1]
             ELSE Appended(moved[i - 1], table.entries[i])
<1>1. PICK t : t = table
  OBVIOUS
<1>2. PICK c, r : c = NewCapacity(n) /\ r = NewRoom(n)
  OBVIOUS
<1>3. c = capacity /\ r = IF fewer THEN capacity ELSE Usable(capacity)
  BY <1>2, Zenon DEF NewCapacity, NewRoom
<1>4. u = moved[Len(t.entries)]
  BY <1>1, Zenon DEF Rehashed
<1>5. moved = CHOOSE f : Moves(f, t.entries, Len(t.entries), c, r)
  BY <1>1, <1>3, Zenon DEF Moves
<1> HIDE DEF moved
<1>6. Len(t.entries) \in Nat
  BY <1>1 DEF Tidy, IsTable, Table
<1>7. Moves(moved, t.entries, Len(t.entries), c, r)
  <2>1. \E f : Moves(f, t.entries, Len(t.entries), c, r)
    BY <1>6, MovesExist
  <2>2. QED
    BY <1>5, <2>1, Zenon
<1>8. PICK f : f = moved
  OBVIOUS
<1>9. Tidy(t) /\ c \in Nat \ {0} /\ r \in Nat /\ Moves(f, t.entries, Len(t.entries), c, r)
  BY <1>1, <1>2, <1>7, <1>8
<1>10. MovedTo(f[Len(t.entries)], t.entries, Len(t.entries), c, r)
  BY ONLY <1>9, MovesMove
<1>11. MovedTo(u, t.entries, Len(t.entries), c, r)
  BY <1>4, <1>8, <1>10
<1>12. TakenTo(t.entries, Len(t.entries)) = Taken(t.entries)
  BY <1>6 DEF TakenTo, Taken
<1>13. PairsTo(t.entries, Len(t.entries)) = Pairs(t)
  BY <1>12 DEF PairsTo, Pairs
<1>14. QED
  BY <1>1, <1>2, <1>11, <1>12, <1>13 DEF MovedTo

(***************************************************************************)
(* The dictionary: the inductive invariant, and who keeps it.              *)
(***************************************************************************)
\* The inductive invariant: the table is tidy, the entries are counted and fit the
\* memory they are in, and that is as large as the capacity asks for.
DictInv ==
  /\ Tidy(table)
  /\ table.capacity \in Primes
  /\ count = Cardinality(Taken(table.entries))
  /\ Len(table.entries) <= table.room
  /\ Usable(table.capacity) <= table.room /\ table.room <= table.capacity

\* There are no more places than buckets.
LEMMA UsableIs ==
  ASSUME NEW n \in Nat
  PROVE  Usable(n) \in Nat /\ Usable(n) <= n
BY DEF Usable

\* What the invariant says about numbers.
LEMMA Numbers ==
  ASSUME DictInv
  PROVE  /\ Len(table.entries) \in Nat /\ table.capacity \in Nat \ {0} /\ table.room \in Nat
         /\ count \in Nat /\ count <= Len(table.entries) /\ count <= table.capacity
         /\ IsFiniteSet(Taken(table.entries))
<1>1. Len(table.entries) \in Nat /\ table.capacity \in Nat \ {0} /\ table.room \in Nat
  BY DEF DictInv, Tidy, IsTable, Table
<1>2. PICK l \in Nat : l = Len(table.entries)
  BY <1>1
<1>3. IsFiniteSet(1 .. l) /\ Cardinality(1 .. l) = l
  <2>1. IsFiniteSet(1 .. l) /\ Cardinality(1 .. l) = IF 1 > l THEN 0 ELSE l - 1 + 1
    BY ONLY l \in Nat, FS_Interval
  <2>2. QED
    BY <2>1
<1>4. Taken(table.entries) \in SUBSET (1 .. l)
  BY <1>2 DEF Taken
<1>5. IsFiniteSet(Taken(table.entries)) /\ Cardinality(Taken(table.entries)) <= Cardinality(1 .. l)
  BY ONLY <1>3, <1>4, FS_Subset
<1>6. Cardinality(Taken(table.entries)) \in Nat
  BY <1>5, FS_CardinalityType
<1>7. QED
  BY <1>1, <1>2, <1>3, <1>5, <1>6 DEF DictInv

\* The values of a key with the same pairs.
LEMMA SameValue ==
  ASSUME NEW t, Tidy(t), NEW u, Tidy(u), NEW k \in Key,
         \A v : <<k, v>> \in Pairs(u) <=> <<k, v>> \in Pairs(t)
  PROVE  Value(u, k) = Value(t, k)
<1>1. CASE Has(t, k)
  <2>1. <<k, Value(t, k)>> \in Pairs(t)
    BY <1>1, ValueIs
  <2>2. <<k, Value(t, k)>> \in Pairs(u)
    BY <2>1
  <2>3. QED
    BY <2>2, ValueIs
<1>2. CASE ~Has(t, k)
  <2>1. Value(t, k) = NoVal /\ \A v : <<k, v>> \notin Pairs(t)
    BY <1>2, ValueIs
  <2>2. \A v : <<k, v>> \notin Pairs(u)
    BY <2>1
  <2>3. ~Has(u, k)
    BY <2>2, ValueIs
  <2>4. QED
    BY <2>1, <2>3, ValueIs
<1>3. QED
  BY <1>1, <1>2

\* The values after a key was given a value.
LEMMA ValueSet ==
  ASSUME NEW t, Tidy(t), NEW u, Tidy(u), NEW k \in Key, NEW v \in Val,
         Pairs(u) = (Pairs(t) \ {<<k, Value(t, k)>>}) \cup {<<k, v>>}
  PROVE  \A l \in Key : Value(u, l) = IF l = k THEN v ELSE Value(t, l)
<1> SUFFICES ASSUME NEW l \in Key PROVE Value(u, l) = IF l = k THEN v ELSE Value(t, l)
  OBVIOUS
<1>1. CASE l = k
  <2>1. <<k, v>> \in Pairs(u)
    OBVIOUS
  <2>2. QED
    BY <1>1, <2>1, ValueIs
<1>2. CASE l # k
  <2>1. \A w : <<l, w>> \in Pairs(u) <=> <<l, w>> \in Pairs(t)
    BY <1>2
  <2>2. QED
    BY <1>2, <2>1, SameValue
<1>3. QED
  BY <1>1, <1>2

\* The values after a key was removed.
LEMMA ValueGone ==
  ASSUME NEW t, Tidy(t), NEW u, Tidy(u), NEW k \in Key,
         Pairs(u) = Pairs(t) \ {<<k, Value(t, k)>>}
  PROVE  \A l \in Key : Value(u, l) = IF l = k THEN NoVal ELSE Value(t, l)
<1> SUFFICES ASSUME NEW l \in Key PROVE Value(u, l) = IF l = k THEN NoVal ELSE Value(t, l)
  OBVIOUS
<1>1. CASE l = k
  <2>1. \A w : <<k, w>> \notin Pairs(u)
    BY ValueIs
  <2>2. ~Has(u, k)
    BY <2>1, ValueIs
  <2>3. QED
    BY <1>1, <2>2, ValueIs
<1>2. CASE l # k
  <2>1. \A w : <<l, w>> \in Pairs(u) <=> <<l, w>> \in Pairs(t)
    BY <1>2
  <2>2. QED
    BY <1>2, <2>1, SameValue
<1>3. QED
  BY <1>1, <1>2

\* The table that a reserve leaves.
LEMMA RehashFits ==
  ASSUME DictInv, NEW n \in Nat, InTable(n), ~(n < count) => count <= Usable(NextPrime(n)),
         NEW u, u = Rehashed(n)
  PROVE  /\ Tidy(u) /\ Pairs(u) = Pairs(table) /\ u.capacity \in Primes /\ u.freelist = Nil
         /\ Len(u.entries) = count /\ Cardinality(Taken(u.entries)) = count
         /\ count <= u.room /\ Usable(u.capacity) <= u.room /\ u.room <= u.capacity
         /\ ~(n < count) => u.capacity = NextPrime(n) /\ u.room = Usable(NextPrime(n))
<1> DEFINE m == IF n < count THEN count ELSE n
<1>1. /\ table.capacity \in Nat \ {0} /\ count \in Nat /\ count <= table.capacity
      /\ IsFiniteSet(Taken(table.entries))
  BY Numbers
<1>2. m \in Nat /\ InTable(m)
  BY <1>1 DEF InTable, DictInv
<1>3. NextPrime(m) \in Primes /\ NextPrime(m) \in Nat \ {0} /\ NextPrime(m) >= m
  BY <1>2, NextPrimeIs
<1>4. NewCapacity(n) = NextPrime(m) /\ NewRoom(n) = IF n < count THEN NextPrime(m) ELSE Usable(NextPrime(m))
  BY Zenon DEF NewCapacity, NewRoom
<1>5. Usable(NextPrime(m)) \in Nat /\ Usable(NextPrime(m)) <= NextPrime(m)
  BY <1>3, UsableIs
<1>6. /\ Tidy(u) /\ Pairs(u) = Pairs(table)
      /\ u.capacity = NewCapacity(n) /\ u.room = NewRoom(n) /\ u.freelist = Nil
      /\ Taken(u.entries) = 1 .. Len(u.entries)
      /\ Len(u.entries) = Cardinality(Taken(table.entries))
  <2>1. NewCapacity(n) \in Nat \ {0} /\ NewRoom(n) \in Nat
    BY <1>3, <1>4, <1>5
  <2>2. QED
    BY <2>1, RehashedIs DEF DictInv
<1>7. Len(u.entries) = count
  BY <1>6 DEF DictInv
<1>8. Cardinality(Taken(u.entries)) = count
  <2>1. PICK l \in Nat : l = count
    BY <1>1
  <2>2. Cardinality(1 .. l) = IF 1 > l THEN 0 ELSE l - 1 + 1
    BY ONLY l \in Nat, FS_Interval
  <2>3. Cardinality(1 .. l) = l
    BY ONLY l \in Nat, <2>2
  <2>4. QED
    BY <1>6, <1>7, <2>1, <2>3
<1>9. CASE n < count
  <2>1. m = count
    BY <1>9
  <2>2. QED
    BY <1>1, <1>3, <1>4, <1>5, <1>6, <1>7, <1>8, <1>9, <2>1
<1>10. CASE ~(n < count)
  <2>1. m = n
    BY <1>10
  <2>2. QED
    BY <1>1, <1>3, <1>4, <1>5, <1>6, <1>7, <1>8, <1>10, <2>1
<1>11. QED
  BY <1>9, <1>10

\* The entries in use are finitely many.
LEMMA TakenFinite ==
  ASSUME NEW t, Tidy(t)
  PROVE  IsFiniteSet(Taken(t.entries))
<1>1. PICK l \in Nat : l = Len(t.entries)
  BY DEF Tidy, IsTable, Table
<1>2. IsFiniteSet(1 .. l)
  BY ONLY l \in Nat, FS_Interval
<1>3. Taken(t.entries) \in SUBSET (1 .. l)
  BY <1>1 DEF Taken
<1>4. QED
  BY ONLY <1>2, <1>3, FS_Subset

\* Tables with the same pairs have the same keys.
LEMMA SameKeys ==
  ASSUME NEW t, Tidy(t), NEW u, Tidy(u), Pairs(u) = Pairs(t), NEW k \in Key, ~Has(t, k)
  PROVE  ~Has(u, k)
<1>1. \A v : <<k, v>> \notin Pairs(u)
  BY ValueIs
<1>2. QED
  BY <1>1, ValueIs

\* A new entry linked into a table with room for it.
LEMMA LinkedFits ==
  ASSUME NEW t, Tidy(t), t.capacity \in Primes, NEW n, n = Cardinality(Taken(t.entries)),
         Len(t.entries) <= t.room, Usable(t.capacity) <= t.room, t.room <= t.capacity,
         Len(t.entries) < t.room,
         NEW k \in Key, ~Has(t, k), NEW v \in Val, table' = Linked(t, k, v), count' = n + 1
  PROVE  DictInv' /\ Pairs(table') = Pairs(t) \cup {<<k, v>>}
<1>1. PICK u : u = table'
  OBVIOUS
<1>2. u = Linked(t, k, v)
  BY <1>1
<1>3. /\ Tidy(u) /\ Pairs(u) = Pairs(t) \cup {<<k, v>>}
      /\ u.capacity = t.capacity /\ u.room = t.room
      /\ \/ Len(u.entries) = Len(t.entries) + 1
         \/ Len(u.entries) = Len(t.entries)
      /\ OneMore(t.entries, u.entries)
  <2>1. Tidy(t) /\ k \in Key /\ ~Has(t, k) /\ v \in Val /\ u = Linked(t, k, v)
    BY <1>2
  <2>2. QED
    BY ONLY <2>1, LinkedKeeps
<1>4. Len(t.entries) \in Nat /\ t.room \in Nat
  BY DEF Tidy, IsTable, Table
<1>5. Cardinality(Taken(u.entries)) = n + 1
  <2>1. PICK j : j \notin Taken(t.entries) /\ Taken(u.entries) = Taken(t.entries) \cup {j}
    BY <1>3 DEF OneMore
  <2>2. IsFiniteSet(Taken(t.entries))
    BY TakenFinite
  <2>3. QED
    BY <2>1, <2>2, FS_AddElement
<1>6. Len(u.entries) <= u.room
  BY <1>3, <1>4
<1>7. DictInv'
  BY <1>1, <1>3, <1>5, <1>6 DEF DictInv
<1>8. QED
  BY <1>1, <1>3, <1>7

\* A call that leaves table and count alone.
LEMMA StaysSound ==
  ASSUME DictInv, UNCHANGED <<table, count>>
  PROVE  DictInv'
<1>1. PICK t, n : t = table /\ n = count
  OBVIOUS
<1>2. QED
  BY DEF DictInv

PutsNew(k, v) == \/ Pairs(table') = Pairs(table) \cup {<<k, v>>} /\ Returns(TRUE, NoVal)
                 \/ table' = table /\ Returns(FALSE, NoVal)

\* A key that is put where there was none, and the reserve before it.
LEMMA PutNewStep ==
  ASSUME DictInv, GrowsEnough, NEW k \in Key, NEW v \in Val, PutNew(k, v)
  PROVE  DictInv' /\ PutsNew(k, v)
<1>1. /\ Len(table.entries) \in Nat /\ table.capacity \in Nat \ {0} /\ table.room \in Nat
      /\ count \in Nat /\ count <= Len(table.entries) /\ count <= table.capacity
  BY Numbers
<1>2. ~Has(table, k)
  BY DEF PutNew
<1>3. CASE /\ Crowded(k) => InTable(table.capacity + 1)
           /\ table' = Linked(IF Crowded(k) THEN Rehashed(table.capacity + 1) ELSE table, k, v)
           /\ count' = count + 1
           /\ Returns(TRUE, NoVal)
  <2>1. CASE Crowded(k)
    <3>1. PICK n \in Nat : n = table.capacity + 1
      BY <1>1
    <3>2. InTable(n) /\ ~(n < count)
      BY <1>1, <1>3, <2>1, <3>1
    <3>3. NextPrime(n) \in Primes /\ NextPrime(n) \in Nat \ {0} /\ NextPrime(n) >= n
      BY <3>2, NextPrimeIs
    <3>4. table.capacity < Usable(NextPrime(n))
      BY <1>1, <3>1, <3>3 DEF GrowsEnough, DictInv
    <3>5. Usable(NextPrime(n)) \in Nat
      BY <3>3, UsableIs
    <3>6. count < Usable(NextPrime(n))
      BY <1>1, <3>4, <3>5
    <3>7. PICK t : t = Rehashed(n)
      OBVIOUS
    <3>8. /\ Tidy(t) /\ Pairs(t) = Pairs(table) /\ t.capacity \in Primes
          /\ Len(t.entries) = count /\ Cardinality(Taken(t.entries)) = count
          /\ count <= t.room /\ Usable(t.capacity) <= t.room /\ t.room <= t.capacity
          /\ t.room = Usable(NextPrime(n))
      BY <1>1, <3>2, <3>5, <3>6, <3>7, RehashFits
    <3>9. ~Has(t, k)
      BY <1>2, <3>8, SameKeys DEF DictInv
    <3>10. table' = Linked(t, k, v)
      BY <1>3, <2>1, <3>1, <3>7
    <3>11. DictInv' /\ Pairs(table') = Pairs(t) \cup {<<k, v>>}
      BY <1>3, <3>6, <3>8, <3>9, <3>10, LinkedFits
    <3>12. QED
      BY <1>3, <3>8, <3>11 DEF PutsNew
  <2>2. CASE ~Crowded(k)
    <3>0. Usable(table.capacity) \in Nat
      BY <1>1, UsableIs
    <3>1. Len(table.entries) < Usable(table.capacity)
      BY <1>1, <2>2, <3>0 DEF Crowded
    <3>2. Len(table.entries) < table.room
      BY <1>1, <3>0, <3>1 DEF DictInv
    <3>3. PICK t : t = table
      OBVIOUS
    <3>4. /\ Tidy(t) /\ t.capacity \in Primes /\ count = Cardinality(Taken(t.entries))
          /\ Len(t.entries) <= t.room /\ Usable(t.capacity) <= t.room /\ t.room <= t.capacity
          /\ Len(t.entries) < t.room /\ ~Has(t, k) /\ table' = Linked(t, k, v) /\ count' = count + 1
      BY <1>2, <1>3, <2>2, <3>2, <3>3 DEF DictInv
    <3>5. DictInv' /\ Pairs(table') = Pairs(t) \cup {<<k, v>>}
      BY <3>4, LinkedFits
    <3>6. QED
      BY <1>3, <3>3, <3>5 DEF PutsNew
  <2>3. QED
    BY <2>1, <2>2
<1>4. CASE Returns(FALSE, NoVal) /\ UNCHANGED <<table, count>>
  BY <1>4, StaysSound DEF PutsNew
<1>5. QED
  BY <1>3, <1>4 DEF PutNew

\* What the abstract map is.
LEMMA MapIs ==
  /\ M!vars = <<[k \in Key |-> Value(table, k)], ret>>
  /\ M!vars' = <<[k \in Key |-> Value(table', k)], ret'>>
BY DEF M!vars

\* A value set, seen from the map.
LEMMA SetsIs ==
  ASSUME NEW k \in Key, NEW v, \A l \in Key : Value(table', l) = IF l = k THEN v ELSE Value(table, l)
  PROVE  M!Sets(k, v)
<1>1. [l \in Key |-> Value(table', l)] = [[l \in Key |-> Value(table, l)] EXCEPT ![k] = v]
  OBVIOUS
<1>2. QED
  BY <1>1 DEF M!Sets

\* A key that is found is present.
LEMMA PresentIs ==
  ASSUME Tidy(table), NEW k \in Key
  PROVE  M!Present(k) <=> Has(table, k)
BY ValueIs DEF M!Present

MapNow == [l \in Key |-> Value(table, l)]

\* A key put where there was none, seen from the map.
LEMMA PutsNewMaps ==
  ASSUME DictInv, DictInv', NEW k \in Key, NEW v \in Val, ~Has(table, k), PutsNew(k, v)
  PROVE  /\ ~M!Present(k) /\ MapNow[k] = NoVal
         /\ \/ M!Returns(TRUE, NoVal) /\ M!Sets(k, v)
            \/ M!Fails
<1>1. Tidy(table) /\ Tidy(table')
  BY DEF DictInv
<1>2. Value(table, k) = NoVal /\ \A w : <<k, w>> \notin Pairs(table)
  BY <1>1, ValueIs
<1>3. ~M!Present(k) /\ MapNow[k] = NoVal
  BY <1>1, <1>2, PresentIs DEF MapNow
<1>4. CASE Pairs(table') = Pairs(table) \cup {<<k, v>>} /\ Returns(TRUE, NoVal)
  <2>1. PICK t, u : t = table /\ u = table'
    OBVIOUS
  <2>2. Pairs(u) = (Pairs(t) \ {<<k, Value(t, k)>>}) \cup {<<k, v>>}
    BY <1>2, <1>4, <2>1
  <2>3. Tidy(t) /\ Tidy(u)
    BY <1>1, <2>1
  <2>4. \A l \in Key : Value(u, l) = IF l = k THEN v ELSE Value(t, l)
    BY ONLY k \in Key, v \in Val, <2>2, <2>3, ValueSet
  <2>5. M!Sets(k, v)
    BY <2>1, <2>4, SetsIs
  <2>6. M!Returns(TRUE, NoVal)
    BY <1>4 DEF M!Returns, Returns
  <2>7. QED
    BY <1>3, <2>5, <2>6
<1>5. CASE table' = table /\ Returns(FALSE, NoVal)
  <2>1. M!Fails
    BY <1>5 DEF M!Fails, M!Returns, Returns
  <2>2. QED
    BY <1>3, <2>1
<1>6. QED
  BY <1>4, <1>5 DEF PutsNew

\* cra_dict_put keeps the invariant and is a Put of the map.
LEMMA PutStep ==
  ASSUME DictInv, GrowsEnough, NEW k \in Key, NEW v \in Val, Put(k, v)
  PROVE  DictInv' /\ M!Put(k, v)
<1>1. CASE PutNew(k, v)
  <2>1. DictInv' /\ PutsNew(k, v) /\ ~Has(table, k)
    BY <1>1, PutNewStep DEF PutNew
  <2>2. /\ ~M!Present(k) /\ MapNow[k] = NoVal
        /\ \/ M!Returns(TRUE, NoVal) /\ M!Sets(k, v)
           \/ M!Fails
    BY <2>1, PutsNewMaps
  <2>3. M!Put(k, v)
    BY <2>2 DEF M!Put, MapNow
  <2>4. QED
    BY <2>1, <2>3
<1>2. CASE /\ Has(table, k)
           /\ table' = [table EXCEPT !.entries[At(table, k)].val = v]
           /\ Returns(TRUE, table.entries[At(table, k)].val)
           /\ UNCHANGED count
  <2>1. PICK t, u : t = table /\ u = table'
    OBVIOUS
  <2>2. Tidy(t) /\ Has(t, k) /\ u = Replaced(t, k, v)
    BY <1>2, <2>1 DEF DictInv, Replaced
  <2>3. /\ Tidy(u) /\ Pairs(u) = (Pairs(t) \ {<<k, Value(t, k)>>}) \cup {<<k, v>>}
        /\ u.capacity = t.capacity /\ u.room = t.room
        /\ Len(u.entries) = Len(t.entries) /\ Taken(u.entries) = Taken(t.entries)
    BY ONLY k \in Key, v \in Val, <2>2, ReplacedKeeps
  <2>4. DictInv'
    BY <1>2, <2>1, <2>3 DEF DictInv
  <2>5. \A l \in Key : Value(u, l) = IF l = k THEN v ELSE Value(t, l)
    BY ONLY k \in Key, v \in Val, <2>2, <2>3, ValueSet
  <2>6. M!Sets(k, v)
    BY <2>1, <2>5, SetsIs
  <2>7. table.entries[At(table, k)].val = MapNow[k]
    BY <1>2 DEF Value, MapNow
  <2>8. M!Returns(TRUE, MapNow[k])
    BY <1>2, <2>7 DEF M!Returns, Returns
  <2>9. M!Put(k, v)
    BY <2>6, <2>8 DEF M!Put, MapNow
  <2>10. QED
    BY <2>4, <2>9
<1>3. QED
  BY <1>1, <1>2 DEF Put

\* cra_dict_add keeps the invariant and is an Add of the map.
LEMMA AddStep ==
  ASSUME DictInv, GrowsEnough, NEW k \in Key, NEW v \in Val, Add(k, v)
  PROVE  DictInv' /\ M!Add(k, v)
<1>1. CASE PutNew(k, v)
  <2>1. DictInv' /\ PutsNew(k, v) /\ ~Has(table, k)
    BY <1>1, PutNewStep DEF PutNew
  <2>2. /\ ~M!Present(k) /\ MapNow[k] = NoVal
        /\ \/ M!Returns(TRUE, NoVal) /\ M!Sets(k, v)
           \/ M!Fails
    BY <2>1, PutsNewMaps
  <2>3. M!Add(k, v)
    BY <2>2 DEF M!Add
  <2>4. QED
    BY <2>1, <2>3
<1>2. CASE Returns(FALSE, NoVal) /\ UNCHANGED <<table, count>>
  <2>1. M!Fails
    BY <1>2 DEF M!Fails, M!Returns, Returns
  <2>2. QED
    BY <1>2, <2>1, StaysSound DEF M!Add
<1>3. QED
  BY <1>1, <1>2 DEF Add

\* When no entry is in use, no bucket has a chain.
LEMMA NoneNoChain ==
  ASSUME NEW t, Tidy(t), Taken(t.entries) = {}
  PROVE  \A b \in 0 .. t.capacity - 1 : t.buckets[b] = Nil
<1> SUFFICES ASSUME NEW b \in 0 .. t.capacity - 1 PROVE t.buckets[b] = Nil
  OBVIOUS
<1>1. InBucket(t, b) = {}
  BY DEF InBucket
<1>2. Chained(t.entries, t.buckets[b], {})
  BY <1>1 DEF Tidy, Linkage
<1>3. QED
  BY <1>2, ChainEnds

\* The entries and the list of free ones forgotten, when no chain is left.
LEMMA Forgotten ==
  ASSUME NEW t, IsTable(t), NEW h \in [0 .. t.capacity - 1 -> Nat],
         \A b \in 0 .. t.capacity - 1 : h[b] = Nil,
         NEW u, u = [t EXCEPT !.buckets = h, !.freelist = Nil, !.entries = << >>]
  PROVE  /\ Tidy(u) /\ Pairs(u) = {} /\ Taken(u.entries) = {} /\ Len(u.entries) = 0
         /\ u.capacity = t.capacity /\ u.room = t.room
<1>1. t \in Table /\ t.capacity \in Nat \ {0} /\ t.room \in Nat
  BY DEF IsTable, Table
<1>2. u = [capacity |-> t.capacity, room |-> t.room, freelist |-> Nil, entries |-> << >>, buckets |-> h]
  BY <1>1 DEF Table
<1>3. << >> \in Seq(Entry) /\ Nil \in Nat
  BY DEF Nil
<1>4. IsTable(u)
  <2>1. h \in [0 .. t.capacity - 1 -> Nat]
    OBVIOUS
  <2>2. QED
    BY ONLY <1>1, <1>2, <1>3, <2>1, TableOf
<1>5. /\ u.capacity = t.capacity /\ u.room = t.room /\ u.freelist = Nil /\ u.entries = << >>
      /\ \A b \in 0 .. u.capacity - 1 : u.buckets[b] = Nil
  BY <1>2
<1>6. QED
  BY <1>4, <1>5, NoneIsTidy

\* cra_dict_pop keeps the invariant and is a Pop of the map, when the key is
\* the first of its chain.
LEMMA PopStep ==
  ASSUME DictInv, ~PopsAnywhere, NEW k \in Key, Pop(k)
  PROVE  DictInv' /\ M!Pop(k)
<1>1. /\ Len(table.entries) \in Nat /\ table.capacity \in Nat \ {0} /\ table.room \in Nat
      /\ count \in Nat /\ IsFiniteSet(Taken(table.entries)) /\ Tidy(table)
  BY Numbers DEF DictInv
<1>2. CASE /\ Has(table, k)
           /\ PopsAnywhere \/ First(k)
           /\ table' = IF count = 1 THEN [Unlinked(k) EXCEPT !.freelist = Nil, !.entries = << >>]
                                    ELSE Unlinked(k)
           /\ count' = count - 1
           /\ Returns(TRUE, table.entries[At(table, k)].val)
  <2>1. PICK t, w, n : t = table /\ w = Unlinked(k) /\ n = count
    OBVIOUS
  <2>2. /\ Tidy(w) /\ Pairs(w) = Pairs(table) \ {<<k, Value(table, k)>>}
        /\ w.capacity = table.capacity /\ w.room = table.room
        /\ Len(w.entries) = Len(table.entries)
        /\ \E j \in Taken(table.entries) : Taken(w.entries) = Taken(table.entries) \ {j}
    BY <1>1, <1>2, <2>1, UnlinkedKeeps
  <2>3. Cardinality(Taken(w.entries)) = count - 1 /\ IsFiniteSet(Taken(w.entries))
    <3>1. PICK j \in Taken(table.entries) : Taken(w.entries) = Taken(table.entries) \ {j}
      BY <2>2
    <3>2. QED
      BY <1>1, <3>1, FS_RemoveElement DEF DictInv
  <2>4. PICK u : u = table'
    OBVIOUS
  <2>5. /\ Tidy(u) /\ Pairs(u) = Pairs(w) /\ u.capacity = w.capacity /\ u.room = w.room
        /\ Len(u.entries) <= Len(w.entries) /\ Cardinality(Taken(u.entries)) = count - 1
    <3>1. CASE count = 1
      <4>1. Taken(w.entries) = {}
        BY <2>3, <3>1, FS_EmptySet
      <4>2. \A b \in 0 .. w.capacity - 1 : w.buckets[b] = Nil
        BY <2>2, <4>1, NoneNoChain
      <4>3. IsTable(w) /\ w \in Table /\ w.buckets \in [0 .. w.capacity - 1 -> Nat]
        BY <2>2 DEF Tidy, IsTable
      <4>4. u = [w EXCEPT !.freelist = Nil, !.entries = << >>]
        BY <1>2, <2>1, <2>4, <3>1
      <4>5. PICK h : h = w.buckets
        OBVIOUS
      <4>6. u = [w EXCEPT !.buckets = h, !.freelist = Nil, !.entries = << >>]
        BY <4>3, <4>4, <4>5 DEF Table
      <4>7. /\ Tidy(u) /\ Pairs(u) = {} /\ Taken(u.entries) = {} /\ Len(u.entries) = 0
            /\ u.capacity = w.capacity /\ u.room = w.room
        <5>1. h \in [0 .. w.capacity - 1 -> Nat] /\ \A b \in 0 .. w.capacity - 1 : h[b] = Nil
          BY <4>2, <4>3, <4>5
        <5>2. QED
          BY ONLY <4>3, <4>6, <5>1, Forgotten
      <4>8. Pairs(w) = {}
        BY <4>1 DEF Pairs
      <4>9. Len(u.entries) <= Len(w.entries)
        BY <1>1, <2>2, <4>7
      <4>10. Cardinality(Taken(u.entries)) = count - 1
        BY <2>3, <4>1, <4>7
      <4>11. QED
        BY <4>7, <4>8, <4>9, <4>10
    <3>2. CASE count # 1
      <4>1. u = w
        BY <1>2, <2>1, <2>4, <3>2
      <4>2. Len(u.entries) <= Len(w.entries)
        BY <1>1, <2>2, <4>1
      <4>3. QED
        BY <2>2, <2>3, <4>1, <4>2
    <3>3. QED
      BY <3>1, <3>2
  <2>6. DictInv'
    <3>1. Len(u.entries) \in Nat
      BY <2>5 DEF Tidy, IsTable, Table
    <3>2. Len(u.entries) <= u.room
      BY <1>1, <2>2, <2>5, <3>1 DEF DictInv
    <3>3. u.capacity = table.capacity /\ u.room = table.room
      BY <2>2, <2>5
    <3>4. Tidy(u) /\ count' = Cardinality(Taken(u.entries))
      BY <1>2, <2>5
    <3>5. QED
      BY <2>4, <3>2, <3>3, <3>4 DEF DictInv
  <2>7. \A l \in Key : Value(u, l) = IF l = k THEN NoVal ELSE Value(t, l)
    <3>1. Tidy(t) /\ Tidy(u) /\ Pairs(u) = Pairs(t) \ {<<k, Value(t, k)>>}
      BY <1>1, <2>1, <2>2, <2>5
    <3>2. QED
      BY ONLY k \in Key, <3>1, ValueGone
  <2>8. M!Sets(k, NoVal)
    BY <2>1, <2>4, <2>7, SetsIs
  <2>9. table.entries[At(table, k)].val = MapNow[k] /\ M!Present(k)
    BY <1>1, <1>2, PresentIs DEF Value, MapNow
  <2>10. M!Returns(TRUE, MapNow[k])
    BY <1>2, <2>9 DEF M!Returns, Returns
  <2>11. M!Pop(k)
    BY <2>8, <2>9, <2>10 DEF M!Pop, MapNow
  <2>12. QED
    BY <2>6, <2>11
<1>3. CASE ~Has(table, k) /\ Returns(FALSE, NoVal) /\ UNCHANGED <<table, count>>
  <2>1. M!Fails
    BY <1>3 DEF M!Fails, M!Returns, Returns
  <2>2. ~M!Present(k)
    BY <1>1, <1>3, PresentIs
  <2>3. QED
    BY <1>3, <2>1, <2>2, StaysSound DEF M!Pop
<1>4. QED
  BY <1>2, <1>3 DEF Pop

\* cra_dict_get is a Get of the map.
LEMMA GetStep ==
  ASSUME DictInv, NEW k \in Key, Get(k)
  PROVE  DictInv' /\ M!Get(k)
<1>1. Returns(Has(table, k), Value(table, k)) /\ UNCHANGED <<table, count>>
  BY DEF Get
<1>2. M!Present(k) <=> Has(table, k)
  BY PresentIs DEF DictInv
<1>3. M!Present(k) = Has(table, k)
  BY <1>2, Zenon DEF M!Present, Has
<1>4. MapNow[k] = Value(table, k) /\ MapNow' = MapNow
  BY <1>1 DEF MapNow
<1>5. M!Returns(M!Present(k), MapNow[k])
  BY <1>1, <1>3, <1>4 DEF M!Returns, Returns
<1>6. QED
  BY <1>1, <1>4, <1>5, StaysSound DEF M!Get, MapNow

\* No pairs, no values.
LEMMA NoPairs ==
  ASSUME NEW t, Tidy(t), Pairs(t) = {}
  PROVE  \A k \in Key : Value(t, k) = NoVal
BY ValueIs

\* cra_dict_clear keeps the invariant and is a Clear of the map.
LEMMA ClearStep ==
  ASSUME DictInv, Clear
  PROVE  DictInv' /\ M!Clear
<1>1. /\ Len(table.entries) \in Nat /\ table.capacity \in Nat \ {0} /\ table.room \in Nat
      /\ count \in Nat /\ IsFiniteSet(Taken(table.entries)) /\ Tidy(table) /\ IsTable(table)
  BY Numbers DEF DictInv, Tidy
<1>2. PICK t, u, n : t = table /\ u = table' /\ n = count
  OBVIOUS
<1>3. PICK h : h = IF count > 0 THEN [b \in DOMAIN t.buckets |-> Nil] ELSE t.buckets
  OBVIOUS
<1>4. u = [t EXCEPT !.buckets = h, !.freelist = Nil, !.entries = << >>]
  <2>1. t \in Table
    BY <1>1, <1>2 DEF IsTable
  <2>2. QED
    BY <1>2, <1>3, <2>1 DEF Clear, Table
<1>5. h \in [0 .. t.capacity - 1 -> Nat] /\ \A b \in 0 .. t.capacity - 1 : h[b] = Nil
  <2>1. t.buckets \in [0 .. t.capacity - 1 -> Nat] /\ Nil \in Nat
    BY <1>1, <1>2 DEF IsTable, Nil
  <2>2. CASE count > 0
    <3>1. h = [b \in 0 .. t.capacity - 1 |-> Nil]
      BY <1>3, <2>1, <2>2
    <3>2. QED
      BY <2>1, <3>1
  <2>3. CASE ~(count > 0)
    <3>1. Taken(t.entries) = {}
      BY <1>1, <1>2, <2>3, FS_EmptySet DEF DictInv
    <3>2. \A b \in 0 .. t.capacity - 1 : t.buckets[b] = Nil
      BY <1>1, <1>2, <3>1, NoneNoChain
    <3>3. QED
      BY <1>3, <2>1, <2>3, <3>2
  <2>4. QED
    BY <2>2, <2>3
<1>6. /\ Tidy(u) /\ Pairs(u) = {} /\ Taken(u.entries) = {} /\ Len(u.entries) = 0
      /\ u.capacity = t.capacity /\ u.room = t.room
  <2>1. IsTable(t)
    BY <1>1, <1>2
  <2>2. QED
    BY ONLY <1>4, <1>5, <2>1, Forgotten
<1>7. count' = 0 /\ ret' = ret
  BY DEF Clear
<1>8. DictInv'
  <2>1. Cardinality(Taken(u.entries)) = 0
    BY <1>6, FS_EmptySet
  <2>2. QED
    BY <1>1, <1>2, <1>6, <1>7, <2>1 DEF DictInv
<1>9. \A k \in Key : Value(table', k) = NoVal
  BY <1>2, <1>6, NoPairs
<1>10. M!Clear
  BY <1>7, <1>9 DEF M!Clear
<1>11. QED
  BY <1>8, <1>10

\* The table that is made at first.
LEMMA FreshIs ==
  ASSUME NEW u, u = Fresh
  PROVE  /\ Tidy(u) /\ Pairs(u) = {} /\ Cardinality(Taken(u.entries)) = 0 /\ Len(u.entries) = 0
         /\ u.capacity \in Primes /\ Usable(u.capacity) <= u.room /\ u.room <= u.capacity
         /\ u.room \in Nat
<1> DEFINE c == NextPrime(InitCapacity)
<1>1. c \in Primes /\ c \in Nat \ {0}
  BY NextPrimeIs, DictAssumption
<1>2. Usable(c) \in Nat /\ Usable(c) <= c
  BY <1>1, UsableIs
<1>3. u = Empty(c, Usable(c))
  BY DEF Fresh
<1> HIDE DEF c
<1>4. /\ Tidy(u) /\ Pairs(u) = {} /\ Taken(u.entries) = {} /\ Len(u.entries) = 0
      /\ u.capacity = c /\ u.room = Usable(c)
  <2>1. PICK r \in Nat : r = Usable(c)
    BY <1>2
  <2>2. c \in Nat \ {0} /\ u = Empty(c, r)
    BY <1>1, <1>3, <2>1
  <2>3. QED
    BY ONLY r \in Nat, <2>1, <2>2, EmptyIsTidy
<1>5. Cardinality(Taken(u.entries)) = 0
  BY <1>4, FS_EmptySet
<1>6. QED
  BY <1>1, <1>2, <1>4, <1>5

\* A dictionary made anew is a map that was cleared.
LEMMA RenewStep ==
  ASSUME DictInv, Renew
  PROVE  DictInv' /\ M!Clear
<1>1. PICK u : u = table'
  OBVIOUS
<1>2. u = Fresh /\ count' = 0 /\ ret' = ret
  BY <1>1 DEF Renew
<1>3. /\ Tidy(u) /\ Pairs(u) = {} /\ Cardinality(Taken(u.entries)) = 0 /\ Len(u.entries) = 0
      /\ u.capacity \in Primes /\ Usable(u.capacity) <= u.room /\ u.room <= u.capacity
      /\ u.room \in Nat
  BY <1>2, FreshIs
<1>4. DictInv'
  BY <1>1, <1>2, <1>3 DEF DictInv
<1>5. \A k \in Key : Value(table', k) = NoVal
  BY <1>1, <1>3, NoPairs
<1>6. M!Clear
  BY <1>2, <1>5 DEF M!Clear
<1>7. QED
  BY <1>4, <1>6

\* cra_dict_reserve keeps the invariant and the map.
LEMMA ReserveStep ==
  ASSUME DictInv, RequestsFit, NEW n \in Requests, Reserve(n)
  PROVE  DictInv' /\ M!Reserve
<1>1. n \in Nat /\ count \in Nat
  BY Numbers, DictAssumption
<1>2. CASE InTable(n) /\ table' = Rehashed(n) /\ Returns(TRUE, NoVal) /\ UNCHANGED count
  <2>1. PICK u : u = table'
    OBVIOUS
  <2>2. ~(n < count) => count <= Usable(NextPrime(n))
    <3>1. NextPrime(n) \in Nat
      BY <1>1, <1>2, NextPrimeIs
    <3>2. Usable(NextPrime(n)) \in Nat
      BY <3>1, UsableIs
    <3>3. n <= Usable(NextPrime(n))
      BY <1>2 DEF RequestsFit
    <3>4. QED
      BY <1>1, <3>2, <3>3
  <2>3. /\ Tidy(u) /\ Pairs(u) = Pairs(table) /\ u.capacity \in Primes /\ u.freelist = Nil
        /\ Len(u.entries) = count /\ Cardinality(Taken(u.entries)) = count
        /\ count <= u.room /\ Usable(u.capacity) <= u.room /\ u.room <= u.capacity
    BY <1>1, <1>2, <2>1, <2>2, RehashFits
  <2>4. DictInv'
    BY <1>2, <2>1, <2>3 DEF DictInv
  <2>5. \A k \in Key : Value(table', k) = Value(table, k)
    <3>1. PICK t : t = table
      OBVIOUS
    <3>2. Tidy(t) /\ Tidy(u) /\ Pairs(u) = Pairs(t)
      BY <2>3, <3>1 DEF DictInv
    <3>3. \A k \in Key : Value(u, k) = Value(t, k)
      BY ONLY <3>2, SameValue
    <3>4. QED
      BY <2>1, <3>1, <3>3
  <2>6. MapNow' = MapNow
    BY <2>5 DEF MapNow
  <2>7. M!Returns(TRUE, NoVal)
    BY <1>2 DEF M!Returns, Returns
  <2>8. M!Reserve
    BY <2>6, <2>7 DEF M!Reserve, MapNow
  <2>9. QED
    BY <2>4, <2>8
<1>3. CASE table' = table /\ Returns(FALSE, NoVal) /\ UNCHANGED count
  <2>1. M!Returns(FALSE, NoVal) /\ MapNow' = MapNow
    BY <1>3 DEF M!Returns, Returns, MapNow
  <2>2. M!Reserve
    BY <2>1 DEF M!Reserve, MapNow
  <2>3. QED
    BY <1>3, <2>2, StaysSound
<1>4. QED
  BY <1>2, <1>3 DEF Reserve

\* A dictionary that is made is an empty map.
LEMMA DictInit ==
  ASSUME Init
  PROVE  DictInv /\ M!Init
<1>1. PICK u : u = table
  OBVIOUS
<1>2. u = Fresh /\ count = 0 /\ ret = [ok |-> FALSE, out |-> NoVal]
  BY <1>1 DEF Init
<1>3. /\ Tidy(u) /\ Pairs(u) = {} /\ Cardinality(Taken(u.entries)) = 0 /\ Len(u.entries) = 0
      /\ u.capacity \in Primes /\ Usable(u.capacity) <= u.room /\ u.room <= u.capacity
      /\ u.room \in Nat
  BY <1>2, FreshIs
<1>4. DictInv
  BY <1>1, <1>2, <1>3 DEF DictInv
<1>5. \A k \in Key : Value(table, k) = NoVal
  BY <1>1, <1>3, NoPairs
<1>6. M!Init
  BY <1>2, <1>5 DEF M!Init
<1>7. QED
  BY <1>4, <1>6

\* Every step keeps the invariant, and is a step of the map or none.
LEMMA DictNext ==
  ASSUME ~PopsAnywhere, RequestsFit, GrowsEnough, DictInv, [Next]_vars
  PROVE  DictInv' /\ [M!Next]_(M!vars)
<1>1. ASSUME NEW k \in Key, NEW v \in Val, Put(k, v)
      PROVE  DictInv' /\ [M!Next]_(M!vars)
  BY <1>1, PutStep DEF M!Next
<1>2. ASSUME NEW k \in Key, NEW v \in Val, Add(k, v)
      PROVE  DictInv' /\ [M!Next]_(M!vars)
  BY <1>2, AddStep DEF M!Next
<1>3. ASSUME NEW k \in Key, Pop(k)
      PROVE  DictInv' /\ [M!Next]_(M!vars)
  BY <1>3, PopStep DEF M!Next
<1>4. ASSUME NEW k \in Key, Get(k)
      PROVE  DictInv' /\ [M!Next]_(M!vars)
  BY <1>4, GetStep DEF M!Next
<1>5. CASE Clear
  BY <1>5, ClearStep DEF M!Next
<1>6. CASE Renew
  BY <1>6, RenewStep DEF M!Next
<1>7. ASSUME NEW n \in Requests, Reserve(n)
      PROVE  DictInv' /\ [M!Next]_(M!vars)
  BY <1>7, ReserveStep DEF M!Next
<1>8. CASE UNCHANGED vars
  <2>1. table' = table /\ count' = count /\ ret' = ret
    BY <1>8 DEF vars
  <2>2. DictInv'
    BY <2>1, StaysSound
  <2>3. M!vars' = M!vars
    BY <2>1 DEF M!vars
  <2>4. QED
    BY <2>2, <2>3
<1>9. QED
  BY <1>1, <1>2, <1>3, <1>4, <1>5, <1>6, <1>7, <1>8 DEF Next

\* A sequence without repetitions, as the library says it.
LEMMA ChainSet ==
  ASSUME NEW e, NEW i, NEW s, IsChain(e, i, s)
  PROVE  IsInjective(s) /\ ToSet(s) = Members(s)
<1>1. DOMAIN s = 1 .. Len(s)
  BY DEF IsChain
<1>2. IsInjective(s)
  BY <1>1 DEF IsChain, IsInjective
<1>3. QED
  BY <1>1, <1>2 DEF ToSet, Members

\* What iteration finds is what the chains hold.
LEMMA DictInvSound ==
  ASSUME DictInv
  PROVE  Sound
<1>1. PICK t : t = table
  OBVIOUS
<1>2. Tidy(t) /\ t.entries \in Seq(Entry) /\ Len(t.entries) \in Nat
  BY <1>1 DEF DictInv, Tidy, IsTable, Table
<1>3. DOMAIN t.entries = 1 .. Len(t.entries)
  BY <1>2
<1>4. InUse = Taken(t.entries)
  BY <1>1, <1>3 DEF InUse, Taken
<1>5. \A k \in Key : IsInjective(Chain(t, k)) /\ ToSet(Chain(t, k)) = InBucket(t, Bucket(t, k))
  <2> SUFFICES ASSUME NEW k \in Key
               PROVE  IsInjective(Chain(t, k)) /\ ToSet(Chain(t, k)) = InBucket(t, Bucket(t, k))
    OBVIOUS
  <2>1. /\ IsChain(t.entries, t.buckets[Bucket(t, k)], Chain(t, k))
        /\ Members(Chain(t, k)) = InBucket(t, Bucket(t, k))
    BY <1>2, ChainIs
  <2>2. QED
    BY <2>1, ChainSet
<1>6. Taken(t.entries) = {i \in DOMAIN t.entries : \E k \in Key : k = t.entries[i].key /\ i \in ToSet(Chain(t, k))}
  <2>1. ASSUME NEW i \in Taken(t.entries)
        PROVE  i \in DOMAIN t.entries /\ \E k \in Key : k = t.entries[i].key /\ i \in ToSet(Chain(t, k))
    <3>1. t.entries[i].key \in Key /\ t.entries[i].hash = Hash[t.entries[i].key]
      BY <1>2 DEF Tidy, Keys, IsPair
    <3>2. i \in InBucket(t, Bucket(t, t.entries[i].key))
      BY <3>1 DEF InBucket, Bucket
    <3>3. i \in DOMAIN t.entries
      BY <1>3 DEF Taken
    <3>4. QED
      BY <1>5, <3>1, <3>2, <3>3
  <2>2. \A k \in Key : ToSet(Chain(t, k)) \subseteq Taken(t.entries)
    BY <1>5 DEF InBucket
  <2>3. QED
    BY <2>1, <2>2
<1>7. IsInjective(Follow(t, t.freelist)) /\ ToSet(Follow(t, t.freelist)) = Vacant(t.entries)
  <2>1. PICK s : IsChain(t.entries, t.freelist, s) /\ Members(s) = Vacant(t.entries)
    BY <1>2 DEF Tidy, Linkage, Chained
  <2>2. Follow(t, t.freelist) = s
    BY <1>2, <2>1, FollowIs
  <2>3. QED
    BY <2>1, <2>2, ChainSet
<1>8. Vacant(t.entries) = DOMAIN t.entries \ InUse
  BY <1>3, <1>4 DEF Vacant
<1>9. QED
  BY <1>1, <1>4, <1>5, <1>6, <1>7, <1>8 DEF DictInv, Sound

\* The chains, the free list and the count agree, and the entries fit the memory
\* they are in, as long as clients pop the first key of a chain only.
THEOREM DictSound ==
  ASSUME ~PopsAnywhere, RequestsFit, GrowsEnough
  PROVE  Spec => []Sound
<1>1. Init => DictInv
  BY DictInit
<1>2. DictInv /\ [Next]_vars => DictInv'
  BY DictNext
<1>3. DictInv => Sound
  BY DictInvSound
<1>4. QED
  BY <1>1, <1>2, <1>3, PTL DEF Spec

\* Growing, shrinking, reusing places and running out of memory are invisible: the
\* dictionary is a map.
THEOREM DictIsMap ==
  ASSUME ~PopsAnywhere, RequestsFit, GrowsEnough
  PROVE  Spec => MapSpec
<1>1. Init => DictInv /\ M!Init
  BY DictInit
<1>2. DictInv /\ [Next]_vars => DictInv' /\ [M!Next]_(M!vars)
  BY DictNext
<1>3. QED
  BY <1>1, <1>2, PTL DEF Spec, MapSpec, M!Spec

(***************************************************************************)
(* The containers of the runs are those of the proofs.                     *)
(***************************************************************************)
QP == INSTANCE DequeProofs WITH ret <- dequeRet, MaxCount <- DequeMax, MayFail <- DequeMayFail
LP == INSTANCE ListProofs WITH Val <- Elem, MaxCount <- ListMax

\* A new deque.
LEMMA DequeStarts == QP!Init <=> Q!Init
  BY DEF Q!Init, QP!Init, Q!Fresh, QP!Fresh, Q!EmptyIndex, QP!EmptyIndex, Q!NoBlock, QP!NoBlock

\* What the iterators of the deque find.
LEMMA DequeIteratesBoth == QP!IteratesContent <=> Q!IteratesContent
  BY DEF Q!IteratesContent, QP!IteratesContent, Q!Forward, QP!Forward, Q!Backward, QP!Backward, Q!Begin,
         QP!Begin, Q!End, QP!End, Q!Ahead, QP!Ahead, Q!Behind, QP!Behind, Q!Up, QP!Up, Q!Down, QP!Down,
         Q!At, QP!At, Q!Read, QP!Read, Q!BlockOf, QP!BlockOf, Q!CellOf, QP!CellOf, Q!NoBlock, QP!NoBlock

\* What a deque holds.
LEMMA DequeContentBoth == \A d : QP!Content(d) = Q!Content(d)
  BY DEF Q!Content, QP!Content, Q!At, QP!At, Q!Read, QP!Read, Q!BlockOf, QP!BlockOf, Q!CellOf, QP!CellOf,
         Q!NoBlock, QP!NoBlock

\* A block at either end.
LEMMA DequeEnsureBoth ==
  ASSUME NEW d, NEW lacks
  PROVE  /\ QP!EnsureLeft(d, lacks) = Q!EnsureLeft(d, lacks)
         /\ QP!EnsureRight(d, lacks) = Q!EnsureRight(d, lacks)
<1>1. QP!EnsureLeft(d, lacks) = Q!EnsureLeft(d, lacks)
  BY DEF Q!EnsureLeft, QP!EnsureLeft, Q!Done, QP!Done, Q!Gave, QP!Gave, Q!Down, QP!Down, Q!Expanded,
         QP!Expanded, Q!Moved, QP!Moved, Q!WithBlock, QP!WithBlock, Q!NoBlock, QP!NoBlock, Q!Cells,
         QP!Cells
<1>2. QP!EnsureRight(d, lacks) = Q!EnsureRight(d, lacks)
  BY DEF Q!EnsureRight, QP!EnsureRight, Q!Done, QP!Done, Q!Gave, QP!Gave, Q!Up, QP!Up, Q!Expanded,
         QP!Expanded, Q!Moved, QP!Moved, Q!WithBlock, QP!WithBlock, Q!NoBlock, QP!NoBlock, Q!Cells,
         QP!Cells
<1>3. QED
  BY <1>1, <1>2

\* An element that is copied into its cell.
LEMMA DequeCopyBoth ==
  ASSUME NEW m, NEW b, NEW c, NEW v, NEW lacks
  PROVE  QP!CopyValue(m, b, c, v, lacks) = Q!CopyValue(m, b, c, v, lacks)
BY DEF Q!CopyValue, QP!CopyValue, Q!Done, QP!Done, Q!Gave, QP!Gave, Q!WithBlock, QP!WithBlock, Q!NoBlock,
       QP!NoBlock, Q!Cells, QP!Cells

\* The cells of the elements.
LEMMA DequeSettledBoth ==
  ASSUME NEW d
  PROVE  QP!Settled(d) = Q!Settled(d)
BY DEF Q!Settled, QP!Settled, Q!BlockOf, QP!BlockOf, Q!CellOf, QP!CellOf, Q!Cells, QP!Cells, Q!NoBlock,
       QP!NoBlock

\* The end of a push.
LEMMA DequePushesBoth ==
  ASSUME NEW d
  PROVE  QP!Pushes(d) <=> Q!Pushes(d)
BY DequeSettledBoth DEF Q!Pushes, QP!Pushes, Q!Returns, QP!Returns

\* Elements that move by one cell.
LEMMA DequeMovesBoth ==
  ASSUME NEW d, NEW k, NEW j, NEW rest
  PROVE  /\ QP!MoveR2L(d, k, j, rest) = Q!MoveR2L(d, k, j, rest)
         /\ QP!MoveL2R(d, k, j, rest) = Q!MoveL2R(d, k, j, rest)
<1>1. QP!MoveR2L(d, k, j, rest) = Q!MoveR2L(d, k, j, rest)
  BY DEF Q!MoveR2L, QP!MoveR2L, Q!R2L, QP!R2L, Q!Up, QP!Up, Q!Cells, QP!Cells
<1>2. QP!MoveL2R(d, k, j, rest) = Q!MoveL2R(d, k, j, rest)
  BY DEF Q!MoveL2R, QP!MoveL2R, Q!L2R, QP!L2R, Q!Down, QP!Down, Q!Cells, QP!Cells
<1>3. QED
  BY <1>1, <1>2

\* cra_deque_insert
LEMMA DequeInsertBoth ==
  ASSUME NEW i, NEW v
  PROVE  QP!Insert(i, v) <=> Q!Insert(i, v)
<1>1. \A d : QP!Pushes(d) <=> Q!Pushes(d)
  BY DequePushesBoth
<1>2. ASSUME NEW lacks
      PROVE  QP!Inserted(i, v, lacks) = Q!Inserted(i, v, lacks)
  <2>1. PICK left, right : left = QP!EnsureLeft(deque, lacks) /\ right = QP!EnsureRight(deque, lacks)
    OBVIOUS
  <2>2. left = Q!EnsureLeft(deque, lacks) /\ right = Q!EnsureRight(deque, lacks)
    BY <2>1, DequeEnsureBoth
  <2>3. PICK r, l : /\ r = QP!MoveR2L(left.d, left.d.front, left.d.lindex, i + 1)
                    /\ l = QP!MoveL2R(right.d, right.d.rear, right.d.rindex, deque.count - i)
    OBVIOUS
  <2>4. /\ r = Q!MoveR2L(left.d, left.d.front, left.d.lindex, i + 1)
        /\ l = Q!MoveL2R(right.d, right.d.rear, right.d.rindex, deque.count - i)
    BY <2>3, DequeMovesBoth
  <2>5. PICK made : made = IF i < deque.count \div 2
                             THEN IF left.ok /\ i > 0 THEN [ok |-> TRUE, d |-> r] ELSE left
                             ELSE IF right.ok /\ i < deque.count THEN [ok |-> TRUE, d |-> l] ELSE right
    OBVIOUS
  <2>6. PICK b, c : /\ b = (made.d.front + (i + made.d.lindex) \div Items) % made.d.narray
                    /\ c = (i + made.d.lindex) % Items
    OBVIOUS
  <2>7. QP!Inserted(i, v, lacks) = QP!CopyValue(made, b, c, v, lacks)
    BY <2>1, <2>3, <2>5, <2>6, Zenon DEF QP!Inserted, QP!Done, QP!ToTheRight, QP!BlockOf, QP!CellOf
  <2>8. Q!Inserted(i, v, lacks) = Q!CopyValue(made, b, c, v, lacks)
    BY <2>2, <2>4, <2>5, <2>6, Zenon DEF Q!Inserted, Q!Done, Q!ToTheRight, Q!BlockOf, Q!CellOf
  <2>9. QED
    BY <2>7, <2>8, DequeCopyBoth
<1>3. QED
  BY <1>1, <1>2, Zenon DEF Q!Insert, QP!Insert, Q!Returns, QP!Returns

\* The calls of the deque.
LEMMA DequeSteps == QP!Next <=> Q!Next
<1>1. \A d : QP!DecrementLeft(d) = Q!DecrementLeft(d) /\ QP!DecrementRight(d) = Q!DecrementRight(d)
  BY DEF Q!DecrementLeft, QP!DecrementLeft, Q!DecrementRight, QP!DecrementRight, Q!Up, QP!Up, Q!Down, QP!Down
<1>2. \A d, out : QP!Pops(d, out) <=> Q!Pops(d, out)
  <2>1. \A d : QP!Popped(d) = Q!Popped(d)
    BY DEF Q!Popped, QP!Popped, Q!EmptyIndex, QP!EmptyIndex
  <2>2. QED
    BY DequeSettledBoth, <2>1 DEF Q!Pops, QP!Pops, Q!Returns, QP!Returns
<1>3. ASSUME NEW i, NEW v
       PROVE  QP!Insert(i, v) <=> Q!Insert(i, v)
  BY DequeInsertBoth
<1>4. \A v : (QP!PushFront(v) <=> Q!PushFront(v)) /\ (QP!PushBack(v) <=> Q!PushBack(v))
  BY DequeEnsureBoth, DequeCopyBoth, DequePushesBoth DEF Q!PushFront, QP!PushFront, Q!PushBack, QP!PushBack
<1>5. \A i : QP!PopAt(i) <=> Q!PopAt(i)
  BY <1>1, <1>2, DequeMovesBoth DEF Q!PopAt, QP!PopAt, Q!PopFails, QP!PopFails, Q!At, QP!At, Q!Read,
         QP!Read, Q!NoBlock, QP!NoBlock, Q!BlockOf, QP!BlockOf, Q!CellOf, QP!CellOf, Q!Returns, QP!Returns
<1>6. (QP!PopFront <=> Q!PopFront) /\ (QP!PopBack <=> Q!PopBack)
  BY <1>1, <1>2 DEF Q!PopFront, QP!PopFront, Q!PopBack, QP!PopBack, Q!PopFails, QP!PopFails, Q!Read,
         QP!Read, Q!NoBlock, QP!NoBlock, Q!Returns, QP!Returns
<1>7. \A i : QP!Get(i) <=> Q!Get(i)
  BY DEF Q!Get, QP!Get, Q!At, QP!At, Q!Read, QP!Read, Q!NoBlock, QP!NoBlock, Q!BlockOf, QP!BlockOf,
         Q!CellOf, QP!CellOf, Q!Returns, QP!Returns
<1>8. (QP!ReverseAll <=> Q!ReverseAll) /\ (QP!Clear <=> Q!Clear) /\ (QP!Renew <=> Q!Renew)
  <2>1. QP!ReverseAll <=> Q!ReverseAll
    BY DEF Q!ReverseAll, QP!ReverseAll, Q!Swapped, QP!Swapped, Q!Swap, QP!Swap, Q!Ahead, QP!Ahead,
           Q!Behind, QP!Behind, Q!Begin, QP!Begin, Q!End, QP!End, Q!Up, QP!Up, Q!Down, QP!Down,
           Q!Returns, QP!Returns
  <2>2. QP!Clear <=> Q!Clear
    BY DequeSettledBoth DEF Q!Clear, QP!Clear, Q!EmptyIndex, QP!EmptyIndex
  <2>3. QP!Renew <=> Q!Renew
    BY DEF Q!Renew, QP!Renew, Q!Fresh, QP!Fresh, Q!EmptyIndex, QP!EmptyIndex, Q!NoBlock, QP!NoBlock
  <2>4. QED
    BY <2>1, <2>2, <2>3
<1>9. QED
  BY <1>3, <1>4, <1>5, <1>6, <1>7, <1>8 DEF Q!Next, QP!Next

\* A new linked list.
LEMMA LListStarts == LP!Init <=> L!Init
  BY DEF L!Init, LP!Init, L!Fresh, LP!Fresh, L!Null, LP!Null, L!Node, LP!Node

\* The ring and the spare nodes of the linked list.
LEMMA LListSoundBoth == LP!Sound <=> L!Sound
  BY DEF L!Sound, LP!Sound, L!Order, LP!Order, L!Hop, LP!Hop, L!Null, LP!Null, L!ToSet, LP!ToSet,
         L!Cardinality, LP!Cardinality, L!IsFiniteSet, LP!IsFiniteSet

\* What a linked list holds.
LEMMA LListContentBoth == \A l : LP!Content(l) = L!Content(l)
  BY DEF L!Content, LP!Content, L!Order, LP!Order, L!Hop, LP!Hop, L!Null, LP!Null

\* cra_llist_insert
LEMMA LListInsertBoth ==
  ASSUME NEW i, NEW v
  PROVE  LP!Insert(i, v) <=> L!Insert(i, v)
<1>1. PICK n, w : n = LP!FreeNode(llist) /\ w = LP!WithoutFree(llist)
  OBVIOUS
<1>2. n = L!FreeNode(llist) /\ w = L!WithoutFree(llist)
  BY <1>1 DEF L!FreeNode, LP!FreeNode, L!WithoutFree, LP!WithoutFree, L!Unmade, LP!Unmade, L!Min, LP!Min,
         L!Node, LP!Node, L!Null, LP!Null
<1>3. LP!PutFree(w, n) = L!PutFree(w, n)
  BY DEF L!PutFree, LP!PutFree, L!Null, LP!Null
<1>4. LP!InsertNode(w, i, n) = L!InsertNode(w, i, n)
  <2>1. LP!GetNode(w, i % w.count) = L!GetNode(w, i % w.count)
    BY DEF L!GetNode, LP!GetNode, L!Hop, LP!Hop, L!Null, LP!Null
  <2>2. \A p : LP!Linked(w, n, p) = L!Linked(w, n, p)
    BY DEF L!Linked, LP!Linked
  <2>3. QED
    BY <2>1, <2>2, Zenon DEF L!InsertNode, LP!InsertNode, L!Null, LP!Null
<1>5. LP!InsertInto(i, v) <=> L!InsertInto(i, v)
  <2>1. LP!CanGetFree <=> L!CanGetFree
    BY DEF L!CanGetFree, LP!CanGetFree, L!CanCreate, LP!CanCreate, L!Node, LP!Node, L!Null, LP!Null
  <2>2. QED
    BY <1>1, <1>2, <1>3, <1>4, <2>1, Zenon DEF L!InsertInto, LP!InsertInto, L!Returns, LP!Returns
<1>6. LP!OutOfMemory <=> L!OutOfMemory
  BY DEF L!OutOfMemory, LP!OutOfMemory, L!Returns, LP!Returns, L!Null, LP!Null
<1>7. QED
  BY <1>5, <1>6, Zenon DEF L!Insert, LP!Insert

\* cra_llist_pop_at
LEMMA LListPopBoth ==
  ASSUME NEW i
  PROVE  LP!PopAt(i) <=> L!PopAt(i)
<1>1. PICK n : n = LP!GetNode(llist, i)
  OBVIOUS
<1>2. n = L!GetNode(llist, i)
  BY <1>1 DEF L!GetNode, LP!GetNode, L!Hop, LP!Hop, L!Null, LP!Null
<1>3. LP!RemoveNode(llist, n) = L!RemoveNode(llist, n)
  <2>1. PICK w : w = LP!Unlinked(llist, n)
    OBVIOUS
  <2>2. w = L!Unlinked(llist, n)
    BY <2>1 DEF L!Unlinked, LP!Unlinked, L!Null, LP!Null
  <2>3. LP!PutFree(w, n) = L!PutFree(w, n)
    BY DEF L!PutFree, LP!PutFree, L!Null, LP!Null
  <2>4. QED
    BY <2>1, <2>2, <2>3, Zenon DEF L!RemoveNode, LP!RemoveNode, L!Null, LP!Null
<1>4. QED
  BY <1>1, <1>2, <1>3, Zenon DEF L!PopAt, LP!PopAt, L!Returns, LP!Returns

\* The calls of the linked list.
LEMMA LListSteps == LP!Next <=> L!Next
<1>1. \A i, v : LP!Insert(i, v) <=> L!Insert(i, v)
  BY LListInsertBoth
<1>2. ASSUME NEW i
      PROVE  (LP!PopAt(i) <=> L!PopAt(i)) /\ (LP!Get(i) <=> L!Get(i))
  <2>1. LP!PopAt(i) <=> L!PopAt(i)
    BY LListPopBoth
  <2>2. LP!Get(i) <=> L!Get(i)
    BY DEF L!Get, LP!Get, L!Returns, LP!Returns, L!GetNode, LP!GetNode, L!Hop, LP!Hop, L!Null, LP!Null
  <2>3. QED
    BY <2>1, <2>2
<1>3. \A i, v : LP!Set(i, v) <=> L!Set(i, v)
  BY DEF L!Set, LP!Set, L!Returns, LP!Returns, L!GetNode, LP!GetNode, L!Hop, LP!Hop, L!Null, LP!Null
<1>4. \A v : LP!AddSort(v) <=> L!AddSort(v)
  <2>1. SUFFICES ASSUME NEW v PROVE LP!AddSort(v) <=> L!AddSort(v)
    OBVIOUS
  <2>2. PICK i : i = L!Min({llist.count} \cup {j \in 0 .. llist.count - 1 : L!Content(llist)[j + 1] > v})
    OBVIOUS
  <2>3. i = LP!Min({llist.count} \cup {j \in 0 .. llist.count - 1 : LP!Content(llist)[j + 1] > v})
    BY <2>2, LListContentBoth DEF L!Min, LP!Min
  <2>4. QED
    BY <1>1, <2>2, <2>3 DEF L!AddSort, LP!AddSort
<1>5. LP!Sort <=> L!Sort
  BY DEF L!Sort, LP!Sort, L!Returns, LP!Returns, L!CanGetFree, LP!CanGetFree, L!CanCreate, LP!CanCreate,
         L!Order, LP!Order, L!Hop, LP!Hop, L!PutFree, LP!PutFree, L!WithoutFree, LP!WithoutFree,
         L!FreeNode, LP!FreeNode, L!Unmade, LP!Unmade, L!Min, LP!Min, L!Node, LP!Node, L!Null, LP!Null,
         L!Content, LP!Content, L!ToSet, LP!ToSet, L!OutOfMemory, LP!OutOfMemory,
         L!S!StopsBelow, LP!S!StopsBelow, L!S!StopsBeyond, LP!S!StopsBeyond, L!S!Meet, LP!S!Meet,
                L!S!Parted, LP!S!Parted, L!S!WorthSorting, LP!S!WorthSorting, L!S!SortPart,
                LP!S!SortPart, L!S!QuickSorted, LP!S!QuickSorted, L!S!Sorted, LP!S!Sorted, L!S!Max,
                LP!S!Max, L!S!Min, LP!S!Min
<1>6. (LP!ReverseAll <=> L!ReverseAll) /\ (LP!Clear <=> L!Clear) /\ (LP!Renew <=> L!Renew)
  <2>1. LP!ReverseAll <=> L!ReverseAll
    BY DEF L!ReverseAll, LP!ReverseAll, L!ToSet, LP!ToSet, L!Order, LP!Order, L!Hop, LP!Hop, L!Null,
           LP!Null, L!Node, LP!Node, L!Returns, LP!Returns
  <2>2. LP!Clear <=> L!Clear
    BY DEF L!Clear, LP!Clear, L!ToSet, LP!ToSet, L!Order, LP!Order, L!Hop, LP!Hop, L!Null, LP!Null,
           L!Node, LP!Node
  <2>3. LP!Renew <=> L!Renew
    BY DEF L!Renew, LP!Renew, L!Fresh, LP!Fresh, L!Null, LP!Null, L!Node, LP!Node
  <2>4. QED
    BY <2>1, <2>2, <2>3
<1>7. \A n : LP!ReserveMore(n) <=> L!ReserveMore(n)
  BY DEF L!ReserveMore, LP!ReserveMore, L!PutFree, LP!PutFree, L!Unmade, LP!Unmade, L!Min, LP!Min, L!Node,
         LP!Node, L!Cardinality, LP!Cardinality, L!IsFiniteSet, LP!IsFiniteSet, L!Returns, LP!Returns,
         L!Null, LP!Null
<1>8. \A n : LP!ReserveLess(n) <=> L!ReserveLess(n)
  BY DEF L!ReserveLess, LP!ReserveLess, L!Hop, LP!Hop, L!Null, LP!Null, L!Node, LP!Node, L!Returns, LP!Returns
<1>9. QED
  BY <1>1, <1>2, <1>3, <1>4, <1>5, <1>6, <1>7, <1>8 DEF L!Next, LP!Next

\* The array list of the proofs starts as that of the runs.
LEMMA AListStarts == LP!A!Init <=> A!Init
  BY DEF A!Init, LP!A!Init, A!Fresh, LP!A!Fresh

\* What an array list holds.
LEMMA AListContentBoth == \A l : LP!A!Content(l) = A!Content(l)
  BY DEF A!Content, LP!A!Content

\* cra_alist_insert
LEMMA AListInsertBoth ==
  ASSUME NEW i, NEW v
  PROVE  LP!A!Insert(i, v) <=> A!Insert(i, v)
  BY Zenon DEF A!Insert, LP!A!Insert, A!Returns, LP!A!Returns, A!OutOfMemory, LP!A!OutOfMemory,
         A!Reallocated, LP!A!Reallocated, A!Memmove, LP!A!Memmove, A!Resized, LP!A!Resized, A!Expanded,
         LP!A!Expanded

\* The elements in order.
LEMMA AListSortedBoth ==
  ASSUME NEW c
  PROVE  LP!A!S!Sorted(c) = A!S!Sorted(c)
<1>1. \A s, begin, end : LP!A!S!QuickSorted(s, begin, end) = A!S!QuickSorted(s, begin, end)
  BY ZenonT(60) DEF A!S!QuickSorted, LP!A!S!QuickSorted, A!S!SortPart, LP!A!S!SortPart,
         A!S!WorthSorting, LP!A!S!WorthSorting, A!S!Parted, LP!A!S!Parted, A!S!Meet, LP!A!S!Meet,
         A!S!StopsBelow, LP!A!S!StopsBelow, A!S!StopsBeyond, LP!A!S!StopsBeyond, A!S!Max, LP!A!S!Max,
         A!S!Min, LP!A!S!Min
<1>2. QED
  BY <1>1 DEF A!S!Sorted, LP!A!S!Sorted

\* Where the binary search puts an element.
LEMMA AListSearchedBoth ==
  ASSUME NEW c, NEW v
  PROVE  LP!A!S!Searched(c, v) = A!S!Searched(c, v)
BY Zenon DEF A!S!Searched, LP!A!S!Searched, A!S!Halved, LP!A!S!Halved

\* The calls of the array list.
LEMMA AListSteps == LP!A!Next <=> A!Next
<1>1. \A i, v : LP!A!Insert(i, v) <=> A!Insert(i, v)
  BY AListInsertBoth
<1>2. \A i : LP!A!PopAt(i) <=> A!PopAt(i)
  BY Zenon DEF A!PopAt, LP!A!PopAt, A!Returns, LP!A!Returns, A!Forgotten, LP!A!Forgotten, A!Memmove,
         LP!A!Memmove
<1>3. \A i : LP!A!Get(i) <=> A!Get(i)
  BY Zenon DEF A!Get, LP!A!Get, A!Returns, LP!A!Returns
<1>4. \A i, v : LP!A!Set(i, v) <=> A!Set(i, v)
  BY Zenon DEF A!Set, LP!A!Set, A!Returns, LP!A!Returns
<1>5. \A v : LP!A!AddSort(v) <=> A!AddSort(v)
  BY <1>1, AListSearchedBoth, AListContentBoth DEF A!AddSort, LP!A!AddSort
<1>6. LP!A!Sort <=> A!Sort
  BY AListSortedBoth, AListContentBoth DEF A!Sort, LP!A!Sort, A!Returns, LP!A!Returns, A!OutOfMemory,
         LP!A!OutOfMemory
<1>7. LP!A!ReverseAll <=> A!ReverseAll
  BY Zenon DEF A!ReverseAll, LP!A!ReverseAll, A!Turned, LP!A!Turned, A!Swap, LP!A!Swap, A!Returns,
         LP!A!Returns, A!OutOfMemory, LP!A!OutOfMemory
<1>8. LP!A!Clear <=> A!Clear
  BY Zenon DEF A!Clear, LP!A!Clear, A!Forgotten, LP!A!Forgotten
<1>9. LP!A!Renew <=> A!Renew
  BY Zenon DEF A!Renew, LP!A!Renew, A!Fresh, LP!A!Fresh
<1>10. \A n : LP!A!Reserve(n) <=> A!Reserve(n)
  BY Zenon DEF A!Reserve, LP!A!Reserve, A!Resized, LP!A!Resized, A!Reallocated, LP!A!Reallocated, A!Max,
         LP!A!Max, A!Returns, LP!A!Returns, A!OutOfMemory, LP!A!OutOfMemory
<1>11. QED
  BY <1>1, <1>2, <1>3, <1>4, <1>5, <1>6, <1>7, <1>8, <1>9, <1>10, Zenon DEF A!Next, LP!A!Next

\* What the containers of the runs do is what those of the proofs do.
LEMMA ContainerSteps ==
  /\ MCSpec => Spec
  /\ MCSpec => QP!Spec
  /\ MCSpec => LP!Spec
  /\ MCSpec => LP!A!Spec
<1>1. MCInit => Init /\ QP!Init /\ LP!Init /\ LP!A!Init
  BY DequeStarts, LListStarts, AListStarts DEF MCInit
<1>2. [MCNext]_MCVars => [Next]_vars
  BY DEF MCNext, MCVars
<1>3. [MCNext]_MCVars => [QP!Next]_(QP!vars)
  BY DequeSteps DEF MCNext, MCVars, dequeVars, QP!vars
<1>4. [MCNext]_MCVars => [LP!Next]_(LP!vars)
  BY LListSteps DEF MCNext, MCVars, llistVars, LP!vars
<1>5. MCSpec => Spec
  BY <1>1, <1>2, PTL DEF MCSpec, Spec
<1>6. MCSpec => QP!Spec
  BY <1>1, <1>3, PTL DEF MCSpec, QP!Spec
<1>7. MCSpec => LP!Spec
  BY <1>1, <1>4, PTL DEF MCSpec, LP!Spec
<1>8. [MCNext]_MCVars => [LP!A!Next]_(LP!A!vars)
  BY AListSteps DEF MCNext, MCVars, alistVars, LP!A!vars
<1>9. MCSpec => LP!A!Spec
  BY <1>1, <1>8, PTL DEF MCSpec, LP!A!Spec
<1>10. QED
  BY <1>5, <1>6, <1>7, <1>9

\* What the containers are assumed to be given.
LEMMA ContainerAssumptions ==
  GrowsEnough /\ RequestsFit /\ QP!DequeAssumption /\ LP!LListAssumption /\ LP!A!AListAssumption
BY ContainersAssumption DEF Q!DequeAssumption, QP!DequeAssumption, L!LListAssumption, LP!LListAssumption,
       A!AListAssumption, LP!A!AListAssumption

\* The containers are in order after any calls: the two ends of the deque and its
\* count agree, the ring and the spare nodes of the linked list account for its
\* nodes, and the chains, the free list and the count of the dictionary agree.
THEOREM ContainersAreSound ==
  ASSUME DequeMayFail \subseteq {"temp"}, ~Shrinks, ~PopsAnywhere
  PROVE  MCSpec => []ContainersSound
<1>1. Spec => []Sound
  BY ContainerAssumptions, DictSound
<1>2. QP!Spec => []QP!IteratesContent
  <2>1. QP!NeverLacks
    BY DEF QP!NeverLacks
  <2>2. QED
    BY ContainerAssumptions, <2>1, QP!DequeIterates
<1>3. LP!Spec => []LP!Sound
  BY ContainerAssumptions, LP!LListSound
<1>4. QED
  BY <1>1, <1>2, <1>3, ContainerSteps, DequeIteratesBoth, LListSoundBoth, PTL DEF ContainersSound

\* The assumptions, as numbers.
LEMMA ContainerNumbers ==
  Val \subseteq Val \cup Elem /\ Elem \subseteq Val \cup Elem /\ DequeMax \in Nat /\ ListMax \in Nat
BY ContainersAssumption DEF Q!DequeAssumption, A!AListAssumption

\* A step of the sequence that the deque is.
LEMMA DequeUsed ==
  ASSUME UsedList = QP!Content(deque), UsedAnswer = dequeRet,
         UsedList' = QP!Content(deque)', UsedAnswer' = dequeRet',
         [QP!Elements!Next]_(QP!Elements!vars)
  PROVE  [Used!Next]_(Used!vars)
<1> DEFINE next == QP!Content(deque)'
<1>1. /\ UsedList = QP!Content(deque) /\ UsedList' = next
      /\ UsedAnswer = dequeRet /\ UsedAnswer' = dequeRet'
  OBVIOUS
<1> HIDE DEF next
<1>2. ASSUME NEW i, NEW v, QP!Elements!Insert(i, v)
      PROVE  Used!Insert(i, v)
  BY <1>1, <1>2 DEF next, QP!Elements!Insert, Used!Insert, QP!Elements!Returns, Used!Returns,
         QP!Elements!Fails, Used!Fails, QP!Elements!OutOfMemory, Used!OutOfMemory, QP!Elements!InsertAt,
         Used!InsertAt
<1>3. ASSUME NEW i, QP!Elements!PopAt(i)
      PROVE  Used!PopAt(i)
  BY <1>1, <1>3 DEF next, QP!Elements!PopAt, Used!PopAt, QP!Elements!Returns, Used!Returns,
         QP!Elements!Fails, Used!Fails, QP!Elements!RemoveAt, Used!RemoveAt
<1>4. ASSUME NEW i, QP!Elements!Get(i)
      PROVE  Used!Get(i)
  BY <1>1, <1>4 DEF next, QP!Elements!Get, Used!Get, QP!Elements!Returns, Used!Returns
<1>5. ASSUME NEW i, NEW v, QP!Elements!Set(i, v)
      PROVE  Used!Set(i, v)
  BY <1>1, <1>5 DEF next, QP!Elements!Set, Used!Set, QP!Elements!Returns, Used!Returns,
         QP!Elements!Fails, Used!Fails
<1>6. ASSUME NEW v, QP!Elements!PushFront(v) \/ QP!Elements!PushBack(v)
      PROVE  Used!PushFront(v) \/ Used!PushBack(v)
  BY <1>1, <1>2, <1>6 DEF QP!Elements!PushFront, Used!PushFront, QP!Elements!PushBack, Used!PushBack
<1>7. \A s : QP!Elements!Ascending(s) <=> Used!Ascending(s)
  BY DEF QP!Elements!Ascending, Used!Ascending
<1>8. ASSUME NEW v, QP!Elements!AddSort(v)
      PROVE  Used!AddSort(v)
  BY <1>1, <1>2, <1>7, <1>8 DEF next, QP!Elements!AddSort, Used!AddSort
<1>9. ASSUME QP!Elements!PopFront \/ QP!Elements!PopBack
      PROVE  Used!PopFront \/ Used!PopBack
  BY <1>1, <1>3, <1>9 DEF QP!Elements!PopFront, Used!PopFront, QP!Elements!PopBack, Used!PopBack
<1>10. ASSUME QP!Elements!Sort
       PROVE  Used!Sort
  <2>1. \A s, t : QP!Elements!Rearranged(s, t) <=> Used!Rearranged(s, t)
    BY DEF QP!Elements!Rearranged, Used!Rearranged, QP!Elements!Places, Used!Places,
           QP!Elements!ToSet, Used!ToSet, QP!Elements!Cardinality, Used!Cardinality,
           QP!Elements!IsFiniteSet, Used!IsFiniteSet
  <2>2. QED
    BY <1>1, <1>7, <1>10, <2>1 DEF next, QP!Elements!Sort, Used!Sort, QP!Elements!Returns,
           Used!Returns, QP!Elements!Fails, Used!Fails, QP!Elements!OutOfMemory, Used!OutOfMemory
<1>11. ASSUME QP!Elements!ReverseAll
       PROVE  Used!ReverseAll
  BY <1>1, <1>11 DEF next, QP!Elements!ReverseAll, Used!ReverseAll, QP!Elements!Returns, Used!Returns,
         QP!Elements!Fails, Used!Fails, QP!Elements!OutOfMemory, Used!OutOfMemory, QP!Elements!Reverse,
         Used!Reverse
<1>12. ASSUME QP!Elements!Clear
       PROVE  Used!Clear
  BY <1>1, <1>12 DEF next, QP!Elements!Clear, Used!Clear
<1>13. CASE UNCHANGED QP!Elements!vars
  BY <1>1, <1>13 DEF next, QP!Elements!vars, Used!vars
<1>14. CASE QP!Elements!Next
  <2>1. Val \subseteq Val \cup Elem /\ 0 .. DequeMax \subseteq 0 .. DequeMax
    BY ContainerNumbers
  <2>2. CASE \E i \in 0 .. DequeMax : \/ QP!Elements!PopAt(i) \/ QP!Elements!Get(i)
                              \/ \E v \in Val : QP!Elements!Insert(i, v) \/ QP!Elements!Set(i, v)
    <3>1. \E i \in 0 .. DequeMax : \/ Used!PopAt(i) \/ Used!Get(i)
                              \/ \E v \in Val \cup Elem : Used!Insert(i, v) \/ Used!Set(i, v)
      BY <1>2, <1>3, <1>4, <1>5, <2>1, <2>2
    <3>2. QED
      BY <3>1, Zenon DEF Used!Next
  <2>3. CASE \E v \in Val : QP!Elements!PushFront(v) \/ QP!Elements!PushBack(v) \/ QP!Elements!AddSort(v)
    <3>1. \E v \in Val \cup Elem : Used!PushFront(v) \/ Used!PushBack(v) \/ Used!AddSort(v)
      BY <1>6, <1>8, <2>1, <2>3
    <3>2. QED
      BY <3>1, Zenon DEF Used!Next
  <2>4. CASE \/ QP!Elements!PopFront \/ QP!Elements!PopBack
             \/ QP!Elements!Sort \/ QP!Elements!ReverseAll \/ QP!Elements!Clear
    BY <1>9, <1>10, <1>11, <1>12, <2>4, Zenon DEF Used!Next
  <2>5. QED
    BY <1>14, <2>2, <2>3, <2>4, Zenon DEF QP!Elements!Next
<1>15. QED
  BY <1>13, <1>14

\* A step of the sequence that the linked list is.
LEMMA LListUsed ==
  ASSUME ListMax <= DequeMax, UsedList = LP!Content(llist), UsedAnswer = lret,
         UsedList' = LP!Content(llist)', UsedAnswer' = lret',
         [LP!Elements!Next]_(LP!Elements!vars)
  PROVE  [Used!Next]_(Used!vars)
<1> DEFINE next == LP!Content(llist)'
<1>1. /\ UsedList = LP!Content(llist) /\ UsedList' = next
      /\ UsedAnswer = lret /\ UsedAnswer' = lret'
  OBVIOUS
<1> HIDE DEF next
<1>2. ASSUME NEW i, NEW v, LP!Elements!Insert(i, v)
      PROVE  Used!Insert(i, v)
  BY <1>1, <1>2 DEF next, LP!Elements!Insert, Used!Insert, LP!Elements!Returns, Used!Returns,
         LP!Elements!Fails, Used!Fails, LP!Elements!OutOfMemory, Used!OutOfMemory, LP!Elements!InsertAt,
         Used!InsertAt
<1>3. ASSUME NEW i, LP!Elements!PopAt(i)
      PROVE  Used!PopAt(i)
  BY <1>1, <1>3 DEF next, LP!Elements!PopAt, Used!PopAt, LP!Elements!Returns, Used!Returns,
         LP!Elements!Fails, Used!Fails, LP!Elements!RemoveAt, Used!RemoveAt
<1>4. ASSUME NEW i, LP!Elements!Get(i)
      PROVE  Used!Get(i)
  BY <1>1, <1>4 DEF next, LP!Elements!Get, Used!Get, LP!Elements!Returns, Used!Returns
<1>5. ASSUME NEW i, NEW v, LP!Elements!Set(i, v)
      PROVE  Used!Set(i, v)
  BY <1>1, <1>5 DEF next, LP!Elements!Set, Used!Set, LP!Elements!Returns, Used!Returns,
         LP!Elements!Fails, Used!Fails
<1>6. ASSUME NEW v, LP!Elements!PushFront(v) \/ LP!Elements!PushBack(v)
      PROVE  Used!PushFront(v) \/ Used!PushBack(v)
  BY <1>1, <1>2, <1>6 DEF LP!Elements!PushFront, Used!PushFront, LP!Elements!PushBack, Used!PushBack
<1>7. \A s : LP!Elements!Ascending(s) <=> Used!Ascending(s)
  BY DEF LP!Elements!Ascending, Used!Ascending
<1>8. ASSUME NEW v, LP!Elements!AddSort(v)
      PROVE  Used!AddSort(v)
  BY <1>1, <1>2, <1>7, <1>8 DEF next, LP!Elements!AddSort, Used!AddSort
<1>9. ASSUME LP!Elements!PopFront \/ LP!Elements!PopBack
      PROVE  Used!PopFront \/ Used!PopBack
  BY <1>1, <1>3, <1>9 DEF LP!Elements!PopFront, Used!PopFront, LP!Elements!PopBack, Used!PopBack
<1>10. ASSUME LP!Elements!Sort
       PROVE  Used!Sort
  <2>1. \A s, t : LP!Elements!Rearranged(s, t) <=> Used!Rearranged(s, t)
    BY DEF LP!Elements!Rearranged, Used!Rearranged, LP!Elements!Places, Used!Places,
           LP!Elements!ToSet, Used!ToSet, LP!Elements!Cardinality, Used!Cardinality,
           LP!Elements!IsFiniteSet, Used!IsFiniteSet
  <2>2. QED
    BY <1>1, <1>7, <1>10, <2>1 DEF next, LP!Elements!Sort, Used!Sort, LP!Elements!Returns,
           Used!Returns, LP!Elements!Fails, Used!Fails, LP!Elements!OutOfMemory, Used!OutOfMemory
<1>11. ASSUME LP!Elements!ReverseAll
       PROVE  Used!ReverseAll
  BY <1>1, <1>11 DEF next, LP!Elements!ReverseAll, Used!ReverseAll, LP!Elements!Returns, Used!Returns,
         LP!Elements!Fails, Used!Fails, LP!Elements!OutOfMemory, Used!OutOfMemory, LP!Elements!Reverse,
         Used!Reverse
<1>12. ASSUME LP!Elements!Clear
       PROVE  Used!Clear
  BY <1>1, <1>12 DEF next, LP!Elements!Clear, Used!Clear
<1>13. CASE UNCHANGED LP!Elements!vars
  BY <1>1, <1>13 DEF next, LP!Elements!vars, Used!vars
<1>14. CASE LP!Elements!Next
  <2>1. Elem \subseteq Val \cup Elem /\ 0 .. ListMax \subseteq 0 .. DequeMax
    BY ContainerNumbers
  <2>2. CASE \E i \in 0 .. ListMax : \/ LP!Elements!PopAt(i) \/ LP!Elements!Get(i)
                              \/ \E v \in Elem : LP!Elements!Insert(i, v) \/ LP!Elements!Set(i, v)
    <3>1. \E i \in 0 .. DequeMax : \/ Used!PopAt(i) \/ Used!Get(i)
                              \/ \E v \in Val \cup Elem : Used!Insert(i, v) \/ Used!Set(i, v)
      BY <1>2, <1>3, <1>4, <1>5, <2>1, <2>2
    <3>2. QED
      BY <3>1, Zenon DEF Used!Next
  <2>3. CASE \E v \in Elem : LP!Elements!PushFront(v) \/ LP!Elements!PushBack(v) \/ LP!Elements!AddSort(v)
    <3>1. \E v \in Val \cup Elem : Used!PushFront(v) \/ Used!PushBack(v) \/ Used!AddSort(v)
      BY <1>6, <1>8, <2>1, <2>3
    <3>2. QED
      BY <3>1, Zenon DEF Used!Next
  <2>4. CASE \/ LP!Elements!PopFront \/ LP!Elements!PopBack
             \/ LP!Elements!Sort \/ LP!Elements!ReverseAll \/ LP!Elements!Clear
    BY <1>9, <1>10, <1>11, <1>12, <2>4, Zenon DEF Used!Next
  <2>5. QED
    BY <1>14, <2>2, <2>3, <2>4, Zenon DEF LP!Elements!Next
<1>15. QED
  BY <1>13, <1>14

\* A step of the sequence that the array list is.
LEMMA AListUsed ==
  ASSUME ListMax <= DequeMax, UsedList = LP!A!Content(alist), UsedAnswer = aret,
         UsedList' = LP!A!Content(alist)', UsedAnswer' = aret',
         [LP!A!Elements!Next]_(LP!A!Elements!vars)
  PROVE  [Used!Next]_(Used!vars)
<1> DEFINE next == LP!A!Content(alist)'
<1>1. /\ UsedList = LP!A!Content(alist) /\ UsedList' = next
      /\ UsedAnswer = aret /\ UsedAnswer' = aret'
  OBVIOUS
<1> HIDE DEF next
<1>2. ASSUME NEW i, NEW v, LP!A!Elements!Insert(i, v)
      PROVE  Used!Insert(i, v)
  BY <1>1, <1>2 DEF next, LP!A!Elements!Insert, Used!Insert, LP!A!Elements!Returns, Used!Returns,
         LP!A!Elements!Fails, Used!Fails, LP!A!Elements!OutOfMemory, Used!OutOfMemory,
         LP!A!Elements!InsertAt, Used!InsertAt
<1>3. ASSUME NEW i, LP!A!Elements!PopAt(i)
      PROVE  Used!PopAt(i)
  BY <1>1, <1>3 DEF next, LP!A!Elements!PopAt, Used!PopAt, LP!A!Elements!Returns, Used!Returns,
         LP!A!Elements!Fails, Used!Fails, LP!A!Elements!RemoveAt, Used!RemoveAt
<1>4. ASSUME NEW i, LP!A!Elements!Get(i)
      PROVE  Used!Get(i)
  BY <1>1, <1>4 DEF next, LP!A!Elements!Get, Used!Get, LP!A!Elements!Returns, Used!Returns
<1>5. ASSUME NEW i, NEW v, LP!A!Elements!Set(i, v)
      PROVE  Used!Set(i, v)
  BY <1>1, <1>5 DEF next, LP!A!Elements!Set, Used!Set, LP!A!Elements!Returns, Used!Returns,
         LP!A!Elements!Fails, Used!Fails
<1>6. ASSUME NEW v, LP!A!Elements!PushFront(v) \/ LP!A!Elements!PushBack(v)
      PROVE  Used!PushFront(v) \/ Used!PushBack(v)
  BY <1>1, <1>2, <1>6 DEF LP!A!Elements!PushFront, Used!PushFront, LP!A!Elements!PushBack, Used!PushBack
<1>7. \A s : LP!A!Elements!Ascending(s) <=> Used!Ascending(s)
  BY DEF LP!A!Elements!Ascending, Used!Ascending
<1>8. ASSUME NEW v, LP!A!Elements!AddSort(v)
      PROVE  Used!AddSort(v)
  BY <1>1, <1>2, <1>7, <1>8 DEF next, LP!A!Elements!AddSort, Used!AddSort
<1>9. ASSUME LP!A!Elements!PopFront \/ LP!A!Elements!PopBack
      PROVE  Used!PopFront \/ Used!PopBack
  BY <1>1, <1>3, <1>9 DEF LP!A!Elements!PopFront, Used!PopFront, LP!A!Elements!PopBack, Used!PopBack
<1>10. ASSUME LP!A!Elements!Sort
       PROVE  Used!Sort
  <2>1. \A s, t : LP!A!Elements!Rearranged(s, t) <=> Used!Rearranged(s, t)
    BY DEF LP!A!Elements!Rearranged, Used!Rearranged, LP!A!Elements!Places, Used!Places,
           LP!A!Elements!ToSet, Used!ToSet, LP!A!Elements!Cardinality, Used!Cardinality,
           LP!A!Elements!IsFiniteSet, Used!IsFiniteSet
  <2>2. QED
    BY <1>1, <1>7, <1>10, <2>1 DEF next, LP!A!Elements!Sort, Used!Sort, LP!A!Elements!Returns,
           Used!Returns, LP!A!Elements!Fails, Used!Fails, LP!A!Elements!OutOfMemory, Used!OutOfMemory
<1>11. ASSUME LP!A!Elements!ReverseAll
       PROVE  Used!ReverseAll
  BY <1>1, <1>11 DEF next, LP!A!Elements!ReverseAll, Used!ReverseAll, LP!A!Elements!Returns,
         Used!Returns, LP!A!Elements!Fails, Used!Fails, LP!A!Elements!OutOfMemory, Used!OutOfMemory,
         LP!A!Elements!Reverse, Used!Reverse
<1>12. ASSUME LP!A!Elements!Clear
       PROVE  Used!Clear
  BY <1>1, <1>12 DEF next, LP!A!Elements!Clear, Used!Clear
<1>13. CASE UNCHANGED LP!A!Elements!vars
  BY <1>1, <1>13 DEF next, LP!A!Elements!vars, Used!vars
<1>14. CASE LP!A!Elements!Next
  <2>1. Elem \subseteq Val \cup Elem /\ 0 .. ListMax \subseteq 0 .. DequeMax
    BY ContainerNumbers
  <2>2. CASE \E i \in 0 .. ListMax : \/ LP!A!Elements!PopAt(i) \/ LP!A!Elements!Get(i)
                              \/ \E v \in Elem : LP!A!Elements!Insert(i, v) \/ LP!A!Elements!Set(i, v)
    <3>1. \E i \in 0 .. DequeMax : \/ Used!PopAt(i) \/ Used!Get(i)
                              \/ \E v \in Val \cup Elem : Used!Insert(i, v) \/ Used!Set(i, v)
      BY <1>2, <1>3, <1>4, <1>5, <2>1, <2>2
    <3>2. QED
      BY <3>1, Zenon DEF Used!Next
  <2>3. CASE \E v \in Elem : LP!A!Elements!PushFront(v) \/ LP!A!Elements!PushBack(v) \/ LP!A!Elements!AddSort(v)
    <3>1. \E v \in Val \cup Elem : Used!PushFront(v) \/ Used!PushBack(v) \/ Used!AddSort(v)
      BY <1>6, <1>8, <2>1, <2>3
    <3>2. QED
      BY <3>1, Zenon DEF Used!Next
  <2>4. CASE \/ LP!A!Elements!PopFront \/ LP!A!Elements!PopBack
             \/ LP!A!Elements!Sort \/ LP!A!Elements!ReverseAll \/ LP!A!Elements!Clear
    BY <1>9, <1>10, <1>11, <1>12, <2>4, Zenon DEF Used!Next
  <2>5. QED
    BY <1>14, <2>2, <2>3, <2>4, Zenon DEF LP!A!Elements!Next
<1>15. QED
  BY <1>13, <1>14

\* A step of the container that is used is a step of a sequence.
LEMMA UsedSteps ==
  ASSUME ListMax <= DequeMax, [MCNext]_MCVars,
         [QP!Elements!Next]_(QP!Elements!vars), [LP!Elements!Next]_(LP!Elements!vars),
         [LP!A!Elements!Next]_(LP!A!Elements!vars)
  PROVE  [Used!Next]_(Used!vars)
<1>0. /\ \A d : QP!Content(d) = Q!Content(d)
      /\ \A l : LP!Content(l) = L!Content(l)
      /\ \A l : LP!A!Content(l) = A!Content(l)
  BY DequeContentBoth, LListContentBoth, AListContentBoth
<1>1. which' = which
  BY DEF MCNext, MCVars
<1>2. CASE which = "LList"
  <2>1. /\ UsedList = LP!Content(llist) /\ UsedAnswer = lret
        /\ UsedList' = LP!Content(llist)' /\ UsedAnswer' = lret'
    BY <1>0, <1>1, <1>2 DEF UsedList, UsedAnswer
  <2>2. QED
    BY <2>1, LListUsed
<1>3. CASE which = "AList"
  <2>1. /\ UsedList = LP!A!Content(alist) /\ UsedAnswer = aret
        /\ UsedList' = LP!A!Content(alist)' /\ UsedAnswer' = aret'
    BY <1>0, <1>1, <1>3 DEF UsedList, UsedAnswer
  <2>2. QED
    BY <2>1, AListUsed
<1>4. CASE which \notin {"LList", "AList"}
  <2>1. /\ UsedList = QP!Content(deque) /\ UsedAnswer = dequeRet
        /\ UsedList' = QP!Content(deque)' /\ UsedAnswer' = dequeRet'
    BY <1>0, <1>1, <1>4 DEF UsedList, UsedAnswer
  <2>2. QED
    BY <2>1, DequeUsed
<1>5. QED
  BY <1>2, <1>3, <1>4

\* The container that is used starts empty.
LEMMA UsedStarts ==
  ASSUME QP!Elements!Init, LP!Elements!Init, LP!A!Elements!Init
  PROVE  Used!Init
<1>1. /\ \A d : QP!Content(d) = Q!Content(d)
      /\ \A l : LP!Content(l) = L!Content(l)
      /\ \A l : LP!A!Content(l) = A!Content(l)
  BY DequeContentBoth, LListContentBoth, AListContentBoth
<1>2. /\ Q!Content(deque) = << >> /\ dequeRet = [ok |-> FALSE, out |-> NoVal]
      /\ L!Content(llist) = << >> /\ lret = [ok |-> FALSE, out |-> NoVal]
      /\ A!Content(alist) = << >> /\ aret = [ok |-> FALSE, out |-> NoVal]
  BY <1>1 DEF QP!Elements!Init, LP!Elements!Init, LP!A!Elements!Init
<1>3. UsedList = << >>
  BY <1>2 DEF UsedList
<1>4. UsedAnswer = [ok |-> FALSE, out |-> NoVal]
  BY <1>2 DEF UsedAnswer
<1>5. QED
  BY <1>3, <1>4 DEF Used!Init

\* Whichever of the deque, the linked list and the array list is used, its clients
\* see a sequence.
THEOREM ContainersAreSequences ==
  ASSUME DequeMayFail \subseteq {"temp"}, ~Shrinks, ListMax <= DequeMax
  PROVE  MCSpec => SequenceSpec
<1>1. QP!Spec => QP!Elements!Spec
  <2>1. QP!NeverLacks
    BY DEF QP!NeverLacks
  <2>2. QP!Spec => QP!ListSpec
    BY ContainerAssumptions, <2>1, QP!DequeIsSequence
  <2>3. QED
    BY <2>2 DEF QP!ListSpec
<1>2. LP!Spec => LP!Elements!Spec
  <2>1. LP!Spec => LP!ListSpec
    BY ContainerAssumptions, LP!LListIsSequence
  <2>2. QED
    BY <2>1 DEF LP!ListSpec
<1>3. LP!A!Spec => LP!A!Elements!Spec
  <2>1. LP!A!Spec => LP!A!ListSpec
    BY ContainerAssumptions, LP!AListIsSequence
  <2>2. QED
    BY <2>1 DEF LP!A!ListSpec
<1>4. QP!Elements!Init /\ LP!Elements!Init /\ LP!A!Elements!Init => Used!Init
  BY UsedStarts
<1>5. /\ [MCNext]_MCVars
      /\ [QP!Elements!Next]_(QP!Elements!vars)
      /\ [LP!Elements!Next]_(LP!Elements!vars)
      /\ [LP!A!Elements!Next]_(LP!A!Elements!vars)
      => [Used!Next]_(Used!vars)
  BY UsedSteps
<1>6. QED
  BY <1>1, <1>2, <1>3, <1>4, <1>5, ContainerSteps, PTL
     DEF MCSpec, SequenceSpec, Used!Spec, QP!Elements!Spec, LP!Elements!Spec, LP!A!Elements!Spec
=============================================================================
