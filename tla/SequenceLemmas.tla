--------------------------- MODULE SequenceLemmas ---------------------------
(***************************************************************************)
(* What FlattenSeq and a sum over a sequence compute: for the empty        *)
(* sequence, one element more, and two sequences in a row.  Both are       *)
(* defined by recursion.  That the recursive functions exist, and that     *)
(* they do not depend on the sequence beyond the part they are taken of,   *)
(* is shown by induction, with a set in place of a predicate.              *)
(*                                                                         *)
(* What InsertAt and RemoveAt do, some arithmetic, and that the quicksort  *)
(* of Sorting sorts and its binary search finds.                           *)
(***************************************************************************)
EXTENDS Integers, Sequences, FiniteSets, FiniteSetsExt, SequencesExt, Sorting,
        FiniteSetTheorems, SequenceTheorems, WellFoundedInduction, TLAPS

\* A set that holds 0 and the successor of each number in it holds all numbers:
\* the segment of a smallest number outside would be minimal for inclusion.
LEMMA SetInduction ==
  ASSUME NEW T, 0 \in T, \A n \in Nat : n \in T => n + 1 \in T
  PROVE  \A n \in Nat : n \in T
<1> SUFFICES ASSUME NEW m \in Nat, m \notin T
             PROVE  FALSE
  OBVIOUS
<1> DEFINE Segments == {1 .. k : k \in Nat \ T}
           R == StrictSubsetOrdering(Nat)
<1>1. IsWellFoundedOn(R, FiniteSubsetsOf(Nat))
  BY FS_StrictSubsetOrderingWellFounded
<1>2. Segments \subseteq FiniteSubsetsOf(Nat) /\ 1 .. m \in Segments
  <2>1. \A k \in Nat : IsFiniteSet(1 .. k)
    BY FS_Interval
  <2>2. QED
    BY <2>1 DEF FiniteSubsetsOf
<1> HIDE DEF R, Segments
<1>3. PICK x \in Segments : \A y \in Segments : ~ (<<y, x>> \in R)
  BY <1>1, <1>2, WFMin
<1>4. PICK k \in Nat \ T : x = 1 .. k
  BY DEF Segments
<1>5. k - 1 \in Nat \ T /\ 1 .. k - 1 \in Segments
  BY <1>4 DEF Segments
<1>6. <<1 .. k - 1, 1 .. k>> \in R
  <2>1. /\ k \in 1 .. k /\ k \notin 1 .. k - 1 /\ 1 .. k - 1 \subseteq 1 .. k
        /\ 1 .. k \in SUBSET Nat /\ 1 .. k - 1 \in SUBSET Nat
    BY <1>4, <1>5
  <2>2. QED
    BY <2>1, Zenon DEF R, StrictSubsetOrdering
<1>7. QED
  BY <1>3, <1>4, <1>5, <1>6

\* Sequences in a row, and the empty one among them.
LEMMA CatAssoc ==
  ASSUME NEW S, NEW s \in Seq(S), NEW t \in Seq(S), NEW u \in Seq(S)
  PROVE  (s \o t) \o u = s \o (t \o u) /\ s \o t \in Seq(S)
OBVIOUS

\* The empty sequence adds nothing.
LEMMA CatNone ==
  ASSUME NEW S, NEW s \in Seq(S)
  PROVE  s \o << >> = s /\ << >> \o s = s /\ << >> \in Seq(S)
OBVIOUS
-----------------------------------------------------------------------------
(***************************************************************************)
(* FlattenSeq.                                                             *)
(***************************************************************************)
\* What its recursive function is, on sequences of up to n.
Flattens(f, seqs, n) ==
  f = [i \in 1 .. n |-> IF i = 1 THEN seqs[i] ELSE f[i - 1] \o seqs[i]]

\* Its value at one place.
LEMMA FlattensAt ==
  ASSUME NEW f, NEW seqs, NEW n \in Nat, Flattens(f, seqs, n), NEW i \in 1 .. n
  PROVE  /\ i = 1 => f[i] = seqs[i]
         /\ i # 1 => f[i] = f[i - 1] \o seqs[i]
BY Zenon DEF Flattens

\* There is one.
LEMMA FlattenExists ==
  ASSUME NEW S, NEW seqs \in Seq(Seq(S))
  PROVE  \A n \in 0 .. Len(seqs) :
           \E f \in [1 .. n -> Seq(S)] : Flattens(f, seqs, n)
<1> DEFINE T == {n \in Nat : n <= Len(seqs) =>
                   \E f \in [1 .. n -> Seq(S)] : Flattens(f, seqs, n)}
<1>1. 0 \in T
  <2> DEFINE f == [i \in 1 .. 0 |-> << >>]
  <2>1. f \in [1 .. 0 -> Seq(S)] /\ Flattens(f, seqs, 0)
    BY DEF Flattens
  <2>2. QED
    BY <2>1
<1>2. ASSUME NEW n \in Nat, n \in T
      PROVE  n + 1 \in T
  <2> SUFFICES ASSUME n + 1 <= Len(seqs)
               PROVE  \E f \in [1 .. n + 1 -> Seq(S)] : Flattens(f, seqs, n + 1)
    OBVIOUS
  <2>1. PICK f \in [1 .. n -> Seq(S)] : Flattens(f, seqs, n)
    BY <1>2
  <2> DEFINE g == [i \in 1 .. n + 1 |-> IF i \in 1 .. n THEN f[i]
                     ELSE IF i = 1 THEN seqs[i] ELSE f[n] \o seqs[i]]
  <2>2. seqs[n + 1] \in Seq(S)
    OBVIOUS
  <2>3. g \in [1 .. n + 1 -> Seq(S)]
    BY <2>2
  <2>4. ASSUME NEW i \in 1 .. n + 1
        PROVE  g[i] = IF i = 1 THEN seqs[i] ELSE g[i - 1] \o seqs[i]
    <3>1. CASE i \in 1 .. n
      <4>1. (i = 1 => f[i] = seqs[i]) /\ (i # 1 => f[i] = f[i - 1] \o seqs[i])
        BY <2>1, <3>1, FlattensAt, Zenon
      <4>2. g[i] = f[i] /\ (i # 1 => g[i - 1] = f[i - 1])
        BY <3>1
      <4>3. QED
        BY <4>1, <4>2
    <3>2. CASE i = n + 1
      BY <3>2
    <3>3. QED
      BY <3>1, <3>2
  <2>5. Flattens(g, seqs, n + 1)
    BY <2>4 DEF Flattens
  <2>6. QED
    BY <2>3, <2>5
<1> HIDE DEF T
<1>3. \A n \in Nat : n \in T
  BY <1>1, <1>2, SetInduction
<1>4. QED
  BY <1>3 DEF T

\* Two sequences that start alike.
Agree(s, t, n) == \A i \in 1 .. n : s[i] = t[i]

\* The function depends on no more of the sequence than it is asked for.
LEMMA FlattenUnique ==
  ASSUME NEW m \in Nat, NEW n \in Nat, m <= n,
         NEW seqs, NEW f, Flattens(f, seqs, m), NEW more, NEW g, Flattens(g, more, n),
         Agree(seqs, more, m)
  PROVE  Agree(f, g, m)
<1> DEFINE T == {i \in Nat : i \in 1 .. m => f[i] = g[i]}
<1>1. 0 \in T
  OBVIOUS
<1>2. ASSUME NEW i \in Nat, i \in T
      PROVE  i + 1 \in T
  <2> SUFFICES ASSUME i + 1 \in 1 .. m
               PROVE  f[i + 1] = g[i + 1]
    OBVIOUS
  <2> DEFINE j == i + 1
  <2>0. j \in 1 .. m /\ j \in 1 .. n
    OBVIOUS
  <2>1. (j = 1 => f[j] = seqs[j]) /\ (j # 1 => f[j] = f[j - 1] \o seqs[j])
    <3> HIDE DEF j
    <3> QED
      BY <2>0, FlattensAt, Zenon
  <2>2. (j = 1 => g[j] = more[j]) /\ (j # 1 => g[j] = g[j - 1] \o more[j])
    <3> HIDE DEF j
    <3> QED
      BY <2>0, FlattensAt, Zenon
  <2>3. seqs[j] = more[j] /\ j - 1 = i
    BY DEF Agree
  <2>4. CASE j = 1
    BY <2>1, <2>2, <2>3, <2>4
  <2>5. CASE j # 1
    <3>1. f[i] = g[i]
      BY <1>2, <2>5
    <3>2. QED
      BY <2>1, <2>2, <2>3, <2>5, <3>1, Zenon
  <2>6. QED
    BY <2>4, <2>5
<1> HIDE DEF T
<1>3. \A i \in Nat : i \in T
  BY <1>1, <1>2, SetInduction
<1>4. QED
  BY <1>3 DEF T, Agree

\* FlattenSeq takes the value at the end.
LEMMA FlattenIs ==
  ASSUME NEW S, NEW seqs \in Seq(Seq(S))
  PROVE  \E f \in [1 .. Len(seqs) -> Seq(S)] :
           /\ Flattens(f, seqs, Len(seqs))
           /\ FlattenSeq(seqs) = IF Len(seqs) = 0 THEN << >> ELSE f[Len(seqs)]
<1> DEFINE n == Len(seqs)
           flatten[i \in 1 .. n] == IF i = 1 THEN seqs[i] ELSE flatten[i - 1] \o seqs[i]
<1>1. n \in Nat /\ (n = 0 => seqs = << >>)
  OBVIOUS
<1>2. FlattenSeq(seqs) = IF n = 0 THEN seqs ELSE flatten[n]
  BY Zenon DEF FlattenSeq
<1>3. flatten = CHOOSE f : Flattens(f, seqs, n)
  BY Zenon DEF Flattens
<1> HIDE DEF flatten
<1>4. PICK f \in [1 .. n -> Seq(S)] : Flattens(f, seqs, n)
  BY <1>1, FlattenExists
<1>5. Flattens(flatten, seqs, n)
  BY <1>3, <1>4, Zenon
<1>6. \A i \in 1 .. n : flatten[i] = f[i]
  <2>1. Agree(seqs, seqs, n) /\ n <= n
    BY <1>1 DEF Agree
  <2>2. Agree(flatten, f, n)
    BY <1>1, <1>4, <1>5, <2>1, FlattenUnique, Zenon
  <2>3. QED
    BY <2>2 DEF Agree
<1>7. FlattenSeq(seqs) = IF n = 0 THEN << >> ELSE f[n]
  <2>1. n # 0 => n \in 1 .. n
    BY <1>1
  <2>2. QED
    BY <1>1, <1>2, <1>6, <2>1
<1>8. QED
  BY <1>4, <1>7

\* Nothing in a row is nothing.
LEMMA FlattenNone == FlattenSeq(<< >>) = << >>
BY DEF FlattenSeq

\* It flattens to a sequence of what the sequences hold.
LEMMA FlattenType ==
  ASSUME NEW S, NEW seqs \in Seq(Seq(S))
  PROVE  FlattenSeq(seqs) \in Seq(S)
<1>1. PICK f \in [1 .. Len(seqs) -> Seq(S)] :
        FlattenSeq(seqs) = IF Len(seqs) = 0 THEN << >> ELSE f[Len(seqs)]
  BY FlattenIs
<1>2. QED
  BY <1>1, SMTT(30)

\* One sequence more at the end.
LEMMA FlattenAppend ==
  ASSUME NEW S, NEW seqs \in Seq(Seq(S)), NEW s \in Seq(S)
  PROVE  FlattenSeq(Append(seqs, s)) = FlattenSeq(seqs) \o s
<1> DEFINE n == Len(seqs)
           k == n + 1
           more == Append(seqs, s)
<1>1. /\ n \in Nat /\ k \in Nat /\ k = n + 1 /\ n <= k /\ k \in 1 .. k
      /\ more \in Seq(Seq(S)) /\ Len(more) = k
      /\ more[k] = s /\ \A i \in 1 .. n : seqs[i] = more[i]
  OBVIOUS
<1> HIDE DEF k, more
<1>2. PICK f \in [1 .. n -> Seq(S)] :
        Flattens(f, seqs, n) /\ FlattenSeq(seqs) = IF n = 0 THEN << >> ELSE f[n]
  BY FlattenIs
<1> HIDE DEF n
<1>3. PICK g \in [1 .. k -> Seq(S)] :
        Flattens(g, more, k) /\ FlattenSeq(more) = IF k = 0 THEN << >> ELSE g[k]
  BY <1>1, FlattenIs
<1>4. \A i \in 1 .. n : f[i] = g[i]
  <2>1. Flattens(f, seqs, n) /\ Flattens(g, more, k)
    BY <1>2, <1>3
  <2>2. n \in Nat /\ k \in Nat /\ n <= k /\ Agree(seqs, more, n)
    BY <1>1 DEF Agree
  <2>3. Agree(f, g, n)
    BY <2>1, <2>2, FlattenUnique, Zenon
  <2>4. QED
    BY <2>3 DEF Agree
<1>5. (k = 1 => g[k] = more[k]) /\ (k # 1 => g[k] = g[k - 1] \o more[k])
  BY <1>1, <1>3, FlattensAt, ZenonT(60)
<1>6. CASE n = 0
  <2>1. FlattenSeq(more) = s /\ FlattenSeq(seqs) = << >>
    BY <1>1, <1>2, <1>3, <1>5, <1>6
  <2>2. QED
    BY <2>1 DEF more
<1>7. CASE n # 0
  <2>1. k - 1 = n /\ k # 1 /\ n \in 1 .. n
    BY <1>1, <1>7
  <2>2. g[k] = g[n] \o s /\ g[n] = f[n] /\ FlattenSeq(seqs) = f[n]
    BY <1>1, <1>2, <1>4, <1>5, <1>7, <2>1
  <2>3. QED
    BY <1>1, <1>3, <2>1, <2>2 DEF more
<1>8. QED
  BY <1>6, <1>7

\* One sequence is flattened to itself.
LEMMA FlattenOne ==
  ASSUME NEW S, NEW s \in Seq(S)
  PROVE  FlattenSeq(<<s>>) = s
<1>1. << >> \in Seq(Seq(S)) /\ Append(<< >>, s) = <<s>> /\ << >> \o s = s
  OBVIOUS
<1>2. FlattenSeq(Append(<< >>, s)) = FlattenSeq(<< >>) \o s
  BY <1>1, FlattenAppend
<1>3. QED
  BY <1>1, <1>2, FlattenNone

\* A sequence is what comes before its last element, and that.
LEMMA LastApart ==
  ASSUME NEW S, NEW n \in Nat, NEW s \in Seq(S), Len(s) = n + 1
  PROVE  /\ SubSeq(s, 1, n) \in Seq(S) /\ Len(SubSeq(s, 1, n)) = n
         /\ s[n + 1] \in S
         /\ s = Append(SubSeq(s, 1, n), s[n + 1])
<1> DEFINE r == SubSeq(s, 1, n)
           e == s[n + 1]
           t == Append(r, e)
<1>1. r \in Seq(S) /\ Len(r) = n /\ e \in S /\ \A i \in 1 .. n : r[i] = s[i]
  OBVIOUS
<1> HIDE DEF r
<1>2. t \in Seq(S) /\ Len(t) = n + 1 /\ t[n + 1] = e /\ \A i \in 1 .. n : t[i] = r[i]
  BY <1>1
<1> HIDE DEF t
<1>3. \A i \in 1 .. n + 1 : t[i] = s[i]
  <2>1. \A i \in 1 .. n + 1 : i = n + 1 \/ i \in 1 .. n
    OBVIOUS
  <2>2. QED
    BY <1>1, <1>2, <2>1
<1>4. t = s
  BY <1>2, <1>3, SeqEqual
<1>5. QED
  BY <1>1, <1>4 DEF r, t

\* When one sequence is two others in a row.
LEMMA IsCat ==
  ASSUME NEW S, NEW s \in Seq(S), NEW t \in Seq(S), NEW u \in Seq(S),
         Len(u) = Len(s) + Len(t),
         \A i \in 1 .. Len(s) : u[i] = s[i],
         \A i \in 1 .. Len(t) : u[Len(s) + i] = t[i]
  PROVE  u = s \o t
<1>1. /\ s \o t \in Seq(S) /\ Len(s \o t) = Len(u)
      /\ \A i \in 1 .. Len(u) : (s \o t)[i] = IF i <= Len(s) THEN s[i] ELSE t[i - Len(s)]
  BY ConcatProperties
<1>2. ASSUME NEW i \in 1 .. Len(u)
      PROVE  (s \o t)[i] = u[i]
  <2>1. CASE i <= Len(s)
    <3>1. i \in 1 .. Len(s)
      BY <2>1
    <3>2. QED
      BY <1>1, <2>1, <3>1
  <2>2. CASE ~ (i <= Len(s))
    <3>1. i - Len(s) \in 1 .. Len(t) /\ i = Len(s) + (i - Len(s))
      BY <2>2
    <3>2. QED
      BY <1>1, <2>2, <3>1
  <2>3. QED
    BY <2>1, <2>2
<1>3. QED
  BY <1>1, <1>2, SeqEqual

\* Two in a row: what is flattened apart is put together.
LEMMA FlattenCat ==
  ASSUME NEW S, NEW p \in Seq(Seq(S)), NEW q \in Seq(Seq(S))
  PROVE  FlattenSeq(p \o q) = FlattenSeq(p) \o FlattenSeq(q)
<1> DEFINE T == {n \in Nat : \A r \in Seq(Seq(S)) : Len(r) = n =>
                   FlattenSeq(p \o r) = FlattenSeq(p) \o FlattenSeq(r)}
<1>0. FlattenSeq(p) \in Seq(S)
  BY FlattenType
<1>1. 0 \in T
  <2> SUFFICES ASSUME NEW r \in Seq(Seq(S)), Len(r) = 0
               PROVE  FlattenSeq(p \o r) = FlattenSeq(p) \o FlattenSeq(r)
    OBVIOUS
  <2>1. r = << >> /\ p \o r = p
    OBVIOUS
  <2>2. FlattenSeq(r) = << >>
    BY <2>1, FlattenNone
  <2>3. QED
    BY <1>0, <2>1, <2>2
<1>2. ASSUME NEW n \in Nat, n \in T
      PROVE  n + 1 \in T
  <2> SUFFICES ASSUME NEW r \in Seq(Seq(S)), Len(r) = n + 1
               PROVE  FlattenSeq(p \o r) = FlattenSeq(p) \o FlattenSeq(r)
    OBVIOUS
  <2> DEFINE t == SubSeq(r, 1, n)
             e == r[n + 1]
  <2>1. t \in Seq(Seq(S)) /\ Len(t) = n /\ e \in Seq(S) /\ r = Append(t, e)
    BY LastApart
  <2> HIDE DEF t, e
  <2>2. FlattenSeq(p \o t) = FlattenSeq(p) \o FlattenSeq(t)
    BY <1>2, <2>1
  <2>3. p \o Append(t, e) = Append(p \o t, e) /\ p \o t \in Seq(Seq(S))
    BY <2>1
  <2>4. FlattenSeq(Append(p \o t, e)) = FlattenSeq(p \o t) \o e
    BY <2>1, <2>3, FlattenAppend
  <2>5. FlattenSeq(Append(t, e)) = FlattenSeq(t) \o e /\ FlattenSeq(t) \in Seq(S)
    BY <2>1, FlattenAppend, FlattenType
  <2> DEFINE a == FlattenSeq(p)
             b == FlattenSeq(t)
  <2>6. a \in Seq(S) /\ b \in Seq(S)
    BY <1>0, <2>5
  <2> HIDE DEF a, b
  <2>7. (a \o b) \o e = a \o (b \o e)
    BY <2>1, <2>6, ConcatAssociative, SMTT(30)
  <2>8. QED
    BY <2>1, <2>2, <2>3, <2>4, <2>5, <2>7 DEF a, b
<1> HIDE DEF T
<1>3. \A n \in Nat : n \in T
  BY <1>1, <1>2, SetInduction
<1>4. QED
  BY <1>3 DEF T
-----------------------------------------------------------------------------
(***************************************************************************)
(* The sum of a sequence of numbers.                                       *)
(***************************************************************************)
SumOf(s) == FoldLeft(LAMBDA n, k : n + k, 0, s)

\* What the recursive function of FoldLeft is then, on the indices up to n.
Sums(f, s, n) ==
  f = [z \in SUBSET (1 .. n) |-> IF z = {} THEN 0 ELSE f[z \ {Max(z)}] + s[Max(z)]]

HasSums(s, n) == \E f \in [SUBSET (1 .. n) -> Nat] : Sums(f, s, n)

\* The sum over nothing.
LEMMA SumsOfNone ==
  ASSUME NEW f, NEW s, NEW n \in Nat, Sums(f, s, n)
  PROVE  f[{}] = 0
<1>1. {} \in SUBSET (1 .. n)
  OBVIOUS
<1>2. QED
  BY <1>1, Zenon DEF Sums

\* What that says of a set and its greatest index.
SumsEach(f, s, n) ==
  \A z \in SUBSET (1 .. n), k \in 1 .. n :
    k \in z /\ Max(z) = k => f[z] = f[z \ {k}] + s[k]

\* The sum up to a place.
LEMMA SumsAt ==
  ASSUME NEW f, NEW s, NEW n \in Nat, Sums(f, s, n)
  PROVE  SumsEach(f, s, n)
<1>1. ASSUME NEW z \in SUBSET (1 .. n), z # {}
      PROVE  f[z] = f[z \ {Max(z)}] + s[Max(z)]
  BY <1>1, Zenon DEF Sums
<1>2. QED
  BY <1>1 DEF SumsEach

\* The largest number of an interval.
LEMMA MaxIsLast ==
  ASSUME NEW n \in Nat, NEW z \in SUBSET (1 .. n), n \in z
  PROVE  Max(z) = n
<1>1. \A x \in z : (\A y \in z : x >= y) <=> x = n
  OBVIOUS
<1>2. Max(z) \in z /\ \A y \in z : Max(z) >= y
  BY <1>1 DEF Max
<1>3. QED
  BY <1>1, <1>2

\* Every such set has a largest number.
LEMMA HasMax ==
  ASSUME NEW n \in Nat, NEW z \in SUBSET (1 .. n), z # {}
  PROVE  Max(z) \in z /\ \A x \in z : Max(z) >= x
<1> DEFINE Found(y) == Max(y) \in y /\ \A x \in y : Max(y) >= x
           T == {m \in Nat : \A y \in SUBSET (1 .. m) : y # {} => Found(y)}
<1>1. 0 \in T
  <2>1. \A y \in SUBSET (1 .. 0) : y = {}
    OBVIOUS
  <2>2. QED
    BY <2>1
<1>2. ASSUME NEW m \in Nat, m \in T
      PROVE  m + 1 \in T
  <2> SUFFICES ASSUME NEW y \in SUBSET (1 .. m + 1), y # {}
               PROVE  Found(y)
    OBVIOUS
  <2>1. CASE m + 1 \in y
    BY <2>1, MaxIsLast
  <2>2. CASE m + 1 \notin y
    <3>1. y \in SUBSET (1 .. m)
      BY <2>2
    <3>2. QED
      BY <1>2, <3>1
  <2>3. QED
    BY <2>1, <2>2
<1> HIDE DEF T
<1>3. n \in T
  BY <1>1, <1>2, SetInduction
<1>4. QED
  BY <1>3 DEF T

\* There is such a function.
LEMMA SumExists ==
  ASSUME NEW s \in Seq(Nat)
  PROVE  \A n \in 0 .. Len(s) : HasSums(s, n)
<1> DEFINE T == {n \in Nat : n <= Len(s) => HasSums(s, n)}
<1>1. 0 \in T
  <2> DEFINE f == [z \in SUBSET (1 .. 0) |-> 0]
  <2>1. f \in [SUBSET (1 .. 0) -> Nat]
    OBVIOUS
  <2>2. \A z \in SUBSET (1 .. 0) : z = {}
    OBVIOUS
  <2>3. Sums(f, s, 0)
    BY <2>2 DEF Sums
  <2>4. QED
    BY <2>1, <2>3, Zenon DEF HasSums
<1>2. ASSUME NEW n \in Nat, n \in T
      PROVE  n + 1 \in T
  <2> DEFINE k == n + 1
  <2> SUFFICES ASSUME k <= Len(s)
               PROVE  HasSums(s, k)
    OBVIOUS
  <2>0. HasSums(s, n)
    BY <1>2
  <2>1. PICK f \in [SUBSET (1 .. n) -> Nat] : Sums(f, s, n)
    BY <2>0, Zenon DEF HasSums
  <2> DEFINE g == [z \in SUBSET (1 .. k) |-> IF k \in z THEN f[z \ {k}] + s[k] ELSE f[z]]
  <2>2. s[k] \in Nat /\ k \in Nat
    <3>1. k \in Nat /\ k \in 1 .. Len(s)
      OBVIOUS
    <3> HIDE DEF k, T
    <3>2. QED
      BY <3>1
  <2>3. ASSUME NEW z \in SUBSET (1 .. k)
        PROVE  z \ {k} \in SUBSET (1 .. n) /\ (k \notin z => z \in SUBSET (1 .. n))
    OBVIOUS
  <2> HIDE DEF T, k
  <2>4. g \in [SUBSET (1 .. k) -> Nat]
    <3>1. ASSUME NEW z \in SUBSET (1 .. k)
          PROVE  (IF k \in z THEN f[z \ {k}] + s[k] ELSE f[z]) \in Nat
      <4>1. CASE k \in z
        <5>1. f[z \ {k}] \in Nat
          BY <2>3
        <5>2. QED
          BY <2>2, <4>1, <5>1
      <4>2. CASE k \notin z
        <5>1. f[z] \in Nat
          BY <2>3, <4>2
        <5>2. QED
          BY <4>2, <5>1
      <4>3. QED
        BY <4>1, <4>2
    <3>2. QED
      BY <3>1
  <2>5. ASSUME NEW z \in SUBSET (1 .. k)
        PROVE  g[z] = IF z = {} THEN 0 ELSE g[z \ {Max(z)}] + s[Max(z)]
    <3>1. CASE k \in z
      <4>1. Max(z) = k
        BY <2>2, <3>1, MaxIsLast
      <4>2. z \ {k} \in SUBSET (1 .. k) /\ k \notin z \ {k}
        OBVIOUS
      <4>3. g[z \ {k}] = f[z \ {k}] /\ g[z] = f[z \ {k}] + s[k]
        BY <3>1, <4>2
      <4>4. QED
        BY <3>1, <4>1, <4>3
    <3>2. CASE k \notin z
      <4>1. z \in SUBSET (1 .. n) /\ z \ {Max(z)} \in SUBSET (1 .. k) /\ k \notin z \ {Max(z)}
        BY <2>3, <3>2
      <4>2. g[z] = f[z] /\ g[z \ {Max(z)}] = f[z \ {Max(z)}]
        BY <3>2, <4>1
      <4>3. CASE z = {}
        <5>1. f[{}] = 0
          BY <2>1, SumsOfNone
        <5>2. QED
          BY <4>2, <4>3, <5>1
      <4>4. CASE z # {}
        <5>1. Max(z) \in z
          BY <4>1, <4>4, HasMax
        <5>2. f[z] = f[z \ {Max(z)}] + s[Max(z)]
          <6>1. SumsEach(f, s, n)
            BY <2>1, SumsAt, Zenon
          <6>2. QED
            BY <4>1, <5>1, <6>1 DEF SumsEach
        <5>3. QED
          BY <4>2, <4>4, <5>2
      <4>5. QED
        BY <4>3, <4>4
    <3>3. QED
      BY <3>1, <3>2
  <2> HIDE DEF g
  <2>6. g = [z \in SUBSET (1 .. k) |-> g[z]]
    BY <2>4
  <2>7. Sums(g, s, k)
    BY <2>5, <2>6 DEF Sums
  <2>8. QED
    BY <2>4, <2>7, Zenon DEF HasSums
<1> HIDE DEF T
<1>3. \A n \in Nat : n \in T
  BY <1>1, <1>2, SetInduction
<1>4. QED
  BY <1>3 DEF T

\* Two functions on sets of indices that are alike up to n.
AgreeOnSets(f, g, n) == \A z \in SUBSET (1 .. n) : f[z] = g[z]

\* There is but one.
LEMMA SumUnique ==
  ASSUME NEW m \in Nat, NEW n \in Nat, m <= n,
         NEW s, NEW f, Sums(f, s, m), NEW t, NEW g, Sums(g, t, n),
         Agree(s, t, m)
  PROVE  AgreeOnSets(f, g, m)
<1> DEFINE T == {i \in Nat : i <= m => AgreeOnSets(f, g, i)}
<1>1. 0 \in T
  <2>1. ASSUME NEW z \in SUBSET (1 .. 0)
        PROVE  f[z] = g[z]
    <3>1. z = {}
      OBVIOUS
    <3>2. f[{}] = 0 /\ g[{}] = 0
      BY SumsOfNone
    <3>3. QED
      BY <3>1, <3>2
  <2>2. QED
    BY <2>1 DEF AgreeOnSets
<1>2. ASSUME NEW i \in Nat, i \in T
      PROVE  i + 1 \in T
  <2> DEFINE j == i + 1
  <2> SUFFICES ASSUME j <= m
               PROVE  AgreeOnSets(f, g, j)
    OBVIOUS
  <2>1. ASSUME NEW z \in SUBSET (1 .. j)
        PROVE  f[z] = g[z]
    <3>1. AgreeOnSets(f, g, i)
      BY <1>2
    <3>2. CASE j \notin z
      <4>1. z \in SUBSET (1 .. i)
        BY <3>2
      <4>2. QED
        BY <3>1, <4>1, Zenon DEF AgreeOnSets
    <3>3. CASE j \in z
      <4>1. /\ z # {} /\ z \ {j} \in SUBSET (1 .. i)
            /\ z \in SUBSET (1 .. m) /\ z \in SUBSET (1 .. n)
            /\ j \in Nat /\ j \in 1 .. m /\ j \in 1 .. n
        BY <3>3
      <4>2. Max(z) = j
        BY <3>3, <4>1, MaxIsLast
      <4> HIDE DEF j
      <4>3. f[z] = f[z \ {j}] + s[j]
        BY <3>3, <4>1, <4>2, SumsAt DEF SumsEach
      <4>4. g[z] = g[z \ {j}] + t[j]
        BY <3>3, <4>1, <4>2, SumsAt DEF SumsEach
      <4>5. s[j] = t[j]
        BY <4>1, Zenon DEF Agree
      <4>6. f[z \ {j}] = g[z \ {j}]
        BY <3>1, <4>1, Zenon DEF AgreeOnSets
      <4>7. QED
        BY <4>3, <4>4, <4>5, <4>6
    <3>4. QED
      BY <3>2, <3>3
  <2>2. QED
    BY <2>1, Zenon DEF AgreeOnSets
<1> HIDE DEF T
<1>3. \A i \in Nat : i \in T
  BY <1>1, <1>2, SetInduction
<1>4. QED
  BY <1>3 DEF T

\* SumOf takes the value for all indices.
LEMMA SumIs ==
  ASSUME NEW s \in Seq(Nat)
  PROVE  \E f \in [SUBSET (1 .. Len(s)) -> Nat] :
           Sums(f, s, Len(s)) /\ SumOf(s) = f[1 .. Len(s)]
<1> DEFINE n == Len(s)
           iter[z \in SUBSET (DOMAIN s)] ==
             IF z = {} THEN 0 ELSE iter[z \ {Max(z)}] + s[Max(z)]
<1>1. n \in Nat /\ DOMAIN s = 1 .. n
  OBVIOUS
<1>2. SumOf(s) = iter[DOMAIN s]
  BY Zenon DEF SumOf, FoldLeft, MapThenFoldSet
<1>3. iter = CHOOSE f : Sums(f, s, n)
  BY <1>1, Zenon DEF Sums
<1> HIDE DEF iter, n
<1>4. PICK f \in [SUBSET (1 .. n) -> Nat] : Sums(f, s, n)
  <2>1. n \in 0 .. Len(s)
    BY DEF n
  <2>2. QED
    BY <2>1, SumExists, Zenon DEF HasSums
<1>5. Sums(iter, s, n)
  BY <1>3, <1>4, Zenon
<1>6. Agree(s, s, n) /\ n <= n
  BY <1>1 DEF Agree
<1>7. AgreeOnSets(iter, f, n)
  BY <1>1, <1>4, <1>5, <1>6, SumUnique, Zenon
<1>8. SumOf(s) = f[1 .. n]
  BY <1>1, <1>2, <1>7 DEF AgreeOnSets
<1>9. QED
  BY <1>4, <1>8 DEF n

\* Nothing adds up to nothing, and numbers to a number.
LEMMA SumNone == SumOf(<< >>) = 0
<1>1. << >> \in Seq(Nat) /\ Len(<< >>) = 0 /\ 0 \in Nat
  OBVIOUS
<1>2. PICK f \in [SUBSET (1 .. 0) -> Nat] :
        Sums(f, << >>, 0) /\ SumOf(<< >>) = f[1 .. 0]
  BY <1>1, SumIs
<1>3. 1 .. 0 = {} /\ 1 .. 0 \in SUBSET (1 .. 0)
  OBVIOUS
<1>4. f[1 .. 0] = 0
  BY <1>1, <1>2, <1>3, SumsOfNone
<1>5. QED
  BY <1>2, <1>4

\* A sum of numbers is a number.
LEMMA SumType ==
  ASSUME NEW s \in Seq(Nat)
  PROVE  SumOf(s) \in Nat
<1>1. PICK f \in [SUBSET (1 .. Len(s)) -> Nat] : SumOf(s) = f[1 .. Len(s)]
  BY SumIs
<1>2. 1 .. Len(s) \in SUBSET (1 .. Len(s))
  OBVIOUS
<1>3. QED
  BY <1>1, <1>2

\* One number more at the end.
LEMMA SumAppend ==
  ASSUME NEW s \in Seq(Nat), NEW e \in Nat
  PROVE  SumOf(Append(s, e)) = SumOf(s) + e
<1> DEFINE n == Len(s)
           k == n + 1
           t == Append(s, e)
<1>1. /\ n \in Nat /\ k \in Nat /\ k = n + 1 /\ n <= k /\ k \in 1 .. k
      /\ t \in Seq(Nat) /\ Len(t) = k
      /\ t[k] = e /\ \A i \in 1 .. n : s[i] = t[i]
  OBVIOUS
<1> HIDE DEF k, t
<1>2. PICK f \in [SUBSET (1 .. n) -> Nat] : Sums(f, s, n) /\ SumOf(s) = f[1 .. n]
  BY SumIs
<1> HIDE DEF n
<1>3. PICK g \in [SUBSET (1 .. k) -> Nat] : Sums(g, t, k) /\ SumOf(t) = g[1 .. k]
  BY <1>1, SumIs
<1>4. Agree(s, t, n)
  BY <1>1 DEF Agree
<1>5. AgreeOnSets(f, g, n)
  BY <1>1, <1>2, <1>3, <1>4, SumUnique, Zenon
<1>6. f[1 .. n] = g[1 .. n]
  BY <1>5 DEF AgreeOnSets
<1>7. g[1 .. k] = g[(1 .. k) \ {k}] + t[k]
  <2>1. 1 .. k \in SUBSET (1 .. k) /\ 1 .. k # {}
    BY <1>1
  <2>2. Max(1 .. k) = k
    BY <1>1, <2>1, MaxIsLast
  <2>3. SumsEach(g, t, k)
    BY <1>1, <1>3, SumsAt, Zenon
  <2>4. QED
    BY <1>1, <2>1, <2>2, <2>3 DEF SumsEach
<1>8. (1 .. k) \ {k} = 1 .. n
  BY <1>1
<1>9. SumOf(t) = SumOf(s) + e
  BY <1>1, <1>2, <1>3, <1>6, <1>7, <1>8
<1>10. QED
  BY <1>9 DEF t

\* Two sequences in a row.
LEMMA SumCat ==
  ASSUME NEW p \in Seq(Nat), NEW q \in Seq(Nat)
  PROVE  SumOf(p \o q) = SumOf(p) + SumOf(q)
<1> DEFINE T == {n \in Nat : \A r \in Seq(Nat) : Len(r) = n =>
                   SumOf(p \o r) = SumOf(p) + SumOf(r)}
<1>0. SumOf(p) \in Nat
  BY SumType
<1>1. 0 \in T
  <2> SUFFICES ASSUME NEW r \in Seq(Nat), Len(r) = 0
               PROVE  SumOf(p \o r) = SumOf(p) + SumOf(r)
    OBVIOUS
  <2>1. r = << >> /\ p \o r = p
    OBVIOUS
  <2>2. SumOf(r) = 0
    BY <2>1, SumNone
  <2>3. QED
    BY <1>0, <2>1, <2>2
<1>2. ASSUME NEW n \in Nat, n \in T
      PROVE  n + 1 \in T
  <2> SUFFICES ASSUME NEW r \in Seq(Nat), Len(r) = n + 1
               PROVE  SumOf(p \o r) = SumOf(p) + SumOf(r)
    OBVIOUS
  <2> DEFINE t == SubSeq(r, 1, n)
             e == r[n + 1]
  <2>1. t \in Seq(Nat) /\ Len(t) = n /\ e \in Nat /\ r = Append(t, e)
    BY LastApart
  <2> HIDE DEF t, e
  <2>2. SumOf(p \o t) = SumOf(p) + SumOf(t)
    BY <1>2, <2>1
  <2>3. p \o Append(t, e) = Append(p \o t, e) /\ p \o t \in Seq(Nat)
    BY <2>1
  <2>4. SumOf(Append(p \o t, e)) = SumOf(p \o t) + e
    BY <2>1, <2>3, SumAppend
  <2>5. SumOf(Append(t, e)) = SumOf(t) + e /\ SumOf(t) \in Nat
    BY <2>1, SumAppend, SumType
  <2>6. QED
    BY <1>0, <2>1, <2>2, <2>3, <2>4, <2>5
<1> HIDE DEF T
<1>3. \A n \in Nat : n \in T
  BY <1>1, <1>2, SetInduction
<1>4. QED
  BY <1>3 DEF T

\* What comes before a place, what is there and what comes behind it.
LEMMA PartsOf ==
  ASSUME NEW s \in Seq(Nat), NEW p \in 1 .. Len(s)
  PROVE  /\ Len(s) \in Nat /\ p \in Nat \ {0} /\ s[p] \in Nat
         /\ SubSeq(s, 1, p - 1) \in Seq(Nat) /\ Len(SubSeq(s, 1, p - 1)) = p - 1
         /\ \A k \in 1 .. p - 1 : SubSeq(s, 1, p - 1)[k] = s[k]
         /\ SubSeq(s, p + 1, Len(s)) \in Seq(Nat) /\ Len(SubSeq(s, p + 1, Len(s))) = Len(s) - p
         /\ \A k \in 1 .. Len(s) - p : SubSeq(s, p + 1, Len(s))[k] = s[p + k]
<1>1. Len(s) \in Nat /\ p \in Nat \ {0} /\ s[p] \in Nat
  OBVIOUS
<1>2. /\ SubSeq(s, 1, p - 1) \in Seq(Nat) /\ Len(SubSeq(s, 1, p - 1)) = p - 1
      /\ \A k \in 1 .. p - 1 : SubSeq(s, 1, p - 1)[k] = s[k]
  BY <1>1
<1>3. /\ SubSeq(s, p + 1, Len(s)) \in Seq(Nat) /\ Len(SubSeq(s, p + 1, Len(s))) = Len(s) - p
      /\ \A k \in 1 .. Len(s) - p : SubSeq(s, p + 1, Len(s))[k] = s[p + k]
  <2>1. p + 1 \in 1 .. Len(s) + 1
    BY <1>1
  <2>2. \A k \in 1 .. Len(s) - p : (p + 1) + k - 1 = p + k
    BY <1>1
  <2>3. QED
    BY <2>1, <2>2
<1>4. QED
  BY <1>1, <1>2, <1>3

\* The sum of these three.
LEMMA SumParts ==
  ASSUME NEW s \in Seq(Nat), NEW p \in 1 .. Len(s)
  PROVE  /\ SumOf(SubSeq(s, 1, p - 1)) \in Nat /\ SumOf(SubSeq(s, p + 1, Len(s))) \in Nat
         /\ SumOf(s) = SumOf(SubSeq(s, 1, p - 1)) + s[p] + SumOf(SubSeq(s, p + 1, Len(s)))
<1> DEFINE a == SubSeq(s, 1, p - 1)
           b == SubSeq(s, p + 1, Len(s))
           c == Append(a, s[p])
<1>1. /\ Len(s) \in Nat /\ p \in Nat \ {0} /\ s[p] \in Nat
      /\ a \in Seq(Nat) /\ Len(a) = p - 1 /\ \A k \in 1 .. p - 1 : a[k] = s[k]
  BY PartsOf
<1>2. b \in Seq(Nat) /\ Len(b) = Len(s) - p /\ \A k \in 1 .. Len(s) - p : b[k] = s[p + k]
  BY PartsOf
<1> HIDE DEF a, b
<1>3. c \in Seq(Nat) /\ Len(c) = p /\ c[p] = s[p] /\ \A k \in 1 .. p - 1 : c[k] = a[k]
  BY <1>1
<1>4. SumOf(c) = SumOf(a) + s[p] /\ SumOf(a) \in Nat
  BY <1>1, SumAppend, SumType
<1> HIDE DEF c
<1>5. s = c \o b
  <2>1. \A k \in 1 .. Len(c) : s[k] = c[k]
    <3>1. \A k \in 1 .. p : k = p \/ k \in 1 .. p - 1
      BY <1>1
    <3>2. QED
      BY <1>1, <1>3, <3>1
  <2>2. Len(s) = Len(c) + Len(b)
    BY <1>1, <1>2, <1>3
  <2>3. \A k \in 1 .. Len(b) : s[Len(c) + k] = b[k]
    BY <1>1, <1>2, <1>3
  <2>4. QED
    BY <1>2, <1>3, <2>1, <2>2, <2>3, IsCat
<1>6. SumOf(s) = SumOf(c) + SumOf(b) /\ SumOf(b) \in Nat
  BY <1>2, <1>3, <1>5, SumCat, SumType
<1>7. SumOf(s) = SumOf(a) + s[p] + SumOf(b)
  BY <1>4, <1>6
<1>8. QED
  BY <1>4, <1>6, <1>7 DEF a, b

\* Two sequences that differ in one place.
LEMMA SumChange ==
  ASSUME NEW s \in Seq(Nat), NEW u \in Seq(Nat), Len(u) = Len(s), NEW p \in 1 .. Len(s),
         \A k \in 1 .. Len(s) : k # p => u[k] = s[k]
  PROVE  SumOf(u) + s[p] = SumOf(s) + u[p]
<1>1. Len(s) \in Nat /\ p \in Nat \ {0} /\ s[p] \in Nat /\ u[p] \in Nat
  OBVIOUS
<1>2. SubSeq(u, 1, p - 1) = SubSeq(s, 1, p - 1)
  BY <1>1
<1>3. SubSeq(u, p + 1, Len(u)) = SubSeq(s, p + 1, Len(s))
  BY <1>1
<1>4. /\ SumOf(SubSeq(s, 1, p - 1)) \in Nat /\ SumOf(SubSeq(s, p + 1, Len(s))) \in Nat
      /\ SumOf(s) = SumOf(SubSeq(s, 1, p - 1)) + s[p] + SumOf(SubSeq(s, p + 1, Len(s)))
  BY SumParts
<1>5. SumOf(u) = SumOf(SubSeq(u, 1, p - 1)) + u[p] + SumOf(SubSeq(u, p + 1, Len(u)))
  <2>1. p \in 1 .. Len(u)
    OBVIOUS
  <2>2. QED
    BY <2>1, SumParts
<1>6. SumOf(u) = SumOf(SubSeq(s, 1, p - 1)) + u[p] + SumOf(SubSeq(s, p + 1, Len(s)))
  BY <1>2, <1>3, <1>5, Zenon
<1> DEFINE a == SumOf(SubSeq(s, 1, p - 1))
           b == SumOf(SubSeq(s, p + 1, Len(s)))
<1>7. a \in Nat /\ b \in Nat /\ SumOf(s) = a + s[p] + b /\ SumOf(u) = a + u[p] + b
  BY <1>4, <1>6, Zenon
<1> HIDE DEF a, b
<1>8. QED
  BY <1>1, <1>7, SMTT(30)

\* A sequence without one of its places.
LEMMA SumRemove ==
  ASSUME NEW s \in Seq(Nat), NEW p \in 1 .. Len(s), NEW r \in Seq(Nat), Len(r) = Len(s) - 1,
         \A k \in 1 .. p - 1 : r[k] = s[k],
         \A k \in p .. Len(s) - 1 : r[k] = s[k + 1]
  PROVE  SumOf(r) + s[p] = SumOf(s)
<1> DEFINE a == SubSeq(s, 1, p - 1)
           b == SubSeq(s, p + 1, Len(s))
<1>1. /\ Len(s) \in Nat /\ p \in Nat \ {0} /\ s[p] \in Nat
      /\ a \in Seq(Nat) /\ Len(a) = p - 1 /\ \A k \in 1 .. p - 1 : a[k] = s[k]
  BY PartsOf
<1>2. b \in Seq(Nat) /\ Len(b) = Len(s) - p /\ \A k \in 1 .. Len(s) - p : b[k] = s[p + k]
  BY PartsOf
<1>3. SumOf(s) = SumOf(a) + s[p] + SumOf(b) /\ SumOf(a) \in Nat /\ SumOf(b) \in Nat
  BY SumParts
<1> HIDE DEF a, b
<1>4. r = a \o b
  <2>1. \A k \in 1 .. Len(a) : r[k] = a[k]
    BY <1>1
  <2>2. Len(r) = Len(a) + Len(b)
    BY <1>1, <1>2
  <2>3. ASSUME NEW k \in 1 .. Len(b)
        PROVE  r[Len(a) + k] = b[k]
    <3>1. Len(a) + k \in p .. Len(s) - 1 /\ (Len(a) + k) + 1 = p + k /\ k \in 1 .. Len(s) - p
      BY <1>1, <1>2
    <3>2. QED
      BY <1>2, <3>1
  <2>4. QED
    BY <1>1, <1>2, <2>1, <2>2, <2>3, IsCat
<1>5. SumOf(r) = SumOf(a) + SumOf(b)
  BY <1>1, <1>2, <1>4, SumCat
<1>6. QED
  BY <1>1, <1>3, <1>5

\* One number more at the front.
LEMMA SumFront ==
  ASSUME NEW s \in Seq(Nat), NEW x \in Nat
  PROVE  SumOf(<<x>> \o s) = x + SumOf(s)
<1>1. <<x>> = Append(<< >>, x) /\ <<x>> \in Seq(Nat) /\ << >> \in Seq(Nat)
  OBVIOUS
<1>2. SumOf(<<x>>) = x
  <2>1. SumOf(Append(<< >>, x)) = SumOf(<< >>) + x
    BY <1>1, SumAppend
  <2>2. QED
    BY <1>1, <2>1, SumNone
<1>3. SumOf(<<x>> \o s) = SumOf(<<x>>) + SumOf(s)
  BY <1>1, SumCat
<1>4. QED
  BY <1>2, <1>3

\* Zeros add up to zero.
LEMMA SumZeros ==
  ASSUME NEW s \in Seq(Nat), \A k \in 1 .. Len(s) : s[k] = 0
  PROVE  SumOf(s) = 0
<1> DEFINE T == {n \in Nat : \A r \in Seq(Nat) :
                   Len(r) = n /\ (\A k \in 1 .. Len(r) : r[k] = 0) => SumOf(r) = 0}
<1>1. 0 \in T
  <2> SUFFICES ASSUME NEW r \in Seq(Nat), Len(r) = 0 PROVE SumOf(r) = 0
    OBVIOUS
  <2>1. r = << >>
    OBVIOUS
  <2>2. QED
    BY <2>1, SumNone
<1>2. ASSUME NEW n \in Nat, n \in T
      PROVE  n + 1 \in T
  <2> SUFFICES ASSUME NEW r \in Seq(Nat), Len(r) = n + 1, \A k \in 1 .. Len(r) : r[k] = 0
               PROVE  SumOf(r) = 0
    OBVIOUS
  <2> DEFINE t == SubSeq(r, 1, n)
             e == r[n + 1]
  <2>1. t \in Seq(Nat) /\ Len(t) = n /\ e \in Nat /\ r = Append(t, e)
    BY LastApart
  <2>2. e = 0 /\ \A k \in 1 .. n : t[k] = 0
    OBVIOUS
  <2> HIDE DEF t, e
  <2>3. SumOf(t) = 0
    BY <1>2, <2>1, <2>2
  <2>4. SumOf(Append(t, e)) = SumOf(t) + e
    BY <2>1, SumAppend
  <2>5. QED
    BY <2>1, <2>2, <2>3, <2>4
<1> HIDE DEF T
<1>3. \A n \in Nat : n \in T
  BY <1>1, <1>2, SetInduction
<1>4. Len(s) \in T
  BY <1>3
<1>5. QED
  BY <1>4 DEF T

\* A sequence without one of its elements.
Without(s, p) == SubSeq(s, 1, p - 1) \o SubSeq(s, p + 1, Len(s))

\* The others are in their order.
LEMMA WithoutOne ==
  ASSUME NEW S, NEW s \in Seq(S), NEW p \in 1 .. Len(s)
  PROVE  /\ Without(s, p) \in Seq(S) /\ Len(Without(s, p)) = Len(s) - 1
         /\ \A k \in 1 .. p - 1 : Without(s, p)[k] = s[k]
         /\ \A k \in p .. Len(s) - 1 : Without(s, p)[k] = s[k + 1]
<1> DEFINE r == Without(s, p)
<1> DEFINE a == SubSeq(s, 1, p - 1)
           b == SubSeq(s, p + 1, Len(s))
<1>1. /\ Len(s) \in Nat /\ p \in Nat \ {0}
      /\ a \in Seq(S) /\ Len(a) = p - 1 /\ \A k \in 1 .. p - 1 : a[k] = s[k]
  OBVIOUS
<1>2. b \in Seq(S) /\ Len(b) = Len(s) - p /\ \A k \in 1 .. Len(s) - p : b[k] = s[p + k]
  <2>1. p + 1 \in 1 .. Len(s) + 1
    BY <1>1
  <2>2. \A k \in 1 .. Len(s) - p : (p + 1) + k - 1 = p + k
    BY <1>1
  <2>3. QED
    BY <2>1, <2>2
<1>3. r = a \o b
  BY DEF Without
<1> HIDE DEF a, b, r
<1>4. /\ r \in Seq(S) /\ Len(r) = Len(a) + Len(b)
      /\ \A k \in 1 .. Len(a) : r[k] = a[k]
      /\ \A k \in 1 .. Len(b) : r[Len(a) + k] = b[k]
  <2>1. a \in Seq(S) /\ b \in Seq(S)
    BY <1>1, <1>2
  <2>2. a \o b \in Seq(S) /\ Len(a \o b) = Len(a) + Len(b)
    BY <2>1
  <2>3. \A k \in 1 .. Len(a) : (a \o b)[k] = a[k]
    BY <2>1
  <2>4. \A k \in 1 .. Len(b) : (a \o b)[Len(a) + k] = b[k]
    BY <2>1
  <2>5. QED
    BY <1>3, <2>2, <2>3, <2>4, Zenon
<1>5. Len(r) = Len(s) - 1
  <2>1. Len(r) = (p - 1) + (Len(s) - p)
    BY <1>1, <1>2, <1>4
  <2>2. Len(s) \in Nat /\ p \in Nat
    BY <1>1
  <2>3. \A n, q \in Nat : (q - 1) + (n - q) = n - 1
    OBVIOUS
  <2>4. QED
    BY <2>1, <2>2, <2>3
<1>6. \A k \in 1 .. p - 1 : r[k] = s[k]
  BY <1>1, <1>4
<1>7. ASSUME NEW k \in p .. Len(s) - 1
      PROVE  r[k] = s[k + 1]
  <2> DEFINE m == k - (p - 1)
  <2>1. m \in 1 .. Len(s) - p /\ (p - 1) + m = k /\ p + m = k + 1
    BY <1>1
  <2> HIDE DEF m
  <2>2. r[(p - 1) + m] = b[m] /\ b[m] = s[p + m]
    BY <1>1, <1>2, <1>4, <2>1
  <2>3. QED
    BY <2>1, <2>2
<1>8. QED
  BY <1>4, <1>5, <1>6, <1>7 DEF r

(***************************************************************************)
(* A function that is applied again and again.                             *)
(***************************************************************************)
\* The values of a function that is applied again and again, to x first.
Iterated(f, U, G, x, k) ==
  f \in [0 .. k -> U] /\ f[0] = x /\ \A n \in 1 .. k : f[n] = G[f[n - 1]]

\* There are such values.
LEMMA Iterates ==
  ASSUME NEW U, NEW G \in [U -> U], NEW x \in U, NEW m \in Nat
  PROVE  \E f : Iterated(f, U, G, x, m)
<1> DEFINE T == {k \in Nat : \E f : Iterated(f, U, G, x, k)}
<1>1. 0 \in T
  <2> DEFINE f == [n \in 0 .. 0 |-> x]
  <2>1. f \in [0 .. 0 -> U] /\ f[0] = x /\ \A n \in 1 .. 0 : f[n] = G[f[n - 1]]
    OBVIOUS
  <2>2. QED
    BY <2>1 DEF Iterated
<1>2. ASSUME NEW k \in Nat, k \in T
      PROVE  k + 1 \in T
  <2>1. PICK f : Iterated(f, U, G, x, k)
    BY <1>2
  <2>2. f \in [0 .. k -> U] /\ f[0] = x /\ \A n \in 1 .. k : f[n] = G[f[n - 1]]
    BY <2>1 DEF Iterated
  <2> DEFINE g == [n \in 0 .. k + 1 |-> IF n = k + 1 THEN G[f[k]] ELSE f[n]]
  <2>3. g \in [0 .. k + 1 -> U] /\ g[0] = x
    BY <2>2
  <2>4. \A n \in 1 .. k + 1 : g[n] = G[g[n - 1]]
    BY <2>2
  <2> HIDE DEF g
  <2>5. Iterated(g, U, G, x, k + 1)
    BY <2>3, <2>4 DEF Iterated
  <2>6. QED
    BY <2>5
<1> HIDE DEF T
<1>3. \A k \in Nat : k \in T
  BY <1>1, <1>2, SetInduction
<1>4. QED
  BY <1>3 DEF T

(***************************************************************************)
(* One element more, and one less.                                         *)
(***************************************************************************)
\* InsertAt puts an element in.
LEMMA InsertAtIs ==
  ASSUME NEW S, NEW s \in Seq(S), NEW n \in 1 .. Len(s) + 1, NEW e \in S, NEW t, t = InsertAt(s, n, e)
  PROVE  /\ t \in Seq(S) /\ Len(t) = Len(s) + 1
         /\ \A j \in 1 .. Len(s) + 1 : t[j] = IF j < n THEN s[j] ELSE IF j = n THEN e ELSE s[j - 1]
<1>1. PICK a, b, l : a = SubSeq(s, 1, n - 1) /\ b = SubSeq(s, n, Len(s)) /\ l = Len(s)
  OBVIOUS
<1>2. l \in Nat /\ n \in Nat /\ n >= 1 /\ n <= l + 1
  BY <1>1
<1>3. /\ a \in Seq(S) /\ Len(a) = n - 1 /\ \A j \in 1 .. n - 1 : a[j] = s[j]
      /\ b \in Seq(S) /\ Len(b) = l - n + 1 /\ \A j \in 1 .. l - n + 1 : b[j] = s[n + j - 1]
  BY <1>1, <1>2
<1>4. PICK c : c = a \o <<e>>
  OBVIOUS
<1>5. c \in Seq(S) /\ Len(c) = n /\ \A j \in 1 .. n : c[j] = IF j < n THEN s[j] ELSE e
  BY <1>2, <1>3, <1>4
<1>6. t = c \o b
  BY <1>1, <1>4 DEF InsertAt
<1>7. t \in Seq(S) /\ Len(t) = l + 1
  <2>1. t \in Seq(S)
    BY <1>3, <1>5, <1>6
  <2>2. Len(t) = Len(c) + Len(b)
    BY <1>3, <1>5, <1>6
  <2>3. Len(t) = l + 1
    BY <1>2, <1>3, <1>5, <2>2
  <2>4. QED
    BY <2>1, <2>3
<1>8. ASSUME NEW j \in 1 .. l + 1
      PROVE  t[j] = IF j < n THEN s[j] ELSE IF j = n THEN e ELSE s[j - 1]
  <2>1. CASE j <= n
    <3>1. j \in 1 .. n /\ t[j] = c[j]
      BY <1>2, <1>3, <1>5, <1>6, <2>1
    <3>2. QED
      BY <1>2, <1>5, <2>1, <3>1
  <2>2. CASE j > n
    <3>1. PICK i \in 1 .. l - n + 1 : i = j - n
      BY <1>2, <2>2
    <3>2. t[j] = b[i] /\ n + i - 1 = j - 1
      BY <1>2, <1>3, <1>5, <1>6, <2>2, <3>1
    <3>3. QED
      BY <1>2, <1>3, <2>2, <3>1, <3>2
  <2>3. QED
    BY <1>2, <2>1, <2>2
<1>9. QED
  BY <1>1, <1>7, <1>8

\* RemoveAt takes one out.
LEMMA RemoveAtIs ==
  ASSUME NEW S, NEW s \in Seq(S), NEW n \in 1 .. Len(s), NEW t, t = RemoveAt(s, n)
  PROVE  /\ t \in Seq(S) /\ Len(t) = Len(s) - 1
         /\ \A j \in 1 .. Len(s) - 1 : t[j] = IF j < n THEN s[j] ELSE s[j + 1]
<1>1. PICK a, b, l : a = SubSeq(s, 1, n - 1) /\ b = SubSeq(s, n + 1, Len(s)) /\ l = Len(s)
  OBVIOUS
<1>2. l \in Nat /\ n \in Nat /\ n >= 1 /\ n <= l
  BY <1>1
<1>3. /\ a \in Seq(S) /\ Len(a) = n - 1 /\ \A j \in 1 .. n - 1 : a[j] = s[j]
      /\ b \in Seq(S) /\ Len(b) = l - n /\ \A j \in 1 .. l - n : b[j] = s[n + j]
  BY <1>1, <1>2
<1>4. t = a \o b
  BY <1>1 DEF RemoveAt
<1>5. t \in Seq(S) /\ Len(t) = l - 1
  <2>1. t \in Seq(S)
    BY <1>3, <1>4
  <2>2. Len(t) = Len(a) + Len(b)
    <3>1. a \in Seq(S) /\ b \in Seq(S)
      BY <1>3
    <3>2. QED
      BY ONLY <3>1, <1>4
  <2>3. Len(t) = l - 1
    BY <1>2, <1>3, <2>2
  <2>4. QED
    BY <2>1, <2>3
<1>6. ASSUME NEW j \in 1 .. l - 1
      PROVE  t[j] = IF j < n THEN s[j] ELSE s[j + 1]
  <2>1. CASE j < n
    BY <1>2, <1>3, <1>4, <2>1
  <2>2. CASE ~(j < n)
    <3>1. PICK i \in 1 .. l - n : i = j - (n - 1)
      BY <1>2, <2>2
    <3>2. t[j] = b[i] /\ n + i = j + 1
      BY <1>2, <1>3, <1>4, <2>2, <3>1
    <3>3. QED
      BY <1>3, <2>2, <3>1, <3>2
  <2>3. QED
    BY <2>1, <2>2
<1>7. QED
  BY <1>1, <1>5, <1>6

\* t is s with e at n; t is s without the element at n.
IsPut(S, t, s, n, e) ==
  /\ t \in Seq(S) /\ Len(t) = Len(s) + 1
  /\ \A j \in 1 .. Len(s) + 1 : t[j] = IF j < n THEN s[j] ELSE IF j = n THEN e ELSE s[j - 1]

IsCut(S, t, s, n) ==
  /\ t \in Seq(S) /\ Len(t) = Len(s) - 1
  /\ \A j \in 1 .. Len(s) - 1 : t[j] = IF j < n THEN s[j] ELSE s[j + 1]

\* What InsertAt puts in.
LEMMA InsertAtPuts ==
  ASSUME NEW S, NEW s \in Seq(S), NEW n \in 1 .. Len(s) + 1, NEW e \in S
  PROVE  IsPut(S, InsertAt(s, n, e), s, n, e)
<1>1. PICK t : t = InsertAt(s, n, e)
  OBVIOUS
<1>2. /\ t \in Seq(S) /\ Len(t) = Len(s) + 1
      /\ \A j \in 1 .. Len(s) + 1 : t[j] = IF j < n THEN s[j] ELSE IF j = n THEN e ELSE s[j - 1]
  BY <1>1, InsertAtIs, SMTT(30)
<1>3. QED
  BY <1>1, <1>2, Zenon DEF IsPut

\* What RemoveAt takes out.
LEMMA RemoveAtCuts ==
  ASSUME NEW S, NEW s \in Seq(S), NEW n \in 1 .. Len(s)
  PROVE  IsCut(S, RemoveAt(s, n), s, n)
<1>1. PICK t : t = RemoveAt(s, n)
  OBVIOUS
<1>2. /\ t \in Seq(S) /\ Len(t) = Len(s) - 1
      /\ \A j \in 1 .. Len(s) - 1 : t[j] = IF j < n THEN s[j] ELSE s[j + 1]
  BY <1>1, RemoveAtIs
<1>3. QED
  BY <1>1, <1>2, Zenon DEF IsCut

\* q is o backwards.
IsBackwards(V, q, o) == q \in Seq(V) /\ Len(q) = Len(o) /\ \A i \in 1 .. Len(o) : q[i] = o[Len(o) - i + 1]

\* A sequence backwards.
LEMMA BackwardsIs ==
  ASSUME NEW V, NEW o \in Seq(V)
  PROVE  IsBackwards(V, Reverse(o), o)
<1>1. \A i \in 1 .. Len(o) : Len(o) - i + 1 \in 1 .. Len(o)
  OBVIOUS
<1>2. QED
  BY <1>1 DEF Reverse, IsBackwards

(***************************************************************************)
(* Numbers.                                                                *)
(***************************************************************************)
\* What \div and % are.
LEMMA DivMod ==
  ASSUME NEW a \in Nat, NEW b \in Nat \ {0}
  PROVE  a = (a \div b) * b + (a % b) /\ a % b \in 0 .. b - 1 /\ a \div b \in Nat
<1>1. a % b \in 0 .. b - 1
  OBVIOUS
<1>2. a \div b \in Nat
  OBVIOUS
<1>3. a = (a \div b) * b + (a % b)
  OBVIOUS
<1>4. QED
  BY <1>1, <1>2, <1>3

\* What they are of a number written with a factor and a rest.
LEMMA Quotient ==
  ASSUME NEW b \in Nat \ {0}, NEW q \in Nat, NEW r \in 0 .. b - 1, NEW a \in Int, a = q * b + r
  PROVE  a \in Nat /\ a \div b = q /\ a % b = r
<1>1. q * b \in Nat
  OBVIOUS
<1>2. a \in Nat
  BY <1>1
<1>3. PICK p, s : p = a \div b /\ s = a % b
  OBVIOUS
<1>4. a = p * b + s /\ s \in 0 .. b - 1 /\ p \in Nat
  BY <1>2, <1>3, DivMod
<1>5. (p - q) * b = r - s
  BY <1>4
<1>6. ~ p >= q + 1
  <2>1. SUFFICES ASSUME p >= q + 1 PROVE FALSE
    OBVIOUS
  <2>2. PICK k \in Nat : k = p - q - 1
    BY <1>4, <2>1
  <2>3. (p - q) * b = k * b + b /\ k * b \in Nat
    BY <1>4, <2>2
  <2>4. QED
    BY <1>4, <1>5, <2>3
<1>7. ~ q >= p + 1
  <2>1. SUFFICES ASSUME q >= p + 1 PROVE FALSE
    OBVIOUS
  <2>2. PICK k \in Nat : k = q - p - 1
    BY <1>4, <2>1
  <2>3. (p - q) * b = -(k * b) - b /\ k * b \in Nat
    BY <1>4, <2>2
  <2>4. QED
    BY <1>4, <1>5, <2>3
<1>8. p = q
  BY <1>4, <1>6, <1>7
<1>9. QED
  BY <1>2, <1>3, <1>4, <1>8

\* Once round at most.
LEMMA Around ==
  ASSUME NEW n \in Nat \ {0}, NEW x \in 0 .. 2 * n - 1
  PROVE  x % n = IF x < n THEN x ELSE x - n
<1>1. CASE x < n
  <2>1. x = 0 * n + x /\ x \in 0 .. n - 1
    BY <1>1
  <2>2. QED
    BY <1>1, <2>1, Quotient
<1>2. CASE ~ x < n
  <2>1. x = 1 * n + (x - n) /\ x - n \in 0 .. n - 1
    BY <1>2
  <2>2. x % n = x - n
    BY <2>1, Quotient
  <2>3. QED
    BY <1>2, <2>2
<1>3. QED
  BY <1>1, <1>2

\* A set of numbers that is not empty has a least one.
LEMMA HasMin ==
  ASSUME NEW S \in SUBSET Nat, S # {}
  PROVE  Min(S) \in S /\ \A y \in S : Min(S) <= y
<1> DEFINE T == {k \in Nat : \A y \in S : k <= y}
<1>1. PICK x \in S : \A y \in S : x <= y
  <2>1. SUFFICES ASSUME \A x \in S : \E y \in S : ~ x <= y PROVE FALSE
    OBVIOUS
  <2>2. 0 \in T
    OBVIOUS
  <2>3. ASSUME NEW k \in Nat, k \in T
        PROVE  k + 1 \in T
    <3>1. k \notin S
      BY <2>1, <2>3
    <3>2. \A y \in S : y \in Nat /\ k <= y /\ y # k
      BY <2>3, <3>1
    <3>3. QED
      BY <3>2
  <2>4. PICK x \in S : x \in Nat
    OBVIOUS
  <2> HIDE DEF T
  <2>5. \A k \in Nat : k \in T
    BY <2>2, <2>3, SetInduction
  <2>6. x + 1 \in T
    BY <2>4, <2>5
  <2>7. QED
    BY <2>4, <2>6 DEF T
<1>2. QED
  BY <1>1 DEF Min

(***************************************************************************)
(* The quicksort of Sorting: the elements that partition has passed are in *)
(* order, a part that is still to be sorted has what is not, and each call *)
(* leaves fewer neighbours in one part.                                    *)
(***************************************************************************)
\* p is a permutation of 1 .. n.
Permutes(p, n) ==
  /\ p \in [1 .. n -> 1 .. n]
  /\ \A i, j \in 1 .. n : p[i] = p[j] => i = j
  /\ \A j \in 1 .. n : \E i \in 1 .. n : p[i] = j

\* t is s read in the order of p.
Reads(t, s, p) == \A i \in 1 .. Len(s) : t[i] = s[p[i]]

\* p leaves what is not in b .. e where it is.
Within(p, n, b, e) == \A i \in 1 .. n : i \in b .. e \/ p[i] = i

\* t has the elements of s, those outside b .. e at their places.
Shuffled(t, s, b, e) ==
  /\ s \in Seq(Int) /\ t \in Seq(Int) /\ Len(t) = Len(s)
  /\ \E p : Permutes(p, Len(s)) /\ Reads(t, s, p) /\ Within(p, Len(s), b, e)

\* The sequences are as long as each other.
LEMMA ShuffledType ==
  ASSUME NEW t, NEW s, NEW b, NEW e, Shuffled(t, s, b, e)
  PROVE  s \in Seq(Int) /\ t \in Seq(Int) /\ Len(t) = Len(s)
BY Zenon DEF Shuffled

\* Nothing moved.
LEMMA ShuffledSame ==
  ASSUME NEW s \in Seq(Int), NEW b, NEW e
  PROVE  Shuffled(s, s, b, e)
<1>1. PICK n \in Nat : n = Len(s)
  OBVIOUS
<1>2. PICK p : p = [i \in 1 .. n |-> i]
  OBVIOUS
<1>3. p \in [1 .. n -> 1 .. n] /\ \A i \in 1 .. n : p[i] = i
  BY <1>2
<1>4. Permutes(p, n)
  BY <1>3, Zenon DEF Permutes
<1>5. Reads(s, s, p)
  BY <1>1, <1>3 DEF Reads
<1>6. Within(p, n, b, e)
  BY <1>3 DEF Within
<1>7. QED
  BY <1>1, <1>4, <1>5, <1>6 DEF Shuffled

\* One permutation after the other.
LEMMA PermutesTwice ==
  ASSUME NEW n \in Nat, NEW p, NEW q, Permutes(p, n), Permutes(q, n), NEW r, r = [i \in 1 .. n |-> p[q[i]]]
  PROVE  Permutes(r, n) /\ \A i \in 1 .. n : q[i] \in 1 .. n /\ r[i] = p[q[i]]
<1>1. /\ p \in [1 .. n -> 1 .. n] /\ q \in [1 .. n -> 1 .. n]
      /\ \A i, j \in 1 .. n : p[i] = p[j] => i = j
      /\ \A i, j \in 1 .. n : q[i] = q[j] => i = j
  BY DEF Permutes
<1>2. \A i \in 1 .. n : q[i] \in 1 .. n /\ r[i] = p[q[i]]
  BY <1>1
<1>3. r \in [1 .. n -> 1 .. n]
  BY <1>1
<1>4. ASSUME NEW i \in 1 .. n, NEW j \in 1 .. n, r[i] = r[j]
      PROVE  i = j
  BY <1>1, <1>2, <1>4
<1>5. ASSUME NEW j \in 1 .. n
      PROVE  \E i \in 1 .. n : r[i] = j
  <2>1. PICK k \in 1 .. n : p[k] = j
    BY DEF Permutes
  <2>2. PICK i \in 1 .. n : q[i] = k
    BY DEF Permutes
  <2>3. QED
    BY <1>2, <2>1, <2>2
<1>6. QED
  BY <1>2, <1>3, <1>4, <1>5 DEF Permutes

\* Moved twice.
LEMMA ShuffledTwice ==
  ASSUME NEW t, NEW s, NEW u, NEW b, NEW e, Shuffled(t, s, b, e), Shuffled(u, t, b, e)
  PROVE  Shuffled(u, s, b, e)
<1>1. s \in Seq(Int) /\ t \in Seq(Int) /\ u \in Seq(Int) /\ Len(t) = Len(s) /\ Len(u) = Len(s)
  BY ShuffledType
<1>2. PICK n \in Nat : n = Len(s)
  BY <1>1
<1>3. PICK p : Permutes(p, n) /\ Reads(t, s, p) /\ Within(p, n, b, e)
  BY <1>2 DEF Shuffled
<1>4. PICK q : Permutes(q, n) /\ Reads(u, t, q) /\ Within(q, n, b, e)
  BY <1>1, <1>2 DEF Shuffled
<1>5. PICK r : r = [i \in 1 .. n |-> p[q[i]]]
  OBVIOUS
<1>6. Permutes(r, n) /\ \A i \in 1 .. n : q[i] \in 1 .. n /\ r[i] = p[q[i]]
  BY <1>3, <1>4, <1>5, PermutesTwice
<1>7. Reads(u, s, r)
  BY <1>1, <1>2, <1>3, <1>4, <1>6, ZenonT(60) DEF Reads
<1>8. Within(r, n, b, e)
  BY <1>3, <1>4, <1>6 DEF Within
<1>9. QED
  BY <1>1, <1>2, <1>6, <1>7, <1>8 DEF Shuffled

\* What moves within a part moves within a larger one.
LEMMA ShuffledWider ==
  ASSUME NEW t, NEW s, NEW b \in Int, NEW e \in Int, NEW c \in Int, NEW d \in Int, c <= b, e <= d,
         Shuffled(t, s, b, e)
  PROVE  Shuffled(t, s, c, d)
<1>1. s \in Seq(Int) /\ t \in Seq(Int) /\ Len(t) = Len(s)
  BY ShuffledType
<1>2. PICK p : Permutes(p, Len(s)) /\ Reads(t, s, p) /\ Within(p, Len(s), b, e)
  BY DEF Shuffled
<1>3. Within(p, Len(s), c, d)
  BY <1>2 DEF Within
<1>4. QED
  BY <1>1, <1>2, <1>3 DEF Shuffled

\* Within b .. e, the elements come from there.
LEMMA ShuffledAt ==
  ASSUME NEW t, NEW s, NEW b \in Int, NEW e \in Int, Shuffled(t, s, b, e), NEW i \in 1 .. Len(s)
  PROVE  /\ i \notin b .. e => t[i] = s[i]
         /\ i \in b .. e => \E j \in 1 .. Len(s) : j \in b .. e /\ t[i] = s[j]
<1>1. s \in Seq(Int) /\ t \in Seq(Int) /\ Len(t) = Len(s)
  BY ShuffledType
<1>2. PICK n \in Nat : n = Len(s)
  BY <1>1
<1>3. PICK p : Permutes(p, n) /\ Reads(t, s, p) /\ Within(p, n, b, e)
  BY <1>2 DEF Shuffled
<1>4. p[i] \in 1 .. n /\ t[i] = s[p[i]]
  BY <1>2, <1>3 DEF Permutes, Reads
<1>5. i \notin b .. e => t[i] = s[i]
  BY <1>2, <1>3, <1>4 DEF Within
<1>6. ASSUME i \in b .. e PROVE p[i] \in b .. e
  <2>1. SUFFICES ASSUME p[i] \notin b .. e PROVE FALSE
    OBVIOUS
  <2>2. p[p[i]] = p[i]
    BY <1>3, <1>4, <2>1 DEF Within
  <2>3. p[i] = i
    BY <1>2, <1>3, <1>4, <2>2 DEF Permutes
  <2>4. QED
    BY <1>6, <2>1, <2>3
<1>7. QED
  BY <1>2, <1>4, <1>5, <1>6

\* Three elements go round, or two of them change their places.
Turn(i, l, r, g) == IF i = g THEN l ELSE IF i = r THEN g ELSE IF i = l THEN r ELSE i

\* Elements that go round are moved.
LEMMA ShuffledTurn ==
  ASSUME NEW s \in Seq(Int), NEW t \in Seq(Int), Len(t) = Len(s), NEW b \in 1 .. Len(s), NEW e \in 1 .. Len(s),
         NEW l \in b .. e, NEW r \in l .. e, NEW g \in r .. e, r = g => l = r,
         \A i \in 1 .. Len(s) : t[i] = s[Turn(i, l, r, g)]
  PROVE  Shuffled(t, s, b, e)
<1>1. PICK n \in Nat : n = Len(s)
  OBVIOUS
<1>2. PICK p : p = [i \in 1 .. n |-> Turn(i, l, r, g)]
  OBVIOUS
<1>3. l \in 1 .. n /\ r \in 1 .. n /\ g \in 1 .. n
  BY <1>1
<1>4. p \in [1 .. n -> 1 .. n] /\ \A i \in 1 .. n : p[i] = Turn(i, l, r, g)
  BY <1>2, <1>3 DEF Turn
<1>5. \A i, j \in 1 .. n : p[i] = p[j] => i = j
  <2>1. l \in Int /\ r \in Int /\ g \in Int /\ l <= r /\ r <= g /\ (r = g => l = r)
    BY <1>1
  <2>2. \A i, j \in Int : Turn(i, l, r, g) = Turn(j, l, r, g) => i = j
    BY ONLY <2>1 DEF Turn
  <2>3. QED
    BY <1>4, <2>2
<1>6. ASSUME NEW j \in 1 .. n
      PROVE  \E i \in 1 .. n : p[i] = j
  <2>1. PICK i \in 1 .. n : i = IF j = l THEN g ELSE IF j = g THEN r ELSE IF j = r THEN l ELSE j
    BY <1>3
  <2>2. Turn(i, l, r, g) = j
    BY <1>3, <2>1 DEF Turn
  <2>3. QED
    BY <1>4, <2>2
<1>7. Permutes(p, n)
  BY <1>4, <1>5, <1>6 DEF Permutes
<1>8. Reads(t, s, p)
  BY <1>1, <1>4 DEF Reads
<1>9. Within(p, n, b, e)
  <2>1. \A i : i \notin b .. e => i # l /\ i # r /\ i # g
    OBVIOUS
  <2>2. QED
    BY <1>4, <2>1 DEF Within, Turn
<1>10. QED
  BY <1>1, <1>7, <1>8, <1>9 DEF Shuffled

\* The scans stop between left and right, and skip what is not to be moved.
LEMMA BeyondIs ==
  ASSUME NEW s \in Seq(Int), NEW left \in 1 .. Len(s), NEW right \in left .. Len(s), NEW temp \in Int,
         NEW l, l = StopsBeyond(s, left, right, temp)
  PROVE  /\ l \in left .. right
         /\ l = right \/ s[l] > temp
         /\ \A i \in left .. right : i < l => s[i] <= temp
<1>1. PICK z : z = {right} \cup {i \in left .. right : s[i] > temp}
  OBVIOUS
<1>2. z \in SUBSET Nat /\ z # {}
  BY <1>1
<1>3. l = Min(z)
  BY <1>1 DEF StopsBeyond
<1>4. l \in z /\ \A y \in z : l <= y
  BY <1>2, <1>3, HasMin
<1>5. l \in left .. right /\ (l = right \/ s[l] > temp)
  BY <1>1, <1>4
<1>6. ASSUME NEW i \in left .. right, i < l
      PROVE  s[i] <= temp
  <2>1. i \notin z
    BY <1>4, <1>5, <1>6
  <2>2. s[i] \in Int
    OBVIOUS
  <2>3. QED
    BY <1>1, <2>1, <2>2
<1>7. QED
  BY <1>5, <1>6

\* The same from the right.
LEMMA BelowIs ==
  ASSUME NEW s \in Seq(Int), NEW left \in 1 .. Len(s), NEW right \in left .. Len(s), NEW temp \in Int,
         NEW r, r = StopsBelow(s, left, right, temp)
  PROVE  /\ r \in left .. right
         /\ r = left \/ s[r] < temp
         /\ \A i \in left .. right : i > r => s[i] >= temp
<1>1. PICK z : z = {left} \cup {i \in left .. right : s[i] < temp}
  OBVIOUS
<1>2. z \in SUBSET (1 .. Len(s)) /\ z # {}
  BY <1>1
<1>3. r = Max(z)
  BY <1>1 DEF StopsBelow
<1>4. r \in z /\ \A y \in z : r >= y
  <2>1. PICK n \in Nat : n = Len(s)
    OBVIOUS
  <2>2. z \in SUBSET (1 .. n)
    BY <1>2, <2>1
  <2>3. QED
    BY <1>2, <1>3, <2>2, HasMax
<1>5. r \in left .. right /\ (r = left \/ s[r] < temp)
  BY <1>1, <1>4
<1>6. ASSUME NEW i \in left .. right, i > r
      PROVE  s[i] >= temp
  <2>1. i \notin z
    BY <1>4, <1>5, <1>6
  <2>2. s[i] \in Int
    OBVIOUS
  <2>3. QED
    BY <1>1, <2>1, <2>2
<1>7. QED
  BY <1>5, <1>6

\* The state of partition: m.right is the place whose element is kept in temp.
Rounds == [s : Seq(Int), left : Int, right : Int]

Meeting(m, s, b, e) ==
  /\ m \in Rounds /\ Len(m.s) = Len(s)
  /\ m.left \in b .. e /\ m.right \in b .. e /\ m.left <= m.right
  /\ Shuffled([m.s EXCEPT ![m.right] = s[e]], s, b, e)
  /\ \A i \in b .. e : (i < m.left => m.s[i] <= s[e]) /\ (i > m.right => m.s[i] >= s[e])

\* Before the first round.
LEMMA MeetingFirst ==
  ASSUME NEW s \in Seq(Int), NEW b \in 1 .. Len(s), NEW e \in b .. Len(s)
  PROVE  Meeting([s |-> s, left |-> b, right |-> e], s, b, e)
<1>1. PICK m : m = [s |-> s, left |-> b, right |-> e]
  OBVIOUS
<1>2. m \in Rounds /\ m.s = s /\ m.left = b /\ m.right = e
  BY <1>1 DEF Rounds
<1>3. [m.s EXCEPT ![m.right] = s[e]] = s
  BY <1>2
<1>4. Shuffled([m.s EXCEPT ![m.right] = s[e]], s, b, e)
  BY <1>3, ShuffledSame
<1>5. QED
  BY <1>1, <1>2, <1>4 DEF Meeting

\* A round of the loop: what is filled in and what is left open.
IsMet(r, m, temp, f) ==
  /\ r \in Rounds /\ Len(r.s) = Len(m.s)
  /\ r.left \in m.left .. m.right /\ r.right \in r.left .. m.right
  /\ r.left = r.right \/ r.right # m.right
  /\ \A i \in 1 .. Len(m.s) : i # r.right => r.s[i] = f[Turn(i, r.left, r.right, m.right)]
  /\ \A i \in m.left .. m.right : (i < r.left => r.s[i] <= temp) /\ (i > r.right => r.s[i] >= temp)

\* A round keeps what was in order in order.
LEMMA MeetIs ==
  ASSUME NEW m \in Rounds, NEW temp \in Int, m.left # m.right, m.left \in 1 .. Len(m.s), m.right \in m.left .. Len(m.s),
         NEW r, r = Meet(m, temp), NEW f, f = [m.s EXCEPT ![m.right] = temp]
  PROVE  IsMet(r, m, temp, f)
<1>1. PICK s, left, right : s = m.s /\ left = m.left /\ right = m.right
  OBVIOUS
<1>2. s \in Seq(Int) /\ left \in 1 .. Len(s) /\ right \in left .. Len(s) /\ left < right
  BY <1>1 DEF Rounds
<1>3. PICK l : l = StopsBeyond(s, left, right, temp)
  OBVIOUS
<1>4. /\ l \in left .. right
      /\ l = right \/ s[l] > temp
      /\ \A i \in left .. right : i < l => s[i] <= temp
  BY <1>2, <1>3, BeyondIs
<1>5. PICK up : up = [s EXCEPT ![right] = s[l]]
  OBVIOUS
<1>6. up \in Seq(Int) /\ Len(up) = Len(s) /\ \A i \in 1 .. Len(s) : up[i] = IF i = right THEN s[l] ELSE s[i]
  BY <1>2, <1>4, <1>5, SMTT(30)
<1>7. PICK g : g = StopsBelow(up, l, right, temp)
  OBVIOUS
<1>8. /\ g \in l .. right
      /\ g = l \/ up[g] < temp
      /\ \A i \in l .. right : i > g => up[i] >= temp
  <2>1. l \in 1 .. Len(up) /\ right \in l .. Len(up)
    BY <1>2, <1>4, <1>6
  <2>2. up \in Seq(Int) /\ g = StopsBelow(up, l, right, temp)
    BY <1>6, <1>7
  <2>3. QED
    BY <2>1, <2>2, BelowIs
<1>9. l = right \/ g # right
  BY <1>2, <1>4, <1>6, <1>8
<1>10. PICK t : t = [up EXCEPT ![l] = up[g]]
  OBVIOUS
<1>11. t \in Seq(Int) /\ Len(t) = Len(s) /\ \A i \in 1 .. Len(s) : t[i] = IF i = l THEN up[g] ELSE up[i]
  <2>1. l \in 1 .. Len(s) /\ g \in 1 .. Len(s)
    BY <1>2, <1>4, <1>8
  <2>2. up[g] \in Int
    BY <1>6, <2>1
  <2>3. QED
    BY <1>6, <1>10, <2>1, <2>2
<1>12. r = [s |-> t, left |-> l, right |-> g]
  BY <1>1, <1>2, <1>3, <1>5, <1>7, <1>10 DEF Meet
<1>13. r \in Rounds /\ r.s = t /\ r.left = l /\ r.right = g
  BY <1>2, <1>4, <1>8, <1>11, <1>12 DEF Rounds
<1>14. ASSUME NEW i \in 1 .. Len(s), i # g
       PROVE  t[i] = f[Turn(i, l, g, right)]
  <2>1. f = [s EXCEPT ![right] = temp]
    BY <1>1
  <2>2. \A j \in 1 .. Len(s) : f[j] = IF j = right THEN temp ELSE s[j]
    BY <1>2, <2>1
  <2>3. l \in 1 .. Len(s) /\ g \in 1 .. Len(s) /\ right \in 1 .. Len(s)
    BY <1>2, <1>4, <1>8
  <2>4. CASE i = right
    <3>1. l # right
      BY <1>8, <1>14, <2>4
    <3>2. t[i] = s[l] /\ Turn(i, l, g, right) = l
      BY <1>6, <1>11, <2>3, <2>4, <3>1 DEF Turn
    <3>3. QED
      BY <2>1, <2>2, <2>3, <3>1, <3>2
  <2>5. CASE i # right /\ i = l
    <3>1. g # right
      BY <1>9, <2>5
    <3>2. t[i] = s[g] /\ Turn(i, l, g, right) = g
      BY <1>6, <1>11, <1>14, <2>3, <2>5, <3>1 DEF Turn
    <3>3. QED
      BY <2>1, <2>2, <2>3, <3>1, <3>2
  <2>6. CASE i # right /\ i # l
    <3>1. t[i] = s[i] /\ Turn(i, l, g, right) = i
      BY <1>6, <1>11, <1>14, <2>3, <2>6 DEF Turn
    <3>2. QED
      BY <2>1, <2>2, <2>6, <3>1
  <2>7. QED
    BY <2>4, <2>5, <2>6
<1>15. ASSUME NEW i \in left .. right
       PROVE  (i < l => t[i] <= temp) /\ (i > g => t[i] >= temp)
  <2>1. i \in 1 .. Len(s)
    BY <1>2
  <2>2. ASSUME i < l PROVE t[i] <= temp
    <3>1. i # l /\ i # right
      BY <1>2, <1>4, <2>2
    <3>2. t[i] = s[i]
      BY <1>6, <1>11, <2>1, <3>1
    <3>3. QED
      BY <1>4, <2>2, <3>2
  <2>3. ASSUME i > g PROVE t[i] >= temp
    <3>1. i # l /\ i \in l .. right
      BY <1>4, <1>8, <2>3
    <3>2. t[i] = up[i]
      BY <1>11, <2>1, <3>1
    <3>3. QED
      BY <1>8, <2>3, <3>1, <3>2
  <2>4. QED
    BY <2>2, <2>3
<1>16. Len(r.s) = Len(m.s) /\ r.left \in m.left .. m.right /\ r.right \in r.left .. m.right
  BY <1>1, <1>4, <1>8, <1>11, <1>13
<1>17. r.left = r.right \/ r.right # m.right
  BY <1>1, <1>4, <1>8, <1>9, <1>13
<1>18. QED
  BY <1>1, <1>13, <1>14, <1>15, <1>16, <1>17 DEF IsMet

\* A round keeps the state of partition, and brings the ends nearer.
LEMMA MeetingMore ==
  ASSUME NEW s \in Seq(Int), NEW b \in 1 .. Len(s), NEW e \in b .. Len(s), NEW m, Meeting(m, s, b, e),
         m.left # m.right, NEW r, r = Meet(m, s[e])
  PROVE  Meeting(r, s, b, e) /\ (r.left = r.right \/ r.right - r.left < m.right - m.left)
<1>1. /\ m \in Rounds /\ Len(m.s) = Len(s)
      /\ m.left \in b .. e /\ m.right \in b .. e /\ m.left <= m.right
      /\ Shuffled([m.s EXCEPT ![m.right] = s[e]], s, b, e)
      /\ \A i \in b .. e : (i < m.left => m.s[i] <= s[e]) /\ (i > m.right => m.s[i] >= s[e])
  BY DEF Meeting
<1>2. PICK temp \in Int : temp = s[e]
  OBVIOUS
<1>3. m.left \in 1 .. Len(m.s) /\ m.right \in m.left .. Len(m.s) /\ m.s \in Seq(Int)
  BY <1>1 DEF Rounds
<1>4a. PICK f : f = [m.s EXCEPT ![m.right] = temp]
  OBVIOUS
<1>4. /\ r \in Rounds /\ Len(r.s) = Len(m.s)
      /\ r.left \in m.left .. m.right /\ r.right \in r.left .. m.right
      /\ r.left = r.right \/ r.right # m.right
      /\ \A i \in 1 .. Len(m.s) : i # r.right =>
               r.s[i] = f[Turn(i, r.left, r.right, m.right)]
      /\ \A i \in m.left .. m.right : (i < r.left => r.s[i] <= temp) /\ (i > r.right => r.s[i] >= temp)
  <2>1. m \in Rounds /\ temp \in Int /\ m.left # m.right /\ r = Meet(m, temp)
    BY <1>1, <1>2
  <2>2. QED
    <3>1. IsMet(r, m, temp, f)
      BY ONLY <1>3, <1>4a, <2>1, MeetIs
    <3>2. QED
      BY <3>1 DEF IsMet
<1>5. r.s \in Seq(Int)
  BY <1>4 DEF Rounds
<1>6. PICK n, l, g, right : n = Len(s) /\ l = r.left /\ g = r.right /\ right = m.right
  OBVIOUS
<1>7. /\ n \in Nat /\ l \in b .. e /\ g \in l .. e /\ right \in g .. e
      /\ l \in 1 .. n /\ g \in 1 .. n /\ right \in 1 .. n /\ (g = right => l = g)
  <2>1. b \in Nat /\ e \in Nat /\ n \in Nat /\ 1 <= b /\ b <= e /\ e <= n
    BY <1>6
  <2>2. m.left \in Int /\ right \in Int /\ b <= m.left /\ m.left <= right /\ right <= e
    BY <1>1, <1>6
  <2>3. l \in Int /\ g \in Int /\ m.left <= l /\ l <= g /\ g <= right /\ (g = right => l = g)
    BY <1>4, <1>6, <2>2
  <2>4. QED
    BY ONLY <2>1, <2>2, <2>3
<1>8a. f = [m.s EXCEPT ![right] = temp]
  BY <1>4a, <1>6
<1>8. PICK h : h = [r.s EXCEPT ![g] = temp]
  OBVIOUS
<1>9. f \in Seq(Int) /\ Len(f) = n /\ \A i \in 1 .. n : f[i] = IF i = right THEN temp ELSE m.s[i]
  BY <1>1, <1>3, <1>6, <1>7, <1>8a, SMTT(30)
<1>10. h \in Seq(Int) /\ Len(h) = n /\ \A i \in 1 .. n : h[i] = IF i = g THEN temp ELSE r.s[i]
  <2>1. Len(r.s) = n
    BY <1>1, <1>4, <1>6
  <2>2. QED
    BY <1>2, <1>5, <1>7, <1>8, <2>1, SMTT(30)
<1>11. \A i \in 1 .. n : i # g => r.s[i] = f[Turn(i, l, g, right)]
  BY <1>1, <1>4, <1>6
<1>12. ASSUME NEW i \in 1 .. n
       PROVE  h[i] = f[Turn(i, l, g, right)]
  <2>1. CASE i # g
    BY <1>10, <1>11, <2>1
  <2>2. CASE i = g
    <3>1. Turn(i, l, g, right) = right
      BY <1>7, <2>2 DEF Turn
    <3>2. QED
      BY <1>7, <1>9, <1>10, <2>2, <3>1
  <2>3. QED
    BY <2>1, <2>2
<1>13. Shuffled(h, f, b, e)
  <2>1. b \in 1 .. Len(f) /\ e \in 1 .. Len(f) /\ Len(h) = Len(f)
    BY <1>6, <1>9, <1>10
  <2>2. \A i \in 1 .. Len(f) : h[i] = f[Turn(i, l, g, right)]
    BY <1>9, <1>12
  <2>3. g = right => l = g
    BY <1>7
  <2>4. f \in Seq(Int) /\ h \in Seq(Int) /\ l \in b .. e /\ g \in l .. e /\ right \in g .. e
    BY <1>7, <1>9, <1>10
  <2>5. QED
    BY ONLY <2>1, <2>2, <2>3, <2>4, ShuffledTurn
<1>14. Shuffled(h, s, b, e)
  <2>1. Shuffled(f, s, b, e)
    BY <1>1, <1>2, <1>6, <1>8a
  <2>2. QED
    BY <1>13, <2>1, ShuffledTwice
<1>15. ASSUME NEW i \in b .. e
       PROVE  (i < l => r.s[i] <= temp) /\ (i > g => r.s[i] >= temp)
  <2>1. i \in 1 .. n
    BY <1>6
  <2>2. CASE i \in m.left .. right
    BY <1>4, <1>6, <2>2
  <2>3. CASE i \notin m.left .. right
    <3>1. i < m.left \/ i > right
      BY <1>1, <1>6, <2>3
    <3>2. i # l /\ i # g /\ i # right
      BY <1>1, <1>4, <1>6, <3>1, SMTT(30)
    <3>3. r.s[i] = m.s[i]
      BY <1>9, <1>11, <2>1, <3>2 DEF Turn
    <3>4. (i < l => i < m.left) /\ (i > g => i > right)
      BY <1>1, <1>4, <1>6, <3>1, SMTT(30)
    <3>5. QED
      BY <1>1, <1>2, <1>6, <3>3, <3>4
  <2>4. QED
    BY <2>2, <2>3
<1>16. Meeting(r, s, b, e)
  <2>1. [r.s EXCEPT ![r.right] = s[e]] = h
    BY <1>2, <1>6, <1>8
  <2>2. r.left \in b .. e /\ r.right \in b .. e /\ r.left <= r.right
    BY <1>6, <1>7
  <2>3. \A i \in b .. e : (i < r.left => r.s[i] <= s[e]) /\ (i > r.right => r.s[i] >= s[e])
    BY <1>2, <1>6, <1>15
  <2>4. QED
    BY <1>1, <1>4, <1>14, <2>1, <2>2, <2>3 DEF Meeting
<1>17. r.left = r.right \/ r.right - r.left < m.right - m.left
  <2>1. m.left \in Int /\ m.right \in Int /\ m.left <= m.right
    BY <1>1
  <2>2. r.left \in Int /\ r.right \in Int /\ m.left <= r.left /\ r.right <= m.right
    BY <1>4, <2>1
  <2>3. r.left = r.right \/ r.right # m.right
    BY <1>4
  <2>4. QED
    BY ONLY <2>1, <2>2, <2>3
<1>18. QED
  BY <1>16, <1>17

\* What the recursive function of Parted is.
MeetsIn(h, m, temp, k) == h = [n \in 0 .. k |-> IF n = 0 THEN m ELSE Meet(h[n - 1], temp)]

\* After k rounds, the ends are nearer by k, or have met.
Near(m, s, b, e, k) == Meeting(m, s, b, e) /\ (m.left = m.right \/ m.right - m.left <= e - b - k)

\* One round more.
LEMMA NearMore ==
  ASSUME NEW s \in Seq(Int), NEW b \in 1 .. Len(s), NEW e \in b .. Len(s), NEW k \in Nat, NEW m, Near(m, s, b, e, k)
  PROVE  Near(Meet(m, s[e]), s, b, e, k + 1)
<1>1. PICK r : r = Meet(m, s[e])
  OBVIOUS
<1>2. Meeting(m, s, b, e) /\ (m.left = m.right \/ m.right - m.left <= e - b - k)
  BY DEF Near
<1>3. CASE m.left = m.right
  <2>1. r = m
    BY <1>1, <1>3 DEF Meet
  <2>2. QED
    BY <1>1, <1>2, <1>3, <2>1 DEF Near
<1>4. CASE m.left # m.right
  <2>1. Meeting(r, s, b, e) /\ (r.left = r.right \/ r.right - r.left < m.right - m.left)
    BY <1>1, <1>2, <1>4, MeetingMore
  <2>2. m.left \in Int /\ m.right \in Int /\ r.left \in Int /\ r.right \in Int
    BY <1>2, <2>1 DEF Meeting
  <2>3. r.left = r.right \/ r.right - r.left <= e - b - (k + 1)
    BY <1>2, <1>4, <2>1, <2>2
  <2>4. QED
    BY <1>1, <2>1, <2>3 DEF Near
<1>5. QED
  BY <1>3, <1>4

\* After as many rounds as there are elements, the ends have met.
LEMMA MeetingAfter ==
  ASSUME NEW s \in Seq(Int), NEW b \in 1 .. Len(s), NEW e \in b .. Len(s), NEW m, Near(m, s, b, e, 0),
         NEW met, met = CHOOSE h : MeetsIn(h, m, s[e], e - b)
  PROVE  Near(met[e - b], s, b, e, e - b)
<1>1. PICK n \in Nat : n = e - b
  OBVIOUS
<1>2. PICK temp : temp = s[e]
  OBVIOUS
<1> DEFINE U == {r \in Rounds : Meeting(r, s, b, e)}
           G == [r \in U |-> Meet(r, temp)]
<1>3. G \in [U -> U]
  <2>1. ASSUME NEW r \in U
        PROVE  Meet(r, temp) \in U
    <3>1. CASE r.left = r.right
      BY <2>1, <3>1 DEF Meet
    <3>2. CASE r.left # r.right
      <4>1. PICK q : q = Meet(r, s[e])
        OBVIOUS
      <4>2. Meeting(q, s, b, e)
        BY <2>1, <3>2, <4>1, MeetingMore
      <4>3. QED
        BY <1>2, <4>1, <4>2 DEF Meeting
    <3>3. QED
      BY <3>1, <3>2
  <2>2. QED
    BY <2>1
<1>4. m \in U
  BY DEF Near, Meeting
<1>5. \A r \in U : G[r] = Meet(r, temp)
  OBVIOUS
<1> HIDE DEF G, U
<1>6. PICK f : Iterated(f, U, G, m, n)
  BY <1>3, <1>4, Iterates
<1>7. f \in [0 .. n -> U] /\ f[0] = m /\ \A i \in 1 .. n : f[i] = G[f[i - 1]]
  BY <1>6 DEF Iterated
<1>8. ASSUME NEW i \in 1 .. n
      PROVE  f[i] = Meet(f[i - 1], temp)
  <2>1. i - 1 \in 0 .. n
    OBVIOUS
  <2>2. QED
    BY <1>5, <1>7, <2>1
<1>9. MeetsIn(f, m, temp, n)
  <2>1. f = [i \in 0 .. n |-> f[i]]
    BY <1>7
  <2>2. \A i \in 0 .. n : f[i] = IF i = 0 THEN m ELSE Meet(f[i - 1], temp)
    <3>1. \A i \in 0 .. n : i # 0 => i \in 1 .. n
      OBVIOUS
    <3>2. QED
      BY <1>7, <1>8, <3>1
  <2>3. QED
    BY <2>1, <2>2, Zenon DEF MeetsIn
<1>10. MeetsIn(met, m, temp, n)
  BY <1>1, <1>2, <1>9, Zenon
<1>11. ASSUME NEW i \in 0 .. n
       PROVE  met[i] = IF i = 0 THEN m ELSE Meet(met[i - 1], temp)
  BY <1>10, Zenon DEF MeetsIn
<1> DEFINE T == {i \in Nat : i <= n => Near(met[i], s, b, e, i)}
<1>12. 0 \in T
  <2>1. met[0] = m
    BY <1>11
  <2>2. QED
    BY <2>1
<1>13. ASSUME NEW i \in Nat, i \in T
       PROVE  i + 1 \in T
  <2>1. SUFFICES ASSUME i + 1 <= n PROVE Near(met[i + 1], s, b, e, i + 1)
    OBVIOUS
  <2>2. Near(met[i], s, b, e, i)
    BY <1>13, <2>1
  <2>3. Near(Meet(met[i], s[e]), s, b, e, i + 1)
    BY <2>2, NearMore
  <2>4. PICK j : j = i + 1
    OBVIOUS
  <2>5. j \in 0 .. n /\ j # 0 /\ j - 1 = i
    BY <2>1, <2>4
  <2>6. met[j] = Meet(met[i], s[e])
    BY <1>2, <1>11, <2>5
  <2>7. QED
    BY <2>3, <2>4, <2>6
<1> HIDE DEF T
<1>14. n \in T
  BY <1>12, <1>13, SetInduction
<1>15. QED
  BY <1>1, <1>14 DEF T

\* partition: the elements up to the middle are not above, the others not below it.
IsParted(p, s, b, e) ==
  /\ Shuffled(p.s, s, b, e) /\ p.middle \in b .. e
  /\ \A i \in b .. e : (i < p.middle => p.s[i] <= p.s[p.middle]) /\ (i > p.middle => p.s[i] >= p.s[p.middle])

\* partition parts the elements.
LEMMA PartedIs ==
  ASSUME NEW s \in Seq(Int), NEW b \in 1 .. Len(s), NEW e \in b .. Len(s)
  PROVE  IsParted(Parted(s, b, e, s[e]), s, b, e)
<1>1. PICK m : m = [s |-> s, left |-> b, right |-> e]
  OBVIOUS
<1>2. Meeting(m, s, b, e)
  BY <1>1, MeetingFirst
<1>3. Near(m, s, b, e, 0)
  BY <1>1, <1>2 DEF Near
<1>4. PICK met : met = CHOOSE h : MeetsIn(h, m, s[e], e - b)
  OBVIOUS
<1>5. PICK r : r = met[e - b]
  OBVIOUS
<1>6. Near(r, s, b, e, e - b)
  BY <1>3, <1>4, <1>5, MeetingAfter
<1>7. /\ r \in Rounds /\ Len(r.s) = Len(s)
      /\ r.left \in b .. e /\ r.right \in b .. e /\ r.left <= r.right
      /\ Shuffled([r.s EXCEPT ![r.right] = s[e]], s, b, e)
      /\ \A i \in b .. e : (i < r.left => r.s[i] <= s[e]) /\ (i > r.right => r.s[i] >= s[e])
  BY <1>6 DEF Near, Meeting
<1>8. r.left = r.right
  BY <1>6, <1>7 DEF Near
<1>9. PICK p : p = Parted(s, b, e, s[e])
  OBVIOUS
<1>10. p = [s |-> [r.s EXCEPT ![r.left] = s[e]], middle |-> r.left]
  <2>1. met = CHOOSE h : h = [n \in 0 .. e - b |-> IF n = 0 THEN [s |-> s, left |-> b, right |-> e]
                                                   ELSE Meet(h[n - 1], s[e])]
    BY <1>1, <1>4, Zenon DEF MeetsIn
  <2>2. QED
    BY <1>5, <1>9, <2>1, Zenon DEF Parted
<1>11. p.middle = r.left /\ p.s = [r.s EXCEPT ![r.right] = s[e]]
  BY <1>8, <1>10
<1>12. r.s \in Seq(Int) /\ r.left \in 1 .. Len(r.s)
  BY <1>7 DEF Rounds
<1>13. p.s[p.middle] = s[e] /\ \A i \in b .. e : i # p.middle => p.s[i] = r.s[i]
  <2>1. \A i \in b .. e : i \in 1 .. Len(r.s)
    BY <1>7
  <2>2. QED
    BY <1>8, <1>11, <1>12, <2>1
<1>14. QED
  BY <1>7, <1>8, <1>9, <1>11, <1>13 DEF IsParted

\* The parts still to be sorted: in lo .. n, ascending and apart, of two elements or more.
PartsOk(todo, lo, n) ==
  /\ todo \in Seq(Nat \X Nat)
  /\ \A k \in 1 .. Len(todo) : lo <= todo[k][1] /\ todo[k][1] < todo[k][2] /\ todo[k][2] <= n
  /\ \A k, l \in 1 .. Len(todo) : k < l => todo[k][2] < todo[l][1]

\* Is there a part with both i and j?
Covered(todo, i, j) == \E k \in 1 .. Len(todo) : todo[k][1] <= i /\ j <= todo[k][2]

\* The first part, and the others.
LEMMA PartsTail ==
  ASSUME NEW todo, NEW lo \in Nat, NEW n \in Nat, PartsOk(todo, lo, n), todo # << >>,
         NEW b, b = Head(todo)[1], NEW e, e = Head(todo)[2]
  PROVE  /\ b \in Nat /\ e \in Nat /\ lo <= b /\ b < e /\ e <= n
         /\ PartsOk(Tail(todo), e + 1, n)
         /\ \A i, j \in Int : Covered(todo, i, j) <=> (b <= i /\ j <= e) \/ Covered(Tail(todo), i, j)
<1>1. PICK c : c = Len(todo)
  OBVIOUS
<1>2. /\ todo \in Seq(Nat \X Nat)
      /\ \A k \in 1 .. c : lo <= todo[k][1] /\ todo[k][1] < todo[k][2] /\ todo[k][2] <= n
      /\ \A k, l \in 1 .. c : k < l => todo[k][2] < todo[l][1]
  BY <1>1 DEF PartsOk
<1>3. c \in Nat \ {0} /\ b = todo[1][1] /\ e = todo[1][2]
  BY <1>1, <1>2
<1>4. \A k \in 1 .. c : todo[k][1] \in Nat /\ todo[k][2] \in Nat
  BY <1>1, <1>2
<1>5. b \in Nat /\ e \in Nat /\ lo <= b /\ b < e /\ e <= n
  BY <1>2, <1>3, <1>4
<1>6. PICK t : t = Tail(todo)
  OBVIOUS
<1>7. t \in Seq(Nat \X Nat) /\ Len(t) = c - 1 /\ \A k \in 1 .. c - 1 : t[k] = todo[k + 1]
  BY <1>1, <1>2, <1>3, <1>6
<1>8. PartsOk(t, e + 1, n)
  <2>1. ASSUME NEW k \in 1 .. c - 1
        PROVE  e + 1 <= t[k][1] /\ t[k][1] < t[k][2] /\ t[k][2] <= n
    <3>1. PICK g \in 1 .. c : g = k + 1 /\ 1 < g
      BY <1>3
    <3>2. e < todo[g][1]
      BY <1>2, <1>3, <3>1
    <3>3. t[k] = todo[g]
      BY <1>7, <3>1
    <3>4. todo[g][1] \in Nat /\ e + 1 <= todo[g][1]
      BY <1>4, <1>5, <3>2
    <3>5. QED
      BY <1>2, <3>3, <3>4
  <2>2. ASSUME NEW k \in 1 .. c - 1, NEW l \in 1 .. c - 1, k < l
        PROVE  t[k][2] < t[l][1]
    <3>1. PICK g \in 1 .. c : g = k + 1
      BY <1>3
    <3>2. PICK h \in 1 .. c : h = l + 1
      BY <1>3
    <3>3. t[k] = todo[g] /\ t[l] = todo[h]
      BY <1>7, <3>1, <3>2
    <3>4. g < h
      BY <2>2, <3>1, <3>2
    <3>5. QED
      BY <1>2, <3>3, <3>4
  <2>3. QED
    BY <1>7, <2>1, <2>2 DEF PartsOk
<1>9. ASSUME NEW i \in Int, NEW j \in Int
      PROVE  Covered(todo, i, j) <=> (b <= i /\ j <= e) \/ Covered(t, i, j)
  <2>1. ASSUME Covered(todo, i, j) PROVE (b <= i /\ j <= e) \/ Covered(t, i, j)
    <3>1. PICK k \in 1 .. c : todo[k][1] <= i /\ j <= todo[k][2]
      BY <1>1, <2>1 DEF Covered
    <3>2. CASE k = 1
      BY <1>3, <3>1, <3>2
    <3>3. CASE k # 1
      <4>1. PICK g \in 1 .. c - 1 : g = k - 1 /\ g + 1 = k
        BY <1>3, <3>3
      <4>2. t[g] = todo[k]
        BY <1>7, <4>1
      <4>3. Covered(t, i, j)
        BY <1>7, <3>1, <4>1, <4>2 DEF Covered
      <4>4. QED
        BY <4>3
    <3>4. QED
      BY <3>2, <3>3
  <2>2. ASSUME Covered(t, i, j) PROVE Covered(todo, i, j)
    <3>1. PICK k \in 1 .. c - 1 : t[k][1] <= i /\ j <= t[k][2]
      BY <1>7, <2>2 DEF Covered
    <3>2. PICK g \in 1 .. c : g = k + 1
      BY <1>3
    <3>3. t[k] = todo[g]
      BY <1>7, <3>2
    <3>4. QED
      BY <1>1, <3>1, <3>2, <3>3 DEF Covered
  <2>3. ASSUME b <= i, j <= e PROVE Covered(todo, i, j)
    BY <1>1, <1>3, <2>3 DEF Covered
  <2>4. QED
    BY <2>1, <2>2, <2>3
<1>10. QED
  BY <1>5, <1>6, <1>8, <1>9

\* A part in front, if it is worth it.
PartOf(b, e) == IF WorthSorting(b, e) THEN <<<<b, e>>>> ELSE << >>

\* A part more in front.
LEMMA PartsMore ==
  ASSUME NEW t, NEW lo \in Nat, NEW up \in Nat, NEW n \in Nat, PartsOk(t, up, n),
         NEW b \in Nat, NEW e \in Int, lo <= b, e < up, e <= n, lo <= up, NEW r, r = PartOf(b, e) \o t
  PROVE  /\ PartsOk(r, lo, n)
         /\ \A i, j \in Int : i < j => (Covered(r, i, j) <=> (b <= i /\ j <= e) \/ Covered(t, i, j))
<1>1. PICK c : c = Len(t)
  OBVIOUS
<1>2. /\ t \in Seq(Nat \X Nat)
      /\ \A k \in 1 .. c : up <= t[k][1] /\ t[k][1] < t[k][2] /\ t[k][2] <= n
      /\ \A k, l \in 1 .. c : k < l => t[k][2] < t[l][1]
  BY <1>1 DEF PartsOk
<1>3. c \in Nat /\ \A k \in 1 .. c : t[k][1] \in Nat /\ t[k][2] \in Nat
  BY <1>1, <1>2
<1>4. CASE ~ b < e
  <2>1. PartOf(b, e) = << >>
    BY <1>4 DEF PartOf, WorthSorting
  <2>2. r = t
    BY <1>2, <2>1
  <2>3. PartsOk(t, lo, n)
    BY <1>1, <1>2, <1>3 DEF PartsOk
  <2>4. \A i, j \in Int : i < j => ~(b <= i /\ j <= e)
    BY <1>4
  <2>5. QED
    BY <2>2, <2>3, <2>4
<1>5. CASE b < e
  <2>1. e \in Nat
    BY <1>5
  <2>2. PICK x \in Nat \X Nat : x = <<b, e>>
    BY <2>1
  <2>3. PartOf(b, e) = <<x>>
    BY <1>5, <2>2 DEF PartOf, WorthSorting
  <2>4. r = <<x>> \o t
    BY <2>3
  <2>5. r \in Seq(Nat \X Nat) /\ Len(r) = c + 1 /\ r[1] = x /\ \A k \in 1 .. c : r[k + 1] = t[k]
    BY <1>1, <1>2, <2>2, <2>4
  <2>6. x[1] = b /\ x[2] = e
    BY <2>2
  <2>7. \A k \in 1 .. c + 1 : k = 1 \/ k - 1 \in 1 .. c
    BY <1>3
  <2>8. ASSUME NEW k \in 1 .. c + 1
        PROVE  lo <= r[k][1] /\ r[k][1] < r[k][2] /\ r[k][2] <= n
    <3>1. CASE k = 1
      BY <1>5, <2>5, <2>6, <3>1
    <3>2. CASE k # 1
      <4>1. PICK g \in 1 .. c : g + 1 = k
        BY <1>3, <3>2
      <4>2. r[k] = t[g]
        BY <2>5, <4>1
      <4>3. QED
        BY <1>2, <1>3, <4>2, SMTT(30)
    <3>3. QED
      BY <3>1, <3>2
  <2>9. ASSUME NEW k \in 1 .. c + 1, NEW l \in 1 .. c + 1, k < l
        PROVE  r[k][2] < r[l][1]
    <3>0. l # 1 /\ l - 1 \in 1 .. c
      BY <1>3, <2>9
    <3>1. PICK h \in 1 .. c : h + 1 = l
      BY <3>0
    <3>2. r[l] = t[h]
      BY <2>5, <3>1
    <3>3. CASE k = 1
      <4>1. r[k][2] = e
        BY <2>5, <2>6, <3>3
      <4>2. up <= t[h][1] /\ t[h][1] \in Nat
        BY <1>2, <1>3
      <4>3. QED
        BY <2>1, <3>2, <4>1, <4>2
    <3>4. CASE k # 1
      <4>1. PICK g \in 1 .. c : g + 1 = k
        BY <1>3, <3>4
      <4>2. r[k] = t[g]
        BY <2>5, <4>1
      <4>3. QED
        BY <1>2, <2>9, <3>1, <3>2, <4>1, <4>2
    <3>5. QED
      BY <3>3, <3>4
  <2>10. PartsOk(r, lo, n)
    BY <2>5, <2>8, <2>9 DEF PartsOk
  <2>11. ASSUME NEW i \in Int, NEW j \in Int
         PROVE  Covered(r, i, j) <=> (b <= i /\ j <= e) \/ Covered(t, i, j)
    <3>1. ASSUME Covered(r, i, j) PROVE (b <= i /\ j <= e) \/ Covered(t, i, j)
      <4>1. PICK k \in 1 .. c + 1 : r[k][1] <= i /\ j <= r[k][2]
        BY <2>5, <3>1 DEF Covered
      <4>2. CASE k = 1
        BY <2>5, <2>6, <4>1, <4>2
      <4>3. CASE k # 1
        <5>1. PICK g \in 1 .. c : g + 1 = k
          BY <1>3, <4>3
        <5>2. r[k] = t[g]
          BY <2>5, <5>1
        <5>3. Covered(t, i, j)
          BY <1>1, <4>1, <5>2 DEF Covered
        <5>4. QED
          BY <5>3
      <4>4. QED
        BY <4>2, <4>3
    <3>2. ASSUME Covered(t, i, j) PROVE Covered(r, i, j)
      <4>1. PICK k \in 1 .. c : t[k][1] <= i /\ j <= t[k][2]
        BY <1>1, <3>2 DEF Covered
      <4>2. PICK g \in 1 .. c + 1 : g = k + 1
        BY <1>3
      <4>3. r[g] = t[k]
        BY <2>5, <4>2
      <4>4. QED
        BY <2>5, <4>1, <4>2, <4>3 DEF Covered
    <3>3. ASSUME b <= i, j <= e PROVE Covered(r, i, j)
      <4>1. 1 \in 1 .. c + 1
        BY <1>3
      <4>2. QED
        BY <2>5, <2>6, <3>3, <4>1 DEF Covered
    <3>4. QED
      BY <3>1, <3>2, <3>3
  <2>12. QED
    BY <2>10, <2>11
<1>6. QED
  BY <1>4, <1>5

Sortings == [s : Seq(Int), todo : Seq(Nat \X Nat)]

\* Two elements are in order, unless a part still to be sorted has both.
Ordered(s, todo) == \A i, j \in 1 .. Len(s) : i < j => Covered(todo, i, j) \/ s[i] <= s[j]

\* A state of quick_sort of s.
Quick(m, s) ==
  /\ m \in Sortings
  /\ Shuffled(m.s, s, 1, Len(s))
  /\ PartsOk(m.todo, 1, Len(s))
  /\ Ordered(m.s, m.todo)

\* The neighbours that a part has both of.
Joined(todo, n) == {i \in 1 .. n - 1 : Covered(todo, i, i + 1)}

\* The elements of a part lie in it.
LEMMA CoveredFrom ==
  ASSUME NEW t, NEW lo \in Nat, NEW n \in Nat, PartsOk(t, lo, n), NEW i \in Int, NEW j \in Int, Covered(t, i, j)
  PROVE  lo <= i
<1>1. PICK k \in 1 .. Len(t) : t[k][1] <= i
  BY DEF Covered
<1>2. t[k][1] \in Nat /\ lo <= t[k][1]
  BY DEF PartsOk
<1>3. QED
  BY <1>1, <1>2

\* A call of quick_sort.
LEMMA SortPartIs ==
  ASSUME NEW m \in Sortings, m.todo # << >>, NEW b, b = Head(m.todo)[1], NEW e, e = Head(m.todo)[2],
         NEW p, p = Parted(m.s, b, e, m.s[e]), NEW mid \in Int, mid = p.middle
  PROVE  SortPart(m) = [s |-> p.s, todo |-> PartOf(b, mid - 1) \o (PartOf(mid + 1, e) \o Tail(m.todo))]
<1>1. m.todo \in Seq(Nat \X Nat) /\ b \in Nat /\ e \in Nat
  BY DEF Sortings
<1>2. PICK u, v, t : u = PartOf(b, mid - 1) /\ v = PartOf(mid + 1, e) /\ t = Tail(m.todo)
  OBVIOUS
<1>3. u \in Seq(Int \X Int) /\ v \in Seq(Int \X Int) /\ t \in Seq(Int \X Int)
  <2>0. PICK c, d \in Int : c = mid - 1 /\ d = mid + 1
    OBVIOUS
  <2>1. PICK V : V = Int \X Int
    OBVIOUS
  <2>2. PICK x, y : x = <<b, c>> /\ y = <<d, e>>
    OBVIOUS
  <2>3. x \in V /\ y \in V
    <3>1. b \in Int /\ e \in Int
      BY <1>1
    <3>2. <<b, c>> \in Int \X Int /\ <<d, e>> \in Int \X Int
      BY ONLY <3>1, c \in Int, d \in Int
    <3>3. QED
      BY <2>1, <2>2, <3>2, Zenon
  <2>4. u \in {<<x>>, << >>} /\ v \in {<<y>>, << >>}
    BY <1>2, <2>0, <2>2 DEF PartOf
  <2>5. u \in Seq(V) /\ v \in Seq(V)
    <3>1. <<x>> \in Seq(V) /\ <<y>> \in Seq(V)
      BY ONLY <2>3
    <3>2. << >> \in Seq(V)
      BY ONLY TRUE
    <3>3. u \in Seq(V)
      BY <2>4, <3>1, <3>2, Zenon
    <3>4. v \in Seq(V)
      BY <2>4, <3>1, <3>2, Zenon
    <3>5. QED
      BY <3>3, <3>4
  <2>6. t \in Seq(Nat \X Nat)
    BY <1>1, <1>2, HeadTailProperties, Zenon
  <2>7. \A i \in 1 .. Len(t) : t[i] \in Int \X Int
    BY <2>6
  <2>8. t \in Seq(Int \X Int)
    BY <2>6, <2>7
  <2>9. QED
    BY <2>1, <2>5, <2>8
<1>4. (u \o v) \o t = u \o (v \o t)
  <2>1. PICK V : V = Int \X Int
    OBVIOUS
  <2>2. u \in Seq(V) /\ v \in Seq(V) /\ t \in Seq(V)
    BY <1>3, <2>1
  <2>3. QED
    BY ONLY <2>2, CatAssoc
<1>5. SortPart(m) = [s |-> p.s, todo |-> (u \o v) \o t]
  BY <1>2 DEF SortPart, PartOf
<1>6. QED
  BY <1>2, <1>4, <1>5

\* What is still to be sorted after it.
IsAfter(r, todo, b, e, mid, n) ==
  /\ b \in 1 .. n /\ e \in b .. n /\ b < e
  /\ PartsOk(r, 1, n) /\ PartsOk(Tail(todo), e + 1, n)
  /\ \A i, j \in Int : Covered(todo, i, j) <=> (b <= i /\ j <= e) \/ Covered(Tail(todo), i, j)
  /\ \A i, j \in Int : i < j =>
       (Covered(r, i, j) <=> (b <= i /\ j <= mid - 1) \/ (mid + 1 <= i /\ j <= e) \/ Covered(Tail(todo), i, j))

\* A part is replaced by those on both sides of its middle.
LEMMA PartsAfter ==
  ASSUME NEW todo, NEW n \in Nat, PartsOk(todo, 1, n), todo # << >>,
         NEW b, b = Head(todo)[1], NEW e, e = Head(todo)[2], NEW mid \in b .. e,
         NEW r, r = PartOf(b, mid - 1) \o (PartOf(mid + 1, e) \o Tail(todo))
  PROVE  IsAfter(r, todo, b, e, mid, n)
<1>1. PICK t : t = Tail(todo)
  OBVIOUS
<1>2. /\ b \in Nat /\ e \in Nat /\ 1 <= b /\ b < e /\ e <= n
      /\ PartsOk(t, e + 1, n)
      /\ \A i, j \in Int : Covered(todo, i, j) <=> (b <= i /\ j <= e) \/ Covered(t, i, j)
  BY <1>1, PartsTail
<1>3. mid \in Nat /\ b <= mid /\ mid <= e
  BY <1>2
<1>4. PICK v : v = PartOf(mid + 1, e) \o t
  OBVIOUS
<1>5. /\ PartsOk(v, mid + 1, n)
      /\ \A i, j \in Int : i < j => (Covered(v, i, j) <=> (mid + 1 <= i /\ j <= e) \/ Covered(t, i, j))
  <2>1. PICK lo \in Nat : lo = mid + 1
    BY <1>3
  <2>2. PICK up \in Nat : up = e + 1
    BY <1>2
  <2>3. PartsOk(t, up, n) /\ e < up /\ e <= n /\ lo <= up /\ lo <= lo /\ v = PartOf(lo, e) \o t /\ e \in Int
    BY <1>2, <1>3, <1>4, <2>1, <2>2
  <2>4. PartsOk(v, lo, n) /\ \A i, j \in Int : i < j => (Covered(v, i, j) <=> (lo <= i /\ j <= e) \/ Covered(t, i, j))
    BY ONLY n \in Nat, lo \in Nat, up \in Nat, <2>3, PartsMore, ZenonT(60)
  <2>5. QED
    BY <2>1, <2>4
<1>6. /\ PartsOk(r, 1, n)
      /\ \A i, j \in Int : i < j => (Covered(r, i, j) <=> (b <= i /\ j <= mid - 1) \/ Covered(v, i, j))
  <2>1. PICK g \in Int : g = mid - 1
    BY <1>3
  <2>2. PICK up \in Nat : up = mid + 1
    BY <1>3
  <2>3. /\ PartsOk(v, up, n) /\ g < up /\ g <= n /\ 1 <= up /\ 1 <= b /\ r = PartOf(b, g) \o v /\ 1 \in Nat
        /\ b \in Nat
    BY <1>1, <1>2, <1>3, <1>4, <1>5, <2>1, <2>2
  <2>4. PartsOk(r, 1, n) /\ \A i, j \in Int : i < j => (Covered(r, i, j) <=> (b <= i /\ j <= g) \/ Covered(v, i, j))
    BY ONLY n \in Nat, g \in Int, up \in Nat, <2>3, PartsMore, ZenonT(60)
  <2>5. QED
    BY <2>1, <2>4
<1>7. \A i, j \in Int : i < j =>
        (Covered(r, i, j) <=> (b <= i /\ j <= mid - 1) \/ (mid + 1 <= i /\ j <= e) \/ Covered(t, i, j))
  BY ONLY <1>5, <1>6
<1>8. b \in 1 .. n /\ e \in b .. n /\ b < e
  BY <1>2
<1>9. QED
  BY <1>1, <1>2, <1>6, <1>7, <1>8 DEF IsAfter

\* Parting a part leaves the elements in order, unless they are in a part.
LEMMA OrderedMore ==
  ASSUME NEW s \in Seq(Int), NEW todo, PartsOk(todo, 1, Len(s)), todo # << >>, Ordered(s, todo),
         NEW b, b = Head(todo)[1], NEW e, e = Head(todo)[2], NEW p, IsParted(p, s, b, e),
         NEW r, r = PartOf(b, p.middle - 1) \o (PartOf(p.middle + 1, e) \o Tail(todo))
  PROVE  Ordered(p.s, r)
<1>1. PICK n \in Nat : n = Len(s)
  OBVIOUS
<1>2. PICK mid, q : mid = p.middle /\ q = p.s
  OBVIOUS
<1>3. PICK t : t = Tail(todo)
  OBVIOUS
<1>4. /\ Shuffled(q, s, b, e) /\ mid \in b .. e
      /\ \A i \in b .. e : (i < mid => q[i] <= q[mid]) /\ (i > mid => q[i] >= q[mid])
  BY <1>2 DEF IsParted
<1>5. /\ b \in 1 .. n /\ e \in b .. n /\ b < e
      /\ PartsOk(r, 1, n) /\ PartsOk(t, e + 1, n)
      /\ \A i, j \in Int : Covered(todo, i, j) <=> (b <= i /\ j <= e) \/ Covered(t, i, j)
      /\ \A i, j \in Int : i < j =>
           (Covered(r, i, j) <=> (b <= i /\ j <= mid - 1) \/ (mid + 1 <= i /\ j <= e) \/ Covered(t, i, j))
  <2>1. r = PartOf(b, mid - 1) \o (PartOf(mid + 1, e) \o Tail(todo)) /\ PartsOk(todo, 1, n)
    BY <1>1, <1>2
  <2>2. IsAfter(r, todo, b, e, mid, n)
    BY <1>4, <2>1, PartsAfter
  <2>3. QED
    BY <1>3, <2>2 DEF IsAfter
<1>6. q \in Seq(Int) /\ Len(q) = n
  BY <1>1, <1>4, ShuffledType
<1>7. b \in Int /\ e \in Int /\ \A i \in 1 .. n : s[i] \in Int /\ q[i] \in Int
  BY <1>1, <1>5, <1>6, SMTT(30)
<1>8. ASSUME NEW i \in 1 .. n
      PROVE  /\ i \notin b .. e => q[i] = s[i]
             /\ i \in b .. e => \E x \in 1 .. n : x \in b .. e /\ q[i] = s[x]
  <2>1. Shuffled(q, s, b, e) /\ i \in 1 .. Len(s) /\ b \in Int /\ e \in Int
    BY <1>1, <1>4, <1>7
  <2>2. /\ i \notin b .. e => q[i] = s[i]
        /\ i \in b .. e => \E x \in 1 .. Len(s) : x \in b .. e /\ q[i] = s[x]
    BY ONLY <2>1, ShuffledAt
  <2>3. QED
    BY <1>1, <2>2
<1>9. ASSUME NEW i \in 1 .. n, NEW j \in 1 .. n, i < j
      PROVE  Covered(todo, i, j) \/ s[i] <= s[j]
  BY <1>1, <1>9 DEF Ordered
<1>10. ASSUME NEW i \in Int, NEW j \in Int, Covered(t, i, j)
       PROVE  e < i
  <2>1. PICK lo \in Nat : lo = e + 1
    BY <1>5
  <2>2. lo <= i
    BY <1>1, <1>5, <1>10, <2>1, CoveredFrom
  <2>3. QED
    BY <1>7, <2>1, <2>2
<1>11. ASSUME NEW i \in 1 .. n, NEW j \in 1 .. n, i < j, ~Covered(r, i, j)
       PROVE  q[i] <= q[j]
  <2>1. ~Covered(t, i, j) /\ ~(b <= i /\ j <= mid - 1) /\ ~(mid + 1 <= i /\ j <= e)
    BY <1>5, <1>11
  <2>2. CASE i \in b .. e /\ j \in b .. e
    <3>1. i <= mid /\ mid <= j
      BY <1>4, <1>7, <2>1, <2>2
    <3>2. mid \in 1 .. n
      BY <1>4, <1>5
    <3>3. (i = mid \/ q[i] <= q[mid]) /\ (j = mid \/ q[mid] <= q[j])
      BY <1>4, <1>7, <2>2, <3>1, <3>2
    <3>4. QED
      BY <1>7, <3>2, <3>3
  <2>3. CASE i \notin b .. e /\ j \notin b .. e
    <3>1. q[i] = s[i] /\ q[j] = s[j]
      BY <1>8, <2>3
    <3>2. ~(b <= i /\ j <= e)
      BY <1>7, <1>11, <2>3
    <3>3. ~Covered(todo, i, j)
      BY <1>5, <2>1, <3>2
    <3>4. QED
      BY <1>9, <1>11, <3>1, <3>3
  <2>4. CASE i \notin b .. e /\ j \in b .. e
    <3>1. q[i] = s[i] /\ i < b
      BY <1>7, <1>8, <1>11, <2>4
    <3>2. PICK x \in 1 .. n : x \in b .. e /\ q[j] = s[x]
      BY <1>8, <2>4
    <3>3. i < x /\ i <= e
      BY <1>7, <3>1, <3>2
    <3>4. ~Covered(t, i, x)
      BY <1>7, <1>10, <3>3
    <3>5. ~Covered(todo, i, x)
      BY <1>5, <1>7, <3>1, <3>4
    <3>6. QED
      BY <1>9, <3>1, <3>2, <3>3, <3>5
  <2>5. CASE i \in b .. e /\ j \notin b .. e
    <3>1. q[j] = s[j] /\ e < j
      BY <1>7, <1>8, <1>11, <2>5
    <3>2. PICK x \in 1 .. n : x \in b .. e /\ q[i] = s[x]
      BY <1>8, <2>5
    <3>3. x < j /\ x <= e
      BY <1>7, <3>1, <3>2
    <3>4. ~Covered(t, x, j)
      BY <1>7, <1>10, <3>3
    <3>5. ~Covered(todo, x, j)
      BY <1>5, <1>7, <3>1, <3>4
    <3>6. QED
      BY <1>9, <3>1, <3>2, <3>3, <3>5
  <2>6. QED
    BY <2>2, <2>3, <2>4, <2>5
<1>12. Ordered(q, r)
  BY <1>6, <1>11 DEF Ordered
<1>13. QED
  BY <1>2, <1>12

\* One neighbour less, at least, is in a part.
LEMMA JoinedLess ==
  ASSUME NEW todo, NEW n \in Nat, PartsOk(todo, 1, n), todo # << >>,
         NEW b, b = Head(todo)[1], NEW e, e = Head(todo)[2], NEW mid \in b .. e,
         NEW r, r = PartOf(b, mid - 1) \o (PartOf(mid + 1, e) \o Tail(todo))
  PROVE  /\ Cardinality(Joined(todo, n)) \in Nat /\ Cardinality(Joined(r, n)) \in Nat
         /\ Cardinality(Joined(r, n)) < Cardinality(Joined(todo, n))
<1>1. PICK t : t = Tail(todo)
  OBVIOUS
<1>2. /\ b \in 1 .. n /\ e \in b .. n /\ b < e
      /\ PartsOk(r, 1, n) /\ PartsOk(t, e + 1, n)
      /\ \A i, j \in Int : Covered(todo, i, j) <=> (b <= i /\ j <= e) \/ Covered(t, i, j)
      /\ \A i, j \in Int : i < j =>
           (Covered(r, i, j) <=> (b <= i /\ j <= mid - 1) \/ (mid + 1 <= i /\ j <= e) \/ Covered(t, i, j))
  <2>1. IsAfter(r, todo, b, e, mid, n)
    BY PartsAfter
  <2>2. QED
    BY <1>1, <2>1 DEF IsAfter
<1>3. b \in Int /\ e \in Int /\ mid \in Int /\ b <= mid /\ mid <= e /\ 1 <= b /\ e <= n /\ b < e
  BY <1>2
<1>4. PICK w \in Int : w = IF mid < e THEN mid ELSE mid - 1
  BY <1>3
<1>5. w \in 1 .. n - 1 /\ b <= w /\ w + 1 <= e /\ ~(w + 1 <= mid - 1) /\ ~(mid + 1 <= w)
  BY <1>3, <1>4
<1>6. w \in Joined(todo, n)
  BY <1>2, <1>5 DEF Joined
<1>7. w \notin Joined(r, n)
  <2>1. ~Covered(t, w, w + 1)
    <3>1. SUFFICES ASSUME Covered(t, w, w + 1) PROVE FALSE
      OBVIOUS
    <3>2. PICK lo \in Nat : lo = e + 1
      BY <1>2
    <3>3. PICK v \in Int : v = w + 1
      OBVIOUS
    <3>4. lo <= w
      BY <1>2, <3>1, <3>2, <3>3, CoveredFrom
    <3>5. QED
      BY <1>3, <1>5, <3>2, <3>4
  <2>2. ~Covered(r, w, w + 1)
    BY <1>2, <1>5, <2>1
  <2>3. QED
    BY <2>2 DEF Joined
<1>8. Joined(r, n) \subseteq Joined(todo, n)
  <2>1. SUFFICES ASSUME NEW i \in 1 .. n - 1, Covered(r, i, i + 1) PROVE Covered(todo, i, i + 1)
    BY DEF Joined
  <2>2. (b <= i /\ i + 1 <= mid - 1) \/ (mid + 1 <= i /\ i + 1 <= e) \/ Covered(t, i, i + 1)
    BY <1>2, <2>1
  <2>3. (b <= i /\ i + 1 <= e) \/ Covered(t, i, i + 1)
    BY <1>3, <2>2
  <2>4. QED
    BY <1>2, <2>3
<1>9. IsFiniteSet(Joined(todo, n))
  <2>1. IsFiniteSet(1 .. n - 1) /\ Joined(todo, n) \subseteq 1 .. n - 1
    <3>1. n - 1 \in Int /\ 1 \in Int
      OBVIOUS
    <3>2. QED
      BY <3>1, FS_Interval DEF Joined
  <2>2. QED
    BY <2>1, FS_Subset
<1>10. PICK x, y : x = Joined(r, n) /\ y = Joined(todo, n)
  OBVIOUS
<1>11. x \subseteq y /\ x # y /\ IsFiniteSet(y)
  BY <1>6, <1>7, <1>8, <1>9, <1>10
<1>12. IsFiniteSet(x) /\ Cardinality(x) <= Cardinality(y) /\ Cardinality(x) # Cardinality(y)
  BY <1>11, FS_Subset
<1>13. Cardinality(x) \in Nat /\ Cardinality(y) \in Nat
  BY <1>11, <1>12, FS_CardinalityType
<1>14. QED
  BY <1>10, <1>12, <1>13

\* A call of quick_sort keeps its state, and has less to do afterwards.
LEMMA QuickMore ==
  ASSUME NEW s \in Seq(Int), NEW m, Quick(m, s), NEW r, r = SortPart(m)
  PROVE  /\ Quick(r, s)
         /\ m.todo = << >> => r = m
         /\ m.todo # << >> => /\ Cardinality(Joined(m.todo, Len(s))) \in Nat /\ Cardinality(Joined(r.todo, Len(s))) \in Nat
                             /\ Cardinality(Joined(r.todo, Len(s))) < Cardinality(Joined(m.todo, Len(s)))
<1>1. PICK n \in Nat : n = Len(s)
  OBVIOUS
<1>2. m \in Sortings /\ Shuffled(m.s, s, 1, n) /\ PartsOk(m.todo, 1, n) /\ Ordered(m.s, m.todo)
  BY <1>1 DEF Quick
<1>3. m.s \in Seq(Int) /\ Len(m.s) = n
  BY <1>1, <1>2, ShuffledType
<1>4. CASE m.todo = << >>
  <2>1. r = m
    BY <1>4, Zenon DEF SortPart
  <2>2. QED
    BY <1>4, <2>1
<1>5. CASE m.todo # << >>
  <2>1. PICK b, e, t : b = Head(m.todo)[1] /\ e = Head(m.todo)[2] /\ t = m.s
    OBVIOUS
  <2>2. b \in Nat /\ e \in Nat /\ 1 <= b /\ b < e /\ e <= n
    <3>1. PartsOk(m.todo, 1, n) /\ 1 \in Nat
      BY <1>2
    <3>2. QED
      BY <1>5, <2>1, <3>1, PartsTail
  <2>3. b \in 1 .. Len(t) /\ e \in b .. Len(t) /\ t \in Seq(Int)
    BY <1>3, <2>1, <2>2, SMTT(30)
  <2>4. PICK p : p = Parted(t, b, e, t[e])
    OBVIOUS
  <2>5. IsParted(p, t, b, e)
    BY <2>3, <2>4, PartedIs
  <2>6. PICK mid : mid = p.middle
    OBVIOUS
  <2>7. mid \in b .. e /\ mid \in Int /\ Shuffled(p.s, t, b, e)
    BY <2>2, <2>5, <2>6 DEF IsParted
  <2>8. PICK g : g = PartOf(b, mid - 1) \o (PartOf(mid + 1, e) \o Tail(m.todo))
    OBVIOUS
  <2>9. SortPart(m) = [s |-> p.s, todo |-> g]
    <3>1. /\ m \in Sortings /\ m.todo # << >> /\ b = Head(m.todo)[1] /\ e = Head(m.todo)[2]
          /\ p = Parted(m.s, b, e, m.s[e]) /\ mid \in Int /\ mid = p.middle
      BY <1>2, <1>5, <2>1, <2>4, <2>6, <2>7
    <3>2. SortPart(m) = [s |-> p.s, todo |-> PartOf(b, mid - 1) \o (PartOf(mid + 1, e) \o Tail(m.todo))]
      BY ONLY <3>1, SortPartIs, ZenonT(60)
    <3>3. QED
      BY <2>8, <3>2
  <2>10. PICK x : x = r
    OBVIOUS
  <2>11. x.s = p.s /\ x.todo = g /\ x = [s |-> p.s, todo |-> g]
    BY <2>9, <2>10
  <2>12. PartsOk(g, 1, n)
    <3>1. IsAfter(g, m.todo, b, e, mid, n)
      BY <1>2, <1>5, <2>1, <2>7, <2>8, PartsAfter
    <3>2. QED
      BY <3>1 DEF IsAfter
  <2>13. p.s \in Seq(Int) /\ Len(p.s) = n
    BY <1>3, <2>1, <2>7, ShuffledType
  <2>14. x \in Sortings
    BY <2>11, <2>12, <2>13 DEF Sortings, PartsOk
  <2>15. Shuffled(p.s, s, 1, n)
    <3>1. Shuffled(p.s, t, 1, n)
      BY <2>2, <2>7, ShuffledWider
    <3>2. Shuffled(t, s, 1, n)
      BY <1>2, <2>1
    <3>3. QED
      BY <3>1, <3>2, ShuffledTwice
  <2>16. Ordered(p.s, g)
    <3>1. PartsOk(m.todo, 1, Len(t)) /\ Ordered(t, m.todo)
      BY <1>2, <1>3, <2>1
    <3>2. g = PartOf(b, p.middle - 1) \o (PartOf(p.middle + 1, e) \o Tail(m.todo))
      BY <2>6, <2>8
    <3>3. QED
      BY <1>5, <2>1, <2>3, <2>5, <3>1, <3>2, OrderedMore
  <2>17. Quick(x, s)
    BY <1>1, <2>11, <2>12, <2>14, <2>15, <2>16 DEF Quick
  <2>18. PICK c, d : c = Cardinality(Joined(m.todo, n)) /\ d = Cardinality(Joined(g, n))
    OBVIOUS
  <2>19. c \in Nat /\ d \in Nat /\ d < c
    BY <1>2, <1>5, <2>1, <2>7, <2>8, <2>18, JoinedLess
  <2>20. QED
    BY <1>1, <1>5, <2>10, <2>11, <2>17, <2>18, <2>19
<1>6. QED
  BY <1>4, <1>5

\* After k calls, k neighbours are no more in one part, or everything is sorted.
QuickFor(m, s, k) ==
  /\ Quick(m, s)
  /\ m.todo = << >> \/ Cardinality(Joined(m.todo, Len(s))) <= Len(s) - 1 - k

\* One call more.
LEMMA QuickForMore ==
  ASSUME NEW s \in Seq(Int), NEW k \in Nat, NEW m, QuickFor(m, s, k)
  PROVE  QuickFor(SortPart(m), s, k + 1)
<1>1. PICK r : r = SortPart(m)
  OBVIOUS
<1>2. Quick(m, s) /\ (m.todo = << >> \/ Cardinality(Joined(m.todo, Len(s))) <= Len(s) - 1 - k)
  BY DEF QuickFor
<1>3. /\ Quick(r, s)
      /\ m.todo = << >> => r = m
      /\ m.todo # << >> => /\ Cardinality(Joined(m.todo, Len(s))) \in Nat /\ Cardinality(Joined(r.todo, Len(s))) \in Nat
                          /\ Cardinality(Joined(r.todo, Len(s))) < Cardinality(Joined(m.todo, Len(s)))
  BY <1>1, <1>2, QuickMore
<1>4. CASE m.todo = << >>
  BY <1>1, <1>3, <1>4 DEF QuickFor
<1>5. CASE m.todo # << >>
  <2>1. PICK c, d, n : c = Cardinality(Joined(m.todo, Len(s))) /\ d = Cardinality(Joined(r.todo, Len(s))) /\ n = Len(s)
    OBVIOUS
  <2>2. c \in Nat /\ d \in Nat /\ n \in Nat /\ d < c /\ c <= n - 1 - k
    BY <1>2, <1>3, <1>5, <2>1
  <2>3. d <= n - 1 - (k + 1)
    BY <2>2
  <2>4. QED
    BY <1>1, <1>3, <2>1, <2>3 DEF QuickFor
<1>6. QED
  BY <1>4, <1>5

\* What the recursive function of QuickSorted is.
SortsIn(h, m, k) == h = [n \in 0 .. k |-> IF n = 0 THEN m ELSE SortPart(h[n - 1])]

\* After n calls.
LEMMA QuickAfter ==
  ASSUME NEW s \in Seq(Int), NEW n \in Nat, NEW m, QuickFor(m, s, 0),
         NEW met, met = CHOOSE h : SortsIn(h, m, n)
  PROVE  QuickFor(met[n], s, n)
<1> DEFINE U == {r \in Sortings : Quick(r, s)}
           G == [r \in U |-> SortPart(r)]
<1>1. G \in [U -> U]
  <2>1. ASSUME NEW r \in U
        PROVE  SortPart(r) \in U
    <3>1. PICK q : q = SortPart(r)
      OBVIOUS
    <3>2. Quick(q, s)
      BY <2>1, <3>1, QuickMore
    <3>3. QED
      BY <3>1, <3>2 DEF Quick
  <2>2. QED
    BY <2>1
<1>2. m \in U
  BY DEF QuickFor, Quick
<1>3. \A r \in U : G[r] = SortPart(r)
  OBVIOUS
<1> HIDE DEF G, U
<1>4. PICK f : Iterated(f, U, G, m, n)
  BY <1>1, <1>2, Iterates
<1>5. f \in [0 .. n -> U] /\ f[0] = m /\ \A i \in 1 .. n : f[i] = G[f[i - 1]]
  BY <1>4 DEF Iterated
<1>6. ASSUME NEW i \in 1 .. n
      PROVE  f[i] = SortPart(f[i - 1])
  <2>1. i - 1 \in 0 .. n
    OBVIOUS
  <2>2. QED
    BY <1>3, <1>5, <2>1
<1>7. SortsIn(f, m, n)
  <2>1. f = [i \in 0 .. n |-> f[i]]
    BY <1>5
  <2>2. \A i \in 0 .. n : f[i] = IF i = 0 THEN m ELSE SortPart(f[i - 1])
    <3>1. \A i \in 0 .. n : i # 0 => i \in 1 .. n
      OBVIOUS
    <3>2. QED
      BY <1>5, <1>6, <3>1
  <2>3. QED
    BY <2>1, <2>2, Zenon DEF SortsIn
<1>8. SortsIn(met, m, n)
  BY <1>7, Zenon
<1>9. ASSUME NEW i \in 0 .. n
      PROVE  met[i] = IF i = 0 THEN m ELSE SortPart(met[i - 1])
  BY <1>8, Zenon DEF SortsIn
<1> DEFINE T == {i \in Nat : i <= n => QuickFor(met[i], s, i)}
<1>10. 0 \in T
  <2>1. met[0] = m
    BY <1>9
  <2>2. QED
    BY <2>1
<1>11. ASSUME NEW i \in Nat, i \in T
       PROVE  i + 1 \in T
  <2>1. SUFFICES ASSUME i + 1 <= n PROVE QuickFor(met[i + 1], s, i + 1)
    OBVIOUS
  <2>2. QuickFor(met[i], s, i)
    BY <1>11, <2>1
  <2>3. QuickFor(SortPart(met[i]), s, i + 1)
    BY <2>2, QuickForMore
  <2>4. PICK j : j = i + 1
    OBVIOUS
  <2>5. j \in 0 .. n /\ j # 0 /\ j - 1 = i
    BY <2>1, <2>4
  <2>6. met[j] = SortPart(met[i])
    BY <1>9, <2>5
  <2>7. QED
    BY <2>3, <2>4, <2>6
<1> HIDE DEF T
<1>12. n \in T
  BY <1>10, <1>11, SetInduction
<1>13. QED
  BY <1>12 DEF T

\* t is s in ascending order.
SortsTo(t, s) == Shuffled(t, s, 1, Len(s)) /\ \A i, j \in 1 .. Len(s) : i < j => t[i] <= t[j]

\* cra_alist_sort and cra_llist_sort sort: whatever pivots the partition meets, the
\* calls of quick_sort leave the same elements, in ascending order.
THEOREM SortedIs ==
  ASSUME NEW s \in Seq(Int)
  PROVE  SortsTo(Sorted(s), s)
<1>1. PICK n \in Nat : n = Len(s)
  OBVIOUS
<1>2. CASE ~ n > 1
  <2>1. Sorted(s) = s
    BY <1>1, <1>2 DEF Sorted
  <2>2. QED
    BY <1>1, <1>2, <2>1, ShuffledSame DEF SortsTo
<1>3. CASE n > 1
  <2>1. PICK x \in Nat \X Nat : x = <<1, n>>
    OBVIOUS
  <2>2. PICK todo : todo = <<x>>
    OBVIOUS
  <2>3. todo \in Seq(Nat \X Nat) /\ Len(todo) = 1 /\ todo[1] = x /\ x[1] = 1 /\ x[2] = n
    BY <2>1, <2>2
  <2>4. PartsOk(todo, 1, n)
    BY <1>3, <2>3 DEF PartsOk
  <2>5. \A i, j \in 1 .. n : Covered(todo, i, j)
    BY <2>3 DEF Covered
  <2>6. PICK m : m = [s |-> s, todo |-> todo]
    OBVIOUS
  <2>7. m \in Sortings /\ m.s = s /\ m.todo = todo
    BY <2>3, <2>6 DEF Sortings
  <2>8. Shuffled(s, s, 1, n)
    BY ShuffledSame
  <2>9. Ordered(s, todo)
    BY <1>1, <2>5 DEF Ordered
  <2>10. Quick(m, s)
    BY <1>1, <2>4, <2>7, <2>8, <2>9 DEF Quick
  <2>11. PICK k \in Nat : k = n - 1
    BY <1>3
  <2>12. Cardinality(Joined(todo, n)) <= n - 1 - 0
    <3>1. IsFiniteSet(1 .. k) /\ Cardinality(1 .. k) = k
      <4>1. 1 \in Int /\ k \in Int /\ ~ 1 > k /\ k - 1 + 1 = k
        BY <1>3, <2>11
      <4>2. QED
        BY <4>1, FS_Interval
    <3>2. Joined(todo, n) \subseteq 1 .. k
      BY <2>11 DEF Joined
    <3>3. Cardinality(Joined(todo, n)) <= k
      BY <3>1, <3>2, FS_Subset
    <3>4. QED
      BY <2>11, <3>3
  <2>13. QuickFor(m, s, 0)
    BY <1>1, <2>7, <2>10, <2>12 DEF QuickFor
  <2>14. PICK met : met = CHOOSE h : SortsIn(h, m, k)
    OBVIOUS
  <2>15. PICK r : r = met[k]
    OBVIOUS
  <2>16. QuickFor(r, s, k)
    BY <2>13, <2>14, <2>15, QuickAfter
  <2>17. r \in Sortings /\ Shuffled(r.s, s, 1, n) /\ PartsOk(r.todo, 1, n) /\ Ordered(r.s, r.todo)
    BY <1>1, <2>16 DEF QuickFor, Quick
  <2>18. r.todo = << >>
    <3>1. SUFFICES ASSUME r.todo # << >> PROVE FALSE
      OBVIOUS
    <3>2. PICK q : q = SortPart(r)
      OBVIOUS
    <3>3. PICK c, d : c = Cardinality(Joined(r.todo, Len(s))) /\ d = Cardinality(Joined(q.todo, Len(s)))
      OBVIOUS
    <3>4. c \in Nat /\ d \in Nat /\ d < c
      BY <2>16, <3>1, <3>2, <3>3, QuickMore DEF QuickFor
    <3>5. c <= Len(s) - 1 - k
      BY <2>16, <3>1, <3>3 DEF QuickFor
    <3>6. QED
      BY <1>1, <2>11, <3>4, <3>5
  <2>19. Sorted(s) = r.s
    <3>1. met = CHOOSE h : h = [i \in 0 .. n - 1 |-> IF i = 0 THEN [s |-> s, todo |-> <<<<1, n>>>>] ELSE SortPart(h[i - 1])]
      BY <2>1, <2>2, <2>6, <2>11, <2>14, Zenon DEF SortsIn
    <3>2. met[n - 1].s = r.s
      BY <2>11, <2>15
    <3>3. QuickSorted(s, 1, n) = r.s
      BY <3>1, <3>2, Zenon DEF QuickSorted
    <3>4. QED
      BY <1>1, <1>3, <3>3 DEF Sorted
  <2>20. \A i, j \in 1 .. n : i < j => r.s[i] <= r.s[j]
    <3>1. Len(r.s) = n
      BY <1>1, <2>17, ShuffledType
    <3>2. \A i, j \in 1 .. n : ~Covered(r.todo, i, j)
      BY <2>18 DEF Covered
    <3>3. QED
      BY <2>17, <3>1, <3>2 DEF Ordered
  <2>21. QED
    BY <1>1, <2>17, <2>19, <2>20 DEF SortsTo
<1>4. QED
  BY <1>1, <1>2, <1>3

\* Sorting numbers of a set.
LEMMA SortedType ==
  ASSUME NEW V \in SUBSET Int, NEW c \in Seq(V), NEW d, d = Sorted(c)
  PROVE  d \in Seq(V) /\ Len(d) = Len(c) /\ SortsTo(d, c)
<1>1. c \in Seq(Int)
  <2>1. V \subseteq Int
    OBVIOUS
  <2>2. \A i \in 1 .. Len(c) : c[i] \in V
    OBVIOUS
  <2>3. \A i \in 1 .. Len(c) : c[i] \in Int
    BY <2>1, <2>2
  <2>4. QED
    BY <2>3
<1>2. SortsTo(d, c)
  BY <1>1, SortedIs
<1>3. PICK n \in Nat : n = Len(c)
  OBVIOUS
<1>4. Shuffled(d, c, 1, n)
  BY <1>2, <1>3 DEF SortsTo
<1>5. d \in Seq(Int) /\ Len(d) = n
  BY <1>3, <1>4, ShuffledType
<1>6. ASSUME NEW i \in 1 .. n
      PROVE  d[i] \in V
  <2>1. i \in 1 .. Len(c) /\ 1 \in Int /\ n \in Int
    BY <1>3
  <2>2. \E j \in 1 .. Len(c) : j \in 1 .. n /\ d[i] = c[j]
    BY <1>4, <2>1, ShuffledAt
  <2>3. QED
    BY <2>2
<1>7. d \in Seq(V)
  BY <1>5, <1>6
<1>8. QED
  BY <1>2, <1>3, <1>5, <1>7

\* Where v is.
PlacesOf(s, v) == {i \in 1 .. Len(s) : s[i] = v}

\* Sorting leaves each value as often as it is.
LEMMA SortedPlaces ==
  ASSUME NEW s, NEW t, SortsTo(t, s), NEW v,
         NEW A, A = PlacesOf(t, v), NEW B, B = PlacesOf(s, v)
  PROVE  Cardinality(A) = Cardinality(B)
<1>1. PICK n : n = Len(s)
  OBVIOUS
<1>2. Shuffled(t, s, 1, n)
  BY <1>1 DEF SortsTo
<1>3. n \in Nat /\ Len(t) = n
  BY <1>1, <1>2, ShuffledType
<1>4. PICK p : Permutes(p, n) /\ Reads(t, s, p)
  BY <1>1, <1>2 DEF Shuffled
<1>5. A = {i \in 1 .. n : t[i] = v} /\ B = {i \in 1 .. n : s[i] = v}
  BY <1>1, <1>3 DEF PlacesOf
<1>6. PICK f : f = [i \in A |-> p[i]]
  OBVIOUS
<1>7. \A i \in 1 .. n : p[i] \in 1 .. n /\ t[i] = s[p[i]]
  BY <1>1, <1>4 DEF Permutes, Reads
<1>8. f \in [A -> B] /\ \A i \in A : f[i] = p[i]
  BY <1>5, <1>6, <1>7
<1>9. \A i, j \in A : f[i] = f[j] => i = j
  BY <1>4, <1>5, <1>8 DEF Permutes
<1>10. \A j \in B : \E i \in A : f[i] = j
  <2>1. SUFFICES ASSUME NEW j \in B PROVE \E i \in A : f[i] = j
    OBVIOUS
  <2>2. PICK i \in 1 .. n : p[i] = j
    BY <1>4, <1>5 DEF Permutes
  <2>3. i \in A
    BY <1>5, <1>7, <2>2
  <2>4. QED
    BY <1>8, <2>2, <2>3
<1>11. f \in Bijection(A, B)
  BY <1>8, <1>9, <1>10 DEF Bijection, Injection, Surjection, IsInjective
<1>12. IsFiniteSet(A)
  <2>1. IsFiniteSet(1 .. n) /\ A \subseteq 1 .. n
    BY <1>3, <1>5, FS_Interval
  <2>2. QED
    BY <2>1, FS_Subset
<1>13. ExistsBijection(A, B)
  BY <1>11 DEF ExistsBijection
<1>14. Cardinality(B) = Cardinality(A)
  BY <1>12, <1>13, FS_Bijection
<1>15. QED
  BY <1>1, <1>3, <1>5, <1>14

(***************************************************************************)
(* The binary search, and a sorted sequence.                               *)
(***************************************************************************)
\* The binary search has come to m after k comparisons.
Searching(m, s, v, k) ==
  /\ m \in [left : 1 .. Len(s) + 1, right : 0 .. Len(s)]
  /\ m.left <= m.right + 1 /\ m.right - m.left + 1 <= Len(s) - k
  /\ m.left = 1 \/ s[m.left - 1] < v
  /\ m.right = Len(s) \/ s[m.right + 1] >= v

\* One comparison, field by field.
LEMMA HalvedIs ==
  ASSUME NEW p \in Int, NEW q \in Int, p <= q, NEW s, NEW v, NEW m, m = [left |-> p, right |-> q],
         NEW mid, mid = p + (q - p) \div 2
  PROVE  /\ s[mid] < v => Halved(m, s, v) = [left |-> mid + 1, right |-> q]
         /\ ~(s[mid] < v) => Halved(m, s, v) = [left |-> p, right |-> mid - 1]
<1>1. m.left = p /\ m.right = q /\ ~(p > q)
  OBVIOUS
<1>2. [m EXCEPT !.left = mid + 1] = [left |-> mid + 1, right |-> q]
  OBVIOUS
<1>3. [m EXCEPT !.right = mid - 1] = [left |-> p, right |-> mid - 1]
  OBVIOUS
<1>4. Halved(m, s, v) = IF s[mid] < v THEN [m EXCEPT !.left = mid + 1] ELSE [m EXCEPT !.right = mid - 1]
  <2>1. Halved(m, s, v) = IF p > q THEN m ELSE IF s[mid] < v THEN [m EXCEPT !.left = mid + 1] ELSE [m EXCEPT !.right = mid - 1]
    BY <1>1, Zenon DEF Halved
  <2>2. QED
    BY <1>1, <2>1, Zenon
<1>5. QED
  BY <1>2, <1>3, <1>4, Zenon

\* One comparison more.
LEMMA SearchingMore ==
  ASSUME NEW s \in Seq(Int), NEW v \in Int, NEW k \in 0 .. Len(s) - 1, NEW m, Searching(m, s, v, k),
         NEW r, r = Halved(m, s, v)
  PROVE  Searching(r, s, v, k + 1)
<1>1. PICK n, p, q : n = Len(s) /\ p = m.left /\ q = m.right
  OBVIOUS
<1>2. /\ n \in Nat /\ p \in 1 .. n + 1 /\ q \in 0 .. n /\ p <= q + 1 /\ q - p + 1 <= n - k /\ k \in 0 .. n - 1
      /\ m = [left |-> p, right |-> q] /\ (p = 1 \/ s[p - 1] < v) /\ (q = n \/ s[q + 1] >= v)
      /\ \A i \in 1 .. n : s[i] \in Int
  <2>1. n \in Nat /\ k \in 0 .. n - 1 /\ \A i \in 1 .. n : s[i] \in Int
    BY <1>1
  <2>2. m \in [left : 1 .. n + 1, right : 0 .. n] /\ p <= q + 1 /\ q - p + 1 <= n - k
    BY <1>1 DEF Searching
  <2>3. (p = 1 \/ s[p - 1] < v) /\ (q = n \/ s[q + 1] >= v)
    BY <1>1 DEF Searching
  <2>4. p \in 1 .. n + 1 /\ q \in 0 .. n /\ m = [left |-> p, right |-> q]
    BY <1>1, <2>2
  <2>5. QED
    BY <2>1, <2>2, <2>3, <2>4
<1>3. ASSUME NEW a \in 1 .. n + 1, NEW b \in 0 .. n, r = [left |-> a, right |-> b], a <= b + 1, b - a + 1 <= n - (k + 1),
             a = 1 \/ s[a - 1] < v, b = n \/ s[b + 1] >= v
      PROVE  Searching(r, s, v, k + 1)
  BY <1>1, <1>3 DEF Searching
<1>4. CASE p > q
  <2>1. r = [left |-> p, right |-> q]
    BY <1>1, <1>2, <1>4 DEF Halved
  <2>2. q - p + 1 <= n - (k + 1)
    BY <1>2, <1>4
  <2>3. QED
    BY <1>2, <1>3, <2>1, <2>2
<1>5. CASE p <= q
  <2>1. PICK mid : mid = p + (q - p) \div 2
    OBVIOUS
  <2>2. mid \in p .. q
    <3>1. PICK d : d = q - p
      OBVIOUS
    <3>2. d \in Nat
      BY <1>2, <1>5, <3>1
    <3>3. d \div 2 \in 0 .. d
      BY <3>2
    <3>4. QED
      BY <1>2, <2>1, <3>1, <3>3
  <2>3. mid \in 1 .. n /\ s[mid] \in Int
    BY <1>2, <2>2
  <2>4. CASE s[mid] < v
    <3>1. PICK a : a = mid + 1
      OBVIOUS
    <3>2. r = [left |-> a, right |-> q]
      BY <1>2, <1>5, <2>1, <2>4, <3>1, HalvedIs
    <3>3. a \in 1 .. n + 1 /\ a <= q + 1 /\ q - a + 1 <= n - (k + 1) /\ a - 1 = mid
      BY <1>2, <2>2, <2>3, <3>1
    <3>4. QED
      BY <1>2, <1>3, <2>4, <3>2, <3>3
  <2>5. CASE ~(s[mid] < v)
    <3>1. PICK b : b = mid - 1
      OBVIOUS
    <3>2. r = [left |-> p, right |-> b]
      BY <1>2, <1>5, <2>1, <2>5, <3>1, HalvedIs
    <3>3. b \in 0 .. n /\ p <= b + 1 /\ b - p + 1 <= n - (k + 1) /\ b + 1 = mid
      BY <1>2, <2>2, <2>3, <3>1
    <3>4. s[b + 1] >= v
      BY <2>3, <2>5, <3>3
    <3>5. QED
      BY <1>2, <1>3, <3>2, <3>3, <3>4
  <2>6. QED
    BY <2>4, <2>5
<1>6. QED
  BY <1>2, <1>4, <1>5

\* What the recursive function of Searched is.
Halves(h, s, v, m, k) == h = [n \in 0 .. k |-> IF n = 0 THEN m ELSE Halved(h[n - 1], s, v)]

\* The search is bounded.
LEMMA HalvesExist ==
  ASSUME NEW s \in Seq(Int), NEW v \in Int, NEW m, Searching(m, s, v, 0)
  PROVE  \E h : Halves(h, s, v, m, Len(s))
<1> DEFINE U == [left : 1 .. Len(s) + 1, right : 0 .. Len(s)]
           G == [r \in U |-> Halved(r, s, v)]
<1>1. PICK n \in Nat : n = Len(s)
  OBVIOUS
<1>2. ASSUME NEW r \in U
      PROVE  Halved(r, s, v) \in U
  <2>1. PICK p, q : p = r.left /\ q = r.right
    OBVIOUS
  <2>2. p \in 1 .. n + 1 /\ q \in 0 .. n /\ r = [left |-> p, right |-> q]
    BY <1>1, <2>1
  <2>3. CASE p > q
    BY <2>1, <2>3 DEF Halved
  <2>4. CASE p <= q
    <3>1. PICK d, mid : d = q - p /\ mid = p + d \div 2
      OBVIOUS
    <3>2. d \in Nat
      BY <2>2, <2>4, <3>1
    <3>3. d \div 2 \in 0 .. d
      BY <3>2
    <3>4. mid + 1 \in 1 .. n + 1 /\ mid - 1 \in 0 .. n
      BY <1>1, <2>2, <2>4, <3>1, <3>3
    <3>5. \/ Halved(r, s, v) = [left |-> mid + 1, right |-> q]
          \/ Halved(r, s, v) = [left |-> p, right |-> mid - 1]
      <4>1. p \in Int /\ q \in Int /\ mid = p + (q - p) \div 2
        BY <2>2, <3>1
      <4>2. QED
        BY <2>2, <2>4, <4>1, HalvedIs, SMTT(30)
    <3>6. QED
      BY <1>1, <2>2, <3>4, <3>5
  <2>5. QED
    BY <2>2, <2>3, <2>4
<1>3. G \in [U -> U] /\ \A r \in U : G[r] = Halved(r, s, v)
  BY <1>2
<1>4. m \in U
  BY DEF Searching
<1> HIDE DEF G, U
<1>5. PICK f : Iterated(f, U, G, m, n)
  BY <1>3, <1>4, Iterates
<1>6. f \in [0 .. n -> U] /\ f[0] = m /\ \A i \in 1 .. n : f[i] = G[f[i - 1]]
  BY <1>5 DEF Iterated
<1>7. \A i \in 0 .. n : f[i] = IF i = 0 THEN m ELSE Halved(f[i - 1], s, v)
  <2>1. \A i \in 0 .. n : i # 0 => i \in 1 .. n /\ i - 1 \in 0 .. n
    OBVIOUS
  <2>2. QED
    BY <1>3, <1>6, <2>1
<1>8. f = [i \in 0 .. n |-> f[i]]
  BY <1>6
<1>9. Halves(f, s, v, m, n)
  BY <1>7, <1>8, Zenon DEF Halves
<1>10. QED
  BY <1>1, <1>9

\* cra_alist_binary_seach: in a list of any order, it returns a position, the end
\* included, whose left neighbour is smaller than v and whose own element is not.
THEOREM SearchedIs ==
  ASSUME NEW s \in Seq(Int), NEW v \in Int, NEW g, g = Searched(s, v)
  PROVE  g \in 1 .. Len(s) + 1 /\ (g = 1 \/ s[g - 1] < v) /\ (g = Len(s) + 1 \/ s[g] >= v)
<1> DEFINE halved[n \in 0 .. Len(s)] == IF n = 0 THEN [left |-> 1, right |-> Len(s)] ELSE Halved(halved[n - 1], s, v)
<1>1. PICK m : m = [left |-> 1, right |-> Len(s)]
  OBVIOUS
<1>2. PICK n \in Nat : n = Len(s)
  OBVIOUS
<1>3. Searching(m, s, v, 0)
  BY <1>1, <1>2 DEF Searching
<1>4. halved = CHOOSE h : Halves(h, s, v, m, Len(s))
  BY <1>1, Zenon DEF Halves
<1>5. g = halved[Len(s)].left
  BY Zenon DEF Searched
<1> HIDE DEF halved
<1>6. Halves(halved, s, v, m, n)
  BY <1>2, <1>3, <1>4, HalvesExist, Zenon
<1>7. ASSUME NEW i \in 0 .. n
      PROVE  halved[i] = IF i = 0 THEN m ELSE Halved(halved[i - 1], s, v)
  BY <1>6, Zenon DEF Halves
<1> DEFINE T == {i \in Nat : i <= n => Searching(halved[i], s, v, i)}
<1>8. 0 \in T
  <2>1. halved[0] = m
    BY <1>7
  <2>2. QED
    BY <1>3, <2>1
<1>9. ASSUME NEW i \in Nat, i \in T
      PROVE  i + 1 \in T
  <2>1. SUFFICES ASSUME i + 1 <= n PROVE Searching(halved[i + 1], s, v, i + 1)
    OBVIOUS
  <2>2. Searching(halved[i], s, v, i) /\ i \in 0 .. Len(s) - 1
    BY <1>2, <1>9, <2>1
  <2>3. PICK j : j = i + 1
    OBVIOUS
  <2>4. j \in 0 .. n /\ j # 0 /\ j - 1 = i
    BY <2>1, <2>3
  <2>5. halved[j] = Halved(halved[i], s, v)
    BY <1>7, <2>4
  <2>6. QED
    BY <2>2, <2>3, <2>5, SearchingMore
<1>10. \A i \in Nat : i \in T
  <2>1. T \in SUBSET Nat
    OBVIOUS
  <2> HIDE DEF T
  <2>2. QED
    BY <1>8, <1>9, <2>1, SetInduction
<1>11. Searching(halved[n], s, v, n)
  BY <1>10
<1>12. PICK r : r = halved[n]
  OBVIOUS
<1>13. r.left \in 1 .. n + 1 /\ r.right \in 0 .. n /\ r.left <= r.right + 1 /\ r.right - r.left + 1 <= n - n
  BY <1>2, <1>11, <1>12 DEF Searching
<1>14. r.right + 1 = r.left
  BY <1>13
<1>15. (r.left = 1 \/ s[r.left - 1] < v) /\ (r.right = n \/ s[r.right + 1] >= v)
  BY <1>2, <1>11, <1>12 DEF Searching
<1>16. g = r.left
  BY <1>2, <1>5, <1>12
<1>17. QED
  BY <1>2, <1>13, <1>14, <1>15, <1>16

\* s goes up, or stays level, from each element to the next.
Rising(s) == \A i \in 1 .. Len(s) - 1 : s[i] <= s[i + 1]

\* An element that is put between one that is not greater and one that is not less.
LEMMA PutBetween ==
  ASSUME NEW c \in Seq(Int), Rising(c), NEW v \in Int, NEW k \in 0 .. Len(c),
         k = 0 \/ c[k] <= v, k = Len(c) \/ c[k + 1] >= v,
         NEW d, d = InsertAt(c, k + 1, v)
  PROVE  Rising(d)
<1>1. PICK n \in Nat : n = Len(c)
  OBVIOUS
<1>2. PICK g \in 1 .. Len(c) + 1 : g = k + 1
  OBVIOUS
<1>3. IsPut(Int, d, c, g, v)
  BY <1>2, InsertAtPuts
<1>4. /\ d \in Seq(Int) /\ Len(d) = n + 1
      /\ \A j \in 1 .. n + 1 : d[j] = IF j < g THEN c[j] ELSE IF j = g THEN v ELSE c[j - 1]
  BY <1>1, <1>3 DEF IsPut
<1>4a. d[g] = v
  BY <1>1, <1>2, <1>4
<1>4b. \A j \in 1 .. n : j < g => d[j] = c[j]
  <2>1. SUFFICES ASSUME NEW j \in 1 .. n, j < g PROVE d[j] = c[j]
    OBVIOUS
  <2>2. j \in 1 .. n + 1
    BY <1>1
  <2>3. d[j] = IF j < g THEN c[j] ELSE IF j = g THEN v ELSE c[j - 1]
    BY <1>4, <2>2, Zenon
  <2>4. QED
    BY <2>1, <2>3, Zenon
<1>4c. \A j \in 1 .. n : j >= g => d[j + 1] = c[j]
  <2>1. SUFFICES ASSUME NEW j \in 1 .. n, j >= g PROVE d[j + 1] = c[j]
    OBVIOUS
  <2>2. PICK h \in 1 .. n + 1 : h = j + 1
    BY <1>1
  <2>3. h > g /\ h - 1 = j
    BY <1>1, <1>2, <2>1, <2>2
  <2>4. d[h] = c[h - 1]
    <3>1. d[h] = IF h < g THEN c[h] ELSE IF h = g THEN v ELSE c[h - 1]
      BY <1>4, Zenon
    <3>2. ~ h < g /\ ~ h = g
      BY <1>1, <1>2, <2>3
    <3>3. QED
      BY <3>1, <3>2, Zenon
  <2>5. QED
    BY <2>2, <2>3, <2>4
<1>5. \A i \in 1 .. n - 1 : c[i] <= c[i + 1]
  BY <1>1 DEF Rising
<1>6. \A i \in 1 .. n : c[i] \in Int
  BY <1>1
<1>7. g \in 1 .. n + 1 /\ (g = n + 1 \/ c[g] >= v) /\ (g = 1 \/ c[g - 1] <= v)
  BY <1>1, <1>2
<1>8. ASSUME NEW i \in 1 .. n
      PROVE  d[i] <= d[i + 1]
  <2>1. i \in 1 .. n + 1 /\ i + 1 \in 1 .. n + 1
    BY <1>1
  <2>2. CASE i + 1 < g
    <3>1. d[i] = c[i] /\ d[i + 1] = c[i + 1] /\ i \in 1 .. n - 1
      <4>1. i < g /\ i + 1 \in 1 .. n /\ i \in 1 .. n - 1
        BY <1>1, <1>2, <1>7, <2>1, <2>2
      <4>2. QED
        BY <1>4b, <2>2, <4>1
    <3>2. QED
      BY <1>5, <3>1
  <2>3. CASE i + 1 = g
    <3>1. d[i] = c[i] /\ d[i + 1] = v /\ i < g
      <4>1. i < g
        BY <1>2, <2>3
      <4>2. QED
        BY <1>4a, <1>4b, <2>3, <4>1
    <3>2. c[i] <= v
      <4>1. i = g - 1 /\ g # 1
        BY <1>1, <1>2, <2>3
      <4>2. QED
        BY <1>7, <4>1
    <3>3. QED
      BY <3>1, <3>2
  <2>4. CASE i = g
    <3>1. d[i] = v /\ d[i + 1] = c[i] /\ g # n + 1
      <4>1. i >= g /\ g # n + 1
        BY <1>1, <1>2, <2>4
      <4>2. QED
        BY <1>4a, <1>4c, <2>4, <4>1
    <3>2. QED
      BY <1>6, <1>7, <2>4, <3>1
  <2>5. CASE i > g
    <3>1. PICK j \in 1 .. n - 1 : j = i - 1 /\ j + 1 = i
      BY <1>1, <1>7, <2>5
    <3>2. d[i] = c[j] /\ d[i + 1] = c[i]
      <4>1. i >= g /\ j >= g /\ j \in 1 .. n
        BY <1>1, <1>2, <2>5, <3>1
      <4>2. QED
        BY <1>4c, <3>1, <4>1
    <3>3. QED
      BY <1>5, <3>1, <3>2
  <2>6. QED
    BY <1>1, <1>7, <2>2, <2>3, <2>4, <2>5
<1>9. QED
  BY <1>1, <1>4, <1>8 DEF Rising
=============================================================================
