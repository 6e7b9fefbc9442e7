-------------------------- MODULE PrimitivesProofs --------------------------
(***************************************************************************)
(* Theorems about MCPrimitives: the references, the latch, the timer       *)
(* wheel, the debug allocator, the memory pool, the byte buffer and the    *)
(* arguments of a program, for every value of the constants that           *)
(* PrimitivesAssumption admits.  A step of the program is a step of one    *)
(* object, so each object's inductive invariant is an invariant of all.    *)
(***************************************************************************)
EXTENDS MCPrimitives, Sequences, SequenceLemmas, FiniteSetTheorems, TLAPS

(***************************************************************************)
(* References with a weak count.                                           *)
(***************************************************************************)
Strong == In({"strong"})
Weak   == In({"weak"})
\* The handles that own the weak reference the strong handles share.
Owners == In({"strong", "destroying", "unref"})

\* Who has released the last strong reference is the only owner left.
LastOwner == \A h \in In({"destroying", "unref"}) : Owners = {h}

\* The object lives until the last owner has destroyed it.
Lifetime == live <=> In({"strong", "destroying"}) # {}

\* An acquire tries to swap from a positive count only.
Loaded == \A g \in In({"acquiring"}) : old[g] > 0

\* The inductive invariant.
Inv == TypeOK /\ Counted /\ LastOwner /\ Lifetime /\ Loaded /\ HeadOutlivesUse

\* A set of handles, with a handle more or less.
LEMMA CardLemma ==
  ASSUME NEW D \in SUBSET Handle, NEW x
  PROVE  /\ Cardinality(D) \in Nat
         /\ Cardinality(D) = 0 <=> D = {}
         /\ x \notin D => Cardinality(D \cup {x}) = Cardinality(D) + 1
         /\ x \in D => Cardinality(D \ {x}) = Cardinality(D) - 1
         /\ x \in D /\ Cardinality(D) = 1 => D = {x}
<1>1. IsFiniteSet(D)
  BY FS_Subset, WeakRefAssumption
<1>2. IsFiniteSet(D \ {x})
  BY <1>1, FS_RemoveElement
<1>3. Cardinality(D) \in Nat /\ (Cardinality(D) = 0 <=> D = {})
  BY <1>1, FS_CardinalityType, FS_EmptySet
<1>4. x \in D => Cardinality(D \ {x}) = Cardinality(D) - 1
  BY <1>1, FS_RemoveElement
<1>5. x \in D /\ Cardinality(D) = 1 => D = {x}
  <2>1. x \in D /\ Cardinality(D) = 1 => D \ {x} = {}
    BY <1>2, <1>4, FS_EmptySet
  <2>2. QED
    BY <2>1
<1>6. x \notin D => Cardinality(D \cup {x}) = Cardinality(D) + 1
  BY <1>1, FS_AddElement
<1>7. QED
  BY <1>3, <1>4, <1>5, <1>6

\* What a step that moves one handle does to the sets of handles.
LEMMA GoesLemma ==
  ASSUME TypeOK, NEW h \in Handle, NEW s \in Places, Goes(h, s)
  PROVE  /\ state' \in [Handle -> Places]
         /\ state'[h] = s
         /\ \A g \in Handle \ {h} : state'[g] = state[g]
BY DEF TypeOK, Goes

\* The sets of handles, and what the counters say of them.
LEMMA Subsets ==
  /\ Strong \in SUBSET Handle /\ Weak \in SUBSET Handle
  /\ Counted <=> /\ cnt = Cardinality(Strong)
                 /\ weak_cnt = Cardinality(Weak) + (IF Owners = {} THEN 0 ELSE 1)
  /\ Counted' <=> /\ cnt' = Cardinality(Strong')
                  /\ weak_cnt' = Cardinality(Weak') + (IF Owners' = {} THEN 0 ELSE 1)
BY DEF Strong, Weak, Owners, In, Counted

\* Every step keeps the invariant.
LEMMA Inductive ==
  ASSUME Inv, [Next]_vars
  PROVE  Inv'
<1> USE DEF Inv
<1>1. CASE UNCHANGED vars
  BY <1>1 DEF TypeOK, Counted, LastOwner, Lifetime, Loaded, HeadOutlivesUse, vars,
              In, Held, Owners
<1>2. ASSUME NEW h \in Handle, NEW g \in Handle, Ref(h, g)
      PROVE  Inv'
  <2>1. /\ state' \in [Handle -> Places] /\ state'[g] = "weak"
        /\ \A x \in Handle \ {g} : state'[x] = state[x]
    BY <1>2, GoesLemma DEF Ref, Places
  <2>2. h \in Held /\ state[g] = "unused" /\ h # g
    BY <1>2 DEF Ref, Held, In
  <2>3. /\ Strong' = Strong /\ Owners' = Owners
        /\ Weak' = Weak \cup {g} /\ g \notin Weak
    BY <2>1, <2>2 DEF Strong, Owners, Weak, In
  <2>4. TypeOK'
    BY <1>2, <2>1, <2>2 DEF TypeOK, Ref, Held, In
  <2>5. Counted'
    <3>1. /\ Cardinality(Weak') = Cardinality(Weak) + 1
          /\ Cardinality(Weak) \in Nat
      BY <2>3, Subsets, CardLemma
    <3>2. QED
      BY <1>2, <2>3, <3>1, Subsets DEF Ref
  <2>6. LastOwner' /\ Lifetime' /\ Loaded'
    BY <1>2, <2>1, <2>2, <2>3 DEF LastOwner, Lifetime, Loaded, Ref, In
  <2>7. HeadOutlivesUse'
    BY <1>2, <2>1, <2>2 DEF HeadOutlivesUse, Ref, Held, In
  <2>8. QED
    BY <2>4, <2>5, <2>6, <2>7
<1>3. ASSUME NEW h \in Handle, NEW g \in Handle, AcquireLoad(h, g)
      PROVE  Inv'
  <2>1. /\ state' \in [Handle -> Places] /\ state'[g] = "acquiring"
        /\ \A x \in Handle \ {g} : state'[x] = state[x]
    BY <1>3, GoesLemma DEF AcquireLoad, Places
  <2>2. h \in Held /\ state[g] = "unused" /\ h # g
    BY <1>3 DEF AcquireLoad, Held, In
  <2>3. Strong' = Strong /\ Owners' = Owners /\ Weak' = Weak
    BY <2>1, <2>2 DEF Strong, Owners, Weak, In
  <2>4. TypeOK'
    BY <1>3, <2>1, <2>2 DEF TypeOK, AcquireLoad, Held, In
  <2>5. Counted'
    BY <1>3, <2>3, Subsets DEF AcquireLoad
  <2>6. LastOwner' /\ Lifetime' /\ Loaded'
    BY <1>3, <2>1, <2>2, <2>3 DEF LastOwner, Lifetime, Loaded, AcquireLoad, In, TypeOK
  <2>7. HeadOutlivesUse'
    BY <1>3, <2>1, <2>2 DEF HeadOutlivesUse, AcquireLoad, Held, In
  <2>8. QED
    BY <2>4, <2>5, <2>6, <2>7
<1>4. ASSUME NEW g \in Handle, AcquireCas(g)
      PROVE  Inv'
  <2>1. state[g] = "acquiring" /\ old[g] > 0 /\ via[g] \in Held
    BY <1>4 DEF AcquireCas, Loaded, In, TypeOK
  <2>2. CASE /\ MaySwap(g)
             /\ cnt' = old[g] + 1
             /\ AcquireDone(g, "strong")
    <3>1. /\ state' \in [Handle -> Places] /\ state'[g] = "strong"
          /\ \A x \in Handle \ {g} : state'[x] = state[x]
      BY <2>2, GoesLemma DEF AcquireDone, Places
    <3>2. cnt > 0 /\ cnt' = cnt + 1
      BY <2>1, <2>2 DEF MaySwap
    <3>3. Strong # {}
      <4>1. Cardinality(Strong) = 0 <=> Strong = {}
        BY Subsets, CardLemma
      <4>2. QED
        BY <3>2, <4>1, Subsets
    <3>4. PICK h \in Handle : state[h] = "strong"
      BY <3>3 DEF Strong, In
    <3>5. In({"destroying", "unref"}) = {} /\ live
      BY <3>4 DEF LastOwner, Lifetime, Owners, In
    <3>6. /\ Strong' = Strong \cup {g} /\ g \notin Strong
          /\ Weak' = Weak /\ Owners # {} /\ Owners' # {}
      BY <2>1, <3>1, <3>4 DEF Strong, Weak, Owners, In
    <3>7. TypeOK'
      <4>1. /\ cnt' \in Nat /\ weak_cnt' \in Nat /\ live' \in BOOLEAN
            /\ allocated' \in BOOLEAN
        BY <1>4, <3>2 DEF TypeOK, AcquireCas
      <4>2. /\ via' \in [Handle -> Handle \cup {NoHandle}] /\ via'[g] = NoHandle
            /\ \A x \in Handle \ {g} : via'[x] = via[x]
            /\ old' \in [Handle -> Nat]
        BY <2>2 DEF TypeOK, AcquireDone
      <4>3. Held \subseteq Held'
        BY <2>1, <3>1 DEF Held, In
      <4>4. QED
        BY <3>1, <4>1, <4>2, <4>3 DEF TypeOK
    <3>8. Counted'
      <4>1. Cardinality(Strong') = Cardinality(Strong) + 1 /\ Cardinality(Strong) \in Nat
        BY <3>6, Subsets, CardLemma
      <4>2. QED
        BY <1>4, <3>2, <3>6, <4>1, Subsets DEF AcquireCas
    <3>9. LastOwner' /\ Lifetime' /\ Loaded'
      BY <1>4, <2>1, <2>2, <3>1, <3>4, <3>5
      DEF LastOwner, Lifetime, Loaded, AcquireCas, AcquireDone, In, TypeOK
    <3>10. HeadOutlivesUse'
      BY <1>4, <2>1, <3>1 DEF HeadOutlivesUse, AcquireCas
    <3>11. QED
      BY <3>7, <3>8, <3>9, <3>10
  <2>3. CASE /\ cnt > 0
             /\ old' = [old EXCEPT ![g] = cnt]
             /\ UNCHANGED <<cnt, state, via>>
    <3>1. TypeOK' /\ Loaded'
      BY <1>4, <2>3 DEF TypeOK, Loaded, AcquireCas, Held, In
    <3>2. QED
      BY <1>4, <2>3, <3>1 DEF Counted, LastOwner, Lifetime, HeadOutlivesUse, Owners, In,
                              AcquireCas
  <2>4. CASE /\ cnt <= 0
             /\ cnt' = cnt
             /\ AcquireDone(g, "unused")
    <3>1. /\ state' \in [Handle -> Places] /\ state'[g] = "unused"
          /\ \A x \in Handle \ {g} : state'[x] = state[x]
      BY <2>4, GoesLemma DEF AcquireDone, Places
    <3>2. Strong' = Strong /\ Owners' = Owners /\ Weak' = Weak
      BY <2>1, <3>1 DEF Strong, Owners, Weak, In
    <3>3. TypeOK'
      BY <1>4, <2>1, <2>4, <3>1 DEF TypeOK, AcquireCas, AcquireDone, Held, In
    <3>4. Counted'
      BY <1>4, <2>4, <3>2, Subsets DEF AcquireCas
    <3>5. LastOwner' /\ Lifetime' /\ Loaded'
      BY <1>4, <2>1, <2>4, <3>1, <3>2
      DEF LastOwner, Lifetime, Loaded, AcquireCas, AcquireDone, In, TypeOK
    <3>6. HeadOutlivesUse'
      BY <1>4, <2>1, <3>1 DEF HeadOutlivesUse, AcquireCas
    <3>7. QED
      BY <3>3, <3>4, <3>5, <3>6
  <2>5. QED
    BY <1>4, <2>2, <2>3, <2>4 DEF AcquireCas
<1>5. ASSUME NEW h \in Handle, Release(h)
      PROVE  Inv'
  <2>1. state[h] = "strong" /\ Droppable(h) /\ h \in Strong
    BY <1>5 DEF Release, Strong, In
  <2>2. /\ state' \in [Handle -> Places]
        /\ state'[h] = IF cnt = 1 THEN "destroying" ELSE "unused"
        /\ \A x \in Handle \ {h} : state'[x] = state[x]
    BY <1>5, GoesLemma DEF Release, Places
  <2>3. Strong' = Strong \ {h} /\ Weak' = Weak /\ Owners # {}
    BY <2>1, <2>2 DEF Strong, Weak, Owners, In
  <2>4. /\ cnt = Cardinality(Strong) /\ Cardinality(Strong) \in Nat
        /\ cnt' = cnt - 1 /\ Cardinality(Strong') = cnt - 1
        /\ cnt' \in Nat
    BY <1>5, <2>1, <2>3, Subsets, CardLemma DEF Release
  <2>5. In({"destroying", "unref"}) = {} /\ live
    BY <2>1 DEF LastOwner, Lifetime, Owners, In
  <2>6. cnt = 1 => Strong = {h}
    BY <2>1, <2>4, Subsets, CardLemma
  <2>7. cnt # 1 => Strong \ {h} # {}
    <3>1. Strong' \in SUBSET Handle /\ (Cardinality(Strong') = 0 <=> Strong' = {})
      BY <2>3, Subsets, CardLemma
    <3>2. QED
      BY <2>3, <2>4, <3>1
  <2>8. Owners' # {}
    BY <2>1, <2>2, <2>7 DEF Owners, Strong, In
  <2>9. TypeOK'
    BY <1>5, <2>1, <2>2, <2>4 DEF TypeOK, Release, Droppable, Held, In
  <2>10. Counted'
    BY <1>5, <2>3, <2>4, <2>8, Subsets DEF Release
  <2>11. LastOwner'
    BY <2>1, <2>2, <2>5, <2>6 DEF LastOwner, Strong, Owners, In
  <2>12. Lifetime'
    <3>1. In({"strong", "destroying"})' # {}
      BY <2>1, <2>2, <2>7 DEF Strong, In
    <3>2. QED
      BY <1>5, <2>5, <3>1 DEF Lifetime, Release
  <2>13. Loaded' /\ HeadOutlivesUse'
    BY <1>5, <2>1, <2>2 DEF Loaded, HeadOutlivesUse, Release, In
  <2>14. QED
    BY <2>9, <2>10, <2>11, <2>12, <2>13
<1>6. ASSUME NEW h \in Handle, Destroy(h)
      PROVE  Inv'
  <2>1. state[h] = "destroying" /\ Owners = {h}
    BY <1>6 DEF Destroy, LastOwner, In
  <2>2. /\ state' \in [Handle -> Places] /\ state'[h] = "unref"
        /\ \A x \in Handle \ {h} : state'[x] = state[x]
    BY <1>6, GoesLemma DEF Destroy, ThenUnref, Places
  <2>3. Strong' = Strong /\ Weak' = Weak /\ Owners' = Owners
    BY <2>1, <2>2 DEF Strong, Weak, Owners, In
  <2>4. TypeOK'
    BY <1>6, <2>1, <2>2 DEF TypeOK, Destroy, Held, In
  <2>5. Counted'
    BY <1>6, <2>3, Subsets DEF Destroy
  <2>6. LastOwner' /\ Loaded' /\ HeadOutlivesUse'
    BY <1>6, <2>1, <2>2, <2>3 DEF LastOwner, Loaded, HeadOutlivesUse, Destroy, In
  <2>7. Lifetime'
    BY <1>6, <2>1, <2>2 DEF Lifetime, Destroy, Owners, In
  <2>8. QED
    BY <2>4, <2>5, <2>6, <2>7
<1>7. ASSUME NEW h \in Handle, Unref(h)
      PROVE  Inv'
  <2>1. /\ state' \in [Handle -> Places]
        /\ state'[h] = IF weak_cnt = 1 THEN "freeing" ELSE "unused"
        /\ \A x \in Handle \ {h} : state'[x] = state[x]
    BY <1>7, GoesLemma DEF Unref, Places
  <2>2. Strong' = Strong
    BY <1>7, <2>1 DEF Strong, Unref, In
  <2>3. CASE state[h] = "weak" /\ Droppable(h)
    <3>1. h \in Weak /\ Weak' = Weak \ {h} /\ Owners' = Owners
      BY <2>1, <2>3 DEF Weak, Owners, In
    <3>2. /\ Cardinality(Weak) \in Nat /\ Cardinality(Weak') = Cardinality(Weak) - 1
          /\ Cardinality(Weak) # 0
          /\ Cardinality(Weak) = 1 => Weak = {h}
      BY <3>1, Subsets, CardLemma
    <3>3. weak_cnt' = weak_cnt - 1 /\ weak_cnt' \in Nat
      BY <1>7, <3>2, Subsets DEF Unref
    <3>4. weak_cnt = 1 => \A x \in Handle \ {h} : state[x] = "unused"
      <4>1. weak_cnt = 1 => Weak = {h} /\ Owners = {}
        BY <3>2, Subsets
      <4>2. weak_cnt = 1 => Held = {h}
        BY <4>1 DEF Held, Owners, Weak, In
      <4>3. \A x \in Handle : state[x] # "freeing"
        BY <2>3 DEF HeadOutlivesUse
      <4>4. weak_cnt = 1 => \A x \in Handle : state[x] # "acquiring"
        BY <2>3, <4>2 DEF TypeOK, Droppable
      <4>5. QED
        BY <4>1, <4>3, <4>4 DEF TypeOK, Places, Owners, Weak, In
    <3>5. TypeOK'
      BY <1>7, <2>1, <2>3, <3>3 DEF TypeOK, Unref, Droppable, Held, In
    <3>6. Counted'
      BY <1>7, <2>2, <3>1, <3>2, <3>3, Subsets DEF Unref
    <3>7. LastOwner' /\ Lifetime' /\ Loaded'
      BY <1>7, <2>1, <2>3, <3>1 DEF LastOwner, Lifetime, Loaded, Unref, In
    <3>8. HeadOutlivesUse'
      BY <1>7, <2>1, <2>3, <3>4 DEF HeadOutlivesUse, Unref
    <3>9. QED
      BY <3>5, <3>6, <3>7, <3>8
  <2>4. CASE state[h] = "unref"
    <3>1. Owners = {h} /\ Strong = {} /\ Weak' = Weak
      BY <2>1, <2>4 DEF LastOwner, Owners, Strong, Weak, In
    <3>2. Owners' = {}
      BY <2>1, <3>1 DEF Owners, In
    <3>3. Cardinality(Weak) \in Nat /\ (Cardinality(Weak) = 0 <=> Weak = {})
      BY Subsets, CardLemma
    <3>4. weak_cnt = Cardinality(Weak) + 1 /\ weak_cnt' = weak_cnt - 1
      BY <1>7, <3>1, Subsets DEF Unref
    <3>5. weak_cnt = 1 => \A x \in Handle \ {h} : state[x] = "unused"
      <4>1. weak_cnt = 1 => Held = {}
        BY <3>1, <3>3, <3>4 DEF Held, Strong, Weak, In
      <4>2. \A x \in Handle : state[x] # "freeing"
        BY <2>4 DEF HeadOutlivesUse
      <4>3. weak_cnt = 1 => \A x \in Handle : state[x] # "acquiring"
        BY <4>1 DEF TypeOK
      <4>4. QED
        BY <3>1, <4>1, <4>2, <4>3 DEF TypeOK, Places, Owners, Held, In
    <3>6. TypeOK'
      BY <1>7, <2>1, <2>4, <3>3, <3>4 DEF TypeOK, Unref, Held, In
    <3>7. Counted'
      BY <1>7, <2>2, <3>1, <3>2, <3>3, <3>4, Subsets DEF Unref
    <3>8. LastOwner' /\ Loaded'
      BY <1>7, <2>1, <2>4, <3>2 DEF LastOwner, Loaded, Unref, Owners, In
    <3>9. Lifetime'
      BY <1>7, <2>1, <2>4, <3>1 DEF Lifetime, Unref, Owners, In
    <3>10. HeadOutlivesUse'
      BY <1>7, <2>1, <2>4, <3>5 DEF HeadOutlivesUse, Unref
    <3>11. QED
      BY <3>6, <3>7, <3>8, <3>9, <3>10
  <2>5. QED
    BY <1>7, <2>3, <2>4 DEF Unref
<1>8. ASSUME NEW h \in Handle, Free(h)
      PROVE  Inv'
  <2>1. state[h] = "freeing" /\ \A x \in Handle \ {h} : state[x] = "unused"
    BY <1>8 DEF Free, HeadOutlivesUse
  <2>2. /\ state' \in [Handle -> Places]
        /\ \A x \in Handle : state'[x] = "unused"
    BY <1>8, <2>1, GoesLemma DEF Free, Places
  <2>3. Strong' = Strong /\ Weak' = Weak /\ Owners' = Owners
    BY <2>1, <2>2 DEF Strong, Weak, Owners, In
  <2>4. TypeOK'
    BY <1>8, <2>1, <2>2 DEF TypeOK, Free, Held, In
  <2>5. Counted'
    BY <1>8, <2>3, Subsets DEF Free
  <2>6. LastOwner' /\ Lifetime' /\ Loaded' /\ HeadOutlivesUse'
    BY <1>8, <2>1, <2>2 DEF LastOwner, Lifetime, Loaded, HeadOutlivesUse, Free, In
  <2>7. QED
    BY <2>4, <2>5, <2>6
<1>9. QED
  BY <1>1, <1>2, <1>3, <1>4, <1>5, <1>6, <1>7, <1>8 DEF Next

\* It holds at first.
LEMMA InitInv == Init => Inv
<1> SUFFICES ASSUME Init PROVE Inv
  OBVIOUS
<1>1. PICK h \in Handle : state = [g \in Handle |-> IF g = h THEN "strong" ELSE "unused"]
  BY DEF Init
<1>2. Strong = {h} /\ Weak = {} /\ Owners = {h}
  BY <1>1 DEF Strong, Weak, Owners, In
<1>3. Counted
  <2>1. Cardinality(Strong) = 1 /\ Cardinality(Weak) = 0
    BY <1>2, FS_Singleton, FS_EmptySet
  <2>2. Owners # {}
    BY <1>2
  <2>3. cnt = 1 /\ weak_cnt = 1
    BY DEF Init, SharedWeak
  <2>4. QED
    BY <2>1, <2>2, <2>3, Subsets
<1>4. TypeOK
  BY <1>1 DEF Init, TypeOK, Places, SharedWeak
<1>5. LastOwner /\ Lifetime /\ Loaded /\ HeadOutlivesUse
  BY <1>1 DEF Init, LastOwner, Lifetime, Loaded, HeadOutlivesUse, In
<1>6. QED
  BY <1>3, <1>4, <1>5 DEF Inv

\* It holds in every behaviour.
THEOREM RefsInvariance == Spec => []Inv
BY InitInv, Inductive, PTL DEF Spec

\* The counters count the handles; a strong handle keeps the object alive; the
\* head is freed after the last access to it.
THEOREM RefsSafety == Spec => [](TypeOK /\ Counted /\ StrongKeepsAlive /\ HeadOutlivesUse)
<1>1. Inv => TypeOK /\ Counted /\ StrongKeepsAlive /\ HeadOutlivesUse
  BY DEF Inv, Lifetime, StrongKeepsAlive, In
<1>2. QED
  BY <1>1, RefsInvariance, PTL

\* A strong count that has reached zero stays there, whichever acquires are
\* under way.
THEOREM DeadForGood == Spec => NoResurrection
<1>1. Inv /\ [Next]_vars => [cnt = 0 => cnt' = 0]_vars
  <2> SUFFICES ASSUME Inv, Next, cnt = 0 PROVE cnt' = 0
    BY DEF vars
  <2>1. Strong = {}
    <3>1. Cardinality(Strong) = 0 <=> Strong = {}
      BY Subsets, CardLemma
    <3>2. QED
      BY <3>1, Subsets DEF Inv
  <2>2. PICK h \in Handle :
          \/ \E g \in Handle : Ref(h, g) \/ AcquireLoad(h, g)
          \/ AcquireCas(h) \/ Release(h) \/ Destroy(h) \/ Unref(h) \/ Free(h)
    BY DEF Next
  <2>3. ~Release(h)
    BY <2>1 DEF Release, Strong, In
  <2>4. AcquireCas(h) => cnt' = 0
    BY DEF Inv, Loaded, AcquireCas, MaySwap, In
  <2>5. QED
    BY <2>2, <2>3, <2>4 DEF Ref, AcquireLoad, Destroy, Unref, Free
<1>2. QED
  BY <1>1, RefsInvariance, PTL DEF Spec, NoResurrection

\* Every step of the counters is a step of the sets of handles, or none: the
\* object is destroyed and freed when, and only when, nobody holds it.
LEMMA Refinement ==
  ASSUME Inv, [Next]_vars
  PROVE  [Object!Next]_(Object!vars)
<1> USE DEF Inv
<1>1. CASE UNCHANGED vars
  BY <1>1 DEF vars, Object!vars, In
<1>2. ASSUME NEW h \in Handle, NEW g \in Handle, Ref(h, g)
      PROVE  Object!Observe(g)
  BY <1>2 DEF Ref, Goes, Object!Observe, Object!New, Held, In, TypeOK
<1>3. ASSUME NEW h \in Handle, NEW g \in Handle, AcquireLoad(h, g)
      PROVE  UNCHANGED Object!vars
  BY <1>3 DEF AcquireLoad, Goes, Object!vars, Held, In, TypeOK
<1>4. ASSUME NEW g \in Handle, AcquireCas(g)
      PROVE  Object!Share(g) \/ UNCHANGED Object!vars
  <2>1. CASE MaySwap(g) /\ AcquireDone(g, "strong")
    <3>1. cnt > 0
      BY <1>4, <2>1 DEF AcquireCas, MaySwap, Loaded, In
    <3>2. Strong # {}
      <4>1. Cardinality(Strong) = 0 <=> Strong = {}
        BY Subsets, CardLemma
      <4>2. QED
        BY <3>1, <4>1, Subsets
    <3>3. QED
      BY <1>4, <2>1, <3>2
      DEF AcquireCas, AcquireDone, Goes, Object!Share, Object!New, Strong, In, TypeOK
  <2>2. CASE UNCHANGED state
    BY <1>4, <2>2 DEF AcquireCas, Object!vars, In
  <2>3. CASE AcquireDone(g, "unused")
    BY <1>4, <2>3 DEF AcquireCas, AcquireDone, Goes, Object!vars, In, TypeOK
  <2>4. QED
    BY <1>4, <2>1, <2>2, <2>3 DEF AcquireCas
<1>5. ASSUME NEW h \in Handle, Release(h)
      PROVE  Object!Drop(h)
  BY <1>5 DEF Release, Goes, Object!Drop, In, TypeOK
<1>6. ASSUME NEW h \in Handle, Destroy(h)
      PROVE  Object!Destroy
  BY <1>6 DEF Destroy, ThenUnref, Goes, Object!Destroy, LastOwner, Lifetime, Owners, In, TypeOK
<1>7. ASSUME NEW h \in Handle, Unref(h)
      PROVE  Object!Drop(h) \/ UNCHANGED Object!vars
  BY <1>7 DEF Unref, Goes, Object!Drop, Object!vars, In, TypeOK
<1>8. ASSUME NEW h \in Handle, Free(h)
      PROVE  Object!Free
  BY <1>8 DEF Free, Goes, Object!Free, HeadOutlivesUse, Lifetime, In, TypeOK
<1>9. QED
  BY <1>1, <1>2, <1>3, <1>4, <1>5, <1>6, <1>7, <1>8 DEF Next, Object!Next

\* The counters implement the sets of handles (their safety part; that what
\* nobody holds is in the end freed is checked by TLC).
THEOREM ImplementsObject == Spec => Object!Safety
<1>1. Init => Object!Init
  BY DEF Init, Object!Init, In
<1>2. Inv /\ [Next]_vars => [Object!Next]_(Object!vars)
  BY Refinement
<1>3. QED
  BY <1>1, <1>2, RefsInvariance, PTL DEF Spec, Object!Safety

\* A step of the program is a step of the object that is used, and the others
\* stay as they are.
LEMMA Steps ==
  ASSUME [MCNext]_MCVars
  PROVE  /\ which' = which
         /\ IF which = "WeakRef" THEN [Next]_vars ELSE UNCHANGED vars
         /\ IF which = "RefCnt" THEN [R!Next]_refVars ELSE UNCHANGED refVars
         /\ IF which = "CDL" THEN [L!Next]_latchVars ELSE UNCHANGED latchVars
         /\ IF which = "Timewheel" THEN [T!Next]_wheelVars ELSE UNCHANGED wheelVars
         /\ IF which = "Malloc" THEN [M!Next]_allocVars ELSE UNCHANGED allocVars
         /\ IF which = "MemPool" THEN [P!Next]_poolVars ELSE UNCHANGED poolVars
         /\ IF which = "Buffer" THEN [B!Next]_bufVars ELSE UNCHANGED bufVars
         /\ IF which = "MainArg" THEN [A!Next]_argVars ELSE UNCHANGED argVars
<1>1. CASE UNCHANGED MCVars
  BY <1>1, Zenon DEF MCVars
<1>2. CASE MCNext
  BY <1>2 DEF MCNext
<1>3. QED
  BY <1>1, <1>2

(***************************************************************************)
(* The memory pool.                                                        *)
(***************************************************************************)
\* The number of items there are.
PoolItems == blocks * ItemsPerBlock

\* Every item is somewhere, counted: what cra_mempool_uninit relies on when it
\* looks at the height of the stack alone.
ItemsCounted == Len(stack) + Cardinality(used) + Cardinality(lost) = PoolItems

\* The inductive invariant.
PoolInv == P!TypeOK /\ P!PoolIsSound /\ ItemsCounted

\* The items are finitely many, and so are those of any kind.
LEMMA ItemSets ==
  ASSUME P!MemPoolAssumption, P!TypeOK, NEW Z \in SUBSET P!Items, NEW x
  PROVE  /\ PoolItems \in Nat
         /\ Cardinality(Z) \in Nat
         /\ Cardinality(Z) = 0 <=> Z = {}
         /\ x \notin Z => Cardinality(Z \cup {x}) = Cardinality(Z) + 1
         /\ x \in Z => Cardinality(Z \ {x}) = Cardinality(Z) - 1
<1>1. PoolItems \in Nat
  BY DEF PoolItems, P!TypeOK, P!MemPoolAssumption
<1>2. IsFiniteSet(Z)
  <2>1. IsFiniteSet(P!Items)
    BY <1>1, FS_Interval DEF P!Items, PoolItems
  <2>2. QED
    BY <2>1, FS_Subset
<1>3. QED
  BY <1>1, <1>2, FS_CardinalityType, FS_EmptySet, FS_AddElement, FS_RemoveElement

\* The items of a further block.
LEMMA NewBlock ==
  ASSUME P!MemPoolAssumption, P!TypeOK
  PROVE  /\ (blocks + 1) * ItemsPerBlock = PoolItems + ItemsPerBlock
         /\ P!ItemsOf(blocks + 1) = [k \in 1 .. ItemsPerBlock |-> PoolItems + k]
<1>1. blocks \in Nat /\ ItemsPerBlock \in Nat
  BY DEF P!TypeOK, P!MemPoolAssumption
<1>2. (blocks + 1) * ItemsPerBlock = PoolItems + ItemsPerBlock
  BY <1>1 DEF PoolItems
<1> DEFINE b == blocks + 1
<1>3. (b - 1) * ItemsPerBlock = PoolItems
  <2>1. b - 1 = blocks
    BY <1>1
  <2>2. QED
    BY <2>1 DEF PoolItems
<1> HIDE DEF b
<1>4. P!ItemsOf(b) = [k \in 1 .. ItemsPerBlock |-> PoolItems + k]
  BY <1>3, Zenon DEF P!ItemsOf
<1>5. QED
  BY <1>2, <1>4, Zenon DEF b

\* A sequence without its last element: cra_alist_pop_back.
LEMMA Popped ==
  ASSUME NEW S, NEW s \in Seq(S), s # <<>>
  PROVE  LET n == Len(s)
             r == SubSeq(s, 1, n - 1)
         IN  /\ n \in Nat \ {0} /\ s[n] \in S
             /\ r \in Seq(S) /\ Len(r) = n - 1 /\ DOMAIN r = 1 .. n - 1
             /\ \A q \in 1 .. n - 1 : r[q] = s[q]
<1>1. Len(s) \in Nat \ {0} /\ DOMAIN s = 1 .. Len(s)
  OBVIOUS
<1>2. QED
  BY <1>1

\* The pool that cra_mempool_init makes.
LEMMA PoolInit ==
  ASSUME P!MemPoolAssumption, P!Init
  PROVE  PoolInv
<1>1. InitBlock * ItemsPerBlock \in Nat \ {0}
  BY DEF P!MemPoolAssumption
<1>2. DEFINE n == InitBlock * ItemsPerBlock
<1>3. /\ stack = [q \in 1 .. n |-> q] /\ n \in Nat
      /\ P!Items = 1 .. n /\ PoolItems = n
  BY <1>1 DEF P!Init, P!Items, PoolItems
<1> HIDE DEF n
<1>4. stack \in Seq(P!Items) /\ Len(stack) = n /\ P!OnStack = P!Items
  BY <1>3 DEF P!OnStack
<1>5. P!TypeOK
  BY <1>1, <1>4 DEF P!Init, P!TypeOK, P!Bigger, P!MemPoolAssumption
<1>6. P!PoolIsSound
  BY <1>3, <1>4 DEF P!Init, P!PoolIsSound, P!EachItemOnce, P!UninitIsRight
<1>7. ItemsCounted
  <2>1. Cardinality(used) = 0 /\ Cardinality(lost) = 0
    BY FS_EmptySet DEF P!Init
  <2>2. QED
    BY <1>3, <1>4, <2>1 DEF ItemsCounted
<1>8. QED
  BY <1>5, <1>6, <1>7 DEF PoolInv

\* cra_mempool_alloc off the stack, from a new block, cra_mempool_dealloc and
\* cra_mempool_uninit keep the invariant.
LEMMA AllocStep ==
  ASSUME P!MemPoolAssumption, PoolInv, P!Alloc
  PROVE  PoolInv'
<1> DEFINE n   == Len(stack)
           top == stack[n]
<1>1. /\ stack' = SubSeq(stack, 1, n - 1) /\ used' = used \cup {top}
      /\ ended = "no" /\ UNCHANGED <<blocks, capacity, lost, ended>>
      /\ P!Items' = P!Items /\ PoolItems' = PoolItems
  BY DEF P!Alloc, P!Items, PoolItems
<1>2. /\ n \in Nat \ {0} /\ top \in P!Items /\ DOMAIN stack = 1 .. n
      /\ stack' \in Seq(P!Items) /\ Len(stack') = n - 1 /\ DOMAIN stack' = 1 .. n - 1
      /\ \A q \in 1 .. n - 1 : stack'[q] = stack[q]
  <2>1. stack \in Seq(P!Items) /\ stack # <<>>
    BY DEF P!Alloc, PoolInv, P!TypeOK
  <2>2. QED
    BY <1>1, <2>1, Popped
<1>3. P!OnStack = P!OnStack' \cup {top} /\ top \notin P!OnStack'
  <2>1. 1 .. n = (1 .. n - 1) \cup {n} /\ n \notin 1 .. n - 1
    BY <1>2
  <2>2. QED
    BY <1>2, <2>1 DEF PoolInv, P!PoolIsSound, P!EachItemOnce, P!OnStack
<1>4. P!TypeOK'
  BY <1>1, <1>2 DEF PoolInv, P!TypeOK
<1>5. P!EachItemOnce'
  BY <1>1, <1>2, <1>3 DEF PoolInv, P!PoolIsSound, P!EachItemOnce
<1>6. ItemsCounted'
  <2>1. top \notin used
    BY <1>3 DEF PoolInv, P!PoolIsSound, P!EachItemOnce
  <2>2. used \in SUBSET P!Items /\ lost \in SUBSET P!Items
    BY DEF PoolInv, P!TypeOK
  <2>3. /\ Cardinality(used') = Cardinality(used) + 1
        /\ Cardinality(used) \in Nat /\ Cardinality(lost) \in Nat
    BY <1>1, <2>1, <2>2, ItemSets DEF PoolInv
  <2>4. n + Cardinality(used) + Cardinality(lost) = PoolItems
    BY DEF PoolInv, ItemsCounted
  <2>5. /\ Len(stack') = n - 1 /\ Cardinality(used') = Cardinality(used) + 1
        /\ Cardinality(lost') = Cardinality(lost)
    BY <1>1, <1>2, <2>3, Zenon
  <2>6. n - 1 + (Cardinality(used) + 1) + Cardinality(lost) = n + Cardinality(used) + Cardinality(lost)
    BY <1>2, <2>3
  <2>7. QED
    BY <1>1, <2>4, <2>5, <2>6 DEF ItemsCounted
<1>7. QED
  BY <1>1, <1>4, <1>5, <1>6 DEF PoolInv, P!PoolIsSound, P!UninitIsRight

\* The items of the new block are new ones.
LEMMA NewBlockStep ==
  ASSUME P!MemPoolAssumption, PoolInv, P!AllocFromNewBlock
  PROVE  PoolInv'
<1> DEFINE k == ItemsPerBlock
<1>1. /\ PoolItems \in Nat /\ k \in Nat \ {0} /\ blocks \in Nat
      /\ P!Items = 1 .. PoolItems /\ PoolItems' = PoolItems + k /\ P!Items' = 1 .. PoolItems + k
  BY ItemSets, NewBlock DEF PoolInv, P!TypeOK, P!AllocFromNewBlock, P!Items, PoolItems, P!MemPoolAssumption
<1>2. /\ stack = <<>> /\ ended = "no" /\ blocks' = blocks + 1
      /\ stack' = SubSeq([q \in 1 .. k |-> PoolItems + q], 1, k - 1)
      /\ used' = used \cup {PoolItems + k}
      /\ UNCHANGED <<capacity, lost, ended>>
  BY <1>1, NewBlock DEF PoolInv, P!AllocFromNewBlock
<1> HIDE DEF k
<1>3. /\ stack' \in Seq(P!Items') /\ Len(stack') = k - 1
      /\ \A q \in 1 .. k - 1 : stack'[q] = PoolItems + q
  BY <1>1, <1>2
<1>4. P!OnStack = {} /\ P!OnStack' = PoolItems + 1 .. PoolItems + k - 1
  <2>1. DOMAIN stack' = 1 .. k - 1 /\ DOMAIN stack = {}
    BY <1>1, <1>2, <1>3
  <2>2. \A x \in PoolItems + 1 .. PoolItems + k - 1 : x - PoolItems \in 1 .. k - 1 /\ x = PoolItems + (x - PoolItems)
    BY <1>1
  <2>3. \A q \in 1 .. k - 1 : stack'[q] \in PoolItems + 1 .. PoolItems + k - 1
    BY <1>1, <1>3
  <2>4. \A x \in PoolItems + 1 .. PoolItems + k - 1 : x \in P!OnStack'
    BY <1>3, <2>1, <2>2 DEF P!OnStack
  <2>5. QED
    BY <2>1, <2>3, <2>4 DEF P!OnStack
<1>5. used \subseteq 1 .. PoolItems /\ lost \subseteq 1 .. PoolItems
  BY <1>1 DEF PoolInv, P!TypeOK
<1>6. P!TypeOK'
  BY <1>1, <1>2, <1>3, <1>5 DEF PoolInv, P!TypeOK
<1>7. P!EachItemOnce'
  <2>1. used \cup lost = 1 .. PoolItems /\ used \cap lost = {}
    BY <1>1, <1>4 DEF PoolInv, P!PoolIsSound, P!EachItemOnce
  <2>2. \A q, j \in DOMAIN stack' : stack'[q] = stack'[j] => q = j
    <3>1. DOMAIN stack' = 1 .. k - 1
      BY <1>1, <1>3
    <3>2. QED
      BY <1>1, <1>3, <3>1
  <2>3. P!OnStack' \cap used' = {} /\ P!OnStack' \cap lost' = {} /\ used' \cap lost' = {}
    BY <1>1, <1>2, <1>4, <1>5, <2>1
  <2>4. P!OnStack' \cup used' \cup lost' = P!Items'
    BY <1>1, <1>2, <1>4, <2>1
  <2>5. QED
    BY <2>2, <2>3, <2>4 DEF P!EachItemOnce
<1>8. ItemsCounted'
  <2>1. PoolItems + k \notin used
    BY <1>1, <1>5
  <2>2. used \in SUBSET P!Items /\ lost \in SUBSET P!Items
    BY DEF PoolInv, P!TypeOK
  <2>3. /\ Cardinality(used \cup {PoolItems + k}) = Cardinality(used) + 1
        /\ Cardinality(used) \in Nat /\ Cardinality(lost) \in Nat
    BY <2>1, <2>2, ItemSets DEF PoolInv
  <2>4. Len(stack) = 0
    BY <1>2
  <2>5. QED
    BY <1>1, <1>2, <1>3, <2>3, <2>4 DEF PoolInv, ItemsCounted
<1>9. QED
  BY <1>2, <1>6, <1>7, <1>8 DEF PoolInv, P!PoolIsSound, P!UninitIsRight

\* An item that goes back was in use; when the stack cannot grow it is lost.
LEMMA DeallocStep ==
  ASSUME P!MemPoolAssumption, PoolInv, P!Dealloc
  PROVE  PoolInv'
<1>1. PICK item \in used :
        /\ used' = used \ {item}
        /\ \/ /\ stack' = Append(stack, item) /\ lost' = lost
              /\ capacity' = IF Len(stack) = capacity THEN 2 * capacity ELSE capacity
           \/ /\ lost' = lost \cup {item} /\ stack' = stack /\ capacity' = capacity
  BY DEF P!Dealloc, P!Pushed
<1>2. /\ ended = "no" /\ ended' = "no" /\ blocks' = blocks
      /\ P!Items' = P!Items /\ PoolItems' = PoolItems
      /\ stack \in Seq(P!Items) /\ item \in P!Items
      /\ used \in SUBSET P!Items /\ lost \in SUBSET P!Items
  BY <1>1 DEF P!Dealloc, PoolInv, P!TypeOK, P!Items, PoolItems
<1>3. item \notin P!OnStack /\ item \notin lost
  BY <1>1 DEF PoolInv, P!PoolIsSound, P!EachItemOnce
<1>4. /\ Cardinality(used') = Cardinality(used) - 1
      /\ Cardinality(lost \cup {item}) = Cardinality(lost) + 1
      /\ Cardinality(used) \in Nat /\ Cardinality(lost) \in Nat
  BY <1>1, <1>2, <1>3, ItemSets DEF PoolInv
<1>5. CASE /\ stack' = Append(stack, item) /\ lost' = lost
           /\ capacity' = IF Len(stack) = capacity THEN 2 * capacity ELSE capacity
  <2>1. /\ stack' \in Seq(P!Items) /\ Len(stack') = Len(stack) + 1
        /\ stack'[Len(stack) + 1] = item
        /\ \A q \in 1 .. Len(stack) : stack'[q] = stack[q]
    BY <1>2, <1>5
  <2>2. P!OnStack' = P!OnStack \cup {item}
    <3>1. DOMAIN stack' = (DOMAIN stack) \cup {Len(stack) + 1} /\ DOMAIN stack = 1 .. Len(stack)
      BY <1>2, <2>1
    <3>2. QED
      BY <2>1, <3>1 DEF P!OnStack
  <2>3. P!TypeOK'
    BY <1>1, <1>2, <1>5, <2>1 DEF PoolInv, P!TypeOK
  <2>4. P!EachItemOnce'
    <3>1. \A q, j \in DOMAIN stack' : stack'[q] = stack'[j] => q = j
      BY <1>2, <1>3, <2>1 DEF PoolInv, P!PoolIsSound, P!EachItemOnce, P!OnStack
    <3>2. QED
      BY <1>1, <1>2, <1>3, <1>5, <2>2, <3>1 DEF PoolInv, P!PoolIsSound, P!EachItemOnce
  <2>5. ItemsCounted'
    BY <1>2, <1>4, <1>5, <2>1 DEF PoolInv, ItemsCounted
  <2>6. QED
    BY <1>2, <2>3, <2>4, <2>5 DEF PoolInv, P!PoolIsSound, P!UninitIsRight
<1>6. CASE lost' = lost \cup {item} /\ stack' = stack /\ capacity' = capacity
  <2>1. P!TypeOK'
    BY <1>1, <1>2, <1>6 DEF PoolInv, P!TypeOK
  <2>2. P!EachItemOnce'
    BY <1>1, <1>2, <1>3, <1>6 DEF PoolInv, P!PoolIsSound, P!EachItemOnce, P!OnStack
  <2>3. ItemsCounted'
    BY <1>2, <1>4, <1>6 DEF PoolInv, ItemsCounted
  <2>4. QED
    BY <1>2, <2>1, <2>2, <2>3 DEF PoolInv, P!PoolIsSound, P!UninitIsRight
<1>7. QED
  BY <1>1, <1>5, <1>6

\* The stack is as high as there are items exactly when none is in use or lost.
LEMMA PoolUninitStep ==
  ASSUME P!MemPoolAssumption, PoolInv, P!Uninit
  PROVE  PoolInv'
<1>1. used \in SUBSET P!Items /\ lost \in SUBSET P!Items
  BY DEF PoolInv, P!TypeOK
<1>2. /\ Cardinality(used) \in Nat /\ Cardinality(lost) \in Nat
      /\ Cardinality(used) = 0 <=> used = {}
      /\ Cardinality(lost) = 0 <=> lost = {}
      /\ PoolItems \in Nat
  BY <1>1, ItemSets DEF PoolInv
<1>3. Len(stack) = PoolItems <=> used = {} /\ lost = {}
  <2>1. Len(stack) \in Nat
    BY DEF PoolInv, P!TypeOK
  <2>2. QED
    BY <1>2, <2>1 DEF PoolInv, ItemsCounted
<1>4. P!UninitIsRight'
  BY <1>3 DEF P!Uninit, P!UninitIsRight, PoolItems
<1>5. QED
  BY <1>4 DEF P!Uninit, PoolInv, P!TypeOK, P!Items, P!PoolIsSound, P!EachItemOnce, P!OnStack, ItemsCounted, PoolItems

\* A step of the pool.
LEMMA PoolKeeps ==
  ASSUME P!MemPoolAssumption, PoolInv, [P!Next]_poolVars
  PROVE  PoolInv'
<1>1. PoolInv /\ UNCHANGED poolVars => PoolInv'
  BY DEF poolVars, PoolInv, P!TypeOK, P!Items, P!PoolIsSound, P!EachItemOnce, P!UninitIsRight,
         P!OnStack, ItemsCounted, PoolItems
<1>2. QED
  BY <1>1, AllocStep, NewBlockStep, DeallocStep, PoolUninitStep DEF P!Next

(***************************************************************************)
(* References.                                                             *)
(***************************************************************************)
RefHeld == R!In({"held"})
\* The handles whose call of cra_ref_unref has seen the last reference go.
LastRefs == R!In({"destroying", "freeing"})

RefTypes == /\ refState \in [RefHandle -> {"unused", "held", "destroying", "freeing"}]
            /\ refLive \in BOOLEAN /\ refAllocated \in BOOLEAN
            /\ refCnt = Cardinality(RefHeld)

\* Whoever takes the object down is the only one left.
LastIsAlone == \A h \in LastRefs : \A g \in RefHandle \ {h} : refState[g] = "unused"

\* The object and its head live until that call is through with them.
RefLifetime == /\ refLive <=> R!In({"held", "destroying"}) # {}
               /\ refAllocated <=> R!In({"held", "destroying", "freeing"}) # {}

\* The inductive invariant.
RefInv == RefTypes /\ LastIsAlone /\ RefLifetime

\* The handles are finitely many.
LEMMA RefHandles == IsFiniteSet(RefHandle)
BY PrimitivesAssumption DEF R!RefCntAssumption, R!IsFiniteSet, IsFiniteSet

\* The invariant has the types in it.
LEMMA RefTyped ==
  ASSUME RefInv
  PROVE  R!TypeOK
BY DEF RefInv, RefTypes, RefHeld, R!TypeOK, R!Cardinality, Cardinality

\* A set of handles, with a handle more or less.
LEMMA RefCard ==
  ASSUME NEW D \in SUBSET RefHandle, NEW x
  PROVE  /\ Cardinality(D) \in Nat
         /\ x \notin D => Cardinality(D \cup {x}) = Cardinality(D) + 1
         /\ x \in D => Cardinality(D \ {x}) = Cardinality(D) - 1
         /\ x \in D /\ Cardinality(D) = 1 => D = {x}
<1>1. IsFiniteSet(D) /\ IsFiniteSet(D \ {x})
  BY RefHandles, FS_Subset, FS_RemoveElement
<1>2. x \in D => Cardinality(D \ {x}) = Cardinality(D) - 1
  BY <1>1, FS_RemoveElement
<1>3. x \in D /\ Cardinality(D) = 1 => D = {x}
  <2>1. x \in D /\ Cardinality(D) = 1 => D \ {x} = {}
    BY <1>1, <1>2, FS_EmptySet
  <2>2. QED
    BY <2>1
<1>4. QED
  BY <1>1, <1>2, <1>3, FS_CardinalityType, FS_AddElement

\* The maker holds the first handle.
LEMMA RefInit ==
  ASSUME R!Init
  PROVE  RefInv
<1>1. PICK h \in RefHandle : refState = [g \in RefHandle |-> IF g = h THEN "held" ELSE "unused"]
  BY DEF R!Init
<1>2. RefHeld = {h}
  BY <1>1 DEF RefHeld, R!In
<1>3. RefTypes
  BY <1>1, <1>2, FS_Singleton DEF R!Init, RefTypes
<1>4. LastIsAlone /\ RefLifetime
  BY <1>1 DEF R!Init, LastIsAlone, LastRefs, RefLifetime, R!In
<1>5. QED
  BY <1>3, <1>4 DEF RefInv

\* Every step of the references keeps their invariant.
LEMMA RefInductive ==
  ASSUME RefInv, [R!Next]_refVars
  PROVE  RefInv'
<1> USE DEF RefInv
<1>0. refCnt = Cardinality(RefHeld) /\ RefHeld \in SUBSET RefHandle /\ refCnt \in Nat
  BY RefCard DEF RefTypes, RefHeld, R!In
<1>1. CASE UNCHANGED refVars
  BY <1>1 DEF refVars, RefTypes, RefHeld, LastIsAlone, LastRefs, RefLifetime, R!In
<1>2. ASSUME NEW h \in RefHandle, NEW g \in RefHandle, R!Ref(h, g)
      PROVE  RefInv'
  <2>1. RefHeld' = RefHeld \cup {g} /\ g \notin RefHeld
    BY <1>2 DEF R!Ref, R!Goes, RefHeld, R!In, RefTypes
  <2>2. refCnt' = Cardinality(RefHeld')
    BY <1>0, <1>2, <2>1, RefCard DEF R!Ref
  <2>3. RefTypes'
    BY <1>2, <2>2 DEF R!Ref, R!Goes, RefTypes
  <2>4. LastRefs = {} /\ LastRefs' = {}
    BY <1>2 DEF R!Ref, R!Goes, LastIsAlone, LastRefs, R!In, RefTypes
  <2>5. LastIsAlone' /\ RefLifetime'
    BY <1>2, <2>4 DEF R!Ref, R!Goes, LastIsAlone, RefLifetime, R!In, RefTypes
  <2>6. QED
    BY <2>3, <2>5
<1>3. ASSUME NEW h \in RefHandle, R!Unref(h)
      PROVE  RefInv'
  <2>1. RefHeld' = RefHeld \ {h} /\ h \in RefHeld
    BY <1>3 DEF R!Unref, R!Goes, RefHeld, R!In, RefTypes
  <2>2. refCnt' = Cardinality(RefHeld')
    BY <1>0, <1>3, <2>1, RefCard DEF R!Unref
  <2>3. RefTypes'
    BY <1>3, <2>2 DEF R!Unref, R!Goes, RefTypes
  <2>4. LastRefs = {}
    BY <1>3 DEF R!Unref, LastIsAlone, LastRefs, R!In
  <2>5. CASE refCnt = 1
    <3>1. RefHeld = {h}
      BY <1>0, <2>1, <2>5, RefCard
    <3>2. QED
      BY <1>3, <2>3, <2>4, <2>5, <3>1
      DEF R!Unref, R!WasLast, R!Goes, LastIsAlone, LastRefs, RefLifetime, RefHeld, R!In, RefTypes
  <2>6. CASE refCnt # 1
    <3>1. RefHeld' # {}
      BY <1>0, <1>3, <2>1, <2>2, <2>6, FS_EmptySet DEF R!Unref
    <3>2. PICK g \in RefHandle \ {h} : refState[g] = "held"
      BY <2>1, <3>1 DEF RefHeld, R!In
    <3>3. LastRefs' = {}
      BY <1>3, <2>4, <2>6 DEF R!Unref, R!WasLast, R!Goes, LastRefs, R!In, RefTypes
    <3>4. RefLifetime'
      BY <1>3, <2>1, <3>2 DEF R!Unref, R!WasLast, R!Goes, RefLifetime, RefHeld, R!In, RefTypes
    <3>5. QED
      BY <2>3, <3>3, <3>4 DEF LastIsAlone
  <2>7. QED
    BY <2>5, <2>6
<1>4. ASSUME NEW h \in RefHandle, R!Destroy(h) \/ R!Free(h)
      PROVE  RefInv'
  <2>1. \A g \in RefHandle \ {h} : refState[g] = "unused" /\ refState'[g] = "unused"
    BY <1>4 DEF R!Destroy, R!Free, R!Goes, LastIsAlone, LastRefs, R!In, RefTypes
  <2>2. RefHeld' = RefHeld
    BY <1>4, <2>1 DEF R!Destroy, R!Free, R!Goes, RefHeld, R!In, RefTypes
  <2>3. RefTypes'
    BY <1>4, <2>2 DEF R!Destroy, R!Free, R!Goes, RefTypes
  <2>4. LastIsAlone'
    BY <1>4, <2>1 DEF R!Destroy, R!Free, R!Goes, LastIsAlone, LastRefs, R!In, RefTypes
  <2>5. RefLifetime'
    BY <1>4, <2>1 DEF R!Destroy, R!Free, R!Goes, RefLifetime, R!In, RefTypes
  <2>6. QED
    BY <2>3, <2>4, <2>5
<1>5. QED
  BY <1>1, <1>2, <1>3, <1>4 DEF R!Next

\* Every step is a step of the shared object, or none.
LEMMA RefRefinement ==
  ASSUME RefInv, [R!Next]_refVars
  PROVE  [R!Object!Next]_(R!Object!vars)
<1> USE DEF RefInv
<1>1. CASE UNCHANGED refVars
  BY <1>1 DEF refVars, R!Object!vars, R!In
<1>2. ASSUME NEW h \in RefHandle, NEW g \in RefHandle, R!Ref(h, g)
      PROVE  R!Object!Share(g)
  BY <1>2 DEF R!Ref, R!Goes, R!Object!Share, R!Object!New, R!In, RefTypes
<1>3. ASSUME NEW h \in RefHandle, R!Unref(h)
      PROVE  R!Object!Drop(h)
  BY <1>3 DEF R!Unref, R!WasLast, R!Goes, R!Object!Drop, R!In, RefTypes
<1>4. ASSUME NEW h \in RefHandle, R!Destroy(h)
      PROVE  R!Object!Destroy
  BY <1>4 DEF R!Destroy, R!Goes, R!Object!Destroy, LastIsAlone, LastRefs, RefLifetime, R!In, RefTypes
<1>5. ASSUME NEW h \in RefHandle, R!Free(h)
      PROVE  R!Object!Free
  BY <1>5 DEF R!Free, R!Goes, R!Object!Free, LastIsAlone, LastRefs, RefLifetime, R!In, RefTypes
<1>6. QED
  BY <1>1, <1>2, <1>3, <1>4, <1>5 DEF R!Next, R!Object!Next

\* The counter counts the references, and the object is destroyed and then its
\* head freed once nobody holds one: cra_ref_unref implements the shared object
\* (safety; that the last release goes through with it is left to TLC).
THEOREM RefsImplementObject == R!Spec => []R!TypeOK /\ R!Object!Safety
<1>1. R!Init => RefInv /\ R!Object!Init
  BY RefInit DEF R!Init, R!Object!Init, R!In
<1>2. RefInv /\ [R!Next]_(R!vars) => RefInv'
  BY RefInductive DEF refVars, R!vars
<1>3. RefInv /\ [R!Next]_(R!vars) => [R!Object!Next]_(R!Object!vars)
  BY RefRefinement DEF refVars, R!vars
<1>4. RefInv => R!TypeOK
  BY RefTyped
<1>5. QED
  BY <1>1, <1>2, <1>3, <1>4, PTL DEF R!Spec, R!Object!Safety

(***************************************************************************)
(* The latch.                                                              *)
(***************************************************************************)
LatchTypes ==
  /\ latch \in [LatchThread -> {"out", "waiting", "through", "counted"}]
  /\ condi \subseteq {t \in LatchThread : latch[t] = "waiting"}
  /\ count = LatchCount - Cardinality(L!Counted)

\* Whoever has passed the latch has passed it at zero or below.
PassedAtZero == (\E t \in LatchThread : latch[t] = "through") => count <= 0

\* Only a latch above zero blocks.
BlockedAboveZero == count <= 0 => condi = {}

\* The inductive invariant: NobodyPassesEarly and NobodyLeftBehind, said of the
\* counter instead of the calls that have been made.
LatchInv == LatchTypes /\ PassedAtZero /\ BlockedAboveZero

\* Finitely many threads, and a count.
LEMMA LatchThreads == IsFiniteSet(LatchThread) /\ LatchCount \in Int
BY PrimitivesAssumption DEF L!CDLAssumption, L!IsFiniteSet, IsFiniteSet

\* The calls of cra_cdl_count_down are finitely many.
LEMMA LatchCounted ==
  /\ IsFiniteSet(L!Counted)
  /\ Cardinality(L!Counted) \in Nat
  /\ LatchTypes => count \in Int
<1>1. IsFiniteSet(L!Counted)
  BY LatchThreads, FS_Subset DEF L!Counted
<1>2. Cardinality(L!Counted) \in Nat
  BY <1>1, FS_CardinalityType
<1>3. QED
  BY <1>1, <1>2, LatchThreads DEF LatchTypes

\* Nobody has called.
LEMMA LatchInit ==
  ASSUME L!Init
  PROVE  LatchInv
<1>1. L!Counted = {}
  BY DEF L!Init, L!Counted
<1>2. Cardinality(L!Counted) = 0
  BY <1>1, FS_EmptySet
<1>3. QED
  BY <1>2, LatchThreads DEF L!Init, LatchInv, LatchTypes, PassedAtZero, BlockedAboveZero

\* Every step of the latch keeps its invariant.
LEMMA LatchInductive ==
  ASSUME LatchInv, [L!Next]_latchVars
  PROVE  LatchInv'
<1> USE DEF LatchInv
<1>0. count \in Int
  BY LatchCounted
<1>1. CASE UNCHANGED latchVars
  BY <1>1 DEF latchVars, LatchTypes, PassedAtZero, BlockedAboveZero, L!Counted
<1>2. ASSUME NEW t \in LatchThread, L!CountDown(t)
      PROVE  LatchInv'
  <2>1. count' = count - 1
    BY <1>2 DEF L!CountDown, L!Decremented
  <2>2. L!Counted' = L!Counted \cup {t} /\ t \notin L!Counted
    BY <1>2 DEF L!CountDown, L!Counted, LatchTypes
  <2>3. Cardinality(L!Counted') = Cardinality(L!Counted) + 1
    BY <2>2, LatchCounted, FS_AddElement
  <2>4. condi' \subseteq condi
    BY <1>2 DEF L!CountDown, L!Blocked
  <2>5. LatchTypes'
    <3>1. count' = LatchCount - Cardinality(L!Counted')
      BY <2>1, <2>3, LatchCounted, LatchThreads DEF LatchTypes
    <3>2. t \notin condi
      BY <1>2 DEF L!CountDown, LatchTypes
    <3>3. QED
      BY <1>2, <2>4, <3>1, <3>2 DEF L!CountDown, LatchTypes
  <2>6. PassedAtZero'
    BY <1>0, <1>2, <2>1 DEF L!CountDown, PassedAtZero, LatchTypes
  <2>7. BlockedAboveZero'
    BY <1>0, <1>2, <2>1 DEF L!CountDown, L!Blocked, BlockedAboveZero
  <2>8. QED
    BY <2>5, <2>6, <2>7
<1>3. ASSUME NEW t \in LatchThread, L!Wait(t)
      PROVE  LatchInv'
  <2>1. count' = count /\ L!Counted' = L!Counted
    BY <1>3 DEF L!Wait, L!Counted, LatchTypes
  <2>2. CASE /\ count > 0
             /\ condi' = condi \cup {t}
             /\ latch' = [latch EXCEPT ![t] = "waiting"]
    BY <1>0, <2>1, <2>2 DEF LatchTypes, PassedAtZero, BlockedAboveZero
  <2>3. CASE /\ count <= 0
             /\ latch' = [latch EXCEPT ![t] = "through"]
             /\ condi' = condi
    BY <1>0, <2>1, <2>3 DEF LatchTypes, PassedAtZero, BlockedAboveZero
  <2>4. QED
    BY <1>3, <2>2, <2>3 DEF L!Wait
<1>4. ASSUME NEW t \in LatchThread, L!SpuriousWakeup(t)
      PROVE  LatchInv'
  <2>1. L!Counted' = L!Counted
    BY <1>4 DEF L!SpuriousWakeup, L!Counted
  <2>2. QED
    BY <1>4, <2>1 DEF L!SpuriousWakeup, LatchTypes, PassedAtZero, BlockedAboveZero
<1>5. QED
  BY <1>1, <1>2, <1>3, <1>4 DEF L!Next

\* What the invariant says of the calls.
LEMMA LatchInvIsEnough ==
  ASSUME LatchInv
  PROVE  L!TypeOK /\ L!LatchHolds
<1>1. count <= 0 <=> Cardinality(L!Counted) >= LatchCount
  BY LatchCounted, LatchThreads DEF LatchInv, LatchTypes
<1>2. Cardinality(L!Counted) = L!Cardinality(L!Counted)
  BY DEF Cardinality, L!Cardinality
<1>3. L!LatchHolds
  BY <1>1, <1>2 DEF LatchInv, PassedAtZero, BlockedAboveZero, L!LatchHolds, L!NobodyPassesEarly,
                    L!NobodyLeftBehind
<1>4. L!TypeOK
  BY <1>2 DEF LatchInv, LatchTypes, L!TypeOK
<1>5. QED
  BY <1>3, <1>4

(***************************************************************************)
(* Both kinds of references, and the latch.                                *)
(***************************************************************************)
\* The invariants of the references, and of the latch, hold of those that are not
\* used as well.
LEMMA RefsKeep ==
  ASSUME [MCNext]_MCVars, Inv, RefInv
  PROVE  Inv' /\ RefInv'
<1>1. Inv'
  <2>1. [Next]_vars
    BY Steps
  <2>2. QED
    BY <2>1, Inductive
<1>2. RefInv'
  BY Steps, RefInductive
<1>3. QED
  BY <1>1, <1>2

\* The same of the latch.
LEMMA LatchKeeps ==
  ASSUME [MCNext]_MCVars, LatchInv
  PROVE  LatchInv'
BY Steps, LatchInductive

\* They hold of what is made.
LEMMA RefsStart ==
  ASSUME MCInit
  PROVE  Inv /\ RefInv /\ LatchInv
<1>1. Inv
  BY InitInv DEF MCInit
<1>2. RefInv
  BY RefInit DEF MCInit
<1>3. LatchInv
  BY LatchInit DEF MCInit
<1>4. QED
  BY <1>1, <1>2, <1>3

(***************************************************************************)
(* The byte buffer.                                                        *)
(***************************************************************************)
\* What the memory holds.
Cells == Byte \cup {HeadByte, Stale}

\* Memory of a size has, between indices r and w, the bytes c.
Holds(mem, sz, r, w, c) ==
  /\ sz \in Nat /\ r \in Nat /\ w \in Nat /\ r <= w /\ w <= sz
  /\ mem \in Seq(Cells) /\ Len(mem) = sz + HeadSize
  /\ c \in Seq(Byte) /\ Len(c) = w - r
  /\ \A n \in 1 .. Len(c) : mem[HeadSize + r + n] = c[n]

\* A header is in memory right before the byte at index r.
HasHead(mem, r) == \A n \in 1 .. HeadSize : mem[r + n] = HeadByte

\* The inductive invariant: BufferIsQueue, said byte by byte.
BufInv ==
  /\ Holds(data, size, ridx, widx, content)
  /\ got = TRUE
  /\ headed \in BOOLEAN /\ (headed => HasHead(data, ridx))

\* What writing the bytes s changes.
LEMMA WrittenIs ==
  ASSUME NEW mem \in Seq(Cells), NEW n \in Nat, NEW s \in Seq(Cells), n + Len(s) <= Len(mem)
  PROVE  /\ B!Written(mem, n, s) \in Seq(Cells) /\ Len(B!Written(mem, n, s)) = Len(mem)
         /\ \A k \in 1 .. Len(s) : B!Written(mem, n, s)[n + k] = s[k]
         /\ \A k \in 1 .. Len(mem) :
              k \notin n + 1 .. n + Len(s) => B!Written(mem, n, s)[k] = mem[k]
<1> DEFINE r == B!Written(mem, n, s)
<1>1. /\ DOMAIN mem = 1 .. Len(mem) /\ Len(mem) \in Nat /\ Len(s) \in Nat
      /\ \A k \in 1 .. Len(mem) : mem[k] \in Cells
      /\ \A k \in 1 .. Len(s) : s[k] \in Cells
  OBVIOUS
<1>2. r = [k \in 1 .. Len(mem) |-> IF k \in n + 1 .. n + Len(s) THEN s[k - n] ELSE mem[k]]
  BY <1>1 DEF B!Written
<1>3. \A k \in 1 .. Len(mem) : k \in n + 1 .. n + Len(s) => k - n \in 1 .. Len(s)
  BY <1>1
<1>4. r \in [1 .. Len(mem) -> Cells]
  BY <1>1, <1>2, <1>3
<1>5. r \in Seq(Cells) /\ Len(r) = Len(mem)
  BY <1>1, <1>4
<1>6. \A k \in 1 .. Len(s) : n + k \in 1 .. Len(mem) /\ n + k \in n + 1 .. n + Len(s) /\ (n + k) - n = k
  BY <1>1
<1>7. \A k \in 1 .. Len(s) : r[n + k] = s[k]
  BY <1>2, <1>6
<1>8. \A k \in 1 .. Len(mem) : k \notin n + 1 .. n + Len(s) => r[k] = mem[k]
  BY <1>2
<1>9. QED
  BY <1>5, <1>7, <1>8

\* The first bytes between the indices.
LEMMA BytesAre ==
  ASSUME B!BufferAssumption, Holds(data, size, ridx, widx, content), NEW n \in Nat, n <= Len(content)
  PROVE  B!Bytes(ridx, n) = SubSeq(content, 1, n)
<1>1. HeadSize \in Nat
  BY DEF B!BufferAssumption
<1> DEFINE a == HeadSize + ridx
<1>2. a \in Nat /\ a + n <= Len(data) /\ Len(content) \in Nat /\ Len(data) \in Nat
  BY <1>1 DEF Holds
<1>3. \A k \in 1 .. n : data[a + k] = content[k]
  BY DEF Holds
<1> HIDE DEF a
<1>4. data \in Seq(Cells) /\ content \in Seq(Byte)
  BY DEF Holds
<1>5. /\ SubSeq(data, a + 1, a + n) = [k \in 1 .. n |-> data[a + k]]
      /\ SubSeq(content, 1, n) = [k \in 1 .. n |-> content[k]]
  BY <1>2, <1>4
<1>6. B!Bytes(ridx, n) = SubSeq(data, a + 1, a + n)
  BY DEF B!Bytes, a
<1>7. QED
  BY <1>3, <1>5, <1>6

\* The bytes of one call.
LEMMA ChunkType ==
  ASSUME B!BufferAssumption, NEW s \in B!Chunks
  PROVE  s \in Seq(Byte) /\ Len(s) \in 1 .. MaxChunk
<1>1. PICK n \in 1 .. MaxChunk : s \in [1 .. n -> Byte]
  BY DEF B!Chunks
<1>2. n \in Nat
  BY <1>1 DEF B!BufferAssumption
<1>3. s \in Seq(Byte) /\ Len(s) = n
  BY <1>1, <1>2
<1>4. QED
  BY <1>1, <1>3

\* Two sequences in a row.
LEMMA CatAt ==
  ASSUME NEW S, NEW s \in Seq(S), NEW t \in Seq(S), NEW u, u = s \o t
  PROVE  /\ u \in Seq(S) /\ Len(u) = Len(s) + Len(t)
         /\ \A k \in 1 .. Len(s) : u[k] = s[k]
         /\ \A k \in 1 .. Len(t) : u[Len(s) + k] = t[k]
OBVIOUS

\* Bytes that are put behind the write index belong to the content, and leave the
\* header alone.
LEMMA PutBehind ==
  ASSUME B!BufferAssumption, NEW mem, NEW sz, NEW r, NEW w, NEW c, Holds(mem, sz, r, w, c),
         NEW s \in Seq(Byte), w + Len(s) <= sz
  PROVE  /\ Holds(B!Written(mem, HeadSize + w, s), sz, r, w + Len(s), c \o s)
         /\ HasHead(mem, r) => HasHead(B!Written(mem, HeadSize + w, s), r)
<1> DEFINE m == B!Written(mem, HeadSize + w, s)
           d == c \o s
           v == w + Len(s)
<1>1. HeadSize \in Nat
  BY DEF B!BufferAssumption
<1>2. /\ r \in Nat /\ w \in Nat /\ sz \in Nat /\ r <= w /\ w <= sz
      /\ mem \in Seq(Cells) /\ Len(mem) = sz + HeadSize
      /\ c \in Seq(Byte) /\ Len(c) = w - r
  BY DEF Holds
<1>3. s \in Seq(Cells) /\ Len(s) \in Nat
  BY DEF Cells
<1>4. HeadSize + w \in Nat /\ HeadSize + w + Len(s) <= Len(mem)
  BY <1>1, <1>2, <1>3
<1>5. /\ m \in Seq(Cells) /\ Len(m) = Len(mem)
      /\ \A k \in 1 .. Len(s) : m[HeadSize + w + k] = s[k]
      /\ \A k \in 1 .. Len(mem) : k \notin HeadSize + w + 1 .. HeadSize + w + Len(s) => m[k] = mem[k]
  BY <1>2, <1>3, <1>4, WrittenIs
<1>0. d = c \o s
  OBVIOUS
<1> HIDE DEF m, d
<1>6. /\ d \in Seq(Byte) /\ Len(d) = Len(c) + Len(s)
      /\ \A n \in 1 .. Len(c) : d[n] = c[n]
      /\ \A n \in 1 .. Len(s) : d[Len(c) + n] = s[n]
  <2>1. c \in Seq(Byte)
    BY <1>2
  <2>2. QED
    BY <1>0, <2>1, CatAt
<1>7. v \in Nat /\ r <= v /\ v <= sz /\ Len(d) = v - r
  BY <1>2, <1>3, <1>6
<1>8. \A n \in 1 .. Len(d) : m[HeadSize + r + n] = d[n]
  <2> TAKE n \in 1 .. Len(d)
  <2>1. CASE n <= Len(c)
    <3>1. n \in 1 .. Len(c) /\ HeadSize + r + n \in 1 .. Len(mem) /\ HeadSize + r + n <= HeadSize + w
      BY <1>1, <1>2, <1>6, <2>1, SMTT(30)
    <3>2. m[HeadSize + r + n] = mem[HeadSize + r + n]
      BY <1>1, <1>2, <1>3, <1>5, <3>1
    <3>3. QED
      BY <1>6, <3>1, <3>2 DEF Holds
  <2>2. CASE n > Len(c)
    <3> DEFINE k == n - Len(c)
    <3>1. k \in 1 .. Len(s) /\ HeadSize + r + n = HeadSize + w + k /\ n = Len(c) + k
      BY <1>1, <1>2, <1>3, <1>6, <2>2
    <3> HIDE DEF k
    <3>2. QED
      BY <1>5, <1>6, <3>1
  <2>3. QED
    BY <1>2, <1>6, <2>1, <2>2
<1>9. HasHead(mem, r) => HasHead(m, r)
  <2> SUFFICES ASSUME HasHead(mem, r), NEW n \in 1 .. HeadSize PROVE m[r + n] = HeadByte
    BY DEF HasHead
  <2>1. r + n \in 1 .. Len(mem) /\ r + n \notin HeadSize + w + 1 .. HeadSize + w + Len(s)
    BY <1>1, <1>2, <1>3
  <2>2. QED
    BY <1>5, <2>1 DEF HasHead
<1> HIDE DEF v
<1>10. Holds(m, sz, r, v, d)
  BY <1>2, <1>5, <1>6, <1>7, <1>8 DEF Holds
<1>11. QED
  BY <1>9, <1>10 DEF m, d, v

\* cra_buffer_append when the bytes move to the front first.
LEMMA Moved ==
  ASSUME B!BufferAssumption, Holds(data, size, ridx, widx, content)
  PROVE  Holds(B!MovedToFront, size, 0, B!Readable, content)
<1>1. HeadSize \in Nat
  BY DEF B!BufferAssumption
<1>2. /\ ridx \in Nat /\ widx \in Nat /\ size \in Nat /\ ridx <= widx /\ widx <= size
      /\ data \in Seq(Cells) /\ Len(data) = size + HeadSize
      /\ content \in Seq(Byte) /\ Len(content) = widx - ridx
  BY DEF Holds
<1>3. B!Readable = Len(content) /\ Len(content) \in Nat
  BY <1>2 DEF B!Readable
<1>4. B!Bytes(ridx, B!Readable) = content
  <2>1. B!Bytes(ridx, Len(content)) = SubSeq(content, 1, Len(content))
    BY <1>3, BytesAre
  <2>2. SubSeq(content, 1, Len(content)) = content
    BY <1>2
  <2>3. QED
    BY <1>3, <2>1, <2>2, Zenon
<1> DEFINE m == B!Written(data, HeadSize, content)
<1>5. B!MovedToFront = m
  BY <1>4, Zenon DEF B!MovedToFront
<1>6. content \in Seq(Cells) /\ HeadSize + Len(content) <= Len(data)
  BY <1>1, <1>2 DEF Cells
<1>7. /\ m \in Seq(Cells) /\ Len(m) = Len(data)
      /\ \A n \in 1 .. Len(content) : m[HeadSize + n] = content[n]
  BY <1>1, <1>2, <1>6, WrittenIs, Zenon
<1> HIDE DEF m
<1>8. \A n \in 1 .. Len(content) : m[HeadSize + 0 + n] = content[n]
  BY <1>1, <1>3, <1>7
<1>9. Len(content) = B!Readable - 0 /\ 0 \in Nat /\ B!Readable \in Nat /\ 0 <= B!Readable /\ B!Readable <= size
  BY <1>2, <1>3
<1>10. QED
  BY <1>2, <1>5, <1>7, <1>8, <1>9 DEF Holds

\* A buffer that grows keeps what it holds.
LEMMA GrownHolds ==
  ASSUME B!BufferAssumption, Holds(data, size, ridx, widx, content), NEW new \in Nat, size <= new
  PROVE  /\ Holds(B!Grown(new), new, ridx, widx, content)
         /\ HasHead(data, ridx) => HasHead(B!Grown(new), ridx)
<1> DEFINE m == B!Grown(new)
<1>1. HeadSize \in Nat
  BY DEF B!BufferAssumption
<1>2. /\ ridx \in Nat /\ widx \in Nat /\ size \in Nat /\ ridx <= widx /\ widx <= size
      /\ data \in Seq(Cells) /\ Len(data) = size + HeadSize
      /\ content \in Seq(Byte) /\ Len(content) = widx - ridx
  BY DEF Holds
<1>3. m = [k \in 1 .. new + HeadSize |-> IF k \in DOMAIN data THEN data[k] ELSE Stale]
  BY DEF B!Grown
<1>4. /\ DOMAIN data = 1 .. Len(data) /\ \A k \in 1 .. Len(data) : data[k] \in Cells
  BY <1>2
<1>5. m \in [1 .. new + HeadSize -> Cells]
  BY <1>3, <1>4 DEF Cells
<1>6. m \in Seq(Cells) /\ Len(m) = new + HeadSize
  BY <1>1, <1>5
<1>7. \A k \in 1 .. Len(data) : m[k] = data[k]
  BY <1>1, <1>2, <1>3, <1>4
<1> HIDE DEF m
<1>8. \A n \in 1 .. Len(content) : m[HeadSize + ridx + n] = content[n]
  <2> TAKE n \in 1 .. Len(content)
  <2>1. HeadSize + ridx + n \in 1 .. Len(data)
    BY <1>1, <1>2
  <2>2. QED
    BY <1>7, <2>1 DEF Holds
<1>9. HasHead(data, ridx) => HasHead(m, ridx)
  <2> SUFFICES ASSUME HasHead(data, ridx), NEW n \in 1 .. HeadSize PROVE m[ridx + n] = HeadByte
    BY DEF HasHead
  <2>1. ridx + n \in 1 .. Len(data)
    BY <1>1, <1>2
  <2>2. QED
    BY <1>7, <2>1 DEF HasHead
<1>10. widx <= new
  BY <1>2
<1>11. QED
  BY <1>2, <1>6, <1>8, <1>9, <1>10 DEF Holds, m

\* The buffer that cra_buffer_init makes.
LEMMA BufInit ==
  ASSUME B!BufferAssumption, B!Init
  PROVE  BufInv
<1>1. InitSize \in Nat /\ HeadSize \in Nat
  BY DEF B!BufferAssumption
<1>2. /\ data \in Seq(Cells) /\ Len(data) = InitSize + HeadSize
  <2>1. data \in [1 .. InitSize + HeadSize -> Cells]
    BY DEF B!Init, Cells
  <2>2. QED
    BY <1>1, <2>1
<1>3. content \in Seq(Byte) /\ Len(content) = 0
  BY DEF B!Init
<1>4. size = InitSize /\ ridx = 0 /\ widx = 0 /\ headed = FALSE /\ got = TRUE
  BY DEF B!Init
<1>5. Holds(data, size, ridx, widx, content)
  BY <1>1, <1>2, <1>3, <1>4 DEF Holds
<1>6. QED
  BY <1>4, <1>5, Zenon DEF BufInv

\* The header goes over bytes that have been read.
LEMMA WriteHeadKeeps ==
  ASSUME B!BufferAssumption, BufInv, B!WriteHead
  PROVE  BufInv'
<1> DEFINE head == [n \in 1 .. HeadSize |-> HeadByte]
<1>1. HeadSize \in Nat
  BY DEF B!BufferAssumption
<1>2. head \in Seq(Cells) /\ Len(head) = HeadSize
  <2>1. head \in [1 .. HeadSize -> Cells]
    BY DEF Cells
  <2>2. QED
    BY <1>1, <2>1
<1>3. \A n \in 1 .. HeadSize : head[n] = HeadByte
  OBVIOUS
<1>4. data' = B!Written(data, ridx, head) /\ headed' = TRUE /\ UNCHANGED <<size, ridx, widx, content, got>>
  BY DEF B!WriteHead
<1> HIDE DEF head
<1>5. /\ ridx \in Nat /\ widx \in Nat /\ size \in Nat /\ ridx <= widx /\ widx <= size
      /\ data \in Seq(Cells) /\ Len(data) = size + HeadSize
      /\ content \in Seq(Byte) /\ Len(content) = widx - ridx
  BY DEF BufInv, Holds
<1>6. /\ data' \in Seq(Cells) /\ Len(data') = Len(data)
      /\ \A k \in 1 .. HeadSize : data'[ridx + k] = HeadByte
      /\ \A k \in 1 .. Len(data) : k \notin ridx + 1 .. ridx + HeadSize => data'[k] = data[k]
  <2>1. ridx + Len(head) <= Len(data)
    BY <1>1, <1>2, <1>5
  <2>2. /\ data' \in Seq(Cells) /\ Len(data') = Len(data)
        /\ \A k \in 1 .. Len(head) : data'[ridx + k] = head[k]
        /\ \A k \in 1 .. Len(data) : k \notin ridx + 1 .. ridx + Len(head) => data'[k] = data[k]
    <3>1. PICK d : d = B!Written(data, ridx, head)
      OBVIOUS
    <3>2. data \in Seq(Cells) /\ ridx \in Nat /\ head \in Seq(Cells) /\ ridx + Len(head) <= Len(data)
      BY <1>2, <1>5, <2>1
    <3>3. /\ d \in Seq(Cells) /\ Len(d) = Len(data)
          /\ \A k \in 1 .. Len(head) : d[ridx + k] = head[k]
          /\ \A k \in 1 .. Len(data) : k \notin ridx + 1 .. ridx + Len(head) => d[k] = data[k]
      BY ONLY <3>1, <3>2, WrittenIs
    <3>4. data' = d
      BY <1>4, <3>1
    <3>5. QED
      BY ONLY <3>3, <3>4
  <2>3. QED
    BY <1>2, <1>3, <2>2
<1>7. \A n \in 1 .. Len(content) : data'[HeadSize + ridx + n] = content[n]
  <2> TAKE n \in 1 .. Len(content)
  <2>1. HeadSize + ridx + n \in 1 .. Len(data) /\ HeadSize + ridx + n \notin ridx + 1 .. ridx + HeadSize
    BY <1>1, <1>5
  <2>2. QED
    BY <1>6, <2>1 DEF BufInv, Holds
<1>8. Holds(data', size, ridx, widx, content)
  BY <1>5, <1>6, <1>7 DEF Holds
<1>9. HasHead(data', ridx)
  BY <1>6 DEF HasHead
<1>10. QED
  BY <1>4, <1>8, <1>9, Zenon DEF BufInv

\* cra_buffer_append in its three cases.
LEMMA Append1Keeps ==
  ASSUME B!BufferAssumption, BufInv, B!Append1
  PROVE  BufInv'
<1>1. PICK s \in B!Chunks : /\ B!AppendFits(s) \/ B!AppendMoves(s) \/ B!AppendGrows(s)
                            /\ content' = content \o s
  BY DEF B!Append1
<1>2. got' = got /\ got = TRUE /\ headed \in BOOLEAN /\ (headed => HasHead(data, ridx))
  BY DEF BufInv, B!Append1
<1>3. Holds(data, size, ridx, widx, content)
  BY DEF BufInv
<1>4. /\ ridx \in Nat /\ widx \in Nat /\ size \in Nat /\ ridx <= widx /\ widx <= size
      /\ s \in Seq(Byte) /\ Len(s) \in Nat
  BY <1>3, ChunkType DEF Holds
<1>5. CASE B!AppendFits(s)
  <2>1. widx + Len(s) <= size
    BY <1>4, <1>5 DEF B!AppendFits, B!Room
  <2>2. /\ Holds(B!Written(data, HeadSize + widx, s), size, ridx, widx + Len(s), content \o s)
        /\ HasHead(data, ridx) => HasHead(B!Written(data, HeadSize + widx, s), ridx)
    BY <1>3, <1>4, <2>1, PutBehind
  <2>3. /\ data' = B!Written(data, HeadSize + widx, s) /\ widx' = widx + Len(s)
        /\ size' = size /\ ridx' = ridx /\ headed' = headed
    BY <1>5 DEF B!AppendFits
  <2>4. QED
    BY <1>1, <1>2, <2>2, <2>3, Zenon DEF BufInv
<1>6. CASE B!AppendMoves(s)
  <2>1. B!Readable + Len(s) <= size
    BY <1>4, <1>6 DEF B!AppendMoves, B!Room, B!Readable
  <2>2. Holds(B!MovedToFront, size, 0, B!Readable, content)
    BY <1>3, Moved
  <2>3. Holds(B!Written(B!MovedToFront, HeadSize + B!Readable, s), size, 0, B!Readable + Len(s), content \o s)
    BY <1>4, <2>1, <2>2, PutBehind
  <2>4. /\ data' = B!Written(B!MovedToFront, HeadSize + B!Readable, s)
        /\ widx' = B!Readable + Len(s) /\ ridx' = 0 /\ headed' = FALSE /\ size' = size
    BY <1>6 DEF B!AppendMoves
  <2>5. QED
    BY <1>1, <1>2, <2>3, <2>4, Zenon DEF BufInv
<1>7. CASE B!AppendGrows(s)
  <2>1. size' \in Nat /\ size <= size' /\ widx + Len(s) <= size'
    BY <1>4, <1>7 DEF B!AppendGrows, B!Room
  <2>2. /\ Holds(B!Grown(size'), size', ridx, widx, content)
        /\ HasHead(data, ridx) => HasHead(B!Grown(size'), ridx)
    BY <1>3, <2>1, GrownHolds
  <2>3. /\ Holds(B!Written(B!Grown(size'), HeadSize + widx, s), size', ridx, widx + Len(s), content \o s)
        /\ HasHead(B!Grown(size'), ridx) => HasHead(B!Written(B!Grown(size'), HeadSize + widx, s), ridx)
    BY <1>4, <2>1, <2>2, PutBehind
  <2>4. /\ data' = B!Written(B!Grown(size'), HeadSize + widx, s)
        /\ widx' = widx + Len(s) /\ ridx' = ridx /\ headed' = headed
    BY <1>7 DEF B!AppendGrows
  <2>5. QED
    BY <1>1, <1>2, <2>2, <2>3, <2>4, Zenon DEF BufInv
<1>8. QED
  BY <1>1, <1>5, <1>6, <1>7

\* cra_buffer_append_size believes no more than there is room for.
LEMMA AppendSizeKeeps ==
  ASSUME B!BufferAssumption, BufInv, B!AppendSize
  PROVE  BufInv'
<1>1. PICK u \in B!Chunks :
        LET n == IF Len(u) < B!Room THEN Len(u) ELSE B!Room IN
        /\ data' = B!Written(data, HeadSize + widx, SubSeq(u, 1, n))
        /\ widx' = widx + n
        /\ content' = content \o SubSeq(u, 1, n)
  BY DEF B!AppendSize
<1> DEFINE n == IF Len(u) < B!Room THEN Len(u) ELSE B!Room
           s == SubSeq(u, 1, n)
<1>2. /\ data' = B!Written(data, HeadSize + widx, s) /\ widx' = widx + n
      /\ content' = content \o s
  BY <1>1
<1>3. Holds(data, size, ridx, widx, content)
  BY DEF BufInv
<1>4. widx \in Nat /\ size \in Nat /\ widx <= size /\ u \in Seq(Byte)
  BY <1>3, ChunkType DEF Holds
<1>5. n \in 0 .. Len(u) /\ widx + n <= size
  BY <1>4 DEF B!Room
<1>6. s \in Seq(Byte) /\ Len(s) = n
  BY <1>4, <1>5
<1> HIDE DEF n, s
<1>7. /\ Holds(B!Written(data, HeadSize + widx, s), size, ridx, widx + Len(s), content \o s)
      /\ HasHead(data, ridx) => HasHead(B!Written(data, HeadSize + widx, s), ridx)
  BY <1>3, <1>5, <1>6, PutBehind
<1>8. size' = size /\ ridx' = ridx /\ headed' = headed /\ got' = got
  BY DEF B!AppendSize
<1>9. QED
  BY <1>2, <1>6, <1>7, <1>8, Zenon DEF BufInv

\* What is retrieved is the front of the content.
LEMMA RetrieveKeeps ==
  ASSUME B!BufferAssumption, BufInv, B!Retrieve
  PROVE  BufInv'
<1>1. PICK len \in 0 .. MaxChunk :
        LET n == IF len < B!Readable THEN len ELSE B!Readable IN
        /\ got' = (B!Bytes(ridx, n) = SubSeq(content, 1, n))
        /\ content' = SubSeq(content, n + 1, Len(content))
        /\ ridx' = IF len < B!Readable THEN ridx + n ELSE 0
        /\ widx' = IF len < B!Readable THEN widx ELSE 0
  BY DEF B!Retrieve
<1> DEFINE n == IF len < B!Readable THEN len ELSE B!Readable
<1>2. /\ got' = (B!Bytes(ridx, n) = SubSeq(content, 1, n))
      /\ content' = SubSeq(content, n + 1, Len(content))
      /\ ridx' = IF len < B!Readable THEN ridx + n ELSE 0
      /\ widx' = IF len < B!Readable THEN widx ELSE 0
  BY <1>1, Zenon
<1>3. Holds(data, size, ridx, widx, content)
  BY DEF BufInv
<1>4. /\ ridx \in Nat /\ widx \in Nat /\ size \in Nat /\ ridx <= widx /\ widx <= size
      /\ data \in Seq(Cells) /\ Len(data) = size + HeadSize
      /\ content \in Seq(Byte) /\ Len(content) = widx - ridx
      /\ len \in Nat /\ HeadSize \in Nat
  BY <1>3 DEF Holds, B!BufferAssumption
<1>5. n \in Nat /\ n <= Len(content) /\ (len < B!Readable => n = len) /\ (~(len < B!Readable) => n = Len(content))
  BY <1>4 DEF B!Readable
<1> HIDE DEF n
<1>6. got' = TRUE
  BY <1>2, <1>3, <1>5, BytesAre, Zenon
<1>7. /\ content' \in Seq(Byte) /\ Len(content') = Len(content) - n
      /\ \A k \in 1 .. Len(content) - n : content'[k] = content[n + k]
  BY <1>2, <1>4, <1>5
<1>8. data' = data /\ size' = size /\ headed' = FALSE
  BY DEF B!Retrieve
<1>9. CASE len < B!Readable
  <2>1. ridx' = ridx + n /\ widx' = widx
    BY <1>2, <1>9
  <2>2. ridx' \in Nat /\ ridx' <= widx /\ Len(content') = widx - ridx'
    BY <1>4, <1>5, <1>7, <2>1
  <2>3. \A k \in 1 .. Len(content') : data[HeadSize + ridx' + k] = content'[k]
    <3> TAKE k \in 1 .. Len(content')
    <3>1. n + k \in 1 .. Len(content) /\ HeadSize + ridx' + k = HeadSize + ridx + (n + k) /\ content'[k] = content[n + k]
      BY <1>4, <1>5, <1>7, <2>1
    <3>2. QED
      BY <1>3, <3>1 DEF Holds
  <2>4. Holds(data, size, ridx', widx, content')
    BY <1>4, <1>7, <2>2, <2>3 DEF Holds
  <2>5. QED
    BY <1>6, <1>8, <2>1, <2>4, Zenon DEF BufInv
<1>10. CASE ~(len < B!Readable)
  <2>1. ridx' = 0 /\ widx' = 0 /\ Len(content') = 0
    BY <1>2, <1>4, <1>5, <1>7, <1>10
  <2>2. Holds(data, size, 0, 0, content')
    BY <1>4, <1>7, <2>1 DEF Holds
  <2>3. QED
    BY <1>6, <1>8, <2>1, <2>2, Zenon DEF BufInv
<1>11. QED
  BY <1>9, <1>10

\* cra_buffer_reset empties the buffer and its content.
LEMMA ResetKeeps ==
  ASSUME B!BufferAssumption, BufInv, B!Reset
  PROVE  BufInv'
<1>1. /\ size \in Nat /\ data \in Seq(Cells) /\ Len(data) = size + HeadSize
  BY DEF BufInv, Holds
<1>2. Holds(data, size, 0, 0, << >>)
  <2>1. << >> \in Seq(Byte) /\ Len(<< >>) = 0
    OBVIOUS
  <2>2. \A n \in 1 .. Len(<< >>) : FALSE
    BY <2>1
  <2>3. QED
    BY <1>1, <2>1, <2>2 DEF Holds
<1>3. /\ ridx' = 0 /\ widx' = 0 /\ content' = << >> /\ headed' = FALSE
      /\ data' = data /\ size' = size /\ got' = got
  BY DEF B!Reset
<1>4. QED
  BY <1>2, <1>3, Zenon DEF BufInv

\* What the invariant says is that the buffer is a queue.
LEMMA BufInvIsEnough ==
  ASSUME B!BufferAssumption, BufInv
  PROVE  B!BufferIsQueue
<1>1. /\ ridx \in Nat /\ widx \in Nat /\ size \in Nat /\ ridx <= widx /\ widx <= size
      /\ data \in Seq(Cells) /\ Len(data) = size + HeadSize
      /\ content \in Seq(Byte) /\ Len(content) = widx - ridx /\ HeadSize \in Nat
  BY DEF BufInv, Holds, B!BufferAssumption
<1>2. ridx \in 0 .. widx /\ widx \in 0 .. size /\ Len(content) = B!Readable /\ Len(content) \in Nat
  BY <1>1 DEF B!Readable
<1>3. B!Bytes(ridx, B!Readable) = content
  <2>1. B!Bytes(ridx, Len(content)) = SubSeq(content, 1, Len(content))
    BY <1>2, BytesAre, SMTT(30) DEF BufInv
  <2>2. SubSeq(content, 1, Len(content)) = content
    BY <1>1
  <2>3. QED
    BY <1>2, <2>1, <2>2, Zenon
<1>4. headed => SubSeq(data, ridx + 1, ridx + HeadSize) = [n \in 1 .. HeadSize |-> HeadByte]
  <2>1. ridx + HeadSize <= Len(data) /\ Len(data) \in Nat
    BY <1>1
  <2>2. SubSeq(data, ridx + 1, ridx + HeadSize) = [n \in 1 .. HeadSize |-> data[ridx + n]]
    BY <1>1, <2>1
  <2>3. QED
    BY <2>2 DEF BufInv, HasHead
<1>5. got
  BY DEF BufInv
<1>6. QED
  BY <1>1, <1>2, <1>3, <1>4, <1>5, Zenon DEF B!BufferIsQueue

\* A step of the buffer.
LEMMA BufferKeeps ==
  ASSUME B!BufferAssumption, BufInv, [B!Next]_bufVars
  PROVE  BufInv'
<1>1. CASE UNCHANGED bufVars
  BY <1>1, Zenon DEF bufVars, BufInv
<1>2. QED
  BY <1>1, WriteHeadKeeps, Append1Keeps, AppendSizeKeeps, RetrieveKeeps, ResetKeeps DEF B!Next

(***************************************************************************)
(* The debug allocator: the list, and the sum of what the threads add.     *)
(***************************************************************************)
\* The sizes of the blocks in a list.
SizesOf(list) == [k \in DOMAIN list |-> list[k].size]

\* The bytes of the blocks in the list.
LEMMA BytesIsSum == M!Bytes = SumOf(SizesOf(mem_list))
BY Zenon DEF M!Bytes, SumOf, SizesOf, M!FoldLeft, FoldLeft, M!MapThenFoldSet, MapThenFoldSet, M!Max, Max

\* Some order of the threads, and a sum over all of them.
InARow     == CHOOSE e \in Bijection(1 .. Cardinality(Thread), Thread) : TRUE
OverAll(w) == SumOf([k \in 1 .. Cardinality(Thread) |-> w[InARow[k]]])

\* Every thread is in the row once.
LEMMA RowOfThreads ==
  ASSUME M!MallocAssumption
  PROVE  /\ Cardinality(Thread) \in Nat
         /\ InARow \in [1 .. Cardinality(Thread) -> Thread]
         /\ \A t \in Thread : \E p \in 1 .. Cardinality(Thread) :
              InARow[p] = t /\ \A q \in 1 .. Cardinality(Thread) \ {p} : InARow[q] # t
<1>1. IsFiniteSet(Thread)
  BY DEF M!MallocAssumption, M!IsFiniteSet, IsFiniteSet
<1>2. Cardinality(Thread) \in Nat /\ Bijection(1 .. Cardinality(Thread), Thread) # {}
  BY <1>1, FS_CardinalityType DEF ExistsBijection
<1>3. InARow \in Bijection(1 .. Cardinality(Thread), Thread)
  BY <1>2 DEF InARow
<1>4. QED
  BY <1>2, <1>3 DEF Bijection, Injection, Surjection, IsInjective

\* The sum over all threads is a number; it changes by what one of them changes.
LEMMA OverAllType ==
  ASSUME M!MallocAssumption, NEW w \in [Thread -> Nat]
  PROVE  OverAll(w) \in Nat
<1>1. [k \in 1 .. Cardinality(Thread) |-> w[InARow[k]]] \in Seq(Nat)
  BY RowOfThreads
<1>2. QED
  BY <1>1, SumType DEF OverAll

\* What one thread changes.
LEMMA OverAllChange ==
  ASSUME M!MallocAssumption, NEW w \in [Thread -> Nat], NEW v \in [Thread -> Nat], NEW t \in Thread,
         \A u \in Thread \ {t} : v[u] = w[u]
  PROVE  OverAll(v) + w[t] = OverAll(w) + v[t]
<1> DEFINE s == [k \in 1 .. Cardinality(Thread) |-> w[InARow[k]]]
           r == [k \in 1 .. Cardinality(Thread) |-> v[InARow[k]]]
<1>1. Cardinality(Thread) \in Nat /\ InARow \in [1 .. Cardinality(Thread) -> Thread]
  BY RowOfThreads
<1>2. PICK p \in 1 .. Cardinality(Thread) :
        InARow[p] = t /\ \A q \in 1 .. Cardinality(Thread) \ {p} : InARow[q] # t
  BY RowOfThreads
<1>3. /\ s \in Seq(Nat) /\ r \in Seq(Nat) /\ Len(s) = Cardinality(Thread) /\ Len(r) = Len(s)
      /\ s[p] = w[t] /\ r[p] = v[t] /\ p \in 1 .. Len(s)
  <2>1. s \in Seq(Nat) /\ Len(s) = Cardinality(Thread)
    BY <1>1
  <2>2. r \in Seq(Nat) /\ Len(r) = Cardinality(Thread)
    BY <1>1, SMTT(30)
  <2>3. s[p] = w[t] /\ r[p] = v[t]
    BY <1>1, <1>2
  <2> HIDE DEF s, r
  <2>4. QED
    BY <2>1, <2>2, <2>3
<1>4. \A k \in 1 .. Len(s) : k # p => r[k] = s[k]
  BY <1>1, <1>2, <1>3
<1>5. OverAll(w) = SumOf(s) /\ OverAll(v) = SumOf(r)
  BY DEF OverAll
<1> HIDE DEF s, r
<1>6. SumOf(r) + s[p] = SumOf(s) + r[p]
  BY <1>3, <1>4, SumChange
<1>7. QED
  BY <1>3, <1>5, <1>6

\* When no thread has anything.
LEMMA OverAllZero ==
  ASSUME M!MallocAssumption, NEW w \in [Thread -> Nat], \A t \in Thread : w[t] = 0
  PROVE  OverAll(w) = 0
<1> DEFINE s == [k \in 1 .. Cardinality(Thread) |-> w[InARow[k]]]
<1>1. s \in Seq(Nat) /\ \A k \in 1 .. Len(s) : s[k] = 0
  BY RowOfThreads
<1>2. OverAll(w) = SumOf(s)
  BY DEF OverAll
<1> HIDE DEF s
<1>3. QED
  BY <1>1, <1>2, SumZeros

\* A list of blocks, which are in it once each.
Blocks(list) == {list[k].block : k \in DOMAIN list}
Once(list)   == \A k, m \in DOMAIN list : list[k].block = list[m].block => k = m
Entries      == [block : Block, size : Nat]
AllocLists       == Seq(Entries)

\* The block at a place, and its size.
LEMMA EntryType ==
  ASSUME NEW list \in AllocLists
  PROVE  /\ DOMAIN list = 1 .. Len(list) /\ Len(list) \in Nat
         /\ \A k \in 1 .. Len(list) : list[k].block \in Block /\ list[k].size \in Nat
         /\ SizesOf(list) \in Seq(Nat) /\ Len(SizesOf(list)) = Len(list)
         /\ \A k \in 1 .. Len(list) : SizesOf(list)[k] = list[k].size
         /\ SumOf(SizesOf(list)) \in Nat
<1>1. DOMAIN list = 1 .. Len(list) /\ Len(list) \in Nat
  BY DEF AllocLists
<1>2. \A k \in 1 .. Len(list) : list[k] \in Entries
  BY DEF AllocLists
<1>3. \A k \in 1 .. Len(list) : list[k].block \in Block /\ list[k].size \in Nat
  BY <1>2 DEF Entries
<1>4. SizesOf(list) \in Seq(Nat) /\ Len(SizesOf(list)) = Len(list)
  BY <1>1, <1>3 DEF SizesOf
<1>5. \A k \in 1 .. Len(list) : SizesOf(list)[k] = list[k].size
  BY <1>1 DEF SizesOf
<1>6. SumOf(SizesOf(list)) \in Nat
  BY <1>4, SumType
<1>7. QED
  BY <1>1, <1>3, <1>4, <1>5, <1>6

\* __cra_malloc_set_block puts a block at the head of the list.
LEMMA Noted ==
  ASSUME NEW list \in AllocLists, Once(list), NEW b \in Block, b \notin Blocks(list), NEW n \in Nat,
         NEW new, new = <<[block |-> b, size |-> n]>> \o list
  PROVE  /\ new \in AllocLists /\ Len(new) = Len(list) + 1
         /\ Once(new) /\ Blocks(new) = Blocks(list) \cup {b}
<1> DEFINE e == [block |-> b, size |-> n]
<1>1. e \in Entries /\ e.block = b /\ e.size = n
  BY DEF Entries
<1> HIDE DEF e
<1>2. /\ new \in AllocLists /\ Len(new) = Len(list) + 1 /\ new[1] = e
      /\ \A k \in 1 .. Len(list) : new[k + 1] = list[k]
  BY <1>1 DEF AllocLists, e
<1>3. /\ DOMAIN list = 1 .. Len(list) /\ DOMAIN new = 1 .. Len(list) + 1 /\ Len(list) \in Nat
      /\ SizesOf(list) \in Seq(Nat) /\ Len(SizesOf(list)) = Len(list)
      /\ \A k \in 1 .. Len(list) : SizesOf(list)[k] = list[k].size
      /\ SizesOf(new) \in Seq(Nat) /\ Len(SizesOf(new)) = Len(list) + 1
      /\ \A k \in 1 .. Len(list) + 1 : SizesOf(new)[k] = new[k].size
  BY <1>2, EntryType
<1>4. \A k \in 1 .. Len(list) + 1 : k = 1 \/ (k - 1 \in 1 .. Len(list) /\ new[k] = list[k - 1])
  <2> TAKE k \in 1 .. Len(list) + 1
  <2>1. k = 1 \/ (k - 1 \in 1 .. Len(list) /\ (k - 1) + 1 = k)
    BY <1>3
  <2>2. QED
    BY <1>2, <2>1
<1>5. \A k \in 1 .. Len(list) : list[k].block # b
  BY <1>3 DEF Blocks
<1>6. Once(new)
  <2> SUFFICES ASSUME NEW k \in 1 .. Len(list) + 1, NEW m \in 1 .. Len(list) + 1,
                      new[k].block = new[m].block
               PROVE  k = m
    BY <1>3 DEF Once
  <2>1. CASE k = 1 \/ m = 1
    BY <1>1, <1>2, <1>4, <1>5, <2>1
  <2>2. CASE k # 1 /\ m # 1
    <3>1. k - 1 \in 1 .. Len(list) /\ m - 1 \in 1 .. Len(list) /\ list[k - 1].block = list[m - 1].block
      BY <1>4, <2>2
    <3>2. k - 1 = m - 1
      BY <1>3, <3>1 DEF Once
    <3>3. QED
      BY <1>3, <3>2
  <2>3. QED
    BY <2>1, <2>2
<1>7. Blocks(new) = Blocks(list) \cup {b}
  <2>1. \A k \in 1 .. Len(list) + 1 : new[k].block \in Blocks(list) \cup {b}
    BY <1>1, <1>2, <1>3, <1>4 DEF Blocks
  <2>2. b \in Blocks(new)
    <3>1. 1 \in DOMAIN new /\ new[1].block = b
      BY <1>1, <1>2, <1>3
    <3>2. QED
      BY <3>1 DEF Blocks
  <2>3. \A k \in 1 .. Len(list) : list[k].block \in Blocks(new)
    <3> TAKE k \in 1 .. Len(list)
    <3>1. k + 1 \in DOMAIN new
      BY <1>3
    <3>2. new[k + 1].block = list[k].block
      BY <1>2
    <3>3. QED
      BY <3>1, <3>2 DEF Blocks
  <2>4. Blocks(list) \subseteq Blocks(new)
    BY <1>3, <2>3 DEF Blocks
  <2>5. Blocks(new) \subseteq Blocks(list) \cup {b}
    BY <1>3, <2>1 DEF Blocks
  <2>6. QED
    BY <2>2, <2>4, <2>5
<1>8. QED
  BY <1>2, <1>6, <1>7

\* The bytes that are then listed.
LEMMA NotedBytes ==
  ASSUME NEW list \in AllocLists, NEW b \in Block, NEW n \in Nat,
         NEW new, new = <<[block |-> b, size |-> n]>> \o list
  PROVE  SumOf(SizesOf(new)) = n + SumOf(SizesOf(list))
<1> DEFINE e == [block |-> b, size |-> n]
<1>1. e \in Entries /\ e.block = b /\ e.size = n
  BY DEF Entries
<1> HIDE DEF e
<1>2. /\ new \in AllocLists /\ Len(new) = Len(list) + 1 /\ new[1] = e
      /\ \A k \in 1 .. Len(list) : new[k + 1] = list[k]
  BY <1>1 DEF AllocLists, e
<1>3. /\ DOMAIN list = 1 .. Len(list) /\ DOMAIN new = 1 .. Len(list) + 1 /\ Len(list) \in Nat
      /\ SizesOf(list) \in Seq(Nat) /\ Len(SizesOf(list)) = Len(list)
      /\ \A k \in 1 .. Len(list) : SizesOf(list)[k] = list[k].size
      /\ SizesOf(new) \in Seq(Nat) /\ Len(SizesOf(new)) = Len(list) + 1
      /\ \A k \in 1 .. Len(list) + 1 : SizesOf(new)[k] = new[k].size
  BY <1>2, EntryType
<1>4. \A k \in 1 .. Len(list) + 1 : k = 1 \/ (k - 1 \in 1 .. Len(list) /\ new[k] = list[k - 1])
  <2> TAKE k \in 1 .. Len(list) + 1
  <2>1. k = 1 \/ (k - 1 \in 1 .. Len(list) /\ (k - 1) + 1 = k)
    BY <1>3
  <2>2. QED
    BY <1>2, <2>1
<1>5. SizesOf(new) = <<n>> \o SizesOf(list)
  <2>1. /\ <<n>> \o SizesOf(list) \in Seq(Nat) /\ Len(<<n>> \o SizesOf(list)) = Len(list) + 1
        /\ (<<n>> \o SizesOf(list))[1] = n
        /\ \A k \in 1 .. Len(list) : (<<n>> \o SizesOf(list))[k + 1] = SizesOf(list)[k]
    BY <1>3
  <2> DEFINE c == <<n>> \o SizesOf(list)
  <2> HIDE DEF c
  <2>2. \A k \in 1 .. Len(list) + 1 : SizesOf(new)[k] = c[k]
    <3> TAKE k \in 1 .. Len(list) + 1
    <3>1. CASE k = 1
      BY <1>1, <1>2, <1>3, <2>1, <3>1 DEF c
    <3>2. CASE k # 1
      <4>1. k - 1 \in 1 .. Len(list) /\ new[k] = list[k - 1] /\ (k - 1) + 1 = k
        BY <1>3, <1>4, <3>2
      <4>2. c[(k - 1) + 1] = SizesOf(list)[k - 1]
        BY <2>1, <4>1 DEF c
      <4>3. QED
        BY <1>3, <4>1, <4>2
    <3>3. QED
      BY <3>1, <3>2
  <2>3. c \in Seq(Nat) /\ Len(c) = Len(list) + 1
    BY <2>1 DEF c
  <2>4. SizesOf(new) = c
    BY <1>3, <2>2, <2>3, SeqEqual
  <2>5. QED
    BY <2>4 DEF c
<1>6. QED
  BY <1>3, <1>5, SumFront

\* __cra_realloc_dbg: another block, or the same, of another size in its place.
LEMMA Replaced ==
  ASSUME NEW list \in AllocLists, Once(list), NEW p \in 1 .. Len(list),
         NEW new \in AllocLists, Len(new) = Len(list),
         \A k \in 1 .. Len(list) : k # p => new[k] = list[k],
         new[p].block \notin Blocks(list) \ {list[p].block}
  PROVE  /\ Once(new) /\ Blocks(new) = (Blocks(list) \ {list[p].block}) \cup {new[p].block}
         /\ SumOf(SizesOf(new)) + list[p].size = SumOf(SizesOf(list)) + new[p].size
<1>1. /\ DOMAIN list = 1 .. Len(list) /\ DOMAIN new = 1 .. Len(list) /\ Len(list) \in Nat
      /\ SizesOf(list) \in Seq(Nat) /\ Len(SizesOf(list)) = Len(list)
      /\ \A k \in 1 .. Len(list) : SizesOf(list)[k] = list[k].size
      /\ SizesOf(new) \in Seq(Nat) /\ Len(SizesOf(new)) = Len(list)
      /\ \A k \in 1 .. Len(list) : SizesOf(new)[k] = new[k].size
  BY EntryType
<1>2. \A k \in 1 .. Len(list) : k # p => list[k].block # new[p].block /\ list[k].block # list[p].block
  BY <1>1 DEF Blocks, Once
<1> DEFINE b == new[p].block
           a == list[p].block
<1>3. /\ \A k \in DOMAIN list : k # p => new[k].block = list[k].block /\ list[k].block # b /\ list[k].block # a
      /\ new[p].block = b /\ list[p].block = a /\ p \in DOMAIN list /\ DOMAIN new = DOMAIN list
  BY <1>1, <1>2
<1> HIDE DEF a, b
<1>4. Once(new)
  BY <1>3 DEF Once
<1>5. Blocks(new) = (Blocks(list) \ {list[p].block}) \cup {new[p].block}
  <2>1. Blocks(new) \subseteq (Blocks(list) \ {a}) \cup {b}
    BY <1>3 DEF Blocks
  <2>2. Blocks(list) \ {a} \subseteq Blocks(new)
    BY <1>3 DEF Blocks
  <2>3. b \in Blocks(new)
    BY <1>3 DEF Blocks
  <2>4. QED
    BY <1>3, <2>1, <2>2, <2>3
<1>6. SumOf(SizesOf(new)) + SizesOf(list)[p] = SumOf(SizesOf(list)) + SizesOf(new)[p]
  <2>1. \A k \in 1 .. Len(SizesOf(list)) : k # p => SizesOf(new)[k] = SizesOf(list)[k]
    BY <1>1
  <2>2. p \in 1 .. Len(SizesOf(list)) /\ Len(SizesOf(new)) = Len(SizesOf(list))
    BY <1>1
  <2>3. QED
    BY <1>1, <2>1, <2>2, SumChange
<1>7. QED
  BY <1>1, <1>4, <1>5, <1>6

\* __cra_free_dbg: a block less.
LEMMA Removed ==
  ASSUME NEW list \in AllocLists, Once(list), NEW p \in 1 .. Len(list),
         NEW new, new = Without(list, p)
  PROVE  /\ new \in AllocLists /\ Len(new) = Len(list) - 1
         /\ Once(new) /\ Blocks(new) = Blocks(list) \ {list[p].block}
         /\ SumOf(SizesOf(new)) + list[p].size = SumOf(SizesOf(list))
<1>1. /\ DOMAIN list = 1 .. Len(list) /\ Len(list) \in Nat /\ p \in Nat \ {0}
      /\ SizesOf(list) \in Seq(Nat) /\ Len(SizesOf(list)) = Len(list)
      /\ \A k \in 1 .. Len(list) : SizesOf(list)[k] = list[k].size
  <2>1. /\ DOMAIN list = 1 .. Len(list) /\ Len(list) \in Nat
        /\ SizesOf(list) \in Seq(Nat) /\ Len(SizesOf(list)) = Len(list)
    BY EntryType
  <2>2. \A k \in 1 .. Len(list) : SizesOf(list)[k] = list[k].size
    BY EntryType
  <2>3. p \in Nat \ {0}
    BY <2>1
  <2>4. QED
    BY <2>1, <2>2, <2>3
<1>2. /\ new \in AllocLists /\ Len(new) = Len(list) - 1
      /\ \A k \in 1 .. p - 1 : new[k] = list[k]
      /\ \A k \in p .. Len(list) - 1 : new[k] = list[k + 1]
  <2>1. list \in Seq(Entries)
    BY DEF AllocLists
  <2>2. /\ new \in Seq(Entries) /\ Len(new) = Len(list) - 1
        /\ \A k \in 1 .. p - 1 : new[k] = list[k]
        /\ \A k \in p .. Len(list) - 1 : new[k] = list[k + 1]
    BY <2>1, WithoutOne
  <2>3. QED
    BY <2>2 DEF AllocLists
\* Where an entry comes from.
<1> DEFINE from(k) == IF k < p THEN k ELSE k + 1
<1>3. /\ DOMAIN new = 1 .. Len(list) - 1
      /\ \A k \in 1 .. Len(list) - 1 : from(k) \in 1 .. Len(list) \ {p} /\ new[k] = list[from(k)]
  <2>1. DOMAIN new = 1 .. Len(list) - 1
    BY <1>2, EntryType
  <2>2. \A k \in 1 .. Len(list) - 1 : k \in 1 .. p - 1 \/ k \in p .. Len(list) - 1
    BY <1>1
  <2>3. \A k \in 1 .. p - 1 : k < p /\ k \in 1 .. Len(list) \ {p}
    BY <1>1
  <2>4. \A k \in p .. Len(list) - 1 : ~(k < p) /\ k + 1 \in 1 .. Len(list) \ {p}
    BY <1>1
  <2>5. ASSUME NEW k \in 1 .. Len(list) - 1
        PROVE  from(k) \in 1 .. Len(list) \ {p} /\ new[k] = list[from(k)]
    <3>1. CASE k \in 1 .. p - 1
      BY <1>2, <2>3, <3>1
    <3>2. CASE k \in p .. Len(list) - 1
      BY <1>2, <2>4, <3>2
    <3>3. QED
      BY <2>2, <3>1, <3>2
  <2>6. QED
    BY <2>1, <2>5
<1>4. \A k \in 1 .. Len(list) \ {p} : \E m \in 1 .. Len(list) - 1 : from(m) = k
  <2> TAKE k \in 1 .. Len(list) \ {p}
  <2>1. CASE k < p
    <3>1. k \in 1 .. Len(list) - 1 /\ from(k) = k
      BY <1>1, <2>1
    <3>2. QED
      BY <3>1
  <2>2. CASE ~(k < p)
    <3>1. k - 1 \in 1 .. Len(list) - 1 /\ from(k - 1) = k
      BY <1>1, <2>2
    <3>2. QED
      BY <3>1
  <2>3. QED
    BY <2>1, <2>2
<1>5. \A k, m \in 1 .. Len(list) - 1 : from(k) = from(m) => k = m
  BY <1>1
<1> HIDE DEF from
<1>6. Once(new)
  <2> SUFFICES ASSUME NEW k \in 1 .. Len(list) - 1, NEW m \in 1 .. Len(list) - 1,
                      new[k].block = new[m].block
               PROVE  k = m
    BY <1>3 DEF Once
  <2>1. list[from(k)].block = list[from(m)].block /\ from(k) \in DOMAIN list /\ from(m) \in DOMAIN list
    BY <1>1, <1>3
  <2>2. from(k) = from(m)
    BY <2>1, Zenon DEF Once
  <2>3. QED
    BY <1>5, <2>2
<1>7. Blocks(new) = Blocks(list) \ {list[p].block}
  <2>1. \A k \in 1 .. Len(list) : list[k].block = list[p].block => k = p
    BY <1>1 DEF Once
  <2>2. \A k \in 1 .. Len(list) - 1 : new[k].block \in Blocks(list) \ {list[p].block}
    BY <1>1, <1>3, <2>1 DEF Blocks
  <2>3. ASSUME NEW k \in 1 .. Len(list) \ {p}
        PROVE  list[k].block \in Blocks(new)
    <3>1. PICK m \in 1 .. Len(list) - 1 : from(m) = k
      BY <1>4
    <3>2. m \in DOMAIN new /\ new[m].block = list[k].block
      BY <1>3, <3>1
    <3>3. QED
      BY <3>2 DEF Blocks
  <2>4. Blocks(new) \subseteq Blocks(list) \ {list[p].block}
    BY <1>3, <2>2 DEF Blocks
  <2>5. Blocks(list) \ {list[p].block} \subseteq Blocks(new)
    BY <1>1, <2>3 DEF Blocks
  <2>6. QED
    BY <2>4, <2>5
<1>8. /\ SizesOf(new) \in Seq(Nat) /\ Len(SizesOf(new)) = Len(list) - 1
      /\ \A k \in 1 .. Len(list) - 1 : SizesOf(new)[k] = new[k].size
  BY <1>2, EntryType
<1>9. \A k \in 1 .. p - 1 : SizesOf(new)[k] = SizesOf(list)[k]
  <2> TAKE k \in 1 .. p - 1
  <2>1. k \in 1 .. Len(list) - 1 /\ k \in 1 .. Len(list)
    <3>1. Len(list) \in Nat /\ p \in 1 .. Len(list)
      BY <1>1
    <3>2. QED
      BY <3>1
  <2>2. QED
    BY <1>1, <1>2, <1>8, <2>1
<1>10. \A k \in p .. Len(list) - 1 : SizesOf(new)[k] = SizesOf(list)[k + 1]
  <2> TAKE k \in p .. Len(list) - 1
  <2>1. k \in 1 .. Len(list) - 1 /\ k + 1 \in 1 .. Len(list)
    BY <1>1
  <2>2. SizesOf(new)[k] = new[k].size
    BY <1>8, <2>1
  <2>3. new[k] = list[k + 1]
    BY <1>1, <1>2, <2>1
  <2>4. SizesOf(list)[k + 1] = list[k + 1].size
    BY <1>1, <2>1
  <2>5. QED
    BY <2>2, <2>3, <2>4
<1>11. SumOf(SizesOf(new)) + SizesOf(list)[p] = SumOf(SizesOf(list))
  <2>1. p \in 1 .. Len(SizesOf(list)) /\ Len(SizesOf(new)) = Len(SizesOf(list)) - 1
    BY <1>1, <1>8
  <2>2. QED
    BY <1>1, <1>8, <1>9, <1>10, <2>1, SumRemove
<1>12. QED
  BY <1>1, <1>2, <1>6, <1>7, <1>11

(***************************************************************************)
(* The debug allocator: the inductive invariant, and who keeps it.         *)
(***************************************************************************)
\* The threads in a call that is this far.
CallsIn(ops) == {t \in Thread : call[t].op \in ops}
Adding   == {"inc_nalloc", "add_bytes"}
Freeing  == {"inc_nfree", "add_free_bytes"}
HoldingABlock == {"set_block"} \cup Adding
Calls    == [op : {"idle"} \cup HoldingABlock \cup Freeing, block : Block \cup {NoBlock}, bytes : Int]

\* The bytes that the calls under way will add to one of the counters: what makes
\* the bytes in the list more, and what makes them less.
Gained == [t \in Thread |-> IF call[t].op \in Adding /\ call[t].bytes > 0 THEN call[t].bytes ELSE 0]
Given  == [t \in Thread |-> IF call[t].op \in Adding /\ call[t].bytes < 0 THEN 0 - call[t].bytes
                            ELSE IF call[t].op \in Freeing THEN call[t].bytes ELSE 0]

\* The list, the counters and the calls have their types.
AllocTypes ==
  /\ mem_list \in AllocLists
  /\ nalloc \in Nat /\ nfree \in Nat /\ alloc_bytes \in Int /\ free_bytes \in Int
  /\ owned \subseteq Block
  /\ call \in [Thread -> Calls]
  /\ \A t \in Thread : /\ call[t].op = "idle" => call[t] = M!Idle
                       /\ call[t].op \in HoldingABlock => call[t].block \in Block
                       /\ call[t].op # "add_bytes" => call[t].bytes \in Nat

\* A block in the list is the program's, or its call has not returned; a block
\* is in one of these places only.
OneOwner ==
  /\ Once(mem_list)
  /\ Blocks(mem_list) = owned \cup {call[t].block : t \in CallsIn(Adding)}
  /\ \A t \in CallsIn(Adding) : call[t].block \notin owned
  /\ \A t \in CallsIn({"set_block"}) : call[t].block \notin Blocks(mem_list)
  /\ \A t, u \in CallsIn(HoldingABlock) : call[t].block = call[u].block => t = u

\* The counters agree with the list but for the calls under way.
CallsAgree == nalloc + Cardinality(CallsIn({"inc_nalloc"}))
                = nfree + Cardinality(CallsIn({"inc_nfree"})) + Len(mem_list)
BytesAgree == refused \/ alloc_bytes + OverAll(Gained)
                           = free_bytes + OverAll(Given) + SumOf(SizesOf(mem_list))

\* The inductive invariant.
AllocInv == AllocTypes /\ OneOwner /\ CallsAgree /\ BytesAgree

\* The calls, counted.
LEMMA CallsCounted ==
  ASSUME M!MallocAssumption, NEW Q \in SUBSET Thread, NEW t
  PROVE  /\ Cardinality(Q) \in Nat
         /\ t \notin Q => Cardinality(Q \cup {t}) = Cardinality(Q) + 1
         /\ t \in Q => Cardinality(Q \ {t}) = Cardinality(Q) - 1
<1>1. IsFiniteSet(Thread)
  BY DEF M!MallocAssumption, M!IsFiniteSet, IsFiniteSet
<1>2. IsFiniteSet(Q)
  BY <1>1, FS_Subset
<1>3. QED
  BY <1>2, FS_CardinalityType, FS_AddElement, FS_RemoveElement

\* A thread gets on with its call, and the others stay where they are.
LEMMA GetsOn ==
  ASSUME AllocTypes, NEW t \in Thread, NEW c \in Calls, call' = [call EXCEPT ![t] = c]
  PROVE  /\ call' \in [Thread -> Calls] /\ call'[t] = c
         /\ \A u \in Thread \ {t} : call'[u] = call[u]
         /\ \A ops : /\ c.op \in ops => CallsIn(ops)' = CallsIn(ops) \cup {t}
                     /\ c.op \notin ops => CallsIn(ops)' = CallsIn(ops) \ {t}
<1>1. /\ call' \in [Thread -> Calls] /\ call'[t] = c
      /\ \A u \in Thread \ {t} : call'[u] = call[u]
  BY DEF AllocTypes
<1>2. ASSUME NEW ops
      PROVE  /\ c.op \in ops => CallsIn(ops)' = CallsIn(ops) \cup {t}
             /\ c.op \notin ops => CallsIn(ops)' = CallsIn(ops) \ {t}
  BY <1>1 DEF CallsIn
<1>3. QED
  BY <1>1, <1>2

\* Both kinds of bytes are numbers.
LEMMA BytesType ==
  ASSUME AllocTypes
  PROVE  Gained \in [Thread -> Nat] /\ Given \in [Thread -> Nat]
<1>1. \A t \in Thread : call[t].bytes \in Int /\ (call[t].op \in Freeing => call[t].bytes \in Nat)
  BY DEF AllocTypes, Calls, Freeing
<1>2. QED
  BY <1>1 DEF Gained, Given

\* What a step of a thread makes of the bytes under way.
LEMMA BytesGo ==
  ASSUME M!MallocAssumption, AllocTypes, AllocTypes', NEW t \in Thread,
         \A u \in Thread \ {t} : call'[u] = call[u]
  PROVE  /\ OverAll(Gained) \in Nat /\ OverAll(Gained)' \in Nat
         /\ OverAll(Given) \in Nat /\ OverAll(Given)' \in Nat
         /\ Gained[t] \in Nat /\ Gained'[t] \in Nat /\ Given[t] \in Nat /\ Given'[t] \in Nat
         /\ OverAll(Gained)' + Gained[t] = OverAll(Gained) + Gained'[t]
         /\ OverAll(Given)' + Given[t] = OverAll(Given) + Given'[t]
<1> DEFINE a == Gained
           b == Given
           c == Gained'
           d == Given'
<1>1. a \in [Thread -> Nat] /\ b \in [Thread -> Nat]
  BY BytesType
<1>2. c \in [Thread -> Nat] /\ d \in [Thread -> Nat]
  <2>1. \A u \in Thread : call'[u].bytes \in Int /\ (call'[u].op \in Freeing => call'[u].bytes \in Nat)
    BY DEF AllocTypes, Calls, Freeing
  <2>2. QED
    BY <2>1 DEF Gained, Given
<1>3. \A u \in Thread \ {t} : c[u] = a[u] /\ d[u] = b[u]
  BY DEF Gained, Given
<1>4. OverAll(Gained)' = OverAll(c) /\ OverAll(Given)' = OverAll(d)
  BY DEF OverAll, InARow
<1> HIDE DEF a, b, c, d
<1>5. /\ OverAll(a) \in Nat /\ OverAll(b) \in Nat /\ OverAll(c) \in Nat /\ OverAll(d) \in Nat
  BY <1>1, <1>2, OverAllType
<1>6. OverAll(c) + a[t] = OverAll(a) + c[t] /\ OverAll(d) + b[t] = OverAll(b) + d[t]
  BY <1>1, <1>2, <1>3, OverAllChange
<1>7. a[t] \in Nat /\ b[t] \in Nat /\ c[t] \in Nat /\ d[t] \in Nat
  BY <1>1, <1>2
<1>8. QED
  BY <1>4, <1>5, <1>6, <1>7 DEF a, b, c, d

\* Nothing is there at first.
LEMMA AllocInit ==
  ASSUME M!MallocAssumption, M!Init
  PROVE  AllocInv
<1>1. AllocTypes
  BY DEF M!Init, M!Idle, AllocTypes, Calls, AllocLists, HoldingABlock, Adding, Freeing
<1>2. \A ops : "idle" \notin ops => CallsIn(ops) = {}
  BY DEF M!Init, M!Idle, CallsIn
<1>3. /\ CallsIn(Adding) = {} /\ CallsIn(HoldingABlock) = {} /\ CallsIn({"set_block"}) = {}
      /\ CallsIn({"inc_nalloc"}) = {} /\ CallsIn({"inc_nfree"}) = {}
  BY <1>2 DEF Adding, HoldingABlock
<1>4. Blocks(mem_list) = {} /\ Once(mem_list) /\ owned = {} /\ Len(mem_list) = 0
  BY DEF M!Init, Blocks, Once
<1>5. OneOwner
  BY <1>3, <1>4 DEF OneOwner
<1>6. CallsAgree
  BY <1>3, <1>4, FS_EmptySet, SMTT(30) DEF M!Init, CallsAgree
<1>7. BytesAgree
  <2>1. Gained \in [Thread -> Nat] /\ Given \in [Thread -> Nat]
    BY <1>1, BytesType
  <2>2. \A t \in Thread : Gained[t] = 0 /\ Given[t] = 0
    BY DEF M!Init, M!Idle, Gained, Given, Adding, Freeing
  <2> DEFINE w == Gained
             v == Given
  <2>3. w \in [Thread -> Nat] /\ v \in [Thread -> Nat] /\ \A t \in Thread : w[t] = 0 /\ v[t] = 0
    BY <2>1, <2>2
  <2> HIDE DEF w, v
  <2>4. OverAll(w) = 0 /\ OverAll(v) = 0
    BY <2>3, OverAllZero
  <2>5. SizesOf(mem_list) = << >>
    BY DEF M!Init, SizesOf
  <2>6. QED
    BY <2>4, <2>5, SumNone DEF M!Init, BytesAgree, w, v
<1>8. QED
  BY <1>1, <1>5, <1>6, <1>7 DEF AllocInv

\* A step that changes nothing of the allocator.
LEMMA AllocStutters ==
  ASSUME AllocInv, UNCHANGED allocVars
  PROVE  AllocInv'
<1>1. /\ UNCHANGED <<mem_list, nalloc, nfree, alloc_bytes, free_bytes, owned, call, refused>>
  BY DEF allocVars
<1>2. AllocTypes' /\ OneOwner'
  BY <1>1 DEF AllocInv, AllocTypes, OneOwner, CallsIn, Blocks, Once
<1>3. CallsAgree'
  BY <1>1 DEF AllocInv, CallsAgree, CallsIn
<1>4. BytesAgree'
  <2>1. Gained' = Gained /\ Given' = Given
    BY <1>1 DEF Gained, Given
  <2>2. OverAll(Gained)' = OverAll(Gained) /\ OverAll(Given)' = OverAll(Given)
    BY <2>1 DEF OverAll, InARow
  <2>3. QED
    BY <1>1, <2>2 DEF AllocInv, BytesAgree
<1>5. QED
  BY <1>2, <1>3, <1>4 DEF AllocInv

\* __cra_malloc_dbg obtains the block.
LEMMA MallocKeeps ==
  ASSUME M!MallocAssumption, AllocInv, NEW t \in Thread, M!Malloc(t)
  PROVE  AllocInv'
<1>1. PICK b \in Block \ M!InUse, n \in Sizes : M!Goes(t, "set_block", b, n)
  BY DEF M!Malloc
<1> DEFINE c == [op |-> "set_block", block |-> b, bytes |-> n]
<1>2. /\ call' = [call EXCEPT ![t] = c] /\ n \in Nat /\ c \in Calls
      /\ c.op = "set_block" /\ c.block = b /\ c.bytes = n
      /\ call[t].op = "idle"
      /\ UNCHANGED <<mem_list, nalloc, nfree, alloc_bytes, free_bytes, owned, refused>>
  <2>1. n \in Nat /\ n \in Int /\ b \in Block
    BY <1>1 DEF M!MallocAssumption
  <2>2. c \in Calls
    BY <2>1 DEF Calls, HoldingABlock
  <2>3. call' = [call EXCEPT ![t] = c] /\ c.op = "set_block" /\ c.block = b /\ c.bytes = n
    BY <1>1 DEF M!Goes
  <2>4. QED
    BY <2>1, <2>2, <2>3 DEF M!Malloc, M!countVars
<1> HIDE DEF c
<1>3. /\ AllocTypes /\ OneOwner /\ CallsAgree /\ BytesAgree
  BY DEF AllocInv
<1>4. /\ call' \in [Thread -> Calls] /\ call'[t] = c
      /\ \A u \in Thread \ {t} : call'[u] = call[u]
      /\ \A ops : /\ c.op \in ops => CallsIn(ops)' = CallsIn(ops) \cup {t}
                  /\ c.op \notin ops => CallsIn(ops)' = CallsIn(ops) \ {t}
  BY <1>2, <1>3, GetsOn
<1>5. /\ CallsIn(Adding)' = CallsIn(Adding)
      /\ CallsIn({"inc_nalloc"})' = CallsIn({"inc_nalloc"})
      /\ CallsIn({"inc_nfree"})' = CallsIn({"inc_nfree"})
      /\ CallsIn({"set_block"})' = CallsIn({"set_block"}) \cup {t}
      /\ CallsIn(HoldingABlock)' = CallsIn(HoldingABlock) \cup {t}
  <2>1. \A ops : "idle" \notin ops => t \notin CallsIn(ops)
    BY <1>2 DEF CallsIn
  <2>2. /\ "set_block" \notin Adding /\ "set_block" \in HoldingABlock
        /\ "idle" \notin Adding /\ "idle" \notin {"inc_nalloc"} /\ "idle" \notin {"inc_nfree"}
    BY DEF Adding, HoldingABlock
  <2>3. t \notin CallsIn(Adding) /\ t \notin CallsIn({"inc_nalloc"}) /\ t \notin CallsIn({"inc_nfree"})
    BY <2>1, <2>2
  <2>4. CallsIn(Adding)' = CallsIn(Adding) \ {t}
    BY <1>2, <1>4, <2>2
  <2>5. CallsIn({"inc_nalloc"})' = CallsIn({"inc_nalloc"}) \ {t}
    BY <1>2, <1>4
  <2>6. CallsIn({"inc_nfree"})' = CallsIn({"inc_nfree"}) \ {t}
    BY <1>2, <1>4
  <2>7. CallsIn({"set_block"})' = CallsIn({"set_block"}) \cup {t}
    BY <1>2, <1>4
  <2>8. CallsIn(HoldingABlock)' = CallsIn(HoldingABlock) \cup {t}
    BY <1>2, <1>4, <2>2
  <2>9. QED
    BY <2>3, <2>4, <2>5, <2>6, <2>7, <2>8
<1>6. AllocTypes'
  BY <1>1, <1>2, <1>3, <1>4 DEF AllocTypes, HoldingABlock
<1>7. OneOwner'
  <2>1. /\ b \notin Blocks(mem_list) /\ \A u \in CallsIn(HoldingABlock) : call[u].block # b
    <3>1. b \notin Blocks(mem_list) /\ \A u \in CallsIn({"set_block"}) : call[u].block # b
      BY <1>1 DEF M!InUse, M!Listed, Blocks, CallsIn
    <3>2. \A u \in CallsIn(Adding) : call[u].block # b
      BY <1>3, <3>1 DEF OneOwner
    <3>3. QED
      BY <3>1, <3>2 DEF CallsIn, HoldingABlock
  <2>2. \A u \in CallsIn(HoldingABlock) : u \in Thread \ {t} /\ call'[u] = call[u]
    BY <1>2, <1>4 DEF CallsIn, HoldingABlock, Adding
  <2>3. \A u \in CallsIn({"set_block"}) \cup CallsIn(Adding) : u \in CallsIn(HoldingABlock)
    BY DEF CallsIn, HoldingABlock
  <2>4. Blocks(mem_list)' = Blocks(mem_list) /\ Once(mem_list)' = Once(mem_list)
    BY <1>2
  <2>5. {call[u].block : u \in CallsIn(Adding)} = {call'[u].block : u \in CallsIn(Adding)}
    BY <2>2, <2>3
  <2>6. \A u \in CallsIn({"set_block"})' : call'[u].block \notin Blocks(mem_list)'
    BY <1>2, <1>3, <1>4, <1>5, <2>1, <2>2, <2>3, <2>4 DEF OneOwner
  <2>7. \A u, w \in CallsIn(HoldingABlock)' : call'[u].block = call'[w].block => u = w
    BY <1>2, <1>3, <1>4, <1>5, <2>1, <2>2 DEF OneOwner
  <2>8. Blocks(mem_list)' = owned' \cup {call'[u].block : u \in CallsIn(Adding)'}
    BY <1>2, <1>3, <1>5, <2>4, <2>5 DEF OneOwner
  <2>9. \A u \in CallsIn(Adding)' : call'[u].block \notin owned'
    BY <1>2, <1>3, <1>5, <2>2, <2>3 DEF OneOwner
  <2>10. QED
    BY <1>3, <2>4, <2>6, <2>7, <2>8, <2>9 DEF OneOwner
<1>8. CallsAgree'
  BY <1>2, <1>3, <1>5 DEF CallsAgree
<1>9. BytesAgree'
  <2>1. /\ OverAll(Gained) \in Nat /\ OverAll(Gained)' \in Nat
        /\ OverAll(Given) \in Nat /\ OverAll(Given)' \in Nat
        /\ OverAll(Gained)' + Gained[t] = OverAll(Gained) + Gained'[t]
        /\ OverAll(Given)' + Given[t] = OverAll(Given) + Given'[t]
    BY <1>3, <1>4, <1>6, BytesGo
  <2>2. Gained[t] = 0 /\ Gained'[t] = 0 /\ Given[t] = 0 /\ Given'[t] = 0
    BY <1>2, <1>4 DEF Gained, Given, Adding, Freeing
  <2>3. OverAll(Gained)' = OverAll(Gained) /\ OverAll(Given)' = OverAll(Given)
    BY <2>1, <2>2
  <2>4. SumOf(SizesOf(mem_list))' = SumOf(SizesOf(mem_list))
    BY <1>2
  <2>5. QED
    BY <1>2, <1>3, <2>3, <2>4 DEF BytesAgree
<1>10. QED
  BY <1>6, <1>7, <1>8, <1>9 DEF AllocInv

\* A block stays where it is: a call with a block of the list gets on, or one
\* without a block.
LEMMA OwnersStay ==
  ASSUME AllocTypes, OneOwner, NEW t \in Thread, NEW c \in Calls, call' = [call EXCEPT ![t] = c],
         UNCHANGED <<mem_list, owned>>,
         \/ call[t].op \in Adding /\ c.op \in Adding /\ c.block = call[t].block
         \/ call[t].op \notin HoldingABlock /\ c.op \notin HoldingABlock
  PROVE  OneOwner'
<1>1. /\ call' \in [Thread -> Calls] /\ call'[t] = c
      /\ \A u \in Thread \ {t} : call'[u] = call[u]
  BY DEF AllocTypes
<1>2. \A u \in Thread : \A ops \in {Adding, HoldingABlock, {"set_block"}} : call'[u].op \in ops <=> call[u].op \in ops
  BY <1>1 DEF Adding, HoldingABlock
<1>3. /\ CallsIn(Adding)' = CallsIn(Adding) /\ CallsIn({"set_block"})' = CallsIn({"set_block"})
      /\ CallsIn(HoldingABlock)' = CallsIn(HoldingABlock)
  BY <1>2 DEF CallsIn
<1>4. \A u \in CallsIn(HoldingABlock) : call'[u].block = call[u].block
  BY <1>1 DEF CallsIn
<1>5. \A u \in CallsIn({"set_block"}) \cup CallsIn(Adding) : u \in CallsIn(HoldingABlock)
  BY DEF CallsIn, HoldingABlock
<1>6. {call[u].block : u \in CallsIn(Adding)} = {call'[u].block : u \in CallsIn(Adding)}
  BY <1>4, <1>5
<1>7. Blocks(mem_list)' = Blocks(mem_list) /\ Once(mem_list)' = Once(mem_list)
  OBVIOUS
<1>8. QED
  BY <1>3, <1>4, <1>5, <1>6, <1>7 DEF OneOwner

\* The bytes agree after a step that adds to both sides the same.
LEMMA BytesStep ==
  ASSUME M!MallocAssumption, AllocTypes, AllocTypes', BytesAgree, NEW t \in Thread,
         \A u \in Thread \ {t} : call'[u] = call[u], refused => refused',
         NEW n \in Int, SumOf(SizesOf(mem_list))' = SumOf(SizesOf(mem_list)) + n,
         \/ refused'
         \/ (alloc_bytes' - alloc_bytes) + (Gained'[t] - Gained[t])
              = (free_bytes' - free_bytes) + (Given'[t] - Given[t]) + n
  PROVE  BytesAgree'
<1> DEFINE a == OverAll(Gained)
           b == OverAll(Given)
           c == OverAll(Gained)'
           d == OverAll(Given)'
           s == SumOf(SizesOf(mem_list))
           r == SumOf(SizesOf(mem_list))'
<1>1. /\ a \in Nat /\ b \in Nat /\ c \in Nat /\ d \in Nat
      /\ Gained[t] \in Nat /\ Gained'[t] \in Nat /\ Given[t] \in Nat /\ Given'[t] \in Nat
      /\ c + Gained[t] = a + Gained'[t]
      /\ d + Given[t] = b + Given'[t]
  BY BytesGo
<1>2. s \in Nat /\ r = s + n
  BY EntryType DEF AllocTypes
<1>3. refused \/ alloc_bytes + a = free_bytes + b + s
  BY DEF BytesAgree
<1>4. alloc_bytes \in Int /\ alloc_bytes' \in Int /\ free_bytes \in Int /\ free_bytes' \in Int
  BY DEF AllocTypes
<1> HIDE DEF a, b, c, d, s, r
<1>5. refused' \/ alloc_bytes' + c = free_bytes' + d + r
  BY <1>1, <1>2, <1>3, <1>4
<1>6. QED
  BY <1>5 DEF BytesAgree, c, d, r

\* __cra_malloc_set_block lists the block.
LEMMA SetBlockKeeps ==
  ASSUME M!MallocAssumption, AllocInv, NEW t \in Thread, M!SetBlock(t)
  PROVE  AllocInv'
<1> DEFINE b == call[t].block
           n == call[t].bytes
           c == [op |-> "inc_nalloc", block |-> b, bytes |-> n]
<1>1. /\ call[t].op = "set_block" /\ call' = [call EXCEPT ![t] = c]
      /\ mem_list' = <<[block |-> b, size |-> n]>> \o mem_list
      /\ UNCHANGED <<nalloc, nfree, alloc_bytes, free_bytes, owned, refused>>
  BY DEF M!SetBlock, M!Goes, M!countVars
<1>2. AllocTypes /\ OneOwner /\ CallsAgree /\ BytesAgree
  BY DEF AllocInv
<1>3. b \in Block /\ n \in Nat
  BY <1>1, <1>2 DEF AllocTypes, HoldingABlock
<1>4. c \in Calls /\ c.op = "inc_nalloc" /\ c.block = b /\ c.bytes = n
  BY <1>3 DEF Calls, HoldingABlock, Adding
<1> HIDE DEF c
<1>5. /\ call' \in [Thread -> Calls] /\ call'[t] = c
      /\ \A u \in Thread \ {t} : call'[u] = call[u]
      /\ \A ops : /\ c.op \in ops => CallsIn(ops)' = CallsIn(ops) \cup {t}
                  /\ c.op \notin ops => CallsIn(ops)' = CallsIn(ops) \ {t}
  BY <1>1, <1>2, <1>4, GetsOn
<1>6. /\ CallsIn(Adding)' = CallsIn(Adding) \cup {t} /\ t \notin CallsIn(Adding)
      /\ CallsIn({"inc_nalloc"})' = CallsIn({"inc_nalloc"}) \cup {t} /\ t \notin CallsIn({"inc_nalloc"})
      /\ CallsIn({"inc_nfree"})' = CallsIn({"inc_nfree"})
      /\ CallsIn({"set_block"})' = CallsIn({"set_block"}) \ {t} /\ t \in CallsIn({"set_block"})
      /\ CallsIn(HoldingABlock)' = CallsIn(HoldingABlock) /\ t \in CallsIn(HoldingABlock)
  <2>1. /\ t \notin CallsIn(Adding) /\ t \notin CallsIn({"inc_nalloc"}) /\ t \notin CallsIn({"inc_nfree"})
        /\ t \in CallsIn({"set_block"}) /\ t \in CallsIn(HoldingABlock)
    BY <1>1 DEF CallsIn, Adding, HoldingABlock
  <2>2. "inc_nalloc" \in Adding /\ "inc_nalloc" \in HoldingABlock
    BY DEF Adding, HoldingABlock
  <2>3. CallsIn(Adding)' = CallsIn(Adding) \cup {t}
    BY <1>4, <1>5, <2>2
  <2>4. CallsIn({"inc_nalloc"})' = CallsIn({"inc_nalloc"}) \cup {t}
    BY <1>4, <1>5
  <2>5. CallsIn({"inc_nfree"})' = CallsIn({"inc_nfree"}) \ {t}
    BY <1>4, <1>5
  <2>6. CallsIn({"set_block"})' = CallsIn({"set_block"}) \ {t}
    BY <1>4, <1>5
  <2>7. CallsIn(HoldingABlock)' = CallsIn(HoldingABlock) \cup {t}
    BY <1>4, <1>5, <2>2
  <2>8. QED
    BY <2>1, <2>3, <2>4, <2>5, <2>6, <2>7
<1>7. b \notin Blocks(mem_list)
  BY <1>2, <1>6 DEF OneOwner
<1>8. /\ mem_list' \in AllocLists /\ Len(mem_list') = Len(mem_list) + 1
      /\ Once(mem_list') /\ Blocks(mem_list') = Blocks(mem_list) \cup {b}
      /\ SumOf(SizesOf(mem_list')) = n + SumOf(SizesOf(mem_list))
  <2>1. mem_list \in AllocLists /\ Once(mem_list)
    BY <1>2 DEF AllocTypes, OneOwner
  <2> DEFINE s == mem_list
             r == mem_list'
  <2>2. s \in AllocLists /\ Once(s) /\ b \in Block /\ b \notin Blocks(s) /\ n \in Nat
    BY <1>3, <1>7, <2>1
  <2>3. r = <<[block |-> b, size |-> n]>> \o s
    BY <1>1
  <2> HIDE DEF b, n, s, r
  <2>4. /\ r \in AllocLists /\ Len(r) = Len(s) + 1
        /\ Once(r) /\ Blocks(r) = Blocks(s) \cup {b}
        /\ SumOf(SizesOf(r)) = n + SumOf(SizesOf(s))
    <3>1. SumOf(SizesOf(r)) = n + SumOf(SizesOf(s))
      BY <2>2, <2>3, NotedBytes
    <3>2. /\ r \in AllocLists /\ Len(r) = Len(s) + 1
          /\ Once(r) /\ Blocks(r) = Blocks(s) \cup {b}
      BY <2>2, <2>3, Noted
    <3>3. QED
      BY <3>1, <3>2
  <2>5. QED
    BY <2>4 DEF s, r
<1>9. AllocTypes'
  BY <1>1, <1>2, <1>3, <1>4, <1>5, <1>8 DEF AllocTypes
<1>10. OneOwner'
  <2>1. \A u \in CallsIn(HoldingABlock) : call'[u].block = call[u].block
    BY <1>4, <1>5 DEF CallsIn
  <2>2. \A u \in CallsIn({"set_block"}) \cup CallsIn(Adding) : u \in CallsIn(HoldingABlock)
    BY DEF CallsIn, HoldingABlock
  <2>3. {call'[u].block : u \in CallsIn(Adding) \cup {t}} = {call[u].block : u \in CallsIn(Adding)} \cup {b}
    BY <1>6, <2>1, <2>2
  <2>4. Blocks(mem_list)' = owned' \cup {call'[u].block : u \in CallsIn(Adding)'}
    BY <1>1, <1>2, <1>6, <1>8, <2>3 DEF OneOwner
  <2>5. \A u \in CallsIn(Adding)' : call'[u].block \notin owned'
    <3>1. b \notin owned
      BY <1>2, <1>7 DEF OneOwner
    <3>2. \A u \in CallsIn(Adding) : call'[u].block \notin owned
      BY <1>2, <2>1, <2>2 DEF OneOwner
    <3>3. QED
      BY <1>1, <1>4, <1>5, <1>6, <3>1, <3>2
  <2>6. \A u, w \in CallsIn(HoldingABlock)' : call'[u].block = call'[w].block => u = w
    BY <1>2, <1>6, <2>1 DEF OneOwner
  <2>7. \A u \in CallsIn({"set_block"})' : call'[u].block \notin Blocks(mem_list)'
    <3>1. \A u \in CallsIn({"set_block"}) \ {t} : call'[u].block \notin Blocks(mem_list) /\ call'[u].block # b
      BY <1>2, <1>6, <2>1, <2>2 DEF OneOwner
    <3>2. QED
      BY <1>6, <1>8, <3>1
  <2>8. Once(mem_list)'
    BY <1>8
  <2>9. QED
    BY <2>4, <2>5, <2>6, <2>7, <2>8 DEF OneOwner
<1>11. CallsAgree'
  <2>1. /\ Cardinality(CallsIn({"inc_nalloc"}) \cup {t}) = Cardinality(CallsIn({"inc_nalloc"})) + 1
        /\ Cardinality(CallsIn({"inc_nalloc"})) \in Nat /\ Cardinality(CallsIn({"inc_nfree"})) \in Nat
    <3>1. CallsIn({"inc_nalloc"}) \in SUBSET Thread /\ CallsIn({"inc_nfree"}) \in SUBSET Thread
      BY DEF CallsIn
    <3>2. QED
      BY <1>6, <3>1, CallsCounted
  <2>2. nalloc \in Nat /\ nfree \in Nat /\ Len(mem_list) \in Nat
    BY <1>2 DEF AllocTypes, AllocLists
  <2>3. nalloc + Cardinality(CallsIn({"inc_nalloc"}))
          = nfree + Cardinality(CallsIn({"inc_nfree"})) + Len(mem_list)
    BY <1>2 DEF CallsAgree
  <2>4. nalloc + (Cardinality(CallsIn({"inc_nalloc"})) + 1)
          = nfree + Cardinality(CallsIn({"inc_nfree"})) + (Len(mem_list) + 1)
    BY <2>1, <2>2, <2>3
  <2>5. /\ nalloc' = nalloc /\ nfree' = nfree /\ Len(mem_list)' = Len(mem_list) + 1
        /\ Cardinality(CallsIn({"inc_nalloc"}))' = Cardinality(CallsIn({"inc_nalloc"})) + 1
        /\ Cardinality(CallsIn({"inc_nfree"}))' = Cardinality(CallsIn({"inc_nfree"}))
    BY <1>1, <1>6, <1>8, <2>1
  <2>6. QED
    BY <2>4, <2>5, Zenon DEF CallsAgree
<1>12. BytesAgree'
  <2>1. Gained'[t] - Gained[t] = n /\ Given'[t] - Given[t] = 0
    BY <1>1, <1>3, <1>4, <1>5 DEF Gained, Given, Adding, Freeing
  <2>2. SumOf(SizesOf(mem_list))' = SumOf(SizesOf(mem_list)) + n
    BY <1>2, <1>3, <1>8, EntryType DEF AllocTypes
  <2>3. alloc_bytes \in Int /\ free_bytes \in Int
    BY <1>2 DEF AllocTypes
  <2>4. (alloc_bytes' - alloc_bytes) + (Gained'[t] - Gained[t])
          = (free_bytes' - free_bytes) + (Given'[t] - Given[t]) + n
    BY <1>1, <1>3, <2>1, <2>3
  <2>5. n \in Int /\ (refused => refused')
    BY <1>1, <1>3
  <2> HIDE DEF b, n
  <2>6. QED
    BY <1>2, <1>5, <1>9, <2>2, <2>4, <2>5, BytesStep
<1>13. QED
  BY <1>9, <1>10, <1>11, <1>12 DEF AllocInv

\* A call that gets on to another step, or returns, counted.
LEMMA CountsGo ==
  ASSUME M!MallocAssumption, AllocTypes, NEW t \in Thread, NEW c \in Calls, call' = [call EXCEPT ![t] = c], NEW op
  PROVE  /\ Cardinality(CallsIn({op})) \in Nat /\ Cardinality(CallsIn({op}))' \in Nat
         /\ call[t].op = op /\ c.op # op => Cardinality(CallsIn({op}))' = Cardinality(CallsIn({op})) - 1
         /\ call[t].op # op /\ c.op = op => Cardinality(CallsIn({op}))' = Cardinality(CallsIn({op})) + 1
         /\ call[t].op # op /\ c.op # op => Cardinality(CallsIn({op}))' = Cardinality(CallsIn({op}))
<1> DEFINE Q == CallsIn({op})
           Z == CallsIn({op})'
<1>1. Q \in SUBSET Thread /\ Z \in SUBSET Thread /\ (call[t].op = op <=> t \in Q)
  BY DEF CallsIn
<1>2. (c.op = op => Z = Q \cup {t}) /\ (c.op # op => Z = Q \ {t})
  <2>1. \A u \in Thread : call'[u] = IF u = t THEN c ELSE call[u]
    BY DEF AllocTypes
  <2>2. QED
    BY <2>1 DEF CallsIn
<1>3. Cardinality(CallsIn({op})) = Cardinality(Q) /\ Cardinality(CallsIn({op}))' = Cardinality(Z)
  OBVIOUS
<1> HIDE DEF Q, Z
<1>4. /\ Cardinality(Q) \in Nat /\ Cardinality(Z) \in Nat
      /\ t \notin Q => Cardinality(Q \cup {t}) = Cardinality(Q) + 1
      /\ t \in Q => Cardinality(Q \ {t}) = Cardinality(Q) - 1
  BY <1>1, CallsCounted
<1>5. t \notin Q => Q \ {t} = Q
  OBVIOUS
<1>6. /\ t \in Q /\ c.op # op => Cardinality(Z) = Cardinality(Q) - 1
      /\ t \notin Q /\ c.op = op => Cardinality(Z) = Cardinality(Q) + 1
      /\ t \notin Q /\ c.op # op => Cardinality(Z) = Cardinality(Q)
  BY <1>2, <1>4, <1>5
<1>7. QED
  BY <1>1, <1>3, <1>4, <1>6

\* The block is counted.
LEMMA IncNallocKeeps ==
  ASSUME M!MallocAssumption, AllocInv, NEW t \in Thread, M!IncNalloc(t)
  PROVE  AllocInv'
<1> DEFINE c == [op |-> "add_bytes", block |-> call[t].block, bytes |-> call[t].bytes]
<1>1. /\ call[t].op = "inc_nalloc" /\ call' = [call EXCEPT ![t] = c] /\ nalloc' = nalloc + 1
      /\ UNCHANGED <<mem_list, nfree, alloc_bytes, free_bytes, owned, refused>>
  BY DEF M!IncNalloc, M!Goes
<1>2. AllocTypes /\ OneOwner /\ CallsAgree /\ BytesAgree
  BY DEF AllocInv
<1>3. call[t].block \in Block /\ call[t].bytes \in Nat
  BY <1>1, <1>2 DEF AllocTypes, HoldingABlock, Adding
<1>4. c \in Calls /\ c.op = "add_bytes" /\ c.block = call[t].block /\ c.bytes = call[t].bytes
  BY <1>3 DEF Calls, HoldingABlock, Adding
<1> HIDE DEF c
<1>5. /\ call' \in [Thread -> Calls] /\ call'[t] = c
      /\ \A u \in Thread \ {t} : call'[u] = call[u]
  BY <1>1, <1>2, <1>4, GetsOn
<1>6. AllocTypes'
  BY <1>1, <1>2, <1>3, <1>4, <1>5 DEF AllocTypes
<1>7. OneOwner'
  BY <1>1, <1>2, <1>4, OwnersStay DEF Adding
<1>8. CallsAgree'
  <2>1. /\ Cardinality(CallsIn({"inc_nalloc"})) \in Nat /\ Cardinality(CallsIn({"inc_nfree"})) \in Nat
        /\ Cardinality(CallsIn({"inc_nalloc"}))' = Cardinality(CallsIn({"inc_nalloc"})) - 1
        /\ Cardinality(CallsIn({"inc_nfree"}))' = Cardinality(CallsIn({"inc_nfree"}))
    BY <1>1, <1>2, <1>4, CountsGo
  <2>2. nalloc \in Nat /\ nfree \in Nat /\ Len(mem_list) \in Nat
    BY <1>2 DEF AllocTypes, AllocLists
  <2>3. Len(mem_list)' = Len(mem_list)
    BY <1>1
  <2>4. QED
    BY <1>1, <1>2, <2>1, <2>2, <2>3 DEF CallsAgree
<1>9. BytesAgree'
  <2>1. Gained'[t] = Gained[t] /\ Given'[t] = Given[t]
    BY <1>1, <1>4, <1>5 DEF Gained, Given, Adding, Freeing
  <2>2. /\ SumOf(SizesOf(mem_list))' = SumOf(SizesOf(mem_list)) + 0
        /\ Gained[t] \in Nat /\ Given[t] \in Nat /\ alloc_bytes \in Int /\ free_bytes \in Int
    <3>1. SumOf(SizesOf(mem_list)) \in Nat
      BY <1>2, EntryType DEF AllocTypes
    <3>2. SumOf(SizesOf(mem_list))' = SumOf(SizesOf(mem_list))
      BY <1>1
    <3>3. QED
      BY <1>2, <3>1, <3>2, BytesType DEF AllocTypes
  <2>3. (alloc_bytes' - alloc_bytes) + (Gained'[t] - Gained[t])
          = (free_bytes' - free_bytes) + (Given'[t] - Given[t]) + 0
    BY <1>1, <2>1, <2>2
  <2>4. QED
    BY <1>1, <1>2, <1>5, <1>6, <2>2, <2>3, BytesStep
<1>10. QED
  BY <1>6, <1>7, <1>8, <1>9 DEF AllocInv

\* The bytes are added, and the block is the program's.
LEMMA AddBytesKeeps ==
  ASSUME M!MallocAssumption, AllocInv, NEW t \in Thread, M!AddBytes(t)
  PROVE  AllocInv'
<1> DEFINE b == call[t].block
           n == call[t].bytes
           c == M!Idle
<1>1. /\ call[t].op = "add_bytes" /\ call' = [call EXCEPT ![t] = c]
      /\ alloc_bytes' = alloc_bytes + n /\ owned' = owned \cup {b}
      /\ UNCHANGED <<mem_list, nalloc, nfree, free_bytes, refused>>
  BY DEF M!AddBytes, M!Returns
<1>2. AllocTypes /\ OneOwner /\ CallsAgree /\ BytesAgree
  BY DEF AllocInv
<1>3. b \in Block /\ n \in Int
  BY <1>1, <1>2 DEF AllocTypes, Calls, HoldingABlock, Adding
<1>4. c \in Calls /\ c.op = "idle" /\ c.bytes = 0 /\ c = M!Idle
  BY DEF Calls, M!Idle
<1> HIDE DEF c
<1>5. /\ call' \in [Thread -> Calls] /\ call'[t] = c
      /\ \A u \in Thread \ {t} : call'[u] = call[u]
      /\ \A ops : /\ c.op \in ops => CallsIn(ops)' = CallsIn(ops) \cup {t}
                  /\ c.op \notin ops => CallsIn(ops)' = CallsIn(ops) \ {t}
  BY <1>1, <1>2, <1>4, GetsOn
<1>6. AllocTypes'
  BY <1>1, <1>2, <1>3, <1>4, <1>5 DEF AllocTypes, HoldingABlock, Adding
<1>7. OneOwner'
  <2>1. "idle" \notin Adding /\ "idle" \notin HoldingABlock
    BY DEF Adding, HoldingABlock
  <2>2. CallsIn(Adding)' = CallsIn(Adding) \ {t} /\ CallsIn(HoldingABlock)' = CallsIn(HoldingABlock) \ {t}
    BY <1>4, <1>5, <2>1
  <2>3. CallsIn({"set_block"})' = CallsIn({"set_block"})
    BY <1>1, <1>4, <1>5 DEF CallsIn
  <2>4. t \in CallsIn(Adding) /\ t \in CallsIn(HoldingABlock) /\ CallsIn(Adding) \subseteq CallsIn(HoldingABlock)
    BY <1>1 DEF CallsIn, Adding, HoldingABlock
  <2>5. \A u \in CallsIn(HoldingABlock) \ {t} : call'[u].block = call[u].block /\ call[u].block # b
    <3>1. \A u \in CallsIn(HoldingABlock) : u \in Thread
      BY DEF CallsIn
    <3>2. QED
      BY <1>2, <1>5, <2>4, <3>1 DEF OneOwner
  <2>6. {call[u].block : u \in CallsIn(Adding)} = {call'[u].block : u \in CallsIn(Adding) \ {t}} \cup {b}
    BY <2>4, <2>5
  <2>7. Blocks(mem_list)' = owned' \cup {call'[u].block : u \in CallsIn(Adding)'}
    <3>1. Blocks(mem_list)' = Blocks(mem_list)
      BY <1>1
    <3>2. QED
      BY <1>1, <1>2, <2>2, <2>6, <3>1 DEF OneOwner
  <2>8. \A u \in CallsIn(Adding)' : call'[u].block \notin owned'
    BY <1>1, <1>2, <2>2, <2>4, <2>5 DEF OneOwner
  <2>9. \A u \in CallsIn({"set_block"})' : call'[u].block \notin Blocks(mem_list)'
    <3>1. \A u \in CallsIn({"set_block"}) : call'[u] = call[u]
      BY <1>1, <1>5 DEF CallsIn
    <3>2. Blocks(mem_list)' = Blocks(mem_list)
      BY <1>1
    <3>3. QED
      BY <1>2, <2>3, <3>1, <3>2 DEF OneOwner
  <2>10. \A u, w \in CallsIn(HoldingABlock)' : call'[u].block = call'[w].block => u = w
    BY <1>2, <2>2, <2>5 DEF OneOwner
  <2>11. Once(mem_list)'
    <3>1. Once(mem_list)' = Once(mem_list)
      BY <1>1
    <3>2. QED
      BY <1>2, <3>1 DEF OneOwner
  <2>12. QED
    BY <2>7, <2>8, <2>9, <2>10, <2>11 DEF OneOwner
<1>8. CallsAgree'
  <2>1. /\ Cardinality(CallsIn({"inc_nalloc"}))' = Cardinality(CallsIn({"inc_nalloc"}))
        /\ Cardinality(CallsIn({"inc_nfree"}))' = Cardinality(CallsIn({"inc_nfree"}))
    BY <1>1, <1>2, <1>4, CountsGo
  <2>2. Len(mem_list)' = Len(mem_list)
    BY <1>1
  <2>3. QED
    BY <1>1, <1>2, <2>1, <2>2 DEF CallsAgree
<1>9. BytesAgree'
  <2>1. /\ Gained[t] = (IF n > 0 THEN n ELSE 0) /\ Gained'[t] = 0
        /\ Given[t] = (IF n < 0 THEN 0 - n ELSE 0) /\ Given'[t] = 0
    BY <1>1, <1>4, <1>5 DEF Gained, Given, Adding, Freeing
  <2>2. /\ SumOf(SizesOf(mem_list))' = SumOf(SizesOf(mem_list)) + 0
        /\ alloc_bytes \in Int /\ free_bytes \in Int
    <3>1. SumOf(SizesOf(mem_list)) \in Nat
      BY <1>2, EntryType DEF AllocTypes
    <3>2. SumOf(SizesOf(mem_list))' = SumOf(SizesOf(mem_list))
      BY <1>1
    <3>3. QED
      BY <1>2, <3>1, <3>2 DEF AllocTypes
  <2> HIDE DEF n
  <2>3. (alloc_bytes' - alloc_bytes) + (Gained'[t] - Gained[t])
          = (free_bytes' - free_bytes) + (Given'[t] - Given[t]) + 0
    BY <1>1, <1>3, <2>1, <2>2
  <2>4. QED
    BY <1>1, <1>2, <1>5, <1>6, <2>2, <2>3, BytesStep
<1>10. QED
  BY <1>6, <1>7, <1>8, <1>9 DEF AllocInv

\* The free block is counted.
LEMMA IncNfreeKeeps ==
  ASSUME M!MallocAssumption, AllocInv, NEW t \in Thread, M!IncNfree(t)
  PROVE  AllocInv'
<1> DEFINE c == [op |-> "add_free_bytes", block |-> NoBlock, bytes |-> call[t].bytes]
<1>1. /\ call[t].op = "inc_nfree" /\ call' = [call EXCEPT ![t] = c] /\ nfree' = nfree + 1
      /\ UNCHANGED <<mem_list, nalloc, alloc_bytes, free_bytes, owned, refused>>
  BY DEF M!IncNfree, M!Goes
<1>2. AllocTypes /\ OneOwner /\ CallsAgree /\ BytesAgree
  BY DEF AllocInv
<1>3. call[t].bytes \in Nat
  BY <1>1, <1>2 DEF AllocTypes
<1>4. c \in Calls /\ c.op = "add_free_bytes" /\ c.bytes = call[t].bytes
  BY <1>3 DEF Calls, Freeing
<1> HIDE DEF c
<1>5. /\ call' \in [Thread -> Calls] /\ call'[t] = c
      /\ \A u \in Thread \ {t} : call'[u] = call[u]
  BY <1>1, <1>2, <1>4, GetsOn
<1>6. AllocTypes'
  BY <1>1, <1>2, <1>3, <1>4, <1>5 DEF AllocTypes, HoldingABlock, Adding
<1>7. OneOwner'
  BY <1>1, <1>2, <1>4, OwnersStay DEF HoldingABlock, Adding
<1>8. CallsAgree'
  <2>1. /\ Cardinality(CallsIn({"inc_nalloc"})) \in Nat /\ Cardinality(CallsIn({"inc_nfree"})) \in Nat
        /\ Cardinality(CallsIn({"inc_nalloc"}))' = Cardinality(CallsIn({"inc_nalloc"}))
        /\ Cardinality(CallsIn({"inc_nfree"}))' = Cardinality(CallsIn({"inc_nfree"})) - 1
    BY <1>1, <1>2, <1>4, CountsGo
  <2>2. nalloc \in Nat /\ nfree \in Nat /\ Len(mem_list) \in Nat
    BY <1>2 DEF AllocTypes, AllocLists
  <2>3. Len(mem_list)' = Len(mem_list)
    BY <1>1
  <2>4. QED
    BY <1>1, <1>2, <2>1, <2>2, <2>3 DEF CallsAgree
<1>9. BytesAgree'
  <2>1. Gained'[t] = Gained[t] /\ Given'[t] = Given[t]
    BY <1>1, <1>4, <1>5 DEF Gained, Given, Adding, Freeing
  <2>2. /\ SumOf(SizesOf(mem_list))' = SumOf(SizesOf(mem_list)) + 0
        /\ Gained[t] \in Nat /\ Given[t] \in Nat /\ alloc_bytes \in Int /\ free_bytes \in Int
    <3>1. SumOf(SizesOf(mem_list)) \in Nat
      BY <1>2, EntryType DEF AllocTypes
    <3>2. SumOf(SizesOf(mem_list))' = SumOf(SizesOf(mem_list))
      BY <1>1
    <3>3. QED
      BY <1>2, <3>1, <3>2, BytesType DEF AllocTypes
  <2>3. (alloc_bytes' - alloc_bytes) + (Gained'[t] - Gained[t])
          = (free_bytes' - free_bytes) + (Given'[t] - Given[t]) + 0
    BY <1>1, <2>1, <2>2
  <2>4. QED
    BY <1>1, <1>2, <1>5, <1>6, <2>2, <2>3, BytesStep
<1>10. QED
  BY <1>6, <1>7, <1>8, <1>9 DEF AllocInv

\* And its bytes.
LEMMA AddFreeBytesKeeps ==
  ASSUME M!MallocAssumption, AllocInv, NEW t \in Thread, M!AddFreeBytes(t)
  PROVE  AllocInv'
<1> DEFINE n == call[t].bytes
           c == M!Idle
<1>1. /\ call[t].op = "add_free_bytes" /\ call' = [call EXCEPT ![t] = c] /\ free_bytes' = free_bytes + n
      /\ UNCHANGED <<mem_list, nalloc, nfree, alloc_bytes, owned, refused>>
  BY DEF M!AddFreeBytes, M!Returns
<1>2. AllocTypes /\ OneOwner /\ CallsAgree /\ BytesAgree
  BY DEF AllocInv
<1>3. n \in Int
  BY <1>2 DEF AllocTypes, Calls
<1>4. c \in Calls /\ c.op = "idle" /\ c.bytes = 0 /\ c = M!Idle
  BY DEF Calls, M!Idle
<1> HIDE DEF c
<1>5. /\ call' \in [Thread -> Calls] /\ call'[t] = c
      /\ \A u \in Thread \ {t} : call'[u] = call[u]
  BY <1>1, <1>2, <1>4, GetsOn
<1>6. AllocTypes'
  BY <1>1, <1>2, <1>3, <1>4, <1>5 DEF AllocTypes, HoldingABlock, Adding
<1>7. OneOwner'
  BY <1>1, <1>2, <1>4, OwnersStay DEF HoldingABlock, Adding
<1>8. CallsAgree'
  <2>1. /\ Cardinality(CallsIn({"inc_nalloc"}))' = Cardinality(CallsIn({"inc_nalloc"}))
        /\ Cardinality(CallsIn({"inc_nfree"}))' = Cardinality(CallsIn({"inc_nfree"}))
    BY <1>1, <1>2, <1>4, CountsGo
  <2>2. Len(mem_list)' = Len(mem_list)
    BY <1>1
  <2>3. QED
    BY <1>1, <1>2, <2>1, <2>2 DEF CallsAgree
<1>9. BytesAgree'
  <2>1. Gained[t] = 0 /\ Gained'[t] = 0 /\ Given[t] = n /\ Given'[t] = 0
    BY <1>1, <1>4, <1>5 DEF Gained, Given, Adding, Freeing
  <2>2. /\ SumOf(SizesOf(mem_list))' = SumOf(SizesOf(mem_list)) + 0
        /\ alloc_bytes \in Int /\ free_bytes \in Int
    <3>1. SumOf(SizesOf(mem_list)) \in Nat
      BY <1>2, EntryType DEF AllocTypes
    <3>2. SumOf(SizesOf(mem_list))' = SumOf(SizesOf(mem_list))
      BY <1>1
    <3>3. QED
      BY <1>2, <3>1, <3>2 DEF AllocTypes
  <2> HIDE DEF n
  <2>3. (alloc_bytes' - alloc_bytes) + (Gained'[t] - Gained[t])
          = (free_bytes' - free_bytes) + (Given'[t] - Given[t]) + 0
    BY <1>1, <1>3, <2>1, <2>2
  <2>4. QED
    BY <1>1, <1>2, <1>5, <1>6, <2>2, <2>3, BytesStep
<1>10. QED
  BY <1>6, <1>7, <1>8, <1>9 DEF AllocInv

\* A block of the program's has one place in the list.
LEMMA EntryOf ==
  ASSUME AllocTypes, OneOwner, NEW b \in owned
  PROVE  /\ M!Entry(b) \in 1 .. Len(mem_list) /\ mem_list[M!Entry(b)].block = b
         /\ mem_list[M!Entry(b)].size \in Nat
         /\ b \in Block /\ b \in Blocks(mem_list)
<1>1. b \in Block /\ b \in Blocks(mem_list)
  BY DEF AllocTypes, OneOwner
<1>2. \E k \in DOMAIN mem_list : mem_list[k].block = b
  BY <1>1 DEF Blocks
<1>3. M!Entry(b) \in DOMAIN mem_list /\ mem_list[M!Entry(b)].block = b
  BY <1>2 DEF M!Entry
<1>4. /\ DOMAIN mem_list = 1 .. Len(mem_list)
      /\ \A k \in 1 .. Len(mem_list) : mem_list[k].size \in Nat
  BY EntryType DEF AllocTypes
<1>5. QED
  BY <1>1, <1>3, <1>4

\* A block is taken from the program: its call will give it back, under another
\* address perhaps.
LEMMA TakenFrom ==
  ASSUME AllocTypes, OneOwner, NEW t \in Thread, NEW c \in Calls, call' = [call EXCEPT ![t] = c],
         call[t].op = "idle", c.op = "add_bytes", NEW b \in owned, owned' = owned \ {b},
         c.block \in {b} \cup (Block \ M!InUse), Once(mem_list)',
         Blocks(mem_list)' = (Blocks(mem_list) \ {b}) \cup {c.block}
  PROVE  OneOwner'
<1>1. /\ call' \in [Thread -> Calls] /\ call'[t] = c
      /\ \A u \in Thread \ {t} : call'[u] = call[u]
      /\ \A ops : /\ c.op \in ops => CallsIn(ops)' = CallsIn(ops) \cup {t}
                  /\ c.op \notin ops => CallsIn(ops)' = CallsIn(ops) \ {t}
  BY GetsOn
<1>2. "add_bytes" \in Adding /\ "add_bytes" \in HoldingABlock /\ "idle" \notin Adding /\ "idle" \notin HoldingABlock
  BY DEF Adding, HoldingABlock
<1>3. /\ CallsIn(Adding)' = CallsIn(Adding) \cup {t}
      /\ CallsIn(HoldingABlock)' = CallsIn(HoldingABlock) \cup {t}
  BY <1>1, <1>2
<1>4. CallsIn({"set_block"})' = CallsIn({"set_block"})
  BY <1>1 DEF CallsIn
<1>5. /\ CallsIn(Adding) \subseteq CallsIn(HoldingABlock) /\ CallsIn({"set_block"}) \subseteq CallsIn(HoldingABlock)
      /\ \A u \in CallsIn(HoldingABlock) : u \in CallsIn(Adding) \/ u \in CallsIn({"set_block"})
      /\ t \notin CallsIn(HoldingABlock)
  BY <1>2 DEF CallsIn, HoldingABlock
<1>6. \A u \in CallsIn(HoldingABlock) : call'[u] = call[u]
  BY <1>1, <1>5 DEF CallsIn
<1>7. \A u \in CallsIn(Adding) : call[u].block \in Blocks(mem_list) /\ call[u].block # b
  BY DEF OneOwner
<1>8. \A u \in CallsIn({"set_block"}) : call[u].block \notin Blocks(mem_list) /\ call[u].block # b
  BY DEF OneOwner
<1>9. c.block = b \/ (c.block \notin Blocks(mem_list) /\ \A u \in CallsIn({"set_block"}) : call[u].block # c.block)
  BY DEF M!InUse, M!Listed, Blocks, CallsIn
<1>10. \A u \in CallsIn(HoldingABlock) : call[u].block # c.block
  BY <1>5, <1>7, <1>8, <1>9
<1>11. {call'[u].block : u \in CallsIn(Adding) \cup {t}} = {call[u].block : u \in CallsIn(Adding)} \cup {c.block}
  BY <1>1, <1>5, <1>6
<1>12. Blocks(mem_list)' = owned' \cup {call'[u].block : u \in CallsIn(Adding)'}
  <2>1. Blocks(mem_list) = owned \cup {call[u].block : u \in CallsIn(Adding)}
    BY DEF OneOwner
  <2>2. b \notin {call[u].block : u \in CallsIn(Adding)}
    BY <1>7
  <2>3. QED
    BY <1>3, <1>11, <2>1, <2>2
<1>13. \A u \in CallsIn(Adding)' : call'[u].block \notin owned'
  <2>1. c.block \notin owned'
    BY <1>9 DEF OneOwner
  <2>2. \A u \in CallsIn(Adding) : call'[u].block \notin owned'
    BY <1>5, <1>6 DEF OneOwner
  <2>3. QED
    BY <1>1, <1>3, <2>1, <2>2
<1>14. \A u \in CallsIn({"set_block"})' : call'[u].block \notin Blocks(mem_list)'
  BY <1>4, <1>5, <1>6, <1>8, <1>10
<1>15. \A u, w \in CallsIn(HoldingABlock)' : call'[u].block = call'[w].block => u = w
  <2>1. \A u, w \in CallsIn(HoldingABlock) : call'[u].block = call'[w].block => u = w
    BY <1>6 DEF OneOwner
  <2>2. \A u \in CallsIn(HoldingABlock) : call'[u].block # call'[t].block
    BY <1>1, <1>6, <1>10
  <2>3. QED
    BY <1>3, <2>1, <2>2
<1>16. QED
  BY <1>12, <1>13, <1>14, <1>15 DEF OneOwner

\* __cra_realloc_dbg, when the block is resized.
LEMMA ReallocDone ==
  ASSUME M!MallocAssumption, AllocInv, NEW t \in Thread, call[t].op = "idle",
         NEW b \in owned, NEW n \in Sizes, NEW d \in {b} \cup (Block \ M!InUse), NEW p, p = M!Entry(b),
         NEW c, c = [op |-> "add_bytes", block |-> d, bytes |-> n - mem_list[p].size],
         mem_list' = [mem_list EXCEPT ![p] = [block |-> d, size |-> n]],
         call' = [call EXCEPT ![t] = c], owned' = owned \ {b},
         UNCHANGED <<nalloc, nfree, alloc_bytes, free_bytes, refused>>
  PROVE  AllocInv'
<1>1. AllocTypes /\ OneOwner /\ CallsAgree /\ BytesAgree
  BY DEF AllocInv
<1>2. /\ p \in 1 .. Len(mem_list) /\ mem_list[p].block = b /\ mem_list[p].size \in Nat
      /\ b \in Block /\ b \in Blocks(mem_list) /\ n \in Nat
  BY <1>1, EntryOf DEF M!MallocAssumption
<1>3. d \in Block /\ d \notin Blocks(mem_list) \ {b}
  BY <1>2 DEF M!InUse, M!Listed, Blocks
<1>4. c \in Calls /\ c.op = "add_bytes" /\ c.block = d /\ c.bytes = n - mem_list[p].size /\ c.bytes \in Int
  BY <1>2, <1>3 DEF Calls, HoldingABlock, Adding
<1>5. /\ mem_list' \in AllocLists /\ Len(mem_list') = Len(mem_list)
      /\ Once(mem_list') /\ Blocks(mem_list') = (Blocks(mem_list) \ {b}) \cup {d}
      /\ SumOf(SizesOf(mem_list')) + mem_list[p].size = n + SumOf(SizesOf(mem_list))
  <2> DEFINE s == mem_list
             r == mem_list'
             e == [block |-> d, size |-> n]
  <2>1. s \in AllocLists /\ Once(s) /\ p \in 1 .. Len(s) /\ s[p].block = b
    BY <1>1, <1>2 DEF AllocTypes, OneOwner
  <2>2. e \in Entries /\ e.block = d /\ e.size = n
    BY <1>2, <1>3 DEF Entries
  <2>3. r = [s EXCEPT ![p] = e]
    OBVIOUS
  <2> HIDE DEF s, r, e
  <2>4. r \in AllocLists /\ Len(r) = Len(s) /\ r[p] = e /\ \A k \in 1 .. Len(s) : k # p => r[k] = s[k]
    BY <2>1, <2>2, <2>3 DEF AllocLists
  <2>5. r[p].block \notin Blocks(s) \ {s[p].block}
    BY <1>3, <2>1, <2>2, <2>4 DEF s
  <2>6. /\ Once(r) /\ Blocks(r) = (Blocks(s) \ {s[p].block}) \cup {r[p].block}
        /\ SumOf(SizesOf(r)) + s[p].size = SumOf(SizesOf(s)) + r[p].size
    BY <2>1, <2>4, <2>5, Replaced
  <2>7. SumOf(SizesOf(s)) \in Nat
    BY <2>1, EntryType
  <2>8. SumOf(SizesOf(r)) + s[p].size = n + SumOf(SizesOf(s))
    BY <1>2, <2>2, <2>4, <2>6, <2>7
  <2>9. Blocks(r) = (Blocks(s) \ {b}) \cup {d}
    BY <2>1, <2>2, <2>4, <2>6
  <2>10. QED
    BY <2>4, <2>6, <2>8, <2>9 DEF s, r
<1>6. /\ call' \in [Thread -> Calls] /\ call'[t] = c
      /\ \A u \in Thread \ {t} : call'[u] = call[u]
  BY <1>1, <1>4, GetsOn
<1>7. AllocTypes'
  BY <1>1, <1>3, <1>4, <1>5, <1>6 DEF AllocTypes
<1>8. OneOwner'
  <2>1. Once(mem_list)' /\ Blocks(mem_list)' = (Blocks(mem_list) \ {b}) \cup {c.block}
    BY <1>4, <1>5
  <2>2. QED
    BY <1>1, <1>4, <2>1, TakenFrom
<1>9. CallsAgree'
  <2>1. /\ Cardinality(CallsIn({"inc_nalloc"}))' = Cardinality(CallsIn({"inc_nalloc"}))
        /\ Cardinality(CallsIn({"inc_nfree"}))' = Cardinality(CallsIn({"inc_nfree"}))
    BY <1>1, <1>4, CountsGo
  <2>2. Len(mem_list)' = Len(mem_list)
    BY <1>5
  <2>3. QED
    BY <1>1, <2>1, <2>2 DEF CallsAgree
<1>10. BytesAgree'
  <2> DEFINE m == n - mem_list[p].size
  <2>1. m \in Int /\ c.bytes = m
    BY <1>2, <1>4
  <2>2. SumOf(SizesOf(mem_list))' = SumOf(SizesOf(mem_list)) + m
    <3> DEFINE x == SumOf(SizesOf(mem_list))
               y == SumOf(SizesOf(mem_list'))
               z == mem_list[p].size
    <3>1. x \in Nat /\ y \in Nat /\ z \in Nat /\ y + z = n + x
      BY <1>1, <1>2, <1>5, EntryType DEF AllocTypes
    <3> HIDE DEF x, y, z
    <3>2. y = x + (n - z)
      BY <1>2, <3>1
    <3>3. QED
      BY <3>2 DEF x, y, z
  <2> HIDE DEF m
  <2>3. /\ Gained[t] = 0 /\ Gained'[t] = (IF m > 0 THEN m ELSE 0)
        /\ Given[t] = 0 /\ Given'[t] = (IF m < 0 THEN 0 - m ELSE 0)
    BY <1>4, <1>6, <2>1 DEF Gained, Given, Adding, Freeing
  <2>4. alloc_bytes \in Int /\ free_bytes \in Int
    BY <1>1 DEF AllocTypes
  <2>5. (alloc_bytes' - alloc_bytes) + (Gained'[t] - Gained[t])
          = (free_bytes' - free_bytes) + (Given'[t] - Given[t]) + m
    BY <2>1, <2>3, <2>4
  <2>6. QED
    BY <1>1, <1>6, <1>7, <2>1, <2>2, <2>5, BytesStep
<1>11. QED
  BY <1>7, <1>8, <1>9, <1>10 DEF AllocInv

\* __cra_realloc_dbg, when it fails: the bytes are off from here on.
LEMMA ReallocRefused ==
  ASSUME M!MallocAssumption, AllocInv, NEW t \in Thread, call[t].op = "idle",
         NEW b \in owned, NEW m \in Int,
         NEW c, c = [op |-> "add_bytes", block |-> b, bytes |-> m],
         call' = [call EXCEPT ![t] = c], owned' = owned \ {b}, refused' = TRUE,
         UNCHANGED <<mem_list, nalloc, nfree, alloc_bytes, free_bytes>>
  PROVE  AllocInv'
<1>1. AllocTypes /\ OneOwner /\ CallsAgree /\ BytesAgree
  BY DEF AllocInv
<1>2. b \in Block /\ b \in Blocks(mem_list)
  BY <1>1, EntryOf
<1>3. c \in Calls /\ c.op = "add_bytes" /\ c.block = b /\ c.bytes = m
  BY <1>2 DEF Calls, HoldingABlock, Adding
<1>4. /\ call' \in [Thread -> Calls] /\ call'[t] = c
      /\ \A u \in Thread \ {t} : call'[u] = call[u]
  BY <1>1, <1>3, GetsOn
<1>5. AllocTypes'
  BY <1>1, <1>2, <1>3, <1>4 DEF AllocTypes
<1>6. OneOwner'
  <2>1. Once(mem_list)' = Once(mem_list) /\ Blocks(mem_list)' = Blocks(mem_list)
    OBVIOUS
  <2>2. Once(mem_list)' /\ Blocks(mem_list)' = (Blocks(mem_list) \ {b}) \cup {c.block}
    BY <1>1, <1>2, <1>3, <2>1 DEF OneOwner
  <2>3. QED
    BY <1>1, <1>3, <2>2, TakenFrom
<1>7. CallsAgree'
  <2>1. /\ Cardinality(CallsIn({"inc_nalloc"}))' = Cardinality(CallsIn({"inc_nalloc"}))
        /\ Cardinality(CallsIn({"inc_nfree"}))' = Cardinality(CallsIn({"inc_nfree"}))
    BY <1>1, <1>3, CountsGo
  <2>2. Len(mem_list)' = Len(mem_list)
    OBVIOUS
  <2>3. QED
    BY <1>1, <2>1, <2>2 DEF CallsAgree
<1>8. BytesAgree'
  BY DEF BytesAgree
<1>9. QED
  BY <1>5, <1>6, <1>7, <1>8 DEF AllocInv

\* Either way.
LEMMA ReallocKeeps ==
  ASSUME M!MallocAssumption, AllocInv, NEW t \in Thread, M!Realloc(t)
  PROVE  AllocInv'
<1>1. PICK b \in owned, n \in Sizes :
        \/ \E d \in {b} \cup (Block \ M!InUse) :
             /\ mem_list' = M!Resized(mem_list, M!Entry(b), d, n)
             /\ M!Goes(t, "add_bytes", d, n - mem_list[M!Entry(b)].size)
             /\ owned' = owned \ {b} /\ UNCHANGED refused
        \/ /\ refused' = TRUE
           /\ M!Goes(t, "add_bytes", b, n - mem_list[M!Entry(b)].size)
           /\ owned' = owned \ {b} /\ UNCHANGED mem_list
  BY DEF M!Realloc
<1>2. call[t].op = "idle" /\ UNCHANGED <<nalloc, nfree, alloc_bytes, free_bytes>>
  BY DEF M!Realloc, M!countVars
<1>3. CASE \E d \in {b} \cup (Block \ M!InUse) :
             /\ mem_list' = M!Resized(mem_list, M!Entry(b), d, n)
             /\ M!Goes(t, "add_bytes", d, n - mem_list[M!Entry(b)].size)
             /\ owned' = owned \ {b} /\ UNCHANGED refused
  <2>1. PICK d \in {b} \cup (Block \ M!InUse) :
             /\ mem_list' = M!Resized(mem_list, M!Entry(b), d, n)
             /\ M!Goes(t, "add_bytes", d, n - mem_list[M!Entry(b)].size)
             /\ owned' = owned \ {b} /\ UNCHANGED refused
    BY <1>3
  <2> DEFINE p == M!Entry(b)
             c == [op |-> "add_bytes", block |-> d, bytes |-> n - mem_list[p].size]
  <2>2. /\ p = M!Entry(b) /\ c = [op |-> "add_bytes", block |-> d, bytes |-> n - mem_list[p].size]
        /\ mem_list' = [mem_list EXCEPT ![p] = [block |-> d, size |-> n]]
        /\ call' = [call EXCEPT ![t] = c]
        /\ owned' = owned \ {b} /\ UNCHANGED refused
    BY <2>1 DEF M!Resized, M!Goes
  <2> HIDE DEF p, c
  <2>3. QED
    BY <1>2, <2>2, ReallocDone
<1>4. CASE /\ refused' = TRUE
           /\ M!Goes(t, "add_bytes", b, n - mem_list[M!Entry(b)].size)
           /\ owned' = owned \ {b} /\ UNCHANGED mem_list
  <2> DEFINE m == n - mem_list[M!Entry(b)].size
             c == [op |-> "add_bytes", block |-> b, bytes |-> m]
  <2>1. m \in Int
    <3>1. n \in Nat
      BY DEF M!MallocAssumption
    <3>2. mem_list[M!Entry(b)].size \in Nat
      BY EntryOf DEF AllocInv
    <3>3. QED
      BY <3>1, <3>2
  <2>2. /\ c = [op |-> "add_bytes", block |-> b, bytes |-> m] /\ call' = [call EXCEPT ![t] = c]
        /\ owned' = owned \ {b} /\ refused' = TRUE /\ UNCHANGED mem_list
    BY <1>4 DEF M!Goes
  <2> HIDE DEF m, c
  <2>3. QED
    BY <1>2, <2>1, <2>2, ReallocRefused
<1>5. QED
  BY <1>1, <1>3, <1>4

\* __cra_free_dbg takes the block off the list.
LEMMA FreeKeeps ==
  ASSUME M!MallocAssumption, AllocInv, NEW t \in Thread, M!Free(t)
  PROVE  AllocInv'
<1>1. PICK b \in owned :
        /\ M!Goes(t, "inc_nfree", NoBlock, mem_list[M!Entry(b)].size)
        /\ mem_list' = M!RemoveAt(mem_list, M!Entry(b))
        /\ owned' = owned \ {b}
  BY DEF M!Free
<1> DEFINE p == M!Entry(b)
           n == mem_list[p].size
           c == [op |-> "inc_nfree", block |-> NoBlock, bytes |-> n]
<1>2. AllocTypes /\ OneOwner /\ CallsAgree /\ BytesAgree
  BY DEF AllocInv
<1>3. /\ p \in 1 .. Len(mem_list) /\ mem_list[p].block = b /\ n \in Nat
      /\ b \in Block /\ b \in Blocks(mem_list)
  BY <1>2, EntryOf
<1>4. /\ call[t].op = "idle" /\ call' = [call EXCEPT ![t] = c]
      /\ mem_list' = Without(mem_list, p)
      /\ owned' = owned \ {b}
      /\ UNCHANGED <<nalloc, nfree, alloc_bytes, free_bytes, refused>>
  BY <1>1 DEF M!Free, M!Goes, M!RemoveAt, Without, M!countVars
<1>5. c \in Calls /\ c.op = "inc_nfree" /\ c.bytes = n
  BY <1>3 DEF Calls, Freeing
<1> HIDE DEF p, c
<1>6. /\ mem_list' \in AllocLists /\ Len(mem_list') = Len(mem_list) - 1
      /\ Once(mem_list') /\ Blocks(mem_list') = Blocks(mem_list) \ {b}
      /\ SumOf(SizesOf(mem_list')) + n = SumOf(SizesOf(mem_list))
  <2> DEFINE s == mem_list
             r == mem_list'
  <2>1. s \in AllocLists /\ Once(s) /\ p \in 1 .. Len(s)
    BY <1>2, <1>3 DEF AllocTypes, OneOwner
  <2>2. r = Without(s, p)
    BY <1>4
  <2> HIDE DEF s, r
  <2>3. /\ r \in AllocLists /\ Len(r) = Len(s) - 1
        /\ Once(r) /\ Blocks(r) = Blocks(s) \ {s[p].block}
    BY <2>1, <2>2, Removed
  <2>4. SumOf(SizesOf(r)) + s[p].size = SumOf(SizesOf(s))
    BY <2>1, <2>2, Removed
  <2>5. QED
    BY <1>3, <2>3, <2>4 DEF s, r
<1> HIDE DEF n
<1>7. /\ call' \in [Thread -> Calls] /\ call'[t] = c
      /\ \A u \in Thread \ {t} : call'[u] = call[u]
  BY <1>2, <1>4, <1>5, GetsOn
<1>8. AllocTypes'
  BY <1>2, <1>3, <1>4, <1>5, <1>6, <1>7 DEF AllocTypes, HoldingABlock, Adding
<1>9. OneOwner'
  <2>1. \A u \in Thread : \A ops \in {Adding, HoldingABlock, {"set_block"}} : call'[u].op \in ops <=> call[u].op \in ops
    BY <1>4, <1>5, <1>7 DEF Adding, HoldingABlock
  <2>2. /\ CallsIn(Adding)' = CallsIn(Adding) /\ CallsIn({"set_block"})' = CallsIn({"set_block"})
        /\ CallsIn(HoldingABlock)' = CallsIn(HoldingABlock)
    BY <2>1 DEF CallsIn
  <2>3. \A u \in CallsIn(HoldingABlock) : call'[u].block = call[u].block
    BY <1>4, <1>7 DEF CallsIn, HoldingABlock, Adding
  <2>4. \A u \in CallsIn({"set_block"}) \cup CallsIn(Adding) : u \in CallsIn(HoldingABlock)
    BY DEF CallsIn, HoldingABlock
  <2>5. {call[u].block : u \in CallsIn(Adding)} = {call'[u].block : u \in CallsIn(Adding)}
    BY <2>3, <2>4
  <2>6. b \notin {call[u].block : u \in CallsIn(Adding)}
    BY <1>2 DEF OneOwner
  <2>7. Blocks(mem_list)' = owned' \cup {call'[u].block : u \in CallsIn(Adding)'}
    BY <1>2, <1>4, <1>6, <2>2, <2>5, <2>6 DEF OneOwner
  <2>8. \A u \in CallsIn(Adding)' : call'[u].block \notin owned'
    BY <1>2, <1>4, <2>2, <2>3, <2>4 DEF OneOwner
  <2>9. \A u \in CallsIn({"set_block"})' : call'[u].block \notin Blocks(mem_list)'
    BY <1>2, <1>6, <2>2, <2>3, <2>4 DEF OneOwner
  <2>10. \A u, w \in CallsIn(HoldingABlock)' : call'[u].block = call'[w].block => u = w
    BY <1>2, <2>2, <2>3 DEF OneOwner
  <2>11. Once(mem_list)'
    BY <1>6
  <2>12. QED
    BY <2>7, <2>8, <2>9, <2>10, <2>11 DEF OneOwner
<1>10. CallsAgree'
  <2>1. /\ Cardinality(CallsIn({"inc_nalloc"})) \in Nat /\ Cardinality(CallsIn({"inc_nfree"})) \in Nat
        /\ Cardinality(CallsIn({"inc_nalloc"}))' = Cardinality(CallsIn({"inc_nalloc"}))
        /\ Cardinality(CallsIn({"inc_nfree"}))' = Cardinality(CallsIn({"inc_nfree"})) + 1
    BY <1>2, <1>4, <1>5, CountsGo
  <2>2. nalloc \in Nat /\ nfree \in Nat /\ Len(mem_list) \in Nat
    BY <1>2 DEF AllocTypes, AllocLists
  <2>3. Len(mem_list)' = Len(mem_list) - 1
    BY <1>6
  <2>4. nalloc + Cardinality(CallsIn({"inc_nalloc"}))
          = nfree + Cardinality(CallsIn({"inc_nfree"})) + Len(mem_list)
    BY <1>2 DEF CallsAgree
  <2>5. nalloc + Cardinality(CallsIn({"inc_nalloc"}))
          = nfree + (Cardinality(CallsIn({"inc_nfree"})) + 1) + (Len(mem_list) - 1)
    BY <2>1, <2>2, <2>4
  <2>6. QED
    BY <1>4, <2>1, <2>3, <2>5, Zenon DEF CallsAgree
<1>11. BytesAgree'
  <2>1. Gained[t] = 0 /\ Gained'[t] = 0 /\ Given[t] = 0 /\ Given'[t] = n
    BY <1>4, <1>5, <1>7 DEF Gained, Given, Adding, Freeing
  <2> DEFINE x == SumOf(SizesOf(mem_list))
             y == SumOf(SizesOf(mem_list'))
  <2>2. x \in Nat /\ y \in Nat /\ y + n = x
    BY <1>2, <1>6, EntryType DEF AllocTypes
  <2>3. SumOf(SizesOf(mem_list))' = y
    OBVIOUS
  <2> HIDE DEF x, y
  <2>4. y = x + (0 - n) /\ 0 - n \in Int
    BY <1>3, <2>2
  <2>5. alloc_bytes \in Int /\ free_bytes \in Int
    BY <1>2 DEF AllocTypes
  <2>6. (alloc_bytes' - alloc_bytes) + (Gained'[t] - Gained[t])
          = (free_bytes' - free_bytes) + (Given'[t] - Given[t]) + (0 - n)
    BY <1>3, <1>4, <2>1, <2>5
  <2>7. SumOf(SizesOf(mem_list))' = SumOf(SizesOf(mem_list)) + (0 - n)
    BY <2>3, <2>4 DEF x
  <2> DEFINE m == 0 - n
  <2> HIDE DEF m
  <2>8. /\ m \in Int /\ SumOf(SizesOf(mem_list))' = SumOf(SizesOf(mem_list)) + m
        /\ (alloc_bytes' - alloc_bytes) + (Gained'[t] - Gained[t])
             = (free_bytes' - free_bytes) + (Given'[t] - Given[t]) + m
        /\ (refused => refused')
    BY <1>4, <2>4, <2>6, <2>7 DEF m
  <2>9. QED
    BY <1>2, <1>7, <1>8, <2>8, BytesStep
<1>12. QED
  BY <1>8, <1>9, <1>10, <1>11 DEF AllocInv

\* Every step of a thread keeps the inductive invariant.
LEMMA AllocKeeps ==
  ASSUME M!MallocAssumption, AllocInv, [M!Next]_allocVars
  PROVE  AllocInv'
<1>1. CASE UNCHANGED allocVars
  BY <1>1, AllocStutters
<1>2. CASE M!Next
  <2>1. PICK t \in Thread : \/ M!Malloc(t) \/ M!SetBlock(t) \/ M!IncNalloc(t) \/ M!AddBytes(t)
                            \/ M!Realloc(t) \/ M!Free(t) \/ M!IncNfree(t) \/ M!AddFreeBytes(t)
    BY <1>2 DEF M!Next
  <2>2. QED
    BY <2>1, MallocKeeps, SetBlockKeeps, IncNallocKeeps, AddBytesKeeps, ReallocKeeps, FreeKeeps,
       IncNfreeKeeps, AddFreeBytesKeeps
<1>3. QED
  BY <1>1, <1>2

\* A list in which every block is once has as many blocks as it is long.
LEMMA AsManyAsListed ==
  ASSUME NEW list \in AllocLists, Once(list)
  PROVE  IsFiniteSet(Blocks(list)) /\ Cardinality(Blocks(list)) = Len(list)
<1> DEFINE f == [k \in 1 .. Len(list) |-> list[k].block]
<1>1. DOMAIN list = 1 .. Len(list) /\ Len(list) \in Nat
  BY EntryType
<1>2. f \in [1 .. Len(list) -> Blocks(list)]
  BY <1>1 DEF Blocks
<1>3. \A j, k \in 1 .. Len(list) : f[j] = f[k] => j = k
  BY <1>1 DEF Once
<1>4. \A b \in Blocks(list) : \E k \in 1 .. Len(list) : f[k] = b
  BY <1>1 DEF Blocks
<1> HIDE DEF f
<1>5. f \in Bijection(1 .. Len(list), Blocks(list))
  BY <1>2, <1>3, <1>4 DEF Bijection, Injection, Surjection, IsInjective
<1>6. IsFiniteSet(1 .. Len(list)) /\ Cardinality(1 .. Len(list)) = Len(list)
  <2>1. 0 <= Len(list) /\ Len(list) \in Int
    BY <1>1
  <2>2. Cardinality(1 .. Len(list)) = IF 1 > Len(list) THEN 0 ELSE Len(list) - 1 + 1
    BY <2>1, FS_Interval
  <2>3. IsFiniteSet(1 .. Len(list))
    BY <2>1, FS_Interval
  <2>4. QED
    BY <1>1, <2>2, <2>3
<1>7. ExistsBijection(1 .. Len(list), Blocks(list))
  BY <1>5 DEF ExistsBijection
<1>8. QED
  BY <1>6, <1>7, FS_Bijection, Zenon

\* The blocks that are about to be counted are in the list.
LEMMA FewerThanListed ==
  ASSUME M!MallocAssumption, AllocTypes, OneOwner
  PROVE  Cardinality(CallsIn({"inc_nalloc"})) <= Len(mem_list)
<1> DEFINE Q == CallsIn({"inc_nalloc"})
           f == [t \in Q |-> call[t].block]
<1>1. \A t \in Q : t \in CallsIn(Adding) /\ t \in CallsIn(HoldingABlock)
  BY DEF CallsIn, Adding, HoldingABlock
<1>2. f \in [Q -> Blocks(mem_list)]
  BY <1>1 DEF OneOwner
<1>3. \A t, u \in Q : f[t] = f[u] => t = u
  BY <1>1 DEF OneOwner
<1>4. IsFiniteSet(Blocks(mem_list)) /\ Cardinality(Blocks(mem_list)) = Len(mem_list)
  BY AsManyAsListed DEF AllocTypes, OneOwner
<1> HIDE DEF f, Q
<1>5. f \in Injection(Q, Blocks(mem_list))
  BY <1>2, <1>3 DEF Injection, IsInjective
<1>6. Cardinality(Q) <= Cardinality(Blocks(mem_list))
  BY <1>4, <1>5, FS_Injection, Zenon
<1>7. QED
  BY <1>4, <1>6 DEF Q

\* When the invariant holds the report is right.
LEMMA AllocInvIsEnough ==
  ASSUME M!MallocAssumption, AllocInv
  PROVE  M!ReportIsRight
<1>1. AllocTypes /\ OneOwner /\ CallsAgree /\ BytesAgree
  BY DEF AllocInv
<1>2. M!Listed = Blocks(mem_list)
  BY DEF M!Listed, Blocks
<1>3. Cardinality(M!Listed) = Len(mem_list)
  BY <1>1, <1>2, AsManyAsListed DEF AllocTypes, OneOwner
<1>4. owned \subseteq M!Listed
  BY <1>1, <1>2 DEF OneOwner
<1>5. nalloc \in Nat /\ nfree \in Nat /\ Len(mem_list) \in Nat /\ alloc_bytes \in Int /\ free_bytes \in Int
  BY <1>1 DEF AllocTypes, AllocLists
<1>6. CallsIn({"inc_nalloc"}) \in SUBSET Thread /\ CallsIn({"inc_nfree"}) \in SUBSET Thread
  BY DEF CallsIn
<1>7. nfree <= nalloc
  <2>1. Cardinality(CallsIn({"inc_nalloc"})) \in Nat /\ Cardinality(CallsIn({"inc_nfree"})) \in Nat
    BY <1>6, CallsCounted
  <2>2. Cardinality(CallsIn({"inc_nalloc"})) <= Len(mem_list)
    BY <1>1, FewerThanListed
  <2>3. nalloc + Cardinality(CallsIn({"inc_nalloc"}))
          = nfree + Cardinality(CallsIn({"inc_nfree"})) + Len(mem_list)
    BY <1>1 DEF CallsAgree
  <2>4. QED
    BY <1>5, <2>1, <2>2, <2>3
<1>8. ASSUME \A t \in Thread : call[t] = M!Idle
      PROVE  /\ M!Listed = owned /\ nalloc - nfree = Len(mem_list)
             /\ refused \/ alloc_bytes - free_bytes = M!Bytes
  <2>1. \A t \in Thread : call[t].op = "idle"
    BY <1>8 DEF M!Idle
  <2>2. CallsIn(Adding) = {} /\ CallsIn({"inc_nalloc"}) = {} /\ CallsIn({"inc_nfree"}) = {}
    BY <2>1 DEF CallsIn, Adding
  <2>3. M!Listed = owned
    BY <1>1, <1>2, <2>2 DEF OneOwner
  <2>4. nalloc - nfree = Len(mem_list)
    <3>1. Cardinality(CallsIn({"inc_nalloc"})) = 0 /\ Cardinality(CallsIn({"inc_nfree"})) = 0
      BY <2>2, FS_EmptySet
    <3>2. QED
      BY <1>1, <1>5, <3>1 DEF CallsAgree
  <2>5. ASSUME ~refused PROVE alloc_bytes - free_bytes = M!Bytes
    <3> DEFINE w == Gained
               v == Given
    <3>1. w \in [Thread -> Nat] /\ v \in [Thread -> Nat]
      BY <1>1, BytesType
    <3>2. \A t \in Thread : w[t] = 0 /\ v[t] = 0
      BY <2>1 DEF Gained, Given, Adding, Freeing
    <3>3. alloc_bytes + OverAll(w) = free_bytes + OverAll(v) + SumOf(SizesOf(mem_list))
      BY <1>1, <2>5 DEF BytesAgree
    <3> HIDE DEF w, v
    <3>4. OverAll(w) = 0 /\ OverAll(v) = 0
      BY <3>1, <3>2, OverAllZero
    <3>5. SumOf(SizesOf(mem_list)) \in Nat
      BY <1>1, EntryType DEF AllocTypes
    <3>6. alloc_bytes - free_bytes = SumOf(SizesOf(mem_list))
      BY <1>5, <3>3, <3>4, <3>5
    <3>7. QED
      BY <3>6, BytesIsSum
  <2>6. QED
    BY <2>3, <2>4, <2>5
<1>9. M!Cardinality(M!Listed) = Cardinality(M!Listed)
  BY Zenon DEF M!Cardinality, Cardinality
<1>10. QED
  BY <1>3, <1>4, <1>7, <1>8, <1>9 DEF M!ReportIsRight

(***************************************************************************)
(* The timer wheel: where a timer goes.                                    *)
(***************************************************************************)
LEMMA ModOk == \A a \in Int, b \in Nat \ {0} : a % b \in 0 .. b - 1 /\ a \div b \in Int
OBVIOUS

\* tick_ms, as a function of which each level follows from the one below.
IsTick(f, n) == \A l \in 0 .. n : f[l] = IF l = 0 THEN TickMs ELSE (f[l - 1] * WheelSize) % Modulus

\* The wheels have ticks.
LEMMA TickType ==
  ASSUME T!TimewheelAssumption
  PROVE  T!tick_ms \in [T!Level -> Nat]
<1>1. /\ MaxLevel \in Nat /\ TickMs \in Nat /\ WheelSize \in Nat /\ Modulus \in Nat \ {0}
      /\ T!Level = 0 .. MaxLevel
  BY DEF T!TimewheelAssumption, T!Level
<1> DEFINE S == {n \in Nat : \E f \in [0 .. n -> Nat] : IsTick(f, n)}
<1>2. 0 \in S
  <2> DEFINE f == [l \in 0 .. 0 |-> TickMs]
  <2>1. f \in [0 .. 0 -> Nat] /\ IsTick(f, 0)
    BY <1>1 DEF IsTick
  <2>2. QED
    BY <2>1
<1>3. ASSUME NEW n \in Nat, n \in S
      PROVE  n + 1 \in S
  <2>1. PICK f \in [0 .. n -> Nat] : IsTick(f, n)
    BY <1>3
  <2> DEFINE m == n + 1
             e == (f[n] * WheelSize) % Modulus
             g == [l \in 0 .. m |-> IF l = m THEN e ELSE f[l]]
  <2>2. e \in Nat
    <3>1. f[n] * WheelSize \in Int
      BY <1>1
    <3>2. QED
      BY <1>1, <3>1, ModOk
  <2>3. g \in [0 .. m -> Nat]
    BY <2>2
  <2>4. IsTick(g, m)
    <3> SUFFICES ASSUME NEW l \in 0 .. m
                 PROVE  g[l] = IF l = 0 THEN TickMs ELSE (g[l - 1] * WheelSize) % Modulus
      BY DEF IsTick
    <3>1. CASE l = m
      BY <3>1
    <3>2. CASE l # m
      <4>1. l \in 0 .. n /\ (l # 0 => l - 1 \in 0 .. n)
        BY <3>2
      <4>2. g[l] = f[l] /\ (l # 0 => g[l - 1] = f[l - 1])
        BY <4>1
      <4>3. QED
        BY <2>1, <4>1, <4>2 DEF IsTick
    <3>3. QED
      BY <3>1, <3>2
  <2>5. QED
    BY <2>3, <2>4
<1>4. \A n \in Nat : n \in S
  BY <1>2, <1>3, SetInduction
<1>5. PICK f \in [0 .. MaxLevel -> Nat] : IsTick(f, MaxLevel)
  BY <1>1, <1>4
<1>6. f = [l \in T!Level |-> IF l = 0 THEN TickMs ELSE (f[l - 1] * WheelSize) % Modulus]
  BY <1>1, <1>5 DEF IsTick
<1>7. T!tick_ms = [l \in T!Level |-> IF l = 0 THEN TickMs ELSE (T!tick_ms[l - 1] * WheelSize) % Modulus]
  BY <1>6, Zenon DEF T!tick_ms
<1> HIDE DEF S
<1> DEFINE U == {n \in Nat : n <= MaxLevel => T!tick_ms[n] \in Nat}
<1>8. 0 \in U
  BY <1>1, <1>7
<1>9. ASSUME NEW n \in Nat, n \in U
      PROVE  n + 1 \in U
  <2> SUFFICES ASSUME n + 1 <= MaxLevel PROVE T!tick_ms[n + 1] \in Nat
    OBVIOUS
  <2>1. T!tick_ms[n] \in Nat /\ n + 1 \in T!Level /\ n + 1 # 0 /\ (n + 1) - 1 = n
    BY <1>1, <1>9
  <2>2. T!tick_ms[n + 1] = (T!tick_ms[n] * WheelSize) % Modulus
    BY <1>7, <2>1
  <2> DEFINE x == T!tick_ms[n] * WheelSize
  <2>3. x \in Int
    BY <1>1, <2>1
  <2> HIDE DEF x
  <2>4. x % Modulus \in Nat
    BY <1>1, <2>3
  <2>5. QED
    BY <2>2, <2>4 DEF x
<1>10. \A n \in Nat : n \in U
  BY <1>8, <1>9, SetInduction
<1>11. \A l \in T!Level : T!tick_ms[l] \in Nat
  BY <1>1, <1>10
<1>12. DOMAIN T!tick_ms = T!Level
  BY <1>7, Zenon
<1>13. QED
  BY <1>7, <1>11, <1>12

\* The larger of two numbers.
LEMMA MaxOfTwo ==
  ASSUME NEW a \in Int, NEW b \in Int
  PROVE  T!Max({a, b}) \in {a, b} /\ T!Max({a, b}) >= a /\ T!Max({a, b}) >= b
<1>1. \E x \in {a, b} : \A y \in {a, b} : x >= y
  OBVIOUS
<1>2. QED
  BY <1>1 DEF T!Max

\* Every timeout has a wheel, the lowest on which it fits.
LEMMA LevelOfType ==
  ASSUME T!TimewheelAssumption, T!WheelsAssumption, NEW ms \in Timeouts
  PROVE  T!LevelOf(ms) \in T!Level
<1>1. MaxLevel \in Nat /\ T!Level = 0 .. MaxLevel
  BY DEF T!TimewheelAssumption, T!Level
<1> DEFINE Least(l) == T!Fits(l, ms) /\ \A k \in 0 .. l - 1 : ~T!Fits(k, ms)
           None == {n \in Nat : \A k \in 0 .. n - 1 : k \in T!Level => ~T!Fits(k, ms)}
<1>2. \E l \in T!Level : Least(l)
  <2> SUFFICES ASSUME \A l \in T!Level : ~Least(l)
               PROVE  FALSE
    OBVIOUS
  <2>1. 0 \in None
    OBVIOUS
  <2>2. ASSUME NEW n \in Nat, n \in None
        PROVE  n + 1 \in None
    <3> SUFFICES ASSUME NEW k \in 0 .. (n + 1) - 1, k \in T!Level
                 PROVE  ~T!Fits(k, ms)
      OBVIOUS
    <3>1. CASE k # n
      <4>1. k \in 0 .. n - 1
        BY <3>1
      <4>2. QED
        BY <2>2, <4>1
    <3>2. CASE k = n
      <4>1. \A j \in 0 .. k - 1 : j \in T!Level
        BY <1>1
      <4>2. \A j \in 0 .. k - 1 : ~T!Fits(j, ms)
        BY <2>2, <3>2, <4>1
      <4>3. QED
        BY <4>2
    <3>3. QED
      BY <3>1, <3>2
  <2> HIDE DEF None
  <2>3. \A n \in Nat : n \in None
    BY <2>1, <2>2, SetInduction
  <2>4. PICK l \in T!Level : T!Fits(l, ms)
    BY DEF T!WheelsAssumption
  <2>5. l + 1 \in None /\ l \in 0 .. (l + 1) - 1
    BY <1>1, <2>3
  <2>6. QED
    BY <2>4, <2>5 DEF None
<1>3. T!LevelOf(ms) = CHOOSE l \in T!Level : Least(l)
  BY DEF T!LevelOf
<1> HIDE DEF Least
<1>4. QED
  BY <1>2, <1>3

\* Every timer goes into a slot.
LEMMA SlotOfType ==
  ASSUME T!TimewheelAssumption, T!WheelsAssumption, current \in [T!Level -> T!Slot],
         NEW l \in T!Level, NEW ms \in Nat
  PROVE  T!SlotOf(l, ms) \in T!Slot
<1>1. WheelSize \in Nat \ {0} /\ T!Slot = 0 .. WheelSize - 1
  BY DEF T!TimewheelAssumption, T!Slot
<1>2. T!tick_ms[l] \in Nat \ {0}
  BY TickType DEF T!WheelsAssumption
<1>3. current[l] \in Nat
  BY <1>1
<1> DEFINE m == T!Max({ms, T!tick_ms[l]})
           d == m \div T!tick_ms[l]
           c == current[l] + d
<1>4. m \in Int
  <2>1. ms \in Int /\ T!tick_ms[l] \in Int
    BY <1>2
  <2>2. m \in {ms, T!tick_ms[l]}
    BY <2>1, MaxOfTwo
  <2>3. QED
    BY <2>1, <2>2
<1>5. d \in Int
  BY <1>2, <1>4, ModOk
<1>6. c \in Int
  BY <1>3, <1>5
<1>7. c % WheelSize \in 0 .. WheelSize - 1
  BY <1>1, <1>6, ModOk
<1>8. QED
  BY <1>1, <1>7 DEF T!SlotOf
-----------------------------------------------------------------------------
\* The slots, and the lists in them.
Slots == T!Level \X T!Slot
Lists == [Slots -> Seq(Timer)]

\* The lists hold the timers of a set, each once.
HoldOnce(b, Q) ==
  /\ \A p \in Slots : \A n \in DOMAIN b[p] : b[p][n] \in Q
  /\ \A t \in Q : \E p \in Slots : \E n \in DOMAIN b[p] : b[p][n] = t
  /\ \A p, q \in Slots : \A n \in DOMAIN b[p], m \in DOMAIN b[q] :
       b[p][n] = b[q][m] => p = q /\ n = m

\* Who is in a list is one of the set, and in no other place.
LEMMA InOnePlace ==
  ASSUME NEW b, NEW Q, HoldOnce(b, Q), NEW p \in Slots, NEW n \in DOMAIN b[p]
  PROVE  /\ b[p][n] \in Q
         /\ \A q \in Slots : \A m \in DOMAIN b[q] : b[p][n] = b[q][m] => p = q /\ n = m
BY DEF HoldOnce

\* A timer put at the head of a list.
LEMMA PutOnce ==
  ASSUME NEW b \in Lists, NEW Q \in SUBSET Timer, HoldOnce(b, Q),
         NEW l \in T!Level, NEW s \in T!Slot, NEW t \in Timer \ Q
  PROVE  T!PutAt(b, l, s, t) \in Lists /\ HoldOnce(T!PutAt(b, l, s, t), Q \cup {t})
<1> DEFINE p == <<l, s>>
           c == <<t>> \o b[p]
           a == T!PutAt(b, l, s, t)
<1>1. p \in Slots /\ DOMAIN b = Slots /\ \A q \in Slots : b[q] \in Seq(Timer)
  BY DEF Slots, Lists
<1>2. /\ c \in Seq(Timer) /\ Len(c) = Len(b[p]) + 1 /\ c[1] = t
      /\ \A n \in 1 .. Len(b[p]) : c[n + 1] = b[p][n]
      /\ DOMAIN c = 1 .. Len(b[p]) + 1 /\ DOMAIN b[p] = 1 .. Len(b[p]) /\ Len(b[p]) \in Nat
  <2>1. b[p] \in Seq(Timer)
    BY <1>1
  <2>2. QED
    BY <2>1
<1>3. a = [b EXCEPT ![p] = c]
  BY <1>1 DEF T!PutAt
<1> HIDE DEF c, p
<1>4. a[p] = c /\ \A q \in Slots \ {p} : a[q] = b[q]
  BY <1>1, <1>3
<1>5. a \in Lists
  BY <1>1, <1>2, <1>3 DEF Lists
<1> HIDE DEF a
<1>6. \A n \in DOMAIN c : n = 1 \/ (n - 1 \in DOMAIN b[p] /\ c[n] = b[p][n - 1])
  <2> TAKE n \in DOMAIN c
  <2>1. n = 1 \/ n - 1 \in 1 .. Len(b[p])
    BY <1>2
  <2>2. n - 1 \in 1 .. Len(b[p]) => c[(n - 1) + 1] = b[p][n - 1] /\ (n - 1) + 1 = n
    BY <1>2
  <2>3. QED
    BY <1>2, <2>1, <2>2
<1>7. \A n \in DOMAIN c : c[n] = t <=> n = 1
  <2> TAKE n \in DOMAIN c
  <2>1. n # 1 => c[n] \in Q
    BY <1>1, <1>6, InOnePlace
  <2>2. QED
    BY <1>2, <2>1
<1>8. \A n \in DOMAIN b[p] : n + 1 \in DOMAIN c /\ c[n + 1] = b[p][n]
  BY <1>2
<1>9. \A q \in Slots : \A n \in DOMAIN a[q] : a[q][n] \in Q \cup {t}
  <2> TAKE q \in Slots
  <2>1. CASE q = p
    <3> TAKE n \in DOMAIN a[q]
    <3>1. n \in DOMAIN c /\ a[q][n] = c[n]
      BY <1>4, <2>1
    <3>2. n # 1 => c[n] \in Q
      BY <1>1, <1>6, <3>1, InOnePlace
    <3>3. QED
      BY <1>7, <3>1, <3>2
  <2>2. CASE q # p
    BY <1>4, <2>2, Zenon DEF HoldOnce
  <2>3. QED
    BY <2>1, <2>2
<1>10. \A u \in Q \cup {t} : \E q \in Slots : \E n \in DOMAIN a[q] : a[q][n] = u
  <2> TAKE u \in Q \cup {t}
  <2>1. CASE u = t
    <3>1. 1 \in DOMAIN a[p] /\ a[p][1] = t
      BY <1>2, <1>4
    <3>2. QED
      BY <1>1, <2>1, <3>1
  <2>2. CASE u \in Q
    <3>1. PICK q \in Slots : \E n \in DOMAIN b[q] : b[q][n] = u
      BY <2>2 DEF HoldOnce
    <3>2. PICK n \in DOMAIN b[q] : b[q][n] = u
      BY <3>1
    <3>3. CASE q = p
      BY <1>1, <1>4, <1>8, <3>2, <3>3
    <3>4. CASE q # p
      BY <1>4, <3>2, <3>4
    <3>5. QED
      BY <3>3, <3>4
  <2>3. QED
    BY <2>1, <2>2
<1>11. ASSUME NEW q \in Slots, NEW r \in Slots, NEW n \in DOMAIN a[q], NEW m \in DOMAIN a[r],
              a[q][n] = a[r][m]
       PROVE  q = r /\ n = m
  <2>1. CASE q # p /\ r # p
    <3>1. n \in DOMAIN b[q] /\ m \in DOMAIN b[r] /\ b[q][n] = b[r][m]
      BY <1>4, <1>11, <2>1
    <3>2. QED
      BY <3>1, InOnePlace
  <2>2. CASE q = p /\ r = p
    <3>1. n \in DOMAIN c /\ m \in DOMAIN c /\ c[n] = c[m]
      BY <1>4, <1>11, <2>2
    <3>2. CASE n = 1 \/ m = 1
      BY <1>7, <2>2, <3>1, <3>2
    <3>3. CASE n # 1 /\ m # 1
      <4>1. /\ n - 1 \in DOMAIN b[p] /\ m - 1 \in DOMAIN b[p]
            /\ b[p][n - 1] = b[p][m - 1]
        BY <1>6, <3>1, <3>3
      <4>2. n - 1 = m - 1
        BY <1>1, <4>1, InOnePlace
      <4>3. QED
        BY <1>2, <2>2, <3>1, <4>2
    <3>4. QED
      BY <3>2, <3>3
  <2>3. CASE q = p /\ r # p
    <3>1. n \in DOMAIN c /\ m \in DOMAIN b[r] /\ c[n] = b[r][m]
      BY <1>4, <1>11, <2>3
    <3>2. n # 1
      BY <1>2, <3>1 DEF HoldOnce
    <3>3. QED
      <4>1. n - 1 \in DOMAIN b[p] /\ b[p][n - 1] = b[r][m]
        BY <1>6, <3>1, <3>2
      <4>2. QED
        BY <1>1, <2>3, <3>1, <4>1, InOnePlace
  <2>4. CASE q # p /\ r = p
    <3>1. m \in DOMAIN c /\ n \in DOMAIN b[q] /\ c[m] = b[q][n]
      BY <1>4, <1>11, <2>4
    <3>2. m # 1
      BY <1>2, <3>1 DEF HoldOnce
    <3>3. QED
      <4>1. m - 1 \in DOMAIN b[p] /\ b[p][m - 1] = b[q][n]
        BY <1>6, <3>1, <3>2
      <4>2. QED
        BY <1>1, <2>4, <3>1, <4>1, InOnePlace
  <2>5. QED
    BY <2>1, <2>2, <2>3, <2>4
<1>12. HoldOnce(a, Q \cup {t})
  BY <1>9, <1>10, <1>11 DEF HoldOnce
<1>13. QED
  BY <1>5, <1>12 DEF a

\* A list without its head.
LEMMA TailOnce ==
  ASSUME NEW b \in Lists, NEW Q \in SUBSET Timer, HoldOnce(b, Q),
         NEW p \in Slots, b[p] # << >>
  PROVE  /\ Head(b[p]) \in Q
         /\ [b EXCEPT ![p] = Tail(@)] \in Lists
         /\ HoldOnce([b EXCEPT ![p] = Tail(@)], Q \ {Head(b[p])})
<1> DEFINE h == Head(b[p])
           c == Tail(b[p])
           a == [b EXCEPT ![p] = Tail(@)]
<1>1. DOMAIN b = Slots /\ \A q \in Slots : b[q] \in Seq(Timer)
  BY DEF Lists
<1>2. /\ c \in Seq(Timer) /\ Len(c) = Len(b[p]) - 1 /\ h = b[p][1]
      /\ DOMAIN b[p] = 1 .. Len(b[p]) /\ Len(b[p]) \in Nat \ {0} /\ DOMAIN c = 1 .. Len(b[p]) - 1
      /\ \A n \in 1 .. Len(b[p]) - 1 : c[n] = b[p][n + 1]
  <2>1. b[p] \in Seq(Timer)
    BY <1>1
  <2>2. QED
    BY <2>1
<1>3. a[p] = c /\ \A q \in Slots \ {p} : a[q] = b[q]
  BY <1>1
<1>4. a \in Lists
  BY <1>1, <1>2 DEF Lists
<1> HIDE DEF a, c
<1>5. 1 \in DOMAIN b[p] /\ h \in Q
  <2>1. 1 \in DOMAIN b[p]
    BY <1>2
  <2>2. QED
    BY <1>2, <2>1 DEF HoldOnce
<1> HIDE DEF h
<1>6. \A n \in DOMAIN c : n + 1 \in DOMAIN b[p] /\ n + 1 # 1 /\ c[n] = b[p][n + 1]
  BY <1>2
<1>7. \A n \in DOMAIN b[p] : n # 1 => n - 1 \in DOMAIN c /\ c[n - 1] = b[p][n]
  <2> SUFFICES ASSUME NEW n \in DOMAIN b[p], n # 1 PROVE n - 1 \in DOMAIN c /\ c[n - 1] = b[p][n]
    OBVIOUS
  <2>1. n - 1 \in 1 .. Len(b[p]) - 1 /\ (n - 1) + 1 = n
    BY <1>2
  <2>2. QED
    BY <1>2, <2>1
<1>8. \A q \in Slots : \A n \in DOMAIN b[q] : b[q][n] = h <=> q = p /\ n = 1
  <2> TAKE q \in Slots
  <2> TAKE n \in DOMAIN b[q]
  <2>1. b[p][1] = h
    BY <1>2
  <2>2. b[p][1] = b[q][n] => p = q /\ 1 = n
    BY <1>5, InOnePlace
  <2>3. QED
    BY <2>1, <2>2
<1>9. \A q \in Slots : \A n \in DOMAIN a[q] : a[q][n] \in Q \ {h}
  <2> TAKE q \in Slots
  <2> TAKE n \in DOMAIN a[q]
  <2>1. CASE q = p
    <3>1. n \in DOMAIN c /\ a[q][n] = b[p][n + 1] /\ n + 1 \in DOMAIN b[p] /\ n + 1 # 1
      BY <1>3, <1>6, <2>1
    <3>2. QED
      BY <1>8, <3>1, InOnePlace
  <2>2. CASE q # p
    BY <1>3, <1>8, <2>2 DEF HoldOnce
  <2>3. QED
    BY <2>1, <2>2
<1>10. \A u \in Q \ {h} : \E q \in Slots : \E n \in DOMAIN a[q] : a[q][n] = u
  <2> TAKE u \in Q \ {h}
  <2>1. PICK q \in Slots : \E n \in DOMAIN b[q] : b[q][n] = u
    BY DEF HoldOnce
  <2>2. PICK n \in DOMAIN b[q] : b[q][n] = u
    BY <2>1
  <2>3. CASE q = p
    <3>1. n # 1
      BY <1>2, <2>2, <2>3
    <3>2. n - 1 \in DOMAIN a[p] /\ a[p][n - 1] = u
      BY <1>3, <1>7, <2>2, <2>3, <3>1
    <3>3. QED
      BY <3>2
  <2>4. CASE q # p
    BY <1>3, <2>2, <2>4
  <2>5. QED
    BY <2>3, <2>4
<1>11. ASSUME NEW q \in Slots, NEW r \in Slots, NEW n \in DOMAIN a[q], NEW m \in DOMAIN a[r],
              a[q][n] = a[r][m]
       PROVE  q = r /\ n = m
  <2>1. CASE q # p /\ r # p
    <3>1. n \in DOMAIN b[q] /\ m \in DOMAIN b[r] /\ b[q][n] = b[r][m]
      BY <1>3, <1>11, <2>1
    <3>2. QED
      BY <3>1, InOnePlace
  <2>2. CASE q = p /\ r = p
    <3>1. n \in DOMAIN c /\ m \in DOMAIN c /\ c[n] = c[m]
      BY <1>3, <1>11, <2>2
    <3>2. n + 1 = m + 1
      <4>1. /\ n + 1 \in DOMAIN b[p] /\ m + 1 \in DOMAIN b[p]
            /\ b[p][n + 1] = b[p][m + 1]
        BY <1>6, <3>1
      <4>2. QED
        BY <4>1, InOnePlace
    <3>3. QED
      BY <1>2, <2>2, <3>1, <3>2
  <2>3. CASE q = p /\ r # p
    <3>1. n \in DOMAIN c /\ m \in DOMAIN b[r] /\ c[n] = b[r][m]
      BY <1>3, <1>11, <2>3
    <3>2. QED
      <4>1. n + 1 \in DOMAIN b[p] /\ b[p][n + 1] = b[r][m]
        BY <1>6, <3>1
      <4>2. QED
        BY <2>3, <3>1, <4>1, InOnePlace
  <2>4. CASE q # p /\ r = p
    <3>1. m \in DOMAIN c /\ n \in DOMAIN b[q] /\ c[m] = b[q][n]
      BY <1>3, <1>11, <2>4
    <3>2. QED
      <4>1. m + 1 \in DOMAIN b[p] /\ b[p][m + 1] = b[q][n]
        BY <1>6, <3>1
      <4>2. QED
        BY <2>4, <3>1, <4>1, InOnePlace
  <2>5. QED
    BY <2>1, <2>2, <2>3, <2>4
<1>12. HoldOnce(a, Q \ {h})
  BY <1>9, <1>10, <1>11 DEF HoldOnce
<1>13. QED
  BY <1>4, <1>5, <1>12 DEF a, h

(***************************************************************************)
(* The timer wheel: the inductive invariant, and who keeps it.             *)
(***************************************************************************)
\* The counters of the timers are numbers.
WheelTypes == T!TypeOK /\ asked \in [Timer -> Nat] /\ fired \in [Timer -> Nat]

\* A timer whose callback runs is still a timer of the wheel.
WheelTick ==
  /\ phase = "callback" <=> timer # NoTimer
  /\ timer # NoTimer => timer \in inWheel
  /\ \A t \in inWheel : timeout_ms[t] \in Timeouts

\* The timers of the wheel are in the slots once each, except that one.
WheelHolds == HoldOnce(bucket, inWheel \ {timer})

\* The second half of OnePlace.
WheelNodes == nodes = Cardinality(inWheel) + free + (IF phase = "removing" THEN 1 ELSE 0)

\* Repeats to come and firings make what was asked for; the firing of the timer
\* whose callback runs is not taken off its repeats yet.
Round(t) ==
  /\ t \notin inWheel => fired[t] = 0
  /\ t \in inWheel => asked[t] \in 1 .. Infinite
  /\ t \in inWheel /\ asked[t] = Infinite => repeat[t] = Infinite
  /\ t \in inWheel /\ asked[t] # Infinite =>
       /\ repeat[t] \in 1 .. Infinite - 1
       /\ t # timer => repeat[t] + fired[t] = asked[t]
       /\ t = timer => repeat[t] + fired[t] = asked[t] + 1
WheelRounds == \A t \in Timer : Round(t)

\* The inductive invariant.
WheelInv == WheelTypes /\ WheelTick /\ WheelHolds /\ WheelNodes /\ WheelRounds

\* What is assumed of the wheel.
WheelAssumption == T!TimewheelAssumption /\ T!WheelsAssumption

\* The wheel that cra_timewheel_init makes.
LEMMA WheelInit ==
  ASSUME WheelAssumption, T!Init
  PROVE  WheelInv
<1>1. /\ MaxLevel \in Nat /\ WheelSize \in Nat \ {0} /\ Infinite \in Nat \ {0}
      /\ T!Level = 0 .. MaxLevel /\ T!Slot = 0 .. WheelSize - 1
  BY DEF WheelAssumption, T!TimewheelAssumption, T!Level, T!Slot
<1>2. /\ depth = 1 /\ current = [l \in T!Level |-> 0] /\ bucket = [p \in T!Level \X T!Slot |-> << >>]
      /\ active = [t \in Timer |-> FALSE] /\ repeat = [t \in Timer |-> 0]
      /\ timeout_ms = [t \in Timer |-> 0] /\ phase = "idle" /\ sweep = 0 /\ timer = NoTimer
      /\ free = 0 /\ nodes = 0 /\ inWheel = {}
      /\ asked = [t \in Timer |-> 0] /\ fired = [t \in Timer |-> 0]
  BY DEF T!Init
<1>3. WheelTypes
  BY <1>1, <1>2 DEF WheelTypes, T!TypeOK
<1>4. WheelTick
  BY <1>2 DEF WheelTick
<1>5. WheelHolds
  <2>1. \A p \in Slots : DOMAIN bucket[p] = {}
    BY <1>2 DEF Slots
  <2>2. QED
    BY <1>2, <2>1 DEF WheelHolds, HoldOnce
<1>6. WheelNodes
  BY <1>2, FS_EmptySet DEF WheelNodes
<1>7. WheelRounds
  BY <1>2 DEF WheelRounds, Round
<1>8. QED
  BY <1>3, <1>4, <1>5, <1>6, <1>7 DEF WheelInv

\* The timers of the wheel, counted.
LEMMA TimersCounted ==
  ASSUME WheelAssumption, NEW Q \in SUBSET Timer, NEW t
  PROVE  /\ Cardinality(Q) \in Nat
         /\ t \notin Q => Cardinality(Q \cup {t}) = Cardinality(Q) + 1
         /\ t \in Q => Cardinality(Q \ {t}) = Cardinality(Q) - 1
<1>1. IsFiniteSet(Timer)
  BY DEF WheelAssumption, T!TimewheelAssumption, T!IsFiniteSet, IsFiniteSet
<1>2. IsFiniteSet(Q)
  BY <1>1, FS_Subset
<1>3. QED
  BY <1>2, FS_CardinalityType, FS_AddElement, FS_RemoveElement

\* The wheels that are there already, and those that are made.
LEMMA AddNodeType ==
  ASSUME WheelAssumption, T!TypeOK, NEW t, NEW ms \in Timeouts, T!AddNode(bucket, t, ms)
  PROVE  /\ depth' \in 1 .. MaxLevel + 1
         /\ \A k \in T!Level : k >= depth' => current[k] = 0
         /\ T!LevelOf(ms) \in T!Level /\ T!SlotOf(T!LevelOf(ms), ms) \in T!Slot
         /\ bucket' = T!PutAt(bucket, T!LevelOf(ms), T!SlotOf(T!LevelOf(ms), ms), t)
<1> DEFINE l == T!LevelOf(ms)
<1>1. l \in T!Level
  BY LevelOfType DEF WheelAssumption
<1> HIDE DEF l
<1>2. MaxLevel \in Nat /\ T!Level = 0 .. MaxLevel /\ depth \in 1 .. MaxLevel + 1
  BY DEF WheelAssumption, T!TimewheelAssumption, T!Level, T!TypeOK
<1>3. depth' = T!Max({depth, l + 1}) /\ bucket' = T!PutAt(bucket, l, T!SlotOf(l, ms), t)
  BY DEF T!AddNode, l
<1>4. depth \in Int /\ l + 1 \in Int /\ l + 1 \in 1 .. MaxLevel + 1
  BY <1>1, <1>2
<1>5. depth' \in {depth, l + 1} /\ depth' >= depth
  BY <1>3, <1>4, MaxOfTwo
<1>6. T!SlotOf(l, ms) \in T!Slot
  <2>1. ms \in Nat /\ current \in [T!Level -> T!Slot]
    BY DEF WheelAssumption, T!TimewheelAssumption, T!TypeOK
  <2>2. QED
    BY <1>1, <2>1, SlotOfType DEF WheelAssumption
<1>7. \A k \in T!Level : k >= depth' => current[k] = 0
  BY <1>2, <1>4, <1>5 DEF T!TypeOK
<1>8. QED
  BY <1>1, <1>2, <1>3, <1>4, <1>5, <1>6, <1>7 DEF l

\* The wheels that are there when one cannot be made.
LEMMA NoWheelType ==
  ASSUME WheelAssumption, T!TypeOK, NEW ms \in Timeouts, T!NoWheel(ms)
  PROVE  /\ depth' \in 1 .. MaxLevel + 1
         /\ \A k \in T!Level : k >= depth' => current[k] = 0
         /\ T!LevelOf(ms) >= depth'
<1>1. T!LevelOf(ms) \in T!Level
  BY LevelOfType DEF WheelAssumption
<1>2. MaxLevel \in Nat /\ T!Level = 0 .. MaxLevel /\ depth \in 1 .. MaxLevel + 1
  BY DEF WheelAssumption, T!TimewheelAssumption, T!Level, T!TypeOK
<1>3. depth' \in Int /\ depth' >= depth /\ T!LevelOf(ms) >= depth'
  BY <1>1, <1>2 DEF T!NoWheel
<1>4. \A k \in T!Level : k >= depth' => current[k] = 0
  BY <1>2, <1>3 DEF T!TypeOK
<1>5. QED
  BY <1>1, <1>2, <1>3, <1>4

\* cra_timewheel_add puts a timer that is in no slot into one.
LEMMA AddKeeps ==
  ASSUME WheelAssumption, WheelInv, NEW t \in Timer, NEW ms \in Timeouts, NEW n \in Repeats,
         T!Add(t, ms, n)
  PROVE  WheelInv'
<1> USE DEF WheelInv
<1>1. /\ active' = [active EXCEPT ![t] = TRUE] /\ repeat' = [repeat EXCEPT ![t] = n]
      /\ timeout_ms' = [timeout_ms EXCEPT ![t] = ms] /\ inWheel' = inWheel \cup {t}
      /\ asked' = [asked EXCEPT ![t] = n] /\ t \notin inWheel
      /\ phase \in {"idle", "callback", "removing"}
      /\ UNCHANGED <<current, phase, sweep, timer, fired>>
      /\ T!AddNode(bucket, t, ms) /\ T!TakesNode
  BY DEF T!Add, T!Outside, T!tick
<1>2. n \in 1 .. Infinite /\ ms \in Nat /\ Infinite \in Nat \ {0} /\ NoTimer \notin Timer
  BY DEF WheelAssumption, T!TimewheelAssumption
<1>3. T!TypeOK /\ inWheel \in SUBSET Timer /\ timer \in Timer \cup {NoTimer}
  BY DEF WheelTypes, T!TypeOK
<1>4. t # timer
  BY <1>1, <1>2 DEF WheelTick
<1>5. /\ depth' \in 1 .. MaxLevel + 1
      /\ \A k \in T!Level : k >= depth' => current[k] = 0
      /\ T!LevelOf(ms) \in T!Level /\ T!SlotOf(T!LevelOf(ms), ms) \in T!Slot
      /\ bucket' = T!PutAt(bucket, T!LevelOf(ms), T!SlotOf(T!LevelOf(ms), ms), t)
  BY <1>1, <1>3, AddNodeType
<1>6. bucket' \in Lists /\ HoldOnce(bucket', (inWheel \ {timer}) \cup {t})
  <2>1. bucket \in Lists /\ inWheel \ {timer} \in SUBSET Timer /\ t \in Timer \ (inWheel \ {timer})
    BY <1>1, <1>3 DEF T!TypeOK, Lists, Slots
  <2>2. QED
    BY <1>5, <2>1, PutOnce DEF WheelHolds
<1>7. WheelTypes'
  <2>1. free' \in Nat /\ nodes' \in Nat
    BY <1>1, <1>3 DEF T!TypeOK, T!TakesNode
  <2>2. /\ active' \in [Timer -> BOOLEAN] /\ repeat' \in [Timer -> 0 .. Infinite]
        /\ timeout_ms' \in [Timer -> Timeouts \cup {0}] /\ asked' \in [Timer -> Nat]
    BY <1>1, <1>2 DEF WheelTypes, T!TypeOK
  <2>3. inWheel' \subseteq Timer
    BY <1>1, <1>3
  <2>4. QED
    BY <1>1, <1>3, <1>5, <1>6, <2>1, <2>2, <2>3 DEF WheelTypes, T!TypeOK, Lists, Slots
<1>8. WheelTick'
  BY <1>1, <1>3, <1>4 DEF WheelTick, T!TypeOK
<1>9. WheelHolds'
  <2>1. (inWheel \ {timer}) \cup {t} = inWheel' \ {timer'}
    BY <1>1, <1>4
  <2>2. QED
    BY <1>6, <2>1 DEF WheelHolds
<1>10. WheelNodes'
  <2>1. Cardinality(inWheel') = Cardinality(inWheel) + 1 /\ Cardinality(inWheel) \in Nat
    BY <1>1, <1>3, TimersCounted
  <2>2. free \in Nat /\ nodes \in Nat
    BY <1>3 DEF T!TypeOK
  <2>3. QED
    BY <1>1, <2>1, <2>2 DEF WheelNodes, T!TakesNode
<1>11. WheelRounds'
  <2> SUFFICES ASSUME NEW u \in Timer PROVE Round(u)'
    BY DEF WheelRounds
  <2>1. CASE u = t
    BY <1>1, <1>2, <1>3, <1>4, <2>1 DEF WheelRounds, Round, WheelTypes, T!TypeOK
  <2>2. CASE u # t
    BY <1>1, <1>3, <2>2 DEF WheelRounds, Round, WheelTypes, T!TypeOK
  <2>3. QED
    BY <2>1, <2>2
<1>12. QED
  BY <1>7, <1>8, <1>9, <1>10, <1>11

\* A step that leaves the lists and the counters of the timers alone.
LEMMA WheelsStay ==
  ASSUME WheelInv, UNCHANGED <<bucket, repeat, timeout_ms, inWheel, asked, fired, timer>>,
         phase = "callback" <=> phase' = "callback"
  PROVE  WheelTick' /\ WheelHolds' /\ WheelRounds'
<1>1. WheelTick'
  BY DEF WheelInv, WheelTick
<1>2. WheelHolds'
  <2>1. bucket' = bucket /\ inWheel' \ {timer'} = inWheel \ {timer}
    OBVIOUS
  <2>2. QED
    BY <2>1, Zenon DEF WheelInv, WheelHolds
<1>3. WheelRounds'
  BY DEF WheelInv, WheelRounds, Round
<1>4. QED
  BY <1>1, <1>2, <1>3

\* An add that fails leaves wheels behind but no timer.
LEMMA AddFailsKeeps ==
  ASSUME WheelAssumption, WheelInv, NEW ms \in Timeouts, T!AddFails(ms)
  PROVE  WheelInv'
<1>1. /\ T!NoWheel(ms) /\ free' = T!Max({0, free - 1}) /\ nodes' = nodes - (free - free')
      /\ UNCHANGED <<current, bucket, active, repeat, timeout_ms, phase, sweep, timer,
                     inWheel, age, asked, fired>>
  BY DEF T!AddFails, T!fields, T!tick, T!history
<1>2. T!TypeOK /\ free \in Nat /\ nodes \in Nat /\ inWheel \in SUBSET Timer
  BY DEF WheelInv, WheelTypes, T!TypeOK
<1>3. /\ depth' \in 1 .. MaxLevel + 1
      /\ \A k \in T!Level : k >= depth' => current[k] = 0
  BY <1>1, <1>2, NoWheelType
<1>4. free' \in Nat /\ free' <= free
  <2>1. free' \in {0, free - 1} /\ free' >= 0
    <3>1. 0 \in Int /\ free - 1 \in Int
      BY <1>2
    <3>2. QED
      BY <1>1, <3>1, MaxOfTwo
  <2>2. QED
    BY <1>2, <2>1
<1>5. nodes' \in Nat /\ WheelNodes'
  <2>1. Cardinality(inWheel) \in Nat
    BY <1>2, TimersCounted
  <2>2. nodes = Cardinality(inWheel) + free + (IF phase = "removing" THEN 1 ELSE 0)
    BY DEF WheelInv, WheelNodes
  <2>3. nodes' \in Nat /\ nodes' = Cardinality(inWheel) + free' + (IF phase = "removing" THEN 1 ELSE 0)
    BY <1>1, <1>2, <1>4, <2>1, <2>2
  <2>4. QED
    BY <1>1, <2>3 DEF WheelNodes
<1>6. WheelTypes'
  BY <1>1, <1>3, <1>4, <1>5 DEF WheelInv, WheelTypes, T!TypeOK
<1>7. QED
  BY <1>1, <1>5, <1>6, WheelsStay DEF WheelInv

\* A cancelled timer stays where it is, and so does one made active again.
LEMMA CancelKeeps ==
  ASSUME WheelInv, NEW t \in Timer, T!Cancel(t) \/ T!Activate(t)
  PROVE  WheelInv'
<1>1. /\ UNCHANGED <<depth, current, bucket, repeat, timeout_ms, phase, sweep, timer, free, nodes,
                     inWheel, asked, fired>>
      /\ \E v \in BOOLEAN : active' = [active EXCEPT ![t] = v]
  BY DEF T!Cancel, T!Activate, T!wheels, T!tick, T!memory, T!history
<1>2. WheelTypes'
  BY <1>1 DEF WheelInv, WheelTypes, T!TypeOK
<1>3. WheelNodes'
  BY <1>1 DEF WheelInv, WheelNodes
<1>4. QED
  BY <1>1, <1>2, <1>3, WheelsStay DEF WheelInv

\* New repeats start a new count of firings, that of a running callback included.
LEMMA SetRepeatKeeps ==
  ASSUME WheelAssumption, WheelInv, NEW t \in Timer, NEW n \in Repeats, T!SetRepeat(t, n)
  PROVE  WheelInv'
<1>1. /\ t \in inWheel
      /\ repeat' = [repeat EXCEPT ![t] = n] /\ asked' = [asked EXCEPT ![t] = n]
      /\ fired' = [fired EXCEPT ![t] = IF t = timer /\ n # Infinite THEN 1 ELSE 0]
      /\ UNCHANGED <<depth, current, bucket, active, timeout_ms, phase, sweep, timer, free, nodes,
                     inWheel>>
  BY DEF T!SetRepeat, T!wheels, T!tick, T!memory
<1>2. n \in 1 .. Infinite /\ Infinite \in Nat \ {0}
  BY DEF WheelAssumption, T!TimewheelAssumption
<1>3. WheelTypes'
  BY <1>1, <1>2 DEF WheelInv, WheelTypes, T!TypeOK
<1>4. WheelTick'
  BY <1>1 DEF WheelInv, WheelTick
<1>5. WheelHolds' /\ WheelNodes'
  BY <1>1 DEF WheelInv, WheelHolds, WheelNodes
<1>6. WheelRounds'
  <2> SUFFICES ASSUME NEW u \in Timer PROVE Round(u)'
    BY DEF WheelRounds
  <2>1. CASE u = t
    BY <1>1, <1>2, <2>1 DEF Round, WheelInv, WheelTypes, T!TypeOK
  <2>2. CASE u # t
    BY <1>1, <2>2 DEF WheelRounds, Round, WheelInv, WheelTypes, T!TypeOK
  <2>3. QED
    BY <2>1, <2>2
<1>7. QED
  BY <1>3, <1>4, <1>5, <1>6 DEF WheelInv

\* A new timeout is one of the timeouts.
LEMMA SetTimeoutKeeps ==
  ASSUME WheelAssumption, WheelInv, NEW ms \in Timeouts, T!SetTimeout(ms)
  PROVE  WheelInv'
<1>1. /\ phase = "callback" /\ timeout_ms' = [timeout_ms EXCEPT ![timer] = ms]
      /\ UNCHANGED <<depth, current, bucket, active, repeat, phase, sweep, timer, free, nodes,
                     inWheel, asked, fired>>
  BY DEF T!SetTimeout, T!wheels, T!tick, T!memory, T!history
<1>2. timer \in inWheel /\ inWheel \subseteq Timer
  BY <1>1 DEF WheelInv, WheelTick, WheelTypes, T!TypeOK
<1>3. WheelTypes'
  BY <1>1, <1>2 DEF WheelInv, WheelTypes, T!TypeOK
<1>4. WheelTick'
  BY <1>1, <1>2 DEF WheelInv, WheelTick, WheelTypes, T!TypeOK
<1>5. WheelHolds' /\ WheelNodes'
  BY <1>1 DEF WheelInv, WheelHolds, WheelNodes
<1>6. WheelRounds'
  BY <1>1 DEF WheelInv, WheelRounds, Round
<1>7. QED
  BY <1>3, <1>4, <1>5, <1>6 DEF WheelInv

\* The nodes that are freed were free.
LEMMA ReleaseFreeKeeps ==
  ASSUME WheelAssumption, WheelInv, T!ReleaseFree
  PROVE  WheelInv'
<1>1. /\ free' = 0 /\ nodes' = nodes - free
      /\ UNCHANGED <<depth, current, bucket, active, repeat, timeout_ms, phase, sweep, timer,
                     inWheel, asked, fired>>
  BY DEF T!ReleaseFree, T!wheels, T!fields, T!tick, T!history
<1>2. free \in Nat /\ nodes \in Nat /\ inWheel \in SUBSET Timer
  BY DEF WheelInv, WheelTypes, T!TypeOK
<1>3. Cardinality(inWheel) \in Nat
  BY <1>2, TimersCounted
<1>4. nodes' \in Nat /\ WheelNodes'
  BY <1>1, <1>2, <1>3 DEF WheelInv, WheelNodes
<1>5. WheelTypes'
  BY <1>1, <1>4 DEF WheelInv, WheelTypes, T!TypeOK
<1>6. QED
  BY <1>1, <1>4, <1>5, WheelsStay DEF WheelInv

\* A turn of the wheels moves no timer, and sweeps from a wheel that exists.
LEMMA TickBeginsKeeps ==
  ASSUME WheelAssumption, WheelInv, T!TickBegins
  PROVE  WheelInv'
<1>1. /\ phase = "idle" /\ phase' = "sweeping"
      /\ current' = [l \in T!Level |-> IF T!Turns(l) THEN (current[l] + 1) % WheelSize ELSE current[l]]
      /\ sweep' = T!Max({l \in T!Level : T!Turns(l)})
      /\ UNCHANGED <<depth, bucket, active, repeat, timeout_ms, timer, free, nodes, inWheel, asked, fired>>
  BY DEF T!TickBegins, T!fields, T!memory
<1>2. /\ MaxLevel \in Nat /\ WheelSize \in Nat \ {0}
      /\ T!Level = 0 .. MaxLevel /\ T!Slot = 0 .. WheelSize - 1
      /\ depth \in 1 .. MaxLevel + 1 /\ current \in [T!Level -> T!Slot]
  BY DEF WheelAssumption, T!TimewheelAssumption, T!Level, T!Slot, WheelInv, WheelTypes, T!TypeOK
<1>3. current' \in [T!Level -> T!Slot]
  <2>1. ASSUME NEW l \in T!Level
        PROVE  (current[l] + 1) % WheelSize \in T!Slot
    <3>1. current[l] + 1 \in Int
      BY <1>2
    <3>2. QED
      BY <1>2, <3>1, ModOk
  <2>2. QED
    BY <1>1, <1>2, <2>1
<1>4. \A l \in T!Level : l >= depth => current'[l] = 0
  BY <1>1, <1>2 DEF T!Turns, WheelInv, WheelTypes, T!TypeOK
<1>5. sweep' \in T!Level
  <2> DEFINE Z == {l \in T!Level : T!Turns(l)}
             Y == {l + 1 : l \in Z}
  <2>1. 0 \in Z
    BY <1>2 DEF T!Turns
  <2>2. \E x \in Z : \A y \in Z : x >= y
    <3>1. Y \in SUBSET (1 .. MaxLevel + 1) /\ Y # {} /\ MaxLevel + 1 \in Nat
      BY <1>2, <2>1
    <3>2. Max(Y) \in Y
      BY <3>1, HasMax
    <3>3. \A y \in Y : Max(Y) >= y
      BY <3>1, HasMax
    <3>4. PICK x \in Z : x + 1 = Max(Y)
      BY <3>2
    <3>5. ASSUME NEW y \in Z
          PROVE  x >= y
      <4>1. y + 1 \in Y
        OBVIOUS
      <4>2. x + 1 >= y + 1
        BY <3>3, <3>4, <4>1
      <4>3. x \in Int /\ y \in Int
        BY <1>2
      <4>4. QED
        BY <4>2, <4>3
    <3>6. QED
      BY <3>5
  <2>3. T!Max(Z) \in Z
    BY <2>2 DEF T!Max
  <2>4. QED
    BY <1>1, <2>3
<1>6. WheelTypes'
  BY <1>1, <1>3, <1>4, <1>5 DEF WheelInv, WheelTypes, T!TypeOK
<1>7. WheelNodes'
  BY <1>1 DEF WheelInv, WheelNodes
<1>8. QED
  BY <1>1, <1>6, <1>7, WheelsStay DEF WheelInv

\* The sweep goes on.
LEMMA SlotIsEmptyKeeps ==
  ASSUME WheelAssumption, WheelInv, T!SlotIsEmpty
  PROVE  WheelInv'
<1>1. /\ phase = "sweeping"
      /\ IF sweep = 0 THEN phase' = "idle" /\ sweep' = 0 ELSE phase' = phase /\ sweep' = sweep - 1
      /\ UNCHANGED <<depth, current, bucket, active, repeat, timeout_ms, timer, free, nodes,
                     inWheel, asked, fired>>
  BY DEF T!SlotIsEmpty, T!wheels, T!fields, T!memory, T!history
<1>2. T!Level = 0 .. MaxLevel /\ MaxLevel \in Nat /\ sweep \in T!Level
  BY DEF WheelAssumption, T!TimewheelAssumption, T!Level, WheelInv, WheelTypes, T!TypeOK
<1>3. WheelTypes'
  <2>1. sweep' \in T!Level
    BY <1>1, <1>2
  <2>2. phase' \in {"idle", "sweeping"}
    BY <1>1
  <2>3. QED
    BY <1>1, <2>1, <2>2 DEF WheelInv, WheelTypes, T!TypeOK
<1>4. WheelNodes'
  BY <1>1 DEF WheelInv, WheelNodes
<1>5. phase # "callback" /\ phase' # "callback"
  BY <1>1
<1>6. QED
  BY <1>1, <1>3, <1>4, <1>5, WheelsStay DEF WheelInv

\* The node in hand goes to the free nodes.
LEMMA RemoveReturnsKeeps ==
  ASSUME WheelAssumption, WheelInv, T!RemoveReturns
  PROVE  WheelInv'
<1>1. /\ phase = "removing" /\ phase' = "sweeping" /\ free' = free + 1
      /\ UNCHANGED <<depth, current, bucket, active, repeat, timeout_ms, timer, sweep, nodes,
                     inWheel, asked, fired>>
  BY DEF T!RemoveReturns, T!Recycled, T!wheels, T!fields, T!history
<1>2. free \in Nat /\ nodes \in Nat /\ inWheel \in SUBSET Timer
  BY DEF WheelInv, WheelTypes, T!TypeOK
<1>3. WheelNodes'
  <2>1. Cardinality(inWheel) \in Nat
    BY <1>2, TimersCounted
  <2>2. QED
    BY <1>1, <1>2, <2>1 DEF WheelInv, WheelNodes
<1>4. WheelTypes'
  BY <1>1, <1>2 DEF WheelInv, WheelTypes, T!TypeOK
<1>5. QED
  BY <1>1, <1>3, <1>4, WheelsStay DEF WheelInv

\* The slot that is swept, and its head.
LEMMA Sweeping ==
  ASSUME WheelAssumption, WheelInv, phase = "sweeping", T!Here # << >>
  PROVE  /\ Head(T!Here) \in inWheel /\ Head(T!Here) \in Timer
         /\ timer = NoTimer
         /\ T!Rest \in Lists /\ HoldOnce(T!Rest, inWheel \ {Head(T!Here)})
<1> DEFINE p == <<sweep, current[sweep]>>
<1>1. p \in Slots /\ bucket \in Lists
  BY DEF WheelInv, WheelTypes, T!TypeOK, Slots, Lists
<1>2. timer = NoTimer /\ NoTimer \notin Timer /\ inWheel \subseteq Timer
  BY DEF WheelAssumption, T!TimewheelAssumption, WheelInv, WheelTick, WheelTypes, T!TypeOK
<1>3. HoldOnce(bucket, inWheel)
  <2>1. inWheel \ {timer} = inWheel
    BY <1>2
  <2>2. HoldOnce(bucket, inWheel \ {timer})
    BY DEF WheelInv, WheelHolds
  <2>3. QED
    BY <2>1, <2>2, Zenon
<1>4. T!Here = bucket[p] /\ T!Rest = [bucket EXCEPT ![p] = Tail(@)]
  BY DEF T!Here, T!Rest
<1> HIDE DEF p
<1>5. /\ Head(bucket[p]) \in inWheel
      /\ [bucket EXCEPT ![p] = Tail(@)] \in Lists
      /\ HoldOnce([bucket EXCEPT ![p] = Tail(@)], inWheel \ {Head(bucket[p])})
  <2>1. inWheel \in SUBSET Timer /\ bucket[p] # << >>
    BY <1>2, <1>4
  <2>2. QED
    BY <1>1, <1>3, <2>1, TailOnce
<1>6. QED
  BY <1>2, <1>4, <1>5

\* A timer that leaves the wheel is forgotten, and the others are not touched.
LEMMA Forgotten ==
  ASSUME WheelAssumption, WheelInv, NEW t \in inWheel, T!ReleaseTimer(t), timer \in {t, NoTimer}
  PROVE  /\ inWheel' = inWheel \ {t} /\ timer' = NoTimer /\ phase' = "removing"
         /\ active' \in [Timer -> BOOLEAN] /\ repeat' \in [Timer -> 0 .. Infinite]
         /\ timeout_ms' \in [Timer -> Timeouts \cup {0}]
         /\ asked' \in [Timer -> Nat] /\ fired' \in [Timer -> Nat]
         /\ WheelTick' /\ WheelRounds'
<1>1. /\ active' = [u \in Timer |-> u \notin {t} /\ active[u]]
      /\ repeat' = [u \in Timer |-> IF u \in {t} THEN 0 ELSE repeat[u]]
      /\ timeout_ms' = [u \in Timer |-> IF u \in {t} THEN 0 ELSE timeout_ms[u]]
      /\ inWheel' = inWheel \ {t}
      /\ asked' = [u \in Timer |-> IF u \in {t} THEN 0 ELSE asked[u]]
      /\ fired' = [u \in Timer |-> IF u \in {t} THEN 0 ELSE fired[u]]
      /\ timer' = NoTimer /\ phase' = "removing"
  BY DEF T!ReleaseTimer, T!Forget
<1>2. NoTimer \notin Timer /\ Infinite \in Nat \ {0} /\ inWheel \subseteq Timer
  BY DEF WheelAssumption, T!TimewheelAssumption, WheelInv, WheelTypes, T!TypeOK
<1>3. active' \in [Timer -> BOOLEAN]
  BY <1>1, Zenon DEF WheelInv, WheelTypes, T!TypeOK
<1>4. /\ repeat' \in [Timer -> 0 .. Infinite]
      /\ timeout_ms' \in [Timer -> Timeouts \cup {0}]
      /\ asked' \in [Timer -> Nat] /\ fired' \in [Timer -> Nat]
  BY <1>1, <1>2 DEF WheelInv, WheelTypes, T!TypeOK
<1>5. WheelTick'
  BY <1>1, <1>2 DEF WheelInv, WheelTick
<1>6. WheelRounds'
  <2> SUFFICES ASSUME NEW u \in Timer PROVE Round(u)'
    BY DEF WheelRounds
  <2>1. CASE u = t
    BY <1>1, <2>1 DEF Round
  <2>2. CASE u # t
    <3>1. u # timer /\ u # timer'
      BY <1>1, <1>2, <2>2
    <3>2. /\ repeat'[u] = repeat[u] /\ asked'[u] = asked[u] /\ fired'[u] = fired[u]
          /\ u \in inWheel' <=> u \in inWheel
      BY <1>1, <2>2
    <3>3. QED
      BY <3>1, <3>2 DEF WheelInv, WheelRounds, Round
  <2>3. QED
    BY <2>1, <2>2
<1>7. QED
  BY <1>1, <1>3, <1>4, <1>5, <1>6, Zenon

\* A timer leaves the wheel with its node in the hand of the tick.
LEMMA NodeInHand ==
  ASSUME WheelAssumption, WheelInv, NEW t \in inWheel, phase # "removing", phase' = "removing",
         inWheel' = inWheel \ {t}, UNCHANGED <<free, nodes>>
  PROVE  WheelNodes'
<1>1. inWheel \in SUBSET Timer /\ free \in Nat
  BY DEF WheelInv, WheelTypes, T!TypeOK
<1>2. Cardinality(inWheel') = Cardinality(inWheel) - 1 /\ Cardinality(inWheel) \in Nat
  BY <1>1, TimersCounted
<1>3. QED
  BY <1>1, <1>2 DEF WheelInv, WheelNodes

\* The cancelled timer at the head of the slot goes, its node in hand.
LEMMA DropInactiveKeeps ==
  ASSUME WheelAssumption, WheelInv, T!DropInactive
  PROVE  WheelInv'
<1> DEFINE t == Head(T!Here)
<1>1. /\ phase = "sweeping" /\ T!Here # << >> /\ bucket' = T!Rest /\ T!ReleaseTimer(t)
      /\ UNCHANGED <<depth, current, sweep, free, nodes>>
  BY DEF T!DropInactive, T!memory
<1>2. /\ t \in inWheel /\ timer = NoTimer
      /\ T!Rest \in Lists /\ HoldOnce(T!Rest, inWheel \ {t})
  BY <1>1, Sweeping
<1> HIDE DEF t
<1>3. /\ inWheel' = inWheel \ {t} /\ timer' = NoTimer /\ phase' = "removing"
      /\ active' \in [Timer -> BOOLEAN] /\ repeat' \in [Timer -> 0 .. Infinite]
      /\ timeout_ms' \in [Timer -> Timeouts \cup {0}]
      /\ asked' \in [Timer -> Nat] /\ fired' \in [Timer -> Nat]
      /\ WheelTick' /\ WheelRounds'
  BY <1>1, <1>2, Forgotten
<1>4. NoTimer \notin Timer /\ inWheel \subseteq Timer
  BY DEF WheelAssumption, T!TimewheelAssumption, WheelInv, WheelTypes, T!TypeOK
<1>5. WheelTypes'
  <2>1. inWheel' \subseteq Timer
    BY <1>3, <1>4
  <2>2. QED
    BY <1>1, <1>2, <1>3, <2>1 DEF WheelInv, WheelTypes, T!TypeOK, Lists, Slots
<1>6. WheelHolds'
  <2>1. inWheel' \ {timer'} = inWheel \ {t}
    BY <1>3, <1>4
  <2>2. QED
    BY <1>1, <1>2, <2>1, Zenon DEF WheelHolds
<1>7. WheelNodes'
  BY <1>1, <1>2, <1>3, NodeInHand
<1>8. QED
  BY <1>3, <1>5, <1>6, <1>7 DEF WheelInv

\* A timer goes from one slot into another.
LEMMA MoveDownKeeps ==
  ASSUME WheelAssumption, WheelInv, T!MoveDown
  PROVE  WheelInv'
<1> DEFINE t == Head(T!Here)
           r == T!Remainder(t)
           s == T!SlotOf(sweep - 1, r)
<1>1. /\ phase = "sweeping" /\ T!Here # << >> /\ sweep > 0
      /\ bucket' = T!PutAt(T!Rest, sweep - 1, s, t)
      /\ UNCHANGED <<depth, current, active, repeat, timeout_ms, phase, sweep, timer, free, nodes,
                     inWheel, asked, fired>>
  BY DEF T!MoveDown, T!fields, T!tick, T!memory, T!history
<1>2. /\ t \in inWheel /\ t \in Timer /\ timer = NoTimer
      /\ T!Rest \in Lists /\ HoldOnce(T!Rest, inWheel \ {t})
  BY <1>1, Sweeping
<1>3. /\ NoTimer \notin Timer /\ inWheel \subseteq Timer /\ sweep \in T!Level /\ MaxLevel \in Nat
      /\ T!Level = 0 .. MaxLevel /\ current \in [T!Level -> T!Slot] /\ timeout_ms[t] \in Timeouts
      /\ Timeouts \subseteq Nat
  BY <1>2 DEF WheelAssumption, T!TimewheelAssumption, WheelInv, WheelTypes, WheelTick, T!TypeOK, T!Level
<1> HIDE DEF t
<1>4. s \in T!Slot /\ sweep - 1 \in T!Level
  <2> DEFINE d == T!tick_ms[sweep]
             m == timeout_ms[t]
  <2>1. d \in Nat \ {0} /\ m \in Int
    <3>1. d \in Nat \ {0}
      BY <1>3, TickType DEF WheelAssumption, T!WheelsAssumption
    <3>2. m \in Timeouts /\ Timeouts \subseteq Nat
      BY <1>3, Zenon
    <3>3. m \in Nat
      <4> HIDE DEF m
      <4>1. QED
        BY <3>2
    <3> HIDE DEF d, m
    <3>4. QED
      BY <3>1, <3>3
  <2>2. r = m % d
    BY DEF T!Remainder
  <2> HIDE DEF d, m
  <2>3. r \in Nat
    BY <2>1, <2>2
  <2>4. sweep - 1 \in T!Level
    BY <1>1, <1>3
  <2> HIDE DEF r
  <2>5. QED
    BY <1>3, <2>3, <2>4, SlotOfType DEF WheelAssumption
<1> HIDE DEF s, r
<1>5. bucket' \in Lists /\ HoldOnce(bucket', (inWheel \ {t}) \cup {t})
  <2>1. inWheel \ {t} \in SUBSET Timer /\ t \in Timer \ (inWheel \ {t})
    BY <1>2, <1>3
  <2>2. QED
    BY <1>1, <1>2, <1>4, <2>1, PutOnce
<1>6. WheelHolds'
  <2>1. (inWheel \ {t}) \cup {t} = inWheel' \ {timer'}
    BY <1>1, <1>2, <1>3
  <2>2. QED
    BY <1>5, <2>1, Zenon DEF WheelHolds
<1>7. WheelTypes'
  BY <1>1, <1>5 DEF WheelInv, WheelTypes, T!TypeOK, Lists, Slots
<1>8. WheelTick' /\ WheelNodes' /\ WheelRounds'
  BY <1>1 DEF WheelInv, WheelTick, WheelNodes, WheelRounds, Round
<1>9. QED
  BY <1>6, <1>7, <1>8 DEF WheelInv

\* The timer that fires is out of its slot while its callback runs.
LEMMA FireKeeps ==
  ASSUME WheelAssumption, WheelInv, T!Fire
  PROVE  WheelInv'
<1> DEFINE t == Head(T!Here)
<1>1. /\ phase = "sweeping" /\ T!Here # << >> /\ phase' = "callback" /\ timer' = t
      /\ bucket' = T!Rest
      /\ fired' = [fired EXCEPT ![t] = IF asked[t] = Infinite THEN 0 ELSE @ + 1]
      /\ UNCHANGED <<depth, current, active, repeat, timeout_ms, sweep, free, nodes, inWheel, asked>>
  BY DEF T!Fire, T!fields, T!memory
<1>2. /\ t \in inWheel /\ t \in Timer /\ timer = NoTimer
      /\ T!Rest \in Lists /\ HoldOnce(T!Rest, inWheel \ {t})
  BY <1>1, Sweeping
<1> HIDE DEF t
<1>3. NoTimer \notin Timer /\ asked \in [Timer -> Nat] /\ fired \in [Timer -> Nat]
  BY DEF WheelAssumption, T!TimewheelAssumption, WheelInv, WheelTypes
<1>4. WheelTypes'
  <2>1. fired' \in [Timer -> Nat]
    <3> DEFINE e == IF asked[t] = Infinite THEN 0 ELSE fired[t] + 1
    <3>1. e \in Nat
      BY <1>2, <1>3
    <3>2. fired' = [fired EXCEPT ![t] = e]
      BY <1>1
    <3> HIDE DEF e
    <3>3. QED
      BY <1>3, <3>1, <3>2
  <2>2. QED
    BY <1>1, <1>2, <2>1 DEF WheelInv, WheelTypes, T!TypeOK, Lists, Slots
<1>5. WheelTick'
  BY <1>1, <1>2, <1>3 DEF WheelInv, WheelTick
<1>6. WheelHolds'
  BY <1>1, <1>2, Zenon DEF WheelHolds
<1>7. WheelNodes'
  BY <1>1 DEF WheelInv, WheelNodes
<1>8. WheelRounds'
  <2> SUFFICES ASSUME NEW u \in Timer PROVE Round(u)'
    BY DEF WheelRounds
  <2>1. Round(u) /\ u # timer /\ repeat'[u] = repeat[u] /\ asked'[u] = asked[u]
    BY <1>1, <1>2, <1>3 DEF WheelInv, WheelRounds
  <2>2. CASE u = t
    <3>1. asked[u] # Infinite => fired'[u] = fired[u] + 1
      BY <1>1, <1>3, <2>2
    <3>2. fired[u] \in Nat /\ asked[u] \in Nat
      BY <1>3
    <3>3. QED
      BY <1>1, <1>2, <2>1, <2>2, <3>1, <3>2 DEF Round
  <2>3. CASE u # t
    <3>1. fired'[u] = fired[u]
      BY <1>1, <1>3, <2>3
    <3>2. QED
      BY <1>1, <2>1, <2>3, <3>1 DEF Round
  <2>4. QED
    BY <2>2, <2>3
<1>9. QED
  BY <1>4, <1>5, <1>6, <1>7, <1>8 DEF WheelInv

\* A timer that is not through is put back, with one repeat less.
LEMMA RearmKeeps ==
  ASSUME WheelAssumption, WheelInv, T!Rearm
  PROVE  WheelInv'
<1> DEFINE t == timer
           ms == timeout_ms[t]
<1>1. /\ phase = "callback" /\ T!GoesOn(timer) /\ T!AddNode(bucket, t, ms)
      /\ repeat' = [repeat EXCEPT ![t] = IF @ = Infinite THEN @ ELSE @ - 1]
      /\ phase' = "sweeping" /\ timer' = NoTimer
      /\ UNCHANGED <<current, active, timeout_ms, sweep, free, nodes, inWheel, asked, fired>>
  BY DEF T!Rearm, T!memory
<1>2. /\ NoTimer \notin Timer /\ Infinite \in Nat \ {0} /\ inWheel \subseteq Timer
      /\ t \in inWheel /\ ms \in Timeouts /\ T!TypeOK /\ t \in Timer
  BY <1>1 DEF WheelAssumption, T!TimewheelAssumption, WheelInv, WheelTypes, WheelTick, T!TypeOK
<1>3. /\ depth' \in 1 .. MaxLevel + 1
      /\ \A k \in T!Level : k >= depth' => current[k] = 0
      /\ T!LevelOf(ms) \in T!Level /\ T!SlotOf(T!LevelOf(ms), ms) \in T!Slot
      /\ bucket' = T!PutAt(bucket, T!LevelOf(ms), T!SlotOf(T!LevelOf(ms), ms), t)
  BY <1>1, <1>2, AddNodeType
<1>4. bucket' \in Lists /\ HoldOnce(bucket', (inWheel \ {timer}) \cup {t})
  <2>1. /\ bucket \in Lists /\ inWheel \ {timer} \in SUBSET Timer
        /\ t \in Timer \ (inWheel \ {timer})
        /\ HoldOnce(bucket, inWheel \ {timer})
    BY <1>2 DEF T!TypeOK, Lists, Slots, WheelInv, WheelHolds
  <2>2. QED
    BY <1>3, <2>1, PutOnce
<1>5. /\ repeat \in [Timer -> 0 .. Infinite] /\ asked \in [Timer -> Nat] /\ fired \in [Timer -> Nat]
      /\ Round(t) /\ (repeat[t] = Infinite \/ repeat[t] > 1)
  BY <1>1, <1>2 DEF T!TypeOK, WheelInv, WheelTypes, WheelRounds, T!GoesOn
<1>6. WheelTypes'
  <2>1. repeat' \in [Timer -> 0 .. Infinite]
    BY <1>1, <1>2, <1>5
  <2>2. QED
    BY <1>1, <1>2, <1>3, <1>4, <2>1 DEF WheelInv, WheelTypes, T!TypeOK, Lists, Slots
<1>7. WheelTick'
  BY <1>1 DEF WheelInv, WheelTick
<1>8. WheelHolds'
  <2>1. (inWheel \ {timer}) \cup {t} = inWheel' \ {timer'}
    BY <1>1, <1>2
  <2>2. QED
    BY <1>4, <2>1, Zenon DEF WheelHolds
<1>9. WheelNodes'
  BY <1>1 DEF WheelInv, WheelNodes
<1>10. WheelRounds'
  <2> SUFFICES ASSUME NEW u \in Timer PROVE Round(u)'
    BY DEF WheelRounds
  <2>1. u # timer' /\ asked'[u] = asked[u] /\ fired'[u] = fired[u] /\ inWheel' = inWheel
    BY <1>1, <1>2
  <2>2. CASE u = t
    <3>1. repeat'[u] = IF repeat[u] = Infinite THEN repeat[u] ELSE repeat[u] - 1
      BY <1>1, <1>5, <2>2
    <3>2. fired[u] \in Nat /\ asked[u] \in Nat /\ repeat[u] \in 0 .. Infinite
      BY <1>5
    <3>3. QED
      BY <1>2, <1>5, <2>1, <2>2, <3>1, <3>2 DEF Round
  <2>3. CASE u # t
    <3>1. repeat'[u] = repeat[u]
      BY <1>1, <1>5, <2>3
    <3>2. QED
      BY <2>1, <2>3, <3>1 DEF WheelInv, WheelRounds, Round
  <2>4. QED
    BY <2>2, <2>3
<1>11. QED
  BY <1>6, <1>7, <1>8, <1>9, <1>10 DEF WheelInv

\* on_timeout has returned and its timer leaves the wheel, with a wheel more or
\* without.
LEMMA LeavesKeeps ==
  ASSUME WheelAssumption, WheelInv, phase = "callback", T!ReleaseTimer(timer),
         depth' \in 1 .. MaxLevel + 1,
         \A k \in T!Level : k >= depth' => current[k] = 0,
         UNCHANGED <<current, bucket, sweep, free, nodes>>
  PROVE  WheelInv'
<1>1. /\ timer \in inWheel /\ inWheel \subseteq Timer /\ NoTimer \notin Timer
  BY DEF WheelAssumption, T!TimewheelAssumption, WheelInv, WheelTick, WheelTypes, T!TypeOK
<1>2. /\ inWheel' = inWheel \ {timer} /\ timer' = NoTimer /\ phase' = "removing"
      /\ active' \in [Timer -> BOOLEAN] /\ repeat' \in [Timer -> 0 .. Infinite]
      /\ timeout_ms' \in [Timer -> Timeouts \cup {0}]
      /\ asked' \in [Timer -> Nat] /\ fired' \in [Timer -> Nat]
      /\ WheelTick' /\ WheelRounds'
  <2>1. timer \in {timer, NoTimer}
    OBVIOUS
  <2>2. QED
    BY <1>1, <2>1, Forgotten
<1>3. WheelTypes'
  <2>1. inWheel' \subseteq Timer
    BY <1>1, <1>2
  <2>2. QED
    BY <1>2, <2>1 DEF WheelInv, WheelTypes, T!TypeOK
<1>4. WheelHolds'
  <2>1. inWheel' \ {timer'} = inWheel \ {timer}
    BY <1>1, <1>2
  <2>2. HoldOnce(bucket, inWheel \ {timer}) /\ bucket' = bucket
    BY DEF WheelInv, WheelHolds
  <2>3. QED
    BY <2>1, <2>2, Zenon DEF WheelHolds
<1>5. WheelNodes'
  BY <1>1, <1>2, NodeInHand
<1>6. QED
  BY <1>2, <1>3, <1>4, <1>5 DEF WheelInv

\* A timer leaves the wheel after its callback.
LEMMA RearmFailsKeeps ==
  ASSUME WheelAssumption, WheelInv, T!RearmFails \/ T!LeavesWheel
  PROVE  WheelInv'
<1>1. CASE T!RearmFails
  <2>1. T!TypeOK /\ timeout_ms[timer] \in Timeouts
    BY <1>1 DEF T!RearmFails, WheelInv, WheelTypes, WheelTick
  <2>2. /\ depth' \in 1 .. MaxLevel + 1
        /\ \A k \in T!Level : k >= depth' => current[k] = 0
    BY <1>1, <2>1, NoWheelType DEF T!RearmFails
  <2>3. phase = "callback" /\ T!ReleaseTimer(timer) /\ UNCHANGED <<current, bucket, sweep, free, nodes>>
    BY <1>1 DEF T!RearmFails, T!memory
  <2>4. QED
    BY <2>2, <2>3, LeavesKeeps
<1>2. CASE T!LeavesWheel
  <2>1. /\ phase = "callback" /\ T!ReleaseTimer(timer) /\ depth' = depth
        /\ UNCHANGED <<current, bucket, sweep, free, nodes>>
    BY <1>2 DEF T!LeavesWheel, T!memory, T!wheels
  <2>2. /\ depth' \in 1 .. MaxLevel + 1
        /\ \A k \in T!Level : k >= depth' => current[k] = 0
    BY <2>1 DEF WheelInv, WheelTypes, T!TypeOK
  <2>3. QED
    BY <2>1, <2>2, LeavesKeeps
<1>3. QED
  BY <1>1, <1>2

\* Nothing is left after cra_timewheel_uninit.
LEMMA WheelUninitKeeps ==
  ASSUME WheelAssumption, WheelInv, T!Uninit
  PROVE  WheelInv'
<1>1. /\ phase = "idle" /\ phase' = "gone" /\ bucket' = [p \in T!Level \X T!Slot |-> << >>]
      /\ active' = [t \in Timer |-> t \notin Timer /\ active[t]]
      /\ repeat' = [t \in Timer |-> 0] /\ timeout_ms' = [t \in Timer |-> 0]
      /\ inWheel' = {}
      /\ asked' = [t \in Timer |-> 0] /\ fired' = [t \in Timer |-> 0]
      /\ free' = 0 /\ nodes' = 0 /\ UNCHANGED <<depth, current, sweep, timer>>
  <2>1. inWheel \subseteq Timer
    BY DEF WheelInv, WheelTypes, T!TypeOK
  <2>2. QED
    BY <2>1 DEF T!Uninit, T!Forget
<1>2. Infinite \in Nat
  BY DEF WheelAssumption, T!TimewheelAssumption
<1>3. WheelTypes'
  <2>1. active' \in [Timer -> BOOLEAN]
    BY <1>1, Zenon
  <2>2. bucket' \in Lists
    BY <1>1 DEF Lists, Slots
  <2>3. /\ repeat' \in [Timer -> 0 .. Infinite] /\ timeout_ms' \in [Timer -> Timeouts \cup {0}]
        /\ asked' \in [Timer -> Nat] /\ fired' \in [Timer -> Nat]
    BY <1>1, <1>2
  <2>4. QED
    BY <1>1, <2>1, <2>2, <2>3 DEF WheelInv, WheelTypes, T!TypeOK, Lists, Slots
<1>4. timer = NoTimer
  BY <1>1 DEF WheelInv, WheelTick
<1>5. WheelTick' /\ WheelRounds'
  BY <1>1, <1>4 DEF WheelTick, WheelRounds, Round
<1>6. WheelHolds'
  <2>1. \A p \in Slots : DOMAIN bucket'[p] = {}
    BY <1>1 DEF Slots
  <2>2. QED
    BY <1>1, <2>1 DEF WheelHolds, HoldOnce
<1>7. WheelNodes'
  BY <1>1, FS_EmptySet DEF WheelNodes
<1>8. QED
  BY <1>3, <1>5, <1>6, <1>7 DEF WheelInv

\* A step of the wheel.
LEMMA WheelKeeps ==
  ASSUME WheelAssumption, WheelInv, [T!Next]_wheelVars
  PROVE  WheelInv'
<1>1. CASE UNCHANGED wheelVars
  <2>1. UNCHANGED <<depth, current, bucket, active, repeat, timeout_ms, phase, sweep, timer,
                    free, nodes, inWheel, asked, fired>>
    BY <1>1 DEF wheelVars
  <2>2. WheelTypes' /\ WheelNodes'
    BY <2>1 DEF WheelInv, WheelTypes, T!TypeOK, WheelNodes
  <2>3. QED
    BY <2>1, <2>2, WheelsStay DEF WheelInv
<1>2. CASE T!Next
  <2>1. CASE \E t \in Timer, ms \in Timeouts, n \in Repeats : T!Add(t, ms, n)
    BY <2>1, AddKeeps
  <2>2. CASE \E ms \in Timeouts : T!AddFails(ms) \/ T!SetTimeout(ms)
    BY <2>2, AddFailsKeeps, SetTimeoutKeeps
  <2>3. CASE \E t \in Timer : T!Cancel(t) \/ T!Activate(t)
    BY <2>3, CancelKeeps
  <2>4. CASE \E t \in Timer, n \in Repeats : T!SetRepeat(t, n)
    BY <2>4, SetRepeatKeeps
  <2>5. CASE T!Sweep
    BY <2>5, SlotIsEmptyKeeps, DropInactiveKeeps, MoveDownKeeps, FireKeeps, RearmKeeps,
       RearmFailsKeeps, RemoveReturnsKeeps DEF T!Sweep
  <2>6. QED
    BY <1>2, <2>1, <2>2, <2>3, <2>4, <2>5, ReleaseFreeKeeps, TickBeginsKeeps, WheelUninitKeeps
    DEF T!Next
<1>3. QED
  BY <1>1, <1>2

\* What the invariant says of the places of the timers.
LEMMA WheelInvIsEnough ==
  ASSUME WheelInv
  PROVE  T!OnePlace /\ T!TypeOK
<1>1. \A Q : T!Cardinality(Q) = Cardinality(Q)
  BY DEF T!Cardinality, Cardinality
<1>2. ASSUME NEW t \in Timer
      PROVE  Cardinality(T!Places(t)) = IF t \in inWheel \ {timer} THEN 1 ELSE 0
  <2>1. \A x : x \in T!Places(t) <=>
                 \E p \in Slots : \E n \in DOMAIN bucket[p] : bucket[p][n] = t /\ x = <<p, n>>
    BY DEF T!Places, Slots
  <2>2. HoldOnce(bucket, inWheel \ {timer})
    BY DEF WheelInv, WheelHolds
  <2>3. CASE t \in inWheel \ {timer}
    <3>1. PICK p \in Slots : \E n \in DOMAIN bucket[p] : bucket[p][n] = t
      BY <2>2, <2>3 DEF HoldOnce
    <3>2. PICK n \in DOMAIN bucket[p] : bucket[p][n] = t
      BY <3>1
    <3>3. \A q \in Slots : \A m \in DOMAIN bucket[q] : bucket[q][m] = t => p = q /\ n = m
      BY <2>2, <3>2, InOnePlace
    <3>4. T!Places(t) = {<<p, n>>}
      BY <2>1, <3>2, <3>3
    <3>5. QED
      BY <2>3, <3>4, FS_Singleton
  <2>4. CASE t \notin inWheel \ {timer}
    <3>1. T!Places(t) = {}
      BY <2>1, <2>2, <2>4 DEF HoldOnce
    <3>2. QED
      BY <2>4, <3>1, FS_EmptySet
  <2>5. QED
    BY <2>3, <2>4
<1>3. T!OnePlace
  BY <1>1, <1>2 DEF WheelInv, WheelNodes, T!OnePlace
<1>4. QED
  BY <1>3 DEF WheelInv, WheelTypes

\* What happens to a timer that leaves the wheel in a tick.
LEMMA FiredAsAsked ==
  ASSUME WheelAssumption, WheelInv, [T!Next]_wheelVars, NEW t \in Timer,
         t \in inWheel \ inWheel', active[t], phase # "idle"
  PROVE  fired[t] = asked[t] \/ T!LevelOf(timeout_ms[t]) >= depth'
<1>1. T!DropInactive \/ T!RearmFails \/ T!LeavesWheel
  <2>1. ~UNCHANGED wheelVars
    BY DEF wheelVars
  <2>2. inWheel' \notin {inWheel} /\ \A u : inWheel' # inWheel \cup {u}
    OBVIOUS
  <2>3. QED
    BY <2>1, <2>2
    DEF T!Next, T!Add, T!AddFails, T!SetTimeout, T!Cancel, T!Activate, T!SetRepeat,
        T!ReleaseFree, T!TickBegins, T!Uninit, T!Sweep, T!SlotIsEmpty, T!MoveDown, T!Fire, T!Rearm,
        T!RemoveReturns, T!history
<1>2. ~T!DropInactive
  <2> SUFFICES ASSUME T!DropInactive PROVE FALSE
    OBVIOUS
  <2>1. ~active[Head(T!Here)] /\ inWheel' = inWheel \ {Head(T!Here)}
    BY DEF T!DropInactive, T!ReleaseTimer, T!Forget
  <2>2. t = Head(T!Here)
    BY <2>1
  <2>3. QED
    BY <2>1, <2>2
<1>3. CASE T!RearmFails
  <2>1. t = timer /\ T!NoWheel(timeout_ms[timer])
    BY <1>3 DEF T!RearmFails, T!ReleaseTimer, T!Forget
  <2>2. T!TypeOK /\ timeout_ms[t] \in Timeouts
    BY DEF WheelInv, WheelTypes, WheelTick
  <2>3. QED
    BY <2>1, <2>2, NoWheelType
<1>4. CASE T!LeavesWheel
  <2>1. t = timer /\ ~T!GoesOn(timer)
    BY <1>4 DEF T!LeavesWheel, T!ReleaseTimer, T!Forget
  <2>2. repeat[t] # Infinite /\ ~(repeat[t] > 1)
    BY <2>1 DEF T!GoesOn
  <2>3. Round(t) /\ fired[t] \in Nat /\ asked[t] \in Nat /\ repeat[t] \in 0 .. Infinite /\ Infinite \in Nat
    BY DEF WheelInv, WheelTypes, WheelRounds, T!TypeOK, WheelAssumption, T!TimewheelAssumption
  <2>4. QED
    BY <2>1, <2>2, <2>3 DEF Round
<1>5. QED
  BY <1>1, <1>2, <1>3, <1>4

(***************************************************************************)
(* The arguments of a program: which of them are values.                   *)
(***************************************************************************)
\* Two sequences in a row, once more.
LEMMA CatIs ==
  ASSUME NEW S, NEW s \in Seq(S), NEW t \in Seq(S)
  PROVE  /\ s \o t \in Seq(S) /\ Len(s \o t) = Len(s) + Len(t)
         /\ \A k \in 1 .. Len(s) : (s \o t)[k] = s[k]
         /\ \A k \in 1 .. Len(t) : (s \o t)[Len(s) + k] = t[k]
OBVIOUS

\* Does argument k ask for a value?
Asks(k) == \E e \in A!Matching(argv[k]) : table[e].func # "none"

\* IsValue, as a function each of whose values follows from the one before.
IsAlternating(f, n) == \A k \in 0 .. n : f[k] = (k > 1 /\ ~f[k - 1] /\ Asks(k - 1))

\* Which arguments are values.
LEMMA WhichAreValues ==
  /\ A!IsValue \in [0 .. MaxArgs -> BOOLEAN]
  /\ \A k \in 0 .. MaxArgs : A!IsValue[k] = (k > 1 /\ ~A!IsValue[k - 1] /\ Asks(k - 1))
<1>1. MaxArgs \in Nat
  BY PrimitivesAssumption DEF A!MainArgAssumption
<1> DEFINE S == {n \in Nat : \E f \in [0 .. n -> BOOLEAN] : IsAlternating(f, n)}
<1>2. 0 \in S
  <2> DEFINE f == [k \in 0 .. 0 |-> FALSE]
  <2>1. f \in [0 .. 0 -> BOOLEAN]
    BY Zenon
  <2>2. \A k \in 0 .. 0 : ~(k > 1) /\ f[k] = FALSE
    OBVIOUS
  <2>3. IsAlternating(f, 0)
    BY <2>2, Zenon DEF IsAlternating
  <2>4. QED
    BY <2>1, <2>3
<1>3. ASSUME NEW n \in Nat, n \in S
      PROVE  n + 1 \in S
  <2>1. PICK f \in [0 .. n -> BOOLEAN] : IsAlternating(f, n)
    BY <1>3
  <2> DEFINE m == n + 1
             e == m > 1 /\ ~f[n] /\ Asks(n)
             g == [k \in 0 .. m |-> IF k = m THEN e ELSE f[k]]
  <2>2. e \in BOOLEAN
    OBVIOUS
  <2>3. g \in [0 .. m -> BOOLEAN]
    <3>1. \A k \in 0 .. m : k = m \/ k \in 0 .. n
      OBVIOUS
    <3> HIDE DEF e
    <3>2. \A k \in 0 .. m : (IF k = m THEN e ELSE f[k]) \in BOOLEAN
      BY <2>2, <3>1, Zenon
    <3>3. QED
      BY <3>2, Zenon
  <2>4. IsAlternating(g, m)
    <3> SUFFICES ASSUME NEW k \in 0 .. m
                 PROVE  g[k] = (k > 1 /\ ~g[k - 1] /\ Asks(k - 1))
      BY DEF IsAlternating
    <3>1. CASE k = m
      <4>1. g[k] = e /\ k - 1 = n /\ g[n] = f[n]
        BY <3>1
      <4>2. QED
        BY <3>1, <4>1
    <3>2. CASE k # m
      <4>1. k \in 0 .. n /\ (k # 0 => k - 1 \in 0 .. n)
        BY <3>2
      <4>2. g[k] = f[k] /\ (k # 0 => g[k - 1] = f[k - 1])
        BY <4>1
      <4>3. f[k] = (k > 1 /\ ~f[k - 1] /\ Asks(k - 1))
        BY <2>1, <4>1 DEF IsAlternating
      <4>4. QED
        BY <4>2, <4>3
    <3>3. QED
      BY <3>1, <3>2
  <2>5. QED
    BY <2>3, <2>4
<1>4. \A n \in Nat : n \in S
  BY <1>2, <1>3, SetInduction
<1>5. PICK f \in [0 .. MaxArgs -> BOOLEAN] : IsAlternating(f, MaxArgs)
  BY <1>1, <1>4
<1>6. f = [k \in 0 .. MaxArgs |-> k > 1 /\ ~f[k - 1] /\ Asks(k - 1)]
  BY <1>1, <1>5 DEF IsAlternating
<1>7. A!IsValue = [k \in 0 .. MaxArgs |-> k > 1 /\ ~A!IsValue[k - 1] /\ Asks(k - 1)]
  BY <1>6, Zenon DEF A!IsValue, Asks
<1>8. QED
  BY <1>7

\* They stay the same while the arguments are read.
LEMMA ValuesStay ==
  ASSUME UNCHANGED <<table, items, argv>>
  PROVE  /\ \A k \in 0 .. MaxArgs : A!IsValue[k]' = A!IsValue[k]
         /\ \A a : A!Matching(a)' = A!Matching(a)
<1>1. \A a : A!Matching(a)' = A!Matching(a)
  BY DEF A!Matching
<1>2. \A k : Asks(k)' = Asks(k)
  BY <1>1 DEF Asks
<1>3. \A k \in 0 .. MaxArgs : A!IsValue[k] = (k > 1 /\ ~A!IsValue[k - 1] /\ Asks(k - 1))
  BY WhichAreValues
<1>4. \A k \in 0 .. MaxArgs : A!IsValue[k]' = (k > 1 /\ ~A!IsValue[k - 1]' /\ Asks(k - 1)')
  <2>1. (\A k \in 0 .. MaxArgs : A!IsValue[k] = (k > 1 /\ ~A!IsValue[k - 1] /\ Asks(k - 1)))'
    BY WhichAreValues, PTL
  <2>2. QED
    BY <2>1
<1>5. MaxArgs \in Nat
  BY PrimitivesAssumption DEF A!MainArgAssumption
<1> DEFINE S == {n \in Nat : n <= MaxArgs => A!IsValue[n]' = A!IsValue[n]}
<1>6. 0 \in S
  BY <1>3, <1>4, <1>5
<1>7. ASSUME NEW n \in Nat, n \in S
      PROVE  n + 1 \in S
  <2> SUFFICES ASSUME n + 1 <= MaxArgs PROVE A!IsValue[n + 1]' = A!IsValue[n + 1]
    OBVIOUS
  <2>1. n + 1 \in 0 .. MaxArgs /\ (n + 1) - 1 = n /\ A!IsValue[n]' = A!IsValue[n] /\ Asks(n)' = Asks(n)
    BY <1>2, <1>5, <1>7
  <2>2. A!IsValue[n + 1] = (n + 1 > 1 /\ ~A!IsValue[n] /\ Asks(n))
    BY <1>3, <2>1
  <2>3. A!IsValue[n + 1]' = (n + 1 > 1 /\ ~A!IsValue[n]' /\ Asks(n)')
    BY <1>4, <2>1
  <2>4. QED
    BY <2>1, <2>2, <2>3
<1>8. \A n \in Nat : n \in S
  BY <1>6, <1>7, SetInduction
<1>9. QED
  BY <1>1, <1>5, <1>8

(***************************************************************************)
(* The arguments of a program: the inductive invariant, and who keeps it.  *)
(***************************************************************************)
\* The names of options, and what an element may have for a value.
Names  == {"v", "h", "verbose"}
Values == {<<"none">>} \cup UNION {A!Converted(f, a) : f \in A!Functions, a \in A!Arguments}

\* The table, and what is kept of its elements.
ArgTypes ==
  /\ table \in Seq(A!Elements) /\ items \in Seq(Names \X Nat)
  /\ assigned \in Seq(BOOLEAN) /\ Len(assigned) = Len(table)
  /\ val \in Seq(Values) /\ Len(val) = Len(table)
  /\ pos_args \in Seq(A!Arguments)

\* A name stands for one element.
NamesStand ==
  /\ \A n \in 1 .. Len(items) : items[n][2] \in 1 .. Len(table)
  /\ \A m, n \in 1 .. Len(items) : items[m][1] = items[n][1] => m = n

\* Nothing was read while the table is built.
Unread == parsing = "build" => i = 1 /\ pos_args = <<>> /\ \A e \in 1 .. Len(table) : ~assigned[e]

\* Of the first n arguments, the last one that names element e has given its
\* value, if one has.
LastGave(e, n) ==
  IF A!Given(e, n) = {} THEN ~assigned[e]
  ELSE /\ assigned[e]
       /\ \E k \in A!Given(e, n) : /\ \A j \in A!Given(e, n) : j <= k
                                   /\ val[e] \in A!Converted(table[e].func, argv[A!ValueAt(e, k)])

\* The positional arguments are those of the first n that name nothing.
InOrder(n) ==
  /\ Len(pos_args) = Cardinality(A!Others(n))
  /\ \A k \in A!Others(n) : pos_args[Cardinality(A!Others(k))] = argv[k]

\* What was read is where it belongs, and the next argument is not a value.
Read ==
  parsing \in {"parse", "done"} =>
    /\ argv \in Seq(A!Arguments) /\ Len(argv) <= MaxArgs
    /\ \E n \in 0 .. Len(argv) :
         /\ i = n + 1 /\ (parsing = "done" => n = Len(argv))
         /\ n < Len(argv) => ~A!IsValue[n + 1]
         /\ InOrder(n)
         /\ \A e \in 1 .. Len(table) : LastGave(e, n)

\* The inductive invariant.
ArgInv == ArgTypes /\ NamesStand /\ Unread /\ Read

\* An argument names one element at most.
LEMMA OneMatch ==
  ASSUME ArgTypes, NamesStand, NEW a, NEW e \in A!Matching(a)
  PROVE  A!Matching(a) = {e} /\ e \in 1 .. Len(table)
<1>1. PICK k \in DOMAIN items : items[k][1] = a[2] /\ e = items[k][2]
  BY DEF A!Matching
<1>2. DOMAIN items = 1 .. Len(items)
  BY DEF ArgTypes
<1>3. \A n \in DOMAIN items : items[n][1] = a[2] => n = k
  BY <1>1, <1>2 DEF NamesStand
<1>4. e \in 1 .. Len(table)
  BY <1>1, <1>2 DEF NamesStand
<1>5. \A f \in A!Matching(a) : f = e
  BY <1>1, <1>3, Zenon DEF A!Matching
<1>6. QED
  BY <1>4, <1>5

\* The names that an element of the table adds.
LEMMA NamesAre ==
  ASSUME NEW e \in A!Elements, A!WellMade(e)
  PROVE  /\ A!NamesOf(e) \in Seq(Names)
         /\ \A k, m \in 1 .. Len(A!NamesOf(e)) : A!NamesOf(e)[k] = A!NamesOf(e)[m] => k = m
         /\ \A k \in 1 .. Len(A!NamesOf(e)) : ~A!Named(items, A!NamesOf(e)[k])
<1>1. e.op \in A!Ops /\ e.option \in A!Options
  BY DEF A!Elements
<1> DEFINE x == e.op
           y == e.option
<1>2. x # <<>> => x[2] \in Names
  <2>1. x = <<>> \/ x[2] \in {"v", "h"}
    BY <1>1 DEF A!Ops
  <2>2. QED
    BY <2>1 DEF Names
<1>3. y # <<>> => y[2] \in Names
  <2>1. y = <<>> \/ y[2] \in {"v", "verbose"}
    BY <1>1 DEF A!Options
  <2>2. QED
    BY <2>1 DEF Names
<1>4. x # <<>> => x[2] \in A!OneLetter
  BY DEF A!WellMade
<1>5. y # <<>> => y[2] \notin A!OneLetter
  BY DEF A!WellMade
<1>6. A!NamesOf(e) = (IF x = <<>> THEN <<>> ELSE <<x[2]>>) \o (IF y = <<>> THEN <<>> ELSE <<y[2]>>)
  BY DEF A!NamesOf
<1>7. \A k \in 1 .. Len(A!NamesOf(e)) : ~A!Named(items, A!NamesOf(e)[k])
  BY DEF A!WellMade
<1> HIDE DEF x, y
<1> DEFINE p == x[2]
           q == y[2]
<1>8. CASE x = <<>> /\ y = <<>>
  <2>1. A!NamesOf(e) = <<>>
    BY <1>6, <1>8
  <2>2. QED
    BY <1>7, <2>1
<1>9. CASE x # <<>> /\ y = <<>>
  <2>1. A!NamesOf(e) = <<p>> /\ p \in Names
    BY <1>2, <1>6, <1>9
  <2> HIDE DEF p
  <2>2. QED
    BY <1>7, <2>1
<1>10. CASE x = <<>> /\ y # <<>>
  <2>1. A!NamesOf(e) = <<q>> /\ q \in Names
    BY <1>3, <1>6, <1>10
  <2> HIDE DEF q
  <2>2. QED
    BY <1>7, <2>1
<1>11. CASE x # <<>> /\ y # <<>>
  <2>1. /\ A!NamesOf(e) \in Seq(Names) /\ Len(A!NamesOf(e)) = 2
        /\ A!NamesOf(e)[1] = p /\ A!NamesOf(e)[2] = q
        /\ p # q
    <3>1. p \in Names /\ q \in Names
      BY <1>2, <1>3, <1>11
    <3>2. p # q
      BY <1>4, <1>5, <1>11, Zenon
    <3>3. A!NamesOf(e) = <<p>> \o <<q>>
      BY <1>6, <1>11, Zenon
    <3> HIDE DEF p, q
    <3>4. <<p>> \in Seq(Names) /\ <<q>> \in Seq(Names) /\ <<p>>[1] = p /\ <<q>>[1] = q
      BY <3>1
    <3>5. QED
      BY <3>1, <3>2, <3>3, <3>4, CatAt
  <2> HIDE DEF p, q
  <2>2. \A k \in 1 .. 2 : k = 1 \/ k = 2
    OBVIOUS
  <2>3. \A k, m \in 1 .. 2 : A!NamesOf(e)[k] = A!NamesOf(e)[m] => k = m
    BY <2>1, <2>2
  <2>4. QED
    BY <1>7, <2>1, <2>3
<1>12. QED
  BY <1>8, <1>9, <1>10, <1>11

\* Nothing has been read of what is made.
LEMMA ArgInit ==
  ASSUME A!Init
  PROVE  ArgInv
<1>1. ArgTypes
  BY DEF A!Init, ArgTypes
<1>2. NamesStand
  BY DEF A!Init, NamesStand
<1>3. Unread
  BY DEF A!Init, Unread
<1>4. Read
  BY DEF A!Init, Read
<1>5. QED
  BY <1>1, <1>2, <1>3, <1>4 DEF ArgInv

\* An element joins the table with its names.
LEMMA AddItemKeeps ==
  ASSUME ArgInv, A!AddItem
  PROVE  ArgInv'
<1>1. PICK e \in A!Elements :
        IF A!WellMade(e)
        THEN /\ table' = Append(table, e)
             /\ items' = items \o [k \in 1 .. Len(A!NamesOf(e)) |-> <<A!NamesOf(e)[k], Len(table) + 1>>]
             /\ assigned' = Append(assigned, FALSE) /\ val' = Append(val, <<"none">>)
             /\ UNCHANGED parsing
        ELSE parsing' = "error" /\ UNCHANGED <<table, items, assigned, val>>
  BY DEF A!AddItem
<1>2. parsing = "build" /\ UNCHANGED <<argv, i, pos_args>>
  BY DEF A!AddItem
<1>3. CASE ~A!WellMade(e)
  <2>1. parsing' = "error" /\ UNCHANGED <<table, items, assigned, val>>
    BY <1>1, <1>3
  <2>2. QED
    BY <1>2, <2>1 DEF ArgInv, ArgTypes, NamesStand, Unread, Read
<1>4. CASE A!WellMade(e)
  <2> DEFINE names == A!NamesOf(e)
             new == [k \in 1 .. Len(names) |-> <<names[k], Len(table) + 1>>]
             x == <<"none">>
  <2>1. /\ table' = Append(table, e) /\ items' = items \o new
        /\ assigned' = Append(assigned, FALSE) /\ val' = Append(val, x)
        /\ parsing' = parsing
    BY <1>1, <1>4
  <2>2. /\ names \in Seq(Names)
        /\ \A k, m \in 1 .. Len(names) : names[k] = names[m] => k = m
        /\ \A k \in 1 .. Len(names) : ~A!Named(items, names[k])
    BY <1>4, NamesAre
  <2>3. ArgTypes /\ NamesStand /\ Unread
    BY DEF ArgInv
  <2>4. x \in Values
    BY DEF Values
  <2> HIDE DEF names, x
  <2>5. Len(table) \in Nat /\ Len(names) \in Nat
    BY <2>2, <2>3 DEF ArgTypes
  <2>6. \A k \in 1 .. Len(names) : names[k] \in Names
    BY <2>2
  <2>7. new \in Seq(Names \X Nat) /\ Len(new) = Len(names)
    <3>1. new \in [1 .. Len(names) -> Names \X Nat]
      BY <2>5, <2>6
    <3> HIDE DEF new
    <3>2. QED
      BY <2>5, <3>1
  <2>8. \A k \in 1 .. Len(names) : new[k] = <<names[k], Len(table) + 1>>
    OBVIOUS
  <2> HIDE DEF new
  <2>9. /\ items' \in Seq(Names \X Nat) /\ Len(items') = Len(items) + Len(names) /\ Len(items) \in Nat
        /\ \A n \in 1 .. Len(items) : items'[n] = items[n]
        /\ \A n \in 1 .. Len(items') : n \notin 1 .. Len(items) =>
             n - Len(items) \in 1 .. Len(names) /\ items'[n] = new[n - Len(items)]
    <3>1. items \in Seq(Names \X Nat)
      BY <2>3 DEF ArgTypes
    <3>2. items' = items \o new
      BY <2>1
    <3> DEFINE u == items'
    <3>3. /\ u \in Seq(Names \X Nat) /\ Len(u) = Len(items) + Len(new)
          /\ \A k \in 1 .. Len(items) : u[k] = items[k]
          /\ \A k \in 1 .. Len(new) : u[Len(items) + k] = new[k]
      <4>1. new \in Seq(Names \X Nat)
        BY <2>7
      <4>2. QED
        BY ONLY <3>1, <3>2, <4>1, CatIs
    <3> HIDE DEF u
    <3>4. Len(items) \in Nat
      BY <3>1
    <3>5. ASSUME NEW n \in 1 .. Len(u), n \notin 1 .. Len(items)
          PROVE  n - Len(items) \in 1 .. Len(names) /\ u[n] = new[n - Len(items)]
      <4>1. n - Len(items) \in 1 .. Len(new) /\ Len(items) + (n - Len(items)) = n
        BY <2>5, <2>7, <3>3, <3>4, <3>5
      <4>2. u[Len(items) + (n - Len(items))] = new[n - Len(items)]
        BY <3>3, <4>1
      <4>3. QED
        BY <2>7, <4>1, <4>2
    <3>6. Len(u) = Len(items) + Len(names)
      BY <2>7, <3>3
    <3>7. QED
      BY <3>3, <3>4, <3>5, <3>6 DEF u
  <2>10. ArgTypes'
    <3>1. table' \in Seq(A!Elements) /\ Len(table') = Len(table) + 1
      BY <2>1, <2>3 DEF ArgTypes
    <3>2. assigned' \in Seq(BOOLEAN) /\ Len(assigned') = Len(assigned) + 1
      BY <2>1, <2>3 DEF ArgTypes
    <3>3. val' \in Seq(Values) /\ Len(val') = Len(val) + 1
      BY <2>1, <2>3, <2>4 DEF ArgTypes
    <3>4. QED
      BY <1>2, <2>3, <2>9, <3>1, <3>2, <3>3 DEF ArgTypes
  <2>11. NamesStand'
    <3>1. \A n \in 1 .. Len(items') : items'[n][2] \in 1 .. Len(table) + 1
      <4> SUFFICES ASSUME NEW n \in 1 .. Len(items') PROVE items'[n][2] \in 1 .. Len(table) + 1
        OBVIOUS
      <4>1. CASE n \in 1 .. Len(items)
        <5>1. items[n][2] \in 1 .. Len(table)
          BY <2>3, <4>1 DEF NamesStand
        <5>2. QED
          BY <2>5, <2>9, <4>1, <5>1
      <4>2. CASE n \notin 1 .. Len(items)
        <5>1. items'[n] = new[n - Len(items)] /\ n - Len(items) \in 1 .. Len(names)
          BY <2>9, <4>2
        <5>2. new[n - Len(items)] = <<names[n - Len(items)], Len(table) + 1>>
          BY <2>8, <5>1
        <5>3. QED
          BY <2>5, <5>1, <5>2
      <4>3. QED
        BY <4>1, <4>2
    <3>2. Len(table') = Len(table) + 1
      BY <2>1, <2>3 DEF ArgTypes
    <3>3. ASSUME NEW m \in 1 .. Len(items'), NEW n \in 1 .. Len(items'), items'[m][1] = items'[n][1]
          PROVE  m = n
      <4> DEFINE c == Len(items)
      <4>1. \A k \in 1 .. c, j \in 1 .. Len(names) : items[k][1] # names[j]
        BY <2>2, <2>3 DEF A!Named, ArgTypes
      <4>2. ASSUME NEW k \in 1 .. Len(items'), k \notin 1 .. c
            PROVE  items'[k][1] = names[k - c] /\ k - c \in 1 .. Len(names)
        <5>1. items'[k] = new[k - c] /\ k - c \in 1 .. Len(names)
          BY <2>9, <4>2
        <5>2. new[k - c] = <<names[k - c], Len(table) + 1>>
          BY <2>8, <5>1
        <5>3. QED
          BY <5>1, <5>2
      <4>3. CASE m \in 1 .. c /\ n \in 1 .. c
        BY <2>3, <2>9, <3>3, <4>3 DEF NamesStand
      <4>4. CASE m \in 1 .. c /\ n \notin 1 .. c
        <5>1. items'[m][1] = items[m][1] /\ items'[n][1] = names[n - c] /\ n - c \in 1 .. Len(names)
          BY <2>9, <4>2, <4>4
        <5>2. QED
          BY <3>3, <4>1, <4>4, <5>1
      <4>5. CASE m \notin 1 .. c /\ n \in 1 .. c
        <5>1. items'[n][1] = items[n][1] /\ items'[m][1] = names[m - c] /\ m - c \in 1 .. Len(names)
          BY <2>9, <4>2, <4>5
        <5>2. QED
          BY <3>3, <4>1, <4>5, <5>1
      <4>6. CASE m \notin 1 .. c /\ n \notin 1 .. c
        <5>1. m - c = n - c
          BY <2>2, <3>3, <4>2, <4>6
        <5>2. QED
          BY <2>9, <5>1
      <4>7. QED
        BY <4>3, <4>4, <4>5, <4>6
    <3>4. QED
      BY <3>1, <3>2, <3>3 DEF NamesStand
  <2>12. Unread'
    <3>1. \A f \in 1 .. Len(table') : ~assigned'[f]
      <4>1. assigned \in Seq(BOOLEAN) /\ Len(table') = Len(assigned) + 1 /\ Len(assigned) = Len(table)
        BY <2>1, <2>3 DEF ArgTypes
      <4>2. \A f \in 1 .. Len(assigned) : assigned[f] = FALSE
        BY <1>2, <2>3, <4>1 DEF Unread
      <4>3. \A f \in 1 .. Len(assigned) + 1 : assigned'[f] = FALSE
        BY <2>1, <4>1, <4>2
      <4>4. QED
        BY <4>1, <4>3
    <3>2. i = 1 /\ pos_args = <<>>
      BY <1>2, <2>3 DEF Unread
    <3>3. QED
      BY <1>2, <3>1, <3>2 DEF Unread
  <2>13. Read'
    BY <1>2, <2>1 DEF Read
  <2>14. QED
    BY <2>10, <2>11, <2>12, <2>13 DEF ArgInv
<1>5. QED
  BY <1>3, <1>4

\* The arguments, one more.
LEMMA OneMoreRead ==
  ASSUME NEW n \in Nat
  PROVE  /\ \A e : A!Given(e, n + 1) = A!Given(e, n) \cup
                     IF ~A!IsValue[n + 1] /\ e \in A!Matching(argv[n + 1]) THEN {n + 1} ELSE {}
         /\ A!Others(n + 1) = A!Others(n) \cup
                     IF ~A!IsValue[n + 1] /\ A!Matching(argv[n + 1]) = {} THEN {n + 1} ELSE {}
<1>1. 1 .. n + 1 = 1 .. n \cup {n + 1}
  OBVIOUS
<1>2. QED
  BY <1>1 DEF A!Given, A!Others

\* There are so many of them.
LEMMA OthersCounted ==
  ASSUME NEW n \in Nat
  PROVE  /\ A!Others(n) \subseteq 1 .. n /\ IsFiniteSet(A!Others(n)) /\ Cardinality(A!Others(n)) \in Nat
         /\ \A k \in A!Others(n) : Cardinality(A!Others(k)) \in 1 .. Cardinality(A!Others(n))
         /\ \A e : A!Given(e, n) \subseteq 1 .. n
<1>1. A!Others(n) \subseteq 1 .. n /\ \A e : A!Given(e, n) \subseteq 1 .. n
  BY DEF A!Others, A!Given
<1>2. IsFiniteSet(A!Others(n)) /\ Cardinality(A!Others(n)) \in Nat
  <2>1. IsFiniteSet(1 .. n)
    BY FS_Interval
  <2>2. IsFiniteSet(A!Others(n))
    BY <1>1, <2>1, FS_Subset
  <2>3. QED
    BY <2>2, FS_CardinalityType
<1>3. ASSUME NEW k \in A!Others(n)
      PROVE  Cardinality(A!Others(k)) \in 1 .. Cardinality(A!Others(n))
  <2>1. k \in A!Others(k) /\ A!Others(k) \subseteq A!Others(n)
    BY <1>1 DEF A!Others
  <2>2. IsFiniteSet(A!Others(k)) /\ Cardinality(A!Others(k)) \in Nat
        /\ Cardinality(A!Others(k)) <= Cardinality(A!Others(n))
    BY <1>2, <2>1, FS_Subset, FS_CardinalityType
  <2>3. Cardinality(A!Others(k)) # 0
    BY <2>1, <2>2, FS_EmptySet
  <2>4. QED
    BY <1>2, <2>2, <2>3
<1>4. QED
  BY <1>1, <1>2, <1>3

\* What was read stays what it is.
LEMMA SetsStay ==
  ASSUME UNCHANGED <<table, items, argv>>
  PROVE  \A n \in 0 .. MaxArgs : A!Others(n)' = A!Others(n) /\ \A e : A!Given(e, n)' = A!Given(e, n)
<1> SUFFICES ASSUME NEW n \in 0 .. MaxArgs
             PROVE  A!Others(n)' = A!Others(n) /\ \A e : A!Given(e, n)' = A!Given(e, n)
  OBVIOUS
<1>1. MaxArgs \in Nat
  BY PrimitivesAssumption DEF A!MainArgAssumption
<1>2. \A k \in 1 .. n : A!IsValue[k]' = A!IsValue[k] /\ A!Matching(argv[k])' = A!Matching(argv[k])
  <2>1. \A k \in 1 .. n : k \in 0 .. MaxArgs
    BY <1>1
  <2>2. \A k \in 1 .. n : A!IsValue[k]' = A!IsValue[k]
    BY <2>1, ValuesStay, Zenon
  <2>3. \A k : A!Matching(argv[k])' = A!Matching(argv[k])
    BY DEF A!Matching
  <2>4. QED
    BY <2>2, <2>3, Zenon
<1>3. A!Others(n)' = A!Others(n)
  BY <1>2 DEF A!Others
<1>4. \A e : A!Given(e, n)' = A!Given(e, n)
  BY <1>2 DEF A!Given
<1>5. QED
  BY <1>3, <1>4

\* A value that is kept for what was read stays right.
LEMMA GaveStays ==
  ASSUME UNCHANGED <<table, items, argv>>, NEW e, NEW n \in 0 .. MaxArgs, NEW m \in 0 .. MaxArgs,
         LastGave(e, n), A!Given(e, m) = A!Given(e, n), assigned'[e] = assigned[e], val'[e] = val[e]
  PROVE  LastGave(e, m)'
<1>1. A!Given(e, m)' = A!Given(e, n)
  BY SetsStay
<1>2. \A k : A!ValueAt(e, k)' = A!ValueAt(e, k)
  BY DEF A!ValueAt
<1>3. QED
  BY <1>1, <1>2, Zenon DEF LastGave, A!Converted

\* Positional arguments stay in their order.
LEMMA OrderStays ==
  ASSUME UNCHANGED <<table, items, argv, pos_args>>, NEW n \in 0 .. MaxArgs, NEW m \in 0 .. MaxArgs,
         InOrder(n), A!Others(m) = A!Others(n)
  PROVE  InOrder(m)'
<1>1. A!Others(m)' = A!Others(n)
  BY SetsStay
<1>2. MaxArgs \in Nat
  BY PrimitivesAssumption DEF A!MainArgAssumption
<1>3. \A k \in A!Others(n) : k \in 0 .. MaxArgs
  BY <1>2, OthersCounted
<1>4. \A k \in A!Others(n) : A!Others(k)' = A!Others(k)
  BY <1>3, SetsStay
<1>5. QED
  BY <1>1, <1>4 DEF InOrder

\* The program is run.
LEMMA StartKeeps ==
  ASSUME ArgInv, A!Start
  PROVE  ArgInv'
<1>1. /\ parsing = "build" /\ parsing' = "parse"
      /\ argv' \in UNION {[1 .. n -> A!Arguments] : n \in 0 .. MaxArgs}
      /\ UNCHANGED <<table, items, i, assigned, val, pos_args>>
  BY DEF A!Start
<1>2. MaxArgs \in Nat
  BY PrimitivesAssumption DEF A!MainArgAssumption
<1>3. ArgTypes /\ NamesStand /\ Unread
  BY DEF ArgInv
<1>4. ArgTypes' /\ NamesStand' /\ Unread'
  BY <1>1, <1>3 DEF ArgTypes, NamesStand, Unread
<1>5. PICK n \in 0 .. MaxArgs : argv' \in [1 .. n -> A!Arguments]
  BY <1>1
<1>6. argv' \in Seq(A!Arguments) /\ Len(argv') <= MaxArgs /\ Len(argv') \in Nat
  BY <1>2, <1>5
<1>7. 0 < Len(argv') => ~A!IsValue[1]'
  <2>1. (\A k \in 0 .. MaxArgs : A!IsValue[k] = (k > 1 /\ ~A!IsValue[k - 1] /\ Asks(k - 1)))'
    BY WhichAreValues, PTL
  <2>2. \A k \in 0 .. MaxArgs : A!IsValue[k]' => k > 1
    BY <2>1, Zenon
  <2>3. 0 < Len(argv') => 1 \in 0 .. MaxArgs
    BY <1>2, <1>6
  <2>4. ~(1 > 1)
    OBVIOUS
  <2>5. QED
    BY <2>2, <2>3, <2>4, Zenon
<1>8. A!Others(0)' = {} /\ \A e : A!Given(e, 0)' = {}
  BY DEF A!Others, A!Given
<1>9. InOrder(0)'
  <2>1. Len(pos_args') = 0
    BY <1>1, <1>3 DEF Unread
  <2>2. Cardinality({}) = 0
    BY FS_EmptySet
  <2>3. QED
    BY <1>8, <2>1, <2>2 DEF InOrder
<1>10. \A e \in 1 .. Len(table') : LastGave(e, 0)'
  BY <1>1, <1>3, <1>8 DEF LastGave, Unread
<1>11. Read'
  <2>1. 0 \in 0 .. Len(argv') /\ i' = 0 + 1
    BY <1>1, <1>3, <1>6 DEF Unread
  <2>2. 0 < Len(argv') => ~A!IsValue[0 + 1]'
    BY <1>7
  <2>3. parsing' # "done"
    BY <1>1
  <2>4. QED
    BY <1>6, <1>9, <1>10, <2>1, <2>2, <2>3 DEF Read
<1>12. QED
  BY <1>4, <1>11 DEF ArgInv

\* What is known when an argument is read.
LEMMA NextArgument ==
  ASSUME ArgInv, parsing = "parse", i <= Len(argv)
  PROVE  \E n \in 0 .. MaxArgs :
           /\ Len(argv) \in Nat /\ i = n + 1 /\ n + 1 <= Len(argv) /\ n + 1 \in 0 .. MaxArgs
           /\ argv \in Seq(A!Arguments) /\ Len(argv) <= MaxArgs
           /\ ~A!IsValue[n + 1]
           /\ InOrder(n)
           /\ \A e \in 1 .. Len(table) : LastGave(e, n)
           /\ n + 2 \in 0 .. MaxArgs => A!IsValue[n + 2] = Asks(n + 1)
           /\ n + 3 \in 0 .. MaxArgs /\ Asks(n + 1) => ~A!IsValue[n + 3]
<1>1. Read
  BY DEF ArgInv
<1>2. MaxArgs \in Nat
  BY PrimitivesAssumption DEF A!MainArgAssumption
<1>3. argv \in Seq(A!Arguments) /\ Len(argv) <= MaxArgs /\ Len(argv) \in Nat
  BY <1>1 DEF Read
<1>4. PICK n \in 0 .. Len(argv) :
         /\ i = n + 1
         /\ n < Len(argv) => ~A!IsValue[n + 1]
         /\ InOrder(n)
         /\ \A e \in 1 .. Len(table) : LastGave(e, n)
  BY <1>1 DEF Read
<1>5. n \in 0 .. MaxArgs /\ n + 1 \in 0 .. MaxArgs /\ n + 1 <= Len(argv) /\ n < Len(argv)
  BY <1>2, <1>3, <1>4
<1>6. \A k \in 0 .. MaxArgs : A!IsValue[k] = (k > 1 /\ ~A!IsValue[k - 1] /\ Asks(k - 1))
  BY WhichAreValues
<1>7. ASSUME n + 2 \in 0 .. MaxArgs PROVE A!IsValue[n + 2] = Asks(n + 1)
  <2>1. n + 2 > 1 /\ (n + 2) - 1 = n + 1
    BY <1>5
  <2>2. A!IsValue[n + 2] = (n + 2 > 1 /\ ~A!IsValue[n + 1] /\ Asks(n + 1))
    BY <1>6, <1>7, <2>1
  <2>3. Asks(n + 1) \in BOOLEAN
    BY DEF Asks
  <2>4. QED
    BY <1>4, <1>5, <2>1, <2>2, <2>3
<1>8. ASSUME n + 3 \in 0 .. MaxArgs, Asks(n + 1) PROVE ~A!IsValue[n + 3]
  <2>1. n + 2 \in 0 .. MaxArgs /\ (n + 3) - 1 = n + 2
    BY <1>2, <1>5, <1>8
  <2>2. A!IsValue[n + 2]
    BY <1>7, <1>8, <2>1
  <2>3. A!IsValue[n + 3] = (n + 3 > 1 /\ ~A!IsValue[n + 2] /\ Asks(n + 2))
    BY <1>6, <1>8, <2>1
  <2>4. QED
    BY <2>2, <2>3
<1>9. QED
  BY <1>3, <1>4, <1>5, <1>7, <1>8, Zenon

\* A converted argument is a value.
LEMMA ConvertedIsValue ==
  ASSUME ArgTypes, NEW e \in 1 .. Len(table), NEW a \in A!Arguments, NEW v \in A!Converted(table[e].func, a)
  PROVE  v \in Values
<1>1. table[e].func \in A!Functions
  <2>1. table[e] \in A!Elements
    BY DEF ArgTypes
  <2>2. QED
    BY <2>1 DEF A!Elements
<1>2. QED
  BY <1>1 DEF Values

\* An option is read, with its value or without.
LEMMA ParseOptionKeeps ==
  ASSUME ArgInv, parsing = "parse", i <= Len(argv), UNCHANGED <<table, items, argv, pos_args>>,
         NEW e \in A!Matching(argv[i]), A!ParseOption(e)
  PROVE  ArgInv'
<1>1. ArgTypes /\ NamesStand
  BY DEF ArgInv
<1>2. A!Matching(argv[i]) = {e} /\ e \in 1 .. Len(table)
  BY <1>1, OneMatch
<1> DEFINE func == table[e].func
           a == IF func = "none" THEN argv[i] ELSE argv[i + 1]
<1>3. CASE func # "none" /\ (i = Len(argv) \/ A!Converted(func, argv[i + 1]) = {})
  <2>1. parsing' = "error" /\ UNCHANGED <<i, assigned, val>>
    BY <1>3, Zenon DEF A!ParseOption
  <2>2. QED
    BY <1>1, <2>1 DEF ArgInv, ArgTypes, NamesStand, Unread, Read
<1>4. CASE ~(func # "none" /\ (i = Len(argv) \/ A!Converted(func, argv[i + 1]) = {}))
  <2>1. PICK v \in A!Converted(func, a) :
          /\ i' = i + A!Taken(func) /\ assigned' = [assigned EXCEPT ![e] = TRUE]
          /\ val' = [val EXCEPT ![e] = v] /\ parsing' = parsing
    BY <1>4, Zenon DEF A!ParseOption
  <2>2. PICK n \in 0 .. MaxArgs :
           /\ Len(argv) \in Nat /\ i = n + 1 /\ n + 1 <= Len(argv) /\ n + 1 \in 0 .. MaxArgs
           /\ argv \in Seq(A!Arguments) /\ Len(argv) <= MaxArgs
           /\ ~A!IsValue[n + 1]
           /\ InOrder(n)
           /\ \A f \in 1 .. Len(table) : LastGave(f, n)
           /\ n + 2 \in 0 .. MaxArgs => A!IsValue[n + 2] = Asks(n + 1)
           /\ n + 3 \in 0 .. MaxArgs /\ Asks(n + 1) => ~A!IsValue[n + 3]
    BY NextArgument, Zenon
  <2> DEFINE m == n + A!Taken(func)
  <2>3. Asks(n + 1) <=> func # "none"
    BY <1>2, <2>2 DEF Asks
  <2>4. MaxArgs \in Nat
    BY PrimitivesAssumption DEF A!MainArgAssumption
  <2>5. /\ m \in 0 .. Len(argv) /\ m \in 0 .. MaxArgs /\ i' = m + 1
        /\ m < Len(argv) => ~A!IsValue[m + 1]
        /\ A!Others(m) = A!Others(n)
        /\ A!Given(e, m) = A!Given(e, n) \cup {n + 1}
        /\ \A f : f # e => A!Given(f, m) = A!Given(f, n)
        /\ a \in A!Arguments /\ a = argv[A!ValueAt(e, n + 1)]
    <3>1. /\ A!Others(n + 1) = A!Others(n)
          /\ A!Given(e, n + 1) = A!Given(e, n) \cup {n + 1}
          /\ \A f : f # e => A!Given(f, n + 1) = A!Given(f, n)
      <4>1. A!Matching(argv[n + 1]) = {e} /\ n \in Nat /\ ~A!IsValue[n + 1]
        BY <1>2, <2>2
      <4>2. /\ \A f : A!Given(f, n + 1) = A!Given(f, n) \cup
                        IF ~A!IsValue[n + 1] /\ f \in A!Matching(argv[n + 1]) THEN {n + 1} ELSE {}
            /\ A!Others(n + 1) = A!Others(n) \cup
                     IF ~A!IsValue[n + 1] /\ A!Matching(argv[n + 1]) = {} THEN {n + 1} ELSE {}
        BY <4>1, OneMoreRead
      <4>3. QED
        BY <4>1, <4>2
    <3>2. CASE func = "none"
      <4>1. A!Taken(func) = 1
        BY <3>2, Zenon DEF A!Taken
      <4>2. m = n + 1
        BY <4>1
      <4>3. m < Len(argv) => ~A!IsValue[m + 1]
        <5>1. (n + 1) + 1 = n + 2 /\ (n + 1 < Len(argv) => n + 2 \in 0 .. MaxArgs)
          BY <2>2, <2>4
        <5>2. QED
          BY <2>2, <2>3, <3>2, <4>2, <5>1
      <4>4. a = argv[n + 1] /\ A!ValueAt(e, n + 1) = n + 1
        BY <2>2, <3>2 DEF A!ValueAt
      <4>5. argv[n + 1] \in A!Arguments
        BY <2>2
      <4>6. n + 1 \in 0 .. Len(argv) /\ i' = (n + 1) + 1
        BY <2>1, <2>2, <4>1
      <4> HIDE DEF m, a
      <4>7. QED
        BY <2>2, <3>1, <4>2, <4>3, <4>4, <4>5, <4>6
    <3>3. CASE func # "none"
      <4>1. A!Taken(func) = 2
        BY <3>3, Zenon DEF A!Taken
      <4>2. m = n + 2
        BY <4>1
      <4>3. n + 2 <= Len(argv) /\ n + 2 \in 0 .. MaxArgs
        BY <1>4, <2>2, <2>4, <3>3
      <4>4. A!IsValue[n + 2]
        BY <2>2, <2>3, <3>3, <4>3
      <4>5. m < Len(argv) => ~A!IsValue[m + 1]
        <5>1. (n + 2) + 1 = n + 3 /\ (n + 2 < Len(argv) => n + 3 \in 0 .. MaxArgs)
          BY <2>2, <2>4
        <5>2. QED
          BY <2>2, <2>3, <3>3, <4>2, <5>1
      <4>6. (\A f : A!Given(f, n + 2) = A!Given(f, n + 1)) /\ A!Others(n + 2) = A!Others(n + 1)
        <5>1. n + 1 \in Nat /\ (n + 1) + 1 = n + 2
          BY <2>2
        <5>2. /\ \A f : A!Given(f, n + 2) = A!Given(f, n + 1) \cup
                        IF ~A!IsValue[n + 2] /\ f \in A!Matching(argv[n + 2]) THEN {n + 2} ELSE {}
              /\ A!Others(n + 2) = A!Others(n + 1) \cup
                     IF ~A!IsValue[n + 2] /\ A!Matching(argv[n + 2]) = {} THEN {n + 2} ELSE {}
          <6>1. /\ \A f : A!Given(f, (n + 1) + 1) = A!Given(f, n + 1) \cup
                        IF ~A!IsValue[(n + 1) + 1] /\ f \in A!Matching(argv[(n + 1) + 1]) THEN {(n + 1) + 1} ELSE {}
                /\ A!Others((n + 1) + 1) = A!Others(n + 1) \cup
                     IF ~A!IsValue[(n + 1) + 1] /\ A!Matching(argv[(n + 1) + 1]) = {} THEN {(n + 1) + 1} ELSE {}
            BY <5>1, OneMoreRead
          <6>2. QED
            BY <5>1, <6>1
        <5>3. QED
          BY <4>4, <5>2
      <4>7. a = argv[n + 2] /\ A!ValueAt(e, n + 1) = n + 2
        BY <2>2, <3>3 DEF A!ValueAt
      <4>8. argv[n + 2] \in A!Arguments
        BY <2>2, <4>3
      <4>9. n + 2 \in 0 .. Len(argv) /\ i' = (n + 2) + 1
        BY <2>1, <2>2, <4>1, <4>3
      <4> HIDE DEF m, a
      <4>10. QED
        BY <3>1, <4>2, <4>3, <4>5, <4>6, <4>7, <4>8, <4>9
    <3>4. QED
      BY <3>2, <3>3
  <2>6. PICK last \in 0 .. MaxArgs :
        /\ last \in 0 .. Len(argv) /\ i' = last + 1
        /\ last < Len(argv) => ~A!IsValue[last + 1]
        /\ A!Others(last) = A!Others(n)
        /\ A!Given(e, last) = A!Given(e, n) \cup {n + 1}
        /\ \A f : f # e => A!Given(f, last) = A!Given(f, n)
    <3> HIDE DEF m, a
    <3>1. QED
      BY <2>5, Zenon
  <2> HIDE DEF m
  <2>7. v \in Values
    BY <1>1, <1>2, <2>1, <2>5, ConvertedIsValue
  <2>8. ArgTypes'
    <3>1. val' \in Seq(Values) /\ Len(val') = Len(val)
      BY <1>1, <1>2, <2>1, <2>7 DEF ArgTypes
    <3>2. assigned' \in Seq(BOOLEAN) /\ Len(assigned') = Len(assigned)
      BY <1>1, <1>2, <2>1 DEF ArgTypes
    <3>3. QED
      BY <1>1, <3>1, <3>2 DEF ArgTypes
  <2>9. NamesStand' /\ Unread'
    BY <1>1, <2>1 DEF NamesStand, Unread
  <2>10. InOrder(last)'
    BY <2>2, <2>6, OrderStays
  <2>11. \A f \in 1 .. Len(table') : LastGave(f, last)'
    <3> SUFFICES ASSUME NEW f \in 1 .. Len(table) PROVE LastGave(f, last)'
      OBVIOUS
    <3>1. CASE f # e
      <4>1. assigned'[f] = assigned[f] /\ val'[f] = val[f]
        BY <1>1, <2>1, <3>1 DEF ArgTypes
      <4>2. QED
        BY <2>2, <2>6, <3>1, <4>1, GaveStays
    <3>2. CASE f = e
      <4>1. assigned'[e] /\ val'[e] = v
        BY <1>1, <1>2, <2>1 DEF ArgTypes
      <4>2. A!Given(e, last)' = A!Given(e, n) \cup {n + 1}
        BY <2>6, SetsStay
      <4>3. \A j \in A!Given(e, n) : j <= n + 1
        BY <2>2, OthersCounted
      <4>4. v \in A!Converted(table[e].func, argv[A!ValueAt(e, n + 1)])
        BY <2>1, <2>5
      <4>5. A!ValueAt(e, n + 1)' = A!ValueAt(e, n + 1)
        BY DEF A!ValueAt
      <4>6. val'[e] \in A!Converted(table'[e].func, argv'[A!ValueAt(e, n + 1)'])
        BY <4>1, <4>4, <4>5, Zenon
      <4>7. n + 1 <= n + 1
        OBVIOUS
      <4>8. \A j \in A!Given(e, last)' : j <= n + 1
        BY <4>2, <4>3, <4>7, Zenon
      <4>9. n + 1 \in A!Given(e, last)'
        BY <4>2
      <4>10. QED
        BY <3>2, <4>1, <4>6, <4>8, <4>9, Zenon DEF LastGave, A!Converted
    <3>3. QED
      BY <3>1, <3>2
  <2>12. Read'
    <3>1. last < Len(argv') => ~A!IsValue[last + 1]'
      <4>1. last < Len(argv) => last + 1 \in 0 .. MaxArgs
        BY <2>2, <2>4, <2>6
      <4>2. last < Len(argv) => A!IsValue[last + 1]' = A!IsValue[last + 1]
        BY <4>1, ValuesStay
      <4>3. QED
        BY <2>6, <4>2
    <3>2. last \in 0 .. Len(argv') /\ i' = last + 1 /\ argv' \in Seq(A!Arguments) /\ Len(argv') <= MaxArgs
      BY <2>2, <2>6
    <3>3. parsing' # "done"
      BY <2>1
    <3>4. QED
      BY <2>10, <2>11, <3>1, <3>2, <3>3, Zenon DEF Read
  <2>13. QED
    BY <2>8, <2>9, <2>12 DEF ArgInv
<1>5. QED
  BY <1>3, <1>4

\* What names no option is positional, or asks for help.
LEMMA ParseOtherKeeps ==
  ASSUME ArgInv, parsing = "parse", i <= Len(argv), UNCHANGED <<table, items, argv>>,
         A!Matching(argv[i]) = {}, A!ParseOther(argv[i])
  PROVE  ArgInv'
<1>1. ArgTypes /\ NamesStand
  BY DEF ArgInv
<1>2. UNCHANGED <<table, items, argv, assigned, val>>
  BY DEF A!ParseOther
<1>3. CASE argv[i] \in {<<1, "h">>, <<2, "help">>}
  <2>1. parsing' = "help" /\ UNCHANGED <<i, pos_args>>
    BY <1>3, Zenon DEF A!ParseOther
  <2>2. QED
    BY <1>1, <1>2, <2>1 DEF ArgInv, ArgTypes, NamesStand, Unread, Read
<1>4. CASE argv[i] \notin {<<1, "h">>, <<2, "help">>}
  <2>1. i' = i + 1 /\ pos_args' = Append(pos_args, argv[i]) /\ parsing' = parsing
    BY <1>4, Zenon DEF A!ParseOther
  <2>2. PICK n \in 0 .. MaxArgs :
           /\ Len(argv) \in Nat /\ i = n + 1 /\ n + 1 <= Len(argv) /\ n + 1 \in 0 .. MaxArgs
           /\ argv \in Seq(A!Arguments) /\ Len(argv) <= MaxArgs
           /\ ~A!IsValue[n + 1]
           /\ InOrder(n)
           /\ \A f \in 1 .. Len(table) : LastGave(f, n)
           /\ n + 2 \in 0 .. MaxArgs => A!IsValue[n + 2] = Asks(n + 1)
           /\ n + 3 \in 0 .. MaxArgs /\ Asks(n + 1) => ~A!IsValue[n + 3]
    BY NextArgument, Zenon
  <2>3. MaxArgs \in Nat /\ n \in Nat
    BY PrimitivesAssumption DEF A!MainArgAssumption
  <2>4. A!Matching(argv[n + 1]) = {}
    BY <2>2
  <2>5. A!Others(n + 1) = A!Others(n) \cup {n + 1} /\ \A e : A!Given(e, n + 1) = A!Given(e, n)
    <3>1. /\ \A e : A!Given(e, n + 1) = A!Given(e, n) \cup
                     IF ~A!IsValue[n + 1] /\ e \in A!Matching(argv[n + 1]) THEN {n + 1} ELSE {}
          /\ A!Others(n + 1) = A!Others(n) \cup
                     IF ~A!IsValue[n + 1] /\ A!Matching(argv[n + 1]) = {} THEN {n + 1} ELSE {}
      BY <2>3, OneMoreRead
    <3>2. QED
      BY <2>2, <2>4, <3>1
  <2>6. ~Asks(n + 1)
    BY <2>4 DEF Asks
  <2>7. n + 1 < Len(argv') => ~A!IsValue[(n + 1) + 1]'
    <3> SUFFICES ASSUME n + 1 < Len(argv') PROVE ~A!IsValue[(n + 1) + 1]'
      OBVIOUS
    <3>1. (n + 1) + 1 = n + 2 /\ n + 2 \in 0 .. MaxArgs
      BY <1>2, <2>2, <2>3
    <3>2. ~A!IsValue[n + 2]
      BY <2>2, <2>6, <3>1
    <3>3. A!IsValue[n + 2]' = A!IsValue[n + 2]
      BY <1>2, <3>1, ValuesStay
    <3>4. QED
      BY <3>1, <3>2, <3>3
  <2>8. ArgTypes'
    <3>1. argv[i] \in A!Arguments
      BY <2>2
    <3>2. pos_args' \in Seq(A!Arguments)
      BY <1>1, <2>1, <3>1 DEF ArgTypes
    <3>3. QED
      BY <1>1, <1>2, <3>2 DEF ArgTypes
  <2>9. InOrder(n + 1)'
    <3> DEFINE c == Cardinality(A!Others(n))
    <3>1. /\ c \in Nat /\ A!Others(n) \subseteq 1 .. n /\ IsFiniteSet(A!Others(n))
          /\ \A k \in A!Others(n) : Cardinality(A!Others(k)) \in 1 .. c
      BY <2>3, OthersCounted
    <3>2. Cardinality(A!Others(n + 1)) = c + 1
      <4>1. n + 1 \notin A!Others(n)
        BY <2>3, <3>1
      <4>2. QED
        BY <2>5, <3>1, <4>1, FS_AddElement
    <3>3. A!Others(n + 1)' = A!Others(n) \cup {n + 1}
      BY <1>2, <2>2, <2>5, SetsStay
    <3>4. \A k \in A!Others(n) \cup {n + 1} : A!Others(k)' = A!Others(k)
      <4>1. \A k \in A!Others(n) \cup {n + 1} : k \in 0 .. MaxArgs
        BY <2>2, <2>3, <3>1
      <4>2. QED
        BY <1>2, <4>1, SetsStay
    <3>5. Len(pos_args) = c /\ \A k \in A!Others(n) : pos_args[Cardinality(A!Others(k))] = argv[k]
      BY <2>2 DEF InOrder
    <3> HIDE DEF c
    <3>6. /\ Len(pos_args') = c + 1 /\ pos_args'[c + 1] = argv[n + 1]
          /\ \A k \in 1 .. c : pos_args'[k] = pos_args[k]
      <4> DEFINE x == argv[n + 1]
      <4>1. pos_args' = Append(pos_args, x)
        BY <2>1, <2>2
      <4>2. pos_args \in Seq(A!Arguments) /\ x \in A!Arguments /\ c \in Nat /\ Len(pos_args) = c
        BY <1>1, <2>2, <3>1, <3>5 DEF ArgTypes
      <4> HIDE DEF x
      <4>3. Len(pos_args') = c + 1 /\ pos_args'[c + 1] = x /\ \A k \in 1 .. c : pos_args'[k] = pos_args[k]
        BY ONLY <4>1, <4>2
      <4>4. QED
        BY <4>3 DEF x
    <3>7. \A k \in A!Others(n) \cup {n + 1} : pos_args'[Cardinality(A!Others(k))] = argv[k]
      <4>1. ASSUME NEW k \in A!Others(n)
            PROVE  pos_args'[Cardinality(A!Others(k))] = argv[k]
        BY <3>1, <3>5, <3>6
      <4>2. pos_args'[Cardinality(A!Others(n + 1))] = argv[n + 1]
        BY <3>2, <3>6
      <4>3. QED
        BY <4>1, <4>2
    <3>8. Len(pos_args') = Cardinality(A!Others(n + 1)')
      BY <2>5, <3>2, <3>3, <3>6
    <3>9. \A k \in A!Others(n + 1)' : pos_args'[Cardinality(A!Others(k)')] = argv'[k]
      BY <1>2, <3>3, <3>4, <3>7
    <3>10. QED
      BY <3>8, <3>9 DEF InOrder
  <2>10. \A f \in 1 .. Len(table') : LastGave(f, n + 1)'
    <3> SUFFICES ASSUME NEW f \in 1 .. Len(table) PROVE LastGave(f, n + 1)'
      BY <1>2
    <3>1. assigned'[f] = assigned[f] /\ val'[f] = val[f]
      BY <1>2
    <3>2. QED
      BY <1>2, <2>2, <2>5, <3>1, GaveStays
  <2>11. Read'
    <3>1. n + 1 \in 0 .. Len(argv') /\ i' = (n + 1) + 1 /\ argv' \in Seq(A!Arguments) /\ Len(argv') <= MaxArgs
      BY <1>2, <2>1, <2>2, <2>3
    <3>2. parsing' # "done"
      BY <2>1
    <3>3. QED
      BY <2>7, <2>9, <2>10, <3>1, <3>2, Zenon DEF Read
  <2>12. NamesStand' /\ Unread'
    BY <1>1, <1>2, <2>1 DEF NamesStand, Unread
  <2>13. QED
    BY <2>8, <2>11, <2>12 DEF ArgInv
<1>5. QED
  BY <1>3, <1>4

\* All of them are read.
LEMMA ParsedKeeps ==
  ASSUME ArgInv, A!Parsed
  PROVE  ArgInv'
<1>1. /\ parsing = "parse" /\ i > Len(argv) /\ parsing' = "done"
      /\ UNCHANGED <<table, items, argv, i, assigned, val, pos_args>>
  BY DEF A!Parsed
<1>2. ArgTypes /\ NamesStand /\ Read
  BY DEF ArgInv
<1>3. ArgTypes' /\ NamesStand' /\ Unread'
  BY <1>1, <1>2 DEF ArgTypes, NamesStand, Unread
<1>4. MaxArgs \in Nat /\ argv \in Seq(A!Arguments) /\ Len(argv) <= MaxArgs /\ Len(argv) \in Nat
  BY <1>1, <1>2, PrimitivesAssumption DEF Read, A!MainArgAssumption
<1>5. PICK n \in 0 .. Len(argv) : i = n + 1 /\ InOrder(n) /\ \A e \in 1 .. Len(table) : LastGave(e, n)
  BY <1>1, <1>2 DEF Read
<1>6. n = Len(argv) /\ n \in 0 .. MaxArgs
  BY <1>1, <1>4, <1>5
<1>7. InOrder(n)'
  BY <1>1, <1>5, <1>6, OrderStays
<1>8. \A e \in 1 .. Len(table') : LastGave(e, n)'
  <2> SUFFICES ASSUME NEW e \in 1 .. Len(table) PROVE LastGave(e, n)'
    BY <1>1
  <2>1. assigned'[e] = assigned[e] /\ val'[e] = val[e]
    BY <1>1
  <2>2. QED
    BY <1>1, <1>5, <1>6, <2>1, GaveStays
<1>9. Read'
  <2>1. n \in 0 .. Len(argv') /\ i' = n + 1 /\ n = Len(argv') /\ argv' \in Seq(A!Arguments) /\ Len(argv') <= MaxArgs
    BY <1>1, <1>4, <1>5, <1>6
  <2>2. ~(n < Len(argv'))
    BY <1>4, <2>1
  <2>3. QED
    BY <1>7, <1>8, <2>1, <2>2, Zenon DEF Read
<1>10. QED
  BY <1>3, <1>9 DEF ArgInv

\* Every step keeps the invariant.
LEMMA ArgKeeps ==
  ASSUME ArgInv, [A!Next]_argVars
  PROVE  ArgInv'
<1>1. CASE A!AddItem
  BY <1>1, AddItemKeeps
<1>2. CASE A!Start
  BY <1>2, StartKeeps
<1>3. CASE A!ParseArg
  <2>1. parsing = "parse" /\ i <= Len(argv) /\ UNCHANGED <<table, items, argv>>
    BY <1>3 DEF A!ParseArg
  <2>2. CASE \E e \in A!Matching(argv[i]) : A!ParseOption(e) /\ UNCHANGED pos_args
    BY <2>1, <2>2, ParseOptionKeeps
  <2>3. CASE A!Matching(argv[i]) = {} /\ A!ParseOther(argv[i])
    BY <2>1, <2>3, ParseOtherKeeps
  <2>4. QED
    BY <1>3, <2>2, <2>3 DEF A!ParseArg
<1>4. CASE A!Parsed
  BY <1>4, ParsedKeeps
<1>5. CASE UNCHANGED argVars
  <2>1. UNCHANGED <<table, items, argv>> /\ UNCHANGED <<parsing, i, assigned, val, pos_args>>
    BY <1>5 DEF argVars
  <2>2. ArgTypes /\ NamesStand /\ Unread /\ Read
    BY DEF ArgInv
  <2>3. ArgTypes' /\ NamesStand' /\ Unread'
    BY <2>1, <2>2 DEF ArgTypes, NamesStand, Unread
  <2>4. CASE parsing \notin {"parse", "done"}
    BY <2>1, <2>3, <2>4 DEF ArgInv, Read
  <2>5. CASE parsing \in {"parse", "done"}
    <3>1. MaxArgs \in Nat /\ argv \in Seq(A!Arguments) /\ Len(argv) <= MaxArgs /\ Len(argv) \in Nat
      BY <2>2, <2>5, PrimitivesAssumption DEF Read, A!MainArgAssumption
    <3>2. PICK n \in 0 .. Len(argv) :
            /\ i = n + 1 /\ (parsing = "done" => n = Len(argv))
            /\ n < Len(argv) => ~A!IsValue[n + 1]
            /\ InOrder(n)
            /\ \A e \in 1 .. Len(table) : LastGave(e, n)
      BY <2>2, <2>5 DEF Read
    <3>3. n \in 0 .. MaxArgs
      BY <3>1
    <3>4. InOrder(n)'
      BY <2>1, <3>2, <3>3, OrderStays
    <3>5. \A e \in 1 .. Len(table') : LastGave(e, n)'
      <4> SUFFICES ASSUME NEW e \in 1 .. Len(table) PROVE LastGave(e, n)'
        BY <2>1
      <4>1. assigned'[e] = assigned[e] /\ val'[e] = val[e]
        BY <2>1
      <4>2. QED
        BY <2>1, <3>2, <3>3, <4>1, GaveStays
    <3>6. n < Len(argv') => ~A!IsValue[n + 1]'
      <4>1. n < Len(argv) => n + 1 \in 0 .. MaxArgs
        BY <3>1
      <4>2. n < Len(argv) => A!IsValue[n + 1]' = A!IsValue[n + 1]
        BY <2>1, <4>1, ValuesStay
      <4>3. QED
        BY <2>1, <3>2, <4>2
    <3>7. n \in 0 .. Len(argv') /\ i' = n + 1 /\ (parsing' = "done" => n = Len(argv'))
          /\ argv' \in Seq(A!Arguments) /\ Len(argv') <= MaxArgs
      BY <2>1, <3>1, <3>2
    <3>8. Read'
      BY <3>4, <3>5, <3>6, <3>7, Zenon DEF Read
    <3>9. QED
      BY <2>3, <3>8 DEF ArgInv
  <2>6. QED
    BY <2>4, <2>5
<1>6. QED
  BY <1>1, <1>2, <1>3, <1>4, <1>5 DEF A!Next

\* What the inductive invariant says of arguments that are all read.
LEMMA ArgInvIsEnough ==
  ASSUME ArgInv
  PROVE  A!ArgsAreSorted
<1> SUFFICES ASSUME parsing = "done" PROVE A!ArgsAreSorted
  BY DEF A!ArgsAreSorted
<1> DEFINE all == Len(argv)
           Final(e) == CHOOSE k \in A!Given(e, all) : \A n \in A!Given(e, all) : n <= k
<1>1. ArgTypes /\ NamesStand /\ Read
  BY DEF ArgInv
<1>2. all \in Nat /\ InOrder(all) /\ \A e \in 1 .. Len(table) : LastGave(e, all)
  <2>1. argv \in Seq(A!Arguments)
    BY <1>1 DEF Read
  <2>2. all \in Nat
    BY <2>1
  <2>3. PICK n \in 0 .. Len(argv) :
          n = Len(argv) /\ InOrder(n) /\ \A e \in 1 .. Len(table) : LastGave(e, n)
    BY <1>1 DEF Read
  <2>4. QED
    BY <2>2, <2>3
<1> HIDE DEF all
<1>3. /\ Len(pos_args) = A!Cardinality(A!Others(all))
      /\ \A k \in A!Others(all) : pos_args[A!Cardinality(A!Others(k))] = argv[k]
  <2>1. \A S : A!Cardinality(S) = Cardinality(S)
    BY Zenon DEF A!Cardinality, Cardinality
  <2>2. QED
    BY <1>2, <2>1 DEF InOrder
<1>4. ASSUME NEW n \in DOMAIN items
      PROVE  LET e   == items[n][2]
                 given == A!get_val(items[n][1], <<"default">>)
             IN IF A!Given(e, all) = {} THEN given = <<"default">>
                ELSE given \in A!Converted(table[e].func, argv[A!ValueAt(e, Final(e))])
  <2> DEFINE w == items[n][1]
             e == items[n][2]
             a == <<0, w>>
             given == A!get_val(w, <<"default">>)
             element == CHOOSE k \in A!Matching(a) : TRUE
  <2>1. a[2] = w
    OBVIOUS
  <2>2. e \in A!Matching(a)
    BY <2>1 DEF A!Matching
  <2>3. A!Matching(a) = {e} /\ e \in 1 .. Len(table)
    BY <1>1, <2>2, OneMatch
  <2>4. given = IF assigned[element] THEN val[element] ELSE <<"default">>
    BY DEF A!get_val
  <2>5. element = e
    BY <2>3
  <2>6. LastGave(e, all)
    BY <1>2, <2>3
  <2> HIDE DEF e, a, w, element, given
  <2>7. given = IF assigned[e] THEN val[e] ELSE <<"default">>
    BY <2>4, <2>5, Zenon
  <2>8. CASE A!Given(e, all) = {}
    <3>1. given = <<"default">>
      BY <2>6, <2>7, <2>8 DEF LastGave
    <3>2. QED
      BY <2>8, <3>1, Zenon DEF given, e, w
  <2>9. CASE A!Given(e, all) # {}
    <3>1. PICK k \in A!Given(e, all) : /\ \A j \in A!Given(e, all) : j <= k
                                       /\ val[e] \in A!Converted(table[e].func, argv[A!ValueAt(e, k)])
      BY <2>6, <2>9, Zenon DEF LastGave
    <3>2. Final(e) \in A!Given(e, all) /\ \A j \in A!Given(e, all) : j <= Final(e)
      BY <3>1, Zenon
    <3>3. A!Given(e, all) \subseteq Nat
      BY <1>2, OthersCounted
    <3>4. Final(e) = k
      <4> HIDE DEF Final
      <4>1. Final(e) <= k /\ k <= Final(e) /\ k \in Nat /\ Final(e) \in Nat
        BY <3>1, <3>2, <3>3
      <4>2. QED
        BY <4>1
    <3>5. given = val[e]
      BY <2>6, <2>7, <2>9, Zenon DEF LastGave
    <3> HIDE DEF Final
    <3>6. given \in A!Converted(table[e].func, argv[A!ValueAt(e, Final(e))])
      BY <3>1, <3>4, <3>5, Zenon
    <3>7. QED
      BY <2>9, <3>6, Zenon DEF given, e, w
  <2>10. QED
    BY <2>8, <2>9
<1>5. QED
  BY <1>3, <1>4, Zenon DEF A!ArgsAreSorted, all

(***************************************************************************)
(* The behaviours of the program.                                          *)
(***************************************************************************)
\* Every object keeps its invariant, used or not.
LEMMA WheelStays == WheelInv /\ [MCNext]_MCVars => WheelInv'
<1> SUFFICES ASSUME WheelInv, [MCNext]_MCVars PROVE WheelInv'
  OBVIOUS
<1>1. WheelAssumption
  BY PrimitivesAssumption DEF WheelAssumption
<1>2. [T!Next]_wheelVars
  BY Steps
<1>3. QED
  BY <1>1, <1>2, WheelKeeps

\* It holds of the wheel that is made.
LEMMA WheelStarts == MCInit => WheelInv
<1>1. WheelAssumption
  BY PrimitivesAssumption DEF WheelAssumption
<1>2. QED
  BY <1>1, WheelInit DEF MCInit

\* cra_cdl_wait lets nobody through early and leaves nobody behind, in a program
\* that has other objects as well.
THEOREM LatchSound == MCSpec => []LatchHolds
<1>1. LatchInv => LatchHolds
  BY LatchInvIsEnough DEF LatchHolds
<1>2. MCInit => LatchInv
  BY RefsStart
<1>3. LatchInv /\ [MCNext]_MCVars => LatchInv'
  BY LatchKeeps
<1>4. QED
  BY <1>1, <1>2, <1>3, PTL DEF MCSpec

\* The items of a pool are on the stack, in use or lost, each in one place, and
\* cra_mempool_uninit knows whether all have come back.
THEOREM PoolSound == MCSpec => []PoolIsSound
<1>1. P!MemPoolAssumption
  BY PrimitivesAssumption
<1>3. MCInit => PoolInv
  BY <1>1, PoolInit DEF MCInit
<1>4. PoolInv /\ [MCNext]_MCVars => PoolInv'
  BY <1>1, Steps, PoolKeeps 
<1>5. PoolInv => PoolIsSound
  BY DEF PoolInv, PoolIsSound
<1>6. QED
  BY <1>3, <1>4, <1>5, PTL DEF MCSpec
\* Moving down, firing, re-arming and cancelling neither lose a timer nor its node
\* nor double them.
THEOREM WheelHoldsEachTimerOnce == MCSpec => []OnePlace
<1>1. WheelInv => OnePlace
  BY WheelInvIsEnough DEF OnePlace
<1>2. QED
  BY <1>1, WheelStays, WheelStarts, PTL DEF MCSpec

\* A timer leaves the wheel by itself only after it has fired as often as it was
\* asked to, or for want of memory for a wheel.
THEOREM TimersFireAsAsked == MCSpec => FiresAsAsked
<1> DEFINE Leaves == \A t \in Timer : t \in inWheel \ inWheel' /\ active[t] /\ phase # "idle"
                       => fired[t] = asked[t] \/ T!LevelOf(timeout_ms[t]) >= depth'
<1>1. WheelInv /\ [MCNext]_MCVars => [Leaves]_(T!vars)
  <2> SUFFICES ASSUME WheelInv, [MCNext]_MCVars PROVE Leaves
    OBVIOUS
  <2>1. WheelAssumption
    BY PrimitivesAssumption DEF WheelAssumption
  <2>2. [T!Next]_wheelVars
    BY Steps
  <2>3. QED
    BY <2>1, <2>2, FiredAsAsked
<1>2. QED
  BY <1>1, WheelStays, WheelStarts, PTL DEF MCSpec, FiresAsAsked, T!FiresAsAsked

\* What lies between the indices of a buffer is what went in and has not come out.
THEOREM BufferSound == MCSpec => []BufferIsQueue
<1>1. B!BufferAssumption
  BY PrimitivesAssumption
<1>2. MCInit => BufInv
  BY <1>1, BufInit DEF MCInit
<1>3. BufInv /\ [MCNext]_MCVars => BufInv'
  BY <1>1, Steps, BufferKeeps
<1>4. BufInv => BufferIsQueue
  BY <1>1, BufInvIsEnough DEF BufferIsQueue
<1>5. QED
  BY <1>2, <1>3, <1>4, PTL DEF MCSpec

\* Every argument of a program ends up as what it is: the value of the option before
\* it, an option that is set, or a positional argument in its order.
THEOREM ArgsSound == MCSpec => []ArgsAreSorted
<1>1. MCInit => ArgInv
  BY ArgInit DEF MCInit
<1>2. ArgInv /\ [MCNext]_MCVars => ArgInv'
  <2> SUFFICES ASSUME ArgInv, [MCNext]_MCVars PROVE ArgInv'
    OBVIOUS
  <2>1. [A!Next]_argVars
    BY Steps
  <2>2. QED
    BY <2>1, ArgKeeps
<1>3. ArgInv => ArgsAreSorted
  BY ArgInvIsEnough DEF ArgsAreSorted
<1>4. QED
  BY <1>1, <1>2, <1>3, PTL DEF MCSpec

\* The type invariants of the references, the latch and the wheel, and that the
\* counters of the references count them.
THEOREM TypesSound == MCSpec => []TypesOK
<1>1. Inv => TypeOK /\ Counted
  BY DEF Inv
<1>2. RefInv => R!TypeOK
  BY RefTyped
<1>3. LatchInv => L!TypeOK
  BY LatchInvIsEnough
<1>4. WheelInv => T!TypeOK
  BY DEF WheelInv, WheelTypes
<1>5. Inv /\ RefInv /\ LatchInv /\ WheelInv => TypesOK
  BY <1>1, <1>2, <1>3, <1>4 DEF TypesOK
<1>6. MCInit => Inv /\ RefInv /\ LatchInv
  BY RefsStart
<1>7. Inv /\ RefInv /\ [MCNext]_MCVars => Inv' /\ RefInv'
  BY RefsKeep
<1>8. LatchInv /\ [MCNext]_MCVars => LatchInv'
  BY LatchKeeps
<1>9. QED
  BY <1>5, <1>6, <1>7, <1>8, WheelStays, WheelStarts, PTL DEF MCSpec

\* What __cra_memory_leak_report prints is right: every block of the program is listed
\* once, and between calls the counters agree with the list, unless a realloc has
\* failed.
THEOREM ReportSound == MCSpec => []ReportIsRight
<1>1. M!MallocAssumption
  BY PrimitivesAssumption
<1>2. MCInit => AllocInv
  BY <1>1, AllocInit DEF MCInit
<1>3. AllocInv /\ [MCNext]_MCVars => AllocInv'
  <2> SUFFICES ASSUME AllocInv, [MCNext]_MCVars PROVE AllocInv'
    OBVIOUS
  <2>1. [M!Next]_allocVars
    BY Steps
  <2>2. QED
    BY <1>1, <2>1, AllocKeeps
<1>4. AllocInv => ReportIsRight
  BY <1>1, AllocInvIsEnough DEF ReportIsRight
<1>5. QED
  BY <1>2, <1>3, <1>4, PTL DEF MCSpec
=============================================================================
