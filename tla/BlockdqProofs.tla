--------------------------- MODULE BlockdqProofs ---------------------------
(***************************************************************************)
(* Theorems about Blockdq for every set of threads and values, capacity    *)
(* and policy: types, capacity, closing and wake-ups, what becomes of the  *)
(* values, and that it implements BoundedBuffer (the safety part).         *)
(***************************************************************************)
EXTENDS Blockdq, FiniteSetTheorems, SequenceTheorems, TLAPS

(***************************************************************************)
(* Lemmas about the operators the queue is built from.                     *)
(***************************************************************************)
\* What removing from and looking at an end of a sequence give.
LEMMA EndLemma ==
  ASSUME NEW s \in Seq(Val), NEW end \in End
  PROVE  /\ s # << >> => /\ Remove1(s, end) \in Seq(Val)
                         /\ Len(Remove1(s, end)) = Len(s) - 1
                         /\ Peek(s, end) \in Val
         /\ Len(s) \in Nat
         /\ s # << >> <=> Len(s) > 0
         /\ Victim(end) \in End
<1>1. Len(s) \in Nat /\ (s # << >> <=> Len(s) > 0)
  BY EmptySeq, LenProperties
<1>2. ASSUME s # << >>
      PROVE  /\ Tail(s) \in Seq(Val) /\ Len(Tail(s)) = Len(s) - 1 /\ Head(s) \in Val
             /\ Front(s) \in Seq(Val) /\ Len(Front(s)) = Len(s) - 1 /\ Last(s) \in Val
  <2>1. Tail(s) \in Seq(Val) /\ Len(Tail(s)) = Len(s) - 1 /\ Head(s) \in Val
    BY <1>2, HeadTailProperties
  <2>2. \A i \in 1 .. Len(s) : s[i] \in Val
    BY ElementOfSeq
  <2>3. SubSeq(s, 1, Len(s) - 1) \in Seq(Val)
        /\ Len(SubSeq(s, 1, Len(s) - 1)) = Len(s) - 1
    <3>1. /\ 1 \in Int /\ Len(s) - 1 \in Int
          /\ \A i \in 1 .. Len(s) - 1 : s[i] \in Val
      BY <1>1, <2>2
    <3>2. /\ SubSeq(s, 1, Len(s) - 1) \in Seq(Val)
          /\ Len(SubSeq(s, 1, Len(s) - 1))
               = IF 1 <= Len(s) - 1 THEN Len(s) - 1 - 1 + 1 ELSE 0
      BY <3>1, SubSeqProperties
    <3>3. Len(s) \in Nat /\ Len(s) > 0
      BY <1>1, <1>2
    <3>4. \A n \in Nat : n > 0 => (IF 1 <= n - 1 THEN n - 1 - 1 + 1 ELSE 0) = n - 1
      OBVIOUS
    <3>5. QED
      BY <3>2, <3>3, <3>4
  <2>4. QED
    BY <1>1, <1>2, <2>1, <2>2, <2>3 DEF Front, Last
<1>3. QED
  BY <1>1, <1>2 DEF Remove1, Peek, Other, Victim, End

\* Inserting makes a sequence longer by one.
LEMMA InsertLemma ==
  ASSUME NEW s \in Seq(Val), NEW end \in End, NEW v \in Val
  PROVE  /\ Insert(s, end, v) \in Seq(Val)
         /\ Len(Insert(s, end, v)) = Len(s) + 1
<1>1. Append(s, v) \in Seq(Val) /\ Len(Append(s, v)) = Len(s) + 1
  BY AppendProperties
<1>2. <<v>> \in Seq(Val) /\ Len(<<v>>) = 1
  OBVIOUS
<1>3. <<v>> \o s \in Seq(Val) /\ Len(<<v>> \o s) = Len(s) + 1
  BY <1>2, ConcatProperties, LenProperties
<1>4. QED
  BY <1>1, <1>3 DEF Insert

\* The fields of a call, by its kind.
LEMMA CallLemma ==
  ASSUME NEW c \in Call
  PROVE  /\ c.op \in {"idle", "push", "pop", "shutdown"}
         /\ c.op = "push" => c.end \in End /\ c.val \in Val
         /\ c.op = "pop" => c.end \in End
         /\ c.op = "shutdown" => c.how \in (SUBSET Half) \ {{}}
BY DEF Call

\* The calls the actions build are calls, and of the kind they are named for.
LEMMA CallMaking ==
  /\ Idle \in Call /\ Idle.op = "idle"
  /\ \A end \in End, v \in Val : PushCall(end, v) \in Call /\ PushCall(end, v).op = "push"
  /\ \A end \in End : PopCall(end) \in Call /\ PopCall(end).op = "pop"
  /\ \A how \in (SUBSET Half) \ {{}} :
        ShutdownCall(how) \in Call /\ ShutdownCall(how).op = "shutdown"
BY DEF Call, Idle, PushCall, PopCall, ShutdownCall

\* A signal wakes at most one blocked thread, and one if there is any.
LEMMA SignalLemma ==
  ASSUME NEW blocked, NEW after \in AfterSignal(blocked)
  PROVE  /\ after \subseteq blocked
         /\ blocked = {} => after = {}
         /\ blocked # {} => \E u \in blocked : after = blocked \ {u}
BY DEF AfterSignal

\* A step is a critical section run by a thread that is not blocked, or one of
\* the steps outside a critical section.
Runnable(t) == t \notin not_full /\ t \notin not_empty

Step(t) ==
  \/ \E end \in End, v \in Val : /\ call[t].op \in {"idle", "push"}
                                 /\ Runnable(t)
                                 /\ PushSection(t, end, v)
  \/ \E end \in End : /\ call[t].op \in {"idle", "pop"}
                      /\ Runnable(t)
                      /\ PopSection(t, end)
  \/ \E how \in (SUBSET Half) \ {{}} : ShutdownEnter(t, how)
  \/ ShutdownSection(t)
  \/ SpuriousWakeup(t)

LEMMA StepLemma ==
  ASSUME TypeOK, Next
  PROVE  \E t \in Thread : Step(t)
<1>1. PICK t \in Thread :
          \/ \E end \in End, v \in Val : Push(t, end, v)
          \/ \E end \in End : Pop(t, end)
          \/ \E how \in (SUBSET Half) \ {{}} : ShutdownEnter(t, how)
          \/ ShutdownSection(t)
          \/ Resume(t)
          \/ SpuriousWakeup(t)
  BY DEF Next
<1>2. /\ call[t] \in Call
      /\ t \in not_full => call[t].op = "push"
      /\ t \in not_empty => call[t].op = "pop"
  BY DEF TypeOK
<1>3. CASE \E end \in End, v \in Val : Push(t, end, v)
  BY <1>2, <1>3, CallMaking DEF Push, Step, Runnable
<1>4. CASE \E end \in End : Pop(t, end)
  BY <1>2, <1>4, CallMaking DEF Pop, Step, Runnable
<1>5. CASE Resume(t)
  <2>1. CASE /\ call[t].op = "push" /\ t \notin not_full
             /\ PushSection(t, call[t].end, call[t].val)
    BY <1>2, <2>1, CallLemma DEF Step, Runnable
  <2>2. CASE /\ call[t].op = "pop" /\ t \notin not_empty
             /\ PopSection(t, call[t].end)
    BY <1>2, <2>2, CallLemma DEF Step, Runnable
  <2>3. QED
    BY <1>5, <2>1, <2>2 DEF Resume
<1>6. QED
  BY <1>1, <1>3, <1>4, <1>5 DEF Step

(***************************************************************************)
(* Type correctness.                                                       *)
(***************************************************************************)
LEMMA TypeStep ==
  ASSUME TypeOK, [Next]_vars
  PROVE  TypeOK'
<1>1. CASE UNCHANGED vars
  BY <1>1 DEF TypeOK, vars, queueVars, fieldVars, condVars, history
<1>2. CASE Next
  <2>1. PICK t \in Thread : Step(t)
    BY <1>2, StepLemma
  <2>2. ASSUME NEW end \in End, NEW v \in Val, Runnable(t), PushWaits(t, end, v)
        PROVE  TypeOK'
    <3>1. PushCall(end, v) \in Call /\ PushCall(end, v).op = "push"
      BY CallMaking
    <3>2. call' \in [Thread -> Call]
      BY <2>2, <3>1 DEF TypeOK, PushWaits
    <3>3. \A u \in Thread : call'[u] = IF u = t THEN PushCall(end, v) ELSE call[u]
      BY <2>2 DEF TypeOK, PushWaits
    <3>4. QED
      BY <2>2, <3>1, <3>2, <3>3 DEF TypeOK, PushWaits, Runnable, queueVars, fieldVars, history
  <2>3. ASSUME NEW ok \in BOOLEAN, NEW out \in Val \cup {NoVal},
               Runnable(t), Return(t, ok, out)
        PROVE  /\ call' \in [Thread -> Call]
               /\ result' \in [Thread -> Result]
               /\ \A u \in Thread \ {t} : call'[u] = call[u]
               /\ call'[t].op = "idle"
               /\ not_full \subseteq {u \in Thread : call'[u].op = "push"}
               /\ not_empty \subseteq {u \in Thread : call'[u].op = "pop"}
    <3>1. call' \in [Thread -> Call] /\ call'[t].op = "idle"
          /\ \A u \in Thread \ {t} : call'[u] = call[u]
      BY <2>3, CallMaking DEF TypeOK, Return
    <3>2. [ok |-> ok, out |-> out] \in Result
      BY <2>3 DEF Result
    <3>3. result' \in [Thread -> Result]
      BY <2>3, <3>2 DEF TypeOK, Return
    <3>4. QED
      BY <2>3, <3>1, <3>3 DEF TypeOK, Runnable
  <2>4. ASSUME Runnable(t), PushRefused(t)
        PROVE  TypeOK'
    BY <2>3, <2>4 DEF TypeOK, PushRefused, queueVars, fieldVars, condVars, history
  <2>5. ASSUME NEW end \in End, NEW v \in Val, Runnable(t), PushAccepted(t, end, v)
        PROVE  TypeOK'
    <3> DEFINE kept == IF Full THEN Remove1(deque, Victim(end)) ELSE deque
               out  == IF Full THEN Peek(deque, Victim(end)) ELSE NoVal
               drop == IF Full THEN {Peek(deque, Victim(end))} ELSE {}
    <3>1. Full => deque # << >>
      BY EndLemma, BlockdqAssumption DEF TypeOK, Full
    <3>2. kept \in Seq(Val) /\ out \in Val \cup {NoVal} /\ drop \subseteq Val
      BY <3>1, EndLemma DEF TypeOK
    <3>3. Insert(kept, end, v) \in Seq(Val)
      BY <3>2, InsertLemma
    <3> HIDE DEF kept, out, drop
    <3>4. /\ dropped' = dropped \cup drop
          /\ \/ /\ deque' = Insert(kept, end, v)
                /\ accepted' = accepted \cup {v}
                /\ not_empty' \in AfterSignal(not_empty)
                /\ Return(t, TRUE, out)
             \/ /\ deque' = kept
                /\ Return(t, FALSE, out)
                /\ UNCHANGED <<accepted, not_empty>>
          /\ UNCHANGED <<fieldVars, not_full, taken>>
      BY <2>5 DEF PushAccepted, kept, out, drop, Admits, WakesPopper, Displaced
    <3>5. not_empty' \subseteq not_empty
      BY <3>4, SignalLemma
    <3>6. QED
      BY <2>3, <2>5, <3>2, <3>3, <3>4, <3>5 DEF TypeOK, fieldVars
  <2>6. ASSUME NEW end \in End, Runnable(t), PopWaits(t, end)
        PROVE  TypeOK'
    <3>1. PopCall(end) \in Call /\ PopCall(end).op = "pop"
      BY CallMaking
    <3>2. call' \in [Thread -> Call]
      BY <2>6, <3>1 DEF TypeOK, PopWaits
    <3>3. \A u \in Thread : call'[u] = IF u = t THEN PopCall(end) ELSE call[u]
      BY <2>6 DEF TypeOK, PopWaits
    <3>4. QED
      BY <2>6, <3>1, <3>2, <3>3 DEF TypeOK, PopWaits, Runnable, queueVars, fieldVars, history
  <2>7. ASSUME NEW end \in End, Runnable(t), PopTakes(t, end)
        PROVE  TypeOK'
    <3>1. Peek(deque, end) \in Val /\ deque' \in Seq(Val)
      BY <2>7, EndLemma DEF TypeOK, PopTakes, WakesPusher
    <3>2. not_full' \subseteq not_full
      BY <2>7, SignalLemma DEF PopTakes, WakesPusher
    <3>3. QED
      BY <2>3, <2>7, <3>1, <3>2 DEF TypeOK, PopTakes, WakesPusher, fieldVars
  <2>8. ASSUME Runnable(t), PopRefused(t)
        PROVE  TypeOK'
    BY <2>3, <2>8 DEF TypeOK, PopRefused, queueVars, fieldVars, condVars, history
  <2>9. ASSUME NEW how \in (SUBSET Half) \ {{}}, ShutdownEnter(t, how)
        PROVE  TypeOK'
    <3>1. ShutdownCall(how) \in Call /\ ShutdownCall(how).op = "shutdown"
      BY CallMaking
    <3>2. /\ call' \in [Thread -> Call]
          /\ \A u \in Thread : call'[u] = IF u = t THEN ShutdownCall(how) ELSE call[u]
      BY <2>9, <3>1 DEF TypeOK, ShutdownEnter
    <3>3. call[t].op = "idle"
      BY <2>9, CallMaking DEF ShutdownEnter
    <3>4. QED
      BY <2>9, <3>1, <3>2, <3>3 DEF TypeOK, ShutdownEnter, queueVars, fieldVars, condVars, history
  <2>10. ASSUME ShutdownSection(t)
         PROVE  TypeOK'
    <3>1. Runnable(t)
      BY <2>10 DEF TypeOK, ShutdownSection, Runnable, Released
    <3>2. not_full' \subseteq not_full /\ not_empty' \subseteq not_empty
      BY <2>10 DEF ShutdownSection, Released
    <3>3. en_colsed' \in BOOLEAN /\ de_colsed' \in BOOLEAN
      BY <2>10 DEF ShutdownSection, Released
    <3>4. QED
      BY <2>3, <2>10, <3>1, <3>2, <3>3 DEF TypeOK, ShutdownSection, history, Released
  <2>11. CASE SpuriousWakeup(t)
    BY <2>11 DEF TypeOK, SpuriousWakeup, queueVars, fieldVars, history
  <2>12. QED
    BY <2>1, <2>2, <2>4, <2>5, <2>6, <2>7, <2>8, <2>9, <2>10, <2>11
    DEF Step, PushSection, PopSection
<1>3. QED
  BY <1>1, <1>2

LEMMA InitTypes ==
  ASSUME Init
  PROVE  TypeOK
<1>1. << >> \in Seq(Val)
  BY EmptySeq
<1>2. [ok |-> FALSE, out |-> NoVal] \in Result
  BY DEF Result
<1>3. QED
  BY <1>1, <1>2, CallMaking DEF Init, TypeOK

\* The state of the queue and of the calls on it keeps its type.
THEOREM TypeCorrect == Spec => []TypeOK
<1>1. Init => TypeOK
  BY InitTypes
<1>2. TypeOK /\ [Next]_vars => TypeOK'
  BY TypeStep
<1>3. QED
  BY <1>1, <1>2, PTL DEF Spec

(***************************************************************************)
(* Capacity, closing and wake-ups.  What a critical section does to the    *)
(* length of the queue is stated once.                                     *)
(***************************************************************************)
LEMMA PushLength ==
  ASSUME TypeOK, NEW t \in Thread, NEW end \in End, NEW v \in Val,
         PushAccepted(t, end, v)
  PROVE  /\ Len(deque') \in Nat
         /\ deque' # << >> <=> Len(deque') > 0
         /\ \/ result'[t].ok /\ not_empty' \in AfterSignal(not_empty)
               /\ Len(deque') = (IF Full THEN Len(deque) ELSE Len(deque) + 1)
            \/ full_policy \in PushMayFail /\ not_empty' = not_empty
               /\ Len(deque') = (IF Full THEN Len(deque) - 1 ELSE Len(deque))
<1> DEFINE kept == IF Full THEN Remove1(deque, Victim(end)) ELSE deque
<1>1. Full => deque # << >>
  BY EndLemma, BlockdqAssumption DEF TypeOK, Full
<1>2. /\ kept \in Seq(Val)
      /\ Len(kept) = IF Full THEN Len(deque) - 1 ELSE Len(deque)
      /\ Len(deque) \in Nat
  BY <1>1, EndLemma DEF TypeOK
<1>3. Insert(kept, end, v) \in Seq(Val) /\ Len(Insert(kept, end, v)) = Len(kept) + 1
  BY <1>2, InsertLemma
<1> HIDE DEF kept
<1>4. \/ /\ deque' = Insert(kept, end, v)
         /\ not_empty' \in AfterSignal(not_empty)
         /\ result'[t].ok
      \/ /\ deque' = kept /\ not_empty' = not_empty /\ full_policy \in PushMayFail
  BY DEF PushAccepted, kept, Return, TypeOK, Admits, WakesPopper, Displaced
<1>5. deque' \in Seq(Val)
  BY <1>2, <1>3, <1>4
<1>6. Len(deque') \in Nat /\ (deque' # << >> <=> Len(deque') > 0)
  BY <1>5, EmptySeq, LenProperties
<1>7. QED
  BY <1>2, <1>3, <1>4, <1>6

LEMMA PopLength ==
  ASSUME TypeOK, NEW t \in Thread, NEW end \in End, PopTakes(t, end)
  PROVE  Len(deque) \in Nat /\ Len(deque) > 0 /\ Len(deque') = Len(deque) - 1
BY EndLemma, EmptySeq DEF TypeOK, PopTakes, WakesPusher

\* Woken threads are finitely many; one more or one less counts for one.
LEMMA WokenLemma ==
  ASSUME NEW op, NEW blocked
  PROVE  /\ IsFiniteSet(Woken(op, blocked))
         /\ Cardinality(Woken(op, blocked)) \in Nat
         /\ \A t : /\ IsFiniteSet(Woken(op, blocked) \ {t})
                   /\ Cardinality(Woken(op, blocked) \ {t}) \in Nat
                   /\ Cardinality(Woken(op, blocked) \ {t})
                        >= Cardinality(Woken(op, blocked)) - 1
                   /\ t \notin Woken(op, blocked) =>
                        Cardinality(Woken(op, blocked) \cup {t})
                          = Cardinality(Woken(op, blocked)) + 1
<1>1. IsFiniteSet(Woken(op, blocked))
  <2>1. Woken(op, blocked) \in SUBSET Thread
    BY DEF Woken
  <2>2. QED
    BY <2>1, FS_Subset, BlockdqAssumption
<1>2. Cardinality(Woken(op, blocked)) \in Nat
  BY <1>1, FS_CardinalityType
<1>3. QED
  BY <1>1, <1>2, FS_AddElement, FS_RemoveElement, FS_CardinalityType

\* What a step does to the woken threads of a kind.
LEMMA ReturnWoken ==
  ASSUME TypeOK, NEW t \in Thread, NEW ok, NEW out, Return(t, ok, out),
         NEW op \in {"push", "pop"}, NEW blocked
  PROVE  {u \in Thread : call'[u].op = op} \ blocked = Woken(op, blocked) \ {t}
<1>1. call'[t].op = "idle" /\ \A u \in Thread \ {t} : call'[u] = call[u]
  BY CallMaking DEF Return, TypeOK
<1>2. QED
  BY <1>1 DEF Woken

\* Starting to wait, closing and waking spuriously, seen from the woken
\* threads: a thread that blocks leaves them, no other thread is affected.
LEMMA WaitWoken ==
  ASSUME TypeOK, NEW t \in Thread, NEW c \in Call, NEW op \in {"push", "pop"},
         call[t].op \in {"idle", c.op},
         call' = [call EXCEPT ![t] = c]
  PROVE  /\ c.op = op => \A blocked : {u \in Thread : call'[u].op = op} \ (blocked \cup {t})
                                        = Woken(op, blocked) \ {t}
         /\ c.op # op => \A blocked : {u \in Thread : call'[u].op = op} \ blocked
                                        = Woken(op, blocked)
<1>1. call'[t] = c /\ \A u \in Thread \ {t} : call'[u] = call[u]
  BY DEF TypeOK
<1>2. c.op # op => {u \in Thread : call'[u].op = op} = {u \in Thread : call[u].op = op}
  BY <1>1
<1>3. c.op = op => \A u : u \in {x \in Thread : call'[x].op = op} /\ u # t
                          <=> u \in {x \in Thread : call[x].op = op} /\ u # t
  BY <1>1
<1>4. QED
  BY <1>2, <1>3 DEF Woken

\* The inductive invariant for capacity, closing and the wake-ups of poppers.
PopInv == WithinCapacity /\ ClosedHalfIsFree /\ NoLostItem

LEMMA PopInvStep ==
  ASSUME TypeOK, PopInv, [Next]_vars
  PROVE  PopInv'
<1> DEFINE W == Woken("pop", not_empty)
           W1 == {u \in Thread : call'[u].op = "pop"} \ not_empty'
<1>1. /\ NoLostItem <=> (not_empty # {} => Cardinality(W) >= Len(deque))
      /\ NoLostItem' <=> (not_empty' # {} => Cardinality(W1) >= Len(deque'))
  BY DEF NoLostItem, Woken
<1>5. /\ IsFiniteSet(W) /\ Cardinality(W) \in Nat
      /\ \A x : /\ Cardinality(W \ {x}) \in Nat
                /\ Cardinality(W \ {x}) >= Cardinality(W) - 1
                /\ x \notin W => Cardinality(W \cup {x}) = Cardinality(W) + 1
  BY WokenLemma
<1> HIDE DEF W, W1
<1>2. CASE UNCHANGED vars
  BY <1>2 DEF PopInv, WithinCapacity, ClosedHalfIsFree, NoLostItem, Woken,
              vars, queueVars, fieldVars, condVars
<1>3. CASE Next
  <2>1. PICK t \in Thread : Step(t)
    BY <1>3, StepLemma
  <2>2. Len(deque) \in Nat /\ MaxCapacity \in Nat \ {0} /\ Len(deque) <= MaxCapacity
    BY EmptySeq, LenProperties, BlockdqAssumption DEF TypeOK, PopInv, WithinCapacity
  <2>4. W1 = W /\ not_empty' = not_empty /\ deque' = deque => NoLostItem'
    BY <1>1 DEF PopInv
  <2>5. ASSUME NEW end \in End, NEW v \in Val, call[t].op \in {"idle", "push"},
               Runnable(t), PushSection(t, end, v)
        PROVE  PopInv'
    <3>1. CASE PushWaits(t, end, v)
      <4>1. W1 = W
        BY <2>5, <3>1, WaitWoken, CallMaking DEF PushWaits, W, W1
      <4>2. NoLostItem'
        BY <2>4, <3>1, <4>1 DEF PushWaits, queueVars, fieldVars
      <4>3. QED
        BY <3>1, <4>2 DEF PopInv, WithinCapacity, ClosedHalfIsFree, PushWaits, queueVars, fieldVars
    <3>2. CASE PushRefused(t)
      <4>1. W1 = W \ {t} /\ t \notin W
        BY <2>5, <3>2, ReturnWoken DEF PushRefused, Woken, condVars, W, W1
      <4>2. NoLostItem'
        BY <2>4, <3>2, <4>1 DEF PushRefused, queueVars, fieldVars, condVars
      <4>3. QED
        BY <3>2, <4>2 DEF PopInv, WithinCapacity, ClosedHalfIsFree, PushRefused,
                          queueVars, fieldVars, condVars
    <3>3. CASE PushAccepted(t, end, v)
      <4>1. PICK ok, out : Return(t, ok, out)
        BY <3>3 DEF PushAccepted, Admits, WakesPopper, Displaced
      <4>2. t \notin W
        BY <2>5 DEF Woken, W
      <4>3. W1 = Woken("pop", not_empty') \ {t}
        BY <4>1, ReturnWoken DEF W1
      <4>4. /\ Len(deque') \in Nat
            /\ Len(deque') <= Len(deque) + 1
            /\ Len(deque') <= MaxCapacity
            /\ \/ not_empty' \in AfterSignal(not_empty)
               \/ not_empty' = not_empty /\ Len(deque') <= Len(deque)
        BY <2>2, <3>3, PushLength DEF Full
      <4>5. CASE not_empty' = not_empty
        <5>1. W1 = W
          BY <4>2, <4>3, <4>5 DEF W
        <5>2. not_empty # {} => Len(deque') <= Len(deque)
          BY <4>4, <4>5, SignalLemma
        <5>3. not_empty # {} => Cardinality(W1) >= Len(deque')
          BY <1>1, <1>5, <2>2, <4>4, <4>5, <5>1, <5>2 DEF PopInv
        <5>4. NoLostItem'
          BY <1>1, <4>5, <5>3
        <5>5. QED
          BY <3>3, <4>4, <4>5, <5>4
          DEF PopInv, WithinCapacity, ClosedHalfIsFree, PushAccepted, Admits, WakesPopper, Displaced, fieldVars
      <4>6. ASSUME NEW u \in not_empty, not_empty' = not_empty \ {u},
                   Len(deque') <= Len(deque) + 1
            PROVE  PopInv'
        <5>1. u \in Thread /\ call[u].op = "pop" /\ u # t
          BY <2>5, <4>6 DEF TypeOK
        <5>2. W1 = W \cup {u} /\ u \notin W
          BY <4>2, <4>3, <4>6, <5>1 DEF Woken, W
        <5>3. Cardinality(W1) = Cardinality(W) + 1
          BY <1>5, <5>2
        <5>4. Cardinality(W) >= Len(deque)
          BY <1>1, <4>6 DEF PopInv
        <5>5. NoLostItem'
          BY <1>1, <1>5, <2>2, <4>4, <4>6, <5>3, <5>4
        <5>6. QED
          BY <3>3, <4>4, <4>6, <5>5
          DEF PopInv, WithinCapacity, ClosedHalfIsFree, PushAccepted, Admits, WakesPopper, Displaced, fieldVars
      <4>7. CASE not_empty' \in AfterSignal(not_empty) /\ not_empty # {}
        <5>1. PICK u \in not_empty : not_empty' = not_empty \ {u}
          BY <4>7, SignalLemma
        <5>2. QED
          BY <4>4, <4>6, <5>1
      <4>8. CASE not_empty' \in AfterSignal(not_empty) /\ not_empty = {}
        BY <4>5, <4>8, SignalLemma
      <4>9. QED
        BY <4>4, <4>5, <4>7, <4>8
    <3>4. QED
      BY <2>5, <3>1, <3>2, <3>3 DEF PushSection
  <2>6. ASSUME NEW end \in End, call[t].op \in {"idle", "pop"},
               Runnable(t), PopSection(t, end)
        PROVE  PopInv'
    <3>1. CASE PopWaits(t, end)
      <4>1. W1 = W \ {t}
        BY <2>6, <3>1, WaitWoken, CallMaking DEF PopWaits, W, W1
      <4>2. Cardinality(W1) \in Nat
        BY <1>5, <4>1
      <4>3. Len(deque') = 0
        BY <3>1, EmptySeq DEF PopWaits, queueVars, fieldVars
      <4>4. NoLostItem'
        BY <1>1, <4>2, <4>3
      <4>5. QED
        BY <3>1, <4>4 DEF PopInv, WithinCapacity, ClosedHalfIsFree, PopWaits, queueVars, fieldVars
    <3>2. CASE PopTakes(t, end)
      <4>1. not_empty' = not_empty /\ W1 = W \ {t}
        BY <3>2, ReturnWoken DEF PopTakes, W, W1, WakesPusher
      <4>2. Cardinality(W1) \in Nat /\ Cardinality(W1) >= Cardinality(W) - 1
        BY <1>5, <4>1
      <4>3. Len(deque') = Len(deque) - 1 /\ Len(deque) > 0
        BY <3>2, PopLength
      <4>4. NoLostItem'
        BY <1>1, <1>5, <2>2, <4>1, <4>2, <4>3 DEF PopInv
      <4>5. not_full = {} => not_full' = {}
        BY <3>2, SignalLemma DEF PopTakes, WakesPusher
      <4>6. QED
        BY <2>2, <3>2, <4>1, <4>3, <4>4, <4>5
        DEF PopInv, WithinCapacity, ClosedHalfIsFree, PopTakes, WakesPusher, fieldVars
    <3>3. CASE PopRefused(t)
      <4>1. not_empty' = {}
        BY <3>3 DEF PopInv, ClosedHalfIsFree, PopRefused, condVars
      <4>2. QED
        BY <3>3, <4>1 DEF PopInv, WithinCapacity, ClosedHalfIsFree, NoLostItem, PopRefused,
                          queueVars, fieldVars, condVars
    <3>4. QED
      BY <2>6, <3>1, <3>2, <3>3 DEF PopSection
  <2>7. ASSUME NEW how \in (SUBSET Half) \ {{}}, ShutdownEnter(t, how)
        PROVE  PopInv'
    <3>1. W1 = W
      BY <2>7, WaitWoken, CallMaking DEF ShutdownEnter, condVars, W, W1
    <3>2. NoLostItem'
      BY <2>4, <2>7, <3>1 DEF ShutdownEnter, queueVars, fieldVars, condVars
    <3>3. QED
      BY <2>7, <3>2 DEF PopInv, WithinCapacity, ClosedHalfIsFree, ShutdownEnter,
                        queueVars, fieldVars, condVars
  <2>8. ASSUME ShutdownSection(t)
        PROVE  PopInv'
    <3>1. t \notin W
      BY <2>8 DEF ShutdownSection, Woken, W, Released
    <3>0. Return(t, TRUE, NoVal)
      BY <2>8 DEF ShutdownSection, Released
    <3>2. not_empty' = not_empty => W1 = W
      <4>1. W1 = Woken("pop", not_empty') \ {t}
        BY <3>0, ReturnWoken DEF W1
      <4>2. QED
        BY <3>1, <4>1 DEF W
    <3>3. not_empty' = {} \/ not_empty' = not_empty
      BY <2>8 DEF ShutdownSection, Released
    <3>4. NoLostItem'
      BY <1>1, <2>4, <2>8, <3>2, <3>3 DEF ShutdownSection, Released
    <3>5. ClosedHalfIsFree'
      BY <2>8 DEF PopInv, ClosedHalfIsFree, ShutdownSection, TypeOK, Released
    <3>6. QED
      BY <2>8, <3>4, <3>5 DEF PopInv, WithinCapacity, ShutdownSection, Released
  <2>9. ASSUME SpuriousWakeup(t)
        PROVE  PopInv'
    <3>1. W \subseteq W1 /\ IsFiniteSet(W1)
      <4>1. W \subseteq W1 /\ W1 \in SUBSET Thread
        BY <2>9 DEF SpuriousWakeup, Woken, W, W1
      <4>2. QED
        BY <4>1, FS_Subset, BlockdqAssumption
    <3>2. Cardinality(W1) \in Nat /\ Cardinality(W1) >= Cardinality(W)
      BY <1>5, <3>1, FS_Subset, FS_CardinalityType
    <3>3. not_empty' # {} => not_empty # {}
      BY <2>9 DEF SpuriousWakeup
    <3>4. deque' = deque
      BY <2>9 DEF SpuriousWakeup, queueVars, fieldVars
    <3>5. NoLostItem'
      BY <1>1, <1>5, <2>2, <3>2, <3>3, <3>4 DEF PopInv
    <3>6. QED
      BY <2>9, <3>5 DEF PopInv, WithinCapacity, ClosedHalfIsFree, SpuriousWakeup, queueVars, fieldVars
  <2>10. QED
    BY <2>1, <2>5, <2>6, <2>7, <2>8, <2>9 DEF Step
<1>4. QED
  BY <1>2, <1>3

\* At most max_capacity elements, nobody blocked on a closed half, and no
\* element without a woken popper while a popper is blocked.
THEOREM PopperSafety == Spec => [](WithinCapacity /\ ClosedHalfIsFree /\ NoLostItem)
<1>1. Init => PopInv
  BY BlockdqAssumption, EmptySeq DEF Init, PopInv, WithinCapacity, ClosedHalfIsFree, NoLostItem
<1>2. TypeOK /\ PopInv /\ [Next]_vars => PopInv'
  BY PopInvStep
<1>3. PopInv => WithinCapacity /\ ClosedHalfIsFree /\ NoLostItem
  BY DEF PopInv
<1>4. QED
  BY <1>1, <1>2, <1>3, TypeCorrect, PTL DEF Spec

\* cra_blockdq_shutdown leaves nobody blocked on a half that it closed, and
\* nobody blocks there later.
COROLLARY ClosedHalvesAreFree == Spec => []ClosedHalfIsFree
BY PopperSafety, PTL

(***************************************************************************)
(* The same for pushers.  A push that cannot allocate uses up a signal of  *)
(* not_full without filling the place, so this needs PushMayFail = {}.         *)
(***************************************************************************)
PushInv == WithinCapacity /\ NoLostSpace

LEMMA PushInvStep ==
  ASSUME TypeOK, ClosedHalfIsFree, PushInv, PushMayFail = {}, [Next]_vars
  PROVE  NoLostSpace'
<1> DEFINE W == Woken("push", not_full)
           W1 == {u \in Thread : call'[u].op = "push"} \ not_full'
<1>1. /\ NoLostSpace <=> (not_full # {} => Len(deque) + Cardinality(W) >= MaxCapacity)
      /\ NoLostSpace' <=> (not_full' # {} => Len(deque') + Cardinality(W1) >= MaxCapacity)
  BY DEF NoLostSpace, Woken
<1>2. /\ IsFiniteSet(W) /\ Cardinality(W) \in Nat
      /\ \A x : /\ Cardinality(W \ {x}) \in Nat
                /\ Cardinality(W \ {x}) >= Cardinality(W) - 1
                /\ x \notin W => Cardinality(W \cup {x}) = Cardinality(W) + 1
  BY WokenLemma
<1> HIDE DEF W, W1
<1>3. Len(deque) \in Nat /\ MaxCapacity \in Nat \ {0} /\ Len(deque) <= MaxCapacity
  BY EmptySeq, LenProperties, BlockdqAssumption DEF TypeOK, PushInv, WithinCapacity
<1>4. W1 = W /\ not_full' = not_full /\ deque' = deque => NoLostSpace'
  BY <1>1 DEF PushInv
<1>5. CASE UNCHANGED vars
  BY <1>5 DEF PushInv, NoLostSpace, Woken, vars, queueVars, fieldVars, condVars
<1>6. CASE Next
  <2>1. PICK t \in Thread : Step(t)
    BY <1>6, StepLemma
  <2>2. ASSUME NEW end \in End, NEW v \in Val, call[t].op \in {"idle", "push"},
               Runnable(t), PushSection(t, end, v)
        PROVE  NoLostSpace'
    <3>1. CASE PushWaits(t, end, v)
      <4>1. W1 = W \ {t}
        BY <2>2, <3>1, WaitWoken, CallMaking DEF PushWaits, W, W1
      <4>2. Cardinality(W1) \in Nat
        BY <1>2, <4>1
      <4>3. Len(deque') = MaxCapacity
        BY <3>1 DEF PushWaits, queueVars, fieldVars, Full
      <4>4. QED
        BY <1>1, <1>3, <4>2, <4>3
    <3>2. CASE PushRefused(t)
      <4>1. CASE en_colsed
        <5>1. not_full' = {}
          BY <3>2, <4>1 DEF ClosedHalfIsFree, PushRefused, condVars
        <5>2. QED
          BY <5>1 DEF NoLostSpace
      <4>2. CASE Full
        <5>1. Len(deque') = MaxCapacity
          BY <3>2, <4>2 DEF PushRefused, queueVars, fieldVars, Full
        <5>2. W1 = W \ {t}
          BY <3>2, ReturnWoken DEF PushRefused, condVars, W, W1
        <5>3. Cardinality(W1) \in Nat
          BY <1>2, <5>2
        <5>4. QED
          BY <1>1, <1>3, <5>1, <5>3
      <4>3. QED
        BY <3>2, <4>1, <4>2 DEF PushRefused
    <3>3. CASE PushAccepted(t, end, v)
      <4>1. PICK ok, out : Return(t, ok, out)
        BY <3>3 DEF PushAccepted, Admits, WakesPopper, Displaced
      <4>2. not_full' = not_full
        BY <3>3 DEF PushAccepted, Admits, WakesPopper, Displaced
      <4>3. W1 = W \ {t}
        BY <4>1, <4>2, ReturnWoken DEF W, W1
      <4>4. Cardinality(W1) \in Nat /\ Cardinality(W1) >= Cardinality(W) - 1
        BY <1>2, <4>3
      <4>5. Len(deque') = IF Full THEN Len(deque) ELSE Len(deque) + 1
        BY <3>3, PushLength
      <4>6. CASE Full
        BY <1>1, <1>3, <4>4, <4>5, <4>6 DEF Full
      <4>7. CASE ~Full
        BY <1>1, <1>2, <1>3, <4>2, <4>4, <4>5, <4>7 DEF PushInv
      <4>8. QED
        BY <4>6, <4>7
    <3>4. QED
      BY <2>2, <3>1, <3>2, <3>3 DEF PushSection
  <2>3. ASSUME NEW end \in End, call[t].op \in {"idle", "pop"},
               Runnable(t), PopSection(t, end)
        PROVE  NoLostSpace'
    <3>1. CASE PopWaits(t, end)
      <4>1. W1 = W
        BY <2>3, <3>1, WaitWoken, CallMaking DEF PopWaits, W, W1
      <4>2. QED
        BY <1>4, <3>1, <4>1 DEF PopWaits, queueVars, fieldVars
    <3>2. CASE PopTakes(t, end)
      <4>1. W1 = Woken("push", not_full') \ {t}
        BY <3>2, ReturnWoken DEF PopTakes, W1, WakesPusher
      <4>2. t \notin W
        BY <2>3 DEF Woken, W
      <4>3. Len(deque') = Len(deque) - 1 /\ Len(deque) > 0
        BY <3>2, PopLength
      <4>4. CASE not_full = {}
        <5>1. not_full' = {}
          BY <3>2, <4>4, SignalLemma DEF PopTakes, WakesPusher
        <5>2. QED
          BY <5>1 DEF NoLostSpace
      <4>5. CASE not_full # {}
        <5>1. PICK u \in not_full : not_full' = not_full \ {u}
          BY <3>2, <4>5, SignalLemma DEF PopTakes, WakesPusher
        <5>2. u \in Thread /\ call[u].op = "push" /\ u # t
          BY <2>3, <5>1 DEF TypeOK
        <5>3. W1 = W \cup {u} /\ u \notin W
          BY <4>1, <4>2, <5>1, <5>2 DEF Woken, W
        <5>4. Cardinality(W1) = Cardinality(W) + 1
          BY <1>2, <5>3
        <5>5. Len(deque) + Cardinality(W) >= MaxCapacity
          BY <1>1, <4>5 DEF PushInv
        <5>6. QED
          BY <1>1, <1>2, <1>3, <4>3, <5>4, <5>5
      <4>6. QED
        BY <4>4, <4>5
    <3>3. CASE PopRefused(t)
      <4>1. W1 = W \ {t} /\ t \notin W
        BY <2>3, <3>3, ReturnWoken DEF PopRefused, Woken, condVars, W, W1
      <4>2. QED
        BY <1>4, <3>3, <4>1 DEF PopRefused, queueVars, fieldVars, condVars
    <3>4. QED
      BY <2>3, <3>1, <3>2, <3>3 DEF PopSection
  <2>4. ASSUME NEW how \in (SUBSET Half) \ {{}}, ShutdownEnter(t, how)
        PROVE  NoLostSpace'
    <3>1. W1 = W
      BY <2>4, WaitWoken, CallMaking DEF ShutdownEnter, condVars, W, W1
    <3>2. QED
      BY <1>4, <2>4, <3>1 DEF ShutdownEnter, queueVars, fieldVars, condVars
  <2>5. ASSUME ShutdownSection(t)
        PROVE  NoLostSpace'
    <3>1. CASE not_full' = {}
      BY <3>1 DEF NoLostSpace
    <3>2. CASE not_full' = not_full
      <4>1. Return(t, TRUE, NoVal) /\ t \notin W
        BY <2>5 DEF ShutdownSection, Woken, W, Released
      <4>2. W1 = W \ {t}
        BY <3>2, <4>1, ReturnWoken DEF W, W1
      <4>3. QED
        BY <1>4, <2>5, <3>2, <4>1, <4>2 DEF ShutdownSection, Released
    <3>3. QED
      BY <2>5, <3>1, <3>2 DEF ShutdownSection, Released
  <2>6. ASSUME SpuriousWakeup(t)
        PROVE  NoLostSpace'
    <3>1. W \subseteq W1 /\ W1 \in SUBSET Thread
      BY <2>6 DEF SpuriousWakeup, Woken, W, W1
    <3>2. Cardinality(W1) \in Nat /\ Cardinality(W1) >= Cardinality(W)
      BY <1>2, <3>1, FS_Subset, FS_CardinalityType, BlockdqAssumption
    <3>3. /\ not_full' # {} => not_full # {}
          /\ deque' = deque
      BY <2>6 DEF SpuriousWakeup, queueVars, fieldVars
    <3>4. QED
      BY <1>1, <1>2, <1>3, <3>2, <3>3 DEF PushInv
  <2>7. QED
    BY <2>1, <2>2, <2>3, <2>4, <2>5, <2>6 DEF Step
<1>7. QED
  BY <1>5, <1>6

\* When pushes do not run out of memory, no free place is without a woken
\* pusher while a pusher is blocked.
THEOREM PusherSafety == ASSUME PushMayFail = {} PROVE Spec => []NoLostSpace
<1>1. Init => NoLostSpace
  BY DEF Init, NoLostSpace
<1>2. /\ TypeOK /\ WithinCapacity /\ ClosedHalfIsFree /\ NoLostSpace
      /\ [Next]_vars
      => NoLostSpace'
  BY PushInvStep DEF PushInv
<1>3. QED
  BY <1>1, <1>2, TypeCorrect, PopperSafety, PTL DEF Spec

\* Once the queue is closed for enqueue, no step of any thread lets a value in.
THEOREM ClosedStaysClosed == Spec => NothingEntersClosed
<1>1. TypeOK /\ [Next]_vars => [en_colsed => accepted' = accepted]_vars
  <2> SUFFICES ASSUME TypeOK, Next, en_colsed PROVE accepted' = accepted
    BY DEF vars, history
  <2>1. PICK t \in Thread : Step(t)
    BY StepLemma
  <2>2. QED
    BY <2>1 DEF Step, PushSection, PushWaits, PushRefused, PushAccepted, PopSection,
                PopWaits, PopTakes, PopRefused, ShutdownEnter, ShutdownSection,
                SpuriousWakeup, history, Admits, WakesPopper, Displaced, WakesPusher, Released
<1>2. QED
  BY <1>1, TypeCorrect, PTL DEF Spec, NothingEntersClosed

(***************************************************************************)
(* What becomes of the values pushed, whatever the policy and however      *)
(* pushes fail.                                                            *)
(***************************************************************************)
\* The value of a push that is under way is in no other call, and has not been
\* in the queue.
PendingIsNew ==
  \A t \in Thread : call[t].op = "push" =>
    /\ call[t].val \notin accepted
    /\ \A u \in Thread \ {t} : call[u].op = "push" => call[u].val # call[t].val

\* The inductive invariant.
ConsInv == Conservation /\ PendingIsNew

\* Value v is not in the queue, never was, and no thread but t is to push it.
NewFor(t, v) ==
  /\ v \notin accepted
  /\ \A u \in Thread \ {t} : call[u].op = "push" => call[u].val # v

\* StepLemma, with what is known of a value that is pushed.
LEMMA PushStep ==
  ASSUME TypeOK, PendingIsNew, Next
  PROVE  \E t \in Thread :
           \/ \E end \in End, v \in Val :
                /\ call[t].op \in {"idle", "push"} /\ NewFor(t, v)
                /\ PushSection(t, end, v)
           \/ \E end \in End : PopSection(t, end)
           \/ \E how \in (SUBSET Half) \ {{}} : ShutdownEnter(t, how)
           \/ ShutdownSection(t)
           \/ SpuriousWakeup(t)
<1>1. PICK t \in Thread :
          \/ \E end \in End, v \in Val : Push(t, end, v)
          \/ \E end \in End : Pop(t, end)
          \/ \E how \in (SUBSET Half) \ {{}} : ShutdownEnter(t, how)
          \/ ShutdownSection(t)
          \/ Resume(t)
          \/ SpuriousWakeup(t)
  BY DEF Next
<1>2. call[t] \in Call
  BY DEF TypeOK
<1>3. ASSUME NEW end \in End, NEW v \in Val, Push(t, end, v)
      PROVE  /\ call[t].op \in {"idle", "push"} /\ NewFor(t, v)
             /\ PushSection(t, end, v)
  BY <1>3, CallMaking DEF Push, Fresh, NewFor
<1>4. CASE Resume(t)
  <2>1. CASE call[t].op = "push" /\ PushSection(t, call[t].end, call[t].val)
    <3>1. NewFor(t, call[t].val)
      BY <2>1 DEF NewFor, PendingIsNew
    <3>2. QED
      BY <1>2, <2>1, <3>1, CallLemma
  <2>2. CASE call[t].op = "pop" /\ PopSection(t, call[t].end)
    BY <1>2, <2>2, CallLemma
  <2>3. QED
    BY <1>4, <2>1, <2>2 DEF Resume
<1>5. QED
  BY <1>1, <1>3, <1>4 DEF Pop

(***************************************************************************)
(* The elements of a sequence without repetitions.                         *)
(***************************************************************************)
LEMMA RemoveElements ==
  ASSUME NEW s \in Seq(Val), s # << >>, IsInjective(s), NEW end \in End
  PROVE  /\ Remove1(s, end) \in Seq(Val) /\ IsInjective(Remove1(s, end))
         /\ Peek(s, end) \in ToSet(s)
         /\ ToSet(Remove1(s, end)) = ToSet(s) \ {Peek(s, end)}
<1> DEFINE n == Len(s)
<1>1. n \in Nat /\ n > 0 /\ DOMAIN s = 1 .. n
  BY EmptySeq, LenProperties
<1>2. CASE end = "front"
  <2>1. /\ Tail(s) \in Seq(Val) /\ Len(Tail(s)) = n - 1 /\ Head(s) = s[1]
        /\ \A i \in 1 .. n - 1 : Tail(s)[i] = s[i + 1]
    BY HeadTailProperties
  <2>2. DOMAIN Tail(s) = 1 .. n - 1
    BY <2>1, LenProperties
  <2>3. \A i \in 2 .. n : i - 1 \in 1 .. n - 1 /\ i = (i - 1) + 1
    BY <1>1
  <2>4. \A i \in 1 .. n - 1 : i + 1 \in 2 .. n
    BY <1>1
  <2>5. 1 .. n = {1} \cup (2 .. n) /\ 1 \notin 2 .. n
    BY <1>1
  <2>6. IsInjective(Tail(s))
    BY <1>1, <2>1, <2>2 DEF IsInjective
  <2>7. ToSet(Tail(s)) = {s[i] : i \in 2 .. n}
    <3>1. \A i \in 2 .. n : s[i] = Tail(s)[i - 1]
      BY <1>1, <2>1, <2>3
    <3>2. \A i \in 1 .. n - 1 : Tail(s)[i] \in {s[j] : j \in 2 .. n}
      BY <2>1, <2>4
    <3>3. \A i \in 2 .. n : s[i] \in ToSet(Tail(s))
      BY <2>2, <2>3, <3>1 DEF ToSet
    <3>4. QED
      BY <2>2, <3>2, <3>3 DEF ToSet
  <2>8. {s[i] : i \in 2 .. n} = ToSet(s) \ {s[1]}
    BY <1>1, <2>5 DEF ToSet, IsInjective
  <2>9. s[1] \in ToSet(s)
    BY <1>1, <2>5 DEF ToSet
  <2>10. QED
    BY <1>2, <2>1, <2>6, <2>7, <2>8, <2>9 DEF Remove1, Peek
<1>3. CASE end = "back"
  <2>1. \A i \in 1 .. n : s[i] \in Val
    BY ElementOfSeq
  <2>2. /\ Front(s) \in Seq(Val) /\ Len(Front(s)) = n - 1
        /\ \A i \in 1 .. n - 1 : Front(s)[i] = s[i]
    <3>1. /\ 1 \in Int /\ n - 1 \in Int /\ \A i \in 1 .. n - 1 : s[i] \in Val
          /\ (IF 1 <= n - 1 THEN n - 1 - 1 + 1 ELSE 0) = n - 1
          /\ n - 1 - 1 + 1 = n - 1
          /\ \A i \in 1 .. n - 1 : 1 + i - 1 = i
      BY <1>1, <2>1
    <3>2. QED
      BY <3>1, SubSeqProperties DEF Front
  <2>3. DOMAIN Front(s) = 1 .. n - 1
    BY <2>2, LenProperties
  <2>4. 1 .. n = (1 .. n - 1) \cup {n} /\ n \notin 1 .. n - 1
    BY <1>1
  <2>5. IsInjective(Front(s))
    BY <1>1, <2>2, <2>3, <2>4 DEF IsInjective
  <2>6. ToSet(Front(s)) = {s[i] : i \in 1 .. n - 1}
    BY <2>2, <2>3 DEF ToSet
  <2>7. {s[i] : i \in 1 .. n - 1} = ToSet(s) \ {s[n]}
    BY <1>1, <2>4 DEF ToSet, IsInjective
  <2>8. s[n] \in ToSet(s)
    BY <1>1, <2>4 DEF ToSet
  <2>9. QED
    BY <1>3, <2>2, <2>5, <2>6, <2>7, <2>8 DEF Remove1, Peek, Last
<1>4. QED
  BY <1>2, <1>3 DEF End

LEMMA InsertElements ==
  ASSUME NEW s \in Seq(Val), IsInjective(s), NEW end \in End,
         NEW v \in Val, v \notin ToSet(s)
  PROVE  /\ IsInjective(Insert(s, end, v))
         /\ ToSet(Insert(s, end, v)) = ToSet(s) \cup {v}
<1> DEFINE n == Len(s)
<1>1. n \in Nat /\ DOMAIN s = 1 .. n
  BY LenProperties
<1>2. CASE end = "front"
  <2> DEFINE r == <<v>> \o s
  <2>1. <<v>> \in Seq(Val) /\ Len(<<v>>) = 1 /\ <<v>>[1] = v
    OBVIOUS
  <2>2. /\ r \in Seq(Val) /\ Len(r) = 1 + n
        /\ \A i \in 1 .. 1 + n : r[i] = IF i <= 1 THEN <<v>>[i] ELSE s[i - 1]
    BY <2>1, ConcatProperties
  <2>3. DOMAIN r = 1 .. 1 + n
    BY <2>2, LenProperties
  <2> HIDE DEF r
  <2>4. r[1] = v /\ \A i \in 1 .. n : r[i + 1] = s[i]
    BY <1>1, <2>1, <2>2
  <2>5. \A j \in 1 .. 1 + n : j = 1 \/ \E i \in 1 .. n : j = i + 1
    <3>1. \A j \in 1 .. 1 + n : j = 1 \/ (j - 1 \in 1 .. n /\ j = (j - 1) + 1)
      BY <1>1
    <3>2. QED
      BY <3>1
  <2>6. 1 \in 1 .. 1 + n /\ \A i \in 1 .. n : i + 1 \in 1 .. 1 + n
    BY <1>1
  <2>7. IsInjective(r)
    <3>1. ASSUME NEW i \in 1 .. n PROVE r[i + 1] # v
      BY <1>1, <2>4 DEF ToSet
    <3>2. ASSUME NEW i \in 1 .. n, NEW j \in 1 .. n, r[i + 1] = r[j + 1] PROVE i = j
      BY <1>1, <2>4, <3>2 DEF IsInjective
    <3>3. ASSUME NEW a \in 1 .. 1 + n, NEW b \in 1 .. 1 + n, r[a] = r[b] PROVE a = b
      BY <2>4, <2>5, <3>1, <3>2, <3>3
    <3>4. QED
      BY <2>3, <3>3 DEF IsInjective
  <2>8. ToSet(r) = ToSet(s) \cup {v}
    <3>1. \A j \in 1 .. 1 + n : r[j] \in ToSet(s) \cup {v}
      BY <1>1, <2>4, <2>5 DEF ToSet
    <3>2. v \in ToSet(r)
      BY <2>3, <2>4, <2>6 DEF ToSet
    <3>3. \A i \in 1 .. n : s[i] \in ToSet(r)
      BY <2>3, <2>4, <2>6 DEF ToSet
    <3>4. ToSet(r) \subseteq ToSet(s) \cup {v}
      BY <2>3, <3>1 DEF ToSet
    <3>5. ToSet(s) \subseteq ToSet(r)
      BY <1>1, <3>3 DEF ToSet
    <3>6. QED
      BY <3>2, <3>4, <3>5
  <2>9. QED
    BY <1>2, <2>7, <2>8 DEF Insert, r
<1>3. CASE end = "back"
  <2> DEFINE r == Append(s, v)
  <2>1. /\ r \in Seq(Val) /\ Len(r) = n + 1 /\ r[n + 1] = v
        /\ \A i \in 1 .. n : r[i] = s[i]
    BY AppendProperties
  <2>2. DOMAIN r = (1 .. n) \cup {n + 1}
    <3>1. DOMAIN r = 1 .. n + 1
      BY <2>1, LenProperties
    <3>2. QED
      BY <1>1, <3>1
  <2> HIDE DEF r
  <2>3. IsInjective(r)
    BY <1>1, <2>1, <2>2 DEF IsInjective, ToSet
  <2>4. ToSet(r) = ToSet(s) \cup {v}
    BY <1>1, <2>1, <2>2 DEF ToSet
  <2>5. QED
    BY <1>3, <2>3, <2>4 DEF Insert, r
<1>4. QED
  BY <1>2, <1>3 DEF End

(***************************************************************************)
(* The steps.                                                              *)
(***************************************************************************)
\* A thread that returns, or a call that starts, leaves the other calls alone.
LEMMA OtherCalls ==
  ASSUME TypeOK, PendingIsNew, NEW t \in Thread, NEW c \in Call, c.op # "push",
         call' = [call EXCEPT ![t] = c], accepted' = accepted
  PROVE  PendingIsNew'
BY DEF TypeOK, PendingIsNew

LEMMA ConsStep ==
  ASSUME TypeOK, ConsInv, [Next]_vars
  PROVE  ConsInv'
<1> USE DEF ConsInv
<1>1. CASE UNCHANGED vars
  BY <1>1 DEF vars, queueVars, history, Conservation, PendingIsNew
<1>2. CASE Next
  <2>1. PICK t \in Thread :
           \/ \E end \in End, v \in Val :
                /\ call[t].op \in {"idle", "push"} /\ NewFor(t, v)
                /\ PushSection(t, end, v)
           \/ \E end \in End : PopSection(t, end)
           \/ \E how \in (SUBSET Half) \ {{}} : ShutdownEnter(t, how)
           \/ ShutdownSection(t)
           \/ SpuriousWakeup(t)
    BY <1>2, PushStep
  <2>2. ASSUME NEW end \in End, NEW v \in Val, NewFor(t, v), PushWaits(t, end, v)
        PROVE  ConsInv'
    <3>1. Conservation'
      BY <2>2 DEF PushWaits, queueVars, history, Conservation
    <3>2. PushCall(end, v).val = v /\ PushCall(end, v).op = "push"
      BY DEF PushCall
    <3>3. PendingIsNew'
      BY <2>2, <3>2 DEF PushWaits, history, TypeOK, PendingIsNew, NewFor
    <3>4. QED
      BY <3>1, <3>3
  <2>3. ASSUME PushRefused(t) \/ PopRefused(t)
        PROVE  ConsInv'
    BY <2>3, OtherCalls, CallMaking
    DEF PushRefused, PopRefused, Return, queueVars, history, Conservation
  <2>4. ASSUME NEW end \in End, NEW v \in Val, NewFor(t, v), PushAccepted(t, end, v)
        PROVE  ConsInv'
    <3> DEFINE kept == IF Full THEN Remove1(deque, Victim(end)) ELSE deque
               drop == IF Full THEN {Peek(deque, Victim(end))} ELSE {}
    <3>1. Full => deque # << >>
      BY EndLemma, BlockdqAssumption DEF TypeOK, Full
    <3>2. /\ kept \in Seq(Val) /\ IsInjective(kept)
          /\ drop \subseteq ToSet(deque) /\ ToSet(kept) = ToSet(deque) \ drop
      BY <3>1, EndLemma, RemoveElements DEF TypeOK, Conservation
    <3>3. /\ call' = [call EXCEPT ![t] = Idle]
          /\ dropped' = dropped \cup drop /\ taken' = taken
          /\ \/ /\ deque' = Insert(kept, end, v)
                /\ accepted' = accepted \cup {v}
             \/ deque' = kept /\ accepted' = accepted
      BY <2>4 DEF PushAccepted, Displaced, Return
    <3> HIDE DEF kept, drop
    <3>4. v \notin ToSet(kept)
      BY <2>4, <3>2 DEF NewFor, Conservation
    <3>5. \/ deque' = kept
          \/ IsInjective(deque') /\ ToSet(deque') = ToSet(kept) \cup {v}
      BY <3>2, <3>3, <3>4, InsertElements
    <3>6. Conservation'
      BY <2>4, <3>2, <3>3, <3>5, InsertElements, <3>4 DEF NewFor, Conservation
    <3>7. PendingIsNew'
      BY <2>4, <3>3, CallMaking DEF NewFor, PendingIsNew, TypeOK
    <3>8. QED
      BY <3>6, <3>7
  <2>5. ASSUME NEW end \in End, PopWaits(t, end)
        PROVE  ConsInv'
    BY <2>5, OtherCalls, CallMaking DEF PopWaits, queueVars, history, Conservation
  <2>6. ASSUME NEW end \in End, PopTakes(t, end)
        PROVE  ConsInv'
    <3>1. /\ IsInjective(Remove1(deque, end)) /\ Peek(deque, end) \in ToSet(deque)
          /\ ToSet(Remove1(deque, end)) = ToSet(deque) \ {Peek(deque, end)}
      BY <2>6, RemoveElements DEF PopTakes, TypeOK, Conservation
    <3>2. /\ deque' = Remove1(deque, end) /\ taken' = taken \cup {Peek(deque, end)}
          /\ accepted' = accepted /\ dropped' = dropped
          /\ call' = [call EXCEPT ![t] = Idle]
      BY <2>6 DEF PopTakes, Return
    <3>3. Conservation'
      BY <3>1, <3>2 DEF Conservation
    <3>4. QED
      BY <3>2, <3>3, OtherCalls, CallMaking
  <2>7. ASSUME NEW how \in (SUBSET Half) \ {{}}, ShutdownEnter(t, how)
        PROVE  ConsInv'
    BY <2>7, OtherCalls, CallMaking DEF ShutdownEnter, queueVars, history, Conservation
  <2>8. CASE ShutdownSection(t)
    BY <2>8, OtherCalls, CallMaking DEF ShutdownSection, Return, history, Conservation
  <2>9. CASE SpuriousWakeup(t)
    BY <2>9 DEF SpuriousWakeup, queueVars, history, Conservation, PendingIsNew
  <2>10. QED
    BY <2>1, <2>2, <2>3, <2>4, <2>5, <2>6, <2>7, <2>8, <2>9 DEF PushSection, PopSection
<1>3. QED
  BY <1>1, <1>2

LEMMA InitSound ==
  ASSUME Init
  PROVE  TypeOK /\ ConsInv
<1>1. TypeOK
  BY InitTypes
<1>2. ConsInv
  BY CallMaking DEF Init, ConsInv, Conservation, PendingIsNew, IsInjective, ToSet
<1>3. QED
  BY <1>1, <1>2

\* Every value whose push returned true is in the queue once until it leaves
\* through one retval or one retdrop, under every policy and however pushes fail.
THEOREM NothingLostOrDoubled == Spec => []Conservation
<1>1. Init => ConsInv
  BY InitSound
<1>2. TypeOK /\ ConsInv /\ [Next]_vars => ConsInv'
  BY ConsStep
<1>3. ConsInv => Conservation
  BY DEF ConsInv
<1>4. QED
  BY <1>1, <1>2, <1>3, TypeCorrect, PTL DEF Spec

(***************************************************************************)
(* Blockdq implements BoundedBuffer, its safety part.                      *)
(***************************************************************************)
\* The ends of the two sequences are the same.
LEMMA SameEnds ==
  ASSUME TypeOK, NEW end \in End
  PROVE  /\ Buffer!IsFull <=> Full
         /\ \A s \in Seq(Val), v \in Val : Buffer!Enters(s, end, v) = Insert(s, end, v)
         /\ Buffer!Without(end) = Remove1(deque, end)
         /\ deque # << >> => Buffer!At(end) = Peek(deque, end)
         /\ Buffer!Yields(end) = Victim(end)
<1>1. Buffer!IsFull <=> Full
  BY DEF Buffer!IsFull, Full
<1>2. \A s \in Seq(Val), v \in Val : Buffer!Enters(s, end, v) = Insert(s, end, v)
  BY AppendIsConcat DEF Buffer!Enters, Insert
<1>3. Buffer!Without(end) = Remove1(deque, end)
  BY DEF Buffer!Without, Remove1, Front
<1>4. deque # << >> => Buffer!At(end) = Peek(deque, end)
  <2>1. deque # << >> => Head(deque) = deque[1]
    BY DEF TypeOK
  <2>2. QED
    BY <2>1 DEF Buffer!At, Peek, Last
<1>5. Buffer!Yields(end) = Victim(end)
  <2>1. /\ Victim(end) \in {"front", "back"}
        /\ (Victim(end) = end) <=> (full_policy = "DROP_NEWEST")
        /\ \A e \in {"front", "back"} :
             ((e = end) <=> (full_policy = "DROP_NEWEST")) => e = Victim(end)
    BY DEF Victim, Other, End
  <2>2. QED
    BY <2>1 DEF Buffer!Yields
<1>6. QED
  BY <1>1, <1>2, <1>3, <1>4, <1>5

\* Calls and answers are the same records.
LEMMA SameCalls ==
  /\ Buffer!Idle = Idle
  /\ \A t \in Thread : \A ok, out : Return(t, ok, out) <=> Buffer!Answer(t, ok, out)
BY DEF Buffer!Idle, Idle, Return, Buffer!Answer

\* A push that does not wait answers its call, and so does a pop.
LEMMA PushMaps ==
  ASSUME TypeOK, WithinCapacity, NEW t \in Thread, NEW end \in End, NEW v \in Val,
         PushRefused(t) \/ PushAccepted(t, end, v)
  PROVE  /\ Buffer!PushAnswered(t, end, v)
         /\ UNCHANGED <<en_colsed, de_colsed, full_policy>>
<1>1. CASE PushRefused(t)
  BY <1>1, SameCalls, SameEnds DEF PushRefused, Buffer!PushAnswered, queueVars, fieldVars
<1>2. CASE PushAccepted(t, end, v)
  <2> DEFINE kept == IF Full THEN Remove1(deque, Victim(end)) ELSE deque
             out  == IF Full THEN Peek(deque, Victim(end)) ELSE NoVal
  <2>1. /\ Admits
        /\ \/ deque' = Insert(kept, end, v) /\ Return(t, TRUE, out)
           \/ full_policy \in PushMayFail /\ deque' = kept /\ Return(t, FALSE, out)
        /\ UNCHANGED <<en_colsed, de_colsed, full_policy>>
    BY <1>2 DEF PushAccepted, Displaced, fieldVars
  <2>2. Victim(end) \in End /\ (Full => deque # << >>) /\ kept \in Seq(Val)
    <3>1. Full => deque # << >>
      BY EndLemma, BlockdqAssumption DEF TypeOK, Full
    <3>2. QED
      BY <3>1, EndLemma DEF TypeOK
  <2>3. Buffer!Admit(t, end, v, kept, out)
    BY <2>1, <2>2, SameEnds, SameCalls DEF Buffer!Admit
  <2>4. CASE Full
    <3>1. full_policy \in {"DROP_NEWEST", "DROP_OLDEST"} /\ ~en_colsed
      BY <2>1, <2>4 DEF Admits, DropPolicies
    <3>2. kept = Buffer!Without(Buffer!Yields(end)) /\ out = Buffer!At(Buffer!Yields(end))
      BY <2>2, <2>4, SameEnds
    <3>3. Buffer!IsFull
      BY <2>4, SameEnds
    <3> HIDE DEF kept, out
    <3>4. QED
      BY <2>1, <2>3, <3>1, <3>2, <3>3 DEF Buffer!PushAnswered
  <2>5. CASE ~Full
    <3>1. Len(deque) < MaxCapacity
      <4>1. Len(deque) \in Nat /\ MaxCapacity \in Nat
        BY EndLemma, BlockdqAssumption DEF TypeOK
      <4>2. QED
        BY <2>5, <4>1 DEF Full, WithinCapacity
    <3>2. QED
      BY <2>1, <2>3, <2>5, <3>1 DEF Buffer!PushAnswered, Admits
  <2>6. QED
    BY <2>4, <2>5
<1>3. QED
  BY <1>1, <1>2

LEMMA PopMaps ==
  ASSUME TypeOK, NEW t \in Thread, NEW end \in End,
         PopRefused(t) \/ PopTakes(t, end)
  PROVE  /\ Buffer!PopAnswered(t, end)
         /\ UNCHANGED <<en_colsed, de_colsed, full_policy>>
BY SameEnds, SameCalls
DEF PopRefused, PopTakes, WakesPusher, Buffer!PopAnswered, queueVars, fieldVars

\* A call that is made and has to wait pends; a call that has to wait again has
\* been pending already.
LEMMA PendingMaps ==
  ASSUME TypeOK, NEW t \in Thread
  PROVE  /\ call[t].op = "push" =>
              [call EXCEPT ![t] = PushCall(call[t].end, call[t].val)] = call
         /\ call[t].op = "pop" => [call EXCEPT ![t] = PopCall(call[t].end)] = call
<1>1. call[t] \in Call /\ call \in [Thread -> Call]
  BY DEF TypeOK
<1>2. call[t].op = "push" => PushCall(call[t].end, call[t].val) = call[t]
  BY <1>1 DEF Call, PushCall
<1>3. call[t].op = "pop" => PopCall(call[t].end) = call[t]
  BY <1>1 DEF Call, PopCall
<1>4. QED
  BY <1>1, <1>2, <1>3

LEMMA StepMaps ==
  ASSUME TypeOK, WithinCapacity, [Next]_vars
  PROVE  [Buffer!Next]_(Buffer!vars)
<1>1. CASE UNCHANGED vars
  BY <1>1 DEF vars, queueVars, fieldVars, Buffer!vars
<1>2. ASSUME NEW t \in Thread, NEW end \in End, NEW v \in Val, Push(t, end, v)
      PROVE  Buffer!Push(t, end, v)
  <2>1. CASE PushWaits(t, end, v)
    <3>1. Buffer!IsFull
      BY <2>1, SameEnds DEF PushWaits
    <3>2. QED
      BY <1>2, <2>1, <3>1, SameCalls
      DEF Push, PushWaits, PushCall, queueVars, fieldVars, Buffer!Push
  <2>2. CASE PushRefused(t) \/ PushAccepted(t, end, v)
    BY <1>2, <2>2, PushMaps, SameCalls DEF Push, Buffer!Push
  <2>3. QED
    BY <1>2, <2>1, <2>2 DEF Push, PushSection
<1>3. ASSUME NEW t \in Thread, NEW end \in End, Pop(t, end)
      PROVE  Buffer!Pop(t, end)
  <2>1. CASE PopWaits(t, end)
    BY <1>3, <2>1, SameCalls
    DEF Pop, PopWaits, PopCall, queueVars, fieldVars, Buffer!Pop
  <2>2. CASE PopRefused(t) \/ PopTakes(t, end)
    BY <1>3, <2>2, PopMaps, SameCalls DEF Pop, Buffer!Pop
  <2>3. QED
    BY <1>3, <2>1, <2>2 DEF Pop, PopSection
<1>4. ASSUME NEW t \in Thread, NEW how \in (SUBSET Half) \ {{}}, ShutdownEnter(t, how)
      PROVE  Buffer!Close(t, how)
  BY <1>4, SameCalls
  DEF ShutdownEnter, ShutdownCall, queueVars, fieldVars, Buffer!Close
<1>5. ASSUME NEW t \in Thread, ShutdownSection(t)
      PROVE  Buffer!Closed(t)
  BY <1>5, SameCalls DEF ShutdownSection, Buffer!Closed
<1>6. ASSUME NEW t \in Thread, Resume(t)
      PROVE  Buffer!Finish(t) \/ UNCHANGED Buffer!vars
  <2>1. call[t] \in Call
    BY DEF TypeOK
  <2>2. CASE call[t].op = "push" /\ PushSection(t, call[t].end, call[t].val)
    <3>1. call[t].end \in End /\ call[t].val \in Val
      BY <2>1, <2>2, CallLemma
    <3>2. CASE PushWaits(t, call[t].end, call[t].val)
      BY <2>2, <3>2, PendingMaps DEF PushWaits, queueVars, fieldVars, Buffer!vars
    <3>3. CASE PushRefused(t) \/ PushAccepted(t, call[t].end, call[t].val)
      BY <2>2, <3>1, <3>3, PushMaps DEF Buffer!Finish
    <3>4. QED
      BY <2>2, <3>2, <3>3 DEF PushSection
  <2>3. CASE call[t].op = "pop" /\ PopSection(t, call[t].end)
    <3>1. call[t].end \in End
      BY <2>1, <2>3, CallLemma
    <3>2. CASE PopWaits(t, call[t].end)
      BY <2>3, <3>2, PendingMaps DEF PopWaits, queueVars, fieldVars, Buffer!vars
    <3>3. CASE PopRefused(t) \/ PopTakes(t, call[t].end)
      BY <2>3, <3>1, <3>3, PopMaps DEF Buffer!Finish
    <3>4. QED
      BY <2>3, <3>2, <3>3 DEF PopSection
  <2>4. QED
    BY <1>6, <2>2, <2>3 DEF Resume
<1>7. ASSUME NEW t \in Thread, SpuriousWakeup(t)
      PROVE  UNCHANGED Buffer!vars
  BY <1>7 DEF SpuriousWakeup, queueVars, fieldVars, Buffer!vars
<1>8. QED
  BY <1>1, <1>2, <1>3, <1>4, <1>5, <1>6, <1>7 DEF Next, Buffer!Next, End, Half

\* Every step of the queue with its mutex and condition variables is a step of
\* the bounded buffer, or none that its clients see: what a call returns, and
\* that it waits only for cause, is what cra_blockdq.h promises.
THEOREM ImplementsBuffer == Spec => Buffer!Safety
<1>1. Init => Buffer!Init
  BY DEF Init, Buffer!Init, Idle, Buffer!Idle
<1>2. TypeOK /\ WithinCapacity /\ [Next]_vars => [Buffer!Next]_(Buffer!vars)
  BY StepMaps
<1>3. QED
  BY <1>1, <1>2, TypeCorrect, PopperSafety, PTL DEF Spec, Buffer!Safety
=============================================================================
