--------------------------- MODULE ThrdPoolProofs ---------------------------
(***************************************************************************)
(* Theorems about ThrdPool for every number of workers and clients, every  *)
(* set of tasks, whatever they add, and every policy of the queue.         *)
(***************************************************************************)
EXTENDS ThrdPool, FiniteSetTheorems, TLAPS

\* The task queue, with what is proved about it.
QP == INSTANCE BlockdqProofs WITH Val <- Task, NoVal <- NoTask, MaxCapacity <- MaxTasks

(***************************************************************************)
(* The latch that cra_thrdpool_init waits on.                              *)
(***************************************************************************)
LatchTypes ==
  /\ latch \in [Worker \cup {Owner} -> {"out", "waiting", "through", "counted"}]
  /\ condi \subseteq {t \in (Worker \cup {Owner}) : latch[t] = "waiting"}
  /\ count = Cardinality(Worker) - Cardinality(L!Counted)

\* Whoever has passed the latch has passed it at zero or below.
PassedAtZero == (\E t \in (Worker \cup {Owner}) : latch[t] = "through") => count <= 0

\* Only a latch above zero blocks.
BlockedAboveZero == count <= 0 => condi = {}

\* The invariant of the latch: NobodyPassesEarly and NobodyLeftBehind, said of the
\* counter instead of the calls that have been made.
LatchInv == LatchTypes /\ PassedAtZero /\ BlockedAboveZero

\* Finitely many threads, and a count.
LEMMA LatchThreads == IsFiniteSet(Worker \cup {Owner}) /\ Cardinality(Worker) \in Int
<1>1. IsFiniteSet(Worker) /\ IsFiniteSet(Worker \cup {Owner})
  BY ThrdPoolAssumption, FS_AddElement
<1>2. QED
  BY <1>1, FS_CardinalityType

\* The calls of cra_cdl_count_down are finitely many.
LEMMA LatchCounted ==
  /\ IsFiniteSet(L!Counted)
  /\ Cardinality(L!Counted) \in Nat
  /\ LatchTypes => count \in Int
<1>1. IsFiniteSet(L!Counted)
  BY LatchThreads, FS_Subset DEF L!Counted
<1>2. Cardinality(L!Counted) \in Nat
  BY <1>1, FS_CardinalityType
<1>3. QED
  BY <1>1, <1>2, LatchThreads DEF LatchTypes

\* Nobody has called.
LEMMA LatchInit ==
  ASSUME L!Init
  PROVE  LatchInv
<1>1. L!Counted = {}
  BY DEF L!Init, L!Counted
<1>2. Cardinality(L!Counted) = 0
  BY <1>1, FS_EmptySet
<1>3. QED
  BY <1>2, LatchThreads DEF L!Init, LatchInv, LatchTypes, PassedAtZero, BlockedAboveZero

\* Every step of the latch keeps its invariant.
LEMMA LatchInductive ==
  ASSUME LatchInv, [L!Next]_latchVars
  PROVE  LatchInv'
<1> USE DEF LatchInv
<1>0. count \in Int
  BY LatchCounted
<1>1. CASE UNCHANGED latchVars
  BY <1>1 DEF latchVars, LatchTypes, PassedAtZero, BlockedAboveZero, L!Counted
<1>2. ASSUME NEW t \in Worker \cup {Owner}, L!CountDown(t)
      PROVE  LatchInv'
  <2>1. count' = count - 1
    BY <1>2 DEF L!CountDown, L!Decremented
  <2>2. L!Counted' = L!Counted \cup {t} /\ t \notin L!Counted
    BY <1>2 DEF L!CountDown, L!Counted, LatchTypes
  <2>3. Cardinality(L!Counted') = Cardinality(L!Counted) + 1
    BY <2>2, LatchCounted, FS_AddElement
  <2>4. condi' \subseteq condi
    BY <1>2 DEF L!CountDown, L!Blocked
  <2>5. LatchTypes'
    <3>1. count' = Cardinality(Worker) - Cardinality(L!Counted')
      BY <2>1, <2>3, LatchCounted, LatchThreads DEF LatchTypes
    <3>2. t \notin condi
      BY <1>2 DEF L!CountDown, LatchTypes
    <3>3. QED
      BY <1>2, <2>4, <3>1, <3>2 DEF L!CountDown, LatchTypes
  <2>6. PassedAtZero'
    BY <1>0, <1>2, <2>1 DEF L!CountDown, PassedAtZero, LatchTypes
  <2>7. BlockedAboveZero'
    BY <1>0, <1>2, <2>1 DEF L!CountDown, L!Blocked, BlockedAboveZero
  <2>8. QED
    BY <2>5, <2>6, <2>7
<1>3. ASSUME NEW t \in Worker \cup {Owner}, L!Wait(t)
      PROVE  LatchInv'
  <2>1. count' = count /\ L!Counted' = L!Counted
    BY <1>3 DEF L!Wait, L!Counted, LatchTypes
  <2>2. CASE /\ count > 0
             /\ condi' = condi \cup {t}
             /\ latch' = [latch EXCEPT ![t] = "waiting"]
    BY <1>0, <2>1, <2>2 DEF LatchTypes, PassedAtZero, BlockedAboveZero
  <2>3. CASE /\ count <= 0
             /\ latch' = [latch EXCEPT ![t] = "through"]
             /\ condi' = condi
    BY <1>0, <2>1, <2>3 DEF LatchTypes, PassedAtZero, BlockedAboveZero
  <2>4. QED
    BY <1>3, <2>2, <2>3 DEF L!Wait
<1>4. ASSUME NEW t \in Worker \cup {Owner}, L!SpuriousWakeup(t)
      PROVE  LatchInv'
  <2>1. L!Counted' = L!Counted
    BY <1>4 DEF L!SpuriousWakeup, L!Counted
  <2>2. QED
    BY <1>4, <2>1 DEF L!SpuriousWakeup, LatchTypes, PassedAtZero, BlockedAboveZero
<1>5. QED
  BY <1>1, <1>2, <1>3, <1>4 DEF L!Next

\* What the invariant says of the calls.
LEMMA LatchInvIsEnough ==
  ASSUME LatchInv
  PROVE  L!TypeOK /\ L!LatchHolds
<1>1. count <= 0 <=> Cardinality(L!Counted) >= Cardinality(Worker)
  BY LatchCounted, LatchThreads DEF LatchInv, LatchTypes
<1>2. Cardinality(L!Counted) = L!Cardinality(L!Counted)
  BY DEF Cardinality, L!Cardinality
<1>3. L!LatchHolds
  BY <1>1, <1>2 DEF LatchInv, PassedAtZero, BlockedAboveZero, L!LatchHolds, L!NobodyPassesEarly,
                    L!NobodyLeftBehind
<1>4. L!TypeOK
  BY <1>2 DEF LatchInv, LatchTypes, L!TypeOK
<1>5. QED
  BY <1>3, <1>4

\* A thread is inside a call of the queue only where its code makes one.
CallsInPlace ==
  /\ call = [t \in Thread |-> call[t]]
  /\ \A t \in Thread :
       \/ call[t].op = "idle"
       \/ call[t].op = "push" /\ pc[t] = "adding"
       \/ call[t].op = "pop" /\ pc[t] = "popping"
       \/ call[t].op = "shutdown" /\ t = Owner /\ pc[t] = "closing"

\* How far the life of the pool has come: uninit finds no client inside, and
\* frees what no worker uses.
Lifetime ==
  /\ pc \in [Thread -> Places]
  /\ pc[Owner] \in {"closing", "joining", "gone"} => \A c \in Client : pc[c] = "outside"
  /\ pc[Owner] = "gone" => \A w \in Worker : pc[w] = "exited"
  /\ freed \in BOOLEAN /\ (freed => pc[Owner] = "gone")

\* Workers have counted down before they enter their loop, and the owner is in
\* cra_thrdpool_init until the latch has let it through.
LatchFirst ==
  /\ LatchInv
  /\ \A w \in Worker : pc[w] \notin {"absent", "created"} => latch[w] = "counted"
  /\ pc[Owner] # "creating" => latch[Owner] = "through"

\* The inductive invariant.
PoolInv == CallsInPlace /\ Lifetime /\ LatchFirst

\* CDL has the definition of its own instance of FiniteSets.
LEMMA SameCardinality == \A S : L!Cardinality(S) = Cardinality(S)
BY DEF L!Cardinality, Cardinality

\* A push, or a pop, ends or leaves the thread inside it.
LEMMA PushEffect ==
  ASSUME NEW t, NEW end, NEW v, Q!PushSection(t, end, v)
  PROVE  \E c : call' = [call EXCEPT ![t] = c] /\ c.op \in {"idle", "push"}
<1>1. Q!Idle.op = "idle" /\ Q!PushCall(end, v).op = "push"
  BY DEF Q!Idle, Q!PushCall
<1>2. \/ call' = [call EXCEPT ![t] = Q!Idle]
      \/ call' = [call EXCEPT ![t] = Q!PushCall(end, v)]
  BY DEF Q!PushSection, Q!PushWaits, Q!PushRefused, Q!PushAccepted, Q!Return
<1>3. QED
  BY <1>1, <1>2

LEMMA PopEffect ==
  ASSUME NEW t, NEW end, Q!PopSection(t, end)
  PROVE  \E c : call' = [call EXCEPT ![t] = c] /\ c.op \in {"idle", "pop"}
<1>1. Q!Idle.op = "idle" /\ Q!PopCall(end).op = "pop"
  BY DEF Q!Idle, Q!PopCall
<1>2. \/ call' = [call EXCEPT ![t] = Q!Idle]
      \/ call' = [call EXCEPT ![t] = Q!PopCall(end)]
  BY DEF Q!PopSection, Q!PopWaits, Q!PopTakes, Q!PopRefused, Q!Return
<1>3. QED
  BY <1>1, <1>2

\* An add, begun or resumed.
LEMMA AddEffect ==
  ASSUME PoolInv, NEW t \in Thread, pc[t] \in {"outside", "adding"},
         (\E k : AddTask(t, k)) \/ AddResumes(t)
  PROVE  /\ \E c : /\ call' = [call EXCEPT ![t] = c]
                   /\ \/ c.op = "idle" /\ pc' = [pc EXCEPT ![t] = "added"]
                      \/ c.op = "push" /\ pc' = [pc EXCEPT ![t] = "adding"]
         /\ UNCHANGED <<latchVars, freed>>
<1>1. \E end, v : Q!PushSection(t, end, v)
  <2>1. CASE \E k : AddTask(t, k)
    BY <2>1 DEF AddTask, Q!Push
  <2>2. CASE AddResumes(t)
    <3>1. call[t].op # "pop"
      BY <2>2 DEF AddResumes, PoolInv, CallsInPlace
    <3>2. QED
      BY <2>2, <3>1 DEF AddResumes, Q!Resume
  <2>3. QED
    BY <2>1, <2>2
<1>2. PICK c : call' = [call EXCEPT ![t] = c] /\ c.op \in {"idle", "push"}
  BY <1>1, PushEffect
<1>3. call'[t] = c
  BY <1>2 DEF PoolInv, CallsInPlace
<1>4. PushEnds(t)
  BY DEF AddTask, AddResumes
<1>5. QED
  BY <1>2, <1>3, <1>4 DEF PushEnds

(***************************************************************************)
(* One thread moves on, or none.                                           *)
(***************************************************************************)
LEMMA NobodyInTwoRoles ==
  /\ Owner \notin Worker /\ Owner \notin Client
  /\ \A w \in Worker : w \notin Client
  /\ Owner \in Thread /\ Worker \subseteq Thread /\ Client \subseteq Thread
BY ThrdPoolAssumption DEF Thread

\* A thread outside the queue moves and stays outside.
LEMMA MovesOutside ==
  ASSUME PoolInv, NEW t \in Thread, NEW to,
         pc[t] \notin {"adding", "popping", "closing"},
         pc' = [pc EXCEPT ![t] = to], call' = call
  PROVE  CallsInPlace'
BY DEF PoolInv, CallsInPlace, Lifetime

LEMMA WorkerMoves ==
  ASSUME PoolInv, NEW w \in Worker, pc[w] # "exited",
         NEW to \in Places, pc' = [pc EXCEPT ![w] = to], freed' = freed
  PROVE  Lifetime'
BY NobodyInTwoRoles DEF PoolInv, Lifetime

LEMMA OutsiderMoves ==
  ASSUME PoolInv, NEW t \in Client \cup {Owner}, pc[Owner] \notin {"closing", "joining", "gone"},
         NEW to \in {"outside", "adding", "added"}, pc' = [pc EXCEPT ![t] = to], freed' = freed
  PROVE  Lifetime'
BY NobodyInTwoRoles DEF PoolInv, Lifetime, Places

\* The latch is left alone.
LEMMA LatchStays ==
  ASSUME PoolInv, UNCHANGED latchVars, NEW t \in Thread, NEW to,
         pc' = [pc EXCEPT ![t] = to],
         IF t = Owner THEN pc[t] # "creating" ELSE pc[t] \notin {"absent", "created"}
  PROVE  LatchFirst'
<1>1. LatchInv'
  BY LatchInductive DEF PoolInv, LatchFirst, latchVars
<1>2. QED
  BY <1>1, NobodyInTwoRoles DEF PoolInv, LatchFirst, Lifetime, latchVars

\* A step of the latch is one of CDL.
LEMMA LatchMoves ==
  ASSUME PoolInv,
         \/ \E w \in Worker : L!CountDown(w)
         \/ L!Wait(Owner)
         \/ L!SpuriousWakeup(Owner)
  PROVE  LatchInv'
<1>1. L!Next
  BY DEF L!Next
<1>2. QED
  BY <1>1, LatchInductive DEF PoolInv, LatchFirst

(***************************************************************************)
(* Every step keeps the invariant.                                         *)
(***************************************************************************)
LEMMA WorkerKeeps ==
  ASSUME PoolInv, NEW w \in Worker, CreateWorker(w) \/ WorkerStep(w)
  PROVE  PoolInv'
<1> USE NobodyInTwoRoles
<1>a. pc \in [Thread -> Places] /\ w \in Thread /\ w # Owner
  BY DEF PoolInv, Lifetime
<1>1. CASE CreateWorker(w)
  <2>1. pc[w] = "absent" /\ pc' = [pc EXCEPT ![w] = "created"] /\ UNCHANGED <<call, latchVars, freed>>
    BY <1>1 DEF CreateWorker, Go, queueVars
  <2>2. CallsInPlace' /\ Lifetime'
    BY <1>a, <2>1, MovesOutside, WorkerMoves DEF Places
  <2>3. LatchInv'
    BY <2>1, LatchInductive DEF PoolInv, LatchFirst, latchVars
  <2>4. QED
    BY <1>a, <2>1, <2>2, <2>3 DEF PoolInv, LatchFirst, latchVars
<1>2. CASE CountDown(w)
  <2>1. pc[w] = "created" /\ pc' = [pc EXCEPT ![w] = "loop"] /\ UNCHANGED <<call, freed>>
    BY <1>2 DEF CountDown, Go, queueVars
  <2>2. CallsInPlace' /\ Lifetime'
    BY <1>a, <2>1, MovesOutside, WorkerMoves DEF Places
  <2>3. LatchInv'
    BY <1>2, LatchMoves DEF CountDown
  <2>4. latch' = [latch EXCEPT ![w] = "counted"] /\ w \in DOMAIN latch
    BY <1>2 DEF CountDown, L!CountDown, PoolInv, LatchFirst, LatchInv, LatchTypes
  <2>5. QED
    BY <1>a, <2>1, <2>2, <2>3, <2>4 DEF PoolInv, LatchFirst
<1>3. CASE TestRunning(w) \/ CallTask(w) \/ TaskReturns(w) \/ AddReturns(w, "returning")
  <2>1. PICK to \in Places : pc' = [pc EXCEPT ![w] = to]
    BY <1>3 DEF TestRunning, CallTask, TaskReturns, AddReturns, Go, Places
  <2>2. pc[w] \in {"loop", "popped", "returning", "added"}
    BY <1>3 DEF TestRunning, CallTask, TaskReturns, AddReturns, Go
  <2>3. UNCHANGED <<call, latchVars, freed>>
    BY <1>3 DEF TestRunning, CallTask, TaskReturns, AddReturns, queueVars
  <2>4. QED
    BY <1>a, <2>1, <2>2, <2>3, MovesOutside, WorkerMoves, LatchStays DEF PoolInv
<1>4. CASE PopTask(w)
  <2>1. pc[w] = "popping" /\ UNCHANGED <<latchVars, freed>>
    BY <1>4 DEF PopTask
  <2>2. \E end : Q!PopSection(w, end)
    <3>1. call[w].op # "push"
      BY <1>a, <2>1 DEF PoolInv, CallsInPlace
    <3>2. QED
      BY <1>4, <3>1 DEF PopTask, Q!Pop, Q!Resume
  <2>3. PICK c : call' = [call EXCEPT ![w] = c] /\ c.op \in {"idle", "pop"}
    BY <2>2, PopEffect
  <2>4. call'[w] = c
    BY <1>a, <2>3 DEF PoolInv, CallsInPlace
  <2>5. CASE c.op = "idle"
    <3>1. PICK to \in {"popped", "exited"} : pc' = [pc EXCEPT ![w] = to]
      BY <1>4, <2>4, <2>5 DEF PopTask, AfterPop
    <3>2. CallsInPlace'
      BY <1>a, <2>3, <2>5, <3>1 DEF PoolInv, CallsInPlace
    <3>3. Lifetime' /\ LatchFirst'
      BY <1>a, <2>1, <3>1, WorkerMoves, LatchStays DEF Places
    <3>4. QED
      BY <3>2, <3>3 DEF PoolInv
  <2>6. CASE c.op = "pop"
    <3>1. pc' = pc
      BY <1>4, <2>4, <2>6 DEF PopTask
    <3>2. pc' = [pc EXCEPT ![w] = "popping"]
      BY <1>a, <2>1, <3>1
    <3>3. CallsInPlace'
      BY <1>a, <2>1, <2>3, <2>6, <3>1 DEF PoolInv, CallsInPlace
    <3>4. Lifetime' /\ LatchFirst'
      BY <1>a, <2>1, <3>2, WorkerMoves, LatchStays DEF Places
    <3>5. QED
      BY <3>3, <3>4 DEF PoolInv
  <2>7. QED
    BY <2>3, <2>5, <2>6
<1>5. CASE \/ pc[w] = "adding" /\ AddTask(w, Adds[task[w]])
           \/ AddResumes(w)
  <2>1. pc[w] = "adding"
    BY <1>5 DEF AddResumes
  <2>2. PICK c : /\ call' = [call EXCEPT ![w] = c]
                 /\ \/ c.op = "idle" /\ pc' = [pc EXCEPT ![w] = "added"]
                    \/ c.op = "push" /\ pc' = [pc EXCEPT ![w] = "adding"]
    BY <1>a, <1>5, <2>1, AddEffect
  <2>3. UNCHANGED <<latchVars, freed>>
    BY <1>a, <1>5, <2>1, AddEffect
  <2>4. CallsInPlace'
    BY <1>a, <2>1, <2>2 DEF PoolInv, CallsInPlace
  <2>5. Lifetime' /\ LatchFirst'
    BY <1>a, <2>1, <2>2, <2>3, WorkerMoves, LatchStays DEF Places
  <2>6. QED
    BY <2>4, <2>5 DEF PoolInv
<1>6. QED
  BY <1>1, <1>2, <1>3, <1>4, <1>5 DEF WorkerStep

LEMMA OutsiderKeeps ==
  ASSUME PoolInv, NEW t \in Client \cup {Owner}, OutsiderAdds(t) \/ OutsiderStep(t)
  PROVE  PoolInv'
<1> USE NobodyInTwoRoles
<1>a. pc \in [Thread -> Places] /\ t \in Thread /\ t \notin Worker
  BY DEF PoolInv, Lifetime
<1>b. pc[Owner] \notin {"closing", "joining", "gone"} /\ pc[t] \in {"outside", "adding", "added"}
  BY DEF PoolInv, Lifetime, OutsiderAdds, OutsiderStep, AddResumes, AddReturns, Go
<1>1. CASE AddReturns(t, "outside")
  <2>1. pc[t] = "added" /\ pc' = [pc EXCEPT ![t] = "outside"] /\ UNCHANGED <<call, latchVars, freed>>
    BY <1>1 DEF AddReturns, Go, queueVars
  <2>2. QED
    BY <1>a, <1>b, <2>1, MovesOutside, OutsiderMoves, LatchStays DEF PoolInv
<1>2. CASE OutsiderAdds(t) \/ AddResumes(t)
  <2>1. pc[t] \in {"outside", "adding"} /\ ((\E k : AddTask(t, k)) \/ AddResumes(t))
    BY <1>2 DEF OutsiderAdds, AddResumes
  <2>2. PICK c : /\ call' = [call EXCEPT ![t] = c]
                 /\ \/ c.op = "idle" /\ pc' = [pc EXCEPT ![t] = "added"]
                    \/ c.op = "push" /\ pc' = [pc EXCEPT ![t] = "adding"]
    BY <1>a, <2>1, AddEffect
  <2>3. UNCHANGED <<latchVars, freed>>
    BY <1>a, <2>1, AddEffect
  <2>4. CallsInPlace'
    BY <1>a, <2>1, <2>2 DEF PoolInv, CallsInPlace
  <2>5. Lifetime' /\ LatchFirst'
    BY <1>a, <1>b, <2>1, <2>2, <2>3, OutsiderMoves, LatchStays
  <2>6. QED
    BY <2>4, <2>5 DEF PoolInv
<1>3. QED
  BY <1>1, <1>2 DEF OutsiderStep

LEMMA OwnerKeeps ==
  ASSUME PoolInv,
         \/ WaitForWorkers
         \/ \E wait_tasks \in BOOLEAN : UninitBegins(wait_tasks)
         \/ ShutdownQueue
         \/ JoinAndFree
  PROVE  PoolInv'
<1> USE NobodyInTwoRoles
<1>a. pc \in [Thread -> Places]
  BY DEF PoolInv, Lifetime
<1>1. CASE WaitForWorkers
  <2>1. pc[Owner] = "creating" /\ UNCHANGED <<call, freed>>
    BY <1>1 DEF WaitForWorkers, queueVars
  <2>2. PICK to \in {"creating", "outside"} :
           /\ pc' = [pc EXCEPT ![Owner] = to]
           /\ to = "outside" => latch'[Owner] = "through"
    BY <1>1 DEF WaitForWorkers
  <2>3. CallsInPlace' /\ Lifetime'
    BY <1>a, <2>1, <2>2, MovesOutside DEF PoolInv, Lifetime, Places
  <2>4. LatchInv'
    BY <1>1, LatchMoves DEF WaitForWorkers
  <2>5. \A w \in Worker : latch'[w] = latch[w]
    BY <1>1 DEF WaitForWorkers, L!Wait, PoolInv, LatchFirst, LatchInv, LatchTypes
  <2>6. QED
    BY <1>a, <2>1, <2>2, <2>3, <2>4, <2>5 DEF PoolInv, LatchFirst
<1>2. CASE \E wait_tasks \in BOOLEAN : UninitBegins(wait_tasks)
  <2>1. /\ pc[Owner] = "outside" /\ pc' = [pc EXCEPT ![Owner] = "closing"]
        /\ \A c \in Client : pc[c] = "outside"
        /\ UNCHANGED <<call, latchVars, freed>>
    BY <1>2 DEF UninitBegins, Go, queueVars
  <2>2. QED
    BY <1>a, <2>1, MovesOutside, LatchStays DEF PoolInv, Lifetime, Places
<1>3. CASE ShutdownQueue
  <2>1. pc[Owner] = "closing" /\ UNCHANGED <<latchVars, freed>>
    BY <1>3 DEF ShutdownQueue
  <2>2. PICK c, to : /\ call' = [call EXCEPT ![Owner] = c]
                     /\ pc' = [pc EXCEPT ![Owner] = to]
                     /\ \/ c.op = "shutdown" /\ to = "closing"
                        \/ c.op = "idle" /\ to = "joining"
    <3>1. CASE Q!ShutdownEnter(Owner, Closes) /\ UNCHANGED pc
      <4>1. /\ call' = [call EXCEPT ![Owner] = Q!ShutdownCall(Closes)]
            /\ Q!ShutdownCall(Closes).op = "shutdown"
        BY <3>1 DEF Q!ShutdownEnter, Q!ShutdownCall
      <4>2. pc' = [pc EXCEPT ![Owner] = "closing"]
        BY <1>a, <2>1, <3>1
      <4>3. QED
        BY <4>1, <4>2
    <3>2. CASE Q!ShutdownSection(Owner) /\ pc' = [pc EXCEPT ![Owner] = "joining"]
      <4>1. call' = [call EXCEPT ![Owner] = Q!Idle] /\ Q!Idle.op = "idle"
        BY <3>2 DEF Q!ShutdownSection, Q!Return, Q!Idle
      <4>2. QED
        BY <3>2, <4>1
    <3>3. QED
      BY <1>3, <3>1, <3>2 DEF ShutdownQueue
  <2>3. CallsInPlace'
    BY <1>a, <2>2 DEF PoolInv, CallsInPlace
  <2>4. Lifetime'
    BY <1>a, <2>1, <2>2 DEF PoolInv, Lifetime, Places
  <2>5. LatchFirst'
    BY <1>a, <2>1, <2>2, LatchStays
  <2>6. QED
    BY <2>3, <2>4, <2>5 DEF PoolInv
<1>4. CASE JoinAndFree
  <2>1. /\ pc[Owner] = "joining" /\ pc' = [pc EXCEPT ![Owner] = "gone"]
        /\ \A w \in Worker : pc[w] = "exited"
        /\ freed' = TRUE /\ UNCHANGED <<call, latchVars>>
    BY <1>4 DEF JoinAndFree, Joined, Go, queueVars
  <2>2. QED
    BY <1>a, <2>1, MovesOutside, LatchStays DEF PoolInv, Lifetime, Places
<1>5. QED
  BY <1>1, <1>2, <1>3, <1>4

LEMMA Inductive ==
  ASSUME PoolInv, [Next]_vars
  PROVE  PoolInv'
<1>1. CASE UNCHANGED vars
  <2>1. UNCHANGED <<call, latchVars, pc, freed>>
    BY <1>1 DEF vars, queueVars
  <2>2. LatchInv'
    BY <2>1, LatchInductive DEF PoolInv, LatchFirst, latchVars
  <2>3. QED
    BY <2>1, <2>2 DEF PoolInv, CallsInPlace, Lifetime, LatchFirst, latchVars
<1>2. CASE SpuriousWakeup
  <2>1. UNCHANGED <<call, pc, freed>>
    BY <1>2 DEF SpuriousWakeup, Q!SpuriousWakeup, queueVars
  <2>2. latch' = latch
    BY <1>2 DEF SpuriousWakeup, L!SpuriousWakeup, latchVars
  <2>3. LatchInv'
    <3>1. CASE UNCHANGED latchVars
      BY <3>1, LatchInductive DEF PoolInv, LatchFirst, latchVars
    <3>2. CASE L!SpuriousWakeup(Owner)
      BY <3>2, LatchMoves
    <3>3. QED
      BY <1>2, <3>1, <3>2 DEF SpuriousWakeup
  <2>4. QED
    BY <2>1, <2>2, <2>3 DEF PoolInv, CallsInPlace, Lifetime, LatchFirst
<1>3. QED
  BY <1>1, <1>2, WorkerKeeps, OutsiderKeeps, OwnerKeeps DEF Next

LEMMA InitInv ==
  ASSUME Init
  PROVE  PoolInv
<1>1. LatchInv
  <2>1. L!Init
    BY DEF Init
  <2>2. QED
    BY <2>1, LatchInit
<1>2. CallsInPlace
  BY DEF Init, Q!Init, Q!Idle, CallsInPlace
<1>3. Lifetime
  BY NobodyInTwoRoles DEF Init, Lifetime, Places, Thread
<1>4. \A w \in Worker : pc[w] = "absent"
  BY NobodyInTwoRoles DEF Init
<1>5. pc[Owner] = "creating"
  BY NobodyInTwoRoles DEF Init
<1>6. QED
  BY <1>1, <1>2, <1>3, <1>4, <1>5 DEF PoolInv, LatchFirst

\* When the latch has let the owner through, every worker has counted down: the
\* count was the number of workers, and no other thread counts.
LEMMA AllCounted ==
  ASSUME PoolInv, pc[Owner] # "creating"
  PROVE  \A w \in Worker : latch[w] = "counted"
<1>1. latch[Owner] = "through" /\ L!NobodyPassesEarly
  BY LatchInvIsEnough DEF PoolInv, LatchFirst, L!LatchHolds
<1>2. Cardinality(L!Counted) >= Cardinality(Worker)
  BY <1>1, SameCardinality DEF L!NobodyPassesEarly
<1>3. L!Counted \subseteq Worker
  BY <1>1 DEF L!Counted
<1>4. L!Counted = Worker
  BY <1>2, <1>3, ThrdPoolAssumption, FS_Subset, FS_CardinalityType
<1>5. QED
  BY <1>4 DEF L!Counted

\* cra_thrdpool_uninit frees the queue, the pool and the workers when nobody is
\* inside a call on them any more, and the latch on the stack of cra_thrdpool_init
\* outlives the last count_down of a worker.
THEOREM NothingUsedAfterFree == Spec => []NoUseAfterFree
<1>1. Init => PoolInv
  BY InitInv
<1>2. PoolInv /\ [Next]_vars => PoolInv'
  BY Inductive
<1>3. PoolInv => NoUseAfterFree
  <2> SUFFICES ASSUME PoolInv PROVE NoUseAfterFree
    OBVIOUS
  <2>1. ASSUME freed PROVE \A t \in Thread : call[t].op = "idle"
    BY <2>1 DEF PoolInv, Lifetime, CallsInPlace, Thread
  <2>2. QED
    BY <2>1, AllCounted DEF PoolInv, Lifetime, NoUseAfterFree
<1>4. QED
  BY <1>1, <1>2, <1>3, PTL DEF Spec

(***************************************************************************)
(* What becomes of the tasks.  The queue is the one of BlockdqProofs, so   *)
(* what is proved there holds of the pool's queue: its steps are the pool's. *)
(***************************************************************************)
\* The queue is what its own proofs make it.
QueueSound == QP!TypeOK /\ QP!ConsInv

\* Between the pop that took its task and the end of the task a worker has it
\* in hand.
InHand(w) == pc[w] \in {"popped", "adding", "added", "returning"}

\* A task that was taken off the queue is in one pair of hands, or finished.
Hands ==
  /\ task \in [Worker -> Task \cup {NoTask}]
  /\ started \in [Task -> {0, 1}]
  /\ \A w \in Worker : InHand(w) =>
       /\ task[w] \in taken \ finished
       /\ started[task[w]] = IF pc[w] = "popped" THEN 0 ELSE 1
  /\ \A v, w \in Worker : InHand(v) /\ InHand(w) /\ task[v] = task[w] => v = w
  /\ finished \subseteq taken
  /\ \A k \in taken \ finished : \E w \in Worker : InHand(w) /\ task[w] = k
  /\ \A k \in Task : started[k] = 1 => k \in taken
  /\ \A w \in Worker : pc[w] = "adding" => Adds[task[w]] \in Task

\* The owner has called cra_thrdpool_uninit.
InUninit == pc[Owner] \in {"closing", "joining", "gone"}

\* The flag and the queue: a worker leaves a pool that waits for its tasks only
\* when the queue is closed and empty.
Ending ==
  /\ ~InUninit => waiting
  /\ running = waiting /\ waiting \in BOOLEAN
  /\ de_colsed => en_colsed
  /\ call[Owner].op = "shutdown" => call[Owner].how = Closes
  /\ waiting /\ (\E w \in Worker : pc[w] = "exited") => de_colsed /\ deque = <<>>

\* A thread that has displaced a task and has not yet reported it.
Owes(t) == pc[t] = "added" /\ result[t].out # NoTask

\* A displaced task is reported, or owed by one thread.
Drops ==
  /\ reported \in [Task -> {0, 1}]
  /\ WithDrop =>
       /\ \A k \in Task : reported[k] = 1 => k \in dropped
       /\ \A t \in Thread : Owes(t) =>
            result[t].out \in dropped /\ reported[result[t].out] = 0
       /\ \A t, u \in Thread : Owes(t) /\ Owes(u) /\ result[t].out = result[u].out => t = u
       /\ \A k \in dropped : reported[k] = 1 \/ \E t \in Thread : Owes(t) /\ result[t].out = k

\* Only a full queue displaces, so that as many tasks as it holds are taken.
Enough ==
  /\ IsFiniteSet(taken)
  /\ full_policy \notin PushMayFail /\ dropped # {} =>
       Len(deque) + Cardinality(taken) >= MaxTasks

Idlers == idlecnt = Cardinality(Worker) - Cardinality(Busy)

LEMMA QueueAssumption == QP!BlockdqAssumption
<1>1. IsFiniteSet(Thread)
  BY ThrdPoolAssumption, FS_AddElement, FS_Union DEF Thread
<1>2. QED
  BY <1>1, ThrdPoolAssumption
  DEF QP!BlockdqAssumption, IsFiniteSet, QP!IsFiniteSet, QP!FullPolicies

\* The two instances of the queue are the same.
LEMMA SameQueue ==
  /\ \A t, end, v : Q!Push(t, end, v) <=> QP!Push(t, end, v)
  /\ \A t, end : Q!Pop(t, end) <=> QP!Pop(t, end)
  /\ \A t : Q!Resume(t) <=> QP!Resume(t)
  /\ \A t, how : Q!ShutdownEnter(t, how) <=> QP!ShutdownEnter(t, how)
  /\ \A t : Q!ShutdownSection(t) <=> QP!ShutdownSection(t)
  /\ \A t : Q!SpuriousWakeup(t) <=> QP!SpuriousWakeup(t)
  /\ Q!Init <=> QP!Init
  /\ Q!TypeOK <=> QP!TypeOK
<1>1. \A t, end, v : Q!PushSection(t, end, v) <=> QP!PushSection(t, end, v)
  BY DEF
  Q!PushSection, Q!PushWaits, Q!PushRefused, Q!PushAccepted, Q!Admits, Q!Displaced, Q!Peek,
  Q!Victim, Q!Other, Q!Insert, Q!Remove1, Q!Full, Q!AfterSignal, Q!WakesPopper, Q!Return, Q!Idle,
  Q!PushCall, Q!Front, Q!Last, Q!DropPolicies, Q!queueVars, Q!fieldVars, Q!history, Q!condVars,
  QP!PushSection, QP!PushWaits, QP!PushRefused, QP!PushAccepted, QP!Admits, QP!Displaced,
  QP!Peek, QP!Victim, QP!Other, QP!Insert, QP!Remove1, QP!Full, QP!AfterSignal,
  QP!WakesPopper, QP!Return, QP!Idle, QP!PushCall, QP!Front, QP!Last, QP!DropPolicies,
  QP!queueVars, QP!fieldVars, QP!history, QP!condVars
<1>2. \A t, end : Q!PopSection(t, end) <=> QP!PopSection(t, end)
  BY DEF
  Q!PopSection, Q!PopWaits, Q!PopTakes, Q!PopRefused, Q!Peek, Q!Remove1, Q!AfterSignal,
  Q!WakesPusher, Q!Return, Q!Idle, Q!PopCall, Q!Front, Q!Last, Q!queueVars, Q!fieldVars,
  Q!history, Q!condVars,
  QP!PopSection, QP!PopWaits, QP!PopTakes, QP!PopRefused, QP!Peek, QP!Remove1, QP!AfterSignal,
  QP!WakesPusher, QP!Return, QP!Idle, QP!PopCall, QP!Front, QP!Last, QP!queueVars,
  QP!fieldVars, QP!history, QP!condVars
<1>3. Q!Idle = QP!Idle
  BY DEF Q!Idle, QP!Idle
<1>4. \A v : Q!Fresh(v) <=> QP!Fresh(v)
  BY DEF Q!Fresh, QP!Fresh
<1>5. /\ \A t, how : Q!ShutdownEnter(t, how) <=> QP!ShutdownEnter(t, how)
      /\ \A t : Q!ShutdownSection(t) <=> QP!ShutdownSection(t)
      /\ \A t : Q!SpuriousWakeup(t) <=> QP!SpuriousWakeup(t)
  BY <1>3 DEF
  Q!ShutdownEnter, Q!ShutdownSection, Q!SpuriousWakeup, Q!ShutdownCall, Q!Released, Q!Return,
  Q!queueVars, Q!fieldVars, Q!history, Q!condVars,
  QP!ShutdownEnter, QP!ShutdownSection, QP!SpuriousWakeup, QP!ShutdownCall, QP!Released,
  QP!Return, QP!queueVars, QP!fieldVars, QP!history, QP!condVars
<1>6. Q!Init <=> QP!Init
  BY <1>3 DEF Q!Init, QP!Init
<1>7. Q!TypeOK <=> QP!TypeOK
  BY DEF Q!TypeOK, QP!TypeOK, Q!Call, QP!Call, Q!Result, QP!Result, Q!End, QP!End, Q!Half, QP!Half
<1>8. QED
  BY <1>1, <1>2, <1>3, <1>4, <1>5, <1>6, <1>7
  DEF Q!Push, QP!Push, Q!Pop, QP!Pop, Q!Resume, QP!Resume

\* What an add does to the queue.
LEMMA AddFacts ==
  ASSUME QueueSound, NEW t \in Thread, NEW end \in QP!End, NEW v \in Task,
         QP!PushSection(t, end, v)
  PROVE  /\ UNCHANGED <<taken, en_colsed, de_colsed, full_policy>>
         /\ en_colsed => deque' = deque
         /\ \/ /\ call' = [call EXCEPT ![t] = QP!PushCall(end, v)]
               /\ UNCHANGED <<deque, result, accepted, dropped>>
            \/ /\ call' = [call EXCEPT ![t] = QP!Idle]
               /\ \E ok \in BOOLEAN, out \in Task \cup {NoTask} :
                    /\ result' = [result EXCEPT ![t] = [ok |-> ok, out |-> out]]
                    /\ dropped' = dropped \cup ({out} \ {NoTask})
                    /\ out \notin dropped
                    /\ full_policy \notin PushMayFail =>
                         /\ Len(deque') >= Len(deque)
                         /\ out # NoTask => Len(deque') >= MaxTasks
<1> USE QueueAssumption
<1>0. /\ QP!TypeOK /\ QP!Conservation /\ Len(deque) \in Nat /\ MaxTasks \in Nat
      /\ NoTask \notin Task /\ dropped \subseteq Task /\ deque \in Seq(Task)
  BY ThrdPoolAssumption DEF QueueSound, QP!ConsInv, QP!TypeOK
<1>1. CASE QP!PushWaits(t, end, v)
  BY <1>1 DEF QP!PushWaits, QP!queueVars, QP!fieldVars, QP!history
<1>2. CASE QP!PushRefused(t)
  <2>1. /\ call' = [call EXCEPT ![t] = QP!Idle]
        /\ result' = [result EXCEPT ![t] = [ok |-> FALSE, out |-> NoTask]]
        /\ UNCHANGED <<deque, taken, dropped, en_colsed, de_colsed, full_policy>>
    BY <1>2 DEF QP!PushRefused, QP!Return, QP!queueVars, QP!fieldVars, QP!history
  <2>2. /\ NoTask \notin dropped /\ dropped = dropped \cup ({NoTask} \ {NoTask})
    BY <1>0
  <2>3. Len(deque') >= Len(deque)
    BY <1>0, <2>1
  <2>4. QED
    BY <2>1, <2>2, <2>3
<1>3. CASE QP!PushAccepted(t, end, v)
  <2> DEFINE out == IF QP!Full THEN QP!Peek(deque, QP!Victim(end)) ELSE NoTask
  <2>1. /\ ~en_colsed /\ UNCHANGED <<taken, en_colsed, de_colsed, full_policy>>
        /\ call' = [call EXCEPT ![t] = QP!Idle]
        /\ \E ok \in BOOLEAN : result' = [result EXCEPT ![t] = [ok |-> ok, out |-> out]]
        /\ dropped' = dropped \cup (IF QP!Full THEN {QP!Peek(deque, QP!Victim(end))} ELSE {})
    BY <1>3 DEF QP!PushAccepted, QP!Return, QP!fieldVars, QP!Displaced, QP!Admits
  <2>2. QP!Full => QP!Peek(deque, QP!Victim(end)) \in Task \ dropped
    <3>1. ASSUME QP!Full PROVE deque # <<>>
      BY <1>0, <3>1, QP!EndLemma, ThrdPoolAssumption DEF QP!Full
    <3>2. QP!Victim(end) \in QP!End
      BY <1>0, QP!EndLemma
    <3>3. QP!Full => QP!Peek(deque, QP!Victim(end)) \in QP!ToSet(deque)
      BY <1>0, <3>1, <3>2, QP!RemoveElements DEF QP!Conservation
    <3>4. QED
      BY <1>0, <3>3 DEF QP!Conservation, QP!TypeOK
  <2>3. out \in Task \cup {NoTask} /\ out \notin dropped /\ (out # NoTask <=> QP!Full)
    BY <1>0, <2>2
  <2>4. dropped' = dropped \cup ({out} \ {NoTask})
    BY <1>0, <2>1, <2>2
  <2>5. full_policy \notin PushMayFail =>
           Len(deque') = (IF QP!Full THEN Len(deque) ELSE Len(deque) + 1)
    BY <1>0, <1>3, QP!PushLength
  <2>6. full_policy \notin PushMayFail =>
           /\ Len(deque') >= Len(deque)
           /\ out # NoTask => Len(deque') >= MaxTasks
    BY <1>0, <2>3, <2>5 DEF QP!Full
  <2> HIDE DEF out
  <2>7. QED
    BY <2>1, <2>3, <2>4, <2>6
<1>4. QED
  BY <1>1, <1>2, <1>3 DEF QP!PushSection

\* What a pop does to the queue.
LEMMA TakeFacts ==
  ASSUME QueueSound, NEW t \in Thread, NEW end \in QP!End, QP!PopSection(t, end)
  PROVE  /\ UNCHANGED <<accepted, dropped, en_colsed, de_colsed, full_policy>>
         /\ deque = <<>> => deque' = <<>>
         /\ \/ /\ call' = [call EXCEPT ![t] = QP!PopCall(end)]
               /\ UNCHANGED <<deque, result, taken>>
            \/ \E k \in Task \ taken :
                 /\ call' = [call EXCEPT ![t] = QP!Idle]
                 /\ result' = [result EXCEPT ![t] = [ok |-> TRUE, out |-> k]]
                 /\ taken' = taken \cup {k}
                 /\ Len(deque') = Len(deque) - 1
            \/ /\ call' = [call EXCEPT ![t] = QP!Idle]
               /\ result' = [result EXCEPT ![t] = [ok |-> FALSE, out |-> NoTask]]
               /\ de_colsed /\ deque = <<>>
               /\ UNCHANGED <<deque, taken>>
<1> USE QueueAssumption
<1>0. QP!TypeOK /\ QP!Conservation /\ deque \in Seq(Task)
  BY DEF QueueSound, QP!ConsInv, QP!TypeOK
<1>1. CASE QP!PopWaits(t, end)
  BY <1>1 DEF QP!PopWaits, QP!queueVars, QP!fieldVars, QP!history
<1>2. CASE QP!PopTakes(t, end)
  <2>1. /\ deque # <<>> /\ UNCHANGED <<accepted, dropped, en_colsed, de_colsed, full_policy>>
        /\ call' = [call EXCEPT ![t] = QP!Idle]
        /\ result' = [result EXCEPT ![t] = [ok |-> TRUE, out |-> QP!Peek(deque, end)]]
        /\ taken' = taken \cup {QP!Peek(deque, end)}
    BY <1>2 DEF QP!PopTakes, QP!Return, QP!fieldVars
  <2>2. QP!Peek(deque, end) \in QP!ToSet(deque)
    BY <1>0, <2>1, QP!RemoveElements DEF QP!Conservation
  <2>3. QP!Peek(deque, end) \in Task \ taken
    BY <1>0, <2>2 DEF QP!Conservation, QP!TypeOK
  <2>4. Len(deque') = Len(deque) - 1
    BY <1>0, <1>2, QP!PopLength
  <2>5. QED
    BY <2>1, <2>3, <2>4
<1>3. CASE QP!PopRefused(t)
  BY <1>3 DEF QP!PopRefused, QP!Return, QP!queueVars, QP!fieldVars, QP!history
<1>4. QED
  BY <1>1, <1>2, <1>3 DEF QP!PopSection

(***************************************************************************)
(* Every step of the pool is one of the queue, or leaves the queue alone.  *)
(***************************************************************************)
\* The whole inductive invariant.
Inv == PoolInv /\ QueueSound /\ Hands /\ Ending /\ Idlers

\* The steps outside the queue.
Elsewhere ==
  \/ \E w \in Worker : \/ CreateWorker(w) \/ CountDown(w) \/ TestRunning(w)
                       \/ CallTask(w) \/ TaskReturns(w) \/ AddReturns(w, "returning")
  \/ WaitForWorkers
  \/ \E t \in Client \cup {Owner} : AddReturns(t, "outside")
  \/ \E wait_tasks \in BOOLEAN : UninitBegins(wait_tasks)
  \/ JoinAndFree

\* An add, begun or resumed: a push that is a critical section of the queue.
AddSection(t) ==
  /\ pc[t] = (IF t \in Worker THEN "adding" ELSE pc[t])
  /\ pc[t] \in {"outside", "adding"}
  /\ PushEnds(t)
  /\ \E end \in QP!End, v \in Task : QP!PushSection(t, end, v)

TakeSection(w) == PopTask(w) /\ \E end \in QP!End : QP!PopSection(w, end)

LEMMA PoolStep ==
  ASSUME Inv, Next
  PROVE  /\ QP!Next \/ UNCHANGED queueVars
         /\ \/ \E t \in Thread : AddSection(t)
            \/ \E w \in Worker : TakeSection(w)
            \/ ShutdownQueue
            \/ SpuriousWakeup
            \/ Elsewhere /\ UNCHANGED queueVars
<1> USE NobodyInTwoRoles
<1>1. ASSUME NEW t \in Thread, NEW k \in Task, AddTask(t, k),
             pc[t] = (IF t \in Worker THEN "adding" ELSE pc[t]), pc[t] \in {"outside", "adding"}
      PROVE  QP!Next /\ AddSection(t)
  <2>1. QP!Push(t, "back", k) /\ PushEnds(t)
    BY <1>1, SameQueue DEF AddTask
  <2>2. "back" \in QP!End
    BY DEF QP!End
  <2>3. QP!Next
    BY <2>1, <2>2 DEF QP!Next
  <2>4. QED
    BY <1>1, <2>1, <2>2, <2>3 DEF AddSection, QP!Push
<1>2. ASSUME NEW t \in Thread, AddResumes(t)
      PROVE  QP!Next /\ AddSection(t)
  <2>1. QP!Resume(t) /\ PushEnds(t) /\ pc[t] = "adding"
    BY <1>2, SameQueue DEF AddResumes
  <2>2. call[t].op # "pop" /\ call[t] \in QP!Call
    BY <2>1 DEF Inv, PoolInv, CallsInPlace, QueueSound, QP!TypeOK
  <2>3. call[t].op = "push" => call[t].end \in QP!End /\ call[t].val \in Task
    BY <2>2, QP!CallLemma, QueueAssumption
  <2>4. QED
    BY <2>1, <2>2, <2>3 DEF AddSection, QP!Resume, QP!Next
<1>3. ASSUME NEW w \in Worker, PopTask(w)
      PROVE  QP!Next /\ TakeSection(w)
  <2>1. /\ pc[w] = "popping"
        /\ IF call[w].op = "idle" THEN QP!Pop(w, "front") ELSE QP!Resume(w)
    BY <1>3, SameQueue DEF PopTask
  <2>2. call[w].op # "push" /\ call[w] \in QP!Call /\ "front" \in QP!End
    BY <2>1 DEF Inv, PoolInv, CallsInPlace, QueueSound, QP!TypeOK, QP!End
  <2>3. call[w].op = "pop" => call[w].end \in QP!End
    BY <2>2, QP!CallLemma, QueueAssumption
  <2>4. \E end \in QP!End : QP!PopSection(w, end)
    BY <2>1, <2>2, <2>3 DEF QP!Pop, QP!Resume
  <2>5. QP!Next
    BY <2>1, <2>2 DEF QP!Next
  <2>6. QED
    BY <1>3, <2>4, <2>5 DEF TakeSection
<1>4. ASSUME ShutdownQueue
      PROVE  QP!Next
  <2>1. Closes \in (SUBSET QP!Half) \ {{}}
    BY DEF Closes, QP!Half
  <2>2. QP!ShutdownEnter(Owner, Closes) \/ QP!ShutdownSection(Owner)
    BY <1>4, SameQueue DEF ShutdownQueue
  <2>3. QED
    BY <2>1, <2>2 DEF QP!Next
<1>5. ASSUME SpuriousWakeup
      PROVE  QP!Next \/ UNCHANGED queueVars
  BY <1>5, SameQueue DEF SpuriousWakeup, QP!Next
<1>6. ASSUME Elsewhere
      PROVE  UNCHANGED queueVars
  BY <1>6 DEF Elsewhere, CreateWorker, CountDown, TestRunning, CallTask, TaskReturns,
     AddReturns, WaitForWorkers, UninitBegins, JoinAndFree
<1>7. ASSUME NEW w \in Worker, CreateWorker(w) \/ WorkerStep(w)
      PROVE  \/ Elsewhere
             \/ QP!Next /\ (AddSection(w) \/ TakeSection(w))
  <2>1. CASE pc[w] = "adding" /\ AddTask(w, Adds[task[w]])
    BY <1>1, <2>1 DEF Inv, Hands
  <2>2. QED
    BY <1>2, <1>3, <1>7, <2>1 DEF WorkerStep, Elsewhere
<1>8. ASSUME NEW t \in Client \cup {Owner}, OutsiderAdds(t) \/ OutsiderStep(t)
      PROVE  Elsewhere \/ (QP!Next /\ AddSection(t))
  <2>1. t \in Thread /\ t \notin Worker
    OBVIOUS
  <2>2. CASE OutsiderAdds(t)
    BY <1>1, <2>1, <2>2 DEF OutsiderAdds, TopLevel
  <2>3. QED
    BY <1>2, <1>8, <2>1, <2>2 DEF OutsiderStep, Elsewhere
<1>9. QED
  BY <1>4, <1>5, <1>6, <1>7, <1>8 DEF Next, Elsewhere

LEMMA QueueKept ==
  ASSUME Inv, [Next]_vars
  PROVE  QueueSound'
<1>1. [QP!Next]_(QP!vars)
  BY PoolStep DEF vars, queueVars, QP!vars, QP!queueVars, QP!fieldVars, QP!condVars, QP!history
<1>2. QED
  BY <1>1, QP!TypeStep, QP!ConsStep, QueueAssumption DEF Inv, QueueSound

(***************************************************************************)
(* Every step keeps the invariant.                                         *)
(***************************************************************************)
LEMMA HandsFrame ==
  ASSUME Hands, UNCHANGED <<task, started, finished, taken>>,
         \A w \in Worker : /\ InHand(w)' <=> InHand(w)
                           /\ pc'[w] = "popped" <=> pc[w] = "popped"
                           /\ pc'[w] = "adding" => pc[w] = "adding"
  PROVE  Hands'
BY DEF Hands

\* Thread t moves, and a worker among them does not put down or pick up a task.
LEMMA HandsMove ==
  ASSUME Inv, UNCHANGED <<task, started, finished, taken>>,
         NEW t \in Thread, NEW to, pc' = [pc EXCEPT ![t] = to],
         t \in Worker =>
           \/ /\ pc[t] \in {"absent", "created", "loop", "popping"}
              /\ to \in {"created", "loop", "popping", "exited"}
           \/ pc[t] \in {"adding", "added"} /\ to \in {"added", "returning"}
           \/ pc[t] = "adding" /\ to = "adding"
  PROVE  Hands'
<1>1. \A w \in Worker : /\ InHand(w)' <=> InHand(w)
                        /\ pc'[w] = "popped" <=> pc[w] = "popped"
                        /\ pc'[w] = "adding" => pc[w] = "adding"
  BY NobodyInTwoRoles DEF Inv, PoolInv, Lifetime, InHand
<1>2. QED
  BY <1>1, HandsFrame DEF Inv

LEMMA HandsKept ==
  ASSUME Inv, [Next]_vars
  PROVE  Hands'
<1> USE NobodyInTwoRoles
<1>0. /\ pc \in [Thread -> Places] /\ call \in [Thread -> QP!Call]
      /\ result \in [Thread -> QP!Result] /\ taken \subseteq Task
  BY DEF Inv, PoolInv, Lifetime, QueueSound, QP!TypeOK
<1>1. CASE UNCHANGED vars
  BY <1>1 DEF vars, queueVars, work, Inv, Hands, InHand
<1>2. ASSUME NEW t \in Thread, AddSection(t)
      PROVE  Hands'
  <2>1. UNCHANGED <<task, started, finished, taken>>
    BY <1>2, AddFacts DEF AddSection, PushEnds, work, Inv
  <2>2. PICK to \in {"added", "adding"} : pc' = [pc EXCEPT ![t] = to]
    BY <1>2 DEF AddSection, PushEnds
  <2>3. t \in Worker => pc[t] = "adding"
    BY <1>2 DEF AddSection
  <2>4. QED
    BY <2>1, <2>2, <2>3, HandsMove
<1>3. ASSUME NEW w \in Worker, TakeSection(w)
      PROVE  Hands'
  <2>1. /\ pc[w] = "popping" /\ UNCHANGED <<started, finished>>
        /\ IF call'[w].op # "idle"
             THEN UNCHANGED <<pc, task>>
             ELSE /\ pc' = [pc EXCEPT ![w] = AfterPop(w)]
                  /\ task' = [task EXCEPT ![w] = result'[w].out]
    BY <1>3 DEF TakeSection, PopTask
  <2>2. QP!Idle.op = "idle" /\ \A end : QP!PopCall(end).op = "pop"
    BY DEF QP!Idle, QP!PopCall
  <2>3. PICK end \in QP!End : QP!PopSection(w, end)
    BY <1>3 DEF TakeSection
  <2>4. CASE /\ call' = [call EXCEPT ![w] = QP!PopCall(end)]
             /\ UNCHANGED <<deque, result, taken>>
    BY <1>0, <2>1, <2>2, <2>4, HandsFrame DEF Inv, InHand
  <2>5. ASSUME NEW k \in Task \ taken,
               call' = [call EXCEPT ![w] = QP!Idle],
               result' = [result EXCEPT ![w] = [ok |-> TRUE, out |-> k]],
               taken' = taken \cup {k}
        PROVE  Hands'
    <3>1. pc' = [pc EXCEPT ![w] = "popped"] /\ task' = [task EXCEPT ![w] = k]
      BY <1>0, <2>1, <2>2, <2>5 DEF AfterPop
    <3>2. \A v \in Worker : InHand(v)' <=> (InHand(v) \/ v = w)
      BY <1>0, <3>1 DEF InHand
    <3>3. ~InHand(w) /\ started[k] = 0 /\ k \notin finished
      BY <2>1 DEF InHand, Inv, Hands
    <3>4. \A v \in Worker \ {w} : task'[v] = task[v] /\ pc'[v] = pc[v]
      BY <1>0, <3>1 DEF Inv, Hands
    <3>5. task'[w] = k /\ pc'[w] = "popped" /\ task' \in [Worker -> Task \cup {NoTask}]
      BY <1>0, <3>1 DEF Inv, Hands
    <3>6. \A v \in Worker : InHand(v)' =>
             /\ task'[v] \in taken' \ finished'
             /\ started'[task'[v]] = IF pc'[v] = "popped" THEN 0 ELSE 1
      BY <2>1, <2>5, <3>2, <3>3, <3>4, <3>5 DEF Inv, Hands
    <3>7. \A v, u \in Worker : InHand(v)' /\ InHand(u)' /\ task'[v] = task'[u] => v = u
      BY <3>2, <3>4, <3>5 DEF Inv, Hands
    <3>8. \A j \in taken' \ finished' : \E v \in Worker : InHand(v)' /\ task'[v] = j
      BY <2>1, <2>5, <3>2, <3>3, <3>4, <3>5 DEF Inv, Hands
    <3>9. \A v \in Worker : pc'[v] = "adding" => Adds[task'[v]] \in Task
      BY <3>4, <3>5 DEF Inv, Hands
    <3>10. QED
      BY <2>1, <2>5, <3>5, <3>6, <3>7, <3>8, <3>9 DEF Inv, Hands
  <2>6. CASE /\ call' = [call EXCEPT ![w] = QP!Idle]
             /\ result' = [result EXCEPT ![w] = [ok |-> FALSE, out |-> NoTask]]
             /\ UNCHANGED <<deque, taken>>
    <3>1. pc' = [pc EXCEPT ![w] = "exited"] /\ task' = [task EXCEPT ![w] = NoTask]
      BY <1>0, <2>1, <2>2, <2>6 DEF AfterPop
    <3>2. \A v \in Worker : /\ InHand(v)' <=> InHand(v)
                            /\ InHand(v) => task'[v] = task[v] /\ pc'[v] = pc[v]
                            /\ pc'[v] = "adding" => InHand(v)
      BY <1>0, <2>1, <3>1 DEF InHand, Inv, Hands
    <3>3. task' \in [Worker -> Task \cup {NoTask}]
      BY <3>1 DEF Inv, Hands
    <3>4. QED
      BY <2>1, <2>6, <3>2, <3>3 DEF Inv, Hands
  <2>7. QED
    BY <2>3, <2>4, <2>5, <2>6, TakeFacts DEF Inv
<1>4. CASE ShutdownQueue
  <2>1. /\ UNCHANGED <<task, started, finished, taken>>
        /\ pc' = pc \/ pc' = [pc EXCEPT ![Owner] = "joining"]
    BY <1>4 DEF ShutdownQueue, Q!ShutdownEnter, Q!ShutdownSection, Q!history, work
  <2>2. QED
    BY <2>1, HandsMove, HandsFrame DEF Inv, InHand
<1>5. CASE SpuriousWakeup
  BY <1>5, HandsFrame
  DEF Inv, InHand, SpuriousWakeup, Q!SpuriousWakeup, Q!history, work, queueVars
<1>6. ASSUME NEW w \in Worker, CallTask(w)
      PROVE  Hands'
  <2>1. /\ pc[w] = "popped" /\ UNCHANGED <<task, finished, taken>>
        /\ pc' = [pc EXCEPT ![w] = IF Adds[task[w]] = NoTask THEN "returning" ELSE "adding"]
        /\ started' = [started EXCEPT ![task[w]] = @ + 1]
    BY <1>6 DEF CallTask, Go, queueVars
  <2>2. /\ task[w] \in taken /\ task[w] \in Task /\ started[task[w]] = 0
        /\ \A v \in Worker \ {w} : InHand(v) => task[v] # task[w]
    BY <1>0, <2>1 DEF Inv, Hands, InHand
  <2>3. \A v \in Worker : /\ InHand(v)' <=> InHand(v)
                          /\ v # w => pc'[v] = pc[v]
    BY <1>0, <2>1 DEF InHand
  <2>4. /\ started' \in [Task -> {0, 1}] /\ started'[task[w]] = 1
        /\ \A k \in Task \ {task[w]} : started'[k] = started[k]
    BY <2>1, <2>2 DEF Inv, Hands
  <2>5. Adds[task[w]] \in Task \cup {NoTask}
    BY <2>2, ThrdPoolAssumption
  <2>6. pc'[w] # "popped" /\ (pc'[w] = "adding" => Adds[task[w]] \in Task)
    BY <1>0, <2>1, <2>5
  <2>7. \A v \in Worker : InHand(v)' =>
             /\ task'[v] \in taken' \ finished'
             /\ started'[task'[v]] = IF pc'[v] = "popped" THEN 0 ELSE 1
    BY <1>0, <2>1, <2>2, <2>3, <2>4, <2>6 DEF Inv, Hands
  <2>8. QED
    BY <2>1, <2>2, <2>3, <2>4, <2>6, <2>7 DEF Inv, Hands
<1>7. ASSUME NEW w \in Worker, TaskReturns(w)
      PROVE  Hands'
  <2>1. /\ pc[w] = "returning" /\ UNCHANGED <<task, started, taken>>
        /\ pc' = [pc EXCEPT ![w] = "loop"] /\ finished' = finished \cup {task[w]}
    BY <1>7 DEF TaskReturns, Go, queueVars
  <2>2. InHand(w) /\ \A v \in Worker : /\ InHand(v)' <=> InHand(v) /\ v # w
                                       /\ v # w => pc'[v] = pc[v]
                                       /\ pc'[w] = "loop"
    BY <1>0, <2>1 DEF InHand
  <2>3. QED
    BY <2>1, <2>2 DEF Inv, Hands
<1>8. ASSUME NEW w \in Worker,
             CreateWorker(w) \/ CountDown(w) \/ TestRunning(w) \/ AddReturns(w, "returning"),
             UNCHANGED queueVars
      PROVE  Hands'
  <2>1. /\ UNCHANGED <<task, started, finished, taken>>
        /\ \E to : /\ pc' = [pc EXCEPT ![w] = to]
                   /\ \/ /\ pc[w] \in {"absent", "created", "loop"}
                         /\ to \in {"created", "loop", "popping", "exited"}
                      \/ pc[w] = "added" /\ to = "returning"
    BY <1>8 DEF CreateWorker, CountDown, TestRunning, AddReturns, Go, work, queueVars
  <2>2. QED
    BY <2>1, HandsMove
<1>9. ASSUME \/ WaitForWorkers
             \/ \E t \in Client \cup {Owner} : AddReturns(t, "outside")
             \/ \E wait_tasks \in BOOLEAN : UninitBegins(wait_tasks)
             \/ JoinAndFree,
             UNCHANGED queueVars
      PROVE  Hands'
  <2>1. /\ UNCHANGED <<task, started, finished, taken>>
        /\ \E t \in Client \cup {Owner} : \E to : pc' = [pc EXCEPT ![t] = to]
    BY <1>9 DEF WaitForWorkers, AddReturns, UninitBegins, JoinAndFree, Go, work, queueVars
  <2>2. QED
    BY <2>1, HandsMove
<1>10. QED
  BY <1>1, <1>2, <1>3, <1>4, <1>5, <1>6, <1>7, <1>8, <1>9, PoolStep DEF Elsewhere

LEMMA EndingFrame ==
  ASSUME Ending, UNCHANGED <<running, waiting, en_colsed, de_colsed>>,
         InUninit => InUninit',
         en_colsed /\ deque = <<>> => deque' = <<>>,
         call'[Owner] = call[Owner] \/ call'[Owner].op # "shutdown",
         \A w \in Worker :
           pc'[w] = "exited" => pc[w] = "exited" \/ ~running \/ (de_colsed /\ deque = <<>>)
  PROVE  Ending'
BY DEF Ending

LEMMA EndingKept ==
  ASSUME Inv, [Next]_vars
  PROVE  Ending'
<1> USE NobodyInTwoRoles
<1>0. /\ pc \in [Thread -> Places] /\ call \in [Thread -> QP!Call]
      /\ result \in [Thread -> QP!Result] /\ Ending
      /\ QP!Idle.op = "idle" /\ \A end : QP!PopCall(end).op = "pop"
      /\ \A end, v : QP!PushCall(end, v).op = "push"
  BY DEF Inv, PoolInv, Lifetime, QueueSound, QP!TypeOK, QP!Idle, QP!PopCall, QP!PushCall
<1>1. CASE UNCHANGED vars
  BY <1>0, <1>1, EndingFrame DEF vars, queueVars, InUninit
<1>2. ASSUME NEW t \in Thread, AddSection(t)
      PROVE  Ending'
  <2>1. /\ UNCHANGED <<running, waiting>>
        /\ pc' = [pc EXCEPT ![t] = IF call'[t].op = "idle" THEN "added" ELSE "adding"]
    BY <1>2 DEF AddSection, PushEnds
  <2>2. PICK end \in QP!End, v \in Task : QP!PushSection(t, end, v)
    BY <1>2 DEF AddSection
  <2>3. /\ UNCHANGED <<en_colsed, de_colsed>>
        /\ en_colsed => deque' = deque
        /\ \/ call' = [call EXCEPT ![t] = QP!PushCall(end, v)]
           \/ call' = [call EXCEPT ![t] = QP!Idle]
    BY <2>2, AddFacts DEF Inv
  <2>4. call'[Owner] = call[Owner] \/ call'[Owner].op # "shutdown"
    BY <1>0, <2>3
  <2>5. \A w \in Worker : pc'[w] = "exited" => pc[w] = "exited"
    BY <1>0, <2>1
  <2>6. InUninit => InUninit'
    BY <1>0, <1>2, <2>1 DEF AddSection, InUninit
  <2>7. QED
    BY <1>0, <2>1, <2>3, <2>4, <2>5, <2>6, EndingFrame
<1>3. ASSUME NEW w \in Worker, TakeSection(w)
      PROVE  Ending'
  <2>1. /\ UNCHANGED <<running, waiting>>
        /\ IF call'[w].op # "idle" THEN pc' = pc ELSE pc' = [pc EXCEPT ![w] = AfterPop(w)]
    BY <1>3 DEF TakeSection, PopTask
  <2>2. PICK end \in QP!End : QP!PopSection(w, end)
    BY <1>3 DEF TakeSection
  <2>3. /\ UNCHANGED <<en_colsed, de_colsed>>
        /\ deque = <<>> => deque' = <<>>
        /\ \/ call' = [call EXCEPT ![w] = QP!PopCall(end)]
           \/ /\ call' = [call EXCEPT ![w] = QP!Idle]
              /\ \/ \E k : result' = [result EXCEPT ![w] = [ok |-> TRUE, out |-> k]]
                 \/ de_colsed /\ deque = <<>>
    BY <2>2, TakeFacts DEF Inv
  <2>4. call'[Owner] = call[Owner]
    BY <1>0, <2>3
  <2>5. \A v \in Worker : pc'[v] = "exited" => pc[v] = "exited" \/ (de_colsed /\ deque = <<>>)
    BY <1>0, <2>1, <2>3 DEF AfterPop
  <2>6. InUninit => InUninit'
    BY <1>0, <2>1 DEF InUninit
  <2>7. QED
    BY <1>0, <2>1, <2>3, <2>4, <2>5, <2>6, EndingFrame
<1>4. CASE ShutdownQueue
  <2>1. UNCHANGED <<running, waiting>>
    BY <1>4 DEF ShutdownQueue
  <2>2. CASE Q!ShutdownEnter(Owner, Closes) /\ UNCHANGED pc
    BY <1>0, <2>1, <2>2
    DEF Ending, InUninit, Q!ShutdownEnter, Q!ShutdownCall, Q!queueVars, Q!fieldVars
  <2>3. CASE Q!ShutdownSection(Owner) /\ pc' = [pc EXCEPT ![Owner] = "joining"]
    <3>1. /\ call[Owner].op = "shutdown" /\ call[Owner].how = Closes
          /\ en_colsed' = (en_colsed \/ "ENQUEUE" \in call[Owner].how)
          /\ de_colsed' = (de_colsed \/ "DEQUEUE" \in call[Owner].how)
          /\ call' = [call EXCEPT ![Owner] = Q!Idle]
          /\ deque' = deque
      BY <1>0, <2>3 DEF Q!ShutdownSection, Q!Return, Ending
    <3>2. en_colsed' /\ de_colsed'
      BY <3>1 DEF Closes
    <3>3. call'[Owner].op = "idle"
      BY <1>0, <3>1 DEF Q!Idle
    <3>4. \A w \in Worker : pc'[w] = pc[w]
      BY <1>0, <2>3
    <3>5. InUninit
      BY <1>4 DEF ShutdownQueue, InUninit
    <3>6. QED
      BY <1>0, <2>1, <2>3, <3>1, <3>2, <3>3, <3>4, <3>5 DEF Ending, InUninit
  <2>4. QED
    BY <1>4, <2>2, <2>3 DEF ShutdownQueue
<1>5. CASE SpuriousWakeup
  <2>1. UNCHANGED <<running, waiting, pc, call, en_colsed, de_colsed, deque>>
    BY <1>5 DEF SpuriousWakeup, Q!SpuriousWakeup, Q!queueVars, Q!fieldVars, queueVars
  <2>2. QED
    BY <1>0, <2>1, EndingFrame DEF InUninit
<1>6. ASSUME Elsewhere, UNCHANGED queueVars
      PROVE  Ending'
  <2>1. UNCHANGED <<call, en_colsed, de_colsed, deque>>
    BY <1>6 DEF queueVars
  <2>2. ASSUME NEW wait_tasks \in BOOLEAN, UninitBegins(wait_tasks)
        PROVE  Ending'
    <3>1. /\ pc' = [pc EXCEPT ![Owner] = "closing"] /\ running' = wait_tasks
          /\ waiting' = wait_tasks /\ pc[Owner] = "outside"
      BY <2>2 DEF UninitBegins, Go, MayStop
    <3>2. \A w \in Worker : pc'[w] = pc[w]
      BY <1>0, <3>1
    <3>3. waiting
      BY <1>0, <3>1 DEF Ending, InUninit
    <3>4. QED
      BY <1>0, <2>1, <3>1, <3>2, <3>3 DEF Ending, InUninit
  <2>3. ASSUME ~\E wait_tasks \in BOOLEAN : UninitBegins(wait_tasks)
        PROVE  /\ UNCHANGED <<running, waiting>>
               /\ \E t \in Thread : \E to : /\ pc' = [pc EXCEPT ![t] = to]
                                            /\ to = "exited" => ~running
                                            /\ t = Owner /\ InUninit => to = "gone"
    BY <1>6, <2>3 DEF Elsewhere, CreateWorker, CountDown, TestRunning, CallTask, TaskReturns,
       AddReturns, WaitForWorkers, JoinAndFree, Go, InUninit
  <2>4. QED
    BY <1>0, <2>1, <2>2, <2>3, EndingFrame DEF InUninit
<1>7. QED
  BY <1>1, <1>2, <1>3, <1>4, <1>5, <1>6, PoolStep

LEMMA BusyCount ==
  /\ IsFiniteSet(Worker) /\ Cardinality(Worker) \in Nat
  /\ IsFiniteSet(Busy) /\ Cardinality(Busy) \in Nat
<1>1. Busy \in SUBSET Worker
  BY DEF Busy
<1>2. QED
  BY <1>1, ThrdPoolAssumption, FS_Subset, FS_CardinalityType

LEMMA IdlersKept ==
  ASSUME Inv, [Next]_vars
  PROVE  Idlers'
<1> USE NobodyInTwoRoles
<1>0. pc \in [Thread -> Places] /\ Idlers
  BY DEF Inv, PoolInv, Lifetime
<1>1. ASSUME NEW w \in Worker, CallTask(w)
      PROVE  Idlers'
  <2>1. pc[w] = "popped" /\ idlecnt' = idlecnt - 1
        /\ \E to \in {"returning", "adding"} : pc' = [pc EXCEPT ![w] = to]
    BY <1>1 DEF CallTask, Go, LeavesIdle
  <2>2. Busy' = Busy \cup {w} /\ w \notin Busy
    BY <1>0, <2>1 DEF Busy
  <2>3. Cardinality(Busy') = Cardinality(Busy) + 1
    BY <2>2, BusyCount, FS_AddElement
  <2>4. QED
    BY <1>0, <2>1, <2>3, BusyCount DEF Idlers
<1>2. ASSUME NEW w \in Worker, TaskReturns(w)
      PROVE  Idlers'
  <2>1. pc[w] = "returning" /\ idlecnt' = idlecnt + 1 /\ pc' = [pc EXCEPT ![w] = "loop"]
    BY <1>2 DEF TaskReturns, Go
  <2>2. Busy' = Busy \ {w} /\ w \in Busy
    BY <1>0, <2>1 DEF Busy
  <2>3. Cardinality(Busy') = Cardinality(Busy) - 1
    BY <2>2, BusyCount, FS_RemoveElement
  <2>4. QED
    BY <1>0, <2>1, <2>3, BusyCount DEF Idlers
<1>3. ASSUME idlecnt' = idlecnt,
             \/ pc' = pc
             \/ \E t \in Thread : \E to :
                  /\ pc' = [pc EXCEPT ![t] = to]
                  /\ t \in Worker => \/ /\ pc[t] \in {"adding", "added", "returning"}
                                        /\ to \in {"adding", "added", "returning"}
                                     \/ /\ pc[t] \notin {"adding", "added", "returning"}
                                        /\ to \notin {"adding", "added", "returning"}
      PROVE  Idlers'
  <2>1. Busy' = Busy
    BY <1>0, <1>3 DEF Busy
  <2>2. QED
    BY <1>0, <1>3, <2>1 DEF Idlers
<1>4. CASE UNCHANGED vars
  BY <1>3, <1>4 DEF vars, work
<1>5. ASSUME NEW t \in Thread, AddSection(t)
      PROVE  Idlers'
  <2>1. /\ idlecnt' = idlecnt /\ \E to \in {"added", "adding"} : pc' = [pc EXCEPT ![t] = to]
        /\ t \in Worker => pc[t] = "adding"
    BY <1>5 DEF AddSection, PushEnds, work
  <2>2. QED
    BY <1>3, <2>1
<1>6. ASSUME NEW w \in Worker, TakeSection(w)
      PROVE  Idlers'
  <2>1. /\ idlecnt' = idlecnt /\ pc[w] = "popping"
        /\ pc' = pc \/ \E to \in {"popped", "exited"} : pc' = [pc EXCEPT ![w] = to]
    BY <1>6 DEF TakeSection, PopTask, AfterPop
  <2>2. QED
    BY <1>3, <2>1
<1>7. CASE ShutdownQueue
  <2>1. idlecnt' = idlecnt /\ (pc' = pc \/ pc' = [pc EXCEPT ![Owner] = "joining"])
    BY <1>7 DEF ShutdownQueue, work
  <2>2. QED
    BY <1>3, <2>1
<1>8. CASE SpuriousWakeup
  BY <1>3, <1>8 DEF SpuriousWakeup, work
<1>9. ASSUME NEW w \in Worker,
             CreateWorker(w) \/ CountDown(w) \/ TestRunning(w) \/ AddReturns(w, "returning")
      PROVE  Idlers'
  <2>1. /\ idlecnt' = idlecnt
        /\ \E to : /\ pc' = [pc EXCEPT ![w] = to]
                   /\ \/ /\ pc[w] \in {"absent", "created", "loop"}
                         /\ to \in {"created", "loop", "popping", "exited"}
                      \/ pc[w] = "added" /\ to = "returning"
    BY <1>9 DEF CreateWorker, CountDown, TestRunning, AddReturns, Go, work
  <2>2. QED
    BY <1>3, <2>1
<1>10. ASSUME \/ WaitForWorkers
              \/ \E t \in Client \cup {Owner} : AddReturns(t, "outside")
              \/ \E wait_tasks \in BOOLEAN : UninitBegins(wait_tasks)
              \/ JoinAndFree
       PROVE  Idlers'
  <2>1. /\ idlecnt' = idlecnt
        /\ \E t \in Client \cup {Owner} : \E to : pc' = [pc EXCEPT ![t] = to]
    BY <1>10 DEF WaitForWorkers, AddReturns, UninitBegins, JoinAndFree, Go, work
  <2>2. QED
    BY <1>3, <2>1
<1>11. QED
  BY <1>1, <1>2, <1>4, <1>5, <1>6, <1>7, <1>8, <1>9, <1>10, PoolStep DEF Elsewhere

LEMMA DropsFrame ==
  ASSUME Drops, UNCHANGED <<reported, dropped>>,
         \A t \in Thread : Owes(t)' <=> Owes(t),
         \A t \in Thread : Owes(t) => result'[t] = result[t]
  PROVE  Drops'
BY DEF Drops

LEMMA DropsKept ==
  ASSUME Inv, Drops, [Next]_vars
  PROVE  Drops'
<1> USE NobodyInTwoRoles
<1>0. /\ pc \in [Thread -> Places] /\ call \in [Thread -> QP!Call]
      /\ result \in [Thread -> QP!Result] /\ dropped \subseteq Task
      /\ QP!Idle.op = "idle" /\ \A end, v : QP!PushCall(end, v).op = "push"
  BY DEF Inv, PoolInv, Lifetime, QueueSound, QP!TypeOK, QP!Idle, QP!PushCall
<1>1. CASE UNCHANGED vars
  BY <1>1, DropsFrame DEF vars, queueVars, Owes
<1>2. ASSUME NEW t \in Thread, AddSection(t)
      PROVE  Drops'
  <2>1. /\ reported' = reported /\ pc[t] # "added"
        /\ pc' = [pc EXCEPT ![t] = IF call'[t].op = "idle" THEN "added" ELSE "adding"]
    BY <1>2 DEF AddSection, PushEnds
  <2>2. PICK end \in QP!End, v \in Task : QP!PushSection(t, end, v)
    BY <1>2 DEF AddSection
  <2>3. CASE /\ call' = [call EXCEPT ![t] = QP!PushCall(end, v)]
             /\ UNCHANGED <<deque, result, accepted, dropped>>
    BY <1>0, <2>1, <2>3, DropsFrame DEF Owes
  <2>4. ASSUME call' = [call EXCEPT ![t] = QP!Idle],
               NEW ok \in BOOLEAN, NEW out \in Task \cup {NoTask},
               result' = [result EXCEPT ![t] = [ok |-> ok, out |-> out]],
               dropped' = dropped \cup ({out} \ {NoTask}),
               out \notin dropped
        PROVE  Drops'
    <3>1. pc' = [pc EXCEPT ![t] = "added"]
      BY <1>0, <2>1, <2>4
    <3>2. /\ ~Owes(t) /\ (Owes(t)' <=> out # NoTask) /\ result'[t].out = out
          /\ \A u \in Thread \ {t} : (Owes(u)' <=> Owes(u)) /\ result'[u] = result[u]
      BY <1>0, <2>1, <2>4, <3>1 DEF Owes
    <3>3. out \in Task /\ WithDrop => reported[out] = 0
      BY <2>4 DEF Drops
    <3>4. QED
      BY <1>0, <2>1, <2>4, <3>2, <3>3 DEF Drops
  <2>5. QED
    BY <2>2, <2>3, <2>4, AddFacts DEF Inv
<1>3. ASSUME NEW t \in Thread, NEW to \in {"returning", "outside"}, AddReturns(t, to)
      PROVE  Drops'
  <2>1. /\ pc[t] = "added" /\ pc' = [pc EXCEPT ![t] = to] /\ UNCHANGED <<result, dropped>>
        /\ reported' = IF Reported(t) THEN [reported EXCEPT ![result[t].out] = @ + 1]
                                      ELSE reported
    BY <1>3 DEF AddReturns, Go, queueVars
  <2>2. ~Owes(t)' /\ \A u \in Thread \ {t} : Owes(u)' <=> Owes(u)
    BY <1>0, <2>1 DEF Owes
  <2>3. CASE Reported(t)
    <3>1. Owes(t) /\ WithDrop
      BY <2>1, <2>3 DEF Owes, Reported
    <3>2. result[t].out \in dropped /\ reported[result[t].out] = 0 /\ result[t].out \in Task
      BY <1>0, <3>1 DEF Drops
    <3>3. /\ reported' \in [Task -> {0, 1}] /\ reported'[result[t].out] = 1
          /\ \A k \in Task \ {result[t].out} : reported'[k] = reported[k]
      BY <2>1, <2>3, <3>2 DEF Drops
    <3>4. QED
      BY <1>0, <2>1, <2>2, <3>1, <3>2, <3>3 DEF Drops
  <2>4. CASE ~Reported(t)
    BY <1>0, <2>1, <2>2, <2>4 DEF Drops, Reported, Owes
  <2>5. QED
    BY <2>3, <2>4
<1>4. ASSUME UNCHANGED <<reported, dropped>>,
             NEW t \in Thread, NEW to, to # "added", pc[t] # "added",
             pc' = pc \/ pc' = [pc EXCEPT ![t] = to],
             result' = result \/ \E r : result' = [result EXCEPT ![t] = r]
      PROVE  Drops'
  BY <1>0, <1>4, DropsFrame DEF Owes
<1>5. ASSUME NEW w \in Worker, TakeSection(w)
      PROVE  Drops'
  <2>1. /\ reported' = reported /\ pc[w] = "popping"
        /\ pc' = pc \/ \E to \in {"popped", "exited"} : pc' = [pc EXCEPT ![w] = to]
    BY <1>5 DEF TakeSection, PopTask, AfterPop
  <2>2. dropped' = dropped /\ (result' = result \/ \E r : result' = [result EXCEPT ![w] = r])
    <3>1. PICK end \in QP!End : QP!PopSection(w, end)
      BY <1>5 DEF TakeSection
    <3>2. QED
      BY <3>1, TakeFacts DEF Inv
  <2>3. QED
    BY <1>4, <2>1, <2>2
<1>6. CASE ShutdownQueue
  <2>1. /\ reported' = reported /\ pc[Owner] = "closing" /\ dropped' = dropped
        /\ pc' = pc \/ pc' = [pc EXCEPT ![Owner] = "joining"]
        /\ result' = result \/ \E r : result' = [result EXCEPT ![Owner] = r]
    BY <1>6 DEF ShutdownQueue, Q!ShutdownEnter, Q!ShutdownSection, Q!Return, Q!history
  <2>2. QED
    BY <1>4, <2>1
<1>7. CASE SpuriousWakeup
  BY <1>7, DropsFrame
  DEF SpuriousWakeup, Q!SpuriousWakeup, Q!history, queueVars, Owes
<1>8. ASSUME Elsewhere, UNCHANGED queueVars,
             ~\E t \in Thread, to \in {"returning", "outside"} : AddReturns(t, to)
      PROVE  Drops'
  <2>1. /\ UNCHANGED <<reported, dropped, result>>
        /\ \E t \in Thread : \E to : /\ pc' = [pc EXCEPT ![t] = to]
                                     /\ to # "added" /\ pc[t] # "added"
    BY <1>8 DEF Elsewhere, CreateWorker, CountDown, TestRunning, CallTask, TaskReturns,
       WaitForWorkers, UninitBegins, JoinAndFree, Go, queueVars
  <2>2. QED
    BY <1>4, <2>1
<1>9. QED
  BY <1>1, <1>2, <1>3, <1>5, <1>6, <1>7, <1>8, PoolStep

LEMMA EnoughKept ==
  ASSUME Inv, Enough, [Next]_vars
  PROVE  Enough'
<1>0. deque \in Seq(Task) /\ Len(deque) \in Nat /\ MaxTasks \in Nat /\ Cardinality(taken) \in Nat
  BY ThrdPoolAssumption, FS_CardinalityType DEF Inv, QueueSound, QP!TypeOK, Enough
<1>1. ASSUME UNCHANGED <<taken, deque, dropped, full_policy>>
      PROVE  Enough'
  BY <1>1 DEF Enough
<1>2. ASSUME NEW t \in Thread, AddSection(t)
      PROVE  Enough'
  <2>1. PICK end \in QP!End, v \in Task : QP!PushSection(t, end, v)
    BY <1>2 DEF AddSection
  <2>2. /\ UNCHANGED <<taken, full_policy>>
        /\ \/ UNCHANGED <<deque, dropped>>
           \/ \E out : /\ dropped' = dropped \cup ({out} \ {NoTask})
                       /\ full_policy \notin PushMayFail =>
                            /\ Len(deque') >= Len(deque)
                            /\ out # NoTask => Len(deque') >= MaxTasks
    BY <2>1, AddFacts DEF Inv
  <2>3. Len(deque') \in Nat
    <3>1. QueueSound'
      BY QueueKept
    <3>2. QED
      BY <3>1 DEF QueueSound, QP!TypeOK
  <2>4. QED
    BY <1>0, <2>2, <2>3 DEF Enough
<1>3. ASSUME NEW w \in Worker, TakeSection(w)
      PROVE  Enough'
  <2>1. PICK end \in QP!End : QP!PopSection(w, end)
    BY <1>3 DEF TakeSection
  <2>2. /\ UNCHANGED <<dropped, full_policy>>
        /\ \/ UNCHANGED <<deque, taken>>
           \/ \E k \in Task \ taken : taken' = taken \cup {k} /\ Len(deque') = Len(deque) - 1
    BY <2>1, TakeFacts, NobodyInTwoRoles DEF Inv
  <2>3. ASSUME NEW k \in Task \ taken, taken' = taken \cup {k}
        PROVE  IsFiniteSet(taken') /\ Cardinality(taken') = Cardinality(taken) + 1
    BY <2>3, FS_AddElement DEF Enough
  <2>4. QED
    BY <1>0, <2>2, <2>3 DEF Enough
<1>4. QED
  <2>1. CASE ShutdownQueue
    BY <1>1, <2>1
    DEF ShutdownQueue, Q!ShutdownEnter, Q!ShutdownSection, Q!queueVars, Q!fieldVars, Q!history
  <2>2. CASE SpuriousWakeup
    BY <1>1, <2>2
    DEF SpuriousWakeup, Q!SpuriousWakeup, Q!queueVars, Q!fieldVars, Q!history, queueVars
  <2>3. QED
    BY <1>1, <1>2, <1>3, <2>1, <2>2, PoolStep DEF vars, queueVars

LEMMA InvKept ==
  ASSUME Inv, [Next]_vars
  PROVE  Inv'
BY Inductive, QueueKept, HandsKept, EndingKept, IdlersKept DEF Inv

LEMMA InvInit ==
  ASSUME Init
  PROVE  Inv /\ Drops /\ Enough
<1> USE NobodyInTwoRoles
<1>1. QueueSound
  BY SameQueue, QueueAssumption, QP!InitSound DEF Init, QueueSound
<1>2. \A t \in Thread : pc[t] \in {"absent", "creating", "outside"}
  BY DEF Init
<1>3. call[Owner].op = "idle"
  BY DEF Init, Q!Init, Q!Idle
<1>4. Hands
  BY <1>2 DEF Init, Q!Init, Hands, InHand
<1>5. Ending
  BY <1>2, <1>3 DEF Init, Q!Init, Ending
<1>6. Idlers
  <2>1. Busy = {}
    BY <1>2 DEF Busy
  <2>2. QED
    BY <2>1, BusyCount, FS_EmptySet DEF Init, Idlers
<1>7. Drops
  BY <1>2 DEF Init, Q!Init, Drops, Owes
<1>8. Enough
  BY FS_EmptySet DEF Init, Q!Init, Enough
<1>9. QED
  BY <1>1, <1>4, <1>5, <1>6, <1>7, <1>8, InitInv DEF Inv

\* The pool's fields, the threads and the counters keep their types, and idlecnt
\* counts the workers outside a task.
THEOREM TypeCorrect == Spec => []TypeOK
<1>1. ASSUME Inv, Drops PROVE TypeOK
  <2>1. L!TypeOK
    BY <1>1, SameCardinality
    DEF Inv, PoolInv, LatchFirst, LatchInv, LatchTypes, L!TypeOK, L!Counted,
        L!Cardinality, Cardinality
  <2>2. Q!TypeOK
    BY <1>1, SameQueue DEF Inv, QueueSound
  <2>3. \A w \in Worker : call[w].op # "idle" => pc[w] \in {"popping", "adding"}
    BY <1>1, NobodyInTwoRoles DEF Inv, PoolInv, CallsInPlace
  <2>4. started \in [Task -> Nat] /\ reported \in [Task -> Nat]
    <3>1. started \in [Task -> {0, 1}] /\ reported \in [Task -> {0, 1}]
      BY <1>1 DEF Inv, Hands, Drops
    <3>2. QED
      BY <3>1
  <2>5. finished \subseteq Task
    BY <1>1 DEF Inv, Hands, QueueSound, QP!TypeOK
  <2>6. QED
    BY <1>1, <2>1, <2>2, <2>3, <2>4, <2>5
    DEF TypeOK, Inv, PoolInv, Lifetime, Hands, Ending, Idlers, Drops
<1>2. QED
  BY <1>1, InvInit, InvKept, DropsKept, PTL DEF Spec

\* When uninit has joined the workers nothing is in hand, and a pool that waits
\* for its tasks has emptied the queue.
LEMMA AtTheEnd ==
  ASSUME Inv, pc[Owner] = "gone"
  PROVE  taken = finished /\ (waiting => accepted \ dropped = finished)
<1>1. \A w \in Worker : pc[w] = "exited" /\ ~InHand(w)
  BY DEF Inv, PoolInv, Lifetime, InHand
<1>2. taken = finished
  BY <1>1 DEF Inv, Hands
<1>3. ASSUME waiting PROVE accepted \ dropped = finished
  <2>1. deque = <<>>
    BY <1>1, <1>3, ThrdPoolAssumption DEF Inv, Ending
  <2>2. QP!ToSet(deque) = {}
    BY <2>1 DEF QP!ToSet
  <2>3. QED
    BY <1>2, <2>2 DEF Inv, QueueSound, QP!ConsInv, QP!Conservation
<1>4. QED
  BY <1>2, <1>3

\* Each task is called at most once, and uninit returns when every task that was
\* taken has run: with wait_tasks, every task added and not displaced.
THEOREM AllTasksFinish == Spec => []TasksFinished
<1>1. ASSUME Inv PROVE TasksFinished
  <2>1. CalledOnce
    BY <1>1 DEF CalledOnce, Inv, Hands, QueueSound, QP!ConsInv, QP!Conservation
  <2>2. QED
    BY <1>1, <2>1, AtTheEnd DEF TasksFinished
<1>2. QED
  BY <1>1, InvInit, InvKept, PTL DEF Spec

\* Every task added is finished or reported when uninit has returned, never both,
\* and displacement does not starve the pool.
THEOREM AllTasksCounted == Spec => []TasksAccountedFor
<1>1. ASSUME Inv, Drops, Enough PROVE TasksAccountedFor
  <2> SUFFICES ASSUME pc[Owner] = "gone", WithDrop
               PROVE  /\ \A k \in Task :
                           /\ reported[k] <= 1
                           /\ reported[k] = 1 => k \in accepted \ finished
                           /\ waiting /\ k \in accepted => k \in finished \/ reported[k] = 1
                      /\ (waiting /\ full_policy \notin PushMayFail) =>
                           Cardinality(finished) >= MaxTasks \/ finished = accepted
    BY DEF TasksAccountedFor
  <2>1. taken = finished /\ (waiting => accepted \ dropped = finished)
    BY <1>1, AtTheEnd
  <2>2. /\ dropped \subseteq accepted /\ taken \cap dropped = {} /\ accepted \subseteq Task
    BY <1>1 DEF Inv, QueueSound, QP!ConsInv, QP!Conservation, QP!TypeOK
  <2>3. \A t \in Thread : ~Owes(t)
    <3>1. \A t \in Thread : pc[t] # "added"
      BY <1>1 DEF Inv, PoolInv, Lifetime, Thread
    <3>2. QED
      BY <3>1 DEF Owes
  <2>4. \A k \in Task : reported[k] \in {0, 1} /\ (reported[k] = 1 <=> k \in dropped)
    BY <1>1, <2>2, <2>3 DEF Drops
  <2>5. ASSUME waiting, full_policy \notin PushMayFail, finished # accepted
        PROVE  Cardinality(finished) >= MaxTasks
    <3>1. dropped # {}
      BY <2>1, <2>5
    <3>2. Len(deque) + Cardinality(taken) >= MaxTasks
      BY <1>1, <2>5, <3>1 DEF Enough
    <3>3. deque = <<>>
      BY <1>1, <2>5, ThrdPoolAssumption DEF Inv, Ending, PoolInv, Lifetime
    <3>4. Cardinality(taken) \in Nat /\ Len(deque) = 0
      BY <1>1, <3>3, FS_CardinalityType DEF Enough
    <3>5. QED
      BY <2>1, <3>2, <3>4
  <2>6. QED
    BY <2>1, <2>2, <2>4, <2>5
<1>2. QED
  BY <1>1, InvInit, InvKept, DropsKept, EnoughKept, PTL DEF Spec
=============================================================================
