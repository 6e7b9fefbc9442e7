------------------------------ MODULE ThrdPool ------------------------------
(***************************************************************************)
(* CraThrdPool (src/src/threads/cra_thrdpool.c): an owner creates workers  *)
(* that take tasks from a blocking queue; the owner, client threads and    *)
(* the tasks themselves add tasks; the owner shuts the pool down.          *)
(*                                                                         *)
(* The task queue is a Blockdq whose values are the tasks and the latch    *)
(* that cra_thrdpool_init waits on is a CDL: every step that a thread takes*)
(* inside one of them is a step of that module.                            *)
(*                                                                         *)
(* pool->running is a plain bool that the workers read without a lock.  A  *)
(* stale read is a read that happened before the write: the owner's next   *)
(* step after the write is a critical section of the queue, and a worker   *)
(* that has gone through the queue's mutex later sees the write.           *)
(*                                                                         *)
(* An operator whose comment starts with MUTANT is no part of the model:   *)
(* it is a slip the code could have, which the runs must notice.           *)
(***************************************************************************)
EXTENDS Integers, Sequences, FiniteSets

CONSTANTS Worker,      \* the nthreads threads of the pool
          Client,      \* other threads that add tasks
          Owner,       \* the thread that calls init and uninit
          Task, NoTask,
          Adds,        \* Adds[k]: the task that task k adds while it runs, or NoTask
          MaxTasks,    \* max_tasks
          Policies, PushMayFail,
          WithDrop     \* tasks are added by cra_thrdpool_add_taskN_drop

ASSUME ThrdPoolAssumption ==
  /\ Worker # {} /\ IsFiniteSet(Worker) /\ IsFiniteSet(Client)
  /\ Worker \cap Client = {} /\ Owner \notin Worker \cup Client
  /\ NoTask \notin Task /\ MaxTasks \in Nat \ {0}
  /\ Policies \subseteq {"WAIT", "DROP_NEWEST", "DROP_OLDEST", "RETURN_FALSE"}
  /\ PushMayFail \subseteq Policies
  /\ Adds \in [Task -> Task \cup {NoTask}]
  /\ WithDrop \in BOOLEAN

Thread == Worker \cup Client \cup {Owner}

VARIABLES deque, en_colsed, de_colsed, full_policy, not_full, not_empty, call, result,
          accepted, taken, dropped            \* the task queue: Blockdq
VARIABLES count, condi, latch                 \* the latch of init: CDL
VARIABLES running, idlecnt,                   \* fields of CraThrdPool
          waiting,    \* the argument wait_tasks of cra_thrdpool_uninit
          freed,      \* taskque and workers have been freed
          pc,         \* where each thread is
          task,       \* the local `task` of each worker
          started,    \* history: how often each task was called
          finished,   \* history: the tasks that returned
          reported    \* history: how often drop_cb was called for a task

Q == INSTANCE Blockdq WITH Val <- Task, NoVal <- NoTask, MaxCapacity <- MaxTasks
L == INSTANCE CDL WITH Thread <- Worker \cup {Owner}, Count <- Cardinality(Worker)

queueVars == <<deque, en_colsed, de_colsed, full_policy, not_full, not_empty,
               call, result, accepted, taken, dropped>>
latchVars == <<count, condi, latch>>
work      == <<idlecnt, task, started, finished>>
vars      == <<queueVars, latchVars, running, waiting, freed, pc, work, reported>>

Go(t, from, to) == pc[t] = from /\ pc' = [pc EXCEPT ![t] = to]

(***************************************************************************)
(* cra_thrdpool_add_task*: push the task at the back of the queue, waiting *)
(* for room if need be, then tell drop_cb what the push displaced.         *)
(***************************************************************************)
\* The caller is in "adding" until the push returns, then in "added".
PushEnds(t) ==
  /\ pc' = [pc EXCEPT ![t] = IF call'[t].op = "idle" THEN "added" ELSE "adding"]
  /\ UNCHANGED <<latchVars, running, waiting, freed, work, reported>>

AddTask(t, k) == Q!Push(t, "back", k) /\ PushEnds(t)

AddResumes(t) == pc[t] = "adding" /\ Q!Resume(t) /\ PushEnds(t)

\* MUTANT: a displacement is reported only if the new task went in.
ReportedIfAdded(t) == WithDrop /\ result[t].ok /\ result[t].out # NoTask

\* drop_cb is called for a task that was displaced, whatever the push returned.
Reported(t) == WithDrop /\ result[t].out # NoTask

\* The add returns to the code that called it, at `to`.
AddReturns(t, to) ==
  /\ Go(t, "added", to)
  /\ reported' = IF Reported(t)
                   THEN [reported EXCEPT ![result[t].out] = @ + 1]
                   ELSE reported
  /\ UNCHANGED <<queueVars, latchVars, running, waiting, freed, work>>

(***************************************************************************)
(* cra_thrdpool_worker.                                                    *)
(***************************************************************************)
CountDown(w) ==
  /\ Go(w, "created", "loop")
  /\ L!CountDown(w)
  /\ UNCHANGED <<queueVars, running, waiting, freed, work, reported>>

TestRunning(w) ==
  /\ Go(w, "loop", IF running THEN "popping" ELSE "exited")
  /\ UNCHANGED <<queueVars, latchVars, running, waiting, freed, work, reported>>

\* MUTANT: a worker that took a task tests `running` again.
GoesOn(w) == IF result'[w].ok /\ running THEN "popped" ELSE "exited"

\* Where a pop that has returned leads.
AfterPop(w) == IF result'[w].ok THEN "popped" ELSE "exited"

\* Take the front task, waiting for one if need be; a pop that returns false
\* ends the worker.
PopTask(w) ==
  /\ pc[w] = "popping"
  /\ IF call[w].op = "idle" THEN Q!Pop(w, "front") ELSE Q!Resume(w)
  /\ IF call'[w].op # "idle"
       THEN UNCHANGED <<pc, task>>
       ELSE /\ pc' = [pc EXCEPT ![w] = AfterPop(w)]
            /\ task' = [task EXCEPT ![w] = result'[w].out]
  /\ UNCHANGED <<latchVars, running, waiting, freed, idlecnt, started, finished, reported>>

\* MUTANT: idlecnt is left alone.
StaysIdle == idlecnt' = idlecnt

\* cra_atomic_dec32(&pool->idlecnt)
LeavesIdle == idlecnt' = idlecnt - 1

\* Leave the idle workers and call the task's function, which adds a task of
\* its own or returns.
CallTask(w) ==
  /\ Go(w, "popped", IF Adds[task[w]] = NoTask THEN "returning" ELSE "adding")
  /\ LeavesIdle
  /\ started' = [started EXCEPT ![task[w]] = @ + 1]
  /\ UNCHANGED <<queueVars, latchVars, running, waiting, freed, task, finished, reported>>

TaskReturns(w) ==
  /\ Go(w, "returning", "loop")
  /\ idlecnt' = idlecnt + 1
  /\ finished' = finished \cup {task[w]}
  /\ UNCHANGED <<queueVars, latchVars, running, waiting, freed, task, started, reported>>

WorkerStep(w) == \/ CountDown(w)
                 \/ TestRunning(w)
                 \/ PopTask(w)
                 \/ CallTask(w)
                 \/ pc[w] = "adding" /\ AddTask(w, Adds[task[w]])
                 \/ AddResumes(w)
                 \/ AddReturns(w, "returning")
                 \/ TaskReturns(w)

(***************************************************************************)
(* cra_thrdpool_init: create the workers, then wait for the latch, which   *)
(* lives on the owner's stack and dies when init returns.                  *)
(***************************************************************************)
CreateWorker(w) ==
  /\ pc[Owner] = "creating"
  /\ Go(w, "absent", "created")
  /\ UNCHANGED <<queueVars, latchVars, running, waiting, freed, work, reported>>

\* MUTANT: init returns without waiting for the latch.
WaitForNobody ==
  /\ pc[Owner] = "creating"
  /\ \A w \in Worker : pc[w] # "absent"
  /\ pc' = [pc EXCEPT ![Owner] = "outside"]
  /\ UNCHANGED <<queueVars, latchVars, running, waiting, freed, work, reported>>

WaitForWorkers ==
  /\ pc[Owner] = "creating"
  /\ \A w \in Worker : pc[w] # "absent"
  /\ L!Wait(Owner)
  /\ pc' = [pc EXCEPT ![Owner] = IF latch'[Owner] = "through" THEN "outside" ELSE "creating"]
  /\ UNCHANGED <<queueVars, running, waiting, freed, work, reported>>

(***************************************************************************)
(* Adding from outside the pool.  Client calls stay within the pool's      *)
(* lifetime: they start after init has returned, and the owner calls       *)
(* uninit when no client is inside a call.                                 *)
(***************************************************************************)
\* Tasks that no task adds are the ones the owner and the clients add.
TopLevel == {k \in Task : \A j \in Task : Adds[j] # k}

OutsiderAdds(t) ==
  /\ pc[t] = "outside"
  /\ pc[Owner] \in {"outside", "adding", "added"}
  /\ \E k \in TopLevel : AddTask(t, k)

OutsiderStep(t) == AddResumes(t) \/ AddReturns(t, "outside")

(***************************************************************************)
(* cra_thrdpool_uninit.                                                    *)
(***************************************************************************)
\* MUTANT: the workers are told to stop in any case.
StopsAtOnce(wait_tasks) == running' = FALSE

\* pool->running is cleared unless all tasks are to be waited for.
MayStop(wait_tasks) == running' = wait_tasks

UninitBegins(wait_tasks) ==
  /\ \A c \in Client : pc[c] = "outside"
  /\ Go(Owner, "outside", "closing")
  /\ MayStop(wait_tasks)
  /\ waiting' = wait_tasks
  /\ UNCHANGED <<queueVars, latchVars, freed, work, reported>>

\* MUTANT: one half is left open.
ClosesForPoppers == {"DEQUEUE"}

\* cra_blockdq_close
Closes == {"ENQUEUE", "DEQUEUE"}

ShutdownQueue ==
  /\ pc[Owner] = "closing"
  /\ \/ Q!ShutdownEnter(Owner, Closes) /\ UNCHANGED pc
     \/ Q!ShutdownSection(Owner) /\ pc' = [pc EXCEPT ![Owner] = "joining"]
  /\ UNCHANGED <<latchVars, running, waiting, freed, work, reported>>

\* MUTANT: the queue is freed before the workers are joined.
NotJoined == TRUE

\* cra_thrd_join has returned for every worker.
Joined == \A w \in Worker : pc[w] = "exited"

JoinAndFree ==
  /\ Go(Owner, "joining", "gone")
  /\ Joined
  /\ freed' = TRUE
  /\ UNCHANGED <<queueVars, latchVars, running, waiting, work, reported>>

(***************************************************************************)
(* The behaviours.                                                         *)
(***************************************************************************)
SpuriousWakeup ==
  /\ \/ \E t \in Thread : Q!SpuriousWakeup(t) /\ UNCHANGED latchVars
     \/ L!SpuriousWakeup(Owner) /\ UNCHANGED queueVars
  /\ UNCHANGED <<running, waiting, freed, pc, work, reported>>

Init ==
  /\ Q!Init /\ L!Init
  /\ running = TRUE /\ waiting = TRUE
  /\ idlecnt = Cardinality(Worker)
  /\ freed = FALSE
  /\ pc = [t \in Thread |-> IF t \in Worker THEN "absent"
                            ELSE IF t = Owner THEN "creating" ELSE "outside"]
  /\ task = [w \in Worker |-> NoTask]
  /\ started = [k \in Task |-> 0]
  /\ finished = {}
  /\ reported = [k \in Task |-> 0]

Next ==
  \/ \E w \in Worker : CreateWorker(w) \/ WorkerStep(w)
  \/ WaitForWorkers
  \/ \E t \in Client \cup {Owner} : OutsiderAdds(t) \/ OutsiderStep(t)
  \/ \E wait_tasks \in BOOLEAN : UninitBegins(wait_tasks)
  \/ ShutdownQueue \/ JoinAndFree
  \/ SpuriousWakeup

\* Every thread that can run does, and a task that is called returns.  The
\* outside world may stop adding tasks and need not call uninit.
Fairness ==
  /\ \A w \in Worker : WF_vars(CreateWorker(w)) /\ WF_vars(WorkerStep(w))
  /\ WF_vars(WaitForWorkers)
  /\ \A t \in Client \cup {Owner} : WF_vars(OutsiderStep(t))
  /\ WF_vars(ShutdownQueue) /\ WF_vars(JoinAndFree)

Spec == Init /\ [][Next]_vars
FairSpec == Spec /\ Fairness
-----------------------------------------------------------------------------
(***************************************************************************)
(* What the pool guarantees.                                               *)
(***************************************************************************)
Places == {"absent", "created", "loop", "popping", "popped", "adding", "added",
           "returning", "exited", "creating", "outside", "closing", "joining", "gone"}

Busy == {w \in Worker : pc[w] \in {"adding", "added", "returning"}}

\* Type invariant; the counter idlecnt counts the workers outside a task, and
\* a worker is inside a call of the queue only where its code makes one.
TypeOK ==
  /\ Q!TypeOK /\ L!TypeOK
  /\ running \in BOOLEAN /\ waiting \in BOOLEAN /\ freed \in BOOLEAN
  /\ pc \in [Thread -> Places]
  /\ idlecnt = Cardinality(Worker) - Cardinality(Busy)
  /\ task \in [Worker -> Task \cup {NoTask}]
  /\ started \in [Task -> Nat] /\ reported \in [Task -> Nat]
  /\ finished \subseteq Task
  /\ \A w \in Worker : call[w].op # "idle" => pc[w] \in {"popping", "adding"}

\* A task function is called at most once, and only for a task whose add
\* returned true and that no push displaced: exactly the tasks the workers took.
CalledOnce ==
  \A k \in Task :
    /\ started[k] <= 1
    /\ started[k] = 1 => k \in taken /\ k \in accepted \ dropped

\* "Wait for all tasks to finish" (cra_thrdpool.h:42): no task is called twice,
\* or without having been accepted, and when cra_thrdpool_uninit has returned,
\* every task that a worker took off the queue has run to its end; with
\* wait_tasks that is every task added successfully and not displaced, tasks
\* added by tasks included.
TasksFinished ==
  /\ CalledOnce
  /\ pc[Owner] = "gone" =>
       /\ taken = finished
       /\ waiting => accepted \ dropped = finished

\* With cra_thrdpool_add_taskN_drop every task added is accounted for once at
\* the end: either it ran or drop_cb was called for it, never both and never
\* twice (test_thrpool.c: completed plus dropped is the number of tasks added).
\* And displacement never starves the pool: if no push ran out of memory, at
\* least max_tasks of the tasks added run (the test asserts it for both drop
\* policies).
TasksAccountedFor ==
  pc[Owner] = "gone" /\ WithDrop =>
    /\ \A k \in Task :
         /\ reported[k] <= 1
         /\ reported[k] = 1 => k \in accepted \ finished
         /\ waiting /\ k \in accepted => k \in finished \/ reported[k] = 1
    /\ (waiting /\ full_policy \notin PushMayFail) =>
         Cardinality(finished) >= MaxTasks \/ finished = accepted

\* No thread uses what is gone: not the queue, the pool or its worker record
\* after uninit freed them, wherever the shutdown met the workers; and not the
\* latch, which lives on the stack of cra_thrdpool_init, after init returned.
NoUseAfterFree ==
  /\ freed =>
       /\ \A w \in Worker : pc[w] = "exited"
       /\ \A t \in Thread : call[t].op = "idle"
  /\ pc[Owner] # "creating" => \A w \in Worker : latch[w] = "counted"

\* cra_thrdpool_init returns, and so does cra_thrdpool_uninit, whether workers
\* are waiting for a task, running one, or blocked adding one to a full queue.
OwnerReturns ==
  /\ pc[Owner] = "creating" ~> pc[Owner] = "outside"
  /\ pc[Owner] = "closing" ~> pc[Owner] = "gone"

\* While the pool is running, a task added successfully runs to its end unless
\* a later push displaces it, or all workers are adding tasks to a full queue:
\* that is a deadlock of the tasks, which only uninit ends.
AcceptedTasksRun ==
  \A k \in Task :
    k \in accepted ~> \/ k \in finished \cup dropped
                      \/ ~running
                      \/ \A w \in Worker : pc[w] = "adding"
=============================================================================
