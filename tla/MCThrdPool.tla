----------------------------- MODULE MCThrdPool -----------------------------
(***************************************************************************)
(* ThrdPool on small sets of workers and tasks.                            *)
(***************************************************************************)
EXTENDS ThrdPool, TLC

CONSTANTS k1, k2, k3, k4, k5

\* No task adds a task.
PlainTasks == [k \in Task |-> NoTask]

\* k1 adds k3 and k2 adds k4 while they run; k5 can fill the queue meanwhile.
NestedTasks == [k \in Task |-> IF k = k1 THEN k3 ELSE IF k = k2 THEN k4 ELSE NoTask]

\* Workers are alike.  (Sound for the safety properties only: the runs that
\* check liveness do not use it.)
Symmetry == Permutations(Worker)
=============================================================================
