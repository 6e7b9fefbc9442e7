SPECIFICATION FairSpec
CONSTANTS
  k1 = k1
  k2 = k2
  k3 = k3
  k4 = k4
  k5 = k5
  Worker = {w1, w2}
  Client = {}
  Owner = o
  Task = {k1, k2, k3, k4, k5}
  NoTask = NoTask
  Adds <- NestedTasks
  MaxTasks = 1
  Policies = {"WAIT"}
  PushMayFail = {}
  WithDrop = FALSE
INVARIANTS TypeOK TasksFinished NoUseAfterFree
PROPERTIES OwnerReturns AcceptedTasksRun
CHECK_DEADLOCK FALSE
