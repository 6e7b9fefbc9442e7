SPECIFICATION Spec
CONSTANTS
  Thread = {t1, t2, t3, t4}
  Val = {v1, v2, v3}
  NoVal = NoVal
  MaxCapacity = 1
  Policies = {"WAIT"}
  PushMayFail = {}
SYMMETRY Symmetry
INVARIANTS TypeOK NoLostSpace NoLostItem ClosedHalfIsFree
PROPERTY NothingEntersClosed
CHECK_DEADLOCK FALSE
