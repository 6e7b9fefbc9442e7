SPECIFICATION MCSpec
CONSTANTS
  MaxNesting = 4
  Nodes1 = 3
  MaxLength = 20
  Width = 16
  Failing = {}
  Shapes = {"twice"}
  Numbers = {1, 2, 3, 4, 8, 9, 300}
  FirstArray = 2
  Formats = {"binary"}
  Changes = {}
INVARIANT IdsChecked
CHECK_DEADLOCK FALSE
