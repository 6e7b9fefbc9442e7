SPECIFICATION MCSpec
CONSTANTS
  MaxNesting = 4
  Nodes1 = 3
  MaxLength = 20
  Width = 16
  Failing = {}
  Shapes = {"ending"}
  Numbers = {1, 2, 3, 4, 8, 9, 300}
  FirstArray = 2
  Formats = {"binary"}
  Changes = {}
PROPERTY Ends
CHECK_DEADLOCK FALSE
