SPECIFICATION MCSpec
CONSTANTS
  MaxNesting = 4
  Nodes1 = 3
  MaxLength = 20
  Width = 16
  Failing = {"malloc", "append", "manager"}
  Shapes = {"flat", "version", "back", "deep", "owning", "rows", "words", "given", "NESTING", "TYPE_MISMATCH", "SIZE_MISMATCH", "TOO_SMALL", "CANNOT_BE_NULL", "CANNOT_BE_KEY", "LENGTH"}
  Numbers = {1, 2, 3, 4, 8, 9, 300}
  FirstArray = 2
  Formats = {"binary", "line", "lines"}
  Changes = {0, 127, 255}
INVARIANTS TypeOK FailedReadFreesAll 
PROPERTY Ends
CHECK_DEADLOCK FALSE
