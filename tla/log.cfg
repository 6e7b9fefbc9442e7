SPECIFICATION FairSpec
CONSTANTS
  a = a
  b = b
  c = c
  Logger = {a, b, c}
  Main = a
  Overlap = FALSE
  NoBuf = NoBuf
  Lens <- MCLens
  LineMax = 3
  FileMax = 2
  BufSize = 2
  BufMaxCnt = 3
  BufInitCnt = 1
INVARIANTS TypeOK   UninitAsserts
PROPERTY CloseReturns
