SPECIFICATION MCSpec
CONSTANTS
  Kinds = {"Deque", "Dict", "LList", "AList"}
  Val = {1, 2}
  NoVal = NoVal
  Items = 4
  InitBlocks = 2
  DequeMax = 6
  DequeMayFail = {"temp"}
  k1 = k1
  k2 = k2
  k3 = k3
  Key = {k1, k2, k3}
  Hash <- Hashes
  Primes = {3, 7, 17, 37}
  MaxChain = 1
  InitCapacity = 1
  Requests = {1, 8}
  PopsAnywhere = FALSE
  MayFail = TRUE
  Elem = {1, 2, 3}
  Nodes = 4
  Spares = {0, 2}
  Shrinks = FALSE
  MinCapacity = 2
  Capacities = {1, 3, 6}
  ListMax = 4
INVARIANTS ContainersSound
PROPERTIES SequenceSpec MapSpec
CHECK_DEADLOCK FALSE
