SPECIFICATION MCSpec
CONSTANTS
  Kinds = {"Dict"}
  Val = {1, 2}
  NoVal = NoVal
  Items = 2
  InitBlocks = 2
  DequeMax = 3
  DequeMayFail = {}
  k1 = k1
  k2 = k2
  k3 = k3
  Key = {k1, k2, k3}
  Hash <- Hashes
  Primes = {3, 7, 17, 37}
  MaxChain = 1
  InitCapacity = 1
  Requests = {}
  PopsAnywhere = TRUE
  MayFail = FALSE
  Elem = {1, 2, 3}
  Nodes = 4
  Spares = {0, 2}
  Shrinks = FALSE
  MinCapacity = 2
  Capacities = {1, 3, 6}
  ListMax = 4
PROPERTY MapSpec
CHECK_DEADLOCK FALSE
