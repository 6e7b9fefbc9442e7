SPECIFICATION MCSpec
CONSTANTS
  Handle = {h1, h2, h3, h4}
  NoHandle = NoHandle
  RefHandle = {r1, r2, r3}
  LatchThread = {t1, t2, t3, t4}
  LatchCount = 2
  Timer = {a, b}
  NoTimer = NoTimer
  TickMs = 2
  WheelSize = 2
  Modulus = 4096
  MaxLevel = 2
  Timeouts = {1, 4, 8}
  Repeats = {2, 3}
  Infinite = 3
  Thread = {u1, u2}
  Block = {b1, b2, b3}
  Sizes = {1, 3}
  NoBlock = NoBlock
  MaxAllocs = 2
  ItemsPerBlock = 2
  InitBlock = 1
  DefaultCapacity = 2
  MaxBlocks = 2
  InitSize = 1
  HeadSize = 2
  Byte = {x, y}
  HeadByte = head
  Stale = stale
  MaxChunk = 3
  MaxSize = 4
  MaxElements = 2
  MaxArgs = 3
INVARIANTS TypesOK HeadOutlivesUse LatchHolds OnePlace ReportIsRight PoolIsSound BufferIsQueue ArgsAreSorted
PROPERTIES NoResurrection ObjectSpec PlainObjectSpec LatchOpens  FiresAsAsked TickReturns
CHECK_DEADLOCK FALSE
