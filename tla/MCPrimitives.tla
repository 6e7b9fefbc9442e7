---------------------------- MODULE MCPrimitives ----------------------------
(***************************************************************************)
(* The small objects of the library that do not interact: references, the  *)
(* latch, the timer wheel, the memory tools and the arguments of a         *)
(* program.  A behaviour exercises one of them, and the others stay as     *)
(* they were made; the properties of each are checked on the behaviours it *)
(* takes part in.                                                          *)
(***************************************************************************)
EXTENDS WeakRef

CONSTANTS
  RefHandle, LatchThread, LatchCount,
  Timer, NoTimer, TickMs, WheelSize, Modulus, MaxLevel, Timeouts, Repeats, Infinite,
  Thread, Block, Sizes, NoBlock, MaxAllocs,
  ItemsPerBlock, InitBlock, DefaultCapacity, MaxBlocks,
  InitSize, HeadSize, Byte, HeadByte, Stale, MaxChunk, MaxSize,
  MaxElements, MaxArgs

VARIABLES
  which,                                                  \* the object that is used
  refCnt, refState, refLive, refAllocated,                \* of RefCnt
  count, condi, latch,                                    \* of CDL
  depth, current, bucket, active, repeat, timeout_ms,     \* of Timewheel
  phase, sweep, timer, free, nodes, inWheel, age, asked, fired,
  mem_list, nalloc, nfree, alloc_bytes, free_bytes, owned, call, refused,  \* of Malloc
  blocks, stack, capacity, used, lost, ended,             \* of MemPool
  data, size, ridx, widx, content, headed, got,           \* of Buffer
  parsing, table, items, argv, i, assigned, val, pos_args \* of MainArg

R == INSTANCE RefCnt WITH Handle <- RefHandle, cnt <- refCnt, state <- refState,
                          live <- refLive, allocated <- refAllocated
L == INSTANCE CDL WITH Thread <- LatchThread, Count <- LatchCount
T == INSTANCE Timewheel
M == INSTANCE Malloc
P == INSTANCE MemPool
B == INSTANCE Buffer
A == INSTANCE MainArg WITH phase <- parsing

ASSUME PrimitivesAssumption ==
  /\ R!RefCntAssumption
  /\ L!CDLAssumption
  /\ T!TimewheelAssumption /\ T!WheelsAssumption
  /\ M!MallocAssumption
  /\ P!MemPoolAssumption
  /\ B!BufferAssumption
  /\ A!MainArgAssumption

refVars   == <<refCnt, refState, refLive, refAllocated>>
latchVars == <<count, condi, latch>>
wheelVars == <<depth, current, bucket, active, repeat, timeout_ms,
               phase, sweep, timer, free, nodes, inWheel, age, asked, fired>>
allocVars == <<mem_list, nalloc, nfree, alloc_bytes, free_bytes, owned, call, refused>>
poolVars  == <<blocks, stack, capacity, used, lost, ended>>
bufVars   == <<data, size, ridx, widx, content, headed, got>>
argVars   == <<parsing, table, items, argv, i, assigned, val, pos_args>>
MCVars    == <<which, vars, refVars, latchVars, wheelVars, allocVars, poolVars, bufVars, argVars>>

\* Handles are alike, and one of them is the maker's.
FirstOf(handles) == CHOOSE h \in handles : TRUE

MCInit ==
  /\ which \in {"WeakRef", "RefCnt", "CDL", "Timewheel", "Malloc", "MemPool", "Buffer", "MainArg"}
  /\ Init /\ R!Init /\ state[FirstOf(Handle)] = "strong" /\ refState[FirstOf(RefHandle)] = "held"
  /\ L!Init /\ T!Init /\ M!Init /\ P!Init /\ B!Init /\ A!Init

MCNext ==
  \/ /\ which = "WeakRef" /\ Next
     /\ UNCHANGED <<which, refVars, latchVars, wheelVars, allocVars, poolVars, bufVars, argVars>>
  \/ /\ which = "RefCnt" /\ R!Next
     /\ UNCHANGED <<which, vars, latchVars, wheelVars, allocVars, poolVars, bufVars, argVars>>
  \/ /\ which = "CDL" /\ L!Next
     /\ UNCHANGED <<which, vars, refVars, wheelVars, allocVars, poolVars, bufVars, argVars>>
  \/ /\ which = "Timewheel" /\ T!Next
     /\ UNCHANGED <<which, vars, refVars, latchVars, allocVars, poolVars, bufVars, argVars>>
  \/ /\ which = "Malloc" /\ M!Next
     /\ UNCHANGED <<which, vars, refVars, latchVars, wheelVars, poolVars, bufVars, argVars>>
  \/ /\ which = "MemPool" /\ P!Next
     /\ UNCHANGED <<which, vars, refVars, latchVars, wheelVars, allocVars, bufVars, argVars>>
  \/ /\ which = "Buffer" /\ B!Next
     /\ UNCHANGED <<which, vars, refVars, latchVars, wheelVars, allocVars, poolVars, argVars>>
  \/ /\ which = "MainArg" /\ A!Next
     /\ UNCHANGED <<which, vars, refVars, latchVars, wheelVars, allocVars, poolVars, bufVars>>

MCSpec == /\ MCInit /\ [][MCNext]_MCVars
          /\ Fairness /\ R!Fairness /\ L!Fairness /\ T!Fairness
-----------------------------------------------------------------------------
\* The type invariants, and what the counters of references count.
TypesOK ==
  CASE which = "WeakRef" -> TypeOK /\ Counted
    [] which = "RefCnt" -> R!TypeOK
    [] which = "CDL" -> L!TypeOK
    [] which = "Timewheel" -> T!TypeOK
    [] OTHER -> TRUE

\* cra_ref_unref destroys and frees the object once, when nobody holds it.
PlainObjectSpec == R!ObjectSpec

\* cra_cdl_wait returns only after the count has been reached, and leaves nobody
\* blocked then.
LatchHolds == which = "CDL" => L!LatchHolds

\* The one broadcast of cra_cdl_count_down lets everybody through.
LatchOpens == L!WaitersPass

\* The timers in the wheels, when and how often they fire, and that a tick ends.
OnePlace     == which = "Timewheel" => T!OnePlace
FiresInTime  == T!FiresInTime
FiresAsAsked == T!FiresAsAsked
TickReturns  == T!TickReturns

\* The leak report of a debug build, the items of a pool, the bytes of a buffer
\* and the arguments of a program.
ReportIsRight == which = "Malloc" => M!ReportIsRight
PoolIsSound   == which = "MemPool" => P!PoolIsSound
BufferIsQueue == which = "Buffer" => B!BufferIsQueue
ArgsAreSorted == which = "MainArg" => A!ArgsAreSorted
=============================================================================
