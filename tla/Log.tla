-------------------------------- MODULE Log --------------------------------
(***************************************************************************)
(* Logging to files (src/src/cra_log.c).  Messages are gathered in a       *)
(* buffer per logger; a full buffer goes to the list buffers1, and a       *)
(* writer thread takes that list, writes its buffers and gives them back   *)
(* to a pool.  The first logger starts the writer, and the close of the    *)
(* last one stops it, waits for it and takes everything down.              *)
(*                                                                         *)
(* What is done under the mutex is one step.  The condition variable is    *)
(* left out: the writer waits with a timeout, so it may wake at any time.  *)
(* The program stops when it cannot start the writer.  A message is its    *)
(* number; what is opened again under the same name is a new logger, once  *)
(* the old one is freed.  cra_log_config is called right after the open,   *)
(* or not at all: FileMax is what file_size_max is from then on.           *)
(*                                                                         *)
(* An operator whose comment starts with MUTANT is no part of the model:   *)
(* it is a slip the code could have, which the runs must notice.           *)
(***************************************************************************)
EXTENDS Integers, Sequences, FiniteSets, FiniteSetsExt, SequencesExt

CONSTANTS Logger,
          Main,      \* unless Overlap, the logger that is opened first and
          Overlap,   \* closed last, with no other call meanwhile
          NoBuf,
          Lens,      \* the lengths of the messages each logger is given, in order
          LineMax,   \* CRA_LOG_LINE_MAX
          FileMax,
          BufSize, BufMaxCnt, BufInitCnt   \* CRA_LOG_BUF_...

ASSUME LogAssumption ==
  /\ IsFiniteSet(Logger) /\ Main \in Logger /\ Overlap \in BOOLEAN
  /\ NoBuf \notin Seq(Nat)
  /\ Lens \in [Logger -> Seq(Nat \ {0})]
  /\ LineMax \in Nat \ {0, 1} /\ BufSize \in Nat /\ LineMax - 1 <= BufSize /\ FileMax \in Nat /\ BufSize <= FileMax
  /\ BufInitCnt \in Nat /\ BufMaxCnt \in Nat /\ BufInitCnt <= BufMaxCnt

VARIABLES pc,            \* where the thread that opens and closes a logger is
          refcnt, index, buffer,    \* fields of the loggers
          said,          \* how many messages a logger was given
          accepted,      \* history: those that were not dropped
          file,          \* what the writer did with the rest: fp and file_size_cur, and
                         \* (history) the files, and what was lost for want of one
          running, initialized, alloc_buf_cnt,
          loggers, buffers1, buffers2,
          buf_pool,      \* how many buffers the pool holds
          freed,         \* history: how many the writer freed when it stopped
          writer         \* where the writer thread is

logger == <<pc, refcnt, index, buffer, said, accepted>>
bufs   == <<alloc_buf_cnt, buf_pool, freed>>
flags  == <<running, initialized>>
lists  == <<loggers, buffers1, buffers2>>
vars   == <<logger, file, bufs, flags, lists, writer>>

\* The mutex, the lists and the pool can be used.
Ready == initialized /\ \A l \in Logger : pc[l] # "setup"

At(l, here) == pc[l] = here
Goto(l, there) == pc' = [pc EXCEPT ![l] = there]
SpinLockFree == \A l \in Logger : ~At(l, "setup")

(***************************************************************************)
(* Buffers.                                                                *)
(***************************************************************************)
\* MUTANT: vsnprintf returns the length the whole message would have.
WholeLine(n) == n

\* cra_log_msg: a message that is too long for its line is cut, and ends in dots.
Line(n) == IF n >= LineMax THEN LineMax - 1 ELSE n

LengthOf(l, msgs) ==
  FoldLeft(LAMBDA n, len : n + len, 0, [i \in DOMAIN msgs |-> Line(Lens[l][msgs[i]])])

\* cra_log_output_async_get_buf, called for each of a sequence of loggers: the
\* set of those who may get one.  The pool serves first; malloc may fail.
Served(asking) ==
  {given \in SUBSET ToSet(asking) :
     /\ \A i \in 1 .. Min({Len(asking), buf_pool}) : asking[i] \in given
     /\ Cardinality(given) <= buf_pool + BufMaxCnt - alloc_buf_cnt}

Give(asking, given) ==
  LET pooled == Min({Len(asking), buf_pool})
  IN  /\ buf_pool' = buf_pool - pooled
      /\ alloc_buf_cnt' = alloc_buf_cnt + Cardinality(given) - pooled
      /\ UNCHANGED freed

\* The loggers whose buffer holds something, in the order of the list.
Holding == FlattenSeq([i \in DOMAIN loggers |->
                     IF buffer[loggers[i]] \in {NoBuf, << >>} THEN << >> ELSE <<loggers[i]>>])

Filled(asking) == [i \in DOMAIN asking |-> [log |-> asking[i], msgs |-> buffer[asking[i]]]]

\* MUTANT: a buffer that waits does not keep its logger.
NoRef(asking) == UNCHANGED refcnt

\* cra_log_ref, once for each.
Ref(asking) == refcnt' = [l \in Logger |-> refcnt[l] + IF l \in ToSet(asking) THEN 1 ELSE 0]

\* The buffers of a sequence of loggers go to buffers1, each with a reference.
Queue(asking) == buffers1' = buffers1 \o Filled(asking) /\ Ref(asking)

(***************************************************************************)
(* Files.  Parts are what went to a file, or was lost, in order.           *)
(***************************************************************************)
NoFile == [fp |-> FALSE, cur |-> 0, parts |-> << >>]

\* MUTANT: the size of the old file is counted on.
KeepsSize(f, opens) ==
  IF opens THEN [f EXCEPT !.fp = TRUE, !.parts = Append(@, [lost |-> FALSE, msgs |-> << >>])] ELSE [f EXCEPT !.fp = FALSE]

\* cra_log_output_async_roll_file: the old file is closed; the new one may not open.
Rolled(f, opens) ==
  IF opens THEN [fp |-> TRUE, cur |-> 0, parts |-> Append(f.parts, [lost |-> FALSE, msgs |-> << >>])]
           ELSE [f EXCEPT !.fp = FALSE]

\* cra_log_output_async_write_to_file: a new file if there is none or the day is
\* another, and after the write if one of this length more would be too much.
\* Without a file the messages are dropped.
WrittenTo(f, msgs, len, newDay, opens, opensNext) ==
  LET now  == IF ~f.fp \/ newDay THEN Rolled(f, opens) ELSE f
      more == [now EXCEPT !.cur = @ + len, !.parts[Len(now.parts)].msgs = @ \o msgs]
  IN CASE ~now.fp -> [now EXCEPT !.parts = Append(@, [lost |-> TRUE, msgs |-> msgs])]
       [] now.fp /\ more.cur + len > FileMax -> Rolled(more, opensNext)
       [] OTHER -> more

(***************************************************************************)
(* cra_log_open.                                                           *)
(***************************************************************************)
Open(l) ==
  /\ At(l, "closed") /\ refcnt[l] = 0
  /\ Overlap \/ (IF l = Main THEN \A k \in Logger : At(k, "closed") ELSE At(Main, "open"))
  /\ Goto(l, IF initialized THEN "add" ELSE "init")
  /\ refcnt' = [refcnt EXCEPT ![l] = 1]
  /\ index' = [index EXCEPT ![l] = 0]
  /\ said' = [said EXCEPT ![l] = 0]
  /\ accepted' = [accepted EXCEPT ![l] = << >>]
  /\ file' = [file EXCEPT ![l] = NoFile]
  /\ UNCHANGED <<buffer, bufs, flags, lists, writer>>

\* Under the spin lock: cra_log_output_async_init sets its flags first.
InitFlags(l) ==
  /\ At(l, "init") /\ SpinLockFree
  /\ IF initialized
       THEN Goto(l, "add") /\ UNCHANGED <<flags, alloc_buf_cnt>>
       ELSE /\ Goto(l, "setup")
            /\ running' = TRUE /\ initialized' = TRUE
            /\ alloc_buf_cnt' = BufInitCnt
  /\ UNCHANGED <<refcnt, index, buffer, said, accepted, file, buf_pool, freed, lists, writer>>

\* The mutex, the lists, the buffers and the thread are made; the lock is given back.
InitRest(l) ==
  /\ At(l, "setup")
  /\ Goto(l, "add")
  /\ loggers' = << >> /\ buffers1' = << >> /\ buffers2' = << >>
  /\ buf_pool' = alloc_buf_cnt /\ freed' = 0
  /\ writer' = "check"
  /\ UNCHANGED <<refcnt, index, buffer, said, accepted, file, alloc_buf_cnt, flags>>

\* The rest of cra_log_output_async_add_logger; what it does with a mutex that
\* is not there is undefined.
AddLogger(l) ==
  /\ At(l, "add")
  /\ Goto(l, IF Ready THEN "open" ELSE "undefined")
  /\ refcnt' = [refcnt EXCEPT ![l] = @ + 1]
  /\ \E given \in Served(<<l>>) :
       /\ Give(<<l>>, given)
       /\ buffer' = [buffer EXCEPT ![l] = IF l \in given THEN << >> ELSE NoBuf]
  /\ index' = [index EXCEPT ![l] = Len(loggers)]
  /\ loggers' = Append(loggers, l)
  /\ UNCHANGED <<said, accepted, file, flags, buffers1, buffers2, writer>>

(***************************************************************************)
(* cra_log_msg.  Any thread may call it while the logger is open.          *)
(***************************************************************************)
\* MUTANT: the buffer takes one message too many.
NearlyFits(l, m) == LengthOf(l, buffer[l]) < BufSize

Fits(l, m) == LengthOf(l, buffer[l]) + Line(Lens[l][m]) <= BufSize

\* get_new_buf and copy_msg; without a buffer the message is dropped.
ToNewBuffer(l, m) ==
  \E given \in Served(<<l>>) :
    /\ Give(<<l>>, given)
    /\ buffer' = [buffer EXCEPT ![l] = IF l \in given THEN <<m>> ELSE NoBuf]
    /\ accepted' = [accepted EXCEPT ![l] = IF l \in given THEN Append(@, m) ELSE @]

AppendMsg(l) ==
  LET m == said[l] + 1
  IN  /\ At(l, "open") /\ m \in DOMAIN Lens[l]
      /\ said' = [said EXCEPT ![l] = m]
      /\ IF ~running
           THEN UNCHANGED <<refcnt, buffer, accepted, bufs, buffers1>>
         ELSE IF buffer[l] = NoBuf
           THEN ToNewBuffer(l, m) /\ UNCHANGED <<refcnt, buffers1>>
         ELSE IF ~Fits(l, m)
           THEN Queue(<<l>>) /\ ToNewBuffer(l, m)
         ELSE /\ buffer' = [buffer EXCEPT ![l] = Append(@, m)]
              /\ accepted' = [accepted EXCEPT ![l] = Append(@, m)]
              /\ UNCHANGED <<refcnt, bufs, buffers1>>
      /\ UNCHANGED <<pc, index, file, flags, loggers, buffers2, writer>>

(***************************************************************************)
(* cra_log_close.                                                          *)
(***************************************************************************)
\* MUTANT: the logger that moves keeps its old index.
MovesBlindly(l) ==
  /\ loggers' = IF Last(loggers) = l THEN Front(loggers)
                ELSE [Front(loggers) EXCEPT ![index[l] + 1] = Last(loggers)]
  /\ UNCHANGED index

\* The last logger of the list takes the place of the one that leaves.
Unlist(l) ==
  /\ loggers' = IF Last(loggers) = l THEN Front(loggers)
                ELSE [Front(loggers) EXCEPT ![index[l] + 1] = Last(loggers)]
  /\ index' = [index EXCEPT ![Last(loggers)] = index[l]]

\* MUTANT: what is in the buffer is given up with it.
ForgetsRest(l) ==
  /\ IF buffer[l] = NoBuf THEN UNCHANGED buf_pool ELSE buf_pool' = buf_pool + 1
  /\ UNCHANGED <<alloc_buf_cnt, freed, buffers1, refcnt>>

\* A buffer with nothing in it goes back to the pool.
GiveUpBuffer(l) ==
  IF buffer[l] = << >>
    THEN buf_pool' = buf_pool + 1 /\ UNCHANGED <<alloc_buf_cnt, freed, buffers1, refcnt>>
    ELSE Queue(IF buffer[l] = NoBuf THEN << >> ELSE <<l>>) /\ UNCHANGED bufs

\* The mutex section of cra_log_output_async_del_logger.
Close(l) ==
  /\ At(l, "open")
  /\ Overlap \/ l # Main \/ \A k \in Logger \ {Main} : At(k, "closed")
  /\ IF running
       THEN /\ Unlist(l)
            /\ GiveUpBuffer(l)
            /\ buffer' = [buffer EXCEPT ![l] = NoBuf]
            /\ running' = (loggers' # << >>)
            /\ Goto(l, IF running' THEN "deleted" ELSE "joining")
            /\ UNCHANGED <<initialized, buffers2>>
       ELSE Goto(l, "undefined") /\ UNCHANGED <<refcnt, index, buffer, bufs, flags, lists>>
  /\ UNCHANGED <<said, accepted, file, writer>>

\* What cra_log_output_async_uninit asserts.
NothingLeft ==
  /\ ~running /\ initialized
  /\ loggers = << >> /\ buffers1 = << >> /\ buffers2 = << >>

\* cra_thrd_join returns, and cra_log_output_async_uninit follows.
JoinAndUninit(l) ==
  /\ At(l, "joining") /\ writer = "done"
  /\ Goto(l, IF NothingLeft THEN "deleted" ELSE "undefined")
  /\ initialized' = FALSE
  /\ alloc_buf_cnt' = 0 /\ buf_pool' = 0 /\ freed' = 0
  /\ writer' = "none"
  /\ UNCHANGED <<refcnt, index, buffer, said, accepted, file, running, lists>>

\* cra_log_unref, at the end of del_logger and of cra_log_close.
Unref(l) ==
  /\ \/ At(l, "deleted") /\ Goto(l, "closing")
     \/ At(l, "closing") /\ Goto(l, "closed")
  /\ refcnt' = [refcnt EXCEPT ![l] = @ - 1]
  /\ UNCHANGED <<index, buffer, said, accepted, file, bufs, flags, lists, writer>>

(***************************************************************************)
(* The writer thread.                                                      *)
(***************************************************************************)
WriterChecks ==
  /\ writer = "check"
  /\ writer' = IF running THEN "lock" ELSE "stopping"
  /\ UNCHANGED <<logger, file, bufs, flags, lists>>

\* MUTANT: the writer waits although it was told to stop.
WaitsForMore(b1) == b1 = << >>

\* The condition of the inner loop.
MustWait(b1) == b1 = << >> /\ running

\* The inner loop goes on, or ends and the lists are swapped.
WaitOrSwap(b1) ==
  IF MustWait(b1)
    THEN writer' = "waiting" /\ buffers1' = b1 /\ UNCHANGED buffers2
    ELSE writer' = "drain" /\ buffers1' = buffers2 /\ buffers2' = b1

WriterLocks ==
  /\ writer = "lock"
  /\ WaitOrSwap(buffers1)
  /\ UNCHANGED <<logger, file, bufs, flags, loggers>>

\* A signal or the timeout: the buffers that hold something are collected.
WriterWakes ==
  /\ writer = "waiting"
  /\ LET asking == Holding
     IN  /\ WaitOrSwap(buffers1 \o Filled(asking))
         /\ Ref(asking)
         /\ \E given \in Served(asking) :
              /\ Give(asking, given)
              /\ buffer' = [l \in Logger |-> IF l \notin ToSet(asking) THEN buffer[l]
                                             ELSE IF l \in given THEN << >> ELSE NoBuf]
  /\ UNCHANGED <<pc, index, said, accepted, file, flags, loggers>>

\* cra_log_output_async_write_to_file and cra_log_unref.
WriteOut(buf) ==
  /\ \E newDay, opens, opensNext \in BOOLEAN :
       file' = [file EXCEPT ![buf.log] =
                  WrittenTo(@, buf.msgs, LengthOf(buf.log, buf.msgs), newDay, opens, opensNext)]
  /\ refcnt' = [refcnt EXCEPT ![buf.log] = @ - 1]

WriterWrites ==
  /\ writer = "drain" /\ buffers2 # << >>
  /\ WriteOut(Head(buffers2))
  /\ buffers2' = Tail(buffers2)
  /\ writer' = "put"
  /\ UNCHANGED <<pc, index, buffer, said, accepted, bufs, flags, loggers, buffers1>>

WriterPuts ==
  /\ writer = "put"
  /\ buf_pool' = buf_pool + 1
  /\ writer' = "drain"
  /\ UNCHANGED <<logger, file, alloc_buf_cnt, freed, flags, lists>>

WriterDrained ==
  /\ writer = "drain" /\ buffers2 = << >>
  /\ writer' = "check"
  /\ UNCHANGED <<logger, file, bufs, flags, lists>>

\* MUTANT: the writer returns at once when it is told to stop.
NothingRemains == TRUE

\* What came while the writer was writing has been written too.
AllWritten == buffers1 = << >>

WriterStops ==
  /\ writer = "stopping"
  /\ IF AllWritten
       THEN writer' = "done" /\ UNCHANGED <<logger, file, freed, buffers1>>
       ELSE /\ WriteOut(Head(buffers1))
            /\ buffers1' = Tail(buffers1)
            /\ freed' = freed + 1
            /\ UNCHANGED <<pc, index, buffer, said, accepted, writer>>
  /\ UNCHANGED <<alloc_buf_cnt, buf_pool, flags, loggers, buffers2>>

(***************************************************************************)
(* The behaviours.  Nothing more is said once the program has done         *)
(* something undefined or failed an assertion.                             *)
(***************************************************************************)
Init ==
  /\ pc = [l \in Logger |-> "closed"]
  /\ refcnt = [l \in Logger |-> 0] /\ index = [l \in Logger |-> 0]
  /\ buffer = [l \in Logger |-> NoBuf]
  /\ said = [l \in Logger |-> 0] /\ accepted = [l \in Logger |-> << >>]
  /\ file = [l \in Logger |-> NoFile]
  /\ running = FALSE /\ initialized = FALSE
  /\ alloc_buf_cnt = 0 /\ buf_pool = 0 /\ freed = 0
  /\ loggers = << >> /\ buffers1 = << >> /\ buffers2 = << >>
  /\ writer = "none"

Writer == \/ WriterChecks \/ WriterLocks \/ WriterWakes \/ WriterWrites
          \/ WriterPuts \/ WriterDrained \/ WriterStops

GoesOn(l) == InitFlags(l) \/ InitRest(l) \/ AddLogger(l) \/ JoinAndUninit(l) \/ Unref(l)

Next == /\ \A l \in Logger : ~At(l, "undefined")
        /\ \/ \E l \in Logger : Open(l) \/ AppendMsg(l) \/ Close(l) \/ GoesOn(l)
           \/ Writer

Spec == Init /\ [][Next]_vars

\* The writer runs, its wait ends after CRA_LOG_OUTPUT_INTERVAL at the latest,
\* and a call of cra_log_open or cra_log_close goes on.
FairSpec == Spec /\ WF_vars(Writer) /\ \A l \in Logger : WF_vars(GoesOn(l))
-----------------------------------------------------------------------------
\* The messages of a logger in a sequence of buffers.
MsgsIn(queue, l) == FlattenSeq([i \in DOMAIN queue |->
                              IF queue[i].log = l THEN queue[i].msgs ELSE << >>])

\* The messages of a logger that are on their way to its file, in their order.
OnTheWay(l) == MsgsIn(buffers2 \o buffers1, l) \o IF buffer[l] = NoBuf THEN << >> ELSE buffer[l]

\* How many buffers of a logger wait for the writer.
Waiting(l) == Cardinality({i \in DOMAIN buffers1 : buffers1[i].log = l})
              + Cardinality({i \in DOMAIN buffers2 : buffers2[i].log = l})

\* What the thread of a logger holds: the reference of cra_log_open, and that of
\* the list until del_logger ends.
OwnRefs(l) == CASE pc[l] = "closed" -> 0
                [] pc[l] \in {"open", "joining", "deleted"} -> 2
                [] OTHER -> 1

\* Type invariant; the flags move together, and no buffer is overfull.
TypeOK ==
  /\ pc \in [Logger -> {"closed", "init", "setup", "add", "open", "joining", "deleted", "closing"}]
  /\ refcnt \in [Logger -> Nat] /\ index \in [Logger -> 0 .. Cardinality(Logger) - 1]
  /\ \A l \in Logger : said[l] \in 0 .. Len(Lens[l])
  /\ running \in BOOLEAN /\ initialized \in BOOLEAN /\ (running => initialized)
  /\ writer \in {"none", "check", "lock", "waiting", "drain", "put", "stopping", "done"}
  /\ \A b \in ToSet(buffers1 \o buffers2) : b.log \in Logger /\ LengthOf(b.log, b.msgs) \in 1 .. BufSize
  /\ \A l \in Logger : buffer[l] # NoBuf => LengthOf(l, buffer[l]) <= BufSize

\* What the writer has dealt with, in order.
Dealt(l) == FlattenSeq([i \in DOMAIN file[l].parts |-> file[l].parts[i].msgs])

\* A message that was put into a buffer is in a file of its logger, lost because
\* the file did not open, or on the way, once and in the order of the calls;
\* nothing is on the way once the logger is freed or the writer is gone, so close
\* loses nothing.  A file is as long as file_size_cur says, and longer than
\* file_size_max by less than a buffer.
NothingLost ==
  \A l \in Logger :
    /\ Dealt(l) \o OnTheWay(l) = accepted[l]
    /\ refcnt[l] = 0 \/ writer = "none" => OnTheWay(l) = << >>
    /\ LET parts == file[l].parts IN
         /\ file[l].fp => ~Last(parts).lost /\ file[l].cur = LengthOf(l, Last(parts).msgs)
         /\ \A i \in DOMAIN parts : LengthOf(l, parts[i].msgs) < FileMax + BufSize

\* The references of a logger are those of its thread and of the buffers that
\* wait for the writer, so it is there when the writer uses it, and is freed,
\* inactive and without a buffer, when the last of them goes.
RefsCount ==
  \A l \in Logger :
    /\ refcnt[l] = OwnRefs(l) + Waiting(l)
    /\ buffer[l] # NoBuf => At(l, "open")

\* The references are right, the list holds the open loggers, each at its index,
\* and every buffer that was allocated is in the pool, with a logger, in a list,
\* with the writer, or freed.
BooksBalance ==
  /\ RefsCount
  /\ Ready => /\ ToSet(loggers) = {l \in Logger : At(l, "open")}
              /\ \A i \in DOMAIN loggers : index[loggers[i]] = i - 1
  /\ Ready => alloc_buf_cnt = buf_pool + Cardinality({l \in Logger : buffer[l] # NoBuf})
                              + Len(buffers1) + Len(buffers2) + freed
                              + IF writer = "put" THEN 1 ELSE 0
  /\ alloc_buf_cnt <= BufMaxCnt

\* The assertions of cra_log_output_async_uninit: when the writer has been
\* joined there is no logger and no buffer left.
UninitAsserts ==
  \A l \in Logger : At(l, "joining") /\ writer = "done" => NothingLeft

\* The close of the last logger stops the writer, and returns.
CloseReturns == \A l \in Logger : At(l, "joining") ~> At(l, "closed")
=============================================================================
