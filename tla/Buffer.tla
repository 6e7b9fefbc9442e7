------------------------------- MODULE Buffer -------------------------------
(***************************************************************************)
(* CraBuffer (cra_buffer.c, cra_buffer.h): bytes between a read and a      *)
(* write index, with room for a header right before the first of them.     *)
(* When there is no room behind the write index the bytes move to the      *)
(* front, or else the buffer grows.                                        *)
(*                                                                         *)
(* An operator whose comment starts with MUTANT is no part of the model:   *)
(* it is a slip the code could have, which the runs must notice.           *)
(***************************************************************************)
EXTENDS Integers, Sequences, SequencesExt

CONSTANTS InitSize, HeadSize,
          Byte, HeadByte, Stale,  \* what is appended; of a header; never written
          MaxChunk,         \* bytes in one call
          MaxSize           \* bounds the growth of the buffer

\* What the module needs of its constants; cra_buffer_init asserts init_size > 0.
BufferAssumption ==
  /\ InitSize \in Nat \ {0}
  /\ {HeadSize, MaxChunk, MaxSize} \subseteq Nat

VARIABLES data,             \* the memory, the room for the first header included
          size, ridx, widx,
          content,          \* history: the bytes that went in and have not come out
          headed,           \* history: the header was written, and no byte has moved since
          got               \* history: the last retrieve gave the bytes that went in first
vars == <<data, size, ridx, widx, content, headed, got>>

Readable == widx - ridx
Chunks   == UNION {[1 .. n -> Byte] : n \in 1 .. MaxChunk}
\* From the n-th byte behind the first header on.
Bytes(n, len) == SubSeq(data, HeadSize + n + 1, HeadSize + n + len)
\* Memory with the bytes s from the n-th cell on.
Written(mem, n, s) == [i \in DOMAIN mem |-> IF i \in n + 1 .. n + Len(s) THEN s[i - n] ELSE mem[i]]

Init ==
  /\ data = [i \in 1 .. InitSize + HeadSize |-> Stale]
  /\ size = InitSize /\ ridx = 0 /\ widx = 0
  /\ content = <<>> /\ headed = FALSE /\ got = TRUE
-----------------------------------------------------------------------------
\* cra_buffer_write_head: the header is behind the read index, over bytes that
\* have been read.
WriteHead ==
  /\ HeadSize > 0
  /\ data' = Written(data, ridx, [i \in 1 .. HeadSize |-> HeadByte])
  /\ headed' = TRUE
  /\ UNCHANGED <<size, ridx, widx, content, got>>

\* MUTANT: compaction from the start of the memory, the header included.
MovedWithoutHead == Written(data, 0, SubSeq(data, ridx + 1, ridx + Readable))

\* memmove of the readable bytes to the front.
MovedToFront == Written(data, HeadSize, Bytes(ridx, Readable))

Grown(new) == [i \in 1 .. new + HeadSize |-> IF i \in DOMAIN data THEN data[i] ELSE Stale]

\* cra_buffer_append
Room == size - widx
AppendFits(s) ==
  /\ Room >= Len(s)
  /\ data' = Written(data, HeadSize + widx, s)
  /\ widx' = widx + Len(s)
  /\ UNCHANGED <<size, ridx, headed>>
AppendMoves(s) ==
  /\ Room < Len(s) /\ Room + ridx >= Len(s)
  /\ data' = Written(MovedToFront, HeadSize + Readable, s)
  /\ widx' = Readable + Len(s) /\ ridx' = 0
  /\ headed' = FALSE
  /\ UNCHANGED size
AppendGrows(s) ==
  /\ Room + ridx < Len(s)
  /\ size' = IF widx + Len(s) > 2 * size THEN widx + Len(s) ELSE 2 * size
  /\ size' <= MaxSize
  /\ data' = Written(Grown(size'), HeadSize + widx, s)
  /\ widx' = widx + Len(s)
  /\ UNCHANGED <<ridx, headed>>
Append1 == /\ \E s \in Chunks : /\ AppendFits(s) \/ AppendMoves(s) \/ AppendGrows(s)
                                /\ content' = content \o s
           /\ UNCHANGED got

\* cra_buffer_append_size: the caller has put bytes behind the write index, and
\* says how many; more than there is room for are not believed.
AppendSize ==
  /\ \E s \in Chunks :
       LET n == IF Len(s) < Room THEN Len(s) ELSE Room IN
       /\ data' = Written(data, HeadSize + widx, SubSeq(s, 1, n))
       /\ widx' = widx + n
       /\ content' = content \o SubSeq(s, 1, n)
  /\ UNCHANGED <<size, ridx, headed, got>>

\* cra_buffer_retrieve, and retrieve_size, which only drops: when all has been
\* read both indices start again.
Retrieve ==
  /\ \E len \in 0 .. MaxChunk :
       LET n == IF len < Readable THEN len ELSE Readable IN
       /\ got' = (Bytes(ridx, n) = SubSeq(content, 1, n))
       /\ content' = SubSeq(content, n + 1, Len(content))
       /\ ridx' = IF len < Readable THEN ridx + n ELSE 0
       /\ widx' = IF len < Readable THEN widx ELSE 0
  /\ headed' = FALSE
  /\ UNCHANGED <<data, size>>

Reset ==
  /\ ridx' = 0 /\ widx' = 0 /\ content' = <<>> /\ headed' = FALSE
  /\ UNCHANGED <<data, size, got>>

Next == WriteHead \/ Append1 \/ AppendSize \/ Retrieve \/ Reset
Spec == Init /\ [][Next]_vars
-----------------------------------------------------------------------------
\* The buffer is a queue of bytes, through compaction and growth: what lies
\* between the indices is what went in and has not come out, and it comes out in
\* order; the indices stay inside the memory.  A header that was written is in
\* front of the content until bytes are read or moved.
BufferIsQueue ==
  /\ ridx \in 0 .. widx /\ widx \in 0 .. size /\ Len(data) = size + HeadSize
  /\ Bytes(ridx, Readable) = content
  /\ got
  /\ headed => SubSeq(data, ridx + 1, ridx + HeadSize) = [i \in 1 .. HeadSize |-> HeadByte]
=============================================================================
