------------------------------ MODULE BinReader ------------------------------
(***************************************************************************)
(* cra_bin_deserialize: the binary reader (cra_bin_ser.c).  The buffer is  *)
(* a sequence of bytes.  A value is a byte with its type in the upper four *)
(* bits and its size, or the value of a bool, in the lower four, and what  *)
(* the type asks for: the bytes of a number, a length and that many bytes, *)
(* a count and that many values.  The fields of a structure come with the  *)
(* ids of their members.                                                   *)
(*                                                                         *)
(* One action is one turn of a loop of the code: a field, a comparison of  *)
(* an id, an element, a value that is skipped.                             *)
(***************************************************************************)
EXTENDS Serializer

CONSTANT Width              \* bits of uint64_t and size_t: 64 in the code

ASSUME BinReaderAssumption == Width \in 8 .. 24

\* A varuint has at most as many bytes as it takes to shift by Width bits.
Groups == (Width + 6) \div 7

\* IS_ENOUGH; the sum is a size_t and wraps.
Enough(i, n) == (i + n) % (2 ^ Width) <= Len(buf)
Moved(i, n)  == (i + n) % (2 ^ Width)

LittleEndian(s) == SumFunction([k \in DOMAIN s |-> s[k] * 256 ^ (k - 1)])

\* __cra_bin_read_varuint: seven bits a byte, the low ones first, until a byte
\* without the high bit.  A failure for want of bytes has set the error, one for
\* too many has not.
Varuint(i) ==
  LET ends == {k \in 1 .. Groups : i + k <= Len(buf) /\ buf[i + k] < 128}
      n    == CHOOSE k \in ends : \A j \in ends : k <= j
      Bits(k) == (buf[i + k] % 128) * 128 ^ (k - 1)
  IN IF ends # {} THEN [err |-> "OK", val |-> SumFunction([k \in 1 .. n |-> Bits(k)]) % (2 ^ Width), index |-> i + n]
     ELSE [err |-> IF i + Groups > Len(buf) THEN "NOBUF" ELSE "OVERLONG", val |-> 0, index |-> i]

\* MUTANT: the signs are swapped.
ZigzagOdd(u) == IF u % 2 = 0 THEN -(u \div 2) ELSE (u \div 2) + 1

\* zigzag_u2i
Zigzag(u) == IF u % 2 = 0 THEN u \div 2 ELSE -(u \div 2) - 1

TypeAt(i) == buf[i + 1] \div 16
LowAt(i)  == buf[i + 1] % 16
-----------------------------------------------------------------------------
\* cra_bin_read_uint, read_float, read_varint, read_varuint: a number.
ReadFixed(meta, i) ==
  \/ LowAt(i) # meta.size /\ Error("SIZE_MISMATCH")
  \/ LowAt(i) = meta.size /\ ~Enough(i + 1, meta.size) /\ Error("NOBUF")
  \/ /\ LowAt(i) = meta.size /\ Enough(i + 1, meta.size)
     /\ Return(Cut(LittleEndian(SubSeq(buf, i + 2, i + 1 + meta.size)), meta), stack, i + 1 + meta.size, ser.nesting, Same)

ReadVar(meta, i) ==
  LET u == Varuint(i + 1) IN
  \/ u.err = "NOBUF" /\ Error("NOBUF")
  \/ u.err = "OVERLONG" /\ Error("INVALID_VAL")
  \/ /\ u.err = "OK"
     /\ Return(Cut(IF meta.type = "VARINT" THEN Zigzag(u.val) ELSE u.val, meta), stack, u.index, ser.nesting, Same)

\* cra_bin_read_string, read_bytes: a string has a zero at its end.
ReadString(meta, i) ==
  LET n    == Varuint(i + 1)
      room == n.val + (IF meta.type = "STRING" THEN 1 ELSE 0)
  IN \/ (n.err # "OK" \/ n.val > MaxLength) /\ Error("LENGTH")
     \/ n.err = "OK" /\ n.val <= MaxLength /\ ~meta.is_ptr /\ meta.size < room /\ Error("TOO_SMALL")
     \/ /\ n.err = "OK" /\ n.val <= MaxLength /\ (meta.is_ptr \/ meta.size >= room)
        /\ \E o \in Obtained(meta, Top.home) :
              \/ o.err # "OK" /\ Fail(o.err, o)
              \/ o.err = "OK" /\ ~Enough(n.index, n.val) /\ Fail("NOBUF", o)
              \/ /\ o.err = "OK" /\ Enough(n.index, n.val)
                 /\ Return(Pointed(meta, SubSeq(buf, n.index + 1, n.index + n.val)),
                           stack, n.index + n.val, ser.nesting, o)

\* cra_bin_read_struct, as far as its loop: the number of fields is read last.
OpenStruct(meta, home, i) ==
  \E o \in Obtained(meta, home) :
     \/ o.err # "OK" /\ Fail(o.err, o)
     \/ o.err = "OK" /\ ~Enough(i + 1, 1) /\ Fail("NOBUF", o)
     \/ /\ o.err = "OK" /\ Enough(i + 1, 1)
        /\ Enter(Frame("struct", meta, o.at, 0, buf[i + 2], Zeros(meta.sub), "next"), i + 2, o)

\* cra_bin_read_array, read_list, read_dict, as far as their loops: the count
\* comes first; a list and a dictionary get space for the element to be read.
OpenMany(kind, meta, home, i) ==
  LET n == Varuint(i + 1) IN
  \/ kind = "dict" /\ ~MayBeKey(meta.sub[1]) /\ Error("CANNOT_BE_KEY")
  \/ (n.err # "OK" \/ n.val > MaxLength) /\ Error("LENGTH")
  \/ n.err = "OK" /\ kind = "array" /\ ~meta.is_ptr /\ meta.size < n.val /\ Error("TOO_SMALL")
  \/ /\ n.err = "OK" /\ n.val <= MaxLength
     /\ kind = "dict" => MayBeKey(meta.sub[1])
     /\ kind = "array" /\ ~meta.is_ptr => meta.size >= n.val
     /\ \E o \in Obtained(meta, home) :
           \/ o.err # "OK" /\ Fail(o.err, o)
           \/ o.err = "OK" /\ kind # "array" /\ "malloc" \in Failing /\ Fail("ALLOC", o)
           \/ /\ o.err = "OK"
              /\ IF kind = "array"
                 THEN Enter(Frame(kind, meta, o.at, 0, n.val, <<>>, "next"), n.index, o)
                 ELSE Enter(Frame(kind, meta, o.at, Len(o.heap) + 1, n.val, <<>>, "next"), n.index,
                            [o EXCEPT !.heap = Append(@, "live")])

\* cra_bin_read_value: the type is compared with what the description says.
ReadValue(meta, home) ==
  LET i == ser.index
      deep == ser.nesting + 1 > MaxNesting
  IN
  \/ ~Enough(i, 1) /\ Error("NOBUF")
  \/ /\ Enough(i, 1) /\ TypeAt(i) = TypeCode["NULL"]
     /\ \/ ~MayBeNull(meta) /\ Error("CANNOT_BE_NULL")
        \/ MayBeNull(meta) /\ Return(<<>>, stack, i + 1, ser.nesting, Same)
  \/ Enough(i, 1) /\ TypeAt(i) \notin {TypeCode["NULL"], TypeCode[meta.type]} /\ Error("TYPE_MISMATCH")
  \/ /\ Enough(i, 1) /\ TypeAt(i) = TypeCode[meta.type]
     /\ \/ meta.type = "BOOL" /\ Return(LowAt(i) # 0, stack, i + 1, ser.nesting, Same)
        \/ meta.type \in {"INT", "UINT", "FLOAT"} /\ ReadFixed(meta, i)
        \/ meta.type \in {"VARINT", "VARUINT"} /\ ReadVar(meta, i)
        \/ meta.type \in {"STRING", "BYTES"} /\ ReadString(meta, i)
        \/ meta.type \in {"STRUCT", "LIST", "DICT"} /\ deep /\ Error("NESTING")
        \/ meta.type = "STRUCT" /\ ~deep /\ OpenStruct(meta, home, i)
        \/ meta.type = "LIST" /\ meta.iter /\ ~deep /\ OpenMany("list", meta, home, i)
        \/ meta.type = "LIST" /\ ~meta.iter /\ ~deep /\ OpenMany("array", meta, home, i)
        \/ meta.type = "DICT" /\ ~deep /\ OpenMany("dict", meta, home, i)
-----------------------------------------------------------------------------
\* The loop of read_struct: the id of the next field.
ReadId ==
  /\ Here("struct", "next") /\ Top.left > 0
  /\ \/ ~Enough(ser.index, 1) /\ Error("NOBUF")
     \/ /\ Enough(ser.index, 1)
        /\ SetTop([Top EXCEPT !.left = @ - 1, !.key = buf[ser.index + 1], !.last = Top.m, !.part = "match"])
        /\ ser' = [ser EXCEPT !.index = @ + 1]
        /\ UNCHANGED <<buf, heap, obj>>

MatchId == Match({m \in DOMAIN Top.meta.sub : Top.meta.sub[m].id = Top.key})

\* A member of a structure, or the object itself, is read in place; an element
\* of an array too, one of a list or a dictionary into the temporary.
ReadMember  == (Here("struct", "member") \/ Here("root", "member")) /\ ReadValue(Member(Top), Top.home)
ReadElement == Here("array", "next") /\ Top.left > 0 /\ ReadValue(Top.meta.sub[1], Top.home)
ReadItem    == Here("list", "next") /\ Top.left > 0 /\ ReadValue(Top.meta.sub[1], Top.temp)
ReadKey     == Here("dict", "next") /\ Top.left > 0 /\ ReadValue(Top.meta.sub[1], Top.temp)
ReadEntry   == Here("dict", "value") /\ ReadValue(Top.meta.sub[2], Top.temp)

\* The ends of read_struct, read_list, read_dict, which leave a level of nesting,
\* and of read_array, which does not.
CloseObject == /\ Here("struct", "next") \/ Here("list", "next") \/ Here("dict", "next")
               /\ Top.left = 0 /\ Close(1)
CloseArray == Here("array", "next") /\ Top.left = 0 /\ Close(0)
-----------------------------------------------------------------------------
\* cra_bin_skip_member: values to skip, each after an id if they are fields.
Skipping(n, part) == Frame("skip", [sub |-> <<>>], 1, 0, n, <<>>, part)

SkipMember ==
  /\ Here("struct", "skip")
  /\ stack' = Append(stack, Skipping(1, "value"))
  /\ UNCHANGED <<buf, ser, heap, obj>>

Skipped(index, inner) ==
  /\ stack' = Front(stack) \o <<[Top EXCEPT !.left = @ - 1]>> \o inner
  /\ ser' = [ser EXCEPT !.index = index]
  /\ UNCHANGED <<buf, heap, obj>>

\* MUTANT: bytes are skipped that may not be there.
OverUnchecked(i, n) == Skipped(Moved(i, n), <<>>)

Over(i, n) == \/ ~Enough(i, n) /\ Error("NOBUF")
              \/ Enough(i, n) /\ Skipped(Moved(i, n), <<>>)

\* A failure that sets no error: an unknown type, or a length of too many bytes.
SkipAt(i) ==
  LET t == TypeAt(i)
      n == Varuint(i + 1)
      ends == {k \in i + 2 .. Len(buf) : buf[k] < 128}
  IN
  \/ t \in {TypeCode["NULL"], TypeCode["BOOL"]} /\ Over(i, 1)
  \/ t \in {TypeCode["INT"], TypeCode["UINT"], TypeCode["FLOAT"]} /\ Over(i + 1, LowAt(i))
  \/ /\ t \in {TypeCode["VARINT"], TypeCode["VARUINT"]}
     /\ \/ ends = {} /\ Error("NOBUF")
        \/ ends # {} /\ Skipped(CHOOSE k \in ends : \A j \in ends : k <= j, <<>>)
  \/ /\ t = TypeCode["STRUCT"]
     /\ \/ ~Enough(i + 1, 1) /\ Error("NOBUF")
        \/ Enough(i + 1, 1) /\ Skipped(i + 2, <<Skipping(buf[i + 2], "id")>>)
  \/ /\ t \in {TypeCode["STRING"], TypeCode["BYTES"], TypeCode["LIST"], TypeCode["DICT"]}
     /\ \/ n.err = "NOBUF" /\ Error("NOBUF")
        \/ n.err = "OVERLONG" /\ Error("UNSET")
        \/ n.err = "OK" /\ t \in {TypeCode["STRING"], TypeCode["BYTES"]} /\ Over(n.index, n.val)
        \/ n.err = "OK" /\ t = TypeCode["LIST"] /\ Skipped(n.index, <<Skipping(n.val, "value")>>)
        \/ n.err = "OK" /\ t = TypeCode["DICT"] /\ Skipped(n.index, <<Skipping(2 * n.val, "value")>>)
  \/ t > TypeCode["DICT"] /\ Error("UNSET")

SkipValue ==
  /\ Running /\ Top.kind = "skip" /\ Top.left > 0
  /\ LET i == ser.index + (IF Top.part = "id" THEN 1 ELSE 0) IN
       \/ ~Enough(i, 1) /\ Error("NOBUF")
       \/ Enough(i, 1) /\ SkipAt(i)

SkipDone ==
  /\ Running /\ Top.kind = "skip" /\ Top.left = 0
  /\ LET below == stack[Len(stack) - 1] IN
       stack' = Append(Front(Front(stack)),
                       IF below.kind = "struct" THEN [below EXCEPT !.part = "next"] ELSE below)
  /\ UNCHANGED <<buf, ser, heap, obj>>
-----------------------------------------------------------------------------
Next == \/ ReadId \/ MatchId \/ ReadMember \/ ReadElement \/ ReadItem \/ ReadKey \/ ReadEntry
        \/ CloseObject \/ CloseArray
        \/ SkipMember \/ SkipValue \/ SkipDone
        \/ Finish \/ ReleaseOne
=============================================================================
