------------------------------ MODULE BinWriter ------------------------------
(***************************************************************************)
(* cra_bin_serialize: the binary writer (cra_bin_ser.c), as a function of  *)
(* the value, its description and the length of the buffer.  A serializer  *)
(* is [out, nesting, err, maxlen]; after an error nothing changes it.      *)
(***************************************************************************)
EXTENDS Integers, Sequences, SequencesExt, Meta

CONSTANTS Width, MaxNesting, MaxLength

Serializer(maxlen) == [out |-> <<>>, nesting |-> 0, err |-> "OK", maxlen |-> maxlen]

Failed(s, err) == IF s.err = "OK" THEN [s EXCEPT !.err = err] ELSE s

\* CRA_SERIALIZER_ENSURE, and the bytes that are then stored.
Put(s, bytes) == CASE s.err # "OK" -> s
                   [] s.err = "OK" /\ Len(s.out) + Len(bytes) > s.maxlen -> Failed(s, "NOBUF")
                   [] OTHER -> [s EXCEPT !.out = @ \o bytes]

\* CRA_SERIALIZER_NESTING_INC_CHECK and DEC.
Enter(s) == IF s.nesting + 1 > MaxNesting THEN Failed(s, "NESTING") ELSE [s EXCEPT !.nesting = @ + 1]
Leave(s) == [s EXCEPT !.nesting = @ - 1]

Fixed(n, size) == LET u == Unsigned(n, size) IN [k \in 1 .. size |-> (u \div 256 ^ (k - 1)) % 256]

\* __cra_bin_write_varuint, and the zigzag coding of the sign.
Varuint(u) == LET n == CHOOSE k \in 1 .. Width : u < 128 ^ k /\ (k = 1 \/ u >= 128 ^ (k - 1))
              IN [k \in 1 .. n |-> ((u \div 128 ^ (k - 1)) % 128) + (IF k < n THEN 128 ELSE 0)]
Zigzag(i) == IF i >= 0 THEN 2 * i ELSE -(2 * i) - 1

\* __cra_bin_write_string; the count of an array, a list or a dictionary.
Count(s, n) == IF n > MaxLength THEN Failed(s, "LENGTH") ELSE Put(s, Varuint(n))
Chars(s, chars) == Put(Count(s, Len(chars)), chars)

\* cra_bin_write_value; n is the number that stands beside bytes and an array.
RECURSIVE WriteValue(_, _, _, _)

\* The members, each after its id; what holds a length is left out.
WriteStruct(s, v, meta) ==
  LET fields == SelectSeq([i \in DOMAIN meta.sub |-> i], LAMBDA i : ~meta.sub[i].is_len)
      Field(acc, i) == WriteValue(Put(acc, <<meta.sub[i].id>>), v[i],
                                  IF HasLength(meta.sub[i]) THEN v[i + 1] ELSE 0, meta.sub[i])
  IN Leave(FoldLeft(Field, Put(Enter(s), <<Len(fields)>>), fields))

\* The elements of an array are counted by the number beside it; the level of
\* nesting it opened stays.
WriteArray(s, v, n, meta) ==
  FoldLeft(LAMBDA acc, e : WriteValue(acc, e, 0, meta.sub[1]), Count(Enter(s), n), SubSeq(v, 1, n))

WriteList(s, v, meta) ==
  Leave(FoldLeft(LAMBDA acc, e : WriteValue(acc, e, 0, meta.sub[1]), Count(Enter(s), Len(v)), v))

WriteDict(s, v, meta) ==
  LET Pair(acc, kv) == WriteValue(WriteValue(acc, kv[1], 0, meta.sub[1]), kv[2], 0, meta.sub[2])
      open == IF MayBeKey(meta.sub[1]) THEN Enter(s) ELSE Failed(Enter(s), "CANNOT_BE_KEY")
  IN Leave(FoldLeft(Pair, Count(open, Len(v)), v))

WriteValue(s, val, n, meta) ==
  IF s.err # "OK" THEN s
  ELSE IF meta.is_ptr /\ val = <<>>
       THEN IF MayBeNull(meta) THEN Put(s, <<16 * TypeCode["NULL"]>>) ELSE Failed(s, "CANNOT_BE_NULL")
  ELSE LET v == Contents(meta, val)
           low == IF meta.type = "BOOL" THEN (IF v THEN 1 ELSE 0) ELSE meta.size % 16
           t == Put(s, <<16 * TypeCode[meta.type] + low>>)
       IN CASE meta.type = "BOOL" -> t
            [] meta.type \in {"INT", "UINT", "FLOAT"} -> Put(t, Fixed(v, meta.size))
            [] meta.type = "VARINT" -> Put(t, Varuint(Zigzag(v)))
            [] meta.type = "VARUINT" -> Put(t, Varuint(v))
            [] meta.type = "STRING" -> Chars(t, v)
            [] meta.type = "BYTES" -> Chars(t, SubSeq(v, 1, n))
            [] meta.type = "STRUCT" -> WriteStruct(t, v, meta)
            [] IsArray(meta) -> WriteArray(t, v, n, meta)
            [] meta.type = "LIST" /\ meta.iter -> WriteList(t, v, meta)
            [] meta.type = "DICT" -> WriteDict(t, v, meta)

\* cra_bin_serialize: an object is described by one record, or two if it is an
\* array.
Serialized(vals, metas, maxlen) ==
  WriteValue(Serializer(maxlen), vals[1], IF HasLength(metas[1]) THEN vals[2] ELSE 0, metas[1])
=============================================================================
