----------------------------- MODULE JsonWriter -----------------------------
(***************************************************************************)
(* cra_json_stringify: the JSON writer (cra_json.c), as a function of the  *)
(* value, its description and the length of the buffer.  A text is written *)
(* on one line or, if format is set, with every member and element on a    *)
(* line of its own, behind as many tabs as it is deep.                     *)
(***************************************************************************)
EXTENDS Integers, Sequences, SequencesExt, Meta, JsonText

CONSTANT MaxNesting

Serializer(maxlen, format) ==
  [out |-> <<>>, nesting |-> 0, err |-> "OK", maxlen |-> maxlen, format |-> format]

Failed(s, err) == IF s.err = "OK" THEN [s EXCEPT !.err = err] ELSE s

\* CRA_SERIALIZER_ENSURE_ keeps a place for the zero, which the next text takes.
Put(s, cells) == CASE s.err # "OK" -> s
                   [] s.err = "OK" /\ Len(s.out) + Len(cells) + 1 > s.maxlen -> Failed(s, "NOBUF")
                   [] OTHER -> [s EXCEPT !.out = @ \o cells]

Enter(s, open) == IF s.nesting + 1 > MaxNesting THEN Failed(s, "NESTING")
                  ELSE Put([s EXCEPT !.nesting = @ + 1], <<open>>)

\* cra_json_write_comma, write_finish: a line starts with tabs if format is set.
Line(s)         == IF s.format THEN <<"\n">> \o [i \in 1 .. s.nesting |-> "\t"] ELSE <<>>
Comma(s, first) == Put(s, (IF first THEN <<>> ELSE <<",">>) \o Line(s))
Empty(s, ch)    == [Put(s, <<ch>>) EXCEPT !.nesting = @ - 1]
Finish(s, ch)   == LET out == [s EXCEPT !.nesting = @ - 1] IN Put(out, Line(out) \o <<ch>>)
Colon(s)        == Put(s, IF s.format THEN <<":", " ">> ELSE <<":">>)

\* cra_json_write_string: a char is signed, so that every byte of a character
\* that is not ASCII is below 0x20.
Escape(c) == CASE Escaped(c) -> <<"\\", CHOOSE l \in DOMAIN Letter : Letter[l] = c>>
               [] c = "ctl" -> <<"\\", "u", "x0001">>
               [] Octets(c) > 1 -> FlattenSeq([i \in 1 .. Octets(c) |-> <<"\\", "u", "xffff">>])
               [] OTHER -> <<c>>
Text(chars) == <<Quote>> \o FlattenSeq([i \in DOMAIN chars |-> Escape(chars[i])]) \o <<Quote>>

RECURSIVE WriteValue(_, _, _, _)

\* cra_json_write_key: a key that is not a string stands in quotes.
WriteKey(s, v, meta) ==
  IF ~MayBeKey(meta) THEN Failed(s, "CANNOT_BE_KEY")
  ELSE IF meta.type = "STRING" THEN WriteValue(s, v, 0, meta)
  ELSE Put(WriteValue(Put(s, <<Quote>>), v, 0, meta), <<Quote>>)

\* cra_json_write_struct, write_array, write_list, write_dict.
WriteStruct(s, v, meta) ==
  LET fields == SelectSeq([i \in DOMAIN meta.sub |-> i], LAMBDA i : ~meta.sub[i].is_len)
      Field(acc, k) ==
        LET i == fields[k] IN
        WriteValue(Colon(Put(Comma(acc, k = 1), Text(Name(meta.sub[i])))), v[i],
                   IF HasLength(meta.sub[i]) THEN v[i + 1] ELSE 0, meta.sub[i])
  IN Finish(FoldLeft(Field, Enter(s, "{"), [k \in DOMAIN fields |-> k]), "}")

WriteList(s, v, meta) ==
  IF v = <<>> THEN Empty(Enter(s, "["), "]")
  ELSE Finish(FoldLeft(LAMBDA acc, k : WriteValue(Comma(acc, k = 1), v[k], 0, meta.sub[1]),
                       Enter(s, "["), [k \in DOMAIN v |-> k]), "]")

WriteDict(s, v, meta) ==
  LET Pair(acc, k) == WriteValue(Colon(WriteKey(Comma(acc, k = 1), v[k][1], meta.sub[1])),
                                 v[k][2], 0, meta.sub[2])
  IN IF v = <<>> THEN Empty(Enter(s, "{"), "}")
     ELSE Finish(FoldLeft(Pair, Enter(s, "{"), [k \in DOMAIN v |-> k]), "}")

\* cra_json_write_value.
WriteValue(s, val, n, meta) ==
  IF s.err # "OK" THEN s
  ELSE IF meta.is_ptr /\ val = <<>>
       THEN IF MayBeNull(meta) THEN Put(s, <<"null">>) ELSE Failed(s, "CANNOT_BE_NULL")
  ELSE LET v == Contents(meta, val) IN
       CASE meta.type = "BOOL" -> Put(s, <<IF v THEN "true" ELSE "false">>)
         [] meta.type \in {"INT", "UINT", "VARINT", "VARUINT", "FLOAT"} -> Put(s, <<Numeral(v)>>)
         [] meta.type = "STRING" -> Put(s, Text(v))
         [] meta.type = "STRUCT" -> WriteStruct(s, v, meta)
         [] IsArray(meta) -> WriteList(s, SubSeq(v, 1, n), meta)
         [] meta.type = "LIST" /\ meta.iter -> WriteList(s, v, meta)
         [] meta.type = "DICT" -> WriteDict(s, v, meta)

\* cra_json_stringify
Stringified(vals, metas, maxlen, format) ==
  LET s == WriteValue(Serializer(maxlen, format), vals[1], IF HasLength(metas[1]) THEN vals[2] ELSE 0, metas[1])
  IN [s EXCEPT !.out = Append(@, End)]
=============================================================================
