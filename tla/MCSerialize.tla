----------------------------- MODULE MCSerialize -----------------------------
(***************************************************************************)
(* The writer and the reader together: a value of some shape is written,   *)
(* and what was written, or a part of it, is read with a description that  *)
(* may be another version of the one it was written with.                  *)
(***************************************************************************)
EXTENDS BinReader

VARIABLES shape,            \* the name of the descriptions in use
          format,           \* "binary", or JSON on one line or on many
          input,            \* all that was written, a part of it, or with a byte changed
          want              \* the value that was written, as the reader describes it, or the error

CONSTANTS Numbers, FirstArray,
          Shapes,           \* the names of those in use
          Formats,
          Changes           \* the bytes that come instead of another

MCVars == <<vars, shape, format, input, want>>

\* The writer may nest deeper and write more than the reader, which then refuses.
W  == INSTANCE BinWriter WITH MaxNesting <- MaxNesting + 1, MaxLength <- MaxLength + 1
JW == INSTANCE JsonWriter WITH MaxNesting <- MaxNesting + 1
J  == INSTANCE JsonReader

\* Descriptions.  Old knows fewer members than New, has them in another order,
\* and one that New lacks.
Inner == Scalar("VARUINT", 1, 1) \o String(2, TRUE, 1)
Flat  == Scalar("BOOL", 1, 1) \o Scalar("INT", 2, 2) \o Scalar("VARINT", 3, 2)
         \o Bytes(4, FALSE, 2) \o String(5, FALSE, 3) \o Scalar("UINT", 6, 1)
New   == Scalar("VARINT", 1, 2) \o String(2, TRUE, 1) \o Struct(3, TRUE, Inner, FALSE)
         \o List(4, FALSE, Struct(0, TRUE, Inner, FALSE), FALSE) \o Array(5, TRUE, 0, Scalar("INT", 0, 1))
         \o Dict(6, FALSE, String(0, TRUE, 1) \o Scalar("BOOL", 0, 1), FALSE) \o Scalar("FLOAT", 7, 1)
Old   == Array(5, FALSE, 2, Scalar("INT", 0, 1)) \o String(9, TRUE, 1) \o Scalar("VARINT", 1, 1)
         \o Scalar("FLOAT", 7, 1)
\* A list that is nested as deep as allowed, or deeper.
Deep(n) == LET d[k \in 0 .. n] == IF k = 0 THEN Scalar("BOOL", 0, 1) ELSE List(0, TRUE, d[k - 1], TRUE) IN d[n]
\* Containers that are taken down by an uninit.
Owning == List(1, FALSE, String(0, TRUE, 1), TRUE)
          \o Dict(2, FALSE, Scalar("UINT", 0, 1) \o Struct(0, TRUE, Inner, FALSE), TRUE)
          \o Struct(3, TRUE, Inner, TRUE)
\* An array that is the last member, before which an unknown one comes.
Ending == Scalar("UINT", 1, 1) \o Array(3, TRUE, 0, Scalar("UINT", 0, 1))
Other  == Scalar("UINT", 2, 1) \o Scalar("UINT", 1, 1)

\* Two fields with one id.
Twice  == Scalar("UINT", 9, 1) \o Scalar("BOOL", 9, 1)

Row(i) == Array(2 * i, TRUE, 0, Scalar("UINT", 0, 1))
Words  == String(1, FALSE, 7) \o String(2, TRUE, 1) \o Array(3, TRUE, 0, Scalar("INT", 0, 1)) \o Scalar("UINT", 5, 1)
Given  == Scalar("VARINT", 1, 2) \o String(2, FALSE, 6) \o Scalar("BOOL", 3, 1)

\* A description the reader has against another one the writer had.
Against(w, r) == [w |-> w, r |-> r]
Descriptions ==
  LET Same1(d) == Against(d, d)
      One(m)   == Struct(0, FALSE, m, FALSE) IN
  [flat |-> Same1(One(Flat)), version |-> Same1(Struct(0, TRUE, New, FALSE)),
   back |-> Against(Struct(0, TRUE, New, FALSE), Struct(0, TRUE, Old, FALSE)),
   deep |-> Same1(Deep(MaxNesting)), owning |-> Same1(One(Owning)), ending |-> Against(One(Other), One(Ending)),
   rows |-> Same1(One(Row(0) \o Row(1) \o Row(2) \o Row(3) \o Scalar("BOOL", 8, 1))),
   twice |-> Same1(One(Twice)),
   words |-> Same1(One(Words)), given |-> Same1(One(Given)),
   NESTING |-> Same1(Deep(MaxNesting + 1)),
   TYPE_MISMATCH |-> Against(One(Inner), One(String(1, FALSE, 3))),
   SIZE_MISMATCH |-> Against(One(Scalar("INT", 1, 2)), One(Scalar("INT", 1, 1))),
   TOO_SMALL |-> Against(One(Array(1, TRUE, 0, String(0, TRUE, 1))), 
                          One(Array(1, FALSE, 2, String(0, FALSE, 2)) \o Scalar("BOOL", 2, 1))),
   CANNOT_BE_NULL |-> Against(One(String(1, TRUE, 1)), One(String(1, FALSE, 2))),
   CANNOT_BE_KEY |-> Against(Dict(0, TRUE, Scalar("UINT", 0, 1) \o String(0, TRUE, 1), FALSE),
                             Dict(0, TRUE, One(Inner) \o String(0, TRUE, 1), FALSE)),
   LENGTH |-> Same1(One(String(1, TRUE, 1)))]
Written == [s \in Shapes |-> Descriptions[s].w]
Read    == [s \in Shapes |-> Descriptions[s].r]

Char(n) == IF format = "binary" THEN n ELSE IF n % 2 = 0 THEN "A" ELSE "c"
In(n)   == <<n, << <<Char(7)>> >> >>
Nested(n) == LET d[k \in 0 .. n] == IF k = 0 THEN TRUE ELSE <<<<d[k - 1]>>>> IN d[n]
Str(n)  == << <<Char(n)>> >>

Values(name) ==
  CASE name = "flat" -> {<<b, i, v, x, Len(x), s, 255>> : b \in BOOLEAN, i \in {-1, 300}, v \in {-64, 64, 9000},
                                                         x \in {<<>>, <<200, 0>>}, s \in {<<>>, <<5, 6>>}}
    [] name = "words" -> {<<s, p, <<a>>, Len(a), 300>> : s \in {<<>>, <<"A", "\n", "ctl", "\"", "c", "\\">>}, p \in {<<>>, << <<"ctl", "c">> >>},
                                                a \in {<<>>, <<-1, 2, -1, 8>>}}
    [] name \in {"version", "back"} ->
         {<<<<v, p, q, l, <<<<-1, 2>>>>, 2, d, 8>>>> :
             v \in {-300}, p \in {<<>>, << <<Char(1), Char(2)>> >>}, q \in {<<In(1)>>},
             l \in {<<>>, <<<<In(1)>>, <<In(2)>>>>}, d \in {<< <<Str(3), TRUE>>, <<Str(4), FALSE>> >>}}
         \cup {<<<<-300, <<>>, <<>>, <<>>, <<<<-1, 2>>>>, 2, <<>>, 8>>>>}
    [] name = "deep" -> {Nested(MaxNesting), << <<Nested(MaxNesting - 1), <<>>>> >>}
    [] name = "owning" -> {<<l, d, <<In(3)>>>> : l \in {<<>>, <<Str(1), <<>>>>}, d \in {<<>>, << <<9, <<In(2)>>>> >>}}
    [] name = "rows" -> {<<<<<<1>>>>, 1, <<<<>>>>, 0, <<<<2>>>>, 1, <<<<>>>>, 0, TRUE>>}
    [] name = "ending" -> {<<2, 1>>}
    [] name = "twice" -> {<<1, TRUE>>}
    [] name = "NESTING" -> {Nested(MaxNesting + 1)}
    [] name = "TYPE_MISMATCH" -> {In(1)}
    [] name = "SIZE_MISMATCH" -> {<<1>>}
    [] name = "TOO_SMALL" -> {<< <<<<Str(1), Str(1), Str(1)>>>>, 3>>, << << << << <<Char(1), Char(2)>> >> >> >>, 1>>}
    [] name = "CANNOT_BE_NULL" -> {<<<<>>>>}
    [] name = "CANNOT_BE_KEY" -> {<< << <<9, Str(1)>> >> >>}
    [] name = "LENGTH" -> {<< <<[i \in 1 .. MaxLength + 1 |-> 1]>> >>}

\* The error of a value that is refused.  Arrays side by side count as nested.
Refusal(name) == IF name = "rows" THEN "NESTING" ELSE IF name \in Errors THEN name ELSE "OK"

\* A value as the reader's description has it: members by their ids, those that
\* were not written zero.
RECURSIVE AsRead(_, _, _)
AsRead(v, w, r) ==
  IF Refusal(shape) # "OK" \/ (w.is_ptr /\ v = <<>>) THEN <<>>
  ELSE LET c == Contents(w, v)
           From(i) == {k \in DOMAIN w.sub : w.sub[k].id = r.sub[i].id /\ ~w.sub[k].is_len}
           Member2(i) == IF From(i) = {} THEN Zero(r.sub[i])
                         ELSE LET k == CHOOSE k \in From(i) : TRUE IN
                              IF r.sub[i].is_len THEN c[k + 1] ELSE AsRead(c[k], w.sub[k], r.sub[i])
       IN Pointed(r, CASE r.type \in {"INT", "UINT", "VARINT", "VARUINT", "FLOAT"} -> Cut(c, r)
                       [] r.type = "STRUCT" -> [i \in DOMAIN r.sub |-> Member2(i)]
                       [] r.type = "LIST" -> [i \in DOMAIN c |-> AsRead(c[i], w.sub[1], r.sub[1])]
                       [] r.type = "DICT" -> [i \in DOMAIN c |-> <<AsRead(c[i][1], w.sub[1], r.sub[1]),
                                                                   AsRead(c[i][2], w.sub[2], r.sub[2])>>]
                       [] OTHER -> c)
-----------------------------------------------------------------------------
\* JSON that another program may have written, and what is to be made of it.
Quoted(chars) == <<"\"">> \o chars \o <<"\"">>
Field(name, cells) == Quoted(<<name>>) \o <<":">> \o cells
Two == Field("A", <<"2">>)
Object(cells) == <<"{">> \o cells \o <<"}">>
Kept(n, chars, b) == [err |-> "OK", obj |-> <<<<n, chars, b>>>>]
No(err) == [err |-> err, obj |-> <<<<>>>>]
Texts ==
  {<<Object(<<"\n", "\t">> \o Quoted(<<"A">>) \o <<" ", ":", " ", "2", "\n", ",">> \o Field("k", <<"[", "1", ",", "{">> \o Two \o <<"}", "]", ",">>)
            \o Field("d", <<"true">>)), Kept(2, <<>>, TRUE)>>,
   <<Object(Field("k", <<"8", ",">>) \o Two), Kept(2, <<>>, FALSE)>>,
   <<Object(Two \o <<",">> \o Field("k", Object(Two))), Kept(2, <<>>, FALSE)>>,
   <<Object(Field("c", Quoted(<<"\\", "u", "xd83d", "\\", "u", "xde00", "\\", "/">>))), Kept(0, <<"emoji", "/">>, FALSE)>>,
   <<Object(Field("c", Quoted(<<"c", "\\", "n", "\\", "u", "x4e2d">>))), Kept(0, <<"c", "\n", "han">>, FALSE)>>,
   <<Object(Field("c", Quoted(<<"c", "A", "c", "A", "\\", "u", "x4e2d">>))), No("INVALID_VAL")>>,
   <<Object(Field("c", Quoted(<<"han", "\\", "u", "x0041">>))), Kept(0, <<"han", "A">>, FALSE)>>,
   <<Object(Field("c", Quoted(<<"\\", "u", "xde00">>))), No("INVALID_VAL")>>,
   <<Object(Field("c", Quoted(<<"\\", "A">>))), No("INVALID_VAL")>>,
   <<Object(Two \o <<",">>), No("INVALID_VAL")>>,
   <<Object(Quoted(<<"A">>) \o <<"2">>), No("INVALID_VAL")>>,
   <<Object(<<"2", ":", "2">>), No("TYPE_MISMATCH")>>,
   <<Object(Field("A", <<"c">>)), No("INVALID_VAL")>>,
   <<Object(<<>>), Kept(0, <<>>, FALSE)>>}
-----------------------------------------------------------------------------
MCInit ==
  /\ shape \in Shapes /\ format \in Formats
  /\ shape \in {"flat", "SIZE_MISMATCH", "LENGTH"} => format = "binary"
  /\ shape \in {"words", "given"} => format # "binary"
  /\ IF shape = "given"
     THEN \E t \in Texts : buf = Append(t[1], "zero") /\ want = t[2] /\ input = "whole"
     ELSE \E v \in Values(shape) :
            LET out == IF format = "binary" THEN W!Serialized(<<v>>, Written[shape], 1000).out
                       ELSE JW!Stringified(<<v>>, Written[shape], 1000, format = "lines").out
                \* a text has to end with its zero
                end == IF format = "binary" THEN <<>> ELSE <<"zero">>
                new == CASE format = "binary" -> Changes [] format = "line" -> {"}", "\"", "null"}
                         [] format = "lines" -> {}
            IN /\ want = [err |-> Refusal(shape), obj |-> <<AsRead(v, Written[shape][1], Read[shape][1])>>]
               /\ \/ buf = out /\ input = "whole"
                  \/ \E n \in 1 .. Len(out) - 1 - Len(end) : buf = SubSeq(out, 1, n) \o end /\ input = "part"
                  \/ /\ \E i \in 1 .. Len(out) - Len(end) : \E b \in new : buf = [out EXCEPT ![i] = b]
                     /\ input = "changed"
  /\ ser = SerInit
  /\ stack = <<Root(Read[shape])>>
  /\ heap = <<"live">>
  /\ obj = <<>>

MCNext == /\ \/ format = "binary" /\ Next
             \/ format # "binary" /\ J!Next
          /\ UNCHANGED <<shape, format, input, want>>
MCSpec == MCInit /\ [][MCNext]_MCVars /\ WF_MCVars(MCNext)
-----------------------------------------------------------------------------
\* cra_bin_deserialize, cra_json_parse: what was written is read back, member by
\* member, by any version of its description, with numbers cut to their
\* variables and members that were not written zero; a value that is nested too
\* deep, does not fit its variable or lacks its end is refused, and nothing else
\* is, unless memory ran out: but JSON that is a list and ends behind a comma is
\* taken for one that has its end.  A failure always sets the error.
EndsInComma == format # "binary" /\ Read[shape][1].type = "LIST" /\ Len(buf) > 1 /\ buf[Len(buf) - 1] = ","
ReadsBack ==
  Finished => /\ ser.err = "OK" => input # "part" \/ EndsInComma
              /\ ser.err = "OK" /\ input = "whole" => want.err = "OK" /\ obj = want.obj
              /\ input = "whole" => ser.err \in {"ALLOC", "ADD_FAILED", want.err}
              /\ input # "changed" => ser.err # "UNSET"

\* Every read comes to an end.
Ends == <>Finished

\* cra_check_id_unique returns -1 only if no two fields have the same id.
IdsChecked ==
  LET fields == SelectSeq(Read[shape][1].sub, LAMBDA meta : ~meta.is_len)
  IN check_id_unique(Read[shape][1].sub) = -1 => \A i, j \in DOMAIN fields : fields[i].id = fields[j].id => i = j
=============================================================================
