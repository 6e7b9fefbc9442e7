----------------------------- MODULE JsonReader -----------------------------
(***************************************************************************)
(* cra_json_parse: the JSON reader (cra_json.c) over the cells of JsonText.*)
(* It shares the serializer, the release manager and the search for a      *)
(* member with the binary reader; members go by their names.  One action   *)
(* is one part of a turn of a loop: a key, the search, a value, what comes *)
(* after it, or one character of a value that is skipped.                  *)
(***************************************************************************)
EXTENDS Serializer, JsonText

CONSTANT FirstArray         \* places an array starts with: 8

Enough(i, n) == i + n <= Len(buf)
At(i)        == buf[i + 1]

\* Where the code asks for sizeof("X"): a character and the zero behind it.
IsMore(i)    == Enough(i, 2)

\* cra_json_skip_whitespaces, cra_json_check_ch.
SkipWhite(i) ==
  LET skip[j \in i .. Len(buf)] == IF j < Len(buf) /\ At(j) \in White THEN skip[j + 1] ELSE j IN skip[i]
IsNext(i, ch) == LET j == SkipWhite(i) IN IsMore(j) /\ At(j) = ch
After(i)      == SkipWhite(i) + 1
Missing(i)    == IF IsMore(SkipWhite(i)) THEN "INVALID_VAL" ELSE "NOBUF"
-----------------------------------------------------------------------------
\* MUTANT: a quote after a backslash closes the string.
ClosingAtQuote(i) ==
  LET scan[j \in i .. Len(buf) + 1] ==
        CASE j >= Len(buf) -> [at |-> -1, escapes |-> 0]
          [] j < Len(buf) /\ At(j) = Quote -> [at |-> j, escapes |-> 0]
          [] j < Len(buf) /\ At(j) = "\\" -> LET s == scan[j + 1] IN [s EXCEPT !.escapes = @ + 1]
          [] OTHER -> scan[j + 1]
  IN scan[i]

\* cra_json_read_string: the closing quote is the first that no backslash is
\* before; escapes counts the backslashes.
Closing(i) ==
  LET scan[j \in i .. Len(buf) + 1] ==
        CASE j >= Len(buf) -> [at |-> -1, escapes |-> 0]
          [] j < Len(buf) /\ At(j) = Quote -> [at |-> j, escapes |-> 0]
          [] j < Len(buf) /\ At(j) = "\\" -> LET s == scan[j + 2] IN [s EXCEPT !.escapes = @ + 1]
          [] OTHER -> scan[j + 1]
  IN scan[i]

\* The characters from the k-th of raw on, as long as there is room for them and
\* the zero.  An escape of a character that two stand for is only known at the
\* start of a string: the code looks for the second one there.
RECURSIVE Unescape(_, _, _, _)
Unescape(raw, k, room, chars) ==
  LET Bad(err) == [err |-> err, val |-> <<>>]
      Is(j, c) == j <= Len(raw) /\ raw[j] = c
      Point(j) == IF j <= Len(raw) /\ IsHex(raw[j]) THEN raw[j] ELSE "none"
      high == Point(k + 2) \in High
      char == IF high THEN "emoji" ELSE CodePoint[Point(k + 2)]
  IN CASE k > Len(raw) -> [err |-> "OK", val |-> chars]
       [] k <= Len(raw) /\ room <= Octets(raw[k]) -> Bad("TOO_SMALL")
       [] k <= Len(raw) /\ room > Octets(raw[k]) /\ raw[k] # "\\" ->
            Unescape(raw, k + 1, room - Octets(raw[k]), Append(chars, raw[k]))
       [] \E l \in DOMAIN Letters : Is(k + 1, l) ->
            Unescape(raw, k + 2, room - 1, Append(chars, Letters[raw[k + 1]]))
       [] Is(k + 1, "u") ->
            IF \/ Point(k + 2) \in {"none"} \cup Low
               \/ high /\ ~(Is(1, "\\") /\ Is(2, "u") /\ Point(k + 5) \in Low)
               \/ room < Octets(char)
            THEN Bad("INVALID_VAL")
            ELSE Unescape(raw, k + (IF high THEN 6 ELSE 3), room - Octets(char), Append(chars, char))
       [] OTHER -> Bad("INVALID_VAL")

\* The string whose quote is at i, for a variable of the given size.  There have
\* to be three characters.
StringAt(i, meta) ==
  LET end == Closing(i + 1)
      raw == SubSeq(buf, i + 2, end.at)
      len == Size(raw) - end.escapes
      room == IF meta.is_ptr THEN len + 1 ELSE meta.size
      plain == IF room <= len THEN [err |-> "TOO_SMALL", val |-> <<>>] ELSE [err |-> "OK", val |-> raw]
  IN IF end.at = -1
     THEN [err |-> IF Enough(i, 3) THEN "INVALID_VAL" ELSE "NOBUF", val |-> <<>>, index |-> i]
     ELSE (IF end.escapes = 0 THEN plain ELSE Unescape(raw, 1, room, <<>>)) @@ [index |-> end.at + 1]

ReadString(meta, home, i) ==
  LET s == StringAt(i, meta) IN
  \/ Closing(i + 1).at = -1 /\ Error(s.err)
  \/ /\ Closing(i + 1).at # -1
     /\ \E o \in Obtained(meta, home) :
           \/ o.err # "OK" /\ Fail(o.err, o)
           \/ o.err = "OK" /\ s.err # "OK" /\ Fail(s.err, o)
           \/ o.err = "OK" /\ s.err = "OK" /\ Return(Pointed(meta, s.val), stack, s.index, ser.nesting, o)
-----------------------------------------------------------------------------
\* cra_json_read_struct, read_list, read_dict, as far as their loops: the object
\* is made, and may be empty.
OpenObject(kind, meta, home, i, close) ==
  \E o \in Obtained(meta, home) :
     \/ o.err # "OK" /\ Fail(o.err, o)
     \/ /\ o.err = "OK"
        /\ LET zero == IF kind = "struct" THEN Zeros(meta.sub) ELSE <<>>
               more == IF kind = "list" THEN "element" ELSE "key"
           IN \/ IsNext(i, close) /\ Enter(Frame(kind, meta, o.at, 0, 0, zero, "close"), After(i), o)
              \/ /\ ~IsNext(i, close) /\ kind = "struct"
                 /\ Enter(Frame(kind, meta, o.at, 0, 0, zero, more), SkipWhite(i), o)
              \/ /\ ~IsNext(i, close) /\ kind # "struct"
                 /\ \/ "malloc" \in Failing /\ Fail("ALLOC", o)
                    \/ Enter(Frame(kind, meta, o.at, Len(o.heap) + 1, 0, zero, more), SkipWhite(i),
                             [o EXCEPT !.heap = Append(@, "live")])

\* cra_json_read_array, as far as its loop: an array that is a pointer is not
\* noted before it has been read; left is the room for elements.
OpenArray(meta, home, i) ==
  LET part == IF IsNext(i, "]") THEN "close" ELSE "element"
      at   == IF IsNext(i, "]") THEN After(i) ELSE SkipWhite(i)
  IN \/ ~meta.is_ptr /\ Enter(Frame("array", meta, home, 0, meta.size, <<>>, part), at, Same)
     \/ meta.is_ptr /\ "malloc" \in Failing /\ Error("ALLOC")
     \/ /\ meta.is_ptr
        /\ Enter(Frame("array", meta, Len(heap) + 1, Len(heap) + 1, FirstArray, <<>>, part), at,
                 [Same EXCEPT !.heap = Append(@, "live")])

\* cra_json_read_value, at i.
ReadValue(meta, home, i) ==
  LET c      == At(i)
      deep   == ser.nesting + 1 > MaxNesting
      number == meta.type \in {"INT", "UINT", "VARINT", "VARUINT", "FLOAT"}
      type   == CASE c \in {"true", "false"} -> meta.type = "BOOL"
                  [] c = Quote -> meta.type = "STRING"
                  [] c = "{" -> meta.type \in {"STRUCT", "DICT"}
                  [] c = "[" -> meta.type = "LIST"
                  [] OTHER -> number
      Done(v) == Return(v, stack, i + 1, ser.nesting, Same)
  IN
  \/ ~IsMore(i) /\ Error("NOBUF")
  \/ /\ IsMore(i) /\ c = "null"
     /\ \/ ~MayBeNull(meta) /\ Error("CANNOT_BE_NULL")
        \/ MayBeNull(meta) /\ Done(<<>>)
  \/ IsMore(i) /\ c # "null" /\ ~(c \in {"true", "false", Quote, "{", "["} \/ IsNumeral(c)) /\ Error("INVALID_VAL")
  \/ IsMore(i) /\ (c \in {"true", "false", Quote, "{", "["} \/ IsNumeral(c)) /\ ~type /\ Error("TYPE_MISMATCH")
  \/ /\ IsMore(i) /\ c # "null" /\ type
     /\ \/ c \in {"true", "false"} /\ Done(c = "true")
        \/ IsNumeral(c) /\ Done(IF meta.type = "FLOAT" THEN Value[c] ELSE Cut(Value[c], meta))
        \/ c = Quote /\ ReadString(meta, home, i)
        \/ c \in {"{", "["} /\ deep /\ Error("NESTING")
        \/ c = "{" /\ meta.type = "STRUCT" /\ ~deep /\ OpenObject("struct", meta, home, i + 1, "}")
        \/ c = "{" /\ meta.type = "DICT" /\ ~deep /\ OpenObject("dict", meta, home, i + 1, "}")
        \/ c = "[" /\ meta.iter /\ ~deep /\ OpenObject("list", meta, home, i + 1, "]")
        \/ c = "[" /\ ~meta.iter /\ ~deep /\ OpenArray(meta, home, i + 1)
-----------------------------------------------------------------------------
\* The loops of read_list and read_array end when the text does, and if that is
\* right behind a comma, take what has been read for all of it.
GoesOn == Top.val = <<>> \/ IsMore(ser.index)
TextEnds == /\ Here("list", "element") \/ Here("array", "element")
            /\ ~GoesOn
            /\ SetTop([Top EXCEPT !.part = "close"])
            /\ UNCHANGED <<buf, ser, heap, obj>>

\* The object itself, behind white space; a member; an element.
ReadRoot   == Here("root", "member") /\ ReadValue(Member(Top), 1, SkipWhite(0))
ReadMember == Here("struct", "member") /\ ReadValue(Member(Top), Top.home, ser.index)
ReadItem   == Here("list", "element") /\ GoesOn /\ ReadValue(Top.meta.sub[1], Top.temp, SkipWhite(ser.index))

\* An array that is full grows by half, and moves or not; one that is a part of
\* its structure cannot.
ReadElement ==
  /\ Here("array", "element") /\ GoesOn /\ Top.left > 0
  /\ ReadValue(Top.meta.sub[1], Top.home, SkipWhite(ser.index))
ArrayIsFull == Here("array", "element") /\ GoesOn /\ Top.left = 0 /\ ~Top.meta.is_ptr /\ Error("TOO_SMALL")
GrowArray ==
  /\ Here("array", "element") /\ GoesOn /\ Top.left = 0 /\ Top.meta.is_ptr
  /\ LET more == Len(Top.val) \div 2
         old  == Top.home
     IN \/ /\ "malloc" \in Failing
           /\ FailFrom(Append(Front(stack), [Top EXCEPT !.temp = 0]), "ALLOC", [Same EXCEPT !.heap = Freed(heap, old)])
        \/ SetTop([Top EXCEPT !.left = more]) /\ UNCHANGED <<buf, ser, heap, obj>>
        \/ /\ SetTop([Top EXCEPT !.left = more, !.home = Len(heap) + 1, !.temp = Len(heap) + 1])
           /\ heap' = Append(Freed(heap, old), "live")
           /\ UNCHANGED <<buf, ser, obj>>

\* cra_json_read_key for a member: a string and a colon.
KeyMeta == String(0, FALSE, 256)[1]
ReadName ==
  /\ Here("struct", "key")
  /\ LET i == SkipWhite(ser.index)
         s == StringAt(i, KeyMeta)
         wrong == CASE ~IsMore(i) -> "NOBUF"
                    [] IsMore(i) /\ At(i) = "null" -> "CANNOT_BE_NULL"
                    [] IsMore(i) /\ (At(i) \in {"true", "false", "{", "["} \/ IsNumeral(At(i))) -> "TYPE_MISMATCH"
                    [] OTHER -> "INVALID_VAL"
     IN \/ ~IsNext(i, Quote) /\ Error(wrong)
        \/ IsNext(i, Quote) /\ s.err # "OK" /\ Error(s.err)
        \/ IsNext(i, Quote) /\ s.err = "OK" /\ ~IsNext(s.index, ":") /\ Error(Missing(s.index))
        \/ /\ IsNext(i, Quote) /\ s.err = "OK" /\ IsNext(s.index, ":")
           /\ SetTop([Top EXCEPT !.key = s.val, !.last = Top.m, !.part = "match"])
           /\ ser' = [ser EXCEPT !.index = SkipWhite(After(s.index))]
           /\ UNCHANGED <<buf, heap, obj>>

MatchName == Match({m \in DOMAIN Top.meta.sub : Name(Top.meta.sub[m]) = Top.key})

\* cra_json_read_key for a dictionary: a key that is not a string is in quotes;
\* then the colon and the value.
InQuotes == Top.meta.sub[1].type # "STRING"
ReadKey ==
  /\ Here("dict", "key")
  /\ \/ ~MayBeKey(Top.meta.sub[1]) /\ Error("CANNOT_BE_KEY")
     \/ MayBeKey(Top.meta.sub[1]) /\ InQuotes /\ ~IsNext(ser.index, Quote) /\ Error(Missing(ser.index))
     \/ /\ MayBeKey(Top.meta.sub[1]) /\ (InQuotes => IsNext(ser.index, Quote))
        /\ ReadValue(Top.meta.sub[1], Top.temp,
                     IF InQuotes THEN After(ser.index) ELSE SkipWhite(ser.index))
ReadEntry ==
  /\ Here("dict", "value")
  /\ LET i == IF InQuotes /\ IsNext(ser.index, Quote) THEN After(ser.index) ELSE ser.index IN
     \/ InQuotes /\ ~IsNext(ser.index, Quote) /\ Error(Missing(ser.index))
     \/ /\ InQuotes => IsNext(ser.index, Quote)
        /\ \/ ~IsNext(i, ":") /\ Error(Missing(i))
           \/ IsNext(i, ":") /\ ReadValue(Top.meta.sub[2], Top.temp, SkipWhite(After(i)))

\* cra_json_is_finish: after a member or an element comes a comma, or the end.
ClosingOf(kind) == IF kind \in {"struct", "dict"} THEN "}" ELSE "]"
IsFinish ==
  /\ Running /\ Top.kind \notin {"root", "skip"} /\ Top.part = "next"
  /\ LET i == ser.index
         Go(part) == /\ SetTop([Top EXCEPT !.part = part])
                     /\ ser' = [ser EXCEPT !.index = After(i)]
                     /\ UNCHANGED <<buf, heap, obj>>
     IN \/ IsNext(i, ",") /\ Go(IF Top.kind \in {"struct", "dict"} THEN "key" ELSE "element")
        \/ IsNext(i, ClosingOf(Top.kind)) /\ Go("close")
        \/ ~IsNext(i, ",") /\ ~IsNext(i, ClosingOf(Top.kind)) /\ Error(Missing(i))

\* The ends of the functions: an array is noted now, and keeps its level.
CloseObject == (Here("struct", "close") \/ Here("list", "close") \/ Here("dict", "close")) /\ Close(1)
CloseArray ==
  /\ Here("array", "close")
  /\ LET f == Top
         full == Len(ser.release) = ser.size
         noted == [heap |-> heap, size |-> IF full THEN ser.size + Nodes1 ELSE ser.size,
                   release |-> Append(ser.release, [at |-> f.home, own |-> 0, is_ptr |-> TRUE, uninit |-> FALSE])]
     IN \/ ~f.meta.is_ptr /\ Close(0)
        \/ /\ f.meta.is_ptr /\ full /\ "manager" \in Failing
           /\ FailFrom(Front(stack), "ALLOC", [Same EXCEPT !.heap = Freed(heap, f.home)])
        \/ f.meta.is_ptr /\ Return(<<f.val>>, Front(stack), ser.index, ser.nesting, noted)
-----------------------------------------------------------------------------
\* cra_json_skip_value, a character at a time; left is what is open.
SkipMember ==
  /\ Here("struct", "skip")
  /\ stack' = Append(stack, Frame("skip", [sub |-> <<>>], 1, 0, 0, <<>>, "next"))
  /\ UNCHANGED <<buf, ser, heap, obj>>

SkipChar ==
  /\ Running /\ Top.kind = "skip"
  /\ LET i    == ser.index
         more == IsMore(i) /\ ~(At(i) = "," /\ Top.left = 0)
         left == CASE At(i) \in {"{", "["} -> Top.left + 1
                   [] At(i) \in {"}", "]"} -> Top.left - 1
                   [] OTHER -> Top.left
         Back(index) == /\ stack' = Append(Front(Front(stack)), [stack[Len(stack) - 1] EXCEPT !.part = "next"])
                        /\ ser' = [ser EXCEPT !.index = index]
     IN \/ ~more /\ Back(i)
        \/ more /\ At(i) \in {"}", "]"} /\ left <= 0 /\ Back(i + 1)
        \/ /\ more /\ ~(At(i) \in {"}", "]"} /\ left <= 0)
           /\ SetTop([Top EXCEPT !.left = left])
           /\ ser' = [ser EXCEPT !.index = i + 1]
  /\ UNCHANGED <<buf, heap, obj>>
-----------------------------------------------------------------------------
Next == \/ ReadRoot \/ ReadMember \/ ReadItem \/ ReadElement \/ ArrayIsFull \/ GrowArray \/ TextEnds
        \/ ReadName \/ MatchName \/ ReadKey \/ ReadEntry
        \/ IsFinish \/ CloseObject \/ CloseArray
        \/ SkipMember \/ SkipChar
        \/ Finish \/ ReleaseOne
=============================================================================
