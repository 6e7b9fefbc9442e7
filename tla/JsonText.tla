------------------------------ MODULE JsonText ------------------------------
(***************************************************************************)
(* JSON text as the writer and the reader see it (cra_json.c): a sequence  *)
(* of cells.  A cell is a character, except that a number, null, true and  *)
(* false are one cell each, and so are the four hexadecimal digits of an   *)
(* escape, written here x0041.  The last cell of a text is its zero.       *)
(*                                                                         *)
(* There is one character of each kind the code tells apart: "A" and "c"   *)
(* are ordinary, "ctl" is a control character without a letter, "han" and  *)
(* "emoji" take three and four bytes.                                      *)
(***************************************************************************)
LOCAL INSTANCE Integers
LOCAL INSTANCE Sequences
LOCAL INSTANCE SequencesExt
LOCAL INSTANCE TLC

CONSTANT Numbers            \* the numbers that occur, without their signs

End   == "zero"
Quote == "\""
\* What is at most 0x20; a char is signed, so that what is not ASCII is below it.
White == {" ", "\n", "\t", "ctl", "han", "emoji"}

Numeral(n)   == ToString(n)
Value        == [c \in {ToString(n) : n \in Numbers} \cup {ToString(-n) : n \in Numbers} |->
                   CHOOSE n \in Numbers \cup {-m : m \in Numbers} : ToString(n) = c]
IsNumeral(c) == c \in DOMAIN Value

\* The key of a member is the name of the member.
Names   == <<"k", "A", "c", "d", "e", "g", "h", "i", "j", "m">>
Name(m) == <<Names[m.id + 1]>>

\* The characters a backslash and a letter stand for; "/" is only read.
Letter  == [n |-> "\n", t |-> "\t"] @@ (Quote :> Quote) @@ ("\\" :> "\\")
Letters == Letter @@ ("/" :> "/")
Escaped(c) == \E l \in DOMAIN Letter : Letter[l] = c

\* __cra_parse_unicodee_escape and the surrogates.
CodePoint == [x0041 |-> "A", x0001 |-> "ctl", x4e2d |-> "han", xffff |-> "ffff"]
High == {"xd83d"}
Low  == {"xde00"}
IsHex(c) == c \in DOMAIN CodePoint \cup High \cup Low

\* Bytes of a character (__cra_code_point2utf8); four digits are four.
Octets(c) == IF c = "emoji" \/ IsHex(c) THEN 4 ELSE IF c \in {"han", "ffff"} THEN 3 ELSE 1
Size(chars) == FoldLeft(LAMBDA n, c : n + Octets(c), 0, chars)
=============================================================================
