------------------------------ MODULE MainArg ------------------------------
(***************************************************************************)
(* CraMainArg (cra_mainarg.c): a table of options, each with a short name, *)
(* a long one or both, and the arguments of a program read against it.     *)
(* An argument is <<dashes, word>>; <<>> is a name an option does not have.*)
(* A word is a name of the option once cra_mainarg_clear_op has taken off  *)
(* up to two dashes, however many there were.                              *)
(*                                                                         *)
(* An operator whose comment starts with MUTANT is no part of the model:   *)
(* it is a slip the code could have, which the runs must notice.           *)
(***************************************************************************)
EXTENDS Naturals, Sequences, FiniteSets

CONSTANTS MaxElements, MaxArgs

MainArgAssumption == MaxElements \in Nat /\ MaxArgs \in Nat

VARIABLES phase,            \* "build", "parse", "done", "help" or "error": the last two exit
          table,            \* the elements
          items,            \* names, and the elements they stand for, in order
          argv, i,
          assigned, val,    \* of each element
          pos_args
vars == <<phase, table, items, argv, i, assigned, val, pos_args>>

\* What a program may say of an option: well made or not.
Ops       == {<<>>, <<1, "v">>, <<1, "h">>, <<0, "v">>}
Options   == {<<>>, <<2, "verbose">>, <<2, "v">>}
Functions == {"none", "stoi_in_range", "stos"}
\* An element with nothing in it ends the table.
Nothing   == [op |-> <<>>, option |-> <<>>, valtip |-> FALSE, optip |-> FALSE, func |-> "none"]
Elements  == [op : Ops, option : Options, valtip : BOOLEAN, optip : BOOLEAN, func : Functions] \ {Nothing}
OneLetter == {"v", "h", "7"}
\* What the arguments may be: options, values of options, both, neither.
Arguments == {<<1, "v">>, <<0, "v">>, <<2, "verbose">>, <<1, "h">>, <<0, "7">>}

Init == /\ phase = "build" /\ table = <<>> /\ items = <<>>
        /\ argv = <<>> /\ i = 1
        /\ assigned = <<>> /\ val = <<>> /\ pos_args = <<>>
-----------------------------------------------------------------------------
\* The names an element adds to the dictionary, in this order.
NamesOf(e) == (IF e.op = <<>> THEN <<>> ELSE <<e.op[2]>>)
              \o (IF e.option = <<>> THEN <<>> ELSE <<e.option[2]>>)

Named(list, word) == \E k \in DOMAIN list : list[k][1] = word

\* cra_mainarg_build and cra_mainarg_add_item: what an element must be.
WellMade(e) ==
  /\ e.op # <<>> \/ e.option # <<>>
  /\ e.optip /\ (e.func # "none" <=> e.valtip)
  /\ e.op # <<>> => e.op[1] = 1 /\ e.op[2] \in OneLetter
  /\ e.option # <<>> => e.option[1] = 2 /\ e.option[2] \notin OneLetter
  /\ \A k \in 1 .. Len(NamesOf(e)) : ~Named(items, NamesOf(e)[k])

AddItem ==
  /\ phase = "build" /\ Len(table) < MaxElements
  /\ \E e \in Elements :
       IF WellMade(e)
       THEN /\ table' = Append(table, e)
            /\ items' = items \o [k \in 1 .. Len(NamesOf(e)) |-> <<NamesOf(e)[k], Len(table) + 1>>]
            /\ assigned' = Append(assigned, FALSE) /\ val' = Append(val, <<"none">>)
            /\ UNCHANGED phase
       ELSE phase' = "error" /\ UNCHANGED <<table, items, assigned, val>>
  /\ UNCHANGED <<argv, i, pos_args>>

Start == /\ phase = "build" /\ table # <<>>
         /\ phase' = "parse"
         /\ argv' \in UNION {[1 .. n -> Arguments] : n \in 0 .. MaxArgs}
         /\ UNCHANGED <<table, items, i, assigned, val, pos_args>>

\* The elements the argument is a name of: one, or none.
Matching(a) == {items[k][2] : k \in {n \in DOMAIN items : items[n][1] = a[2]}}

\* What the function of an element makes of an argument, or nothing: a number of
\* the range [0, 10), any string, and TRUE where there is no function.
Converted(func, a) ==
  CASE func = "stoi_in_range" -> {<<"i", w>> : w \in {a[2]} \cap IF a[1] = 0 THEN {"7"} ELSE {}}
    [] func = "stos"          -> {<<"s", a>>}
    [] OTHER                  -> {<<"b", "true">>}

\* MUTANT: the argument that was the value is read again.
ValueIsReadAgain(func) == 1

\* How many arguments an option of this function takes.
Taken(func) == IF func = "none" THEN 1 ELSE 2

\* cra_mainarg_parse_args, one option or one other argument.
ParseOption(e) ==
  LET func == table[e].func
  IN IF func # "none" /\ (i = Len(argv) \/ Converted(func, argv[i + 1]) = {})
     THEN phase' = "error" /\ UNCHANGED <<i, assigned, val>>
     ELSE /\ i' = i + Taken(func)
          /\ assigned' = [assigned EXCEPT ![e] = TRUE]
          /\ \E v \in Converted(func, IF func = "none" THEN argv[i] ELSE argv[i + 1]) :
               val' = [val EXCEPT ![e] = v]
          /\ UNCHANGED phase

ParseOther(a) == /\ assigned' = assigned /\ val' = val
                 /\ IF a \in {<<1, "h">>, <<2, "help">>}
                    THEN phase' = "help" /\ UNCHANGED <<i, pos_args>>
                    ELSE i' = i + 1 /\ pos_args' = Append(pos_args, a) /\ UNCHANGED phase

ParseArg ==
  /\ phase = "parse" /\ i <= Len(argv)
  /\ \/ \E e \in Matching(argv[i]) : ParseOption(e) /\ UNCHANGED pos_args
     \/ Matching(argv[i]) = {} /\ ParseOther(argv[i])
  /\ UNCHANGED <<table, items, argv>>

Parsed == /\ phase = "parse" /\ i > Len(argv)
          /\ phase' = "done"
          /\ UNCHANGED <<table, items, argv, i, assigned, val, pos_args>>

Next == AddItem \/ Start \/ ParseArg \/ Parsed
Spec == Init /\ [][Next]_vars
-----------------------------------------------------------------------------
\* cra_mainarg_get_val: what was given last, or the caller's default.
get_val(word, default_val) == LET e == CHOOSE k \in Matching(<<0, word>>) : TRUE
                              IN IF assigned[e] THEN val[e] ELSE default_val

\* The arguments that are values: they follow an option that takes one and is
\* not itself a value.
IsValue[k \in 0 .. MaxArgs] ==
  k > 1 /\ ~IsValue[k - 1] /\ \E e \in Matching(argv[k - 1]) : table[e].func # "none"

\* Of the first n arguments those that name element e, and those that name none.
Given(e, n) == {k \in 1 .. n : ~IsValue[k] /\ e \in Matching(argv[k])}
Others(n)   == {k \in 1 .. n : ~IsValue[k] /\ Matching(argv[k]) = {}}

\* Where the value is that argument k gives to element e.
ValueAt(e, k) == IF table[e].func = "none" THEN k ELSE k + 1

\* The arguments the program gets are all there, each once and as what it is: an
\* option has the value that followed it last and is unset when it was not
\* given; what is no option and no value is positional, in its order.
ArgsAreSorted ==
  phase = "done" =>
    LET all     == Len(argv)
        Last(e) == CHOOSE k \in Given(e, all) : \A n \in Given(e, all) : n <= k
    IN /\ Len(pos_args) = Cardinality(Others(all))
       /\ \A k \in Others(all) : pos_args[Cardinality(Others(k))] = argv[k]
       /\ \A n \in DOMAIN items :
            LET e   == items[n][2]
                got == get_val(items[n][1], <<"default">>)
            IN IF Given(e, all) = {} THEN got = <<"default">>
               ELSE got \in Converted(table[e].func, argv[ValueAt(e, Last(e))])
=============================================================================
