------------------------------- MODULE MCLog -------------------------------
(***************************************************************************)
(* Logging with a few messages, some of which do not fit together, and one *)
(* that is cut.                                                            *)
(***************************************************************************)
EXTENDS Log, TLC

CONSTANTS a, b, c

MCLens == (a :> <<1, 3>>) @@ (b :> <<2, 1>>) @@ (c :> << >>)
=============================================================================
