----------------------------- MODULE MCKofler13 -----------------------------
(***************************************************************************)
(* A function with a loop nest of depth two and a loop after it, on a      *)
(* 16-bit int: the default contribution is the code's 100, 100 * 100 fits  *)
(* and 30000 * 100 wraps.                                                  *)
(***************************************************************************)
EXTENDS Kofler13

MCBlock == {"entry", "outer", "inner", "after", "exit"}
MCPreorder == <<"L1", "L2", "L3">>
MCBody == [L1 |-> {"outer", "inner"}, L2 |-> {"inner"}, L3 |-> {"after"}]
MCEnclosing == [L1 |-> {}, L2 |-> {"L1"}, L3 |-> {}]
MCInserted == [L1 |-> "new1", L2 |-> "new2", L3 |-> "new3"]
MCFinalValue == {-1, 2, 30000}
=============================================================================
