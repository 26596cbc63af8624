------------------------------- MODULE Powers -------------------------------
(***************************************************************************)
(* Powers with a natural exponent, as the product they abbreviate.         *)
(***************************************************************************)
EXTENDS Integers

Power(b, e) ==
  LET power[n \in 0..e] == IF n = 0 THEN 1 ELSE b * power[n - 1] IN power[e]
=============================================================================
