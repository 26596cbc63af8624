----------------------------- MODULE MCRegistry -----------------------------
(***************************************************************************)
(* Three keys, one of them the option name no feature set is registered    *)
(* under, and two objects, to tell a stale one from its replacement: the   *)
(* cfg gives them.  TLC covers every history of calls, of any length.      *)
(***************************************************************************)
EXTENDS Registry
=============================================================================
