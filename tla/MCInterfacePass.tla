--------------------------- MODULE MCInterfacePass ---------------------------
(***************************************************************************)
(* Every path of up to four characters, and modules with several kernels   *)
(* whose headers have the same name or not, on two pass objects.           *)
(***************************************************************************)
EXTENDS InterfacePass, TLC

Kern(scheme, underscores, z, k) ==
  [scheme |-> scheme, underscores |-> underscores, z |-> z, kernel |-> k]
Functions1 == <<Kern("itanium", 1, TRUE, "k1"), Kern("none", 1, FALSE, None),
                Kern("itanium", 4, TRUE, "k2"), Kern("none", 2, TRUE, None)>>
Functions2 == <<Kern("microsoft", 0, FALSE, "k2"), Kern("itanium", 2, TRUE, None),
                Kern("itanium", 1, TRUE, "k2")>>

Paths == UNION {[1..n -> {".", "/", "a"}] : n \in 0..4}
SharedNames == {<<"a">>, <<"b", "/", "a", ".", "c">>, <<"b">>}
MCModule ==
  [id : Paths, functions : {<<Kern("itanium", 1, TRUE, "k1")>>}]
    \cup [id : SharedNames, functions : {Functions1, Functions2}]
MCSymmetry == Permutations(PassObject)
=============================================================================
