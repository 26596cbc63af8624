----------------------------- MODULE MachineInt -----------------------------
(***************************************************************************)
(* The C++ int and unsigned the counters and multipliers are kept in.  A   *)
(* sum that leaves int is undefined in C++; the build for the supported    *)
(* targets wraps it.  FeatureSet::raw is a map of unsigned, but add and    *)
(* normalize read it back as int, so its model keeps the int; the value    *)
(* printed is UInt of it.                                                  *)
(***************************************************************************)
EXTENDS Integers

CONSTANT IntMax         \* largest int; unsigned has Turn values

ASSUME IntMaxAssumption == IntMax \in Nat \ {0}

Turn == 2 * (IntMax + 1)
IntMin == -IntMax - 1
Ints == IntMin..IntMax
IsInt(x) == IntMin <= x /\ x <= IntMax
ToInt(x) == IF IsInt(x) THEN x ELSE ((x - IntMin) % Turn) + IntMin

\* mutant: an unsigned that does not wrap
UIntUnbounded(x) == x
UInt(x) == x % Turn
=============================================================================
