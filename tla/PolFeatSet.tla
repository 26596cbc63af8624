----------------------------- MODULE PolFeatSet -----------------------------
(***************************************************************************)
(* PolFeatSet (include/PolFeatAnalysis.hpp): features counted by           *)
(* polynomials.  raw[f] is the object f of IMPoly; a key the map lacks     *)
(* reads as the zero polynomial a lookup would insert.  The other objects  *)
(* are those of the code that computes contributions.  feat is never       *)
(* written but by reset, which can find no key in it, and instruction_num  *)
(* is written and never read: both are left out.                           *)
(***************************************************************************)
EXTENDS IMPoly, Powers

CONSTANTS
  Feature,        \* feature names, a subset of Variable
  Point           \* where costs are compared: a subset of [Invariant -> Nat]

ASSUME PolFeatAssumption == Feature \subseteq Variable /\ Point \subseteq [Invariant -> Nat]

reset ==
  /\ status = "ok"
  /\ Called(<<"zero", Feature>>)
  /\ poly' = [r \in Variable |-> IF r \in Feature THEN ZeroPoly ELSE poly[r]]
  /\ UNCHANGED status

add(f, contribution) == status = "ok" /\ Add(f, contribution)

Compute == Operation(Variable \ Feature)

PolNext ==
  \/ reset
  \/ \E f \in Feature, contribution \in Variable : add(f, contribution)
  \/ Compute

PolSpec == IMInit /\ [][PolNext]_imvars

-----------------------------------------------------------------------------
(* Every object is a list of terms with exponents that are natural        *)
(* numbers, whatever was undefined before.                                 *)
PolTypeOK == IMTypeOK

(* What a monomial and a polynomial are worth at a point.                   *)
Value(m, x) == FoldFunction(LAMBDA a, b : a * b, 1, [it \in Invariant |-> Power(x[it], m[it])])
Eval(p) == [x \in Point |-> SumFunction([m \in DOMAIN p |-> p[m] * Value(m, x)])]

Costs == INSTANCE CostSpec WITH
  cost <- [r \in Variable |-> Eval(poly[r])],
  natural <- {r \in Variable : Natural(poly[r])}

(* The polynomials compute costs: whatever was called last, a sum, a       *)
(* difference, a product or a copy is that of the costs of its operands,   *)
(* and abs, divide_by_two and max bound theirs as their names say or end   *)
(* the process; nothing else does.                                         *)
ImplementsCosts == Costs!Spec
=============================================================================
