------------------------------- MODULE IMPoly -------------------------------
(***************************************************************************)
(* IMPoly (src/IMPoly.cpp): polynomials with integer coefficients over the *)
(* kernel invariants, kept by FLINT as the list of their terms.  A         *)
(* monomial gives every invariant its exponent, a polynomial maps the      *)
(* monomials of its terms to their coefficients.  Sums and products drop   *)
(* the terms that cancel; setting a coefficient to zero leaves the term.   *)
(*                                                                         *)
(* Two operations have undefined behaviour.  abs passes FLINT integers     *)
(* nobody has initialised, and may crash on any term.  divide_by_two reads *)
(* coefficients as unsigned long: the result for one that is negative or   *)
(* too large can be any.  status records either, and the process stops     *)
(* there, nothing being known of it afterwards.  last is a history         *)
(* variable: the operation called last, with its operands.                 *)
(***************************************************************************)
EXTENDS Integers, FiniteSets, Functions

CONSTANTS
  Variable,       \* the IMPoly objects of the program
  Invariant,      \* the InvariantTypes that occur
  Coefficient,    \* the first and third argument of the constructor
  Exponent,
  UlongMax,       \* largest unsigned long
  MaxTerms,       \* bounds of a polynomial: number of terms, degree, and sum
  MaxDegree,      \* of the absolute values of its coefficients
  MaxNorm

InvariantTypeNum == 24
InvariantTypeNames == 23      \* length of the array InvariantTypeName

ASSUME IMPolyAssumption ==
  /\ Invariant \subseteq 0..InvariantTypeNum - 1
  /\ Coefficient \subseteq Nat /\ Exponent \subseteq Nat
  /\ {UlongMax, MaxTerms, MaxDegree, MaxNorm} \subseteq Nat

VARIABLES
  poly,           \* poly[r]: the terms of r, [a set of monomials -> Int]
  status,         \* "ok", "undefined" or "crashed"
  last            \* history: <<operation, operands>>, <<>> before the first

imvars == <<poly, status, last>>
Called(call) == last' = call

Monomial == [Invariant -> Nat]
IsPoly(p) ==
  /\ DOMAIN p \subseteq Monomial /\ IsFiniteSet(DOMAIN p)
  /\ p \in [DOMAIN p -> Int]
ZeroPoly == [m \in {} |-> 0]
Coef(p, m) == IF m \in DOMAIN p THEN p[m] ELSE 0

Degree(m) == SumFunction(m)
Magnitude(n) == IF n < 0 THEN -n ELSE n
Bounded(p) ==
  /\ Cardinality(DOMAIN p) <= MaxTerms
  /\ \A m \in DOMAIN p : Degree(m) <= MaxDegree /\ p[m] \in -MaxNorm..MaxNorm
  /\ SumFunction([m \in DOMAIN p |-> Magnitude(p[m])]) <= MaxNorm

-----------------------------------------------------------------------------
(* p + sign * q; mutant: a term of both keeps the coefficient it had. *)
CombineKeepsFirst(p, q, sign) ==
  [m \in DOMAIN p \cup DOMAIN q |-> IF m \in DOMAIN p THEN p[m] ELSE sign * q[m]]
Combine(p, q, sign) ==
  LET c(m) == Coef(p, m) + sign * Coef(q, m)
      Cancels(m) == m \in DOMAIN p \cap DOMAIN q /\ c(m) = 0
  IN [m \in {n \in DOMAIN p \cup DOMAIN q : ~Cancels(n)} |-> c(m)]

\* mutant: exponents subtracted, as a division would
TimesDivides(m, n) == [it \in Invariant |-> m[it] - n[it]]
Times(m, n) == [it \in Invariant |-> m[it] + n[it]]
Product(p, q) ==
  LET both == [t \in (DOMAIN p) \X (DOMAIN q) |-> p[t[1]] * q[t[2]]]
      Pairs(m) == {t \in DOMAIN both : Times(t[1], t[2]) = m}
      c(m) == SumFunctionOnSet(both, Pairs(m))
      All == {Times(t[1], t[2]) : t \in DOMAIN both}
  IN [m \in {n \in All : c(n) # 0} |-> c(m)]

Absolute(p) == [m \in DOMAIN p |-> Magnitude(p[m])]

(* What divide_by_two can make of p: one polynomial when every coefficient *)
(* is an unsigned long.                                                    *)
Fits(p) == \A m \in DOMAIN p : p[m] \in 0..UlongMax
Halves(p) ==
  {h \in [DOMAIN p -> 0..UlongMax \div 2] :
     \A m \in DOMAIN p : p[m] \in 0..UlongMax => h[m] = p[m] \div 2}

(* a + b + |a - b|, which max halves; mutant: without the absolute value. *)
TwiceMaxNoAbs(p, q) == Combine(Combine(p, q, 1), Combine(p, q, -1), 1)
TwiceMax(p, q) == Combine(Combine(p, q, 1), Absolute(Combine(p, q, -1)), 1)

(* The constructor writes <coeff>*x<invariant>^<exponent> for FLINT to     *)
(* parse, which numbers the generators from x1.                            *)
enumerate(it) == it + 1
TermPoly(c, number, e) ==
  LET gen == number - 1
  IN IF c = 0 \/ gen \notin Invariant THEN ZeroPoly
     ELSE [m \in {[it \in Invariant |-> IF it = gen THEN e ELSE 0]} |-> c]

-----------------------------------------------------------------------------
Becomes(r, p) == Bounded(p) /\ poly' = [poly EXCEPT ![r] = p] /\ UNCHANGED status
Crash == status' = "crashed" /\ UNCHANGED poly

Default(r) == Called(<<"zero", {r}>>) /\ Becomes(r, ZeroPoly)
Construct(r) ==
  /\ Called(<<"term", r>>)
  /\ \E c \in Coefficient, it \in Invariant, e \in Exponent :
       Becomes(r, TermPoly(c, enumerate(it), e))
Copy(r, q) == Called(<<"copy", r, q>>) /\ Becomes(r, poly[q])
Add(r, q) == Called(<<"add", r, q>>) /\ Becomes(r, Combine(poly[r], poly[q], 1))
Subtract(r, q) == Called(<<"subtract", r, q>>) /\ Becomes(r, Combine(poly[r], poly[q], -1))
Multiply(r, q) == Called(<<"multiply", r, q>>) /\ Becomes(r, Product(poly[r], poly[q]))

Abs(r) ==
  /\ Called(<<"abs", r>>)
  /\ \/ Becomes(r, Absolute(poly[r]))
     \/ poly[r] # ZeroPoly /\ Crash

Halve(r, p) ==
  \/ Fits(p) /\ \E h \in Halves(p) : Becomes(r, h)
  \/ /\ ~Fits(p)
     /\ \E h \in Halves(p) : poly' = [poly EXCEPT ![r] = h]
     /\ status' = "undefined"
DivideByTwo(r) == Called(<<"halve", r>>) /\ Halve(r, poly[r])

Max(r, p, q) ==
  /\ Called(<<"max", r, p, q>>)
  /\ \/ Halve(r, TwiceMax(poly[p], poly[q]))
     \/ Combine(poly[p], poly[q], -1) # ZeroPoly /\ Crash

(* str asks FLINT for a name of every generator, and the array has one     *)
(* name less than there are generators.                                    *)
Str(r) ==
  /\ Called(<<"str", r>>)
  /\ poly[r] # ZeroPoly /\ InvariantTypeNum > InvariantTypeNames /\ Crash

IMInit == poly = [r \in Variable |-> ZeroPoly] /\ status = "ok" /\ last = <<>>

(* An operation of the class that writes one of the objects R. *)
Operation(R) ==
  /\ status = "ok"
  /\ \E r \in R :
       \/ Default(r) \/ Construct(r) \/ Abs(r) \/ DivideByTwo(r) \/ Str(r)
       \/ \E q \in Variable : Copy(r, q) \/ Add(r, q) \/ Subtract(r, q) \/ Multiply(r, q)
       \/ \E p, q \in Variable : Max(r, p, q)

-----------------------------------------------------------------------------
IMTypeOK ==
  /\ DOMAIN poly = Variable
  /\ \A r \in Variable : IsPoly(poly[r])
  /\ status \in {"ok", "undefined", "crashed"}

Natural(p) == \A m \in DOMAIN p : p[m] >= 0

(* max, which computes a+b+|a-b| / 2 (comment in IMPoly.cpp, line 99), is  *)
(* the maximum coefficient by coefficient of any two polynomials, negative *)
(* coefficients and terms with coefficient zero included, whenever no      *)
(* maximum is negative and twice that maximum fits an unsigned long.       *)
MaxIsLargerCoefficient ==
  \A r, q \in Variable :
    LET p1 == poly[r]
        p2 == poly[q]
        terms == DOMAIN p1 \cup DOMAIN p2
        Larger(m) == IF Coef(p1, m) < Coef(p2, m) THEN Coef(p2, m) ELSE Coef(p1, m)
        found == Halves(TwiceMax(p1, p2))
    IN (\A m \in terms : Larger(m) >= 0 /\ 2 * Larger(m) <= UlongMax)
       => found # {} /\ \A h \in found, m \in terms : Coef(h, m) = Larger(m)
=============================================================================
