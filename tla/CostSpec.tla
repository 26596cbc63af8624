------------------------------ MODULE CostSpec ------------------------------
(***************************************************************************)
(* What the polynomials over kernel invariants are for: each stands for a  *)
(* cost at every point, a point being a choice of values of the            *)
(* invariants.  Every action is one call, which last names with its        *)
(* operands, and promises the costs after it: copies, sums, differences    *)
(* and products are those of the costs and always defined, abs and max     *)
(* bound them from above, halving from below.  abs, max and str may end    *)
(* the process instead, and halve and max have no defined result, for that *)
(* one object, outside the range of their integers.  natural holds the     *)
(* objects whose cost has no negative part.                                *)
(***************************************************************************)
EXTENDS Integers, Powers

CONSTANTS
  Variable,       \* the IMPoly objects of the program
  Invariant,      \* kernel invariant types
  Point,          \* choices of values: a subset of [Invariant -> Nat]
  Coefficient,    \* coefficients and exponents a term is built from
  Exponent

VARIABLES
  cost,           \* cost[r][x]: what r stands for at point x
  natural,        \* the objects that have no negative part
  status,         \* "ok", "undefined" or "crashed"
  last            \* the call: <<operation, operands>>

vars == <<cost, natural, status, last>>

(* Only the objects R change. *)
Only(R) == \A v \in Variable \ R : cost'[v] = cost[v] /\ (v \in natural' <=> v \in natural)
Returns == status' = "ok"
Ends == status' = "crashed" /\ UNCHANGED <<cost, natural>>

Zero(R) ==
  /\ last' = <<"zero", R>> /\ Returns /\ Only(R) /\ R \subseteq natural'
  /\ \A r \in R, x \in Point : cost'[r][x] = 0

Term(r) ==
  /\ last' = <<"term", r>> /\ Returns /\ Only({r}) /\ r \in natural'
  /\ \E c \in Coefficient, it \in Invariant, e \in Exponent :
       \A x \in Point : cost'[r][x] = c * Power(x[it], e)

Copy(r, q) ==
  /\ last' = <<"copy", r, q>> /\ Returns /\ Only({r})
  /\ cost'[r] = cost[q] /\ (r \in natural' <=> q \in natural)

Add(r, q) ==
  /\ last' = <<"add", r, q>> /\ Returns /\ Only({r})
  /\ \A x \in Point : cost'[r][x] = cost[r][x] + cost[q][x]
  /\ {r, q} \subseteq natural => r \in natural'

Subtract(r, q) ==
  /\ last' = <<"subtract", r, q>> /\ Returns /\ Only({r})
  /\ \A x \in Point : cost'[r][x] = cost[r][x] - cost[q][x]

Multiply(r, q) ==
  /\ last' = <<"multiply", r, q>> /\ Returns /\ Only({r})
  /\ \A x \in Point : cost'[r][x] = cost[r][x] * cost[q][x]
  /\ {r, q} \subseteq natural => r \in natural'

Abs(r) ==
  /\ last' = <<"abs", r>>
  /\ \/ /\ Returns /\ Only({r}) /\ r \in natural'
        /\ \A x \in Point : cost[r][x] <= cost'[r][x] /\ -cost[r][x] <= cost'[r][x]
        /\ r \in natural => \A x \in Point : cost'[r][x] = cost[r][x]
     \/ Ends

Halve(r) ==
  /\ last' = <<"halve", r>>
  /\ \/ /\ Returns /\ Only({r}) /\ r \in natural /\ r \in natural'
        /\ \A x \in Point : 2 * cost'[r][x] <= cost[r][x]
     \/ status' = "undefined" /\ Only({r})

(* The maximum is taken monomial by monomial, so it is at least either     *)
(* cost, and at most their sum where neither has a negative part.          *)
Max(r, p, q) ==
  /\ last' = <<"max", r, p, q>>
  /\ \/ /\ Returns /\ Only({r}) /\ r \in natural'
        /\ \A x \in Point : cost[p][x] <= cost'[r][x] /\ cost[q][x] <= cost'[r][x]
        /\ {p, q} \subseteq natural => \A x \in Point : cost'[r][x] <= cost[p][x] + cost[q][x]
     \/ status' = "undefined" /\ Only({r})
     \/ Ends

Str(r) == last' = <<"str", r>> /\ Ends

Init ==
  /\ cost = [r \in Variable |-> [x \in Point |-> 0]]
  /\ natural = Variable
  /\ status = "ok"
  /\ last = <<>>

Next ==
  /\ status = "ok"
  /\ \/ \E R \in SUBSET Variable : Zero(R)
     \/ \E r \in Variable : Term(r) \/ Abs(r) \/ Halve(r) \/ Str(r)
     \/ \E r, q \in Variable : Copy(r, q) \/ Add(r, q) \/ Subtract(r, q) \/ Multiply(r, q)
     \/ \E r, p, q \in Variable : Max(r, p, q)

Spec == Init /\ [][Next]_vars
=============================================================================
