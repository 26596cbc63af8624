------------------------------ MODULE Kofler13 ------------------------------
(***************************************************************************)
(* Kofler13Analysis::extract (src/Kofler13Analysis.cpp): how often each    *)
(* basic block of a function counts.  The loops are put in normal form, a  *)
(* multiplier of 1 is given to every block, the cost of each loop is read  *)
(* from its bounds and multiplied into the blocks of the loop, outer loops *)
(* first, and each block's instructions are evaluated with the result.     *)
(*                                                                         *)
(* What LLVM finds in the function is chosen in Init; the analysis is      *)
(* deterministic from there.                                               *)
(***************************************************************************)
EXTENDS MachineInt, Sequences, Functions

CONSTANTS
  Block,          \* basic blocks of the function before the analysis
  Preorder,       \* its loops, as LoopInfo::getLoopsInPreorder lists them
  Body,           \* Body[l]: the blocks of loop l, inner loops included
  Enclosing,      \* Enclosing[l]: the loops around l, those included that
                  \*   simplifyLoop splits off l for its several latches
  Inserted,       \* Inserted[l]: the block simplifyLoop adds when l needs one
  FinalValue,     \* int values a constant final induction value may have
  default_loop_contribution

Loop == Range(Preorder)
AllBlock == Block \cup {Inserted[l] : l \in Loop}

TopLevel == SelectSeq(Preorder, LAMBDA l : Enclosing[l] = {})

ASSUME Kofler13Assumption ==
  /\ Preorder \in Seq(Loop) /\ TopLevel \in Seq(Loop)
  /\ Body \in [Loop -> SUBSET Block]
  /\ Enclosing \in [Loop -> SUBSET Loop]
  /\ FinalValue \subseteq Ints
  /\ default_loop_contribution \in Ints

VARIABLES
  step,           \* the numbered comment of the source the run has reached
  todo,           \* loops the loop of that step has yet to visit
  form,           \* form[l]: what l has, or misses, of the normal form
  bounds,         \* bounds[l]: what getInductionVariable and getBounds give
  blocks,         \* the function's blocks
  body,           \* the blocks of each loop
  loop_cost,      \* std::map<Loop*, int>, 0 where operator[] would insert it
  multiplier,     \* unordered_map<BasicBlock*, unsigned>, likewise
  mult,           \* mult[b]: the int handed to eval for b's instructions
  exact           \* history: no product so far has left unsigned

vars == <<step, todo, form, bounds, blocks, body, loop_cost, multiplier, mult, exact>>

Fixable == {"no preheader", "many latches"}
Form == {"simplified", "irregular"} \cup Fixable
Unknown == {"noInductionVariable", "noBounds", "notConstant", "wide"}
Bounds == [kind : Unknown, value : {0}] \cup [kind : {"constant"}, value : FinalValue]

Nest(top) == {l \in Loop : l = top \/ top \in Enclosing[l]}
LoopsOf(b) == {l \in Loop : b \in body[l]}

Init ==
  /\ step = "normal form"
  /\ todo = TopLevel
  /\ form \in [Loop -> Form]
  /\ bounds \in [Loop -> Bounds]
  /\ blocks = Block
  /\ body = Body
  /\ loop_cost = [l \in Loop |-> 0]
  /\ multiplier = [b \in AllBlock |-> 0]
  /\ mult = [b \in AllBlock |-> 0]
  /\ exact = TRUE

(* simplifyLoop of a top-level loop and, through it, of the loops inside:    *)
(* a missing preheader (or dedicated exit) becomes a new block, which        *)
(* belongs to the loops around, and several latches are joined in a block    *)
(* that belongs to the loop too.  LLVM cannot simplify an irregular loop.    *)
SimplifyLoop ==
  /\ step = "normal form" /\ todo # <<>>
  /\ LET fixed == {l \in Nest(Head(todo)) : form[l] \in Fixable}
         around(l) == Enclosing[l] \cup IF form[l] = "many latches" THEN {l} ELSE {}
         new(l) == {Inserted[m] : m \in {k \in fixed : l \in around(k)}}
     IN  /\ form' = [l \in Loop |-> IF l \in fixed THEN "simplified" ELSE form[l]]
         /\ blocks' = blocks \cup {Inserted[l] : l \in fixed}
         /\ body' = [l \in Loop |-> body[l] \cup new(l)]
  /\ todo' = Tail(todo)
  /\ UNCHANGED <<step, bounds, loop_cost, multiplier, mult, exact>>

\* mutant: only the blocks that were there before simplifyLoop
InitMultiplierFirst ==
  /\ step = "normal form" /\ todo = <<>>
  /\ multiplier' = [b \in AllBlock |-> IF b \in Block THEN 1 ELSE multiplier[b]]
  /\ step' = "loop cost"
  /\ todo' = Preorder
  /\ UNCHANGED <<form, bounds, blocks, body, loop_cost, mult, exact>>

(* 1. For each BB, we initialize its "loop multiplier" to 1.                 *)
InitMultiplier ==
  /\ step = "normal form" /\ todo = <<>>
  /\ multiplier' = [b \in AllBlock |-> IF b \in blocks THEN 1 ELSE multiplier[b]]
  /\ step' = "loop cost"
  /\ todo' = Preorder
  /\ UNCHANGED <<form, bounds, blocks, body, loop_cost, mult, exact>>

(* getInductionVariable answers only for a loop in normal form, and a        *)
(* constant counts when it has at most 32 bits.                              *)
loopContribution(l) ==
  IF form[l] = "simplified" /\ bounds[l].kind = "constant"
  THEN bounds[l].value ELSE default_loop_contribution

(* 2. For each loop, we calculate the loop contribution.                     *)
LoopContribution ==
  /\ step = "loop cost" /\ todo # <<>>
  /\ loop_cost' = [loop_cost EXCEPT ![Head(todo)] = loopContribution(Head(todo))]
  /\ todo' = Tail(todo)
  /\ UNCHANGED <<step, form, bounds, blocks, body, multiplier, mult, exact>>

\* mutant: multiplies in the top-level loops only
StartMultiplyTopLevel ==
  /\ step = "loop cost" /\ todo = <<>>
  /\ step' = "multiply"
  /\ todo' = TopLevel
  /\ UNCHANGED <<form, bounds, blocks, body, loop_cost, multiplier, mult, exact>>

StartMultiply ==
  /\ step = "loop cost" /\ todo = <<>>
  /\ step' = "multiply"
  /\ todo' = Preorder
  /\ UNCHANGED <<form, bounds, blocks, body, loop_cost, multiplier, mult, exact>>

\* mutant: the innermost loop's cost replaces the product
MultiplyOverwrites ==
  /\ step = "multiply" /\ todo # <<>>
  /\ multiplier' = [b \in AllBlock |-> IF b \in body[Head(todo)]
                                       THEN UInt(loop_cost[Head(todo)])
                                       ELSE multiplier[b]]
  /\ todo' = Tail(todo)
  /\ UNCHANGED <<step, form, bounds, blocks, body, loop_cost, mult, exact>>

(* 3. For each BB in a loop, we multiply the multiplier by the loop cost.    *)
Multiply ==
  /\ step = "multiply" /\ todo # <<>>
  /\ LET l == Head(todo)
         product(b) == multiplier[b] * loop_cost[l]
     IN  /\ multiplier' = [b \in AllBlock |-> IF b \in body[l] THEN UInt(product(b))
                                                               ELSE multiplier[b]]
         /\ exact' = (exact /\ \A b \in body[l] : UInt(product(b)) = product(b))
  /\ todo' = Tail(todo)
  /\ UNCHANGED <<step, form, bounds, blocks, body, loop_cost, mult>>

(* 4. Final evaluation: every block's instructions, with an int.             *)
Evaluate ==
  /\ step = "multiply" /\ todo = <<>>
  /\ mult' = [b \in AllBlock |-> IF b \in blocks THEN ToInt(multiplier[b]) ELSE mult[b]]
  /\ step' = "done"
  /\ UNCHANGED <<todo, form, bounds, blocks, body, loop_cost, multiplier, exact>>

Next == SimplifyLoop \/ InitMultiplier \/ LoopContribution \/ StartMultiply
          \/ Multiply \/ Evaluate

Spec == Init /\ [][Next]_vars
-----------------------------------------------------------------------------
Step == {"normal form", "loop cost", "multiply", "done"}
TypeOK ==
  /\ step \in Step
  /\ todo \in Seq(Loop)
  /\ form \in [Loop -> Form]
  /\ bounds \in [Loop -> Bounds]
  /\ blocks \subseteq AllBlock
  /\ body \in [Loop -> SUBSET AllBlock]
  /\ loop_cost \in [Loop -> Ints]
  /\ multiplier \in [AllBlock -> 0..(Turn - 1)]
  /\ mult \in [AllBlock -> Ints]
  /\ exact \in BOOLEAN
  /\ step = "normal form" => exact

(* Two blocks in the same loops get the same weight, wrapped or not and      *)
(* wherever simplifyLoop has put them: a block it inserts weighs what its    *)
(* neighbours do.                                                            *)
SameLoopsSameWeight ==
  step = "done" =>
    \A b, c \in blocks : LoopsOf(b) = LoopsOf(c) => mult[b] = mult[c]

(* A block in more loops weighs at least as much, when every loop's cost is  *)
(* positive and no product has wrapped: the point of the heuristic, under    *)
(* the conditions it needs.                                                  *)
NestedWeighsMore ==
  step = "done" /\ exact /\ (\A l \in Loop : loop_cost[l] >= 1) =>
    \A b, c \in blocks : LoopsOf(b) \subseteq LoopsOf(c) => multiplier[b] <= multiplier[c]

(* The weight of a block is the product of the contributions of the loops    *)
(* around it, taken over the integers and converted once, to unsigned and    *)
(* then to int, although the code wraps after every loop.                    *)
ProductUpTo(b) ==
  LET product[n \in 0..Len(Preorder)] ==
        IF n = 0 THEN 1
        ELSE IF Preorder[n] \in LoopsOf(b)
        THEN product[n - 1] * loopContribution(Preorder[n])
        ELSE product[n - 1]
  IN  product
Product(b) == ProductUpTo(b)[Len(Preorder)]

WeightIsProduct ==
  step = "done" => \A b \in blocks : mult[b] = ToInt(UInt(Product(b)))

(* Why: the loops are visited in the order of the list, each once; the costs *)
(* of those behind are known, and then a multiplier is the product up to     *)
(* there.                                                                    *)
Visited == Len(Preorder) - Len(todo)

RestOfPreorder ==
  Visited >= 0 /\ \A i \in 1..Len(todo) : todo[i] = Preorder[Visited + i]
CostsKnown(n) ==
  \A i \in 1..n : loop_cost[Preorder[i]] = loopContribution(Preorder[i])
MultipliersAre(n) == \A b \in blocks : multiplier[b] = UInt(ProductUpTo(b)[n])

ProductSoFar ==
  /\ step \in {"loop cost", "multiply"} => RestOfPreorder
  /\ step = "loop cost" => CostsKnown(Visited) /\ \A b \in blocks : multiplier[b] = 1
  /\ step = "multiply" => CostsKnown(Len(Preorder)) /\ MultipliersAre(Visited)
  /\ WeightIsProduct

(* The inductive invariant: while the loops are multiplied in, one by one,   *)
(* the blocks stay ordered as their nests are.                               *)
Ordered ==
  /\ step = "loop cost" => exact /\ \A b \in blocks : multiplier[b] = 1
  /\ step \in {"multiply", "done"} =>
       /\ \A b, c \in blocks : LoopsOf(b) = LoopsOf(c) => multiplier[b] = multiplier[c]
       /\ exact /\ (\A l \in Loop : loop_cost[l] >= 1) =>
            \A b, c \in blocks : LoopsOf(b) \subseteq LoopsOf(c) =>
              multiplier[b] <= multiplier[c]
  /\ step = "done" => \A b \in blocks : mult[b] = ToInt(multiplier[b])
=============================================================================
