SPECIFICATION Spec
CONSTANTS
  IntMax = 32767
  Block <- MCBlock
  Preorder <- MCPreorder
  Body <- MCBody
  Enclosing <- MCEnclosing
  Inserted <- MCInserted
  FinalValue <- MCFinalValue
  default_loop_contribution = 100
INVARIANTS TypeOK SameLoopsSameWeight NestedWeighsMore WeightIsProduct

CHECK_DEADLOCK FALSE
