SPECIFICATION Spec
CONSTANTS
  Constant = Constant
  Instr <- MCInstr
  Functions <- MCFunctions
INVARIANTS TypeOK WorklistHoldsIdUses NothingElseCoalesced CountIsPathCount AbortNeedsTwoPaths
PROPERTY Terminates
CHECK_DEADLOCK FALSE
