SPECIFICATION Spec
CONSTANTS
  Constant = Constant
  Instr <- MCInstr
  Functions <- MCFunctions
INVARIANT AssertionHolds
CHECK_DEADLOCK FALSE
