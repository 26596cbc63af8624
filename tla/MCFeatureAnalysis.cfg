SPECIFICATION Spec
CONSTANTS
  Null = Null
  IntMax = 3
  Analysis <- MCAnalysis
  BaseExtract <- MCBaseExtract
  Function <- MCFunction
  Declaration <- MCDeclaration
  Body <- MCBody
  Contribution <- MCContribution
  Coalesced <- MCCoalesced
  InitialSets <- MCInitialSets
  SelectableKey = {"full", "grewe13"}
  InitialTotal = {3}
  Tally <- MCTally
  Total <- MCTotal
  CallTally <- MCCallTally
INVARIANTS TypeOK RawIsOwnTally CallsCountOnce FullFeatIsOwnShare
