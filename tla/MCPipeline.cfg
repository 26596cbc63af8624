SPECIFICATION PipelineSpec
CONSTANTS
  Null = Null
  IntMax = 127
  Analysis <- MCAnalysis
  BaseExtract <- MCBaseExtract
  Function <- MCFunction
  Declaration <- MCDeclaration
  Body <- MCBody
  Contribution <- MCContribution
  Coalesced <- MCCoalesced
  InitialSets <- MCInitialSets
  SelectableKey = {}
  InitialTotal = {0}
  Tally <- MCTally
  Total <- MCTotal
  CallTally <- MCCallTally
  Module <- MCModule
  Pipelines <- MCPipelines
  LCSSA <- MCLCSSA
  NormalForm <- MCNormalForm
  Rewrite <- MCRewrite
INVARIANTS PipelineTypeOK KoflerPrintsCurrent DefaultMissesNormalForm ResultsStayOwn
