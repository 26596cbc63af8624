SPECIFICATION Spec
CONSTANTS
  NoDim = NoDim
  Name <- MCName
  Kernels <- MCKernels
INVARIANTS TypeOK BoundToItsName RecognisedOnce ArgumentsCollected LatestCallBound
PROPERTY BindingsStay
CHECK_DEADLOCK FALSE
