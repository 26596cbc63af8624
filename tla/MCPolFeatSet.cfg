SPECIFICATION PolSpec
\* the process ends where behaviour is undefined
CHECK_DEADLOCK FALSE
CONSTANTS
  Variable <- MCVariable
  Feature <- MCFeature
  Invariant <- MCInvariant
  Point <- MCPoint
  Coefficient <- MCCoefficient
  Exponent <- MCExponent
  UlongMax = 3
  MaxTerms = 2
  MaxDegree = 2
  MaxNorm = 2
INVARIANTS PolTypeOK MaxIsLargerCoefficient
PROPERTY ImplementsCosts
