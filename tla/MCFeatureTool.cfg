SPECIFICATION ToolSpec
\* the process exits
CHECK_DEADLOCK FALSE
CONSTANTS
  Arguments <- MCArguments
  Null = Null
INVARIANTS ToolTypeOK AnalysesHaveSets StatusIsOutcome
