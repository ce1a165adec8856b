SPECIFICATION AnalysisSpec
CONSTANTS
  None = None
  Input <- MCInput
INVARIANTS PredecessorsKept InterruptsLinked FlagsJustified
CHECK_DEADLOCK FALSE
