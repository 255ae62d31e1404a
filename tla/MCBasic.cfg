SPECIFICATION Spec
CONSTANTS
  Programs <- MCPrograms
  Variables <- MCVariables
  strtol <- MCstrtol
  Width = 3
  Garbage <- MCGarbage
  MaxDepth = 2
  MaxOut = 2
INVARIANTS JumpsResolve FrameKept ParserAdvances
PROPERTY ImplementsSource
CHECK_DEADLOCK FALSE
