SPECIFICATION Spec
CONSTANTS
  CommandLines <- MCCommandLines
  TraceLists <- MCTraceLists
  Cycles <- MCCycles
  Starts <- MCStarts
  H = 10
  ALIGNMENT = 2
  MaxFaults = 1
  K = 2
  MaxSamples = 3
  Epsilon = 50
  Word = 4
INVARIANTS Verdicts RangesExact UtilExact KBest
PROPERTY Finishes
CHECK_DEADLOCK FALSE
