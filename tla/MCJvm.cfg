SPECIFICATION Spec
CONSTANTS
  Inputs <- MCInputs
  Garbage <- MCGarbage
  B = 3
INVARIANTS LoadFaithful InBounds BlocksFreed
PROPERTY ImplementsJava
CHECK_DEADLOCK FALSE
