SPECIFICATION Spec
CONSTANTS
  Header = 3
  Names = {x}
  PoolSize = 60
  Lens = {1}
  Results = {2}
  MaxStack = 3
  MaxRefs = 6
  MaxLeaks = 0
  NestedGc = TRUE
  LateGc = FALSE
INVARIANT NoDangling
CHECK_DEADLOCK FALSE
