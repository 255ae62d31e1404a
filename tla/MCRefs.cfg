SPECIFICATION Spec
CONSTANTS
  Header = 3
  Names = {x}
  PoolSize = 40
  Lens = {1}
  Results = {2}
  MaxStack = 3
  MaxRefs = 6
  MaxLeaks = 1
  NestedGc = FALSE
  LateGc = FALSE
INVARIANTS NoDangling OnlyCyclesLeak RefCountExact PoolSound
PROPERTY GcExact
CHECK_DEADLOCK FALSE
