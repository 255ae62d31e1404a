SPECIFICATION Spec
CONSTANTS
  Keys = {1, 2, 3, 4, 5, 6}
  Values = {10, 11}
  ValueOf <- MCValueOf
  Hash <- MCHash
  Unhashable = {"list"}
  MinCapacity = 4
  Capacities = {4, 8, 16}
INVARIANT ProbesInBounds
CHECK_DEADLOCK FALSE
