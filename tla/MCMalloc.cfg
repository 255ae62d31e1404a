SPECIFICATION Spec
CONSTANTS
  Ids = {i1, i2, i3}
  Sizes = {1, 3}
  Data = {5}
  Heap = 100
  MaxHeap = 14
INVARIANTS
  HeapTiled LiveBlocksOwned PointersOnBlocks OnlySecondWordGarbled MemorySafe
PROPERTIES CallsReturn ImplementsHeapSpec
