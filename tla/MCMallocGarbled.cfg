SPECIFICATION DriverSpec
CONSTANTS
  Ids = {i1, i2, i3}
  Sizes = {1, 3}
  Data = {5, 7}
  Heap = 100
  MaxHeap = 14
INVARIANT PayloadsIntact
