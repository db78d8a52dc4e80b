\* Pools of three places, which cannot overrun here, so that no state is cut off.
CONSTANTS
  NumThreads = 2
  MaxItems = 2
  kEmpty = kEmpty
  Buffers = {0, 1, 2, 3, 4, 5}
  nullptr = nullptr
  BufferSize = 1
  AllocationSize = 3
  Calls <- TwoAndOne
SPECIFICATION LowestSpec
PROPERTIES
  Delivered
ACTION_CONSTRAINT LowestFirst
CHECK_DEADLOCK FALSE
