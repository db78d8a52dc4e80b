CONSTANTS
  Lanes = {0}
  Buffers = {b1, b2, b3, b4}
  nullptr = nullptr
  kEmpty = kEmpty
  BufferSize = 1
  AllocationSize = 2
  MaxItems = 7
SPECIFICATION Spec
INVARIANTS
  AssertionsHold
CHECK_DEADLOCK FALSE
