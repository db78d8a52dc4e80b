CONSTANTS
  NumThreads = 2
  NumExtra = 1
  MaxItems = 1
  kEmpty = kEmpty
  nullptr = nullptr
  dummy = dummy
  unloaded = unloaded
SPECIFICATION Spec
INVARIANTS
  BoundedInOrder
CHECK_DEADLOCK FALSE
