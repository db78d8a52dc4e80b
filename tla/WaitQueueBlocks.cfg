CONSTANTS
  NumThreads = 2
  MaxItems = 1
  kEmpty = kEmpty
SPECIFICATION Spec
PROPERTIES
  BlocksWhenEmpty
CHECK_DEADLOCK FALSE
