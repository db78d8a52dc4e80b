\* Two lanes and two threads without; any three of the four enqueue.
CONSTANTS
  NumThreads = 2
  NumExtra = 2
  MaxItems = 1
  kEmpty = kEmpty
  nullptr = nullptr
  dummy = dummy
  unloaded = unloaded
SPECIFICATION Spec
INVARIANTS
  TypeOK
  SafeReclaim
  ListIntact
  DestroysAll
  ExtraInOrder
  EmptyMeansEmpty
  BoundedScans
PROPERTIES
  DeliveredBounded
  DeliveredExtra
ACTION_CONSTRAINT ThreeCall
CHECK_DEADLOCK FALSE
