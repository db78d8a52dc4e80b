\* One lane and two threads without: elements meet in the list, behind one that is
\* not linked yet, and between two scans of a dequeue.
CONSTANTS
  NumThreads = 1
  NumExtra = 2
  MaxItems = 1
  kEmpty = kEmpty
  nullptr = nullptr
  dummy = dummy
  unloaded = unloaded
SPECIFICATION Spec
INVARIANTS
  TypeOK
  SafeReclaim
  ListIntact
  DestroysAll
  ExtraInOrder
  SeenIsDequeued
  NoLostWakeup
PROPERTIES
  DeliveredBounded
  DeliveredExtra
CHECK_DEADLOCK FALSE
