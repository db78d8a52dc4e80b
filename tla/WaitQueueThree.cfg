\* Three producers: tickets leave gaps of two below the ones dequeued, and
\* a minimum is superseded twice in one dequeue.
CONSTANTS
  NumThreads = 3
  MaxItems = 1
  kEmpty = kEmpty
SPECIFICATION Spec
INVARIANTS
  NothingBelowLowestSeen
PROPERTIES
  Linearizable
