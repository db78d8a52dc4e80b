\* Two producers of two elements each: tickets are drawn again after the counter
\* was raised, and a lane holds an element behind its head.
CONSTANTS
  NumThreads = 2
  MaxItems = 2
  kEmpty = kEmpty
SPECIFICATION Spec
INVARIANTS
  TypeOK
  RealTimeOrder
  EmptyMeansEmpty
  BoundedScans
PROPERTIES
  Linearizable
  Delivered
