\* Two producers of two elements each: a ticket is published and dequeued before
\* a lower one, and the consumer sleeps before, between and after the elements.
CONSTANTS
  NumThreads = 2
  MaxItems = 2
  kEmpty = kEmpty
SPECIFICATION Spec
INVARIANTS
  TypeOK
  NoLostWakeup
PROPERTIES
  Delivered
  SleepsInOrder
