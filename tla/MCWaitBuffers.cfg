\* Buffers of one node and pools of two places: every enqueue pops a buffer and every
\* dequeue pushes one, and the lane of three elements fills its pool.
CONSTANTS
  NumThreads = 2
  MaxItems = 3
  kEmpty = kEmpty
  Buffers = {0, 1, 2, 3, 4, 5}
  nullptr = nullptr
  BufferSize = 1
  AllocationSize = 2
  Calls <- ThreeAndOne
SPECIFICATION LowestSpec
INVARIANTS
  TypeOK
  OneOwner
  MinimumIsThere
  DestroysAll
PROPERTIES
  Implements
CONSTRAINT BeforeOverrun
ACTION_CONSTRAINT LowestFirst
CHECK_DEADLOCK FALSE
