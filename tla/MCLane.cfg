\* Buffers of two nodes: the list is cut and destroyed with buffers in every
\* stage of filling and reading.
CONSTANTS
  Lanes = {0}
  Buffers = {b1, b2, b3, b4, b5}
  nullptr = nullptr
  kEmpty = kEmpty
  BufferSize = 2
  AllocationSize = 3
  MaxItems = 12
SPECIFICATION Spec
INVARIANTS
  TypeOK
  OneOwner
  HeadIsNext
  DestroysAll
CONSTRAINT BeforeOverrun
SYMMETRY Addresses
CHECK_DEADLOCK FALSE
