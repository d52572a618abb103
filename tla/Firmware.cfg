SPECIFICATION Spec
CONSTANTS
  BufferSize = 3
  MaxDepth = 3
  MaxTicks = 2
CONSTRAINT Unraced
INVARIANT TypeOK
INVARIANT TicksKept
INVARIANT WholeMessages
