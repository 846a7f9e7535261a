CONSTANTS
  MaxWaits = 7
  MaxSize = 4
  BufferSize = 2
  Capacity = 3
SPECIFICATION FairSpec
INVARIANTS OneContinuation CopyIsExact
PROPERTY CopiesEnd
