CONSTANTS
  MaxKey = 2
  NoRecord = NoRecord
SPECIFICATION Spec
INVARIANT RemovedBeforeError
