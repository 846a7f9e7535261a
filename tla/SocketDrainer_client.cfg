CONSTANTS
  MaxWaits = 10
  MaxData = 3
  BufferSize = 2
SPECIFICATION FairSpec
INVARIANTS WatchersRegistered WaitsOwned NoDanglingFrame CompleteIsComplete
PROPERTIES PendingWaitsAnswered EndIsReported
