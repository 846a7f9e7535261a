CONSTANT
  MaxConnections = 3
SPECIFICATION FairSpec
INVARIANTS ClosedOnce HandlersOwned
PROPERTY ConnectionsClosed
