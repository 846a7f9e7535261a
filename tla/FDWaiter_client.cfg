CONSTANT MaxWaits = 5
SPECIFICATION FairSpec
INVARIANTS WholeWait OneShot
PROPERTY WaitsSettle
