CONSTANTS
  MaxKey = 3
  NoRecord = NoRecord
  Anything = Anything
  MaxLog = 6
SPECIFICATION FairPrograms
INVARIANTS RecordsOwned HandlersArmed RemovedFlagExact NothingLeft ExpectationsMet
PROPERTIES ImplementsContract TriggeredHandled DestructionEnds ProgramsEnd
