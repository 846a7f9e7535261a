CONSTANTS
  Messages <- MCMessages
  MaxMessages = 2
  MaxName = 3
  BufferBytes = 8
  StackBytes = 12
SPECIFICATION FairSpec
INVARIANTS NoDanglingWatcher EveryDevice
PROPERTY MessagesRead
