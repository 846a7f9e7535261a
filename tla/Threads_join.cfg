CONSTANTS
  quit = quit
  reposter = reposter
  p1 = p1
  p2 = p2
  loop_thread = loop_thread
  Tasks = {quit, reposter}
  Quits = {quit}
  Reposters = {reposter}
  Observers = {reposter}
  Posters = {p1, p2}
  Owner = p1
  LoopThread = loop_thread
  Queriers = {p2}
  Delays <- MCDelays
  MaxTime = 1
  NoTask = NoTask
  NoThread = NoThread
SPECIFICATION FairThreads
INVARIANT JoinMeansDone
PROPERTIES CallsReturn PostedTasksSettle DestructionSettles JoinEnds
