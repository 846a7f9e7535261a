CONSTANTS
  t1 = t1
  t2 = t2
  t3 = t3
  p1 = p1
  p2 = p2
  loop_thread = loop_thread
  Tasks = {t1, t2, t3}
  Observers = {t1, t2}
  Posters = {p1, p2}
  LoopThread = loop_thread
  Queriers = {}
  Delays <- MCDelays
  MaxTime = 0
  NoTask = NoTask
  NoThread = NoThread
SPECIFICATION Spec
INVARIANT NoSelfDeadlock
