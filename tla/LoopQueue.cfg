CONSTANTS
  Thread = {loop, s1, s2}
  LoopThread = loop
  Task = {t1, t2, uninit}
  UninitTask = uninit
  MaxSend = 4
  Nobody = nobody
  NoTask = noTask
SPECIFICATION Spec
INVARIANTS MutualExclusion FIFO NoLostWakeup UninitDrains
PROPERTIES TaskRuns SendReturns UninitStops
