CONSTANTS
  Thread = {loop, a1, a2}
  LoopThread = loop
  Task = {init, uninit, work, c1, c2}
  Callback = {c1, c2}
  InitTask = init
  UninitTask = uninit
  WorkTask = {work}
  MaxSend = 5
  Nobody = nobody
  NoTask = noTask
  ManualInit = TRUE
  SharesEarly = FALSE
  TaskRegisters = FALSE
  Sharing = "initEvent"
SPECIFICATION HSpec
INVARIANTS InitOnce InitEventNotLost NoLockCycle NoHandlersRace
PROPERTIES InitEventFires RegisterReturns
