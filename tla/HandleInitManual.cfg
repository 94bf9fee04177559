CONSTANTS
  Thread = {loop, a1}
  LoopThread = loop
  Task = {init, uninit, work, c1, c2}
  Callback = {c1, c2}
  InitTask = init
  UninitTask = uninit
  WorkTask = {work}
  MaxSend = 5
  Nobody = nobody
  NoTask = noTask
  ManualInit = TRUE
  SharesEarly = TRUE
  TaskRegisters = FALSE
  Sharing = "initEvent"
SPECIFICATION HSafety
INVARIANTS NoLockCycle
