CONSTANTS
  LoopThread = main
  Helper = th
  Thread = {main, th}
  InitTask = init
  ReadTask = readStart
  DisconnectTask = disconnect
  UninitTask = uninit
  Task = {init, readStart, disconnect, uninit}
  MaxReads = 3
  MaxSend = 6
  Nobody = nobody
  NoTask = noTask
SPECIFICATION CSpec
INVARIANTS ExitsReleased
PROPERTIES DisconnectReleases RunReturns
