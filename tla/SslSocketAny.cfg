CONSTANTS
  Tls13 = TRUE
  BioCap = 1
  OutCap = 1
  MaxCalls = 2
  MaxPeer = 2
  MaxCoalesced = 2
  WriteSize = {1}
  Callbacks = {TRUE, FALSE}
  PeerRejects = TRUE
  ReadsLate = TRUE
  Pipelines = TRUE
  WritesLate = TRUE
  ClosesEarly = TRUE
SPECIFICATION Spec
INVARIANTS ConnectOnce
PROPERTIES DisconnectCloses
