CONSTANTS
  Tls13 = FALSE
  BioCap = 2
  OutCap = 1
  MaxCalls = 2
  MaxPeer = 2
  MaxCoalesced = 1
  WriteSize = {1}
  Callbacks = {TRUE}
  PeerRejects = TRUE
  ReadsLate = FALSE
  Pipelines = FALSE
  WritesLate = FALSE
  ClosesEarly = FALSE
SPECIFICATION Safety
INVARIANTS ConnectAnswered
