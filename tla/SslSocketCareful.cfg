CONSTANTS
  Tls13 = FALSE
  BioCap = 2
  OutCap = 1
  MaxCalls = 3
  MaxPeer = 3
  MaxCoalesced = 2
  WriteSize = {1}
  Callbacks = {TRUE}
  PeerRejects = FALSE
  ReadsLate = FALSE
  Pipelines = FALSE
  WritesLate = FALSE
  ClosesEarly = FALSE
SPECIFICATION Spec
INVARIANTS ConnectAnswered WireOrder Flushed
PROPERTIES EarlyInputKept LifeContract
