CONSTANTS
  Req = {r1, r2, r3}
  NoReq = noReq
  MaxReads = 2
  MaxEvents = 2
  CancelEarly = FALSE
SPECIFICATION Spec
INVARIANTS CompletesOnce NoDangling RequestsFreed ReadingHasBuffer ConnectedWasUp
PROPERTIES LifeContract ReadStarts
