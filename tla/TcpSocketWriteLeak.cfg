CONSTANTS
  Req = {r1, r2}
  NoReq = noReq
  MaxReads = 0
  MaxEvents = 0
  CancelEarly = FALSE
SPECIFICATION Safety
INVARIANTS NoLeak
