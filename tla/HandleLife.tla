----------------------------- MODULE HandleLife -----------------------------
(***************************************************************************)
(* What every Handle of the library promises about its life: abstract      *)
(* specification of TcpSocket, Timer and SslSocket.                        *)
(*                                                                         *)
(* After a successful init the library keeps the object alive by itself.   *)
(* close() ends it: operations in flight are answered, then CloseEvent is  *)
(* emitted, and only then does the library let the object go.              *)
(***************************************************************************)
EXTENDS Integers

VARIABLES life,     \* "new", "live", "closing", in its CloseEvent, or "gone"
          held,     \* the library holds a shared_ptr to the object
          pending   \* operations in flight below the object

vars == <<life, held, pending>>

Init ==
  /\ life = "new"
  /\ held \in BOOLEAN
  /\ pending = 0

Open ==
  /\ life = "new" /\ life' = "live"
  /\ held' = TRUE
  /\ UNCHANGED pending

(* An operation is handed down: only while the handle is open.             *)
Submit ==
  /\ life = "live"
  /\ pending' = pending + 1
  /\ UNCHANGED <<life, held>>

(* An operation is answered: before CloseEvent.                            *)
Complete ==
  /\ life \in {"live", "closing"} /\ pending > 0
  /\ pending' = pending - 1
  /\ UNCHANGED <<life, held>>

Close ==
  /\ life = "live" /\ life' = "closing"
  /\ UNCHANGED <<held, pending>>

(* CloseEvent: the object is still held while its listeners run.           *)
Notify ==
  /\ life = "closing" /\ pending = 0
  /\ life' = "notified"
  /\ UNCHANGED <<held, pending>>

Release ==
  /\ life = "notified" /\ life' = "gone"
  /\ held' = FALSE
  /\ UNCHANGED pending

Next == Open \/ Submit \/ Complete \/ Close \/ Notify \/ Release

Safety == Init /\ [][Next]_vars

(* Closing is carried through; nobody is obliged to close.                 *)
Fairness == WF_vars((life = "closing" /\ Complete) \/ Notify \/ Release)

Spec == Safety /\ Fairness
=============================================================================
