------------------------------ MODULE TcpSocket ------------------------------
(***************************************************************************)
(* One TCPSocket on the loop thread (src/unio/src/net/tcp_socket.cc) with  *)
(* the request references of inc/jcu-unio/uv_helper.h.                     *)
(*                                                                         *)
(* connect, write and disconnect each hand libuv a request object on the   *)
(* heap that owns a shared_ptr to the socket; libuv's callback publishes   *)
(* the result to the program and deletes the object.  The socket's own     *)
(* handle keeps the socket alive from _init to closeCallback.  Program     *)
(* code runs inside these callbacks and may call the socket again, so the  *)
(* callbacks in progress form a stack.  Tasks queued on the loop run in    *)
(* order (FIFO of LoopQueue) between callbacks.                            *)
(***************************************************************************)
EXTENDS Integers, FiniteSets, SequencesExt

CONSTANTS Req,           \* identities of connect, write and disconnect calls
          NoReq,
          MaxReads,      \* bound: calls of read()
          MaxEvents,     \* bound: read and listen events
          CancelEarly    \* the program cancels a read that has not started

ASSUME ReqAssumption == NoReq \notin Req
ASSUME BoundAssumption == MaxReads \in Nat /\ MaxEvents \in Nat
ASSUME ProgramAssumption == CancelEarly \in BOOLEAN

VARIABLES tasks,        \* tasks queued by create() and read()
          uv,           \* life of the uv_tcp_t
          conn,         \* the connection; "ended": libuv reported its end
          shut,         \* uv_shutdown was accepted
          reading,      \* uv_read_start is in force
          connected,    \* TCPSocketImpl::connected_
          readBuffer,   \* read_buffer_ is set
          dataRef,      \* HandleRef::data_ holds the socket
          kind, state,  \* per request: what it is, and whether libuv has it
          writeQ,       \* libuv's write queue
          ref,          \* per request: its heap object exists
          completed,    \* history: results published per request
          stack,        \* callbacks running program code, innermost last
          reads, events \* history: read() calls; read and listen events

reqVars == <<kind, state, ref, completed>>
vars == <<tasks, uv, conn, shut, reading, connected, readBuffer, dataRef,
          reqVars, writeQ, stack, reads, events>>

Frame == [on: {"init", "request", "refused", "read", "listen", "close"},
          req: Req \cup {NoReq}]
InUv == {r \in Req : state[r] = "uv"}

Init ==
  /\ tasks = <<"init">>             \* create() has sent its task
  /\ uv = "zeroed" /\ conn = "none" /\ shut = FALSE
  /\ reading = FALSE /\ connected = FALSE /\ readBuffer = FALSE
  /\ dataRef = FALSE
  /\ kind = [r \in Req |-> "none"]
  /\ state = [r \in Req |-> "unused"]
  /\ writeQ = <<>>
  /\ ref = [r \in Req |-> FALSE]
  /\ completed = [r \in Req |-> 0]
  /\ stack = <<>>
  /\ reads = 0 /\ events = 0

Push(on, r) == stack' = Append(stack, [on |-> on, req |-> r])

(* Program code runs in the innermost callback, or in a callback of some   *)
(* other handle; it uses the socket once its InitEvent reported success.   *)
Usable == uv # "zeroed"

-----------------------------------------------------------------------------
(* libuv's immediate answers (external).                                   *)

(* On a connection that has ended libuv may take a request or refuse it:   *)
(* the end of the peer's stream leaves the other half up, an error may not.*)
HasStream == conn \in {"connecting", "up", "failed", "ended"}
UvTakesConnect == uv = "open" /\ conn \in {"none", "failed"}
UvTakesStream == uv = "open" /\ HasStream
UvRefusesRead == ~UvTakesStream \/ conn = "ended"
UvRefusesWrite == UvRefusesRead \/ shut
UvTakesShutdown == UvTakesStream /\ ~shut

-----------------------------------------------------------------------------
(* UvCallbackRef: the life of a request.                                   *)

(* libuv took the request: setCallback, attach.                            *)
Taken(k, r) ==
  /\ state[r] = "unused"
  /\ kind' = [kind EXCEPT ![r] = k]
  /\ state' = [state EXCEPT ![r] = "uv"]
  /\ ref' = [ref EXCEPT ![r] = TRUE]
  /\ UNCHANGED <<completed, stack>>

(* Mutant of Refused: no return after the error, so the request is armed.  *)
RefusedFallsThrough(k, r, kept) ==
  /\ state[r] = "unused"
  /\ kind' = [kind EXCEPT ![r] = k]
  /\ state' = [state EXCEPT ![r] = "uv"]
  /\ ref' = [ref EXCEPT ![r] = TRUE]
  /\ completed' = [completed EXCEPT ![r] = @ + 1]
  /\ Push("refused", r)

(* libuv refused it: the error goes to the callback at once.  create()     *)
(* has deleted the object by then; reset(), which write uses, keeps it.    *)
Refused(k, r, kept) ==
  /\ state[r] = "unused"
  /\ kind' = [kind EXCEPT ![r] = k]
  /\ state' = [state EXCEPT ![r] = "refused"]
  /\ ref' = [ref EXCEPT ![r] = kept]
  /\ completed' = [completed EXCEPT ![r] = @ + 1]
  /\ Push("refused", r)

(* Mutant of Publish: close before publish.                                *)
PublishAfterClose(r) ==
  /\ state' = [state EXCEPT ![r] = "done"]
  /\ completed' = [completed EXCEPT ![r] = @ + 1]
  /\ Push("request", r)
  /\ ref' = [ref EXCEPT ![r] = FALSE]
  /\ UNCHANGED kind

(* publishAndClose: the callback runs; its return deletes the object.      *)
Publish(r) ==
  /\ state' = [state EXCEPT ![r] = "done"]
  /\ completed' = [completed EXCEPT ![r] = @ + 1]
  /\ Push("request", r)
  /\ UNCHANGED <<kind, ref>>

-----------------------------------------------------------------------------
(* Calls of the program.                                                   *)

Connect(r) ==
  /\ Usable /\ uv = "open"
  /\ \/ UvTakesConnect /\ Taken("connect", r) /\ conn' = "connecting"
     \/ Refused("connect", r, FALSE)
        /\ conn' \in (IF conn = "none" THEN {"none", "failed"} ELSE {conn})
  /\ UNCHANGED <<tasks, uv, shut, reading, connected, readBuffer, dataRef,
                 writeQ, reads, events>>

(* After uv_shutdown libuv may still take a write: its versions differ.    *)
Write(r) ==
  /\ Usable
  /\ \/ UvTakesStream /\ Taken("write", r) /\ writeQ' = Append(writeQ, r)
     \/ UvRefusesWrite /\ Refused("write", r, TRUE) /\ UNCHANGED writeQ
  /\ UNCHANGED <<tasks, uv, conn, shut, reading, connected, readBuffer,
                 dataRef, reads, events>>

Disconnect(r) ==
  /\ Usable
  /\ \/ UvTakesShutdown /\ Taken("disconnect", r) /\ shut' = TRUE
     \/ UvRefusesWrite /\ Refused("disconnect", r, FALSE) /\ UNCHANGED shut
  /\ UNCHANGED <<tasks, uv, conn, reading, connected, readBuffer, dataRef,
                 writeQ, reads, events>>

(* The buffer is set now, uv_read_start is queued.                         *)
Read ==
  /\ Usable /\ reads < MaxReads
  /\ readBuffer' = TRUE
  /\ tasks' = Append(tasks, "readStart")
  /\ reads' = reads + 1
  /\ UNCHANGED <<uv, conn, shut, reading, connected, dataRef, reqVars, writeQ,
                 stack, events>>

(* Mutant of CancelRead: without uv_read_stop.                             *)
CancelReadNoStop ==
  /\ Usable
  /\ CancelEarly \/ tasks = <<>>
  /\ readBuffer' = FALSE
  /\ UNCHANGED <<tasks, uv, conn, shut, reading, connected, dataRef, reqVars,
                 writeQ, stack, reads, events>>

CancelRead ==
  /\ Usable
  /\ CancelEarly \/ tasks = <<>>
  /\ reading' = FALSE
  /\ readBuffer' = FALSE
  /\ UNCHANGED <<tasks, uv, conn, shut, connected, dataRef, reqVars, writeQ,
                 stack, reads, events>>

(* Mutant of Close: connected_ keeps its value.                            *)
CloseStaysConnected ==
  /\ Usable
  /\ reading' = FALSE /\ readBuffer' = FALSE
  /\ uv' = IF uv = "open" THEN "closing" ELSE uv
  /\ UNCHANGED <<tasks, conn, shut, connected, dataRef, reqVars, writeQ,
                 stack, reads, events>>

(* connected_ = false, cancelRead, and uv_close unless already closing.    *)
Close ==
  /\ Usable
  /\ connected' = FALSE /\ reading' = FALSE /\ readBuffer' = FALSE
  /\ uv' = IF uv = "open" THEN "closing" ELSE uv
  /\ UNCHANGED <<tasks, conn, shut, dataRef, reqVars, writeQ, stack, reads,
                 events>>

(* bind and listen, for a server socket.                                   *)
Listen ==
  /\ Usable /\ uv = "open" /\ conn = "none"
  /\ conn' = "listening"
  /\ UNCHANGED <<tasks, uv, shut, reading, connected, readBuffer, dataRef,
                 reqVars, writeQ, stack, reads, events>>

(* A server socket's accept makes this one its connection.                 *)
Accept ==
  /\ Usable /\ uv = "open" /\ conn = "none"
  /\ conn' = "up"
  /\ UNCHANGED <<tasks, uv, shut, reading, connected, readBuffer, dataRef,
                 reqVars, writeQ, stack, reads, events>>

-----------------------------------------------------------------------------
(* Queued tasks.                                                           *)

(* The task of create(): _init, then the InitEvent callbacks run.          *)
InitTask ==
  /\ stack = <<>> /\ tasks # <<>> /\ Head(tasks) = "init"
  /\ tasks' = Tail(tasks)
  /\ \/ uv' = "open" /\ dataRef' = TRUE        \* uv_tcp_init returned 0
     \/ UNCHANGED <<uv, dataRef>>
  /\ Push("init", NoReq)
  /\ UNCHANGED <<conn, shut, reading, connected, readBuffer, reqVars, writeQ,
                 reads, events>>

(* Mutant of ReadStartTask: it looks at connected_, which accept() and     *)
(* connect() in progress leave false.                                      *)
ReadStartTaskConnected ==
  /\ stack = <<>> /\ tasks # <<>> /\ Head(tasks) = "readStart"
  /\ tasks' = Tail(tasks)
  /\ reading' = (reading \/ (UvTakesStream /\ connected))
  /\ UNCHANGED <<uv, conn, shut, connected, readBuffer, dataRef, reqVars,
                 writeQ, stack, reads, events>>

(* The task of read(); a closing or unconnected handle ignores it, and one *)
(* whose connection has ended may.                                         *)
ReadStartTask ==
  /\ stack = <<>> /\ tasks # <<>> /\ Head(tasks) = "readStart"
  /\ tasks' = Tail(tasks)
  /\ \/ UvTakesStream /\ reading' = TRUE
     \/ UvRefusesRead /\ UNCHANGED reading
  /\ UNCHANGED <<uv, conn, shut, connected, readBuffer, dataRef, reqVars,
                 writeQ, stack, reads, events>>

-----------------------------------------------------------------------------
(* libuv's callbacks.  uv_close cancels the connect, then the writes, then *)
(* the shutdown, then reports the close.                                   *)

ConnectCallback(r, ok) ==
  /\ stack = <<>> /\ state[r] = "uv" /\ kind[r] = "connect"
  /\ uv = "closing" => ~ok
  /\ conn' = IF ok THEN "up" ELSE "failed"
  /\ connected' = (connected \/ ok)
  /\ Publish(r)
  /\ UNCHANGED <<tasks, uv, shut, reading, readBuffer, dataRef, writeQ, reads,
                 events>>

WriteCallback(r) ==
  /\ stack = <<>> /\ writeQ # <<>> /\ Head(writeQ) = r
  /\ conn # "connecting"
  /\ writeQ' = Tail(writeQ)
  /\ Publish(r)
  /\ UNCHANGED <<tasks, uv, conn, shut, reading, connected, readBuffer,
                 dataRef, reads, events>>

ShutdownCallback(r) ==
  /\ stack = <<>> /\ state[r] = "uv" /\ kind[r] = "disconnect"
  /\ conn # "connecting" /\ writeQ = <<>>
  /\ connected' = FALSE
  /\ Publish(r)
  /\ UNCHANGED <<tasks, uv, conn, shut, reading, readBuffer, dataRef, writeQ,
                 reads, events>>

(* allocCallback dereferences read_buffer_, readCallback emits the data.   *)
ReadCallback ==
  /\ stack = <<>> /\ reading /\ conn = "up" /\ events < MaxEvents
  /\ readBuffer
  /\ events' = events + 1
  /\ Push("read", NoReq)
  /\ UNCHANGED <<tasks, uv, conn, shut, reading, connected, readBuffer,
                 dataRef, reqVars, writeQ, reads>>

(* End of stream or an error: libuv stops reading, the event is emitted;   *)
(* connected_ keeps its value.                                             *)
ReadEndCallback ==
  /\ stack = <<>> /\ reading /\ conn \in {"up", "failed", "ended"}
  /\ events < MaxEvents
  /\ readBuffer
  /\ conn' = IF conn = "up" THEN "ended" ELSE conn
  /\ reading' = FALSE
  /\ events' = events + 1
  /\ Push("read", NoReq)
  /\ UNCHANGED <<tasks, uv, shut, connected, readBuffer, dataRef, reqVars,
                 writeQ, reads>>

ListenCallback ==
  /\ stack = <<>> /\ uv = "open" /\ conn = "listening" /\ events < MaxEvents
  /\ events' = events + 1
  /\ Push("listen", NoReq)
  /\ UNCHANGED <<tasks, uv, conn, shut, reading, connected, readBuffer,
                 dataRef, reqVars, writeQ, reads>>

(* closeCallback: CloseEvent is emitted; then offAll and HandleRef::close. *)
CloseCallback ==
  /\ stack = <<>> /\ uv = "closing" /\ InUv = {}
  /\ uv' = "closed"
  /\ Push("close", NoReq)
  /\ UNCHANGED <<tasks, conn, shut, reading, connected, readBuffer, dataRef,
                 reqVars, writeQ, reads, events>>

(* Mutant of Return: closeCallback without HandleRef::close.               *)
ReturnKeepsData ==
  /\ stack # <<>>
  /\ LET top == Last(stack)
     IN ref' = IF top.on = "request" THEN [ref EXCEPT ![top.req] = FALSE] ELSE ref
  /\ stack' = Front(stack)
  /\ UNCHANGED <<tasks, uv, conn, shut, reading, connected, readBuffer, dataRef,
                 kind, state, completed, writeQ, reads, events>>

(* Mutant of Return: publishAndClose without its close.                    *)
ReturnKeepsRequest ==
  /\ stack # <<>>
  /\ dataRef' = (dataRef /\ Last(stack).on # "close")
  /\ stack' = Front(stack)
  /\ UNCHANGED <<tasks, uv, conn, shut, reading, connected, readBuffer,
                 reqVars, writeQ, reads, events>>

(* The innermost callback of the program returns.                          *)
Return ==
  /\ stack # <<>>
  /\ LET top == Last(stack)
     IN /\ ref' = IF top.on = "request" THEN [ref EXCEPT ![top.req] = FALSE]
                                        ELSE ref
        /\ dataRef' = (dataRef /\ top.on # "close")
  /\ stack' = Front(stack)
  /\ UNCHANGED <<tasks, uv, conn, shut, reading, connected, readBuffer, kind,
                 state, completed, writeQ, reads, events>>

(* uv_tcp_init failed: the program has been told and drops the socket.     *)
Abandoned ==
  /\ uv = "zeroed" /\ tasks = <<>> /\ stack = <<>>
  /\ UNCHANGED vars

-----------------------------------------------------------------------------
ProgramStep ==
  \/ \E r \in Req : Connect(r) \/ Write(r) \/ Disconnect(r)
  \/ Read \/ CancelRead \/ Close \/ Listen \/ Accept

TaskStep == InitTask \/ ReadStartTask

Completion ==
  \/ \E r \in Req : WriteCallback(r) \/ ShutdownCallback(r)
  \/ \E r \in Req, ok \in BOOLEAN : ConnectCallback(r, ok)

NetworkStep == ReadCallback \/ ReadEndCallback \/ ListenCallback

Next ==
  \/ ProgramStep \/ TaskStep \/ Completion \/ NetworkStep
  \/ CloseCallback \/ Return \/ Abandoned

Safety == Init /\ [][Next]_vars

(* The loop runs its tasks, callbacks return, and uv_close is carried out  *)
(* (it cancels what is pending).  The network owes nothing.                *)
Fairness ==
  /\ WF_vars(TaskStep) /\ WF_vars(Return)
  /\ WF_vars(uv = "closing" /\ (Completion \/ CloseCallback))

Spec == Safety /\ Fairness

-----------------------------------------------------------------------------
(* Types of the socket's state.                                            *)
TypeOK ==
  /\ tasks \in Seq({"init", "readStart"})
  /\ uv \in {"zeroed", "open", "closing", "closed"}
  /\ conn \in {"none", "listening", "connecting", "up", "failed", "ended"}
  /\ shut \in BOOLEAN /\ reading \in BOOLEAN /\ connected \in BOOLEAN
  /\ readBuffer \in BOOLEAN /\ dataRef \in BOOLEAN
  /\ kind \in [Req -> {"none", "connect", "write", "disconnect"}]
  /\ state \in [Req -> {"unused", "uv", "done", "refused"}]
  /\ writeQ \in Seq(Req)
  /\ ref \in [Req -> BOOLEAN]
  /\ completed \in [Req -> Nat]
  /\ stack \in Seq(Frame)
  /\ reads \in Nat /\ events \in Nat

(* connect, write and disconnect report their result exactly once: at      *)
(* once if libuv refuses, else when libuv is done with the request.        *)
CompletesOnce ==
  \A r \in Req :
    completed[r] + (IF state[r] = "uv" THEN 1 ELSE 0)
      = IF state[r] = "unused" THEN 0 ELSE 1

(* libuv never holds, and no running callback uses, a request object that  *)
(* was deleted; the socket is kept alive as long as libuv has its handle.  *)
NoDangling ==
  /\ \A r \in Req : state[r] = "uv" => ref[r]
  /\ \A i \in 1..Len(stack) : stack[i].on = "request" => ref[stack[i].req]
  /\ uv \in {"open", "closing"} => dataRef

(* A request object is deleted as soon as its result was reported, on      *)
(* every path but one: a write that libuv refuses at once (see NoLeak).    *)
RequestsFreed ==
  \A r \in Req :
    ref[r] => \/ state[r] = "uv"
              \/ state[r] = "refused" /\ kind[r] = "write"
              \/ \E i \in 1..Len(stack) : stack[i] = [on |-> "request", req |-> r]

(* Once the socket is closed, or failed to init, and its callbacks have    *)
(* returned, nothing but the program refers to it: the use_count() of 1    *)
(* that the tests expect.  A refused write breaks this.                    *)
NoLeak ==
  uv \in {"zeroed", "closed"} /\ stack = <<>> /\ tasks = <<>> =>
    ~dataRef /\ \A r \in Req : ~ref[r]

(* allocCallback never runs without a read buffer to dereference.          *)
ReadingHasBuffer == reading => readBuffer

(* isConnected() is never true of a socket that is closing or closed, or   *)
(* whose connect has not succeeded.  (It does stay true after the end of   *)
(* the connection was reported, until close() or the answer to             *)
(* disconnect(): ConnectedMeansUp does not hold.)                          *)
ConnectedWasUp == connected => uv = "open" /\ conn \in {"up", "ended"}
ConnectedMeansUp == connected => conn = "up"

(* The socket's life is that of a Handle: kept alive from init to the end  *)
(* of its one CloseEvent, which comes after the last pending result; then  *)
(* it is released.                                                         *)
Life ==
  CASE uv = "zeroed" -> "new"
    [] uv = "open" -> "live"
    [] uv = "closing" -> "closing"
    [] uv = "closed" -> IF dataRef THEN "notified" ELSE "gone"

H == INSTANCE HandleLife
       WITH life <- Life, held <- dataRef, pending <- Cardinality(InUv)

LifeContract == H!Spec

(* A read() whose start is queued on a socket with a connection takes      *)
(* effect, connected or accepted, unless the socket is closed, the read    *)
(* cancelled or the connection ended first.  (Without a connection         *)
(* uv_read_start fails in the task, and nobody is told.)                   *)
ReadQueued == \E i \in 1..Len(tasks) : tasks[i] = "readStart"
ReadStarts ==
  ReadQueued /\ UvTakesStream
    ~> reading \/ ~readBuffer \/ uv # "open" \/ conn = "ended"
=============================================================================
