---------------------------- MODULE ExampleClient ----------------------------
(***************************************************************************)
(* The programs of src/example: a client that connects, reads, and hands   *)
(* its disconnect to the loop, while a helper thread shuts the loop down   *)
(* after five seconds.  echo_test_client uses a TCPSocket,                 *)
(* simple_https_client an SSLSocket over one; secure tells which it is.    *)
(*                                                                         *)
(* The loop is LoopQueue, the socket is known by the life that HandleLife  *)
(* promises, and TLS by its outcome: what SslSocket says of the handshake  *)
(* and of disconnect().  pc is the program's and the socket's own code     *)
(* still to run on the loop thread, one step of the socket at a time.      *)
(***************************************************************************)
EXTENDS LoopQueue

CONSTANTS Helper,          \* main's thread th
          InitTask,        \* sent by create()
          ReadTask,        \* sent by TCPSocket::read
          DisconnectTask,  \* sent by the SocketReadEvent listener
          MaxReads         \* bound: SocketReadEvents

ASSUME ClientThreads == Helper # LoopThread /\ Thread = {LoopThread, Helper}
ASSUME ClientTasks ==
  /\ Task = {InitTask, ReadTask, DisconnectTask, UninitTask}
  /\ Cardinality(Task) = 4
ASSUME RoomAssumption == \* the bound on sends never blocks the program
  MaxReads \in Nat /\ MaxSend >= MaxReads + 3

VARIABLES secure,    \* the https client
          pc,        \* code to run on the loop thread, or "idle"
          life, held, pending,  \* the socket, as HandleLife sees it
          conn,      \* its connection
          reading,   \* uv_read_start is in force
          shut,      \* uv_shutdown, or for TLS close_notify
          ended,     \* the peer ended the stream, or reading failed
          firstSend, \* is_first_send_
          reads      \* history: SocketReadEvents

socketVars == <<life, held, pending>>
clientVars == <<secure, pc, socketVars, conn, reading, shut, ended, firstSend,
                reads>>
allVars == <<vars, clientVars>>

H == INSTANCE HandleLife

CInit ==
  /\ Init
  /\ secure \in BOOLEAN
  /\ pc = "idle"
  /\ H!Init /\ held = FALSE
  /\ conn = "none" /\ reading = FALSE /\ shut = "no" /\ ended = FALSE
  /\ firstSend = FALSE /\ reads = 0

Sent(task) == \E i \in 1..Len(sent) : sent[i] = task

(* The loop thread runs program code, or is free to enter a callback.      *)
Running(at) == pc = at /\ LoopIdle
AtPoll == loopPc = "poll" /\ Running("idle")

-----------------------------------------------------------------------------
(* main and its helper thread.                                             *)

(* The client's create() and start(): the socket's init task is queued and *)
(* the listeners are registered before the loop runs.                      *)
Create ==
  /\ loopPc = "boot" /\ ~Sent(InitTask)
  /\ SendCall(LoopThread, InitTask)
  /\ UNCHANGED clientVars

(* loop->init(), then the thread is started and uv_run entered.            *)
Start ==
  /\ Sent(InitTask)
  /\ LoopInit
  /\ UNCHANGED clientVars

(* th wakes up and sends the task that calls uninit.                       *)
HelperWakes ==
  /\ loopPc # "boot"
  /\ SendCall(Helper, UninitTask)
  /\ UNCHANGED clientVars

-----------------------------------------------------------------------------
(* The tasks.                                                              *)

(* init emits InitEvent, whose listener connects; the task of read() calls *)
(* uv_read_start; the program's own task calls disconnect().               *)
TaskStart ==
  /\ DrainNext
  /\ \/ Head(queue) = InitTask /\ H!Open /\ pc' = "connect" /\ UNCHANGED reading
     \/ Head(queue) = ReadTask /\ reading' = (life = "live")
        /\ UNCHANGED <<pc, socketVars>>
     \/ Head(queue) = DisconnectTask /\ pc' = "disconnect"
        /\ UNCHANGED <<reading, socketVars>>
     \/ Head(queue) = UninitTask /\ UNCHANGED <<pc, reading, socketVars>>
  /\ UNCHANGED <<secure, conn, shut, ended, firstSend, reads>>

(* connect: libuv takes it, or refuses and the callback has the error.     *)
Connect ==
  /\ Running("connect")
  /\ \/ H!Submit /\ conn' = "connecting" /\ pc' = "idle"
     \/ conn' = "failed" /\ pc' = "close" /\ UNCHANGED socketVars
  /\ UNCHANGED <<vars, secure, reading, shut, ended, firstSend, reads>>

(* Mutant of ConnectCallback: the error branch does not close.             *)
ConnectCallbackNoClose(ok) ==
  /\ AtPoll /\ conn = "connecting"
  /\ H!Complete
  /\ conn' = IF ok THEN "up" ELSE "failed"
  /\ pc' = IF ok THEN "connected" ELSE "idle"
  /\ UNCHANGED <<vars, secure, reading, shut, ended, firstSend, reads>>

(* The socket's connect callback: on an error the client closes.           *)
ConnectCallback(ok) ==
  /\ AtPoll /\ conn = "connecting"
  /\ H!Complete
  /\ conn' = IF ok THEN "up" ELSE "failed"
  /\ pc' = IF ok THEN "connected" ELSE "close"
  /\ UNCHANGED <<vars, secure, reading, shut, ended, firstSend, reads>>

(* handle.read(), by the echo client or by SSLSocket for its handshake;    *)
(* SSLSocket then sends its first flight.                                  *)
StartReading ==
  /\ Running("connected")
  /\ SendCall(LoopThread, ReadTask)
  /\ pc' = IF secure THEN "write" ELSE "idle"
  /\ UNCHANGED <<secure, socketVars, conn, reading, shut, ended, firstSend,
                 reads>>

(* A write on the open socket.                                             *)
Write ==
  /\ Running("write")
  /\ H!Submit
  /\ pc' = "idle"
  /\ UNCHANGED <<vars, secure, conn, reading, shut, ended, firstSend, reads>>

(* TLS: the peer's flights finish the handshake, whereupon the client      *)
(* writes its request, or break it, of which it is not told.               *)
Handshake(ok) ==
  /\ AtPoll /\ secure /\ reading /\ conn = "up"
  /\ conn' = IF ok THEN "secure" ELSE "failed"
  /\ pc' = IF ok THEN "write" ELSE "idle"
  /\ UNCHANGED <<vars, secure, socketVars, reading, shut, ended, firstSend,
                 reads>>

(* TLS: a record OpenSSL rejects breaks the connection, silently.          *)
TlsBreaks ==
  /\ AtPoll /\ reading /\ conn = "secure"
  /\ conn' = "failed"
  /\ UNCHANGED <<vars, secure, pc, socketVars, reading, shut, ended, firstSend,
                 reads>>

-----------------------------------------------------------------------------
(* SocketReadEvent.  The echo client answers the first one; after that it, *)
(* like the https client at once, asks the loop to disconnect.             *)
ReadEvent ==
  /\ AtPoll /\ reading /\ conn = (IF secure THEN "secure" ELSE "up")
  /\ reads < MaxReads
  /\ reads' = reads + 1
  /\ IF secure \/ firstSend
     THEN SendCall(LoopThread, DisconnectTask) /\ UNCHANGED <<pc, firstSend>>
     ELSE firstSend' = TRUE /\ pc' = "write" /\ UNCHANGED vars
  /\ UNCHANGED <<secure, socketVars, conn, reading, shut, ended>>

(* End of stream or a read error: libuv stops reading, and neither client  *)
(* listens to SocketEndEvent or ErrorEvent.                                *)
PeerEnds ==
  /\ AtPoll /\ reading
  /\ reading' = FALSE /\ ended' = TRUE
  /\ UNCHANGED <<vars, secure, pc, socketVars, conn, shut, firstSend, reads>>

(* TCPSocket::disconnect: uv_shutdown is taken, or refused at once when    *)
(* the socket was shut down or closed before; the callback closes.         *)
EchoDisconnect ==
  /\ Running("disconnect") /\ ~secure
  /\ IF life = "live" /\ shut = "no"
     THEN H!Submit /\ shut' = "pending" /\ pc' = "idle"
     ELSE pc' = "close" /\ UNCHANGED <<socketVars, shut>>
  /\ UNCHANGED <<vars, secure, conn, reading, ended, firstSend, reads>>

(* SSLSocket::disconnect: close_notify is written and the callback closes; *)
(* if SSL_shutdown fails it only reports the error.                        *)
HttpsDisconnect ==
  /\ Running("disconnect") /\ secure
  /\ IF conn = "secure" /\ shut = "no"
     THEN H!Submit /\ shut' = "done" /\ pc' = "close"
     ELSE pc' = "idle" /\ UNCHANGED <<socketVars, shut>>
  /\ UNCHANGED <<vars, secure, conn, reading, ended, firstSend, reads>>

(* Mutant of Close: uv_close is forgotten.                                 *)
CloseNothing ==
  /\ Running("close")
  /\ pc' = "idle" /\ reading' = FALSE
  /\ UNCHANGED <<vars, socketVars, secure, conn, shut, ended, firstSend, reads>>

(* handle.close(): once; reading stops.                                    *)
Close ==
  /\ Running("close")
  /\ pc' = "idle" /\ reading' = FALSE
  /\ IF life = "live" THEN H!Close ELSE UNCHANGED socketVars
  /\ UNCHANGED <<vars, secure, conn, shut, ended, firstSend, reads>>

-----------------------------------------------------------------------------
(* libuv answers what is pending: writes before the shutdown.              *)
Writes == pending - (IF shut = "pending" THEN 1 ELSE 0)

WriteCallback ==
  /\ AtPoll /\ conn # "connecting" /\ Writes > 0
  /\ H!Complete
  /\ UNCHANGED <<vars, secure, pc, conn, reading, shut, ended, firstSend,
                 reads>>

ShutdownCallback ==
  /\ AtPoll /\ shut = "pending" /\ Writes = 0
  /\ H!Complete
  /\ shut' = "done" /\ pc' = "close"
  /\ UNCHANGED <<vars, secure, conn, reading, ended, firstSend, reads>>

(* closeCallback: CloseEvent, then offAll drops the listeners, and with    *)
(* them the client, and the socket lets itself go.                         *)
CloseCallback ==
  /\ \/ AtPoll /\ H!Notify /\ pc' = "closed"
     \/ Running("closed") /\ H!Release /\ pc' = "idle"
  /\ UNCHANGED <<vars, secure, conn, reading, shut, ended, firstSend, reads>>

-----------------------------------------------------------------------------
(* uv_run goes on while the socket is active or closing.                   *)
SocketIdle == ~reading /\ pending = 0 /\ life \notin {"closing", "notified"}

LoopOwnStep ==
  /\ pc = "idle"
  /\ \/ Poll \/ DrainLock \/ TaskReturn \/ DrainEnd \/ UninitInTask \/ CloseDone
     \/ SocketIdle /\ LoopExit
  /\ UNCHANGED clientVars

(* th.join() and the end of main.                                          *)
CTerminated == Terminated /\ UNCHANGED clientVars

LoopThreadStep ==
  \/ Create \/ Start \/ LoopOwnStep \/ TaskStart \/ Connect \/ StartReading
  \/ Write \/ EchoDisconnect \/ HttpsDisconnect \/ Close \/ CloseCallback

Completion ==
  \/ WriteCallback \/ ShutdownCallback
  \/ \E ok \in BOOLEAN : ConnectCallback(ok)

PeerStep == ReadEvent \/ PeerEnds \/ TlsBreaks \/ \E ok \in BOOLEAN : Handshake(ok)

CNext ==
  \/ LoopThreadStep \/ HelperWakes \/ Completion \/ PeerStep
  \/ \E t \in Thread : SendStep(t) /\ UNCHANGED clientVars
  \/ CTerminated

CSafety == CInit /\ [][CNext]_allVars

(* Both threads run, the helper's sleep ends, and libuv answers what it    *)
(* was given (a write supposes that the peer goes on receiving).  The peer *)
(* need not send anything, finish the handshake or ever end.               *)
CFairness ==
  /\ WF_allVars(LoopThreadStep) /\ WF_allVars(HelperWakes)
  /\ WF_allVars(Completion)
  /\ \A t \in Thread : WF_allVars(SendStep(t) /\ UNCHANGED clientVars)

CSpec == CSafety /\ CFairness

-----------------------------------------------------------------------------
(* A disconnect() that runs takes the socket to its release, whatever was  *)
(* pending, however often it is asked for, and although the helper stops   *)
(* the queue meanwhile.  TLS must be intact: the https client only prints  *)
(* the error of a disconnect() that failed.                                *)
DisconnectReleases ==
  current = DisconnectTask /\ (secure => conn = "secure") ~> life = "gone"

(* uninit ends uv_run, unless all that is left is a connection the client  *)
(* reads from and the peer keeps open.                                     *)
RunReturns ==
  <>[](loopPc = "exited" \/ (asyncHandle = "closed" /\ life = "live" /\ reading))

(* When uv_run has returned, the socket is released; or the peer ended the *)
(* stream, which the clients do not act on; or a task of the client was    *)
(* queued too late to run.                                                 *)
ExitsReleased ==
  loopPc = "exited" => life = "gone" \/ ended \/ queue # <<>>
=============================================================================
