--------------------------- MODULE TcpSocketProofs ---------------------------
(* The socket's safety for any number of requests, reads and events:       *)
(* results are reported exactly once, no request object is used after it   *)
(* was deleted or kept after it is done, and the life of the socket is     *)
(* the one HandleLife promises.                                            *)
EXTENDS TcpSocket, TLAPS, SequenceTheorems, FiniteSetTheorems

(* create() queues init first and once; nobody uses the socket before it.  *)
TaskInv ==
  /\ \A i \in 1..Len(tasks) : tasks[i] = "init" => i = 1 /\ uv = "zeroed"
  /\ uv = "zeroed" => \A i \in 1..Len(tasks) : tasks[i] = "init"

(* libuv has no request of a socket before init or after its close.        *)
UvInv == \A r \in Req : state[r] = "uv" => uv \in {"open", "closing"}

(* libuv's queue holds the pending writes, each once.                      *)
QueueInv ==
  /\ \A i \in 1..Len(writeQ) : state[writeQ[i]] = "uv" /\ kind[writeQ[i]] = "write"
  /\ \A i, j \in 1..Len(writeQ) : writeQ[i] = writeQ[j] => i = j

(* libuv's callbacks do not nest: only refusals are reported inside        *)
(* another callback.  A request's callback runs once libuv is done with    *)
(* it, closeCallback while the handle still holds the socket.              *)
StackInv ==
  \A i \in 1..Len(stack) :
    /\ stack[i].on # "refused" => i = 1
    /\ stack[i].on = "request" => stack[i].req \in Req /\ state[stack[i].req] = "done"
    /\ stack[i].on = "close" => uv = "closed" /\ dataRef

(* There is at most one connect at a time, and libuv knows of it.          *)
Connecting(r) == state[r] = "uv" /\ kind[r] = "connect"
ConnectInv ==
  /\ \A r \in Req : Connecting(r) => conn = "connecting"
  /\ \A r, q \in Req : Connecting(r) /\ Connecting(q) => r = q

(* A queued start of reading finds its buffer.                             *)
StartInv ==
  uv = "open" => \A i \in 1..Len(tasks) : tasks[i] = "readStart" => readBuffer

IInv == /\ TypeOK /\ TaskInv /\ UvInv /\ QueueInv /\ StackInv /\ ConnectInv
        /\ CompletesOnce /\ NoDangling /\ RequestsFreed /\ ConnectedWasUp

ReadInv == StartInv /\ ReadingHasBuffer

-----------------------------------------------------------------------------
(* A frame on top of the stack, and the frame below it when it returns.    *)
On == {"init", "request", "refused", "read", "listen", "close"}

LEMMA PushFacts ==
  ASSUME stack \in Seq(Frame), NEW on \in On, NEW r \in Req \cup {NoReq},
         Push(on, r)
  PROVE  /\ stack' \in Seq(Frame)
         /\ Len(stack) \in Nat /\ Len(stack') = Len(stack) + 1
         /\ \A i \in 1..Len(stack) : stack'[i] = stack[i]
         /\ stack'[Len(stack) + 1] = [on |-> on, req |-> r]
<1>1. [on |-> on, req |-> r] \in Frame
  BY DEF On, Frame
<1> QED BY <1>1, AppendProperties, LenProperties DEF Push

LEMMA PopFacts ==
  ASSUME stack \in Seq(Frame), stack # <<>>, stack' = Front(stack)
  PROVE  /\ stack' \in Seq(Frame)
         /\ Len(stack) \in Nat \ {0}
         /\ Len(stack') = Len(stack) - 1
         /\ \A i \in 1..Len(stack) - 1 : stack'[i] = stack[i]
         /\ Last(stack) = stack[Len(stack)] /\ Last(stack) \in Frame
<1>1. Len(stack) \in Nat \ {0} /\ \A i \in 1..Len(stack) : stack[i] \in Frame
  BY EmptySeq, LenProperties
<1>2. \A i \in 1..Len(stack) - 1 : stack[i] \in Frame
  BY <1>1
<1>3. /\ SubSeq(stack, 1, Len(stack) - 1) \in Seq(Frame)
      /\ Len(SubSeq(stack, 1, Len(stack) - 1)) = Len(stack) - 1
      /\ \A i \in 1..Len(stack) - 1 : SubSeq(stack, 1, Len(stack) - 1)[i] = stack[i]
  <2>1. Len(stack) - 1 \in Int /\ 1 <= Len(stack) - 1 + 1
    BY <1>1
  <2>2. Len(stack) - 1 - 1 + 1 = Len(stack) - 1 /\ \A i \in Int : 1 + i - 1 = i
    BY <1>1
  <2> QED BY <1>2, <2>1, <2>2, SubSeqProperties
<1> QED BY <1>1, <1>3 DEF Front, Last

(* What becomes of a request and of the stack when libuv takes it, refuses *)
(* it or is done with it.                                                  *)
RequestTypes ==
  /\ kind \in [Req -> {"none", "connect", "write", "disconnect"}]
  /\ state \in [Req -> {"unused", "uv", "done", "refused"}]
  /\ ref \in [Req -> BOOLEAN]
  /\ completed \in [Req -> Nat]
  /\ stack \in Seq(Frame)

LEMMA RequestStep ==
  ASSUME RequestTypes, NEW r \in Req, NEW kept \in BOOLEAN,
         NEW k \in {"connect", "write", "disconnect"},
         Taken(k, r) \/ Refused(k, r, kept) \/ Publish(r)
  PROVE  RequestTypes'
<1> USE DEF RequestTypes
<1>1. CASE Taken(k, r)
  BY <1>1 DEF Taken
<1>2. CASE Refused(k, r, kept)
  <2>1. stack' \in Seq(Frame) BY <1>2, PushFacts DEF Refused, On
  <2> QED BY <1>2, <2>1 DEF Refused
<1>3. CASE Publish(r)
  <2>1. stack' \in Seq(Frame) BY <1>3, PushFacts DEF Publish, On
  <2> QED BY <1>3, <2>1 DEF Publish
<1> QED BY <1>1, <1>2, <1>3

(* Types are preserved.                                                    *)
LEMMA TypeStep == TypeOK /\ QueueInv /\ [Next]_vars => TypeOK'
<1> SUFFICES ASSUME TypeOK, QueueInv, [Next]_vars PROVE TypeOK'
  OBVIOUS
<1> USE DEF TypeOK, reqVars, On
<1>1. ASSUME NEW r \in Req, Connect(r) PROVE TypeOK'
  <2>1. RequestTypes' BY <1>1, RequestStep DEF Connect, RequestTypes
  <2> QED BY <1>1, <2>1 DEF Connect, RequestTypes
<1>2. ASSUME NEW r \in Req, Write(r) PROVE TypeOK'
  <2>1. RequestTypes' BY <1>2, RequestStep DEF Write, RequestTypes
  <2>2. writeQ' = Append(writeQ, r) \/ writeQ' = writeQ BY <1>2, Zenon DEF Write
  <2>3. writeQ \in Seq(Req) /\ Append(writeQ, r) \in Seq(Req) OBVIOUS
  <2>4. writeQ' \in Seq(Req) BY <2>2, <2>3, Zenon
  <2> QED BY <1>2, <2>1, <2>4 DEF Write, RequestTypes
<1>3. ASSUME NEW r \in Req, Disconnect(r) PROVE TypeOK'
  <2>1. RequestTypes' BY <1>3, RequestStep DEF Disconnect, RequestTypes
  <2> QED BY <1>3, <2>1 DEF Disconnect, RequestTypes
<1>4. CASE Read BY <1>4 DEF Read
<1>5. CASE CancelRead BY <1>5 DEF CancelRead
<1>6. CASE Close BY <1>6 DEF Close
<1>7. CASE Listen \/ Accept BY <1>7 DEF Listen, Accept
<1>8. CASE InitTask
  <2>1. stack' \in Seq(Frame) BY <1>8, PushFacts DEF InitTask
  <2>2. dataRef' \in BOOLEAN BY <1>8, Zenon DEF InitTask
  <2>3. uv' \in {"zeroed", "open", "closing", "closed"} BY <1>8 DEF InitTask
  <2>4. tasks' \in Seq({"init", "readStart"}) BY <1>8 DEF InitTask
  <2> QED BY <1>8, <2>1, <2>2, <2>3, <2>4, Zenon DEF InitTask
<1>9. CASE ReadStartTask
  <2>1. reading' \in BOOLEAN BY <1>9, Zenon DEF ReadStartTask
  <2>2. tasks' \in Seq({"init", "readStart"}) BY <1>9 DEF ReadStartTask
  <2>3. UNCHANGED <<uv, conn, shut, connected, readBuffer, dataRef, reqVars,
                    writeQ, stack, reads, events>>
    BY <1>9 DEF ReadStartTask
  <2> QED BY <2>1, <2>2, <2>3
<1>10. ASSUME NEW r \in Req, NEW ok \in BOOLEAN, ConnectCallback(r, ok)
       PROVE  TypeOK'
  <2>1. RequestTypes' BY <1>10, RequestStep DEF ConnectCallback, RequestTypes
  <2>2. connected' \in BOOLEAN BY <1>10, Zenon DEF ConnectCallback
  <2> QED BY <1>10, <2>1, <2>2 DEF ConnectCallback, RequestTypes
<1>11. ASSUME NEW r \in Req, WriteCallback(r) PROVE TypeOK'
  <2>1. RequestTypes' BY <1>11, RequestStep DEF WriteCallback, RequestTypes
  <2> QED BY <1>11, <2>1 DEF WriteCallback, RequestTypes
<1>12. ASSUME NEW r \in Req, ShutdownCallback(r) PROVE TypeOK'
  <2>1. RequestTypes' BY <1>12, RequestStep DEF ShutdownCallback, RequestTypes
  <2> QED BY <1>12, <2>1 DEF ShutdownCallback, RequestTypes
<1>13. CASE ReadCallback
  <2>1. stack' \in Seq(Frame) BY <1>13, PushFacts DEF ReadCallback
  <2> QED BY <1>13, <2>1 DEF ReadCallback
<1>14. CASE ReadEndCallback
  <2>1. stack' \in Seq(Frame) BY <1>14, PushFacts DEF ReadEndCallback
  <2>2. events' \in Nat BY <1>14 DEF ReadEndCallback
  <2> QED BY <1>14, <2>1, <2>2, Zenon DEF ReadEndCallback
<1>15. CASE ListenCallback
  <2>1. stack' \in Seq(Frame) BY <1>15, PushFacts DEF ListenCallback
  <2> QED BY <1>15, <2>1 DEF ListenCallback
<1>16. CASE CloseCallback
  <2>1. stack' \in Seq(Frame) BY <1>16, PushFacts DEF CloseCallback
  <2> QED BY <1>16, <2>1 DEF CloseCallback
<1>17. CASE Return
  <2>1. stack' \in Seq(Frame) BY <1>17, PopFacts DEF Return
  <2>2. dataRef' \in BOOLEAN BY <1>17, Zenon DEF Return
  <2>3. ref' \in [Req -> BOOLEAN] BY <1>17 DEF Return
  <2> QED BY <1>17, <2>1, <2>2, <2>3 DEF Return
<1>18. CASE UNCHANGED vars BY <1>18 DEF vars
<1> QED
  BY <1>1, <1>2, <1>3, <1>4, <1>5, <1>6, <1>7, <1>8, <1>9, <1>10, <1>11,
     <1>12, <1>13, <1>14, <1>15, <1>16, <1>17, <1>18
  DEF Next, ProgramStep, TaskStep, Completion, NetworkStep, Abandoned

-----------------------------------------------------------------------------
(* The six shapes of a step, as far as requests, callbacks and the handle  *)
(* are concerned: libuv takes a request, refuses it, or answers it; a      *)
(* callback that is not a request's starts; a callback returns; or none.   *)
Kinds == {"connect", "write", "disconnect"}

Takes(k, r) ==
  /\ Taken(k, r) /\ uv = "open"
  /\ writeQ' = IF k = "write" THEN Append(writeQ, r) ELSE writeQ
  /\ conn' = IF k = "connect" THEN "connecting" ELSE conn
  /\ k = "connect" => conn # "connecting"
  /\ UNCHANGED <<uv, dataRef>>

Refuses(k, r) ==
  /\ \E kept \in BOOLEAN : Refused(k, r, kept) /\ (kept => k = "write")
  /\ conn' = conn \/ conn # "connecting"
  /\ UNCHANGED <<uv, dataRef, writeQ>>

Answers(r) ==
  /\ stack = <<>> /\ state[r] = "uv" /\ Publish(r)
  /\ IF kind[r] = "write"
     THEN writeQ # <<>> /\ Head(writeQ) = r /\ writeQ' = Tail(writeQ)
     ELSE UNCHANGED writeQ
  /\ kind[r] = "connect" \/ UNCHANGED conn
  /\ UNCHANGED <<uv, dataRef>>

Calls(on) ==
  /\ stack = <<>> /\ Push(on, NoReq)
  /\ IF on = "close"
     THEN uv = "closing" /\ uv' = "closed" /\ InUv = {} /\ UNCHANGED dataRef
     ELSE \/ uv = "zeroed" /\ uv' = "open" /\ dataRef' = TRUE
          \/ UNCHANGED <<uv, dataRef>>
  /\ conn' = conn \/ conn # "connecting"
  /\ UNCHANGED <<kind, state, ref, completed, writeQ>>

Stays ==
  /\ uv' = uv \/ (uv = "open" /\ uv' = "closing")
  /\ conn' = conn \/ conn = "none"
  /\ UNCHANGED <<kind, state, ref, completed, writeQ, stack, dataRef>>

Shape ==
  \/ \E r \in Req, k \in Kinds : Takes(k, r) \/ Refuses(k, r)
  \/ \E r \in Req : Answers(r)
  \/ \E on \in On \ {"request", "refused"} : Calls(on)
  \/ Return
  \/ Stays

LEMMA Shapes == TypeOK /\ TaskInv /\ QueueInv /\ [Next]_vars => Shape
<1> SUFFICES ASSUME TypeOK, TaskInv, QueueInv, [Next]_vars PROVE Shape
  OBVIOUS
<1> USE DEF reqVars, On, Kinds
<1>1. ASSUME NEW r \in Req, Connect(r) PROVE Shape
  <2>1. Takes("connect", r) \/ Refuses("connect", r)
    BY <1>1 DEF Connect, Takes, Refuses, UvTakesConnect
  <2> QED BY <2>1 DEF Shape
<1>2. ASSUME NEW r \in Req, Write(r) PROVE Shape
  <2>1. Takes("write", r) \/ Refuses("write", r)
    BY <1>2 DEF Write, Takes, Refuses, UvTakesStream
  <2> QED BY <2>1 DEF Shape
<1>3. ASSUME NEW r \in Req, Disconnect(r) PROVE Shape
  <2>1. Takes("disconnect", r) \/ Refuses("disconnect", r)
    BY <1>3 DEF Disconnect, Takes, Refuses, UvTakesShutdown, UvTakesStream
  <2> QED BY <2>1 DEF Shape
<1>4. CASE Read \/ CancelRead \/ ReadStartTask \/ UNCHANGED vars
  <2>1. Stays BY <1>4 DEF Read, CancelRead, ReadStartTask, vars, Stays
  <2> QED BY <2>1 DEF Shape
<1>5. CASE Close
  <2>1. Stays BY <1>5 DEF Close, Stays
  <2> QED BY <2>1 DEF Shape
<1>6. CASE Listen \/ Accept
  <2>1. Stays BY <1>6 DEF Listen, Accept, Stays
  <2> QED BY <2>1 DEF Shape
<1>7. CASE InitTask
  <2>1. Len(tasks) \in Nat /\ 1 \in 1..Len(tasks) /\ tasks[1] = "init"
    BY <1>7 DEF InitTask, TypeOK
  <2>2. uv = "zeroed" BY <2>1 DEF TaskInv
  <2>3. Calls("init") BY <1>7, <2>2, Zenon DEF InitTask, Calls
  <2> QED BY <2>3 DEF Shape
<1>8. ASSUME NEW r \in Req, NEW ok \in BOOLEAN, ConnectCallback(r, ok)
      PROVE  Shape
  <2>1. Answers(r) BY <1>8 DEF ConnectCallback, Answers
  <2> QED BY <2>1 DEF Shape
<1>9. ASSUME NEW r \in Req, WriteCallback(r) PROVE Shape
  <2>1. Len(writeQ) \in Nat /\ 1 \in 1..Len(writeQ) /\ writeQ[1] = r
    BY <1>9 DEF WriteCallback, TypeOK
  <2>2. state[r] = "uv" /\ kind[r] = "write" BY <2>1 DEF QueueInv
  <2>3. Answers(r) BY <1>9, <2>2, Zenon DEF WriteCallback, Answers
  <2> QED BY <2>3 DEF Shape
<1>10. ASSUME NEW r \in Req, ShutdownCallback(r) PROVE Shape
  <2>1. Answers(r) BY <1>10 DEF ShutdownCallback, Answers
  <2> QED BY <2>1 DEF Shape
<1>11. CASE ReadCallback \/ ReadEndCallback
  <2>1. Calls("read") BY <1>11 DEF ReadCallback, ReadEndCallback, Calls
  <2> QED BY <2>1 DEF Shape
<1>12. CASE ListenCallback
  <2>1. Calls("listen") BY <1>12 DEF ListenCallback, Calls
  <2> QED BY <2>1 DEF Shape
<1>13. CASE CloseCallback
  <2>1. Calls("close") BY <1>13 DEF CloseCallback, Calls
  <2> QED BY <2>1 DEF Shape
<1> QED
  BY <1>1, <1>2, <1>3, <1>4, <1>5, <1>6, <1>7, <1>8, <1>9, <1>10, <1>11,
     <1>12, <1>13
  DEF Next, ProgramStep, TaskStep, Completion, NetworkStep, Abandoned, Shape

-----------------------------------------------------------------------------
(* Each part of the invariant is kept by every shape.                      *)
LEMMA UvStep == TypeOK /\ UvInv /\ Shape => UvInv'
<1> SUFFICES ASSUME TypeOK, UvInv, Shape PROVE UvInv'
  OBVIOUS
<1> USE DEF UvInv, TypeOK
<1>1. ASSUME NEW r \in Req, NEW k \in Kinds, Takes(k, r) PROVE UvInv'
  BY <1>1 DEF Takes, Taken
<1>2. ASSUME NEW r \in Req, NEW k \in Kinds, Refuses(k, r) PROVE UvInv'
  BY <1>2 DEF Refuses, Refused
<1>3. ASSUME NEW r \in Req, Answers(r) PROVE UvInv'
  BY <1>3 DEF Answers, Publish
<1>4. ASSUME NEW on \in On, Calls(on) PROVE UvInv'
  BY <1>4 DEF Calls, InUv
<1>5. CASE Return BY <1>5 DEF Return
<1>6. CASE Stays BY <1>6 DEF Stays
<1> QED BY <1>1, <1>2, <1>3, <1>4, <1>5, <1>6 DEF Shape

LEMMA QueueStep == TypeOK /\ QueueInv /\ Shape => QueueInv'
<1> SUFFICES ASSUME TypeOK, QueueInv, Shape PROVE QueueInv'
  OBVIOUS
<1> USE DEF QueueInv, TypeOK
<1>0. Len(writeQ) \in Nat /\ \A i \in 1..Len(writeQ) : writeQ[i] \in Req
  OBVIOUS
<1>1. ASSUME NEW r \in Req, NEW k \in Kinds, Takes(k, r) PROVE QueueInv'
  <2>1. state[r] = "unused" /\ state'[r] = "uv" /\ kind'[r] = k
        /\ \A q \in Req \ {r} : state'[q] = state[q] /\ kind'[q] = kind[q]
    BY <1>1 DEF Takes, Taken
  <2>2. \A i \in 1..Len(writeQ) : writeQ[i] \in Req \ {r}
    BY <1>0, <2>1
  <2>3. CASE k = "write"
    <3>1. writeQ' = Append(writeQ, r) BY <1>1, <2>3 DEF Takes
    <3>2. /\ Len(writeQ') = Len(writeQ) + 1
          /\ writeQ'[Len(writeQ) + 1] = r
          /\ \A i \in 1..Len(writeQ) : writeQ'[i] = writeQ[i]
      BY <3>1
    <3>3. ASSUME NEW i \in 1..Len(writeQ')
          PROVE  \/ i \in 1..Len(writeQ) /\ writeQ'[i] = writeQ[i]
                 \/ i = Len(writeQ) + 1 /\ writeQ'[i] = r
      BY <1>0, <3>2
    <3>4. \A i \in 1..Len(writeQ') : state'[writeQ'[i]] = "uv" /\ kind'[writeQ'[i]] = "write"
      BY <2>1, <2>2, <2>3, <3>3
    <3>5. \A i, j \in 1..Len(writeQ') : writeQ'[i] = writeQ'[j] => i = j
      BY <2>2, <3>3
    <3> QED BY <3>4, <3>5
  <2>4. CASE k # "write"
    <3>1. writeQ' = writeQ BY <1>1, <2>4 DEF Takes
    <3> QED BY <2>1, <2>2, <3>1
  <2> QED BY <2>3, <2>4
<1>2. ASSUME NEW r \in Req, NEW k \in Kinds, Refuses(k, r) PROVE QueueInv'
  <2>1. /\ state[r] = "unused" /\ UNCHANGED writeQ
        /\ \A q \in Req \ {r} : state'[q] = state[q] /\ kind'[q] = kind[q]
    BY <1>2 DEF Refuses, Refused
  <2>2. \A i \in 1..Len(writeQ) : writeQ[i] \in Req \ {r}
    BY <1>0, <2>1
  <2>3. \A i \in 1..Len(writeQ) :
          state'[writeQ[i]] = state[writeQ[i]] /\ kind'[writeQ[i]] = kind[writeQ[i]]
    BY <2>1, <2>2
  <2>4. writeQ' = writeQ BY <2>1
  <2> QED BY <2>3, <2>4
<1>3. ASSUME NEW r \in Req, Answers(r) PROVE QueueInv'
  <2>1. /\ \A q \in Req \ {r} : state'[q] = state[q]
        /\ kind' = kind
    BY <1>3 DEF Answers, Publish
  <2>2. CASE kind[r] = "write"
    <3>1. writeQ # <<>> /\ Head(writeQ) = r /\ writeQ' = Tail(writeQ)
      BY <1>3, <2>2 DEF Answers
    <3>2. /\ writeQ[1] = r /\ Len(writeQ') = Len(writeQ) - 1 /\ 1 \in 1..Len(writeQ)
          /\ \A i \in 1..Len(writeQ) - 1 : writeQ'[i] = writeQ[i + 1]
      BY <3>1
    <3>3. \A i \in 1..Len(writeQ) - 1 : i + 1 \in 1..Len(writeQ) /\ i + 1 # 1
      BY <1>0
    <3>4. \A i \in 1..Len(writeQ) - 1 : writeQ[i + 1] \in Req \ {r}
      BY <1>0, <3>2, <3>3
    <3>5. \A i, j \in 1..Len(writeQ) - 1 : i + 1 = j + 1 => i = j
      BY <1>0
    <3>6. \A i \in 1..Len(writeQ') :
             i \in 1..Len(writeQ) - 1 /\ writeQ'[i] = writeQ[i + 1]
      BY <3>2
    <3>7. ASSUME NEW i \in 1..Len(writeQ')
          PROVE  state'[writeQ'[i]] = "uv" /\ kind'[writeQ'[i]] = "write"
      <4>1. state[writeQ[i + 1]] = "uv" /\ kind[writeQ[i + 1]] = "write"
        BY <3>3, <3>6
      <4> QED BY <2>1, <3>4, <3>6, <4>1
    <3>8. ASSUME NEW i \in 1..Len(writeQ'), NEW j \in 1..Len(writeQ'),
                 writeQ'[i] = writeQ'[j]
          PROVE  i = j
      <4>1. writeQ[i + 1] = writeQ[j + 1] BY <3>6, <3>8
      <4>2. i + 1 = j + 1 BY <3>3, <3>6, <4>1
      <4> QED BY <3>5, <3>6, <4>2
    <3> QED BY <3>7, <3>8
  <2>3. CASE kind[r] # "write"
    <3>1. writeQ' = writeQ BY <1>3, <2>3 DEF Answers
    <3>2. \A i \in 1..Len(writeQ) : writeQ[i] \in Req \ {r}
      BY <1>0, <2>3
    <3> QED BY <2>1, <3>1, <3>2
  <2> QED BY <2>2, <2>3
<1>4. ASSUME NEW on \in On, Calls(on) PROVE QueueInv'
  BY <1>4 DEF Calls
<1>5. CASE Return BY <1>5 DEF Return
<1>6. CASE Stays BY <1>6 DEF Stays
<1> QED BY <1>1, <1>2, <1>3, <1>4, <1>5, <1>6 DEF Shape

LEMMA ConnectStep == TypeOK /\ ConnectInv /\ Shape => ConnectInv'
<1> SUFFICES ASSUME TypeOK, ConnectInv, Shape PROVE ConnectInv'
  OBVIOUS
<1> USE DEF ConnectInv, Connecting, TypeOK
<1>1. ASSUME NEW r \in Req, NEW k \in Kinds, Takes(k, r) PROVE ConnectInv'
  <2>1. /\ state'[r] = "uv" /\ kind'[r] = k
        /\ \A q \in Req \ {r} : state'[q] = state[q] /\ kind'[q] = kind[q]
    BY <1>1 DEF Takes, Taken
  <2>2. k = "connect" => conn' = "connecting" /\ \A q \in Req : ~Connecting(q)
    BY <1>1 DEF Takes
  <2>3. k # "connect" => conn' = conn
    BY <1>1 DEF Takes
  <2>4. CASE k = "connect"
    <3>1. \A q \in Req : Connecting(q)' => q = r BY <2>1, <2>2, <2>4
    <3> QED BY <2>2, <2>4, <3>1
  <2>5. CASE k # "connect" BY <2>1, <2>3, <2>5
  <2> QED BY <2>4, <2>5
<1>2. ASSUME NEW r \in Req, NEW k \in Kinds, Refuses(k, r) PROVE ConnectInv'
  <2>1. /\ state'[r] = "refused"
        /\ \A q \in Req \ {r} : state'[q] = state[q] /\ kind'[q] = kind[q]
    BY <1>2 DEF Refuses, Refused
  <2> QED BY <1>2, <2>1 DEF Refuses
<1>3. ASSUME NEW r \in Req, Answers(r) PROVE ConnectInv'
  <2>1. /\ state[r] = "uv" /\ state'[r] = "done" /\ kind' = kind
        /\ \A q \in Req \ {r} : state'[q] = state[q]
    BY <1>3 DEF Answers, Publish
  <2> QED BY <1>3, <2>1 DEF Answers
<1>4. ASSUME NEW on \in On, Calls(on) PROVE ConnectInv'
  BY <1>4 DEF Calls
<1>5. CASE Return BY <1>5 DEF Return
<1>6. CASE Stays BY <1>6 DEF Stays
<1> QED BY <1>1, <1>2, <1>3, <1>4, <1>5, <1>6 DEF Shape

LEMMA CompletesStep == TypeOK /\ CompletesOnce /\ Shape => CompletesOnce'
<1> SUFFICES ASSUME TypeOK, CompletesOnce, Shape PROVE CompletesOnce'
  OBVIOUS
<1>0. \A r \in Req : state[r] = "unused" \/ state[r] = "uv" => completed[r] = 0
  <2> SUFFICES ASSUME NEW r \in Req, state[r] = "unused" \/ state[r] = "uv"
               PROVE  completed[r] = 0
    OBVIOUS
  <2>1. completed[r] \in Nat BY DEF TypeOK
  <2>2. completed[r] + 0 = 0 \/ completed[r] + 1 = 1 BY <2>1 DEF CompletesOnce
  <2> QED BY <2>1, <2>2
<1> USE DEF CompletesOnce, TypeOK
<1>1. ASSUME NEW r \in Req, NEW k \in Kinds, Takes(k, r) PROVE CompletesOnce'
  <2>1. /\ state[r] = "unused" /\ state'[r] = "uv" /\ completed' = completed
        /\ \A q \in Req \ {r} : state'[q] = state[q]
    BY <1>1 DEF Takes, Taken
  <2>2. completed[r] = 0 BY <1>0, <2>1, Zenon
  <2>3. completed'[r] + (IF state'[r] = "uv" THEN 1 ELSE 0) = 1 /\ state'[r] # "unused"
    BY <2>1, <2>2
  <2>4. ASSUME NEW q \in Req, q # r
        PROVE  completed'[q] = completed[q] /\ state'[q] = state[q]
    BY <2>1, <2>4
  <2> QED BY <2>3, <2>4
<1>2. ASSUME NEW r \in Req, NEW k \in Kinds, Refuses(k, r) PROVE CompletesOnce'
  <2>1. /\ state[r] = "unused" /\ state'[r] = "refused"
        /\ completed'[r] = completed[r] + 1
        /\ \A q \in Req \ {r} : state'[q] = state[q] /\ completed'[q] = completed[q]
    BY <1>2 DEF Refuses, Refused
  <2>2. completed[r] = 0 BY <1>0, <2>1, Zenon
  <2>3. completed'[r] + (IF state'[r] = "uv" THEN 1 ELSE 0) = 1 /\ state'[r] # "unused"
    BY <2>1, <2>2
  <2>4. ASSUME NEW q \in Req, q # r
        PROVE  completed'[q] = completed[q] /\ state'[q] = state[q]
    BY <2>1, <2>4
  <2> QED BY <2>3, <2>4
<1>3. ASSUME NEW r \in Req, Answers(r) PROVE CompletesOnce'
  <2>1. /\ state[r] = "uv" /\ state'[r] = "done"
        /\ completed'[r] = completed[r] + 1
        /\ \A q \in Req \ {r} : state'[q] = state[q] /\ completed'[q] = completed[q]
    BY <1>3 DEF Answers, Publish
  <2>2. completed[r] = 0 BY <1>0, <2>1, Zenon
  <2>3. completed'[r] + (IF state'[r] = "uv" THEN 1 ELSE 0) = 1 /\ state'[r] # "unused"
    BY <2>1, <2>2
  <2>4. ASSUME NEW q \in Req, q # r
        PROVE  completed'[q] = completed[q] /\ state'[q] = state[q]
    BY <2>1, <2>4
  <2> QED BY <2>3, <2>4
<1>4. ASSUME NEW on \in On, Calls(on) PROVE CompletesOnce'
  BY <1>4 DEF Calls
<1>5. CASE Return BY <1>5 DEF Return
<1>6. CASE Stays BY <1>6 DEF Stays
<1> QED BY <1>1, <1>2, <1>3, <1>4, <1>5, <1>6 DEF Shape

(* The frames after a step: those before it and the one pushed.            *)
LEMMA PushedFrame ==
  ASSUME stack \in Seq(Frame), NEW on \in On, NEW r \in Req \cup {NoReq},
         Push(on, r), NEW i \in 1..Len(stack')
  PROVE  \/ i \in 1..Len(stack) /\ stack'[i] = stack[i]
         \/ /\ i = Len(stack) + 1
            /\ stack'[i] = [on |-> on, req |-> r]
            /\ stack'[i].on = on /\ stack'[i].req = r
BY PushFacts

(* A callback libuv makes finds the stack empty: its frame is the first.   *)
LEMMA FirstFrame ==
  ASSUME stack = <<>>, NEW on \in On, NEW r \in Req \cup {NoReq}, Push(on, r)
  PROVE  /\ Len(stack') = 1
         /\ stack'[1] = [on |-> on, req |-> r]
         /\ stack'[1].on = on /\ stack'[1].req = r
BY DEF Push

(* Return deletes the object of the request whose callback returns.        *)
LEMMA ReturnFacts ==
  ASSUME TypeOK, StackInv, Return
  PROVE  /\ Len(stack) \in Nat \ {0}
         /\ Len(stack') = Len(stack) - 1
         /\ \A i \in 1..Len(stack') : i \in 1..Len(stack) /\ stack'[i] = stack[i]
         /\ stack[Len(stack)].on = "request"
              => /\ Len(stack) = 1 /\ stack[Len(stack)].req \in Req
                 /\ state[stack[Len(stack)].req] = "done"
                 /\ ref'[stack[Len(stack)].req] = FALSE
                 /\ \A q \in Req : q # stack[Len(stack)].req => ref'[q] = ref[q]
         /\ stack[Len(stack)].on # "request" => ref' = ref
         /\ stack[Len(stack)].on = "close" => Len(stack) = 1 /\ uv = "closed"
         /\ stack[Len(stack)].on # "close" => dataRef' = dataRef
         /\ stack[Len(stack)].on = "close" => dataRef' = FALSE
         /\ UNCHANGED <<uv, state, kind, completed, conn, writeQ>>
<1>1. stack \in Seq(Frame) /\ stack # <<>> /\ stack' = Front(stack)
  BY DEF TypeOK, Return
<1>2. /\ Len(stack) \in Nat \ {0} /\ Len(stack') = Len(stack) - 1
      /\ \A i \in 1..Len(stack) - 1 : stack'[i] = stack[i]
      /\ Last(stack) = stack[Len(stack)]
  BY <1>1, PopFacts
<1>3. Len(stack) \in 1..Len(stack) BY <1>2
<1>4. /\ stack[Len(stack)].on # "refused" => Len(stack) = 1
      /\ stack[Len(stack)].on = "request"
           => /\ stack[Len(stack)].req \in Req
              /\ state[stack[Len(stack)].req] = "done"
      /\ stack[Len(stack)].on = "close" => uv = "closed"
  BY <1>3 DEF StackInv
<1>5. \A i \in 1..Len(stack') : i \in 1..Len(stack) /\ stack'[i] = stack[i]
  BY <1>2
<1>6. dataRef' = (dataRef /\ stack[Len(stack)].on # "close")
  BY <1>2 DEF Return
<1>7. ref' = IF stack[Len(stack)].on = "request"
               THEN [ref EXCEPT ![stack[Len(stack)].req] = FALSE] ELSE ref
  BY <1>2 DEF Return
<1>8. UNCHANGED <<uv, state, kind, completed, conn, writeQ>>
  BY DEF Return
<1>9. /\ stack[Len(stack)].on = "request"
           => /\ ref'[stack[Len(stack)].req] = FALSE
              /\ \A q \in Req : q # stack[Len(stack)].req => ref'[q] = ref[q]
      /\ stack[Len(stack)].on # "request" => ref' = ref
  BY <1>4, <1>7 DEF TypeOK
<1>10. /\ stack[Len(stack)].on # "close" => dataRef' = dataRef
       /\ stack[Len(stack)].on = "close" => dataRef' = FALSE
  BY <1>6, Zenon DEF TypeOK
<1> QED BY <1>2, <1>4, <1>5, <1>8, <1>9, <1>10

LEMMA StackStep == TypeOK /\ StackInv /\ NoDangling /\ Shape => StackInv'
<1> SUFFICES ASSUME TypeOK, StackInv, NoDangling, Shape,
                    NEW i \in 1..Len(stack')
             PROVE  /\ stack'[i].on # "refused" => i = 1
                    /\ stack'[i].on = "request"
                         => stack'[i].req \in Req /\ state'[stack'[i].req] = "done"
                    /\ stack'[i].on = "close" => uv' = "closed" /\ dataRef'
  BY DEF StackInv
<1> DEFINE Goal == /\ stack'[i].on # "refused" => i = 1
                   /\ stack'[i].on = "request"
                        => stack'[i].req \in Req /\ state'[stack'[i].req] = "done"
                   /\ stack'[i].on = "close" => uv' = "closed" /\ dataRef'
<1>0. stack \in Seq(Frame) /\ state \in [Req -> {"unused", "uv", "done", "refused"}]
  BY DEF TypeOK
<1>1. ASSUME NEW r \in Req, NEW k \in Kinds, Takes(k, r) PROVE Goal
  <2>1. /\ state[r] = "unused" /\ UNCHANGED <<stack, uv, dataRef>>
        /\ \A q \in Req \ {r} : state'[q] = state[q]
    BY <1>0, <1>1 DEF Takes, Taken
  <2> QED BY <2>1 DEF StackInv
<1>2. ASSUME NEW r \in Req, NEW k \in Kinds, Refuses(k, r) PROVE Goal
  <2>1. /\ state[r] = "unused" /\ UNCHANGED <<uv, dataRef>> /\ Push("refused", r)
        /\ \A q \in Req \ {r} : state'[q] = state[q]
    BY <1>0, <1>2 DEF Refuses, Refused
  <2>2. \/ i \in 1..Len(stack) /\ stack'[i] = stack[i]
        \/ stack'[i].on = "refused"
    <3>1. r \in Req \cup {NoReq} /\ "refused" \in On BY DEF On
    <3> QED BY <1>0, <2>1, <3>1, PushedFrame, Zenon
  <2> QED BY <2>1, <2>2 DEF StackInv
<1>3. ASSUME NEW r \in Req, Answers(r) PROVE Goal
  <2>1. stack = <<>> /\ Push("request", r) /\ state'[r] = "done"
    BY <1>0, <1>3 DEF Answers, Publish
  <2>2. Len(stack') = 1 /\ stack'[1].on = "request" /\ stack'[1].req = r
    BY <2>1, FirstFrame DEF On
  <2> QED BY <2>1, <2>2
<1>4. ASSUME NEW on \in On \ {"request", "refused"}, Calls(on) PROVE Goal
  <2>1. stack = <<>> /\ Push(on, NoReq) BY <1>4 DEF Calls
  <2>2. Len(stack') = 1 /\ stack'[1].on = on
    BY <2>1, FirstFrame DEF On
  <2>3. on = "close" => uv' = "closed" /\ dataRef'
    <3>1. uv = "closing" => dataRef BY DEF NoDangling
    <3> QED BY <1>4, <3>1, Zenon DEF Calls
  <2> QED BY <2>2, <2>3
<1>5. CASE Return
  <2>1. i \in 1..Len(stack) /\ stack'[i] = stack[i] /\ i # Len(stack)
        /\ UNCHANGED <<uv, state>>
    BY <1>5, ReturnFacts
  <2>2. stack[i].on # "refused" => i = 1 BY <2>1 DEF StackInv
  <2>3. stack[i].on = "close" => dataRef' = dataRef
    BY <1>5, <2>1, <2>2, ReturnFacts
  <2> QED BY <2>1, <2>2, <2>3 DEF StackInv
<1>6. CASE Stays
  <2>1. UNCHANGED <<stack, state, dataRef>> /\ (uv = "closed" => uv' = "closed")
    BY <1>6 DEF Stays
  <2> QED BY <2>1 DEF StackInv
<1> QED BY <1>1, <1>2, <1>3, <1>4, <1>5, <1>6 DEF Shape

LEMMA DanglingStep ==
  TypeOK /\ StackInv /\ NoDangling /\ Shape => NoDangling'
<1> SUFFICES ASSUME TypeOK, StackInv, NoDangling, Shape PROVE NoDangling'
  OBVIOUS
<1>0. /\ stack \in Seq(Frame)
      /\ state \in [Req -> {"unused", "uv", "done", "refused"}]
      /\ ref \in [Req -> BOOLEAN]
      /\ \A i \in 1..Len(stack) : stack[i].on = "request" =>
           stack[i].req \in Req /\ state[stack[i].req] = "done" /\ ref[stack[i].req]
      /\ \A r \in Req : state[r] = "uv" => ref[r]
      /\ uv \in {"open", "closing"} => dataRef
  BY DEF TypeOK, StackInv, NoDangling
<1>1. ASSUME NEW r \in Req, NEW k \in Kinds, Takes(k, r) PROVE NoDangling'
  <2>1. /\ ref'[r] = TRUE /\ UNCHANGED <<stack, uv, dataRef>>
        /\ \A q \in Req \ {r} : state'[q] = state[q] /\ ref'[q] = ref[q]
    BY <1>0, <1>1 DEF Takes, Taken
  <2> QED BY <1>0, <2>1 DEF NoDangling
<1>2. ASSUME NEW r \in Req, NEW k \in Kinds, Refuses(k, r) PROVE NoDangling'
  <2>1. /\ state[r] = "unused" /\ state'[r] = "refused"
        /\ UNCHANGED <<uv, dataRef>> /\ Push("refused", r)
        /\ \A q \in Req \ {r} : state'[q] = state[q] /\ ref'[q] = ref[q]
    BY <1>0, <1>2 DEF Refuses, Refused
  <2>2. ASSUME NEW i \in 1..Len(stack'), stack'[i].on = "request"
        PROVE  ref'[stack'[i].req]
    <3>1. i \in 1..Len(stack) /\ stack'[i] = stack[i]
      BY <1>0, <2>1, <2>2, PushedFrame DEF On
    <3> QED BY <1>0, <2>1, <2>2, <3>1
  <2>3. \A q \in Req : state'[q] = "uv" => ref'[q] BY <1>0, <2>1
  <2>4. uv' \in {"open", "closing"} => dataRef' BY <1>0, <2>1
  <2> QED BY <2>2, <2>3, <2>4 DEF NoDangling
<1>3. ASSUME NEW r \in Req, Answers(r) PROVE NoDangling'
  <2>1. /\ stack = <<>> /\ Push("request", r) /\ ref' = ref /\ state[r] = "uv"
        /\ UNCHANGED <<uv, dataRef>> /\ state'[r] = "done"
        /\ \A q \in Req \ {r} : state'[q] = state[q]
    BY <1>0, <1>3 DEF Answers, Publish
  <2>2. Len(stack') = 1 /\ stack'[1].on = "request" /\ stack'[1].req = r
    BY <2>1, FirstFrame DEF On
  <2>3. \A q \in Req : state'[q] = "uv" => ref'[q] BY <1>0, <2>1
  <2>4. uv' \in {"open", "closing"} => dataRef' BY <1>0, <2>1
  <2> QED BY <1>0, <2>1, <2>2, <2>3, <2>4 DEF NoDangling
<1>4. ASSUME NEW on \in On \ {"request", "refused"}, Calls(on) PROVE NoDangling'
  <2>1. stack = <<>> /\ Push(on, NoReq) /\ UNCHANGED <<state, ref>>
    BY <1>4 DEF Calls
  <2>2. Len(stack') = 1 /\ stack'[1].on # "request"
    BY <2>1, FirstFrame DEF On
  <2>3. uv' \in {"open", "closing"} => dataRef'
    BY <1>0, <1>4, Zenon DEF Calls
  <2> QED BY <1>0, <2>1, <2>2, <2>3 DEF NoDangling
<1>5. CASE Return
  <2>1. ASSUME NEW i \in 1..Len(stack'), stack'[i].on = "request"
        PROVE  ref'[stack'[i].req]
    <3>1. i \in 1..Len(stack) /\ stack'[i] = stack[i] /\ Len(stack) # 1
      BY <1>5, ReturnFacts
    <3>2. ref' = ref BY <1>5, <3>1, ReturnFacts
    <3> QED BY <1>0, <2>1, <3>1, <3>2
  <2>2. \A q \in Req : state'[q] = "uv" => ref'[q]
    BY <1>0, <1>5, ReturnFacts
  <2>3. uv' \in {"open", "closing"} => dataRef'
    <3>1. uv' = uv /\ (uv # "closed" => dataRef' = dataRef)
      BY <1>5, ReturnFacts
    <3> QED BY <1>0, <3>1
  <2> QED BY <2>1, <2>2, <2>3 DEF NoDangling
<1>6. CASE Stays
  <2>1. UNCHANGED <<stack, state, ref, dataRef>>
        /\ (uv' = uv \/ (uv = "open" /\ uv' = "closing"))
    BY <1>6 DEF Stays
  <2> QED BY <1>0, <2>1 DEF NoDangling
<1> QED BY <1>1, <1>2, <1>3, <1>4, <1>5, <1>6 DEF Shape

(* A request's callback is running.                                        *)
Answering(r) == \E i \in 1..Len(stack) : stack[i] = [on |-> "request", req |-> r]

LEMMA FreedStep ==
  TypeOK /\ StackInv /\ RequestsFreed /\ Shape => RequestsFreed'
<1> SUFFICES ASSUME TypeOK, StackInv, RequestsFreed, Shape, NEW q \in Req, ref'[q]
             PROVE  \/ state'[q] = "uv"
                    \/ state'[q] = "refused" /\ kind'[q] = "write"
                    \/ Answering(q)'
  BY DEF RequestsFreed, Answering
<1> DEFINE Goal == \/ state'[q] = "uv"
                   \/ state'[q] = "refused" /\ kind'[q] = "write"
                   \/ Answering(q)'
<1>0. /\ stack \in Seq(Frame)
      /\ kind \in [Req -> {"none", "connect", "write", "disconnect"}]
      /\ state \in [Req -> {"unused", "uv", "done", "refused"}]
      /\ ref \in [Req -> BOOLEAN]
      /\ ref[q] => \/ state[q] = "uv"
                   \/ state[q] = "refused" /\ kind[q] = "write"
                   \/ Answering(q)
  BY DEF TypeOK, RequestsFreed, Answering
<1>1. ASSUME NEW r \in Req, NEW k \in Kinds, Takes(k, r) PROVE Goal
  <2>1. UNCHANGED stack /\ state'[r] = "uv"
    BY <1>0, <1>1 DEF Takes, Taken
  <2>2. q # r => state'[q] = state[q] /\ ref'[q] = ref[q] /\ kind'[q] = kind[q]
    BY <1>0, <1>1 DEF Takes, Taken
  <2>3. Answering(q)' = Answering(q) BY <2>1 DEF Answering
  <2> QED BY <1>0, <2>1, <2>2, <2>3
<1>2. ASSUME NEW r \in Req, NEW k \in Kinds, Refuses(k, r) PROVE Goal
  <2>1. PICK kept \in BOOLEAN : Refused(k, r, kept) /\ (kept => k = "write")
    BY <1>2 DEF Refuses
  <2>2. /\ state'[r] = "refused" /\ kind'[r] = k /\ Push("refused", r)
        /\ ref'[r] = kept
    BY <1>0, <2>1 DEF Refused
  <2>3. q # r => state'[q] = state[q] /\ ref'[q] = ref[q] /\ kind'[q] = kind[q]
    BY <1>0, <2>1 DEF Refused
  <2>4. CASE q = r BY <2>1, <2>2, <2>4
  <2>5. CASE q # r
    <3>1. /\ Len(stack) \in Nat /\ Len(stack') = Len(stack) + 1
          /\ \A i \in 1..Len(stack) : stack'[i] = stack[i]
      BY <1>0, <2>2, PushFacts DEF On
    <3>2. \A i \in 1..Len(stack) : i \in 1..Len(stack')
      BY <3>1
    <3>3. Answering(q) => Answering(q)'
      BY <3>1, <3>2 DEF Answering
    <3> QED BY <1>0, <2>3, <2>5, <3>3
  <2> QED BY <2>4, <2>5
<1>3. ASSUME NEW r \in Req, Answers(r) PROVE Goal
  <2>1. /\ stack = <<>> /\ Push("request", r) /\ UNCHANGED <<ref, kind>>
    BY <1>3 DEF Answers, Publish
  <2>2. q # r => state'[q] = state[q] BY <1>0, <1>3 DEF Answers, Publish
  <2>3. Len(stack') = 1 /\ stack'[1] = [on |-> "request", req |-> r]
    BY <2>1, FirstFrame DEF On
  <2>4. Answering(r)' BY <2>3 DEF Answering
  <2>5. ~Answering(q) BY <2>1 DEF Answering
  <2> QED BY <1>0, <2>1, <2>2, <2>4, <2>5
<1>4. ASSUME NEW on \in On \ {"request", "refused"}, Calls(on) PROVE Goal
  <2>1. stack = <<>> /\ UNCHANGED <<state, ref, kind>>
    BY <1>4 DEF Calls
  <2>2. ~Answering(q) BY <2>1 DEF Answering
  <2> QED BY <1>0, <2>1, <2>2
<1>5. CASE Return
  <2>1. /\ Len(stack) \in Nat \ {0} /\ Len(stack') = Len(stack) - 1
        /\ \A i \in 1..Len(stack') : stack'[i] = stack[i]
        /\ UNCHANGED <<state, kind>>
        /\ ref'[q] => ref[q]
        /\ stack[Len(stack)].on = "request" =>
             Len(stack) = 1 /\ ~ref'[stack[Len(stack)].req]
    BY <1>5, ReturnFacts
  <2>2. Answering(q) => Answering(q)'
    <3> SUFFICES ASSUME Answering(q) PROVE Answering(q)'
      OBVIOUS
    <3>1. PICK i \in 1..Len(stack) : stack[i] = [on |-> "request", req |-> q]
      BY DEF Answering
    <3>2. stack[i].on = "request" /\ stack[i].req = q BY <3>1
    <3>3. i # Len(stack) BY <2>1, <3>2
    <3>4. i \in 1..Len(stack') BY <2>1, <3>3
    <3> QED BY <2>1, <3>1, <3>4 DEF Answering
  <2> QED BY <1>0, <2>1, <2>2
<1>6. CASE Stays
  <2>1. UNCHANGED <<stack, state, ref, kind>> BY <1>6 DEF Stays
  <2>2. Answering(q)' = Answering(q) BY <2>1 DEF Answering
  <2> QED BY <1>0, <2>1, <2>2
<1> QED BY <1>1, <1>2, <1>3, <1>4, <1>5, <1>6 DEF Shape

(* The queue of tasks: read() appends its task, init runs first.           *)
LEMMA TaskInvStep == TypeOK /\ TaskInv /\ [Next]_vars => TaskInv'
<1> SUFFICES ASSUME TypeOK, TaskInv, [Next]_vars PROVE TaskInv'
  OBVIOUS
<1>0. /\ tasks \in Seq({"init", "readStart"}) /\ Len(tasks) \in Nat
      /\ \A i \in 1..Len(tasks) : tasks[i] = "init" => i = 1 /\ uv = "zeroed"
      /\ uv = "zeroed" => \A i \in 1..Len(tasks) : tasks[i] = "init"
  BY DEF TypeOK, TaskInv
<1>1. CASE Read
  <2>1. /\ uv # "zeroed" /\ uv' = uv /\ Len(tasks') = Len(tasks) + 1
        /\ \A i \in 1..Len(tasks) : tasks'[i] = tasks[i]
        /\ tasks'[Len(tasks) + 1] = "readStart"
    BY <1>0, <1>1 DEF Read, Usable
  <2> QED BY <1>0, <2>1 DEF TaskInv
<1>2. CASE InitTask
  <2>1. tasks # <<>> /\ Head(tasks) = "init" /\ tasks' = Tail(tasks)
    BY <1>2 DEF InitTask
  <2>2. 1 \in 1..Len(tasks) /\ tasks[1] = "init" BY <1>0, <2>1
  <2>3. \A i \in 1..Len(tasks) : i = 1 BY <1>0, <2>2
  <2>4. Len(tasks) = 1
    <3>1. Len(tasks) \in 1..Len(tasks) BY <1>0, <2>2
    <3> QED BY <2>3, <3>1
  <2>5. Len(tasks') = 0 BY <1>0, <2>1, <2>4
  <2> QED BY <2>5 DEF TaskInv
<1>3. CASE ReadStartTask
  <2>1. tasks # <<>> /\ Head(tasks) = "readStart" /\ tasks' = Tail(tasks) /\ uv' = uv
    BY <1>3 DEF ReadStartTask
  <2>2. /\ 1 \in 1..Len(tasks) /\ tasks[1] = "readStart"
        /\ Len(tasks') = Len(tasks) - 1
        /\ \A i \in 1..Len(tasks) - 1 : tasks'[i] = tasks[i + 1]
    BY <1>0, <2>1
  <2>3. uv # "zeroed" BY <1>0, <2>2
  <2>4. \A i \in 1..Len(tasks') : tasks'[i] # "init"
    <3> SUFFICES ASSUME NEW i \in 1..Len(tasks') PROVE tasks'[i] # "init"
      OBVIOUS
    <3>1. tasks'[i] = tasks[i + 1] /\ i + 1 \in 1..Len(tasks) /\ i + 1 # 1
      BY <1>0, <2>2
    <3> QED BY <1>0, <3>1
  <2> QED BY <2>1, <2>3, <2>4 DEF TaskInv
<1>4. CASE UNCHANGED tasks /\ (uv = "zeroed") = (uv' = "zeroed")
  BY <1>0, <1>4 DEF TaskInv
<1>5. ASSUME NEW r \in Req, Connect(r) \/ Write(r) \/ Disconnect(r)
      PROVE  UNCHANGED <<tasks, uv>>
  BY <1>5 DEF Connect, Write, Disconnect
<1>6. CASE CancelRead \/ Listen \/ Accept \/ ReadCallback \/ ReadEndCallback
           \/ ListenCallback \/ Return \/ UNCHANGED vars
  BY <1>4, <1>6 DEF CancelRead, Listen, Accept, ReadCallback, ReadEndCallback,
     ListenCallback, Return, vars
<1>7. CASE Close \/ CloseCallback
  BY <1>4, <1>7 DEF Close, CloseCallback, Usable
<1>8. ASSUME NEW r \in Req, NEW ok \in BOOLEAN,
             WriteCallback(r) \/ ShutdownCallback(r) \/ ConnectCallback(r, ok)
      PROVE  UNCHANGED <<tasks, uv>>
  BY <1>8 DEF WriteCallback, ShutdownCallback, ConnectCallback
<1> QED
  BY <1>1, <1>2, <1>3, <1>4, <1>5, <1>6, <1>7, <1>8
  DEF Next, ProgramStep, TaskStep, Completion, NetworkStep, Abandoned

(* isConnected(): only a connect that succeeds sets it, and it is cleared  *)
(* before the socket closes.                                               *)
LEMMA ConnectedStep ==
  TypeOK /\ TaskInv /\ UvInv /\ ConnectInv /\ ConnectedWasUp /\ [Next]_vars
    => ConnectedWasUp'
<1> SUFFICES ASSUME TypeOK, TaskInv, UvInv, ConnectInv, ConnectedWasUp, [Next]_vars
             PROVE  ConnectedWasUp'
  OBVIOUS
<1> USE DEF ConnectedWasUp
<1>1. ASSUME NEW r \in Req, Connect(r) PROVE ConnectedWasUp'
  BY <1>1 DEF Connect, UvTakesConnect
<1>2. ASSUME NEW r \in Req, Write(r) \/ Disconnect(r) PROVE ConnectedWasUp'
  BY <1>2 DEF Write, Disconnect
<1>3. CASE Read \/ CancelRead \/ ReadStartTask \/ ReadCallback \/ ReadEndCallback
           \/ ListenCallback \/ Return \/ UNCHANGED vars
  BY <1>3 DEF Read, CancelRead, ReadStartTask, ReadCallback, ReadEndCallback,
     ListenCallback, Return, vars
<1>4. CASE Close \/ CloseCallback BY <1>4 DEF Close, CloseCallback
<1>5. CASE Listen \/ Accept BY <1>5 DEF Listen, Accept
<1>6. CASE InitTask
  <2>1. Len(tasks) \in Nat /\ 1 \in 1..Len(tasks) /\ tasks[1] = "init"
    BY <1>6 DEF InitTask, TypeOK
  <2>2. uv = "zeroed" BY <2>1 DEF TaskInv
  <2> QED BY <1>6, <2>2 DEF InitTask
<1>7. ASSUME NEW r \in Req, NEW ok \in BOOLEAN, ConnectCallback(r, ok)
      PROVE  ConnectedWasUp'
  <2>1. Connecting(r) BY <1>7 DEF ConnectCallback, Connecting
  <2>2. uv \in {"open", "closing"} /\ conn = "connecting"
    BY <2>1 DEF UvInv, ConnectInv, Connecting
  <2>3. ~connected BY <2>2
  <2> QED BY <1>7, <2>2, <2>3 DEF ConnectCallback
<1>8. ASSUME NEW r \in Req, WriteCallback(r) \/ ShutdownCallback(r)
      PROVE  ConnectedWasUp'
  BY <1>8 DEF WriteCallback, ShutdownCallback
<1> QED
  BY <1>1, <1>2, <1>3, <1>4, <1>5, <1>6, <1>7, <1>8
  DEF Next, ProgramStep, TaskStep, Completion, NetworkStep, Abandoned

(* The read buffer: set by read() before its task is queued, and kept      *)
(* until the task has run if the program does not cancel an unstarted read.*)
LEMMA ReadStep ==
  ASSUME ~CancelEarly, TypeOK, TaskInv, ReadInv, [Next]_vars
  PROVE  ReadInv'
<1> USE DEF ReadInv, ReadingHasBuffer
<1>0. /\ tasks \in Seq({"init", "readStart"}) /\ Len(tasks) \in Nat
      /\ uv = "open" => \A i \in 1..Len(tasks) : tasks[i] = "readStart" => readBuffer
  BY DEF TypeOK, StartInv
<1>1. CASE UNCHANGED <<tasks, uv, readBuffer>> /\ (reading' => reading)
  BY <1>0, <1>1 DEF StartInv
<1>2. CASE Read
  BY <1>2 DEF Read, StartInv
<1>3. CASE CancelRead
  BY <1>3 DEF CancelRead, StartInv
<1>4. CASE Close
  BY <1>4 DEF Close, StartInv
<1>5. CASE InitTask
  <2>1. TaskInv' BY TaskInvStep
  <2>2. Len(tasks) \in Nat /\ 1 \in 1..Len(tasks) /\ tasks[1] = "init"
    BY <1>0, <1>5 DEF InitTask
  <2>3. uv = "zeroed" BY <2>2 DEF TaskInv
  <2>4. \A i \in 1..Len(tasks) : tasks[i] = "init" BY <2>3 DEF TaskInv
  <2>5. \A i \in 1..Len(tasks') : tasks'[i] = "init"
    <3>1. tasks' = Tail(tasks) /\ tasks # <<>> BY <1>5 DEF InitTask
    <3>2. Len(tasks') = Len(tasks) - 1
          /\ \A i \in 1..Len(tasks) - 1 : tasks'[i] = tasks[i + 1]
      BY <1>0, <3>1
    <3> QED BY <1>0, <2>4, <3>2
  <2> QED BY <1>5, <2>5 DEF InitTask, StartInv
<1>6. CASE ReadStartTask
  <2>1. /\ tasks # <<>> /\ Head(tasks) = "readStart" /\ tasks' = Tail(tasks)
        /\ reading' => reading \/ uv = "open"
        /\ UNCHANGED <<uv, readBuffer>>
    BY <1>6 DEF ReadStartTask, UvTakesStream
  <2>2. /\ 1 \in 1..Len(tasks) /\ tasks[1] = "readStart"
    BY <1>0, <2>1
  <2>3. uv = "open" => readBuffer BY <1>0, <2>2
  <2> QED BY <2>1, <2>3 DEF StartInv
<1>7. ASSUME NEW r \in Req, Connect(r) \/ Write(r) \/ Disconnect(r)
      PROVE  UNCHANGED <<tasks, uv, readBuffer, reading>>
  BY <1>7 DEF Connect, Write, Disconnect
<1>8. CASE Listen \/ Accept \/ ReadCallback \/ ReadEndCallback \/ ListenCallback
           \/ Return \/ UNCHANGED vars
  BY <1>1, <1>8 DEF Listen, Accept, ReadCallback, ReadEndCallback,
     ListenCallback, Return, vars
<1>9. ASSUME NEW r \in Req, NEW ok \in BOOLEAN,
             WriteCallback(r) \/ ShutdownCallback(r) \/ ConnectCallback(r, ok)
      PROVE  UNCHANGED <<tasks, uv, readBuffer, reading>>
  BY <1>9 DEF WriteCallback, ShutdownCallback, ConnectCallback
<1>10. CASE CloseCallback
  BY <1>10 DEF CloseCallback, StartInv
<1> QED
  BY <1>1, <1>2, <1>3, <1>4, <1>5, <1>6, <1>7, <1>8, <1>9, <1>10
  DEF Next, ProgramStep, TaskStep, Completion, NetworkStep, Abandoned

-----------------------------------------------------------------------------
LEMMA Initially == Init => IInv /\ ReadInv
<1> SUFFICES ASSUME Init PROVE IInv /\ ReadInv
  OBVIOUS
<1>1. TypeOK
  <2>1. tasks \in Seq({"init", "readStart"}) /\ writeQ \in Seq(Req) /\ stack \in Seq(Frame)
    BY DEF Init
  <2>2. /\ kind \in [Req -> {"none", "connect", "write", "disconnect"}]
        /\ state \in [Req -> {"unused", "uv", "done", "refused"}]
        /\ ref \in [Req -> BOOLEAN] /\ completed \in [Req -> Nat]
    BY DEF Init
  <2>3. reads \in Nat /\ events \in Nat BY DEF Init
  <2> QED BY <2>1, <2>2, <2>3, Zenon DEF Init, TypeOK
<1>2. Len(stack) = 0 /\ Len(writeQ) = 0 /\ Len(tasks) = 1 /\ tasks[1] = "init"
  BY DEF Init
<1>3. StackInv /\ QueueInv /\ TaskInv /\ StartInv
  BY <1>2 DEF Init, StackInv, QueueInv, TaskInv, StartInv
<1>4. UvInv /\ ConnectInv /\ CompletesOnce /\ RequestsFreed
  BY DEF Init, UvInv, ConnectInv, Connecting, CompletesOnce, RequestsFreed
<1>5. NoDangling /\ ConnectedWasUp /\ ReadingHasBuffer
  BY <1>2 DEF Init, NoDangling, ConnectedWasUp, ReadingHasBuffer
<1> QED BY <1>1, <1>3, <1>4, <1>5 DEF IInv, ReadInv

LEMMA Inductive == IInv /\ [Next]_vars => IInv'
<1> SUFFICES ASSUME IInv, [Next]_vars PROVE IInv'
  OBVIOUS
<1>1. Shape BY Shapes DEF IInv
<1> QED
  BY <1>1, TypeStep, TaskInvStep, UvStep, QueueStep, StackStep, ConnectStep,
     CompletesStep, DanglingStep, FreedStep, ConnectedStep
  DEF IInv

(* The socket's state keeps its types, and the parts of IInv hold, for any *)
(* number of requests: connect, write and disconnect report their result   *)
(* exactly once; no request object is used after its deletion or outlives  *)
(* its result, but for a refused write's; the handle holds the socket as   *)
(* long as libuv may call back; isConnected() implies a connection.        *)
THEOREM SocketInvariant == Safety => []IInv
BY Initially, Inductive, PTL DEF Safety

(* connect, write and disconnect report their result exactly once.         *)
THEOREM ResultsOnce == Safety => []CompletesOnce
BY SocketInvariant, PTL DEF IInv

(* Nothing refers to a request object that publishAndClose has deleted,    *)
(* and HandleRef holds the socket while libuv may call it.                 *)
THEOREM ObjectsAlive == Safety => []NoDangling
BY SocketInvariant, PTL DEF IInv

(* A request object is deleted once its result was reported, on every path *)
(* but the one of a write refused at once.                                 *)
THEOREM ObjectsFreed == Safety => []RequestsFreed
BY SocketInvariant, PTL DEF IInv

(* isConnected() is true only of an open socket that a connect succeeded   *)
(* on: close() and the answer to disconnect() clear it in time, whatever   *)
(* callbacks they meet.                                                    *)
THEOREM IsConnectedSound == Safety => []ConnectedWasUp
BY SocketInvariant, PTL DEF IInv

(* allocCallback finds a buffer to dereference, whatever the program does, *)
(* if it does not cancel a read whose start is still queued.               *)
THEOREM ReadFindsBuffer ==
  ASSUME ~CancelEarly
  PROVE  Safety => []ReadingHasBuffer
<1>1. Init => IInv /\ ReadInv
  BY Initially
<1>2. IInv /\ ReadInv /\ [Next]_vars => IInv' /\ ReadInv'
  BY Inductive, ReadStep DEF IInv
<1>3. ReadInv => ReadingHasBuffer
  BY DEF ReadInv
<1> QED BY <1>1, <1>2, <1>3, PTL DEF Safety

-----------------------------------------------------------------------------
(* The socket keeps the contract of a Handle.  The requests in libuv are   *)
(* finitely many, whatever Req is: each step adds or removes one.          *)
FiniteInUv == IsFiniteSet(InUv)

LEMMA LifeStep ==
  ASSUME IInv, FiniteInUv, Shape
  PROVE  [H!Next]_(H!vars) /\ FiniteInUv'
<1>0. /\ uv \in {"zeroed", "open", "closing", "closed"}
      /\ state \in [Req -> {"unused", "uv", "done", "refused"}]
      /\ Cardinality(InUv) \in Nat
  BY FS_CardinalityType DEF IInv, TypeOK, FiniteInUv
<1>1. /\ uv = "zeroed" => Life = "new"
      /\ uv = "open" => Life = "live"
      /\ uv = "closing" => Life = "closing"
      /\ uv = "closed" => Life = IF dataRef THEN "notified" ELSE "gone"
  BY DEF Life
<1>2. /\ uv' = "open" => Life' = "live"
      /\ uv' = "closing" => Life' = "closing"
      /\ uv' = "closed" => Life' = IF dataRef' THEN "notified" ELSE "gone"
  BY DEF Life
<1>3. uv' = uv /\ dataRef' = dataRef => Life' = Life
  BY DEF Life
<1>4. state' = state => InUv' = InUv
  BY DEF InUv
<1>5. ASSUME state' = state PROVE FiniteInUv' /\ Cardinality(InUv)' = Cardinality(InUv)
  BY <1>4, <1>5 DEF FiniteInUv
<1> DEFINE Goal == [H!Next]_(H!vars) /\ FiniteInUv'
<1>6. ASSUME state' = state, uv' = uv, dataRef' = dataRef PROVE Goal
  BY <1>3, <1>5, <1>6 DEF H!vars
<1>7. ASSUME NEW r \in Req, NEW k \in Kinds, Takes(k, r) PROVE Goal
  <2>1. /\ uv = "open" /\ uv' = uv /\ dataRef' = dataRef /\ state[r] = "unused"
        /\ state' = [state EXCEPT ![r] = "uv"]
    BY <1>7 DEF Takes, Taken
  <2>2. r \notin InUv /\ InUv' = InUv \cup {r}
    BY <1>0, <2>1 DEF InUv
  <2>3. FiniteInUv' /\ Cardinality(InUv)' = Cardinality(InUv) + 1
    BY <2>2, FS_AddElement DEF FiniteInUv
  <2>4. H!Submit BY <1>1, <1>3, <2>1, <2>3 DEF H!Submit
  <2> QED BY <2>3, <2>4 DEF H!Next
<1>8. ASSUME NEW r \in Req, NEW k \in Kinds, Refuses(k, r) PROVE Goal
  <2>1. /\ uv' = uv /\ dataRef' = dataRef /\ state[r] = "unused"
        /\ state' = [state EXCEPT ![r] = "refused"]
    BY <1>8 DEF Refuses, Refused
  <2>2. InUv' = InUv BY <1>0, <2>1 DEF InUv
  <2> QED BY <1>3, <2>1, <2>2 DEF FiniteInUv, H!vars
<1>9. ASSUME NEW r \in Req, Answers(r) PROVE Goal
  <2>1. /\ uv' = uv /\ dataRef' = dataRef /\ state[r] = "uv"
        /\ state' = [state EXCEPT ![r] = "done"]
    BY <1>9 DEF Answers, Publish
  <2>2. r \in InUv /\ InUv' = InUv \ {r}
    BY <1>0, <2>1 DEF InUv
  <2>3. FiniteInUv' /\ Cardinality(InUv)' = Cardinality(InUv) - 1
    BY <2>2, FS_RemoveElement DEF FiniteInUv
  <2>4. Cardinality(InUv)' \in Nat
    BY <2>3, FS_CardinalityType DEF FiniteInUv
  <2>5. uv \in {"open", "closing"} BY <2>1 DEF IInv, UvInv
  <2>6. H!Complete BY <1>0, <1>1, <1>3, <2>1, <2>3, <2>4, <2>5 DEF H!Complete
  <2> QED BY <2>3, <2>6 DEF H!Next
<1>10. ASSUME NEW on \in On \ {"request", "refused"}, Calls(on) PROVE Goal
  <2>1. state' = state BY <1>10 DEF Calls
  <2>2. CASE on = "close"
    <3>1. uv = "closing" /\ uv' = "closed" /\ InUv = {} /\ dataRef' = dataRef
      BY <1>10, <2>2 DEF Calls
    <3>2. dataRef' BY <3>1 DEF IInv, NoDangling
    <3>3. Cardinality(InUv) = 0 BY <3>1, FS_EmptySet
    <3>4. H!Notify BY <1>1, <1>2, <1>5, <2>1, <3>1, <3>2, <3>3 DEF H!Notify
    <3> QED BY <1>5, <2>1, <3>4 DEF H!Next
  <2>3. CASE on # "close" /\ uv = "zeroed" /\ uv' = "open" /\ dataRef' = TRUE
    <3>1. H!Open BY <1>1, <1>2, <1>5, <2>1, <2>3 DEF H!Open
    <3> QED BY <1>5, <2>1, <3>1 DEF H!Next
  <2>4. CASE on # "close" /\ UNCHANGED <<uv, dataRef>>
    BY <1>6, <2>1, <2>4
  <2> QED BY <1>10, <2>2, <2>3, <2>4 DEF Calls
<1>11. CASE Return
  <2> DEFINE top == stack[Len(stack)]
  <2>1. uv' = uv /\ state' = state BY <1>11 DEF Return
  <2>2. CASE top.on = "close"
    <3>1. Len(stack) \in 1..Len(stack) /\ dataRef' = FALSE
      BY <1>11, <2>2, ReturnFacts DEF IInv
    <3>2. uv = "closed" /\ dataRef BY <2>2, <3>1 DEF IInv, StackInv
    <3>3. H!Release BY <1>1, <1>2, <1>5, <2>1, <3>1, <3>2 DEF H!Release
    <3> QED BY <1>5, <2>1, <3>3 DEF H!Next
  <2>3. CASE top.on # "close"
    <3>1. dataRef' = dataRef BY <1>11, <2>3, ReturnFacts DEF IInv
    <3> QED BY <1>6, <2>1, <3>1
  <2> QED BY <2>2, <2>3
<1>12. CASE Stays
  <2>1. state' = state /\ dataRef' = dataRef BY <1>12 DEF Stays
  <2>2. CASE uv' = uv BY <1>6, <2>1, <2>2
  <2>3. CASE uv = "open" /\ uv' = "closing"
    <3>1. H!Close BY <1>1, <1>2, <1>5, <2>1, <2>3 DEF H!Close
    <3> QED BY <1>5, <2>1, <3>1 DEF H!Next
  <2> QED BY <1>12, <2>2, <2>3 DEF Stays
<1> QED BY <1>7, <1>8, <1>9, <1>10, <1>11, <1>12 DEF Shape

(* The socket implements the safety part of HandleLife's contract: once    *)
(* init succeeds the library keeps the socket, results come back before    *)
(* CloseEvent, and only after CloseEvent was delivered is the socket let   *)
(* go.                                                                     *)
THEOREM SocketKeepsLife == Safety => H!Safety
<1>1. Init => H!Init /\ FiniteInUv
  <2> SUFFICES ASSUME Init PROVE H!Init /\ FiniteInUv
    OBVIOUS
  <2>1. InUv = {} BY DEF Init, InUv
  <2>2. Life = "new" /\ dataRef \in BOOLEAN BY DEF Init, Life
  <2> QED BY <2>1, <2>2, FS_EmptySet DEF H!Init, FiniteInUv
<1>2. IInv /\ FiniteInUv /\ [Next]_vars => [H!Next]_(H!vars) /\ FiniteInUv'
  BY Shapes, LifeStep DEF IInv
<1> QED BY <1>1, <1>2, SocketInvariant, PTL DEF Safety, H!Safety
=============================================================================
