------------------------- MODULE ExampleClientProofs -------------------------
(* The example programs, for any number of reads and sends: they use the   *)
(* loop as LoopQueue allows, and uv_run does not return over an open       *)
(* socket, but for the two omissions ExitsReleased names.                  *)
EXTENDS ExampleClient, LoopQueueProofs, FiniteSetTheorems

(* Every step of a client is a step of the loop, or leaves the loop alone. *)
LEMMA ClientStepRefines == [CNext]_allVars => [Next]_vars
<1> SUFFICES ASSUME [CNext]_allVars PROVE [Next]_vars
  OBVIOUS
<1>1. ASSUME NEW t \in Thread, NEW task \in Task, SendCall(t, task) PROVE [Next]_vars
  BY <1>1 DEF Next
<1>2. Helper \in Thread /\ LoopThread \in Thread BY ClientThreads
<1>3. InitTask \in Task /\ ReadTask \in Task /\ DisconnectTask \in Task
      /\ UninitTask \in Task
  BY ClientTasks
<1>4. CASE Create \/ HelperWakes \/ StartReading
  BY <1>1, <1>2, <1>3, <1>4 DEF Create, HelperWakes, StartReading
<1>5. CASE Start \/ LoopOwnStep \/ TaskStart
  BY <1>5 DEF Start, LoopOwnStep, TaskStart, Next, LoopStep
<1>6. CASE ReadEvent
  BY <1>1, <1>2, <1>3, <1>6 DEF ReadEvent
<1>7. CASE Connect \/ Write \/ EchoDisconnect \/ HttpsDisconnect \/ Close
           \/ CloseCallback
  BY <1>7 DEF Connect, Write, EchoDisconnect, HttpsDisconnect, Close, CloseCallback
<1>8. CASE Completion \/ PeerEnds \/ TlsBreaks \/ \E ok \in BOOLEAN : Handshake(ok)
  BY <1>8 DEF Completion, WriteCallback, ShutdownCallback, ConnectCallback,
       PeerEnds, TlsBreaks, Handshake
<1>9. CASE \E t \in Thread : SendStep(t) /\ UNCHANGED clientVars
  BY <1>9 DEF Next
<1>10. CASE CTerminated \/ UNCHANGED allVars
  BY <1>10 DEF CTerminated, Next, allVars
<1> QED BY <1>4, <1>5, <1>6, <1>7, <1>8, <1>9, <1>10, Zenon
        DEF CNext, LoopThreadStep, PeerStep

(* The example programs use the loop as LoopQueue says any program does.   *)
THEOREM ClientRefinesLoop == CSafety => Safety
<1>1. CInit => Init BY DEF CInit
<1> QED BY <1>1, ClientStepRefines, PTL DEF CSafety, Safety

(* What the client sends runs in order and is never forgotten: FIFO and    *)
(* NoLostWakeup hold of the programs too.                                  *)
THEOREM ClientFIFO == CSafety => [](FIFO /\ NoLostWakeup)
  BY ClientRefinesLoop, FIFOHolds, NoLostWakeupHolds, PTL

-----------------------------------------------------------------------------
(* Why uv_run does not leave an open socket behind.  The loop's exit only  *)
(* looks at what is active; so, until it is closed, something of the       *)
(* socket must always be active or on its way.                             *)

Queued(task) == \E i \in 1..Len(queue) : queue[i] = task
Carried(task) ==
  sendPc[LoopThread] \in {"lock", "push"} /\ sendArg[LoopThread] = task

LifeOK == life \in {"new", "live", "closing", "notified", "gone"} /\ pending \in Nat

(* The client's code runs in a callback or in a task of the loop.          *)
PcInv == pc # "idle" => loopPc \in {"poll", "task"}

(* Until the socket is opened, its init task is in the deque.              *)
NewInv ==
  /\ loopPc # "boot" => Sent(InitTask)
  /\ life = "new" /\ Sent(InitTask) => Queued(InitTask)

(* An open socket is about to be closed or to read, or reads.              *)
LiveInv ==
  life = "live" =>
    \/ pc \in {"connect", "connected", "close"}
    \/ conn = "connecting" /\ pending > 0
    \/ Carried(ReadTask) \/ Queued(ReadTask)
    \/ reading \/ ended

CInv == LifeOK /\ PcInv /\ NewInv /\ LiveInv /\ ExitsReleased

LEMMA PushFacts ==
  ASSUME TypeOK, ArgInv, NEW t \in Thread, SendPush(t)
  PROVE  /\ \A task : Queued(task) \/ task = sendArg[t] => Queued(task)'
         /\ \A task : Sent(task)' => Sent(task) \/ task = sendArg[t]
         /\ \A task : Sent(task) => Sent(task)'
         /\ queue' # <<>>
<1>1. sendArg[t] \in Task BY DEF SendPush, ArgInv
<1>2. queue \in Seq(Task) /\ Len(queue) \in Nat /\ sent \in Seq(Task) /\ Len(sent) \in Nat
  BY DEF TypeOK
<1>3. queue' = Append(queue, sendArg[t]) /\ sent' = Append(sent, sendArg[t])
  BY DEF SendPush
<1>4. /\ queue' \in Seq(Task) /\ Len(queue') = Len(queue) + 1
      /\ \A i \in 1..Len(queue) : queue'[i] = queue[i]
      /\ queue'[Len(queue) + 1] = sendArg[t]
  BY <1>1, <1>2, <1>3, AppendProperties
<1>5. /\ Len(sent') = Len(sent) + 1
      /\ \A i \in 1..Len(sent) : sent'[i] = sent[i]
      /\ sent'[Len(sent) + 1] = sendArg[t]
  BY <1>1, <1>2, <1>3, AppendProperties
<1>6. ASSUME NEW task, Queued(task) \/ task = sendArg[t] PROVE Queued(task)'
  <2>1. \E i \in 1..Len(queue') : queue'[i] = task
    BY <1>2, <1>4, <1>6 DEF Queued
  <2> QED BY <2>1 DEF Queued
<1>7. ASSUME NEW task, Sent(task)' PROVE Sent(task) \/ task = sendArg[t]
  <2>1. PICK i \in 1..Len(sent') : sent'[i] = task BY <1>7 DEF Sent
  <2>2. i \in 1..Len(sent) \/ i = Len(sent) + 1 BY <1>2, <1>5
  <2> QED BY <1>5, <2>1, <2>2 DEF Sent
<1>8. ASSUME NEW task, Sent(task) PROVE Sent(task)'
  <2>1. \E i \in 1..Len(sent') : sent'[i] = task
    BY <1>2, <1>5, <1>8 DEF Sent
  <2> QED BY <2>1 DEF Sent
<1>9. queue' # <<>> BY <1>2, <1>4
<1> QED BY <1>6, <1>7, <1>8, <1>9

LEMMA TailFacts ==
  ASSUME TypeOK, queue # <<>>, queue' = Tail(queue),
         NEW task, Queued(task), task # Head(queue)
  PROVE  Queued(task)'
<1>1. queue \in Seq(Task) /\ Len(queue) \in Nat BY DEF TypeOK
<1>2. /\ Len(queue') = Len(queue) - 1 /\ Head(queue) = queue[1]
      /\ \A i \in 1..Len(queue) - 1 : queue'[i] = queue[i + 1]
  BY <1>1, HeadTailProperties
<1>3. PICK i \in 1..Len(queue) : queue[i] = task BY DEF Queued
<1>4. i # 1 BY <1>2, <1>3
<1>5. i - 1 \in 1..Len(queue) - 1 /\ (i - 1) + 1 = i BY <1>1, <1>3, <1>4
<1>6. queue'[i - 1] = task BY <1>2, <1>3, <1>5
<1> QED BY <1>2, <1>5, <1>6 DEF Queued

-----------------------------------------------------------------------------
(* The socket's own steps and the peer's, which leave the loop alone.      *)
SocketStep ==
  \/ Connect \/ Write \/ EchoDisconnect \/ HttpsDisconnect \/ Close
  \/ CloseCallback \/ Completion \/ PeerEnds \/ TlsBreaks
  \/ \E ok \in BOOLEAN : Handshake(ok)
  \/ ReadEvent /\ UNCHANGED vars

LEMMA SocketStepInv ==
  ASSUME CInv, SocketStep, UNCHANGED vars
  PROVE  CInv'
<1> USE DEF LifeOK, PcInv
<1>0. /\ UNCHANGED <<queue, sent, loopPc, sendPc, sendArg>>
      /\ LifeOK /\ PcInv /\ NewInv /\ LiveInv /\ ExitsReleased
  BY DEF vars, sendVars, CInv
<1>1. /\ \A task : (Sent(task)' <=> Sent(task)) /\ (Queued(task)' <=> Queued(task))
      /\ \A task : Carried(task)' <=> Carried(task)
  BY <1>0 DEF Sent, Queued, Carried
<1>2. loopPc # "exited"
  BY <1>0 DEF SocketStep, Connect, Write, EchoDisconnect, HttpsDisconnect, Close,
       CloseCallback, Completion, WriteCallback, ShutdownCallback, ConnectCallback,
       PeerEnds, TlsBreaks, Handshake, ReadEvent, AtPoll, Running
<1>3. ExitsReleased' BY <1>0, <1>2 DEF ExitsReleased
<1>4. ASSUME life' # "new" \/ life = "new" PROVE NewInv'
  BY <1>0, <1>1, <1>4 DEF NewInv
<1>5. CASE Connect
  <2>1. LifeOK' /\ PcInv' /\ life' = life
    BY <1>0, <1>5 DEF Connect, Running, socketVars, H!Submit
  <2>2. LiveInv'
    BY <1>0, <1>5 DEF Connect, socketVars, H!Submit, LiveInv
  <2> QED BY <1>3, <1>4, <2>1, <2>2 DEF CInv
<1>6. CASE Write \/ EchoDisconnect \/ HttpsDisconnect
  <2>1. LifeOK' /\ PcInv' /\ life' = life /\ conn' = conn /\ pending' >= pending
        /\ UNCHANGED <<reading, ended>>
        /\ pc \notin {"connect", "connected", "close"}
    BY <1>0, <1>6 DEF Write, EchoDisconnect, HttpsDisconnect, Running, socketVars,
         H!Submit
  <2>2. LiveInv' BY <1>0, <1>1, <2>1 DEF LiveInv
  <2> QED BY <1>3, <1>4, <2>1, <2>2 DEF CInv
<1>7. CASE Close
  <2>1. LifeOK' /\ PcInv' /\ life' # "live" /\ (life' = "new" => life = "new")
    BY <1>0, <1>7 DEF Close, Running, socketVars, H!Close
  <2> QED BY <1>3, <1>4, <2>1 DEF CInv, LiveInv
<1>8. CASE CloseCallback
  <2>1. LifeOK' /\ PcInv' /\ life' \in {"notified", "gone"}
    BY <1>0, <1>8 DEF CloseCallback, AtPoll, Running, H!Notify, H!Release
  <2> QED BY <1>3, <1>4, <2>1 DEF CInv, LiveInv
<1>9. CASE WriteCallback
  <2>1. LifeOK' /\ life' = life /\ conn # "connecting"
        /\ UNCHANGED <<pc, conn, reading, ended>>
    BY <1>0, <1>9 DEF WriteCallback, H!Complete
  <2>2. LiveInv' BY <1>0, <1>1, <2>1 DEF LiveInv
  <2> QED BY <1>0, <1>3, <1>4, <2>1, <2>2 DEF CInv
<1>10. CASE ShutdownCallback \/ \E ok \in BOOLEAN : ConnectCallback(ok)
  <2>1. LifeOK' /\ PcInv' /\ life' = life /\ pc' \in {"connected", "close"}
    BY <1>0, <1>10 DEF ShutdownCallback, ConnectCallback, AtPoll, Running, H!Complete
  <2>2. LiveInv' BY <2>1 DEF LiveInv
  <2> QED BY <1>3, <1>4, <2>1, <2>2 DEF CInv
<1>11. CASE \/ PeerEnds \/ TlsBreaks \/ \E ok \in BOOLEAN : Handshake(ok)
            \/ ReadEvent /\ UNCHANGED vars
  <2>1. LifeOK' /\ PcInv' /\ life' = life /\ (reading' \/ ended')
    BY <1>0, <1>11 DEF PeerEnds, TlsBreaks, Handshake, ReadEvent, AtPoll, Running,
         socketVars, SendCall
  <2>2. LiveInv' BY <2>1 DEF LiveInv
  <2> QED BY <1>3, <1>4, <2>1, <2>2 DEF CInv
<1> QED BY <1>5, <1>6, <1>7, <1>8, <1>9, <1>10, <1>11, Zenon DEF SocketStep, Completion

(* The client's calls of sendQueuedTask.                                   *)
SendsStep == Create \/ HelperWakes \/ StartReading \/ ReadEvent

LEMMA SendsStepInv ==
  ASSUME IInv, CInv, SendsStep, ~UNCHANGED vars
  PROVE  CInv'
<1> USE DEF LifeOK, PcInv
<1>0. LifeOK /\ PcInv /\ NewInv /\ LiveInv /\ ExitsReleased /\ TypeOK
  BY DEF CInv, IInv
<1>1. PICK t \in Thread : \E task \in Task : SendCall(t, task)
  BY ClientThreads, ClientTasks
     DEF SendsStep, Create, HelperWakes, StartReading, ReadEvent
<1>2. PICK task \in Task : SendCall(t, task) BY <1>1
<1>3. /\ UNCHANGED <<queue, sent, loopPc>> /\ sendPc[t] = "idle"
      /\ sendPc' = [sendPc EXCEPT ![t] = "lock"]
      /\ sendArg' = [sendArg EXCEPT ![t] = task]
  BY <1>2 DEF SendCall, MaySend
<1>4. /\ \A u : (Sent(u)' <=> Sent(u)) /\ (Queued(u)' <=> Queued(u))
  BY <1>3 DEF Sent, Queued
<1>5. \A u : Carried(u) => Carried(u)'
  BY <1>0, <1>3, LoopThreadAssumption DEF Carried, TypeOK
<1>6. UNCHANGED <<socketVars, conn, reading, ended>>
  BY DEF SendsStep, Create, HelperWakes, StartReading, ReadEvent, clientVars
<1>7. LifeOK' /\ NewInv' BY <1>0, <1>3, <1>4, <1>6 DEF socketVars, NewInv
<1>8. ExitsReleased' BY <1>0, <1>3, <1>6 DEF socketVars, ExitsReleased
<1>9. CASE Create \/ HelperWakes
  <2>1. pc' = pc BY <1>9 DEF Create, HelperWakes, clientVars
  <2> QED BY <1>0, <1>3, <1>4, <1>5, <1>6, <1>7, <1>8, <2>1
          DEF CInv, LiveInv, socketVars
<1>10. CASE StartReading
  <2>1. SendCall(LoopThread, ReadTask) BY <1>10 DEF StartReading
  <2>2. Carried(ReadTask)'
    BY <1>0, <2>1, LoopThreadAssumption DEF SendCall, Carried, TypeOK
  <2>3. PcInv' BY <1>0, <1>3, <1>10 DEF StartReading, Running
  <2> QED BY <1>7, <1>8, <2>2, <2>3 DEF CInv, LiveInv
<1>11. CASE ReadEvent
  <2>1. reading' /\ pc' = pc BY <1>11 DEF ReadEvent
  <2> QED BY <1>0, <1>3, <1>7, <1>8, <2>1 DEF CInv, LiveInv
<1> QED BY <1>9, <1>10, <1>11 DEF SendsStep

(* A thread goes on inside sendQueuedTask.                                 *)
LEMMA SendStepInv ==
  ASSUME IInv, CInv, NEW t \in Thread, SendStep(t), UNCHANGED clientVars
  PROVE  CInv'
<1>0. /\ LifeOK /\ PcInv /\ NewInv /\ LiveInv /\ ExitsReleased /\ TypeOK /\ ArgInv
      /\ UNCHANGED <<pc, life, held, pending, conn, reading, ended>>
  BY DEF CInv, IInv, clientVars, socketVars
<1>1. CASE SendPush(t)
  <2>1. loopPc' = loopPc /\ sendPc[t] = "push" /\ sendArg' = sendArg
        /\ sendPc' = [sendPc EXCEPT ![t] = "signal"]
    BY <1>1 DEF SendPush
  <2>2. /\ \A task : Queued(task) \/ task = sendArg[t] => Queued(task)'
        /\ \A task : Sent(task)' => Sent(task) \/ task = sendArg[t]
        /\ \A task : Sent(task) => Sent(task)'
        /\ queue' # <<>>
    BY <1>0, <1>1, PushFacts
  <2>3. NewInv' BY <1>0, <2>1, <2>2 DEF NewInv
  <2>4. Carried(ReadTask) => Carried(ReadTask)' \/ Queued(ReadTask)'
    <3>1. CASE t = LoopThread BY <2>2, <3>1 DEF Carried
    <3>2. CASE t # LoopThread
      BY <1>0, <2>1, <3>2, LoopThreadAssumption DEF Carried, TypeOK
    <3> QED BY <3>1, <3>2
  <2>5. LiveInv' BY <1>0, <2>2, <2>4 DEF LiveInv
  <2>6. LifeOK' /\ PcInv' /\ ExitsReleased'
    BY <1>0, <2>1, <2>2 DEF LifeOK, PcInv, ExitsReleased
  <2> QED BY <2>3, <2>5, <2>6 DEF CInv
<1>2. CASE SendLock(t) \/ SendSignal(t)
  <2>1. UNCHANGED <<queue, sent, loopPc>>
    BY <1>2 DEF SendLock, SendSignal
  <2>2. \A task : (Sent(task)' <=> Sent(task)) /\ (Queued(task)' <=> Queued(task))
    BY <2>1 DEF Sent, Queued
  <2>3. ASSUME Carried(ReadTask) PROVE Carried(ReadTask)'
    <3>1. CASE SendLock(t)
      BY <1>0, <2>3, <3>1, LoopThreadAssumption DEF SendLock, Carried, TypeOK
    <3>2. CASE SendSignal(t)
      <4>1. t # LoopThread BY <2>3, <3>2 DEF SendSignal, Carried
      <4> QED BY <1>0, <2>3, <3>2, <4>1, LoopThreadAssumption
              DEF SendSignal, Carried, TypeOK
    <3> QED BY <1>2, <3>1, <3>2
  <2>4. NewInv' BY <1>0, <2>1, <2>2 DEF NewInv
  <2>5. LiveInv' BY <1>0, <2>2, <2>3 DEF LiveInv
  <2>6. LifeOK' /\ PcInv' /\ ExitsReleased'
    BY <1>0, <2>1 DEF LifeOK, PcInv, ExitsReleased
  <2> QED BY <2>4, <2>5, <2>6 DEF CInv
<1> QED BY <1>1, <1>2 DEF SendStep

(* The client's four tasks are different ones.                             *)
LEMMA ThreeAtMost ==
  ASSUME NEW a, NEW b, NEW c
  PROVE  Cardinality({a, b, c}) \in {1, 2, 3}
<1>1. IsFiniteSet({a}) /\ Cardinality({a}) = 1 BY FS_Singleton
<1>2. IsFiniteSet({a} \cup {b}) /\ Cardinality({a} \cup {b}) \in {1, 2}
  BY <1>1, FS_AddElement
<1>3. Cardinality(({a} \cup {b}) \cup {c}) \in {1, 2, 3}
  BY <1>2, FS_AddElement
<1>4. ({a} \cup {b}) \cup {c} = {a, b, c} OBVIOUS
<1> QED BY <1>3, <1>4

LEMMA TasksDiffer ==
  /\ InitTask # ReadTask /\ InitTask # DisconnectTask /\ InitTask # UninitTask
  /\ ReadTask # DisconnectTask /\ ReadTask # UninitTask
<1>1. ASSUME NEW a, NEW b, NEW c,
             {InitTask, ReadTask, DisconnectTask, UninitTask} = {a, b, c}
      PROVE  FALSE
  <2>1. Cardinality({a, b, c}) = 4 BY <1>1, ClientTasks
  <2>2. Cardinality({a, b, c}) \in {1, 2, 3} BY ThreeAtMost
  <2> QED BY <2>1, <2>2
<1>2. InitTask # ReadTask
  <2>1. ASSUME InitTask = ReadTask
        PROVE  {InitTask, ReadTask, DisconnectTask, UninitTask}
                 = {ReadTask, DisconnectTask, UninitTask}
    BY <2>1
  <2> QED BY <1>1, <2>1
<1>3. InitTask # DisconnectTask /\ ReadTask # DisconnectTask
  <2>1. ASSUME InitTask = DisconnectTask \/ ReadTask = DisconnectTask
        PROVE  {InitTask, ReadTask, DisconnectTask, UninitTask}
                 = {InitTask, ReadTask, UninitTask}
    BY <2>1
  <2> QED BY <1>1, <2>1
<1>4. InitTask # UninitTask /\ ReadTask # UninitTask
  <2>1. ASSUME InitTask = UninitTask \/ ReadTask = UninitTask
        PROVE  {InitTask, ReadTask, DisconnectTask, UninitTask}
                 = {InitTask, ReadTask, DisconnectTask}
    BY <2>1
  <2> QED BY <1>1, <2>1
<1> QED BY <1>2, <1>3, <1>4

(* A task begins; the socket's first one opens it, that of read() reads.   *)
LEMMA TaskStartInv ==
  ASSUME IInv, CInv, TaskStart
  PROVE  CInv'
<1>0. LifeOK /\ PcInv /\ NewInv /\ LiveInv /\ ExitsReleased /\ TypeOK
  BY DEF CInv, IInv
<1>1. /\ loopPc = "drain" /\ loopPc' = "task" /\ queue # <<>>
      /\ queue' = Tail(queue) /\ UNCHANGED <<sent, sendPc, sendArg>>
      /\ UNCHANGED <<conn, ended>>
  BY DEF TaskStart, DrainNext, sendVars
<1>2. \A task : Queued(task) /\ task # Head(queue) => Queued(task)'
  BY <1>0, <1>1, TailFacts
<1>3. \A task : (Sent(task)' <=> Sent(task)) /\ (Carried(task)' <=> Carried(task))
  BY <1>1 DEF Sent, Carried
<1>4. PcInv' /\ ExitsReleased' BY <1>1 DEF PcInv, ExitsReleased
<1>5. pc = "idle" BY <1>0, <1>1 DEF PcInv
<1>7. CASE Head(queue) = InitTask /\ H!Open /\ pc' = "connect" /\ UNCHANGED reading
  <2>1. life' = "live" /\ pending' = pending BY <1>7 DEF H!Open
  <2>2. LifeOK' BY <1>0, <2>1 DEF LifeOK
  <2>3. NewInv' BY <1>0, <1>1, <1>3, <2>1 DEF NewInv
  <2>4. LiveInv' BY <1>7 DEF LiveInv
  <2> QED BY <1>4, <2>2, <2>3, <2>4 DEF CInv
<1>8. CASE Head(queue) = ReadTask /\ reading' = (life = "live")
           /\ UNCHANGED <<pc, socketVars>>
  <2>1. life' = life /\ pending' = pending BY <1>8 DEF socketVars
  <2>2. LifeOK' BY <1>0, <2>1 DEF LifeOK
  <2>3. NewInv' BY <1>0, <1>1, <1>2, <1>3, <1>8, <2>1, TasksDiffer DEF NewInv
  <2>4. LiveInv' BY <1>8, <2>1 DEF LiveInv
  <2> QED BY <1>4, <2>2, <2>3, <2>4 DEF CInv
<1>9. ASSUME Head(queue) \notin {InitTask, ReadTask}, UNCHANGED <<reading, socketVars>>
      PROVE  CInv'
  <2>1. life' = life /\ pending' = pending /\ reading' = reading
    BY <1>9 DEF socketVars
  <2>2. LifeOK' BY <1>0, <2>1 DEF LifeOK
  <2>3. NewInv' BY <1>0, <1>1, <1>2, <1>3, <1>9, <2>1 DEF NewInv
  <2>4. LiveInv' BY <1>0, <1>1, <1>2, <1>3, <1>5, <1>9, <2>1 DEF LiveInv
  <2> QED BY <1>4, <2>2, <2>3, <2>4 DEF CInv
<1>10. \/ Head(queue) = InitTask /\ H!Open /\ pc' = "connect" /\ UNCHANGED reading
       \/ Head(queue) = ReadTask /\ reading' = (life = "live")
           /\ UNCHANGED <<pc, socketVars>>
       \/ Head(queue) = DisconnectTask /\ UNCHANGED <<reading, socketVars>>
       \/ Head(queue) = UninitTask /\ UNCHANGED <<reading, socketVars>>
  BY DEF TaskStart
<1>11. /\ InitTask # ReadTask /\ InitTask # DisconnectTask /\ InitTask # UninitTask
       /\ ReadTask # DisconnectTask /\ ReadTask # UninitTask
  BY TasksDiffer
<1> QED BY <1>7, <1>8, <1>9, <1>10, <1>11

(* The loop's own steps: it exits only when there is nothing left to read, *)
(* answer or close.                                                        *)
LEMMA LoopStepInv ==
  ASSUME IInv, CInv, Start \/ LoopOwnStep
  PROVE  CInv'
<1>0. LifeOK /\ PcInv /\ NewInv /\ LiveInv /\ ExitsReleased /\ TypeOK
  BY DEF CInv, IInv
<1>1. UNCHANGED <<pc, life, held, pending, conn, reading, ended>>
  BY DEF Start, LoopOwnStep, clientVars, socketVars
<1>2. UNCHANGED <<queue, sent, sendPc, sendArg>>
  BY DEF Start, LoopOwnStep, LoopInit, Poll, DrainLock, TaskReturn, DrainEnd,
       UninitInTask, CloseAsync, CloseDone, LoopExit, sendVars
<1>3. /\ \A task : (Sent(task)' <=> Sent(task)) /\ (Queued(task)' <=> Queued(task))
      /\ \A task : Carried(task)' <=> Carried(task)
  BY <1>2 DEF Sent, Queued, Carried
<1>4. LifeOK' /\ LiveInv' BY <1>0, <1>1, <1>3 DEF LifeOK, LiveInv
<1>5. CASE Start
  <2>1. loopPc' = "poll" /\ Sent(InitTask) BY <1>5 DEF Start, LoopInit
  <2> QED BY <1>0, <1>1, <1>3, <1>4, <2>1 DEF CInv, PcInv, NewInv, ExitsReleased
<1>6. CASE LoopOwnStep
  <2>1. pc = "idle" /\ loopPc # "boot"
    BY <1>6 DEF LoopOwnStep, Poll, DrainLock, TaskReturn, DrainEnd, UninitInTask,
         CloseDone, LoopExit
  <2>2. PcInv' /\ NewInv' BY <1>0, <1>1, <1>3, <2>1 DEF PcInv, NewInv
  <2>3. CASE SocketIdle /\ LoopExit
    <3>1. ~Carried(ReadTask) BY <2>3 DEF LoopExit, LoopIdle, Carried
    <3>2. queue = <<>> => \A task : ~Queued(task) BY DEF Queued
    <3>3. life \notin {"closing", "notified"} /\ pending = 0 /\ ~reading
      BY <2>3 DEF SocketIdle
    <3>4. Sent(InitTask) BY <1>0, <2>1 DEF NewInv
    <3>5. life = "new" => queue # <<>> BY <1>0, <3>2, <3>4 DEF NewInv
    <3>6. life = "live" => ended \/ queue # <<>>
      BY <1>0, <2>1, <3>1, <3>2, <3>3 DEF LiveInv
    <3>7. life = "gone" \/ ended \/ queue # <<>>
      BY <1>0, <3>3, <3>5, <3>6 DEF LifeOK
    <3> QED BY <1>1, <1>2, <1>4, <2>2, <3>7 DEF CInv, ExitsReleased
  <2>4. CASE ~(SocketIdle /\ LoopExit)
    <3>1. loopPc' # "exited"
      BY <1>6, <2>4 DEF LoopOwnStep, Poll, DrainLock, TaskReturn, DrainEnd,
           UninitInTask, CloseAsync, CloseDone
    <3> QED BY <1>4, <2>2, <3>1 DEF CInv, ExitsReleased
  <2> QED BY <2>3, <2>4
<1> QED BY <1>5, <1>6

-----------------------------------------------------------------------------
LEMMA CInvStep == IInv /\ CInv /\ [CNext]_allVars => CInv'
<1> SUFFICES ASSUME IInv, CInv, [CNext]_allVars PROVE CInv'
  OBVIOUS
<1>1. CASE UNCHANGED allVars \/ CTerminated
  BY <1>1 DEF CTerminated, Terminated, allVars, vars, sendVars, clientVars, socketVars,
     CInv, LifeOK, PcInv, NewInv, LiveInv, ExitsReleased, Sent, Queued, Carried
<1>2. CASE SocketStep
  <2>1. CASE UNCHANGED vars BY <1>2, <2>1, SocketStepInv
  <2>2. CASE ~UNCHANGED vars
    BY <1>2, <2>2 DEF SocketStep, Connect, Write, EchoDisconnect, HttpsDisconnect,
       Close, CloseCallback, Completion, WriteCallback, ShutdownCallback,
       ConnectCallback, PeerEnds, TlsBreaks, Handshake
  <2> QED BY <2>1, <2>2
<1>3. CASE SendsStep
  <2>1. CASE ~UNCHANGED vars BY <1>3, <2>1, SendsStepInv
  <2>2. CASE UNCHANGED vars
    <3>1. CASE ReadEvent BY <2>2, <3>1, SocketStepInv DEF SocketStep
    <3>2. ASSUME NEW t \in Thread, NEW task \in Task, SendCall(t, task) PROVE FALSE
      <4>1. sendPc[t] = "idle" /\ sendPc' = [sendPc EXCEPT ![t] = "lock"]
        BY <3>2 DEF SendCall, MaySend
      <4>2. sendPc' = sendPc BY <2>2 DEF vars, sendVars
      <4>3. sendPc'[t] = "lock" BY <4>1 DEF IInv, TypeOK
      <4> QED BY <4>1, <4>2, <4>3
    <3> QED BY <1>3, <3>1, <3>2, ClientThreads, ClientTasks
            DEF SendsStep, Create, HelperWakes, StartReading
  <2> QED BY <2>1, <2>2
<1>4. CASE TaskStart BY <1>4, TaskStartInv
<1>5. CASE Start \/ LoopOwnStep BY <1>5, LoopStepInv
<1>6. CASE \E t \in Thread : SendStep(t) /\ UNCHANGED clientVars
  BY <1>6, SendStepInv
<1> QED BY <1>1, <1>2, <1>3, <1>4, <1>5, <1>6, Zenon
        DEF CNext, LoopThreadStep, PeerStep, SocketStep, SendsStep

LEMMA CInvInit == CInit => CInv
<1> SUFFICES ASSUME CInit PROVE CInv OBVIOUS
<1>1. /\ life = "new" /\ pending = 0 /\ pc = "idle" /\ loopPc = "boot" /\ sent = <<>>
  BY DEF CInit, Init, H!Init
<1>2. ~Sent(InitTask) BY <1>1 DEF Sent
<1> QED BY <1>1, <1>2 DEF CInv, LifeOK, PcInv, NewInv, LiveInv, ExitsReleased

(* When uv_run has returned, the socket was closed and released; or the    *)
(* peer ended the stream, or a task of the client came too late to run.    *)
(* Nothing else - a failed connect, a broken handshake, a disconnect asked *)
(* for twice, the helper's uninit at any moment - leaves it behind.        *)
THEOREM ExitsReleasedHolds == CSafety => []ExitsReleased
<1>1. CSafety => []IInv BY ClientRefinesLoop, IInvariance, PTL
<1>2. CInv => ExitsReleased BY DEF CInv
<1> QED BY <1>1, <1>2, CInvInit, CInvStep, PTL DEF CSafety
=============================================================================
