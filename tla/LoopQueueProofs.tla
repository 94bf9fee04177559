--------------------------- MODULE LoopQueueProofs ---------------------------
(* The safety of the loop's task queue, for any number of threads, any set *)
(* of tasks and any number of sends.                                       *)
EXTENDS LoopQueue, TLAPS, SequenceTheorems

Assumptions == /\ LoopThread \in Thread
               /\ Nobody \notin Thread
               /\ UninitTask \in Task /\ NoTask \notin Task
               /\ MaxSend \in Nat

(* A thread inside addQueuedTask carries a task.                           *)
ArgInv == \A t \in Thread : sendPc[t] # "idle" => sendArg[t] \in Task

(* The loop thread is not sending while it waits for the mutex or looks    *)
(* at the deque; only the code of a task can send.                         *)
LoopPcInv == loopPc \in {"woken", "drain"} => LoopIdle

(* Who holds the mutex, and how often.                                     *)
SendHold(t) == IF sendPc[t] \in {"push", "signal"} THEN 1 ELSE 0
DrainHold(t) == IF t = LoopThread /\ loopPc \in {"drain", "task"} THEN 1 ELSE 0
OwnerInv ==
  /\ \A t \in Thread : InSection(t) => mutexOwner = t
  /\ mutexOwner = Nobody => mutexDepth = 0
  /\ mutexOwner \in Thread =>
       /\ InSection(mutexOwner)
       /\ mutexDepth = SendHold(mutexOwner) + DrainHold(mutexOwner)

(* uninit cannot have been called after more sends than there were.        *)
MarkInv == uninitMark <= Len(sent)

IInv == /\ TypeOK /\ ArgInv /\ LoopPcInv /\ OwnerInv
        /\ FIFO /\ NoLostWakeup /\ UninitDrains /\ MarkInv

-----------------------------------------------------------------------------
LEMMA AssumptionsHold == Assumptions
  BY LoopThreadAssumption, NobodyAssumption, TaskAssumption, MaxSendAssumption
  DEF Assumptions

(* Appending to the second of two concatenated sequences appends to both.  *)
LEMMA AppendToConcat ==
  ASSUME NEW S, NEW s \in Seq(S), NEW q \in Seq(S), NEW e \in S
  PROVE  Append(s \o q, e) = s \o Append(q, e)
<1>1. <<e>> \in Seq(S) /\ s \o q \in Seq(S)
  BY ConcatProperties
<1>2. Append(s \o q, e) = (s \o q) \o <<e>> /\ Append(q, e) = q \o <<e>>
  BY <1>1, AppendIsConcat
<1>3. (s \o q) \o <<e>> = s \o (q \o <<e>>)
  BY <1>1, ConcatAssociative
<1> QED BY <1>2, <1>3

(* Moving the head of the second sequence to the end of the first.         *)
LEMMA ConcatShift ==
  ASSUME NEW S, NEW s \in Seq(S), NEW q \in Seq(S), NEW e \in S
  PROVE  s \o (<<e>> \o q) = Append(s, e) \o q
<1>1. <<e>> \in Seq(S)
  OBVIOUS
<1>2. Append(s, e) = s \o <<e>>
  BY AppendIsConcat
<1>3. (s \o <<e>>) \o q = s \o (<<e>> \o q)
  BY <1>1, ConcatAssociative
<1> QED BY <1>2, <1>3

(* The initial state satisfies every part of the invariant.                *)
LEMMA InitIInv == Init => IInv
<1> SUFFICES ASSUME Init PROVE IInv
  OBVIOUS
<1> USE AssumptionsHold DEF Assumptions, Init
<1>1. TypeOK
  <2>1. sendPc \in [Thread -> SendPc] BY DEF SendPc
  <2>2. sendArg \in [Thread -> Task \cup {NoTask}] OBVIOUS
  <2>3. queue \in Seq(Task) /\ sent \in Seq(Task) /\ ran \in Seq(Task)
    BY EmptySeq
  <2> QED BY <2>1, <2>2, <2>3 DEF TypeOK, HandleState, LoopPc
<1>2. ArgInv /\ LoopPcInv /\ NoLostWakeup
  BY DEF ArgInv, LoopPcInv, NoLostWakeup
<1>3. OwnerInv BY DEF OwnerInv, InSection
<1>4. FIFO BY DEF FIFO
<1>5. UninitDrains /\ MarkInv BY DEF UninitDrains, MarkInv
<1> QED BY <1>1, <1>2, <1>3, <1>4, <1>5 DEF IInv

(* Types are preserved; the sequences only grow by tasks.                  *)
LEMMA TypeStep == IInv /\ [Next]_vars => TypeOK'
<1> SUFFICES ASSUME IInv, [Next]_vars PROVE TypeOK'
  OBVIOUS
<1> USE AssumptionsHold DEF Assumptions, IInv, TypeOK, HandleState, SendPc,
        LoopPc, mutexVars, asyncVars, sendVars
<1>1. ASSUME NEW t \in Thread, NEW task \in Task, SendCall(t, task)
      PROVE  TypeOK'
  BY <1>1 DEF SendCall
<1>2. ASSUME NEW t \in Thread, SendLock(t) PROVE TypeOK'
  BY <1>2 DEF SendLock, Lock
<1>3. ASSUME NEW t \in Thread, SendPush(t) PROVE TypeOK'
  BY <1>3 DEF SendPush, ArgInv
<1>4. ASSUME NEW t \in Thread, SendSignal(t) PROVE TypeOK'
  <2>1. mutexOwner = t /\ mutexDepth \in Nat \ {0}
    BY <1>4 DEF SendSignal, OwnerInv, InSection, SendHold, DrainHold
  <2> QED BY <2>1, <1>4 DEF SendSignal, Unlock, AsyncSend
<1>5. CASE LoopInit BY <1>5 DEF LoopInit
<1>6. CASE Poll BY <1>6 DEF Poll
<1>7. CASE DrainLock BY <1>7 DEF DrainLock, Lock
<1>8. CASE DrainNext BY <1>8 DEF DrainNext
<1>9. CASE TaskReturn BY <1>9 DEF TaskReturn
<1>10. CASE DrainEnd
  <2>1. mutexOwner = LoopThread /\ mutexDepth \in Nat \ {0}
    BY <1>10 DEF DrainEnd, OwnerInv, InSection, SendHold, DrainHold
  <2> QED BY <2>1, <1>10 DEF DrainEnd, Unlock
<1>11. CASE UninitInTask
  <2>1. uninitMark' \in Nat BY <1>11, LenProperties DEF UninitInTask
  <2> QED BY <1>11, <2>1 DEF UninitInTask, CloseAsync
<1>12. CASE UninitInCallback BY <1>12 DEF UninitInCallback, CloseAsync
<1>13. CASE CloseDone BY <1>13 DEF CloseDone
<1>14. CASE LoopExit BY <1>14 DEF LoopExit
<1>15. CASE UNCHANGED vars BY <1>15 DEF vars
<1> QED
  BY <1>1, <1>2, <1>3, <1>4, <1>5, <1>6, <1>7, <1>8, <1>9, <1>10, <1>11,
     <1>12, <1>13, <1>14, <1>15
  DEF Next, SendStep, LoopStep, Terminated

(* The mutex is held exactly by the thread in a critical section, once     *)
(* per section it has entered.                                             *)
LEMMA OwnerStep == IInv /\ [Next]_vars => (ArgInv /\ LoopPcInv /\ OwnerInv)'
<1> SUFFICES ASSUME IInv, [Next]_vars PROVE (ArgInv /\ LoopPcInv /\ OwnerInv)'
  OBVIOUS
<1> USE AssumptionsHold
    DEF Assumptions, IInv, TypeOK, HandleState, SendPc, LoopPc, mutexVars,
        asyncVars, sendVars, ArgInv, LoopPcInv, LoopIdle, OwnerInv, InSection,
        SendHold, DrainHold
<1>1. ASSUME NEW t \in Thread, NEW task \in Task, SendCall(t, task)
      PROVE  (ArgInv /\ LoopPcInv /\ OwnerInv)'
  BY <1>1 DEF SendCall, MaySend
<1>2. ASSUME NEW t \in Thread, SendLock(t)
      PROVE  (ArgInv /\ LoopPcInv /\ OwnerInv)'
  BY <1>2 DEF SendLock, Lock
<1>3. ASSUME NEW t \in Thread, SendPush(t)
      PROVE  (ArgInv /\ LoopPcInv /\ OwnerInv)'
  BY <1>3 DEF SendPush
<1>4. ASSUME NEW t \in Thread, SendSignal(t)
      PROVE  (ArgInv /\ LoopPcInv /\ OwnerInv)'
  BY <1>4 DEF SendSignal, Unlock
<1>5. CASE LoopInit BY <1>5 DEF LoopInit
<1>6. CASE Poll BY <1>6 DEF Poll
<1>7. CASE DrainLock BY <1>7 DEF DrainLock, Lock
<1>8. CASE DrainNext BY <1>8 DEF DrainNext
<1>9. CASE TaskReturn BY <1>9 DEF TaskReturn
<1>10. CASE DrainEnd BY <1>10 DEF DrainEnd, Unlock
<1>11. CASE UninitInTask BY <1>11 DEF UninitInTask, CloseAsync
<1>12. CASE UninitInCallback BY <1>12 DEF UninitInCallback, CloseAsync
<1>13. CASE CloseDone BY <1>13 DEF CloseDone
<1>14. CASE LoopExit BY <1>14 DEF LoopExit
<1>15. CASE UNCHANGED vars BY <1>15 DEF vars
<1> QED
  BY <1>1, <1>2, <1>3, <1>4, <1>5, <1>6, <1>7, <1>8, <1>9, <1>10, <1>11,
     <1>12, <1>13, <1>14, <1>15
  DEF Next, SendStep, LoopStep, Terminated

(* Only SendPush and DrainNext move tasks, and both keep the order.        *)
LEMMA FIFOStep == IInv /\ [Next]_vars => (FIFO /\ MarkInv)'
<1> SUFFICES ASSUME IInv, [Next]_vars PROVE (FIFO /\ MarkInv)'
  OBVIOUS
<1> USE AssumptionsHold DEF Assumptions, IInv, TypeOK, mutexVars, asyncVars,
        sendVars, FIFO, MarkInv
<1>1. ASSUME NEW t \in Thread, SendPush(t) PROVE (FIFO /\ MarkInv)'
  <2> USE DEF SendPush
  <2>1. sendArg[t] \in Task BY <1>1 DEF ArgInv
  <2>2. Append(ran \o queue, sendArg[t]) = ran \o Append(queue, sendArg[t])
    BY <2>1, AppendToConcat
  <2>3. FIFO' BY <1>1, <2>2
  <2>4. MarkInv' BY <1>1, <2>1
  <2> QED BY <2>3, <2>4
<1>2. CASE DrainNext
  <2> USE DEF DrainNext
  <2>1. queue = <<Head(queue)>> \o Tail(queue)
    BY <1>2, HeadTailProperties
  <2>2. Head(queue) \in Task /\ Tail(queue) \in Seq(Task)
    BY <1>2
  <2>3. ran \o (<<Head(queue)>> \o Tail(queue)) =
        Append(ran, Head(queue)) \o Tail(queue)
    BY <2>2, ConcatShift
  <2>4. FIFO' BY <1>2, <2>1, <2>3
  <2> QED BY <1>2, <2>4
<1>3. CASE UninitInTask BY <1>3 DEF UninitInTask, CloseAsync
<1>4. CASE UNCHANGED <<queue, sent, ran, uninitMark>> BY <1>4
<1>5. \/ UNCHANGED <<queue, sent, ran, uninitMark>>
      \/ \E t \in Thread : SendPush(t)
      \/ DrainNext
      \/ UninitInTask
  BY DEF Next, SendStep, LoopStep, Terminated, vars, SendCall, SendLock,
         SendSignal, LoopInit, Poll, DrainLock, TaskReturn, DrainEnd,
         UninitInCallback, CloseAsync, CloseDone, LoopExit
<1> QED BY <1>1, <1>2, <1>3, <1>4, <1>5

(* No step leaves a task in the deque of a live loop without a wake-up.    *)
LEMMA WakeupStep == IInv /\ [Next]_vars => NoLostWakeup'
<1> SUFFICES ASSUME IInv, [Next]_vars PROVE NoLostWakeup'
  OBVIOUS
<1> USE AssumptionsHold DEF Assumptions, IInv, TypeOK, HandleState, SendPc,
        LoopPc, mutexVars, asyncVars, sendVars, NoLostWakeup
<1>1. ASSUME NEW t \in Thread, NEW task \in Task, SendCall(t, task)
      PROVE  NoLostWakeup'
  BY <1>1 DEF SendCall, MaySend
<1>2. ASSUME NEW t \in Thread, SendLock(t) PROVE NoLostWakeup'
  BY <1>2 DEF SendLock
<1>3. ASSUME NEW t \in Thread, SendPush(t) PROVE NoLostWakeup'
  BY <1>3 DEF SendPush
<1>4. ASSUME NEW t \in Thread, SendSignal(t) PROVE NoLostWakeup'
  BY <1>4 DEF SendSignal, AsyncSend
<1>5. CASE LoopInit BY <1>5 DEF LoopInit
<1>6. CASE Poll BY <1>6 DEF Poll
<1>7. CASE DrainLock BY <1>7 DEF DrainLock
<1>8. CASE DrainNext BY <1>8 DEF DrainNext
<1>9. CASE TaskReturn BY <1>9 DEF TaskReturn
<1>10. CASE DrainEnd BY <1>10 DEF DrainEnd
<1>11. CASE UninitInTask BY <1>11 DEF UninitInTask, CloseAsync
<1>12. CASE UninitInCallback BY <1>12 DEF UninitInCallback, CloseAsync
<1>13. CASE CloseDone BY <1>13 DEF CloseDone
<1>14. CASE LoopExit BY <1>14 DEF LoopExit
<1>15. CASE UNCHANGED vars BY <1>15 DEF vars
<1> QED
  BY <1>1, <1>2, <1>3, <1>4, <1>5, <1>6, <1>7, <1>8, <1>9, <1>10, <1>11,
     <1>12, <1>13, <1>14, <1>15
  DEF Next, SendStep, LoopStep, Terminated

(* A drain ends only on an empty deque, when everything sent has run.      *)
LEMMA DrainsStep == IInv /\ [Next]_vars => UninitDrains'
<1> SUFFICES ASSUME IInv, [Next]_vars PROVE UninitDrains'
  OBVIOUS
<1> USE DEF IInv, TypeOK, mutexVars, asyncVars, sendVars, UninitDrains
<1>1. CASE DrainEnd
  <2>1. sent = ran BY <1>1, ConcatEmptySeq DEF DrainEnd, FIFO
  <2> QED BY <1>1, <2>1 DEF DrainEnd, MarkInv
<1>2. CASE DrainNext BY <1>2 DEF DrainNext
<1>3. CASE UninitInTask BY <1>3 DEF UninitInTask, CloseAsync
<1>4. CASE TaskReturn BY <1>4 DEF TaskReturn
<1>5. CASE DrainLock BY <1>5 DEF DrainLock
<1>6. CASE LoopInit BY <1>6 DEF LoopInit
<1>7. CASE Poll BY <1>7 DEF Poll
<1>8. CASE LoopExit BY <1>8 DEF LoopExit
<1>9. CASE UNCHANGED <<loopPc, ran, uninitMark>> BY <1>9
<1>10. \/ UNCHANGED <<loopPc, ran, uninitMark>>
       \/ DrainEnd \/ DrainNext \/ UninitInTask \/ TaskReturn
       \/ DrainLock \/ LoopInit \/ Poll \/ LoopExit
  BY DEF Next, SendStep, LoopStep, Terminated, vars, SendCall, SendLock,
         SendPush, SendSignal, UninitInCallback, CloseAsync, CloseDone
<1> QED BY <1>1, <1>2, <1>3, <1>4, <1>5, <1>6, <1>7, <1>8, <1>9, <1>10

LEMMA IInvariance == Safety => []IInv
<1>1. IInv /\ [Next]_vars => IInv'
  BY TypeStep, OwnerStep, FIFOStep, WakeupStep, DrainsStep DEF IInv
<1> QED BY InitIInv, <1>1, PTL DEF Safety

-----------------------------------------------------------------------------
(* sendQueuedTask, init and processQueuedTask never corrupt the state      *)
(* they share.                                                             *)
THEOREM TypeCorrect == Safety => []TypeOK
<1>1. IInv => TypeOK BY DEF IInv
<1> QED BY IInvariance, <1>1, PTL

(* The recursive mutex keeps senders out while another thread is inside    *)
(* addQueuedTask or drains the deque.                                      *)
THEOREM MutualExclusionHolds == Safety => []MutualExclusion
<1>1. IInv => MutualExclusion BY DEF IInv, OwnerInv, MutualExclusion
<1> QED BY IInvariance, <1>1, PTL

(* Tasks run in the order in which they were sent, each at most once.      *)
THEOREM FIFOHolds == Safety => []FIFO
<1>1. IInv => FIFO BY DEF IInv
<1> QED BY IInvariance, <1>1, PTL

(* No interleaving of senders, init and the drain loses the last wake-up.  *)
THEOREM NoLostWakeupHolds == Safety => []NoLostWakeup
<1>1. IInv => NoLostWakeup BY DEF IInv
<1> QED BY IInvariance, <1>1, PTL

(* uninit from a task abandons no task that had been sent.                 *)
THEOREM UninitDrainsHolds == Safety => []UninitDrains
<1>1. IInv => UninitDrains BY DEF IInv
<1> QED BY IInvariance, <1>1, PTL
=============================================================================
