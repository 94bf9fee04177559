-------------------------- MODULE HandleInitProofs --------------------------
(* Initialisation of a handle, for any number of threads and callbacks:    *)
(* types, and the fact that the handle uses the loop's queue only as       *)
(* LoopQueue describes it, so that what is proved of the queue holds here. *)
EXTENDS HandleInit, LoopQueueProofs

(* A thread inside on/once<InitEvent> carries a callback.                  *)
RegInv == \A t \in Thread : regPc[t] # "idle" => regArg[t] \in Callback

HInv == HTypeOK /\ RegInv

-----------------------------------------------------------------------------
LEMMA HInvInit == HInit => HInv
<1> SUFFICES ASSUME HInit PROVE HInv
  OBVIOUS
<1> USE DEF HInit
<1>1. regPc \in [Thread -> RegPc] /\ handlersPc \in [Thread -> Access]
  BY DEF RegPc, Access
<1>2. regArg \in [Thread -> Callback \cup {NoTask}]
  OBVIOUS
<1>3. fired \in [Callback -> Nat]
  OBVIOUS
<1>4. listeners \in Seq(Callback) /\ emitted \in 0..Len(listeners)
  BY EmptySeq
<1>5. RegInv
  BY DEF RegInv
<1> QED BY <1>1, <1>2, <1>3, <1>4, <1>5 DEF HInv, HTypeOK, InitPc

(* Steps of on/once<InitEvent>.                                            *)
LEMMA HInvReg ==
  ASSUME HInv, NEW t \in Thread,
         RegStep(t) \/ \E c \in Callback : RegCall(t, c)
  PROVE  HInv'
<1> USE DEF HInv, HTypeOK, RegInv, RegPc
<1>1. ASSUME NEW c \in Callback, RegCall(t, c) PROVE HInv'
  BY <1>1 DEF RegCall
<1>2. CASE RegLock(t) BY <1>2 DEF RegLock
<1>3. CASE RegAppend(t)
  <2>1. regArg[t] \in Callback BY <1>3 DEF RegAppend
  <2>2. /\ listeners' \in Seq(Callback)
        /\ Len(listeners') = Len(listeners) + 1
    BY <2>1, <1>3, AppendProperties DEF RegAppend
  <2>3. emitted' \in 0..Len(listeners')
    BY <2>2, <1>3 DEF RegAppend
  <2> QED BY <2>2, <2>3, <1>3 DEF RegAppend
<1>4. CASE RegInvoke(t) BY <1>4 DEF RegInvoke
<1>5. CASE RegReturn(t) BY <1>5 DEF RegReturn
<1> QED BY <1>1, <1>2, <1>3, <1>4, <1>5 DEF RegStep

(* Steps of Handle::init.                                                  *)
LEMMA HInvInitStep ==
  ASSUME HInv, InitStep \/ ManualInitCall
  PROVE  HInv'
<1> USE DEF HInv, HTypeOK, RegInv, InitPc
<1>1. CASE ManualInitCall BY <1>1 DEF ManualInitCall
<1>2. CASE InitLock BY <1>2, LoopThreadAssumption DEF InitLock
<1>3. CASE EmitCall
  <2>1. emitted + 1 \in 1..Len(listeners) BY <1>3 DEF EmitCall
  <2>2. listeners[emitted + 1] \in Callback BY <2>1
  <2>3. fired' \in [Callback -> Nat] BY <2>2, <1>3 DEF EmitCall
  <2> QED BY <2>1, <2>3, <1>3 DEF EmitCall
<1>4. CASE EmitReturn BY <1>4 DEF EmitReturn
<1>5. CASE EmitEnd BY <1>5 DEF EmitEnd
<1>6. CASE InitMark BY <1>6 DEF InitMark
<1> QED BY <1>1, <1>2, <1>3, <1>4, <1>5, <1>6 DEF InitStep

(* Every step keeps the types.                                             *)
LEMMA HInvStep == HInv /\ [HNext]_allVars => HInv'
<1> SUFFICES ASSUME HInv, [HNext]_allVars PROVE HInv'
  OBVIOUS
<1>0. ASSUME UNCHANGED handleVars PROVE HInv'
  BY <1>0 DEF HInv, HTypeOK, RegInv, handleVars
<1>1. ASSUME NEW t \in Thread, ThreadStep(t) PROVE HInv'
  <2>1. CASE HandlersReturn(t)
    BY <2>1 DEF HandlersReturn, HInv, HTypeOK, RegInv, Access
  <2> QED BY <1>0, <1>1, <2>1, HInvReg DEF ThreadStep
<1>2. CASE TaskStart
  <2>1. initPc' \in InitPc
    BY <1>2 DEF TaskStart, HInv, HTypeOK, InitPc
  <2>2. fired' \in [Callback -> Nat]
    BY <1>2 DEF TaskStart, HInv, HTypeOK
  <2> QED BY <2>1, <2>2, <1>2 DEF TaskStart, HInv, HTypeOK, RegInv
<1>3. CASE LoopOwnStep BY <1>0, <1>3 DEF LoopOwnStep
<1>4. CASE InitStep BY <1>4, HInvInitStep
<1>5. ASSUME NEW t \in Thread, OnCall(t) PROVE HInv'
  BY <1>5 DEF OnCall, HInv, HTypeOK, RegInv, Access
<1>6. CASE EmitOther
  BY <1>6 DEF EmitOther, HInv, HTypeOK, RegInv, Access
<1>7. ASSUME NEW t \in Thread, NEW c \in Callback, RegCall(t, c) PROVE HInv'
  BY <1>7, HInvReg
<1>8. CASE ManualInitCall BY <1>8, HInvInitStep
<1>9. ASSUME NEW t \in Thread,
             Create(t) \/ \E task \in WorkTask \cup {UninitTask} : SendWork(t, task)
      PROVE  HInv'
  BY <1>0, <1>9 DEF Create, SendWork
<1>10. CASE UninitCall BY <1>0, <1>10 DEF UninitCall
<1>11. CASE HTerminated BY <1>0, <1>11 DEF HTerminated
<1>12. CASE UNCHANGED allVars BY <1>0, <1>12 DEF allVars
<1> QED
  BY <1>1, <1>2, <1>3, <1>4, <1>5, <1>6, <1>7, <1>8, <1>9, <1>10, <1>11, <1>12
  DEF HNext, HLoopStep, ProgramStep

LEMMA HInvariance == HSafety => []HInv
  BY HInvInit, HInvStep, PTL DEF HSafety

-----------------------------------------------------------------------------
(* Each step of the composed system is a step of the queue, or leaves the  *)
(* queue alone.                                                            *)
LEMMA StepRefines == HInv /\ [HNext]_allVars => [Next]_vars
<1> SUFFICES ASSUME HInv, [HNext]_allVars PROVE [Next]_vars
  OBVIOUS
<1>1. ASSUME NEW t \in Thread, NEW task \in Task, SendCall(t, task)
      PROVE  [Next]_vars
  BY <1>1 DEF Next
<1>2. ASSUME NEW t \in Thread, ThreadStep(t) PROVE [Next]_vars
  <2>1. CASE SendStep(t) BY <2>1 DEF Next
  <2>2. CASE RegInvoke(t)
    <3>1. regArg[t] \in Task
      BY <2>2, CallbackAssumption DEF RegInvoke, HInv, RegInv
    <3> QED BY <1>1, <2>2, <3>1 DEF RegInvoke
  <2>3. CASE RegLock(t) \/ RegAppend(t) \/ RegReturn(t) \/ HandlersReturn(t)
    BY <2>3 DEF RegLock, RegAppend, RegReturn, HandlersReturn
  <2> QED BY <1>2, <2>1, <2>2, <2>3 DEF ThreadStep, RegStep
<1>3. CASE HLoopStep
  <2>1. CASE InitStep
    BY <2>1 DEF InitStep, InitLock, EmitCall, EmitReturn, EmitEnd, InitMark
  <2>2. CASE TaskStart BY <2>2 DEF TaskStart, Next, LoopStep
  <2>3. CASE LoopOwnStep BY <2>3 DEF LoopOwnStep, Next, LoopStep
  <2> QED BY <1>3, <2>1, <2>2, <2>3 DEF HLoopStep
<1>4. CASE ProgramStep
  <2>1. ASSUME NEW t \in Thread, Create(t) PROVE [Next]_vars
    BY <1>1, <2>1, CallbackAssumption DEF Create
  <2>2. ASSUME NEW t \in Thread, NEW task \in WorkTask \cup {UninitTask},
               SendWork(t, task)
        PROVE  [Next]_vars
    BY <1>1, <2>2, CallbackAssumption, TaskAssumption DEF SendWork
  <2>3. ASSUME NEW t \in Thread, NEW c \in Callback, RegCall(t, c)
        PROVE  [Next]_vars
    BY <2>3 DEF RegCall
  <2>4. ASSUME NEW t \in Thread, OnCall(t) PROVE [Next]_vars
    BY <2>4 DEF OnCall
  <2>5. CASE ManualInitCall \/ EmitOther
    BY <2>5 DEF ManualInitCall, EmitOther
  <2>6. CASE UninitCall BY <2>6 DEF UninitCall, Next
  <2> QED BY <1>4, <2>1, <2>2, <2>3, <2>4, <2>5, <2>6 DEF ProgramStep
<1>5. CASE HTerminated BY <1>5 DEF HTerminated, Next
<1>6. CASE UNCHANGED allVars BY <1>6 DEF allVars
<1> QED BY <1>2, <1>3, <1>4, <1>5, <1>6 DEF HNext

-----------------------------------------------------------------------------
(* The handle's own state keeps its types; no callback index runs past the *)
(* listeners.                                                              *)
THEOREM HandleTypeCorrect == HSafety => []HTypeOK
<1>1. HInv => HTypeOK BY DEF HInv
<1> QED BY HInvariance, <1>1, PTL

(* Handles use the loop as LoopQueue says any program does.                *)
THEOREM HandleRefinesLoop == HSafety => Safety
<1>1. HInit => Init BY DEF HInit
<1> QED BY HInvariance, StepRefines, <1>1, PTL DEF HSafety, Safety

(* In particular no init task and no InitEvent callback sent to the loop   *)
(* is lost, repeated or overtaken.                                         *)
THEOREM HandleFIFO == HSafety => [](FIFO /\ NoLostWakeup)
  BY HandleRefinesLoop, FIFOHolds, NoLostWakeupHolds, PTL

-----------------------------------------------------------------------------
(* init() runs _init once, whoever calls it and how often.                 *)

InitSection == initPc \in {"emit", "callback", "mark"}

(* _init has run when, and only when, init() is past its check; and the    *)
(* loop thread finishes one init() before it enters the next.              *)
OnceInv ==
  /\ initPc # "idle" => loopPc \in {"poll", "task"}
  /\ inits = IF inited \/ InitSection THEN 1 ELSE 0

LEMMA OnceStep == HInv /\ OnceInv /\ [HNext]_allVars => OnceInv'
<1> SUFFICES ASSUME HInv, OnceInv, [HNext]_allVars PROVE OnceInv'
  OBVIOUS
<1> USE DEF OnceInv, InitSection
<1>1. ASSUME UNCHANGED <<loopPc, initPc, inits, inited>> PROVE OnceInv'
  BY <1>1
<1>2. CASE InitLock
  BY <1>2 DEF InitLock, vars, HInv, HTypeOK
<1>3. CASE EmitCall \/ EmitReturn \/ EmitEnd \/ InitMark
  BY <1>3 DEF EmitCall, EmitReturn, EmitEnd, InitMark, vars
<1>4. CASE ManualInitCall
  BY <1>4 DEF ManualInitCall, InProgram, vars
<1>5. CASE TaskStart
  BY <1>5 DEF TaskStart, DrainNext
<1>6. CASE LoopOwnStep
  <2>1. initPc = "idle" /\ UNCHANGED <<initPc, inits, inited>>
    BY <1>6 DEF LoopOwnStep, LoopFree, LoopInit, DrainLock, DrainEnd, handleVars
  <2> QED BY <2>1
<1>7. CASE UninitCall
  BY <1>1, <1>7 DEF UninitCall, UninitInCallback, CloseAsync, handleVars
<1>8. ASSUME NEW t \in Thread, ThreadStep(t) PROVE OnceInv'
  BY <1>1, <1>8 DEF ThreadStep, SendStep, SendLock, SendPush, SendSignal,
       RegStep, RegLock, RegAppend, RegInvoke, RegReturn, SendCall,
       HandlersReturn, handleVars, vars
<1>9. ASSUME NEW t \in Thread,
             \/ Create(t) \/ OnCall(t)
             \/ \E c \in Callback : RegCall(t, c)
             \/ \E task \in WorkTask \cup {UninitTask} : SendWork(t, task)
      PROVE  OnceInv'
  BY <1>1, <1>9 DEF Create, OnCall, RegCall, SendWork, SendCall, handleVars,
       vars
<1>10. CASE EmitOther \/ HTerminated \/ UNCHANGED allVars
  BY <1>1, <1>10 DEF EmitOther, HTerminated, Terminated, allVars, vars,
       handleVars
<1> QED
  BY <1>2, <1>3, <1>4, <1>5, <1>6, <1>7, <1>8, <1>9, <1>10
  DEF HNext, HLoopStep, InitStep, ProgramStep

(* uv_xxx_init runs once on the handle's storage, however the program's    *)
(* own calls of init() and the queued one interleave with registrations.   *)
THEOREM InitOnceHolds == HSafety => []InitOnce
<1>1. HInit => OnceInv
  BY DEF HInit, OnceInv, InitSection
<1>2. OnceInv => InitOnce
  BY DEF OnceInv, InitOnce
<1> QED BY <1>1, <1>2, HInvariance, OnceStep, PTL DEF HSafety

-----------------------------------------------------------------------------
(* Absence of the lock cycle, for programs that keep a handle they         *)
(* initialise themselves from other threads until the queued init() has    *)
(* run, and whose tasks register no InitEvent callbacks.                   *)

InitSentBy(t) == sendPc[t] \in {"lock", "push"} /\ sendArg[t] = InitTask

(* init_mtx_ is held exactly by the thread registering or initialising.    *)
LockInv ==
  /\ \A t \in Thread : regPc[t] \in {"locked", "sending"} => initMtx = t
  /\ InitSection => initMtx = LoopThread
  /\ initMtx \in Thread =>
       \/ regPc[initMtx] \in {"locked", "sending"}
       \/ initMtx = LoopThread /\ InitSection

(* Where a thread can be while it registers, and what it then knows.       *)
PlaceInv ==
  /\ regPc[LoopThread] # "idle" => initPc = "idle" /\ loopPc \in {"poll", "task"}
  /\ \A t \in Thread : regPc[t] \in {"want", "locked"} => sendPc[t] = "idle"
  /\ \A t \in Thread : regPc[t] = "sending" => inited
  /\ initPc # "idle" => loopPc \in {"poll", "task"}

(* While the program's own init() is ahead of the queued one, no other     *)
(* thread is registering.                                                  *)
AheadInv == AheadOfTask => \A t \in Thread \ {LoopThread} : regPc[t] = "idle"

(* There is one init task, and it was sent before init() is entered.       *)
OneInit ==
  /\ \A i, j \in 1..Len(queue) :
       queue[i] = InitTask /\ queue[j] = InitTask => i = j
  /\ \A t, u \in Thread : InitSentBy(t) /\ InitSentBy(u) => t = u
  /\ InitQueued => \A t \in Thread : ~InitSentBy(t)
  /\ (\E t \in Thread : InitSentBy(t)) => ~inited /\ initPc = "idle"
  /\ inited \/ initPc # "idle" => Sent(InitTask)

Disciplined == ~SharesEarly /\ ~TaskRegisters

(* No task registers, so the loop thread never does under its own mutex.   *)
PollInv == regPc[LoopThread] # "idle" => loopPc = "poll"

KInv == LockInv /\ PlaceInv /\ PollInv /\ AheadInv /\ OneInit

(* What the deque holds was sent.                                          *)
LEMMA QueuedWasSent ==
  ASSUME IInv, NEW task, \E i \in 1..Len(queue) : queue[i] = task
  PROVE  Sent(task)
<1>1. PICK i \in 1..Len(queue) : queue[i] = task
  OBVIOUS
<1>2. queue \in Seq(Task) /\ ran \in Seq(Task) /\ sent = ran \o queue
  BY DEF IInv, TypeOK, FIFO
<1>3. /\ Len(ran) \in Nat /\ Len(queue) \in Nat
      /\ Len(sent) = Len(ran) + Len(queue)
  BY <1>2, ConcatProperties
<1>4. Len(ran) + i \in 1..Len(ran) + Len(queue) /\ ~(Len(ran) + i <= Len(ran))
      /\ (Len(ran) + i) - Len(ran) = i
  BY <1>1, <1>3
<1>5. sent[Len(ran) + i] = queue[i]
  BY <1>2, <1>3, <1>4, ConcatProperties
<1> QED BY <1>1, <1>3, <1>4, <1>5 DEF Sent

(* What was sent stays sent.                                               *)
LEMMA SentStays ==
  ASSUME IInv, [Next]_vars, NEW task, Sent(task)
  PROVE  Sent(task)'
<1>1. sent' = sent \/ \E t \in Thread : SendPush(t)
  BY DEF Next, SendStep, LoopStep, Terminated, vars, SendCall, SendLock,
         SendSignal, LoopInit, Poll, DrainLock, DrainNext, TaskReturn,
         DrainEnd, UninitInTask, UninitInCallback, CloseAsync, CloseDone,
         LoopExit
<1>2. ASSUME NEW t \in Thread, SendPush(t) PROVE Sent(task)'
  <2>1. sendArg[t] \in Task /\ sent \in Seq(Task)
    BY <1>2 DEF IInv, TypeOK, ArgInv, SendPush
  <2>2. /\ Len(sent') = Len(sent) + 1
        /\ \A i \in 1..Len(sent) : sent'[i] = sent[i]
    BY <1>2, <2>1, AppendProperties DEF SendPush
  <2> QED BY <2>1, <2>2 DEF Sent
<1> QED BY <1>1, <1>2 DEF Sent

LEMMA KInvInit == HInit => KInv
  BY LoopThreadAssumption, NobodyAssumption
  DEF HInit, Init, KInv, LockInv, PlaceInv, PollInv, AheadInv, OneInit,
      InitSection, InitSentBy

(* Who holds init_mtx_.                                                    *)
LEMMA LockStep ==
  ASSUME IInv, HInv, LockInv, PlaceInv, [HNext]_allVars
  PROVE  LockInv'
<1> USE LoopThreadAssumption, NobodyAssumption
    DEF HInv, HTypeOK, LockInv, InitSection, InitPc, RegPc
<1>0. ASSUME UNCHANGED <<initMtx, regPc, initPc>> PROVE LockInv'
  BY <1>0
<1>1. ASSUME NEW t \in Thread, RegStep(t) PROVE LockInv'
  <2>1. CASE RegLock(t) BY <2>1 DEF RegLock
  <2>2. CASE RegAppend(t) BY <2>2 DEF RegAppend, PlaceInv
  <2>3. CASE RegInvoke(t) BY <2>3 DEF RegInvoke
  <2>4. CASE RegReturn(t) BY <2>4 DEF RegReturn, PlaceInv
  <2> QED BY <1>1, <2>1, <2>2, <2>3, <2>4 DEF RegStep
<1>2. ASSUME NEW t \in Thread, NEW c \in Callback, RegCall(t, c) PROVE LockInv'
  BY <1>2 DEF RegCall, InProgram
<1>3. CASE InitStep
  <2>1. regPc[LoopThread] = "idle"
    BY <1>3 DEF PlaceInv, InitStep, InitLock, EmitCall, EmitReturn, EmitEnd,
                InitMark
  <2>2. CASE InitLock BY <2>1, <2>2 DEF InitLock, PlaceInv
  <2>3. CASE EmitCall BY <2>1, <2>3 DEF EmitCall
  <2>4. CASE EmitReturn BY <2>1, <2>4 DEF EmitReturn
  <2>5. CASE EmitEnd BY <2>1, <2>5 DEF EmitEnd
  <2>6. CASE InitMark BY <2>1, <2>6 DEF InitMark
  <2> QED BY <1>3, <2>2, <2>3, <2>4, <2>5, <2>6 DEF InitStep
<1>4. CASE TaskStart
  <2>1. initPc = "idle" BY <1>4 DEF PlaceInv, TaskStart, DrainNext
  <2> QED BY <1>4, <2>1 DEF TaskStart
<1>5. CASE ManualInitCall BY <1>5 DEF ManualInitCall
<1>6. \/ UNCHANGED <<initMtx, regPc, initPc>> \/ InitStep \/ TaskStart
      \/ ManualInitCall
      \/ \E t \in Thread : RegStep(t)
      \/ \E t \in Thread, c \in Callback : RegCall(t, c)
  BY DEF HNext, allVars, handleVars, ThreadStep, HandlersReturn, HLoopStep,
         LoopOwnStep, ProgramStep, Create, OnCall, SendWork, EmitOther,
         UninitCall, HTerminated
<1> QED BY <1>0, <1>1, <1>2, <1>3, <1>4, <1>5, <1>6

(* Where threads are.                                                      *)
LEMMA PlaceStep ==
  ASSUME IInv, HInv, LockInv, PlaceInv, [HNext]_allVars
  PROVE  PlaceInv'
<1> USE LoopThreadAssumption
    DEF HInv, HTypeOK, PlaceInv, InitPc, RegPc, IInv, TypeOK, SendPc, LoopPc
<1>1. ASSUME NEW t \in Thread, NEW task, InProgram(t), SendCall(t, task),
             UNCHANGED handleVars
      PROVE  PlaceInv'
  BY <1>1 DEF InProgram, SendCall, handleVars
<1>2. ASSUME NEW t \in Thread, ThreadStep(t) PROVE PlaceInv'
  <2>1. CASE SendStep(t) /\ UNCHANGED handleVars
    BY <2>1 DEF SendStep, SendLock, SendPush, SendSignal, handleVars
  <2>2. CASE RegLock(t) BY <2>2 DEF RegLock, vars, sendVars
  <2>3. CASE RegAppend(t) BY <2>3 DEF RegAppend, vars, sendVars
  <2>4. CASE RegInvoke(t) BY <2>4 DEF RegInvoke, SendCall
  <2>5. CASE RegReturn(t) BY <2>5 DEF RegReturn, vars, sendVars
  <2>6. CASE HandlersReturn(t) BY <2>6 DEF HandlersReturn, vars, sendVars
  <2> QED BY <1>2, <2>1, <2>2, <2>3, <2>4, <2>5, <2>6 DEF ThreadStep, RegStep
<1>3. ASSUME NEW t \in Thread, NEW c \in Callback, RegCall(t, c)
      PROVE  PlaceInv'
  BY <1>3 DEF RegCall, InProgram, vars, sendVars
<1>4. CASE InitStep
  BY <1>4 DEF InitStep, InitLock, EmitCall, EmitReturn, EmitEnd, InitMark,
              vars, sendVars, LockInv, InitSection
<1>5. CASE TaskStart
  <2>1. regPc[LoopThread] = "idle"
    BY <1>5 DEF TaskStart, DrainNext
  <2> QED BY <1>5, <2>1 DEF TaskStart, DrainNext, sendVars
<1>6. CASE LoopOwnStep
  <2>1. /\ regPc[LoopThread] = "idle" /\ initPc = "idle"
        /\ UNCHANGED <<sendPc, handleVars>>
    BY <1>6 DEF LoopOwnStep, LoopFree, LoopInit, DrainLock, DrainEnd, Poll,
                TaskReturn, UninitInTask, CloseAsync, CloseDone, LoopExit,
                sendVars
  <2> QED BY <2>1 DEF handleVars
<1>7. CASE UninitCall
  BY <1>7 DEF UninitCall, UninitInCallback, CloseAsync, sendVars, handleVars
<1>8. ASSUME UNCHANGED <<vars, initMtx, inited, initPc, regPc>> PROVE PlaceInv'
  BY <1>8 DEF vars, sendVars
<1>9. ASSUME NEW t \in Thread, OnCall(t) PROVE PlaceInv'
  BY <1>8, <1>9 DEF OnCall
<1>10. CASE EmitOther BY <1>8, <1>10 DEF EmitOther
<1>11. CASE HTerminated BY <1>8, <1>11 DEF HTerminated, Terminated, handleVars
<1>12. CASE UNCHANGED allVars BY <1>8, <1>12 DEF allVars, handleVars
<1>13. ASSUME NEW t \in Thread, NEW task \in WorkTask \cup {UninitTask},
              SendWork(t, task)
       PROVE  PlaceInv'
  BY <1>1, <1>13 DEF SendWork
<1>14. ASSUME NEW t \in Thread, Create(t) PROVE PlaceInv'
  BY <1>1, <1>14 DEF Create
<1>15. CASE ManualInitCall
  BY <1>15 DEF ManualInitCall, InProgram, vars, sendVars
<1> QED
  BY <1>2, <1>3, <1>4, <1>5, <1>6, <1>7, <1>9, <1>10, <1>11, <1>12, <1>13,
     <1>14, <1>15
  DEF HNext, HLoopStep, ProgramStep

(* With the program's discipline, the loop thread registers from uv's      *)
(* callbacks only.                                                         *)
LEMMA PollStep ==
  ASSUME HInv, PollInv, [HNext]_allVars, Disciplined
  PROVE  PollInv'
<1> USE LoopThreadAssumption DEF HInv, HTypeOK, PollInv
<1>1. CASE UNCHANGED loopPc /\ (regPc'[LoopThread] # "idle" => regPc[LoopThread] # "idle")
  BY <1>1
<1>2. CASE TaskStart
  <2>1. regPc[LoopThread] = "idle" /\ regPc' = regPc
    BY <1>2 DEF TaskStart, DrainNext
  <2> QED BY <2>1
<1>3. CASE LoopOwnStep
  <2>1. regPc[LoopThread] = "idle" /\ regPc' = regPc
    BY <1>3 DEF LoopOwnStep, LoopFree, LoopInit, DrainLock, DrainEnd, handleVars
  <2> QED BY <2>1
<1>4. ASSUME NEW t \in Thread, NEW c \in Callback, RegCall(t, c) PROVE PollInv'
  BY <1>4 DEF RegCall, InProgram, Disciplined, vars
<1>5. ASSUME NEW t \in Thread, ThreadStep(t) PROVE PollInv'
  <2>1. UNCHANGED loopPc
    BY <1>5 DEF ThreadStep, SendStep, SendLock, SendPush, SendSignal, RegStep,
         RegLock, RegAppend, RegInvoke, RegReturn, SendCall, HandlersReturn, vars
  <2>2. regPc'[LoopThread] # "idle" => regPc[LoopThread] # "idle"
    BY <1>5 DEF ThreadStep, RegStep, RegLock, RegAppend, RegInvoke, RegReturn,
         HandlersReturn, handleVars
  <2> QED BY <1>1, <2>1, <2>2
<1>6. CASE InitStep
  BY <1>1, <1>6 DEF InitStep, InitLock, EmitCall, EmitReturn, EmitEnd,
       InitMark, vars
<1>7. ASSUME NEW t \in Thread,
             \/ Create(t) \/ OnCall(t)
             \/ \E task \in WorkTask \cup {UninitTask} : SendWork(t, task)
      PROVE  PollInv'
  BY <1>1, <1>7 DEF Create, OnCall, SendWork, SendCall, handleVars, vars
<1>8. CASE ManualInitCall \/ EmitOther \/ UninitCall \/ HTerminated \/ UNCHANGED allVars
  BY <1>1, <1>8 DEF ManualInitCall, EmitOther, UninitCall, UninitInCallback,
       CloseAsync, HTerminated, Terminated, allVars, vars, handleVars
<1> QED
  BY <1>2, <1>3, <1>4, <1>5, <1>6, <1>7, <1>8
  DEF HNext, HLoopStep, ProgramStep

(* Nobody registers from outside while the program is ahead of the task.   *)
LEMMA AheadStep ==
  ASSUME IInv, HInv, KInv, [HNext]_allVars, Disciplined
  PROVE  AheadInv'
<1> USE LoopThreadAssumption, CallbackAssumption
    DEF HInv, HTypeOK, KInv, AheadInv, AheadOfTask
<1>1. ASSUME UNCHANGED <<inited, initPc, queue, regPc>> PROVE AheadInv'
  BY <1>1 DEF InitQueued
<1>2. ASSUME NEW t \in Thread, SendPush(t), UNCHANGED handleVars
      PROVE  AheadInv'
  <2>1. /\ queue' = Append(queue, sendArg[t]) /\ sendPc[t] = "push"
        /\ UNCHANGED <<inited, initPc, regPc>>
    BY <1>2 DEF SendPush, handleVars
  <2>2. queue \in Seq(Task) /\ sendArg[t] \in Task /\ Len(queue) \in Nat
    BY <2>1 DEF IInv, TypeOK, ArgInv
  <2>3. /\ Len(queue') = Len(queue) + 1
        /\ \A i \in 1..Len(queue) : queue'[i] = queue[i]
        /\ queue'[Len(queue) + 1] = sendArg[t]
    BY <2>1, <2>2, AppendProperties
  <2>4. InitQueued' => InitQueued \/ InitSentBy(t)
    BY <2>1, <2>2, <2>3 DEF InitQueued, InitSentBy
  <2>5. InitSentBy(t) => ~inited /\ initPc = "idle"
    BY DEF OneInit
  <2> QED BY <2>1, <2>4, <2>5
<1>3. ASSUME NEW t \in Thread, RegStep(t) PROVE AheadInv'
  <2>1. /\ regPc[t] # "idle" /\ UNCHANGED <<inited, initPc, queue>>
        /\ \A u \in Thread \ {t} : regPc'[u] = regPc[u]
    BY <1>3 DEF RegStep, RegLock, RegAppend, RegInvoke, RegReturn, SendCall,
                vars
  <2> QED BY <2>1 DEF InitQueued
<1>4. ASSUME NEW t \in Thread, NEW c \in Callback, RegCall(t, c)
      PROVE  AheadInv'
  <2>1. /\ t # LoopThread => ~AheadOfTask
        /\ UNCHANGED <<inited, initPc, queue>>
        /\ \A u \in Thread \ {t} : regPc'[u] = regPc[u]
    BY <1>4 DEF RegCall, Disciplined, vars
  <2> QED BY <2>1 DEF InitQueued
<1>5. CASE ManualInitCall BY <1>5 DEF ManualInitCall, Disciplined
<1>6. CASE InitStep
  <2>1. /\ initPc # "idle" /\ UNCHANGED <<queue, regPc>>
        /\ initPc' # "idle" => inited' = inited
    BY <1>6 DEF InitStep, InitLock, EmitCall, EmitReturn, EmitEnd, InitMark,
                vars
  <2> QED BY <2>1 DEF InitQueued
<1>7. CASE TaskStart
  <2>1. /\ queue # <<>> /\ queue' = Tail(queue) /\ queue \in Seq(Task)
        /\ UNCHANGED <<inited, regPc>> /\ initPc = "idle"
        /\ initPc' = IF Head(queue) = InitTask THEN "want" ELSE initPc
    BY <1>7 DEF TaskStart, DrainNext, IInv, TypeOK, PlaceInv
  <2>2. /\ Len(queue) \in Nat /\ Len(queue') = Len(queue) - 1
        /\ \A i \in 1..Len(queue') : queue'[i] = queue[i + 1]
    BY <2>1, HeadTailProperties
  <2>3. Head(queue) = queue[1] /\ 1 \in 1..Len(queue)
    BY <2>1
  <2>4. \A i \in 1..Len(queue') : i + 1 \in 1..Len(queue) /\ i + 1 # 1
    BY <2>2
  <2>5. InitQueued' => InitQueued /\ Head(queue) # InitTask
    BY <2>2, <2>3, <2>4 DEF OneInit, InitQueued
  <2>6. Head(queue) = InitTask => InitQueued
    BY <2>3 DEF InitQueued
  <2> QED BY <2>1, <2>5, <2>6
<1>8. CASE LoopOwnStep
  BY <1>1, <1>8 DEF LoopOwnStep, LoopInit, DrainLock, DrainEnd, Poll,
       TaskReturn, UninitInTask, CloseAsync, CloseDone, LoopExit, handleVars
<1>9. ASSUME NEW t \in Thread, ThreadStep(t) PROVE AheadInv'
  <2>1. CASE (SendLock(t) \/ SendSignal(t)) /\ UNCHANGED handleVars
    BY <1>1, <2>1 DEF SendLock, SendSignal, handleVars
  <2>2. CASE HandlersReturn(t) BY <1>1, <2>2 DEF HandlersReturn, vars
  <2> QED BY <1>2, <1>3, <1>9, <2>1, <2>2 DEF ThreadStep, SendStep
<1>10. ASSUME NEW t \in Thread,
              \/ Create(t) \/ OnCall(t)
              \/ \E task \in WorkTask \cup {UninitTask} : SendWork(t, task)
       PROVE  AheadInv'
  BY <1>1, <1>10 DEF Create, OnCall, SendWork, SendCall, handleVars, vars
<1>11. CASE EmitOther \/ UninitCall \/ HTerminated \/ UNCHANGED allVars
  BY <1>1, <1>11 DEF EmitOther, UninitCall, UninitInCallback, CloseAsync,
       HTerminated, Terminated, allVars, vars, handleVars
<1> QED
  BY <1>4, <1>5, <1>6, <1>7, <1>8, <1>9, <1>10, <1>11
  DEF HNext, HLoopStep, ProgramStep

(* The one init task.                                                      *)
LEMMA OneInitStep ==
  ASSUME IInv, HInv, KInv, [HNext]_allVars, Disciplined
  PROVE  OneInit'
<1>0. [Next]_vars
  BY StepRefines
<1> USE LoopThreadAssumption, CallbackAssumption
<1>1. ASSUME inited' = inited, initPc' = initPc \/ (initPc # "idle" /\ initPc' # "idle"),
             UNCHANGED <<queue, sent>>,
             \A t \in Thread : InitSentBy(t)' => InitSentBy(t)
      PROVE  OneInit'
  BY <1>1 DEF KInv, OneInit, InitQueued, Sent
<1>2. ASSUME NEW t \in Thread, NEW task, task # InitTask, SendCall(t, task),
             UNCHANGED <<inited, initPc>>
      PROVE  OneInit'
  BY <1>1, <1>2 DEF SendCall, InitSentBy, IInv, TypeOK
<1>3. ASSUME NEW t \in Thread, Create(t) PROVE OneInit'
  <2>1. ~Sent(InitTask) /\ ~Sending(InitTask)
    BY <1>3 DEF Create
  <2>2. ~InitQueued
    BY <2>1, QueuedWasSent DEF InitQueued
  <2>3. \A u \in Thread : ~InitSentBy(u)
    BY <2>1 DEF Sending, InitSentBy
  <2>4. ~inited /\ initPc = "idle"
    BY <2>1 DEF KInv, OneInit
  <2>5. \A u \in Thread : InitSentBy(u)' => u = t
    BY <1>3, <2>3 DEF Create, SendCall, InitSentBy, IInv, TypeOK
  <2>6. UNCHANGED <<queue, sent, inited, initPc>>
    BY <1>3 DEF Create, SendCall, handleVars
  <2> QED BY <2>2, <2>4, <2>5, <2>6 DEF OneInit, InitQueued
<1>4. ASSUME NEW t \in Thread, SendPush(t), UNCHANGED <<inited, initPc>>
      PROVE  OneInit'
  <2>1. /\ queue' = Append(queue, sendArg[t])
        /\ sendPc' = [sendPc EXCEPT ![t] = "signal"] /\ sendArg' = sendArg
        /\ sendPc[t] = "push"
    BY <1>4 DEF SendPush
  <2>2. /\ queue \in Seq(Task) /\ sendArg[t] \in Task /\ Len(queue) \in Nat
        /\ sendPc \in [Thread -> SendPc]
    BY <1>4 DEF IInv, TypeOK, ArgInv, SendPush
  <2>3. /\ Len(queue') = Len(queue) + 1
        /\ \A i \in 1..Len(queue) : queue'[i] = queue[i]
        /\ queue'[Len(queue) + 1] = sendArg[t]
    BY <2>1, <2>2, AppendProperties
  <2>4. ~InitSentBy(t)' /\ \A u \in Thread : InitSentBy(u)' => InitSentBy(u) /\ u # t
    BY <2>1, <2>2 DEF InitSentBy
  <2>5. InitSentBy(t) <=> sendArg[t] = InitTask
    BY <2>1 DEF InitSentBy
  <2>6. Sent(InitTask) => Sent(InitTask)'
    BY <1>0, SentStays
  <2>7. InitQueued' <=> InitQueued \/ InitSentBy(t)
    BY <2>2, <2>3, <2>5 DEF InitQueued
  <2>8. \A i, j \in 1..Len(queue') :
          queue'[i] = InitTask /\ queue'[j] = InitTask => i = j
    BY <2>2, <2>3, <2>5 DEF KInv, OneInit, InitQueued
  <2>9. InitQueued' => \A u \in Thread : ~InitSentBy(u)'
    BY <2>4, <2>7 DEF KInv, OneInit
  <2>10. (\E u \in Thread : InitSentBy(u)') => ~inited' /\ initPc' = "idle"
    BY <1>4, <2>4 DEF KInv, OneInit
  <2>11. \A u, v \in Thread : InitSentBy(u)' /\ InitSentBy(v)' => u = v
    BY <2>4 DEF KInv, OneInit
  <2>12. inited' \/ initPc' # "idle" => Sent(InitTask)'
    BY <1>4, <2>6 DEF KInv, OneInit
  <2> QED BY <2>8, <2>9, <2>10, <2>11, <2>12 DEF OneInit
<1>5. CASE TaskStart
  <2>1. /\ queue # <<>> /\ queue' = Tail(queue) /\ queue \in Seq(Task)
        /\ UNCHANGED <<sendPc, sendArg, sent, inited>>
    BY <1>5 DEF TaskStart, DrainNext, IInv, TypeOK, sendVars
  <2>2. /\ Len(queue) \in Nat /\ Len(queue') = Len(queue) - 1
        /\ \A i \in 1..Len(queue') : queue'[i] = queue[i + 1]
    BY <2>1, HeadTailProperties
  <2>3. Head(queue) = queue[1] /\ 1 \in 1..Len(queue)
    BY <2>1
  <2>4. \A i \in 1..Len(queue') : i + 1 \in 1..Len(queue) /\ i + 1 # 1
    BY <2>2
  <2>5. \A t \in Thread : InitSentBy(t)' <=> InitSentBy(t)
    BY <2>1 DEF InitSentBy
  <2>6. InitQueued' => InitQueued /\ Head(queue) # InitTask
    BY <2>2, <2>3, <2>4 DEF KInv, OneInit, InitQueued
  <2>7. Head(queue) = InitTask => InitQueued /\ Sent(InitTask)
    BY <2>3, QueuedWasSent DEF InitQueued
  <2>8. initPc' = IF Head(queue) = InitTask THEN "want" ELSE initPc
    BY <1>5 DEF TaskStart
  <2>9. Sent(InitTask)' <=> Sent(InitTask)
    BY <2>1 DEF Sent
  <2>10. \A i, j \in 1..Len(queue') :
           queue'[i] = InitTask /\ queue'[j] = InitTask => i = j
    BY <2>2, <2>4 DEF KInv, OneInit
  <2> QED BY <2>1, <2>5, <2>6, <2>7, <2>8, <2>9, <2>10 DEF KInv, OneInit
<1>6. CASE InitStep
  <2>1. UNCHANGED <<queue, sent, sendPc, sendArg>> /\ initPc # "idle"
    BY <1>6 DEF InitStep, InitLock, EmitCall, EmitReturn, EmitEnd, InitMark,
                vars, sendVars
  <2>2. (\A t \in Thread : ~InitSentBy(t)) /\ Sent(InitTask)
    BY <2>1 DEF KInv, OneInit
  <2> QED BY <2>1, <2>2 DEF KInv, OneInit, InitQueued, InitSentBy, Sent
<1>7. ASSUME UNCHANGED <<inited, initPc, queue, sent, sendPc, sendArg>>
      PROVE  OneInit'
  BY <1>7 DEF KInv, OneInit, InitQueued, InitSentBy, Sent
<1>8. ASSUME NEW t \in Thread, ThreadStep(t) PROVE OneInit'
  <2>1. CASE SendStep(t) /\ UNCHANGED handleVars
    <3>1. CASE SendLock(t)
      BY <1>1, <2>1, <3>1 DEF SendLock, InitSentBy, handleVars, IInv, TypeOK
    <3>2. CASE SendSignal(t)
      BY <1>1, <2>1, <3>2 DEF SendSignal, InitSentBy, handleVars, IInv, TypeOK
    <3> QED BY <1>4, <2>1, <3>1, <3>2 DEF SendStep, handleVars
  <2>2. CASE RegInvoke(t)
    <3>1. regArg[t] # InitTask
      BY <2>2 DEF RegInvoke, HInv, RegInv
    <3> QED BY <1>2, <2>2, <3>1 DEF RegInvoke
  <2>3. CASE RegLock(t) \/ RegAppend(t) \/ RegReturn(t) \/ HandlersReturn(t)
    BY <1>7, <2>3 DEF RegLock, RegAppend, RegReturn, HandlersReturn, vars,
                      sendVars
  <2> QED BY <1>8, <2>1, <2>2, <2>3 DEF ThreadStep, RegStep
<1>9. CASE LoopOwnStep
  BY <1>7, <1>9 DEF LoopOwnStep, LoopInit, DrainLock, DrainEnd, Poll,
       TaskReturn, UninitInTask, CloseAsync, CloseDone, LoopExit, sendVars,
       handleVars
<1>10. ASSUME NEW t \in Thread, NEW task \in WorkTask \cup {UninitTask},
              SendWork(t, task)
       PROVE  OneInit'
  BY <1>2, <1>10 DEF SendWork, handleVars
<1>11. ASSUME NEW t \in Thread, NEW c \in Callback, RegCall(t, c)
       PROVE  OneInit'
  BY <1>7, <1>11 DEF RegCall, vars, sendVars
<1>12. ASSUME NEW t \in Thread, OnCall(t) PROVE OneInit'
  BY <1>7, <1>12 DEF OnCall, vars, sendVars
<1>13. CASE EmitOther \/ UninitCall \/ HTerminated \/ UNCHANGED allVars
  BY <1>7, <1>13 DEF EmitOther, UninitCall, UninitInCallback, CloseAsync,
       HTerminated, Terminated, allVars, vars, sendVars, handleVars
<1>14. CASE ManualInitCall
  <2>1. Sent(InitTask) /\ \A t \in Thread : ~InitSentBy(t)
    BY <1>14 DEF ManualInitCall, Created, Sending, InitSentBy
  <2>2. UNCHANGED <<queue, sent, sendPc, sendArg, inited>>
    BY <1>14 DEF ManualInitCall, vars, sendVars
  <2> QED BY <2>1, <2>2 DEF KInv, OneInit, InitQueued, InitSentBy, Sent
<1> QED
  BY <1>3, <1>5, <1>6, <1>8, <1>9, <1>10, <1>11, <1>12, <1>13, <1>14
  DEF HNext, HLoopStep, ProgramStep

(* The invariants leave no room for the cycle.                             *)
LEMMA NoCycle == IInv /\ HInv /\ KInv => NoLockCycle
<1> SUFFICES ASSUME IInv, HInv, KInv, NEW t \in Thread,
                    WaitsForLoopMutex(t), initMtx = t,
                    WaitsForInitMutex(mutexOwner)
             PROVE  FALSE
  BY DEF NoLockCycle
<1> DEFINE u == mutexOwner
<1>1. u \in Thread /\ u # t /\ sendPc[t] = "lock"
  BY DEF WaitsForLoopMutex, IInv, TypeOK
<1>2. InSection(u)
  BY <1>1 DEF IInv, OwnerInv
<1>3. ~(regPc[u] = "want")
  BY <1>1, <1>2 DEF KInv, PlaceInv, PollInv, InSection
<1>4. u = LoopThread /\ initPc = "want"
  BY <1>3 DEF WaitsForInitMutex
<1>5. regPc[t] \in {"locked", "sending"}
  BY <1>1, <1>4 DEF KInv, LockInv, InitSection
<1>6. inited
  BY <1>1, <1>5 DEF KInv, PlaceInv
<1>7. AheadOfTask
  BY <1>4, <1>6 DEF AheadOfTask
<1>8. regPc[t] = "idle"
  BY <1>1, <1>4, <1>7 DEF KInv, AheadInv
<1> QED BY <1>5, <1>8

(* If tasks register no InitEvent callbacks, and a handle the program      *)
(* inits itself is kept from other threads until create()'s own init() has *)
(* run, the loop's mutex and init_mtx_ never block each other, whatever    *)
(* other threads register and whenever.                                    *)
THEOREM NoLockCycleHolds ==
  ASSUME Disciplined
  PROVE  HSafety => []NoLockCycle
<1>1. HSafety => []IInv
  BY HandleRefinesLoop, IInvariance, PTL
<1>2. IInv /\ HInv /\ KInv /\ [HNext]_allVars => KInv'
  BY LockStep, PlaceStep, PollStep, AheadStep, OneInitStep DEF KInv
<1> QED BY <1>1, <1>2, HInvariance, KInvInit, NoCycle, PTL DEF HSafety

-----------------------------------------------------------------------------
(* Absence of a race on handlers_, for programs that share the handle with *)
(* other threads before its InitEvent only to register InitEvent callbacks *)
(* (and then wait for it before they register anything else), or not at    *)
(* all.                                                                    *)

(* The map is used outside init_mtx_ only by the loop thread, and before   *)
(* init only if no other thread has the handle.                            *)
UseInv ==
  /\ \A t \in Thread : handlersPc[t] # "none" => t = LoopThread
  /\ handlersPc[LoopThread] # "none" =>
       inited \/ initPc = "callback" \/ Sharing = "none"
  /\ Sharing = "none" /\ ~inited =>
       \A t \in Thread \ {LoopThread} : regPc[t] = "idle"

LEMMA UseStep ==
  ASSUME HInv, PlaceInv, UseInv, [HNext]_allVars, Sharing # "free"
  PROVE  UseInv'
<1> USE LoopThreadAssumption DEF HInv, HTypeOK, UseInv
<1>0. ASSUME UNCHANGED <<handlersPc, inited, initPc, regPc>> PROVE UseInv'
  BY <1>0
<1>1. ASSUME NEW t \in Thread, OnCall(t) PROVE UseInv'
  BY <1>1 DEF OnCall, MayUseHandlers
<1>2. CASE EmitOther BY <1>2 DEF EmitOther
<1>3. ASSUME NEW t \in Thread, ThreadStep(t) PROVE UseInv'
  <2>1. CASE HandlersReturn(t) BY <2>1 DEF HandlersReturn
  <2>2. CASE RegStep(t)
    <3>1. UNCHANGED <<handlersPc, inited, initPc>> /\ regPc[t] # "idle"
          /\ \A u \in Thread \ {t} : regPc'[u] = regPc[u]
      BY <2>2 DEF RegStep, RegLock, RegAppend, RegInvoke, RegReturn
    <3> QED BY <3>1
  <2>3. CASE UNCHANGED handleVars BY <1>0, <2>3 DEF handleVars
  <2> QED BY <1>3, <2>1, <2>2, <2>3 DEF ThreadStep
<1>4. CASE InitStep
  <2>1. CASE InitLock BY <2>1 DEF InitLock
  <2>2. CASE EmitCall BY <2>2 DEF EmitCall
  <2>3. CASE EmitReturn BY <2>3 DEF EmitReturn, InProgram
  <2>4. CASE EmitEnd BY <2>4 DEF EmitEnd
  <2>5. CASE InitMark BY <2>5 DEF InitMark
  <2> QED BY <1>4, <2>1, <2>2, <2>3, <2>4, <2>5 DEF InitStep
<1>5. CASE ManualInitCall BY <1>5 DEF ManualInitCall
<1>6. CASE TaskStart BY <1>6 DEF TaskStart, DrainNext, PlaceInv
<1>7. ASSUME NEW t \in Thread, NEW c \in Callback, RegCall(t, c) PROVE UseInv'
  <2>1. /\ UNCHANGED <<handlersPc, inited, initPc>>
        /\ \A u \in Thread \ {t} : regPc'[u] = regPc[u]
        /\ t # LoopThread => Sharing # "none" \/ inited
    BY <1>7 DEF RegCall
  <2> QED BY <2>1
<1>8. \/ UNCHANGED <<handlersPc, inited, initPc, regPc>> \/ InitStep \/ TaskStart
      \/ ManualInitCall \/ EmitOther
      \/ \E t \in Thread : OnCall(t) \/ ThreadStep(t)
      \/ \E t \in Thread, c \in Callback : RegCall(t, c)
  BY DEF HNext, allVars, handleVars, HLoopStep, LoopOwnStep, ProgramStep,
         Create, SendWork, UninitCall, HTerminated
<1> QED BY <1>0, <1>1, <1>2, <1>3, <1>4, <1>5, <1>6, <1>7, <1>8

LEMMA UsesExclude == HInv /\ LockInv /\ UseInv => NoHandlersRace
<1> SUFFICES ASSUME HInv, LockInv, UseInv, NEW t \in Thread, NEW u \in Thread,
                    Writes(t), Uses(u)
             PROVE  t = u
  BY DEF NoHandlersRace
<1> USE DEF LockInv, UseInv, InitSection
<1>1. CASE handlersPc[t] = "write"
  <2>1. t = LoopThread /\ (inited \/ initMtx = LoopThread \/ Sharing = "none")
    BY <1>1
  <2>2. CASE regPc[u] = "locked" /\ ~inited BY <2>1, <2>2
  <2>3. CASE handlersPc[u] # "none" \/ u = LoopThread BY <2>1, <2>3
  <2> QED BY <2>2, <2>3 DEF Uses, Writes
<1>2. CASE regPc[t] = "locked" /\ ~inited
  <2>1. initMtx = t BY <1>2
  <2>2. CASE handlersPc[u] # "none" BY <1>2, <2>1, <2>2
  <2>3. CASE regPc[u] = "locked" \/ (u = LoopThread /\ initPc = "emit")
    BY <2>1, <2>3
  <2> QED BY <2>2, <2>3 DEF Uses, Writes
<1> QED BY <1>1, <1>2 DEF Writes

(* Two threads never meet in handlers_, for any number of them, if before  *)
(* InitEvent either no other thread has the handle, or InitEvent callbacks *)
(* are all that is registered; and if afterwards the handle's other events *)
(* are used on the loop thread only.                                       *)
THEOREM NoHandlersRaceHolds ==
  ASSUME Sharing # "free"
  PROVE  HSafety => []NoHandlersRace
<1>1. HSafety => []IInv
  BY HandleRefinesLoop, IInvariance, PTL
<1>2. HInit => LockInv /\ PlaceInv /\ UseInv
  <2>1. HInit => UseInv BY LoopThreadAssumption DEF HInit, UseInv
  <2> QED BY <2>1, KInvInit DEF KInv
<1>3. IInv /\ HInv /\ LockInv /\ PlaceInv /\ UseInv /\ [HNext]_allVars
        => LockInv' /\ PlaceInv' /\ UseInv'
  BY LockStep, PlaceStep, UseStep
<1> QED BY <1>1, <1>2, <1>3, HInvariance, UsesExclude, PTL DEF HSafety

-----------------------------------------------------------------------------
(* Every InitEvent callback is called exactly once or still owed one call, *)
(* with no condition on the program.                                       *)

Listed(c) == \E i \in 1..Len(listeners) : listeners[i] = c
Called(c) == \E i \in 1..emitted : listeners[i] = c
Queued(c) == \E i \in 1..Len(queue) : queue[i] = c
Ran(c) == \E i \in 1..Len(ran) : ran[i] = c

(* Who carries a callback: each is in the hands of one thread at most, and *)
(* only its registration sends it.                                         *)
CarryInv ==
  /\ \A t, u \in Thread : regArg[t] = regArg[u] /\ regArg[t] \in Callback => t = u
  /\ \A t \in Thread : sendPc[t] = "idle" => sendArg[t] = NoTask
  /\ \A t \in Thread :
       sendArg[t] \in Callback => regPc[t] = "sending" /\ regArg[t] = sendArg[t]

(* Where a callback is: on its way, then in the listeners or in the queue, *)
(* never in both, and at most once in either.                              *)
PathInv ==
  /\ \A t \in Thread : regPc[t] \in {"want", "locked"} => ~Sent(regArg[t])
  /\ \A t \in Thread :
       sendPc[t] \in {"lock", "push"} /\ sendArg[t] \in Callback => ~Sent(sendArg[t])
  /\ \A t \in Thread : sendPc[t] = "signal" => Sent(sendArg[t])
  /\ \A c \in Callback : Listed(c) => ~Sent(c) /\ ~Registering(c)
  /\ \A c \in Callback : Queued(c) => ~Ran(c)
  /\ \A i, j \in 1..Len(queue) :
       queue[i] = queue[j] /\ queue[i] \in Callback => i = j

(* Who calls it: emitInit's walk, which ends at the last listener, or the  *)
(* task.                                                                   *)
CallInv ==
  /\ \A i, j \in 1..Len(listeners) : listeners[i] = listeners[j] => i = j
  /\ inited \/ initPc = "mark" => emitted = Len(listeners)
  /\ \A c \in Callback : fired[c] = IF Called(c) \/ Ran(c) THEN 1 ELSE 0

EventInv == CarryInv /\ PathInv /\ CallInv

(* The steps that matter to it.                                            *)
QuietStep ==
  /\ UNCHANGED <<queue, sent, ran, sendPc, sendArg, listeners, emitted, regPc,
                 regArg, fired>>
  /\ inited' \/ initPc' = "mark" =>
       inited \/ initPc = "mark" \/ emitted = Len(listeners)
SendTask(t) ==
  /\ \E task \in Task \ Callback : SendCall(t, task)
  /\ UNCHANGED handleVars
SenderStep(t) == SendStep(t) /\ UNCHANGED handleVars
EventStep ==
  \/ \E t \in Thread : SendTask(t) \/ SenderStep(t) \/ RegStep(t)
  \/ \E t \in Thread, c \in Callback : RegCall(t, c)
  \/ EmitCall \/ TaskStart \/ QuietStep

LEMMA EventSteps == [HNext]_allVars => EventStep
<1> SUFFICES ASSUME [HNext]_allVars PROVE EventStep
  OBVIOUS
<1>1. ASSUME NEW t \in Thread, ThreadStep(t) PROVE EventStep
  <2>1. CASE HandlersReturn(t)
    <3>1. QuietStep
      BY <2>1 DEF HandlersReturn, QuietStep, vars, sendVars
    <3> QED BY <3>1 DEF EventStep
  <2> QED BY <1>1, <2>1 DEF ThreadStep, EventStep, SenderStep
<1>2. CASE LoopOwnStep
  <2>1. UNCHANGED <<queue, sent, ran, sendPc, sendArg, handleVars>>
    BY <1>2 DEF LoopOwnStep, LoopInit, DrainLock, DrainEnd, Poll, TaskReturn,
         UninitInTask, CloseAsync, CloseDone, LoopExit, sendVars
  <2>2. QuietStep BY <2>1 DEF QuietStep, handleVars
  <2> QED BY <2>2 DEF EventStep
<1>3. CASE InitStep
  <2>1. CASE InitLock \/ EmitReturn \/ EmitEnd \/ InitMark
    <3>1. QuietStep
      BY <2>1 DEF InitLock, EmitReturn, EmitEnd, InitMark, QuietStep, vars, sendVars
    <3> QED BY <3>1 DEF EventStep
  <2> QED BY <1>3, <2>1 DEF InitStep, EventStep
<1>4. ASSUME NEW t \in Thread, Create(t) PROVE EventStep
  <2>1. InitTask \in Task \ Callback BY CallbackAssumption
  <2> QED BY <1>4, <2>1 DEF Create, SendTask, EventStep
<1>5. ASSUME NEW t \in Thread, NEW task \in WorkTask \cup {UninitTask},
             SendWork(t, task)
      PROVE  EventStep
  <2>1. task \in Task \ Callback BY CallbackAssumption, TaskAssumption
  <2> QED BY <1>5, <2>1 DEF SendWork, SendTask, EventStep
<1>6. CASE ManualInitCall \/ EmitOther \/ \E t \in Thread : OnCall(t)
  <2>1. QuietStep
    BY <1>6 DEF ManualInitCall, EmitOther, OnCall, QuietStep, vars, sendVars
  <2> QED BY <2>1 DEF EventStep
<1>7. CASE UninitCall \/ HTerminated \/ UNCHANGED allVars
  <2>1. QuietStep
    BY <1>7 DEF UninitCall, UninitInCallback, CloseAsync, HTerminated,
         Terminated, allVars, vars, sendVars, handleVars, QuietStep
  <2> QED BY <2>1 DEF EventStep
<1> QED
  BY <1>1, <1>2, <1>3, <1>4, <1>5, <1>6, <1>7
  DEF HNext, HLoopStep, ProgramStep, EventStep

(* What was sent is what has run and what is queued.                       *)
LEMMA SentIs ==
  ASSUME IInv, NEW c
  PROVE  Sent(c) <=> Ran(c) \/ Queued(c)
<1>1. queue \in Seq(Task) /\ ran \in Seq(Task) /\ sent = ran \o queue
  BY DEF IInv, TypeOK, FIFO
<1>2. /\ Len(ran) \in Nat /\ Len(queue) \in Nat
      /\ Len(sent) = Len(ran) + Len(queue)
      /\ \A i \in 1..Len(ran) + Len(queue) :
           sent[i] = IF i <= Len(ran) THEN ran[i] ELSE queue[i - Len(ran)]
  BY <1>1, ConcatProperties
<1>3. Queued(c) => Sent(c)
  BY QueuedWasSent DEF Queued
<1>4. Ran(c) => Sent(c)
  <2> SUFFICES ASSUME NEW i \in 1..Len(ran), ran[i] = c PROVE Sent(c)
    BY DEF Ran
  <2>1. i \in 1..Len(ran) + Len(queue) /\ i <= Len(ran) BY <1>2
  <2> QED BY <1>2, <2>1 DEF Sent
<1>5. Sent(c) => Ran(c) \/ Queued(c)
  <2> SUFFICES ASSUME NEW i \in 1..Len(sent), sent[i] = c PROVE Ran(c) \/ Queued(c)
    BY DEF Sent
  <2>1. CASE i <= Len(ran)
    <3>1. i \in 1..Len(ran) /\ i \in 1..Len(ran) + Len(queue) BY <1>2, <2>1
    <3> QED BY <1>2, <2>1, <3>1 DEF Ran
  <2>2. CASE ~(i <= Len(ran))
    <3>1. i - Len(ran) \in 1..Len(queue) /\ i \in 1..Len(ran) + Len(queue)
      BY <1>2, <2>2
    <3> QED BY <1>2, <2>2, <3>1 DEF Queued
  <2> QED BY <2>1, <2>2
<1> QED BY <1>3, <1>4, <1>5

LEMMA CarryStep ==
  ASSUME IInv, HInv, CarryInv, EventStep
  PROVE  CarryInv'
<1> USE CallbackAssumption, TaskAssumption
    DEF HInv, HTypeOK, CarryInv, RegPc
<1>0. sendPc \in [Thread -> SendPc] /\ sendArg \in [Thread -> Task \cup {NoTask}]
  BY DEF IInv, TypeOK
<1> USE DEF SendPc
<1>1. ASSUME NEW t \in Thread, SendTask(t) PROVE CarryInv'
  BY <1>0, <1>1 DEF SendTask, SendCall, handleVars
<1>2. ASSUME NEW t \in Thread, SenderStep(t) PROVE CarryInv'
  <2>1. CASE SendLock(t) \/ SendPush(t)
    BY <1>0, <1>2, <2>1 DEF SenderStep, SendLock, SendPush, handleVars
  <2>2. CASE SendSignal(t)
    BY <1>0, <1>2, <2>2 DEF SenderStep, SendSignal, handleVars
  <2> QED BY <1>2, <2>1, <2>2 DEF SenderStep, SendStep
<1>3. ASSUME NEW t \in Thread, RegStep(t) PROVE CarryInv'
  <2>1. CASE RegLock(t) BY <1>0, <2>1 DEF RegLock, vars, sendVars
  <2>2. CASE RegAppend(t) BY <1>0, <2>2 DEF RegAppend, vars, sendVars
  <2>3. CASE RegInvoke(t) BY <1>0, <2>3 DEF RegInvoke, SendCall
  <2>4. CASE RegReturn(t) BY <1>0, <2>4 DEF RegReturn, vars, sendVars
  <2> QED BY <1>3, <2>1, <2>2, <2>3, <2>4 DEF RegStep
<1>4. ASSUME NEW t \in Thread, NEW c \in Callback, RegCall(t, c) PROVE CarryInv'
  <2>1. \A u \in Thread : regArg[u] # c BY <1>4 DEF RegCall, Registering
  <2> QED BY <1>0, <1>4, <2>1 DEF RegCall, InProgram, vars, sendVars
<1>5. CASE EmitCall BY <1>5 DEF EmitCall, vars, sendVars
<1>6. CASE TaskStart BY <1>6 DEF TaskStart, DrainNext, sendVars
<1>7. CASE QuietStep BY <1>7 DEF QuietStep
<1> QED BY <1>1, <1>2, <1>3, <1>4, <1>5, <1>6, <1>7 DEF EventStep

LEMMA PathStep ==
  ASSUME IInv, HInv, CarryInv, PathInv, EventStep
  PROVE  PathInv'
<1> USE CallbackAssumption, TaskAssumption
<1>0. /\ sendPc \in [Thread -> SendPc] /\ sendArg \in [Thread -> Task \cup {NoTask}]
      /\ regPc \in [Thread -> RegPc] /\ regArg \in [Thread -> Callback \cup {NoTask}]
      /\ queue \in Seq(Task) /\ ran \in Seq(Task) /\ sent \in Seq(Task)
      /\ listeners \in Seq(Callback)
      /\ \A t \in Thread : regPc[t] # "idle" => regArg[t] \in Callback
      /\ \A t \in Thread : sendPc[t] # "idle" => sendArg[t] \in Task
  BY DEF IInv, TypeOK, ArgInv, HInv, HTypeOK, RegInv
<1>1. ASSUME UNCHANGED <<queue, ran, sent, listeners>>
      PROVE  \A c : /\ Sent(c)' = Sent(c) /\ Queued(c)' = Queued(c)
                    /\ Ran(c)' = Ran(c) /\ Listed(c)' = Listed(c)
  BY <1>1 DEF Sent, Queued, Ran, Listed
<1>2. ASSUME UNCHANGED <<queue, ran, sent, listeners>>,
             \A t \in Thread : regPc'[t] \in {"want", "locked"} => ~Sent(regArg'[t]),
             \A t \in Thread : sendPc'[t] \in {"lock", "push"} /\ sendArg'[t] \in Callback
                                 => ~Sent(sendArg'[t]),
             \A t \in Thread : sendPc'[t] = "signal" => Sent(sendArg'[t]),
             \A c \in Callback : Listed(c) => ~Registering(c)'
      PROVE  PathInv'
  BY <1>1, <1>2 DEF PathInv
<1>3. ASSUME NEW t \in Thread, SendTask(t) PROVE PathInv'
  <2>1. PICK task \in Task \ Callback : SendCall(t, task)
    BY <1>3 DEF SendTask
  <2>2. /\ UNCHANGED <<queue, ran, sent, listeners, regPc, regArg>>
        /\ sendPc' = [sendPc EXCEPT ![t] = "lock"]
        /\ sendArg' = [sendArg EXCEPT ![t] = task]
    BY <1>3, <2>1 DEF SendTask, SendCall, handleVars
  <2>3. \A c : Registering(c)' = Registering(c) BY <2>2 DEF Registering
  <2> QED BY <1>0, <1>2, <2>2, <2>3 DEF PathInv
<1>4. ASSUME NEW t \in Thread, SenderStep(t) PROVE PathInv'
  <2>0. /\ UNCHANGED <<listeners, regPc, regArg>>
        /\ \A c : Registering(c)' = Registering(c)
    BY <1>4 DEF SenderStep, handleVars, Registering
  <2>1. CASE SendLock(t)
    <3>1. /\ UNCHANGED <<queue, ran, sent, sendArg>> /\ sendPc[t] = "lock"
          /\ sendPc' = [sendPc EXCEPT ![t] = "push"]
      BY <2>1 DEF SendLock
    <3> QED BY <1>0, <1>2, <2>0, <3>1 DEF PathInv
  <2>2. CASE SendSignal(t)
    <3>1. /\ UNCHANGED <<queue, ran, sent>>
          /\ sendPc' = [sendPc EXCEPT ![t] = "idle"]
          /\ \A u \in Thread \ {t} : sendArg'[u] = sendArg[u]
      BY <1>0, <2>2 DEF SendSignal
    <3> QED BY <1>0, <1>2, <2>0, <3>1 DEF PathInv
  <2>3. CASE SendPush(t)
    <3> DEFINE a == sendArg[t]
    <3>1. /\ queue' = Append(queue, a) /\ sent' = Append(sent, a)
          /\ UNCHANGED <<ran, sendArg>> /\ sendPc[t] = "push"
          /\ sendPc' = [sendPc EXCEPT ![t] = "signal"]
      BY <2>3 DEF SendPush
    <3>2. a \in Task BY <1>0, <3>1
    <3>3. /\ Len(queue) \in Nat /\ Len(queue') = Len(queue) + 1
          /\ \A i \in 1..Len(queue) : queue'[i] = queue[i]
          /\ queue'[Len(queue) + 1] = a
      BY <1>0, <3>1, <3>2, AppendProperties
    <3>4. /\ Len(sent) \in Nat /\ Len(sent') = Len(sent) + 1
          /\ \A i \in 1..Len(sent) : sent'[i] = sent[i]
          /\ sent'[Len(sent) + 1] = a
      BY <1>0, <3>1, <3>2, AppendProperties
    <3>5. \A c : Sent(c)' <=> Sent(c) \/ c = a BY <3>4 DEF Sent
    <3>6. \A c : Queued(c)' <=> Queued(c) \/ c = a BY <3>3 DEF Queued
    <3>7. \A c : Ran(c)' = Ran(c) /\ Listed(c)' = Listed(c)
      BY <2>0, <3>1 DEF Ran, Listed
    <3>8. a \in Callback =>
            /\ regPc[t] = "sending" /\ regArg[t] = a /\ ~Sent(a) /\ Registering(a)
            /\ \A u \in Thread : regArg[u] = a \/ sendArg[u] = a => u = t
      BY <3>1 DEF CarryInv, PathInv, Registering
    <3>9. a \in Callback => ~Ran(a) /\ ~Queued(a) BY <3>8, SentIs
    <3>10. \A u \in Thread : regPc'[u] \in {"want", "locked"} => ~Sent(regArg[u])'
      BY <1>0, <2>0, <3>5, <3>8 DEF PathInv
    <3>11. \A u \in Thread : sendPc'[u] \in {"lock", "push"} /\ sendArg'[u] \in Callback
                               => ~Sent(sendArg[u])'
      BY <1>0, <3>1, <3>5, <3>8 DEF PathInv
    <3>12. \A u \in Thread : sendPc'[u] = "signal" => Sent(sendArg[u])'
      BY <1>0, <3>1, <3>5 DEF PathInv
    <3>13. \A c \in Callback : Listed(c)' => ~Sent(c)' /\ ~Registering(c)'
      BY <2>0, <3>5, <3>7, <3>8 DEF PathInv
    <3>14. \A c \in Callback : Queued(c)' => ~Ran(c)'
      BY <3>6, <3>7, <3>9 DEF PathInv
    <3>15. ASSUME NEW i \in 1..Len(queue'), NEW j \in 1..Len(queue'),
                  queue'[i] = queue'[j], queue'[i] \in Callback
           PROVE  i = j
      <4>1. /\ (i \in 1..Len(queue) /\ queue'[i] = queue[i]) \/ i = Len(queue) + 1
            /\ (j \in 1..Len(queue) /\ queue'[j] = queue[j]) \/ j = Len(queue) + 1
        BY <3>3
      <4>2. CASE i \in 1..Len(queue) /\ j \in 1..Len(queue)
        BY <3>3, <3>15, <4>2 DEF PathInv
      <4>3. CASE i = Len(queue) + 1 /\ j \in 1..Len(queue)
        BY <3>3, <3>9, <3>15, <4>3 DEF Queued
      <4>4. CASE i \in 1..Len(queue) /\ j = Len(queue) + 1
        BY <3>3, <3>9, <3>15, <4>4 DEF Queued
      <4> QED BY <4>1, <4>2, <4>3, <4>4
    <3>16. \A u \in Thread : regArg'[u] = regArg[u] /\ sendArg'[u] = sendArg[u]
      BY <2>0, <3>1
    <3> QED BY <3>10, <3>11, <3>12, <3>13, <3>14, <3>15, <3>16 DEF PathInv
  <2> QED BY <1>4, <2>1, <2>2, <2>3 DEF SenderStep, SendStep
<1>5. ASSUME NEW t \in Thread, RegStep(t) PROVE PathInv'
  <2>1. CASE RegLock(t)
    <3>1. /\ UNCHANGED <<queue, ran, sent, listeners, sendPc, sendArg, regArg>>
          /\ regPc[t] = "want" /\ regPc' = [regPc EXCEPT ![t] = "locked"]
      BY <2>1 DEF RegLock, vars, sendVars
    <3>2. \A c : Registering(c)' = Registering(c) BY <3>1 DEF Registering
    <3> QED BY <1>0, <1>2, <3>1, <3>2 DEF PathInv
  <2>2. CASE RegReturn(t)
    <3>1. /\ UNCHANGED <<queue, ran, sent, listeners, sendPc, sendArg>>
          /\ regPc' = [regPc EXCEPT ![t] = "idle"]
          /\ regArg' = [regArg EXCEPT ![t] = NoTask]
      BY <2>2 DEF RegReturn, vars, sendVars
    <3>2. \A c \in Callback : Registering(c)' => Registering(c)
      BY <1>0, <3>1 DEF Registering
    <3> QED BY <1>0, <1>2, <3>1, <3>2 DEF PathInv
  <2>3. CASE RegInvoke(t)
    <3>1. /\ UNCHANGED <<queue, ran, sent, listeners, regArg>>
          /\ regPc[t] = "locked" /\ regPc' = [regPc EXCEPT ![t] = "sending"]
          /\ sendPc' = [sendPc EXCEPT ![t] = "lock"]
          /\ sendArg' = [sendArg EXCEPT ![t] = regArg[t]]
      BY <2>3 DEF RegInvoke, SendCall
    <3>2. \A c : Registering(c)' = Registering(c) BY <3>1 DEF Registering
    <3> QED BY <1>0, <1>2, <3>1, <3>2 DEF PathInv
  <2>4. CASE RegAppend(t)
    <3> DEFINE r == regArg[t]
    <3>1. /\ UNCHANGED <<queue, ran, sent, sendPc, sendArg>>
          /\ listeners' = Append(listeners, r) /\ regPc[t] = "locked"
          /\ regPc' = [regPc EXCEPT ![t] = "idle"]
          /\ regArg' = [regArg EXCEPT ![t] = NoTask]
      BY <2>4 DEF RegAppend, vars, sendVars
    <3>2. r \in Callback /\ ~Sent(r) BY <1>0, <3>1 DEF PathInv
    <3>3. /\ Len(listeners) \in Nat /\ Len(listeners') = Len(listeners) + 1
          /\ \A i \in 1..Len(listeners) : listeners'[i] = listeners[i]
          /\ listeners'[Len(listeners) + 1] = r
      BY <1>0, <3>1, <3>2, AppendProperties
    <3>4. \A c : Listed(c)' <=> Listed(c) \/ c = r BY <3>3 DEF Listed
    <3>5. \A c : Sent(c)' = Sent(c) /\ Queued(c)' = Queued(c) /\ Ran(c)' = Ran(c)
      BY <3>1 DEF Sent, Queued, Ran
    <3>6. \A c \in Callback : Registering(c)' => Registering(c) /\ c # r
      BY <1>0, <3>1, <3>2 DEF Registering, CarryInv
    <3>7. \A c \in Callback : Listed(c)' => ~Sent(c)' /\ ~Registering(c)'
      BY <3>2, <3>4, <3>5, <3>6 DEF PathInv
    <3>8. \A u \in Thread : regPc'[u] \in {"want", "locked"} => ~Sent(regArg'[u])
      BY <1>0, <3>1 DEF PathInv
    <3> QED BY <3>1, <3>5, <3>7, <3>8 DEF PathInv
  <2> QED BY <1>5, <2>1, <2>2, <2>3, <2>4 DEF RegStep
<1>6. ASSUME NEW t \in Thread, NEW c \in Callback, RegCall(t, c) PROVE PathInv'
  <2>1. /\ UNCHANGED <<queue, ran, sent, listeners, sendPc, sendArg>>
        /\ regPc' = [regPc EXCEPT ![t] = "want"]
        /\ regArg' = [regArg EXCEPT ![t] = c]
        /\ ~Sent(c) /\ ~Listed(c)
    BY <1>6 DEF RegCall, vars, sendVars, Registered, Listed
  <2>2. \A d \in Callback : Registering(d)' => Registering(d) \/ d = c
    BY <1>0, <2>1 DEF Registering
  <2> QED BY <1>0, <1>2, <2>1, <2>2 DEF PathInv
<1>7. CASE EmitCall \/ QuietStep
  <2>1. UNCHANGED <<queue, ran, sent, listeners, sendPc, sendArg, regPc, regArg>>
    BY <1>7 DEF EmitCall, QuietStep, vars, sendVars
  <2>2. \A c : Registering(c)' = Registering(c) BY <2>1 DEF Registering
  <2> QED BY <1>2, <2>1, <2>2 DEF PathInv
<1>8. CASE TaskStart
  <2>1. /\ queue # <<>> /\ queue' = Tail(queue) /\ ran' = Append(ran, Head(queue))
        /\ UNCHANGED <<sent, listeners, sendPc, sendArg, regPc, regArg>>
    BY <1>8 DEF TaskStart, DrainNext, sendVars
  <2>2. /\ Len(queue) \in Nat /\ Len(queue') = Len(queue) - 1
        /\ \A i \in 1..Len(queue') : queue'[i] = queue[i + 1]
    BY <1>0, <2>1, HeadTailProperties
  <2>3. Head(queue) = queue[1] /\ 1 \in 1..Len(queue) /\ Head(queue) \in Task
    BY <1>0, <2>1
  <2>4. \A i \in 1..Len(queue') : i + 1 \in 1..Len(queue) /\ i + 1 # 1
    BY <2>2
  <2>5. /\ Len(ran) \in Nat /\ Len(ran') = Len(ran) + 1
        /\ \A i \in 1..Len(ran) : ran'[i] = ran[i]
        /\ ran'[Len(ran) + 1] = Head(queue)
    BY <1>0, <2>1, <2>3, AppendProperties
  <2>6. \A c : Ran(c)' <=> Ran(c) \/ c = Head(queue) BY <2>5 DEF Ran
  <2>7. \A c \in Callback : Queued(c)' => Queued(c) /\ c # Head(queue)
    BY <2>2, <2>3, <2>4 DEF Queued, PathInv
  <2>8. \A c \in Callback : Queued(c)' => ~Ran(c)'
    BY <2>6, <2>7 DEF PathInv
  <2>9. ASSUME NEW i \in 1..Len(queue'), NEW j \in 1..Len(queue'),
               queue'[i] = queue'[j], queue'[i] \in Callback
        PROVE  i = j
    <3>1. i + 1 = j + 1 BY <2>2, <2>4, <2>9 DEF PathInv
    <3> QED BY <3>1
  <2>10. \A c : /\ Sent(c)' = Sent(c) /\ Listed(c)' = Listed(c)
                /\ Registering(c)' = Registering(c)
    BY <2>1 DEF Sent, Listed, Registering
  <2> QED BY <2>1, <2>8, <2>9, <2>10 DEF PathInv
<1> QED BY <1>3, <1>4, <1>5, <1>6, <1>7, <1>8 DEF EventStep

LEMMA CallStep ==
  ASSUME IInv, HInv, LockInv, PlaceInv, CarryInv, PathInv, CallInv, EventStep
  PROVE  CallInv'
<1> USE CallbackAssumption
<1>0. /\ listeners \in Seq(Callback) /\ Len(listeners) \in Nat
      /\ \A i \in 1..Len(listeners) : listeners[i] \in Callback
      /\ emitted \in Nat /\ emitted <= Len(listeners)
      /\ fired \in [Callback -> Nat] /\ ran \in Seq(Task) /\ queue \in Seq(Task)
      /\ \A t \in Thread : regPc[t] # "idle" => regArg[t] \in Callback
  BY DEF IInv, TypeOK, HInv, HTypeOK, RegInv
<1>1. \A c : Called(c) => Listed(c)
  BY <1>0 DEF Called, Listed
<1>2. ASSUME UNCHANGED <<listeners, emitted, ran, fired>>,
             inited' \/ initPc' = "mark" =>
               inited \/ initPc = "mark" \/ emitted = Len(listeners)
      PROVE  CallInv'
  BY <1>2 DEF CallInv, Called, Ran
<1>3. ASSUME NEW t \in Thread, SendTask(t) \/ SenderStep(t) PROVE CallInv'
  BY <1>2, <1>3 DEF SendTask, SenderStep, SendCall, SendStep, SendLock,
       SendPush, SendSignal, handleVars
<1>4. ASSUME NEW t \in Thread, RegStep(t) PROVE CallInv'
  <2>1. CASE RegLock(t) \/ RegInvoke(t) \/ RegReturn(t)
    BY <1>2, <2>1 DEF RegLock, RegInvoke, RegReturn, SendCall, vars
  <2>2. CASE RegAppend(t)
    <3> DEFINE r == regArg[t]
    <3>1. /\ regPc[t] = "locked" /\ ~inited /\ listeners' = Append(listeners, r)
          /\ UNCHANGED <<inited, initPc, emitted, ran, fired>>
      BY <2>2 DEF RegAppend, vars
    <3>2. r \in Callback /\ Registering(r) BY <1>0, <3>1 DEF Registering
    <3>3. /\ Len(listeners') = Len(listeners) + 1
          /\ \A i \in 1..Len(listeners) : listeners'[i] = listeners[i]
          /\ listeners'[Len(listeners) + 1] = r
      BY <1>0, <3>1, <3>2, AppendProperties
    <3>4. \A i \in 1..Len(listeners) : listeners[i] # r
      BY <3>2 DEF PathInv, Listed
    <3>5. initPc # "mark"
      BY <3>1 DEF LockInv, PlaceInv, InitSection
    <3>6. \A c : Called(c)' = Called(c) /\ Ran(c)' = Ran(c)
      BY <1>0, <3>1, <3>3 DEF Called, Ran
    <3>7. ASSUME NEW i \in 1..Len(listeners'), NEW j \in 1..Len(listeners'),
                 listeners'[i] = listeners'[j]
          PROVE  i = j
      <4>1. /\ i \in 1..Len(listeners) \/ i = Len(listeners) + 1
            /\ j \in 1..Len(listeners) \/ j = Len(listeners) + 1
        BY <1>0, <3>3
      <4> QED BY <3>3, <3>4, <3>7, <4>1 DEF CallInv
    <3> QED BY <3>1, <3>5, <3>6, <3>7 DEF CallInv
  <2> QED BY <1>4, <2>1, <2>2 DEF RegStep
<1>5. ASSUME NEW t \in Thread, NEW c \in Callback, RegCall(t, c) PROVE CallInv'
  BY <1>2, <1>5 DEF RegCall, vars
<1>6. CASE EmitCall
  <2> DEFINE c == listeners[emitted + 1]
  <2>1. /\ emitted < Len(listeners) /\ emitted' = emitted + 1
        /\ fired' = [fired EXCEPT ![c] = @ + 1]
        /\ UNCHANGED <<inited, listeners, ran>> /\ initPc' # "mark"
    BY <1>6 DEF EmitCall, vars
  <2>2. emitted + 1 \in 1..Len(listeners) /\ c \in Callback
    BY <1>0, <2>1
  <2>3. Listed(c) BY <2>2 DEF Listed
  <2>4. ~Ran(c) BY <2>2, <2>3, SentIs DEF PathInv
  <2>5. ~Called(c)
    <3> SUFFICES ASSUME NEW i \in 1..emitted, listeners[i] = c PROVE FALSE
      BY DEF Called
    <3>1. i \in 1..Len(listeners) /\ i # emitted + 1 BY <1>0
    <3> QED BY <2>2, <3>1 DEF CallInv
  <2>6. fired[c] = 0 BY <2>2, <2>4, <2>5 DEF CallInv
  <2>7. \A d : Called(d)' <=> Called(d) \/ d = c
    BY <1>0, <2>1 DEF Called
  <2>8. \A d : Ran(d)' = Ran(d) BY <2>1 DEF Ran
  <2>9. fired'[c] = 1 /\ \A d \in Callback : d # c => fired'[d] = fired[d]
    BY <1>0, <2>1, <2>2, <2>6
  <2>10. \A d \in Callback : fired'[d] = IF Called(d)' \/ Ran(d)' THEN 1 ELSE 0
    BY <2>7, <2>8, <2>9 DEF CallInv
  <2>11. ~inited BY <1>0, <2>1 DEF CallInv
  <2> QED BY <2>1, <2>10, <2>11 DEF CallInv
<1>7. CASE TaskStart
  <2> DEFINE h == Head(queue)
  <2>1. /\ queue # <<>> /\ ran' = Append(ran, h)
        /\ UNCHANGED <<listeners, emitted, inited>>
        /\ fired' = IF h \in Callback THEN [fired EXCEPT ![h] = @ + 1] ELSE fired
        /\ initPc' = IF h = InitTask THEN "want" ELSE initPc
    BY <1>7 DEF TaskStart, DrainNext
  <2>2. h = queue[1] /\ 1 \in 1..Len(queue) /\ h \in Task
    BY <1>0, <2>1
  <2>3. Queued(h) BY <2>2 DEF Queued
  <2>4. /\ Len(ran) \in Nat /\ Len(ran') = Len(ran) + 1
        /\ \A i \in 1..Len(ran) : ran'[i] = ran[i]
        /\ ran'[Len(ran) + 1] = h
    BY <1>0, <2>1, <2>2, AppendProperties
  <2>5. \A c : Ran(c)' <=> Ran(c) \/ c = h BY <2>4 DEF Ran
  <2>6. \A c : Called(c)' = Called(c) BY <2>1 DEF Called
  <2>7. h \in Callback => fired[h] = 0
    <3>1. Sent(h) BY <2>3, SentIs
    <3> QED BY <1>1, <2>3, <3>1 DEF PathInv, CallInv
  <2>8. /\ h \in Callback => fired'[h] = 1
        /\ \A d \in Callback : d # h => fired'[d] = fired[d]
    BY <1>0, <2>1, <2>7
  <2>9. \A d \in Callback : fired'[d] = IF Called(d)' \/ Ran(d)' THEN 1 ELSE 0
    BY <2>5, <2>6, <2>8 DEF CallInv
  <2> QED BY <2>1, <2>9 DEF CallInv
<1>8. CASE QuietStep
  BY <1>2, <1>8 DEF QuietStep
<1> QED BY <1>3, <1>4, <1>5, <1>6, <1>7, <1>8 DEF EventStep

LEMMA EventInvInit == HInit => EventInv
<1> SUFFICES ASSUME HInit PROVE EventInv
  OBVIOUS
<1>0. /\ Len(listeners) = 0 /\ Len(queue) = 0 /\ Len(sent) = 0 /\ Len(ran) = 0
      /\ emitted = 0
  BY DEF HInit, Init
<1>1. \A c : ~Called(c) /\ ~Ran(c) /\ ~Listed(c) /\ ~Sent(c) /\ ~Queued(c)
  BY <1>0 DEF Called, Ran, Listed, Sent, Queued
<1>2. CarryInv BY TaskAssumption, CallbackAssumption DEF HInit, Init, CarryInv
<1>3. PathInv BY <1>0, <1>1 DEF HInit, Init, PathInv
<1>4. CallInv BY <1>0, <1>1 DEF HInit, CallInv
<1> QED BY <1>2, <1>3, <1>4 DEF EventInv

LEMMA EventNotLost == IInv /\ HInv /\ EventInv => InitEventNotLost
<1> SUFFICES ASSUME IInv, HInv, EventInv, NEW c \in Callback
             PROVE  /\ fired[c] <= 1
                    /\ Registered(c) =>
                         /\ fired[c] = 0 <=> OwedByEmit(c) \/ OwedByTask(c)
                         /\ ~(OwedByEmit(c) /\ OwedByTask(c))
  BY DEF InitEventNotLost
<1> USE DEF EventInv
<1>0. Len(listeners) \in Nat /\ emitted \in Nat /\ emitted <= Len(listeners)
  BY DEF HInv, HTypeOK
<1>1. fired[c] = IF Called(c) \/ Ran(c) THEN 1 ELSE 0 BY DEF CallInv
<1>2. Sent(c) <=> Ran(c) \/ Queued(c) BY SentIs
<1>3. OwedByEmit(c) => Listed(c) /\ ~Called(c)
  <2> SUFFICES ASSUME NEW i \in emitted + 1..Len(listeners), listeners[i] = c
               PROVE  Listed(c) /\ ~Called(c)
    BY DEF OwedByEmit
  <2>1. i \in 1..Len(listeners) BY <1>0
  <2>2. \A j \in 1..emitted : j \in 1..Len(listeners) /\ j # i BY <1>0
  <2> QED BY <2>1, <2>2 DEF Listed, Called, CallInv
<1>4. OwedByTask(c) => ~Ran(c) /\ ~Listed(c)
  <2>1. CASE Queued(c) BY <1>2, <2>1 DEF PathInv
  <2>2. ASSUME NEW t \in InFlight, sendArg[t] = c PROVE ~Ran(c) /\ ~Listed(c)
    <3>1. t \in Thread /\ sendPc[t] \in {"lock", "push"} BY DEF InFlight
    <3>2. ~Sent(c) /\ Registering(c)
      BY <2>2, <3>1 DEF PathInv, CarryInv, Registering
    <3> QED BY <1>2, <3>2 DEF PathInv
  <2> QED BY <2>1, <2>2 DEF OwedByTask, Queued
<1>5. Called(c) => Listed(c)
  BY <1>0 DEF Called, Listed
<1>6. Listed(c) => ~Ran(c) BY <1>2 DEF PathInv
<1>7. Listed(c) /\ ~Called(c) => OwedByEmit(c)
  <2> SUFFICES ASSUME NEW i \in 1..Len(listeners), listeners[i] = c, ~Called(c)
               PROVE  OwedByEmit(c)
    BY DEF Listed
  <2>1. i \notin 1..emitted BY DEF Called
  <2>2. i \in emitted + 1..Len(listeners) BY <1>0, <2>1
  <2>3. ~inited BY <1>0, <2>2 DEF CallInv
  <2> QED BY <2>2, <2>3 DEF OwedByEmit
<1>8. Queued(c) => OwedByTask(c) BY DEF Queued, OwedByTask
<1>9. Sending(c) => Sent(c) \/ OwedByTask(c)
  <2> SUFFICES ASSUME NEW t \in Thread, sendArg[t] = c
               PROVE  Sent(c) \/ OwedByTask(c)
    BY DEF Sending
  <2>1. sendPc[t] \in {"lock", "push", "signal"}
    BY CallbackAssumption, TaskAssumption DEF CarryInv, IInv, TypeOK, SendPc
  <2>2. CASE sendPc[t] = "signal" BY <2>2 DEF PathInv
  <2>3. CASE sendPc[t] \in {"lock", "push"}
    <3>1. t \in InFlight BY <2>3 DEF InFlight
    <3> QED BY <3>1 DEF OwedByTask
  <2> QED BY <2>1, <2>2, <2>3
<1>10. fired[c] <= 1 BY <1>1
<1>11. ~(OwedByEmit(c) /\ OwedByTask(c)) BY <1>3, <1>4
<1>12. OwedByEmit(c) \/ OwedByTask(c) => fired[c] = 0
  BY <1>1, <1>3, <1>4, <1>5, <1>6
<1>13. Registered(c) /\ fired[c] = 0 => OwedByEmit(c) \/ OwedByTask(c)
  <2> SUFFICES ASSUME Registered(c), fired[c] = 0
               PROVE  OwedByEmit(c) \/ OwedByTask(c)
    OBVIOUS
  <2>1. ~Called(c) /\ ~Ran(c) BY <1>1
  <2>2. Sent(c) \/ Sending(c) \/ Listed(c) BY DEF Registered, Listed
  <2> QED BY <1>2, <1>7, <1>8, <1>9, <2>1, <2>2
<1> QED BY <1>10, <1>11, <1>12, <1>13

(* However registrations race with init(), its repetition by the program,  *)
(* and other tasks: each InitEvent callback that was registered has been   *)
(* called once, or is owed its one call by the walk of the listeners or by *)
(* a queued task, not both.  It holds of every program.                    *)
THEOREM InitEventNotLostHolds == HSafety => []InitEventNotLost
<1>1. HSafety => []IInv
  BY HandleRefinesLoop, IInvariance, PTL
<1>2. HInit => LockInv /\ PlaceInv /\ EventInv
  BY KInvInit, EventInvInit DEF KInv
<1>3. IInv /\ HInv /\ LockInv /\ PlaceInv /\ EventInv /\ [HNext]_allVars
        => LockInv' /\ PlaceInv' /\ EventInv'
  BY LockStep, PlaceStep, EventSteps, CarryStep, PathStep, CallStep DEF EventInv
<1> QED BY <1>1, <1>2, <1>3, HInvariance, EventNotLost, PTL DEF HSafety
=============================================================================
