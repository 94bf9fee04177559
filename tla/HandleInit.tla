----------------------------- MODULE HandleInit -----------------------------
(***************************************************************************)
(* Initialisation of one Handle on the loop it was created for             *)
(* (inc/jcu-unio/handle.h, src/handle.cc, the InitEvent half of            *)
(* inc/jcu-unio/emitter.h, and create() of TCPSocket and Timer).           *)
(*                                                                         *)
(* create() queues a task that calls init() on the loop thread.  Any       *)
(* thread may meanwhile register InitEvent callbacks: before init they     *)
(* join the listener list, after it they are sent to the loop as tasks.    *)
(* init_mtx_ decides which; it is held across emitInit's callbacks and     *)
(* across sendQueuedTask, which takes the loop's own mutex.                *)
(***************************************************************************)
EXTENDS LoopQueue

CONSTANTS Callback,       \* InitEvent callbacks; each is also the task that runs it
          InitTask,       \* the task create() sends
          WorkTask,       \* other tasks of the program, each sent once
          ManualInit,     \* the program calls init() itself, on the loop thread
          SharesEarly,    \* and lets other threads register before create()'s init ran
          TaskRegisters,  \* its tasks register InitEvent callbacks
          Sharing         \* who may use the handle before its InitEvent

ASSUME CallbackAssumption ==
  /\ Callback \subseteq Task /\ InitTask \in Task /\ WorkTask \subseteq Task
  /\ InitTask \notin Callback \cup WorkTask \cup {UninitTask}
  /\ UninitTask \notin Callback \cup WorkTask
  /\ Callback \cap WorkTask = {}
ASSUME UsageAssumption ==
  /\ {ManualInit, SharesEarly, TaskRegisters} \subseteq BOOLEAN
  /\ Sharing \in {"none", "initEvent", "free"}
ASSUME RoomAssumption == \* the bound on sends never blocks a registration
  IsFiniteSet(Task) /\ MaxSend >= Cardinality(Task)

VARIABLES initMtx,    \* Handle::init_mtx_: its owner
          inited,     \* Emitter::inited_
          listeners,  \* callbacks of Handler<InitEvent>, in order
          emitted,    \* how many of them emitInit has called
          initPc,     \* the loop thread in Handle::init
          inits,      \* history: calls of _init
          regPc,      \* each thread in on/once<InitEvent>
          regArg,     \* the callback it registers
          handlersPc, \* each thread in on/emit of another event: its access
          fired       \* history: calls of each InitEvent callback

handleVars == <<initMtx, inited, listeners, emitted, initPc, inits, regPc,
                regArg, handlersPc, fired>>
allVars == <<vars, handleVars>>

InitPc == {"idle", "want", "emit", "callback", "mark"}
RegPc == {"idle", "want", "locked", "sending"}
Access == {"none", "read", "write"}

HInit ==
  /\ Init
  /\ initMtx = Nobody /\ inited = FALSE
  /\ listeners = <<>> /\ emitted = 0
  /\ initPc = "idle" /\ inits = 0
  /\ regPc = [t \in Thread |-> "idle"]
  /\ regArg = [t \in Thread |-> NoTask]
  /\ handlersPc = [t \in Thread |-> "none"]
  /\ fired = [c \in Callback |-> 0]

-----------------------------------------------------------------------------
Sent(task) == \E i \in 1..Len(sent) : sent[i] = task
Sending(task) == \E t \in Thread : sendArg[t] = task

(* create() has returned, so the program has the handle.                   *)
Created == Sent(InitTask) /\ ~Sending(InitTask)

(* Thread t runs program code: no call into the handle or loop is open.    *)
(* On the loop thread that is a uv callback, a task or an InitEvent        *)
(* callback; the init task itself holds no program code.                   *)
InProgram(t) ==
  /\ regPc[t] = "idle" /\ handlersPc[t] = "none" /\ sendPc[t] = "idle"
  /\ t = LoopThread =>
       /\ initPc \in {"idle", "callback"}
       /\ \/ loopPc = "poll"
          \/ loopPc = "task" /\ (current = InitTask => initPc = "callback")

(* create(): the object is made and its init task sent.                    *)
Create(t) ==
  /\ InProgram(t) /\ ~Sent(InitTask) /\ ~Sending(InitTask)
  /\ SendCall(t, InitTask)
  /\ UNCHANGED handleVars

(* The program's own tasks, uninit among them.                             *)
SendWork(t, task) ==
  /\ InProgram(t) /\ ~Sent(task) /\ ~Sending(task)
  /\ SendCall(t, task)
  /\ UNCHANGED handleVars

-----------------------------------------------------------------------------
(* on<InitEvent> and once<InitEvent>.                                      *)

Registered(c) == fired[c] > 0 \/ Sent(c) \/ Sending(c)
                 \/ \E i \in 1..Len(listeners) : listeners[i] = c
Registering(c) == \E t \in Thread : regArg[t] = c

(* The handle is, or is being, initialised by the program while the init() *)
(* that create() queued is still to run or is waiting for the lock.        *)
InitQueued == \E i \in 1..Len(queue) : queue[i] = InitTask
AheadOfTask == \/ (inited \/ initPc # "idle") /\ InitQueued
               \/ inited /\ initPc # "idle"

RegCall(t, c) ==
  /\ InProgram(t) /\ Created
  /\ ~Registered(c) /\ ~Registering(c)
  /\ t # LoopThread => /\ SharesEarly \/ ~AheadOfTask
                       /\ Sharing # "none" \/ inited
  /\ t = LoopThread => initPc = "idle" /\ (loopPc = "task" => TaskRegisters)
  /\ regPc' = [regPc EXCEPT ![t] = "want"]
  /\ regArg' = [regArg EXCEPT ![t] = c]
  /\ UNCHANGED <<vars, initMtx, inited, listeners, emitted, initPc, inits,
                 handlersPc, fired>>

(* Mutant of RegLock: on/once<InitEvent> without the lock.                 *)
RegLockNoWait(t) ==
  /\ regPc[t] = "want"
  /\ regPc' = [regPc EXCEPT ![t] = "locked"]
  /\ UNCHANGED <<vars, initMtx, inited, listeners, emitted, initPc, inits,
                 regArg, handlersPc, fired>>

RegLock(t) ==
  /\ regPc[t] = "want"
  /\ initMtx = Nobody
  /\ initMtx' = t
  /\ regPc' = [regPc EXCEPT ![t] = "locked"]
  /\ UNCHANGED <<vars, inited, listeners, emitted, initPc, inits, regArg,
                 handlersPc, fired>>

(* Not yet inited: the callback joins the listeners.                       *)
RegAppend(t) ==
  /\ regPc[t] = "locked" /\ ~inited
  /\ listeners' = Append(listeners, regArg[t])
  /\ initMtx' = Nobody
  /\ regPc' = [regPc EXCEPT ![t] = "idle"]
  /\ regArg' = [regArg EXCEPT ![t] = NoTask]
  /\ UNCHANGED <<vars, inited, emitted, initPc, inits, handlersPc, fired>>

(* Mutant of RegInvoke: every callback goes through the queue.             *)
RegInvokeAlways(t) ==
  /\ regPc[t] = "locked"
  /\ SendCall(t, regArg[t])
  /\ regPc' = [regPc EXCEPT ![t] = "sending"]
  /\ UNCHANGED <<initMtx, inited, listeners, emitted, initPc, inits, regArg,
                 handlersPc, fired>>

(* Already inited: invokeInitEventCallback sends it to the loop, with      *)
(* init_mtx_ still held.                                                   *)
RegInvoke(t) ==
  /\ regPc[t] = "locked" /\ inited
  /\ SendCall(t, regArg[t])
  /\ regPc' = [regPc EXCEPT ![t] = "sending"]
  /\ UNCHANGED <<initMtx, inited, listeners, emitted, initPc, inits, regArg,
                 handlersPc, fired>>

(* Mutant of RegReturn: the early return leaves init_mtx_ locked.          *)
RegReturnLocked(t) ==
  /\ regPc[t] = "sending" /\ sendPc[t] = "idle"
  /\ regPc' = [regPc EXCEPT ![t] = "idle"]
  /\ regArg' = [regArg EXCEPT ![t] = NoTask]
  /\ UNCHANGED <<vars, initMtx, inited, listeners, emitted, initPc, inits,
                 handlersPc, fired>>

RegReturn(t) ==
  /\ regPc[t] = "sending" /\ sendPc[t] = "idle"
  /\ initMtx' = Nobody
  /\ regPc' = [regPc EXCEPT ![t] = "idle"]
  /\ regArg' = [regArg EXCEPT ![t] = NoTask]
  /\ UNCHANGED <<vars, inited, listeners, emitted, initPc, inits, handlersPc,
                 fired>>

-----------------------------------------------------------------------------
(* Handle::init on the loop thread.                                        *)

ManualInitCall ==
  /\ ManualInit /\ InProgram(LoopThread) /\ Created /\ initPc = "idle"
  /\ SharesEarly \/ \A t \in Thread \ {LoopThread} : regPc[t] = "idle"
  /\ initPc' = "want"
  /\ UNCHANGED <<vars, initMtx, inited, listeners, emitted, inits, regPc,
                 regArg, handlersPc, fired>>

(* Mutant of InitLock: without the inited_ check.                          *)
InitLockAlways ==
  /\ initPc = "want" /\ initMtx = Nobody
  /\ initPc' = "emit"
  /\ initMtx' = LoopThread
  /\ inits' = inits + 1
  /\ UNCHANGED <<vars, inited, listeners, emitted, regPc, regArg, handlersPc,
                 fired>>

(* The lock is taken; _init runs unless the handle is already inited.      *)
InitLock ==
  /\ initPc = "want" /\ initMtx = Nobody
  /\ IF inited THEN initPc' = "idle" /\ UNCHANGED <<initMtx, inits>>
               ELSE /\ initPc' = "emit"
                    /\ initMtx' = LoopThread
                    /\ inits' = inits + 1
  /\ UNCHANGED <<vars, inited, listeners, emitted, regPc, regArg, handlersPc,
                 fired>>

(* emitInit: Handler::call walks the listeners.                            *)
EmitCall ==
  /\ initPc = "emit" /\ emitted < Len(listeners)
  /\ emitted' = emitted + 1
  /\ fired' = [fired EXCEPT ![listeners[emitted + 1]] = @ + 1]
  /\ initPc' = "callback"
  /\ UNCHANGED <<vars, initMtx, inited, listeners, inits, regPc, regArg,
                 handlersPc>>

EmitReturn ==
  /\ initPc = "callback" /\ InProgram(LoopThread)
  /\ initPc' = "emit"
  /\ UNCHANGED <<vars, initMtx, inited, listeners, emitted, inits, regPc,
                 regArg, handlersPc, fired>>

(* Mutant of EmitEnd: the walk stops after the first listener.             *)
EmitEndFirst ==
  /\ initPc = "emit" /\ (emitted >= 1 \/ emitted = Len(listeners))
  /\ initPc' = "mark"
  /\ UNCHANGED <<vars, initMtx, inited, listeners, emitted, inits, regPc,
                 regArg, handlersPc, fired>>

EmitEnd ==
  /\ initPc = "emit" /\ emitted = Len(listeners)
  /\ initPc' = "mark"
  /\ UNCHANGED <<vars, initMtx, inited, listeners, emitted, inits, regPc,
                 regArg, handlersPc, fired>>

(* inited_ = true; init() returns and unlocks.                             *)
InitMark ==
  /\ initPc = "mark"
  /\ inited' = TRUE
  /\ initMtx' = Nobody
  /\ initPc' = "idle"
  /\ UNCHANGED <<vars, listeners, emitted, inits, regPc, regArg, handlersPc,
                 fired>>

-----------------------------------------------------------------------------
(* on<U>, once<U> (a write) and emit<U> (a read) of any other event: the   *)
(* handlers_ map is used with no lock.                                     *)

(* The code lets any thread register other events at any time ("free", as  *)
(* the unit tests do).  A program may instead keep the handle on the loop  *)
(* thread until InitEvent ("none", as SSLSocket::setParent and the         *)
(* examples do, which register right after create()), or let other threads *)
(* wait for InitEvent, and register everything else from then on and on    *)
(* the loop thread ("initEvent").                                          *)
MayUseHandlers(t) ==
  /\ InProgram(t) /\ Created
  /\ \/ Sharing = "free"
     \/ t = LoopThread /\ (Sharing = "none" \/ inited \/ initPc = "callback")

OnCall(t) ==
  /\ MayUseHandlers(t)
  /\ handlersPc' = [handlersPc EXCEPT ![t] = "write"]
  /\ UNCHANGED <<vars, initMtx, inited, listeners, emitted, initPc, inits,
                 regPc, regArg, fired>>

EmitOther ==
  /\ InProgram(LoopThread) /\ inited
  /\ handlersPc' = [handlersPc EXCEPT ![LoopThread] = "read"]
  /\ UNCHANGED <<vars, initMtx, inited, listeners, emitted, initPc, inits,
                 regPc, regArg, fired>>

HandlersReturn(t) ==
  /\ handlersPc[t] # "none"
  /\ handlersPc' = [handlersPc EXCEPT ![t] = "none"]
  /\ UNCHANGED <<vars, initMtx, inited, listeners, emitted, initPc, inits,
                 regPc, regArg, fired>>

-----------------------------------------------------------------------------
(* The loop of LoopQueue, running these tasks.                             *)

(* The init task calls init(); a callback's task calls the callback.       *)
TaskStart ==
  /\ DrainNext
  /\ initPc' = IF Head(queue) = InitTask THEN "want" ELSE initPc
  /\ fired' = IF Head(queue) \in Callback
              THEN [fired EXCEPT ![Head(queue)] = @ + 1] ELSE fired
  /\ UNCHANGED <<initMtx, inited, listeners, emitted, inits, regPc, regArg,
                 handlersPc>>

(* Steps of the loop that wait for the program's code to return.           *)
LoopFree == /\ initPc = "idle" /\ regPc[LoopThread] = "idle"
            /\ handlersPc[LoopThread] = "none"

LoopOwnStep ==
  /\ \/ LoopFree /\ (Poll \/ TaskReturn \/ UninitInTask \/ CloseDone \/ LoopExit)
     \/ LoopInit \/ DrainLock \/ DrainEnd
  /\ UNCHANGED handleVars

UninitCall ==
  /\ LoopFree /\ UninitInCallback
  /\ UNCHANGED handleVars

HTerminated ==
  /\ Terminated
  /\ \A t \in Thread : regPc[t] = "idle" /\ handlersPc[t] = "none"
  /\ UNCHANGED handleVars

-----------------------------------------------------------------------------
RegStep(t) == RegLock(t) \/ RegAppend(t) \/ RegInvoke(t) \/ RegReturn(t)

ThreadStep(t) ==
  \/ SendStep(t) /\ UNCHANGED handleVars
  \/ RegStep(t)
  \/ HandlersReturn(t)

InitStep == InitLock \/ EmitCall \/ EmitReturn \/ EmitEnd \/ InitMark

HLoopStep == LoopOwnStep \/ TaskStart \/ InitStep

ProgramStep ==
  \/ \E t \in Thread : Create(t) \/ OnCall(t)
  \/ \E t \in Thread, task \in WorkTask \cup {UninitTask} : SendWork(t, task)
  \/ \E t \in Thread, c \in Callback : RegCall(t, c)
  \/ ManualInitCall \/ EmitOther \/ UninitCall

HNext ==
  \/ \E t \in Thread : ThreadStep(t)
  \/ HLoopStep
  \/ ProgramStep
  \/ HTerminated

HSafety == HInit /\ [][HNext]_allVars

(* Calls that were started go on; the program is never forced to make one. *)
(* Strong fairness for the loop thread says that the program's callbacks   *)
(* and tasks return: they do not use the handle for ever.                  *)
HFairness ==
  /\ \A t \in Thread : WF_allVars(ThreadStep(t))
  /\ SF_allVars(LoopOwnStep \/ TaskStart)
  /\ SF_allVars(InitStep)

HSpec == HSafety /\ HFairness

-----------------------------------------------------------------------------
(* Types of the handle's state.                                            *)
HTypeOK ==
  /\ initMtx \in Thread \cup {Nobody}
  /\ inited \in BOOLEAN
  /\ listeners \in Seq(Callback)
  /\ emitted \in 0..Len(listeners)
  /\ initPc \in InitPc
  /\ inits \in Nat
  /\ regPc \in [Thread -> RegPc]
  /\ regArg \in [Thread -> Callback \cup {NoTask}]
  /\ handlersPc \in [Thread -> Access]
  /\ fired \in [Callback -> Nat]

(* A callback still owed: a listener that emitInit will reach, or a task   *)
(* on its way to the loop.                                                 *)
OwedByEmit(c) ==
  ~inited /\ \E i \in emitted + 1..Len(listeners) : listeners[i] = c
OwedByTask(c) ==
  \/ \E i \in 1..Len(queue) : queue[i] = c
  \/ \E t \in InFlight : sendArg[t] = c

(* Every registered InitEvent callback is called once or is still owed one *)
(* call by exactly one of the two paths, however registration races with   *)
(* init.                                                                   *)
InitEventNotLost ==
  \A c \in Callback :
    /\ fired[c] <= 1
    /\ Registered(c) =>
         /\ fired[c] = 0 <=> OwedByEmit(c) \/ OwedByTask(c)
         /\ ~(OwedByEmit(c) /\ OwedByTask(c))

(* _init, which calls uv_xxx_init on the handle's storage, runs once even  *)
(* if the program also calls init() itself.                                *)
InitOnce == inits <= 1

(* No thread holds init_mtx_ and waits for the loop's mutex while the loop *)
(* thread, running a task under that mutex, waits for init_mtx_.           *)
WaitsForLoopMutex(t) ==
  /\ sendPc[t] = "lock" /\ mutexOwner \notin {Nobody, t}
WaitsForInitMutex(t) ==
  /\ initMtx # Nobody
  /\ regPc[t] = "want" \/ (t = LoopThread /\ initPc = "want")
NoLockCycle ==
  \A t \in Thread : ~ /\ WaitsForLoopMutex(t) /\ initMtx = t
                      /\ WaitsForInitMutex(mutexOwner)

(* The handlers_ map, which has no lock but init_mtx_ around the handlers  *)
(* of InitEvent, is never changed by one thread while another uses it, if  *)
(* the program is not "free": registrations of InitEvent callbacks and     *)
(* init() exclude each other, and what follows InitEvent is on one thread. *)
Writes(t) == handlersPc[t] = "write" \/ (regPc[t] = "locked" /\ ~inited)
Uses(t) == \/ Writes(t) \/ handlersPc[t] = "read"
           \/ t = LoopThread /\ initPc = "emit"
NoHandlersRace == \A t, u \in Thread : Writes(t) /\ Uses(u) => t = u

(* A registered InitEvent callback is eventually called, unless uninit     *)
(* stops the loop's queue first.                                           *)
InitEventFires ==
  \A c \in Callback :
    Registering(c) ~> fired[c] = 1 \/ asyncHandle \in {"closing", "closed"}

(* A thread that registers an InitEvent callback gets out of on/once       *)
(* again, whatever the loop thread is doing.                               *)
RegisterReturns ==
  \A t \in Thread : regPc[t] = "want" ~> regPc[t] = "idle"
=============================================================================
