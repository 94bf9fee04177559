------------------------------ MODULE LoopQueue ------------------------------
(***************************************************************************)
(* The task queue of a Loop (src/unio/src/loop.cc).                        *)
(*                                                                         *)
(* Any thread hands work to the loop thread with sendQueuedTask.  The      *)
(* queue is a deque under a recursive mutex; a uv_async_t wakes the loop   *)
(* thread, whose callback drains the deque and runs the tasks while it     *)
(* holds the mutex.                                                        *)
(***************************************************************************)
EXTENDS Integers, Sequences, FiniteSets

CONSTANTS Thread,      \* every thread that uses the loop
          LoopThread,  \* the thread that calls init and uv_run
          Task,        \* what can be sent to the loop
          UninitTask,  \* the task that calls Loop::uninit, as TearDown sends
          MaxSend,     \* bound: number of tasks ever sent
          Nobody, NoTask

ASSUME LoopThreadAssumption == LoopThread \in Thread
ASSUME NobodyAssumption == Nobody \notin Thread
ASSUME TaskAssumption == UninitTask \in Task /\ NoTask \notin Task
ASSUME MaxSendAssumption == MaxSend \in Nat

VARIABLES mutexOwner,    \* LoopContext::mutex: the thread that holds it
          mutexDepth,    \* how often that thread has locked it
          queue,         \* LoopContext::queue
          asyncHandle,   \* life of LoopContext::queue_handle
          asyncPending,  \* uv_async_send signalled, callback not yet started
          sendPc,        \* where each thread is in addQueuedTask
          sendArg,       \* the task it carries
          loopPc,        \* where the loop thread is in uv_run
          current,       \* the task processQueuedTask is running
          sent, ran,     \* history: tasks pushed, tasks started, in order
          uninitMark     \* history: Len(sent) when a task called uninit, else 0

mutexVars == <<mutexOwner, mutexDepth>>
asyncVars == <<asyncHandle, asyncPending>>
sendVars == <<sendPc, sendArg>>
vars == <<mutexVars, queue, asyncVars, sendVars, loopPc, current, sent, ran,
          uninitMark>>

HandleState == {"zeroed", "active", "closing", "closed"}
SendPc == {"idle", "lock", "push", "signal"}
LoopPc == {"boot", "poll", "woken", "drain", "task", "exited"}

Init ==
  /\ mutexOwner = Nobody /\ mutexDepth = 0
  /\ queue = <<>>
  /\ asyncHandle = "zeroed" /\ asyncPending = FALSE
  /\ sendPc = [t \in Thread |-> "idle"]
  /\ sendArg = [t \in Thread |-> NoTask]
  /\ loopPc = "boot" /\ current = NoTask
  /\ sent = <<>> /\ ran = <<>> /\ uninitMark = 0

-----------------------------------------------------------------------------
(* The recursive mutex.                                                    *)

(* Mutant of Lock: the guard never waits for the owner.                    *)
LockNoWait(t) ==
  /\ mutexOwner' = t
  /\ mutexDepth' = mutexDepth + 1

Lock(t) ==
  /\ mutexOwner \in {Nobody, t}
  /\ mutexOwner' = t
  /\ mutexDepth' = mutexDepth + 1

Unlock(t) ==
  /\ mutexDepth' = mutexDepth - 1
  /\ mutexOwner' = IF mutexDepth = 1 THEN Nobody ELSE t

(* uv_async_send: signals coalesce; a closing handle never delivers one.   *)
AsyncSend == asyncPending' = (asyncPending \/ asyncHandle = "active")

-----------------------------------------------------------------------------
(* sendQueuedTask / addQueuedTask, by any thread.                          *)

InFlight == {t \in Thread : sendPc[t] \in {"lock", "push"}}

UninitSent ==
  \/ \E i \in 1..Len(sent) : sent[i] = UninitTask
  \/ \E t \in InFlight : sendArg[t] = UninitTask

(* The loop thread calls it before uv_run, from a uv callback, from a      *)
(* running task or after uv_run; uninit is asked for at most once.         *)
MaySend(t, task) ==
  /\ sendPc[t] = "idle"
  /\ t = LoopThread => loopPc \in {"boot", "poll", "task", "exited"}
  /\ Len(sent) + Cardinality(InFlight) < MaxSend
  /\ task = UninitTask => ~UninitSent /\ asyncHandle \in {"zeroed", "active"}

SendCall(t, task) ==
  /\ MaySend(t, task)
  /\ sendPc' = [sendPc EXCEPT ![t] = "lock"]
  /\ sendArg' = [sendArg EXCEPT ![t] = task]
  /\ UNCHANGED <<mutexVars, queue, asyncVars, loopPc, current, sent, ran,
                 uninitMark>>

SendLock(t) ==
  /\ sendPc[t] = "lock"
  /\ Lock(t)
  /\ sendPc' = [sendPc EXCEPT ![t] = "push"]
  /\ UNCHANGED <<queue, asyncVars, sendArg, loopPc, current, sent, ran,
                 uninitMark>>

(* Mutant of SendPush: emplace_front.                                      *)
SendPushFront(t) ==
  /\ sendPc[t] = "push"
  /\ queue' = <<sendArg[t]>> \o queue
  /\ sent' = Append(sent, sendArg[t])
  /\ sendPc' = [sendPc EXCEPT ![t] = "signal"]
  /\ UNCHANGED <<mutexVars, asyncVars, sendArg, loopPc, current, ran,
                 uninitMark>>

SendPush(t) ==
  /\ sendPc[t] = "push"
  /\ queue' = Append(queue, sendArg[t])
  /\ sent' = Append(sent, sendArg[t])
  /\ sendPc' = [sendPc EXCEPT ![t] = "signal"]
  /\ UNCHANGED <<mutexVars, asyncVars, sendArg, loopPc, current, ran,
                 uninitMark>>

(* if (queue_handle.type) uv_async_send(...), then the guard unlocks.      *)
SendSignal(t) ==
  /\ sendPc[t] = "signal"
  /\ AsyncSend
  /\ Unlock(t)
  /\ sendPc' = [sendPc EXCEPT ![t] = "idle"]
  /\ sendArg' = [sendArg EXCEPT ![t] = NoTask]
  /\ UNCHANGED <<queue, asyncHandle, loopPc, current, sent, ran, uninitMark>>

-----------------------------------------------------------------------------
(* The loop thread.                                                        *)

LoopIdle == sendPc[LoopThread] = "idle"

(* Mutant of LoopInit: without the uv_async_send that ends it.             *)
LoopInitSilent ==
  /\ loopPc = "boot" /\ LoopIdle
  /\ mutexOwner = Nobody
  /\ asyncHandle' = "active"
  /\ loopPc' = "poll"
  /\ UNCHANGED <<mutexVars, queue, asyncPending, sendVars, current, sent, ran,
                 uninitMark>>

(* Loop::init: under the mutex, uv_async_init and one uv_async_send for    *)
(* the tasks that were sent before.                                        *)
LoopInit ==
  /\ loopPc = "boot" /\ LoopIdle
  /\ mutexOwner = Nobody
  /\ asyncHandle' = "active"
  /\ asyncPending' = TRUE
  /\ loopPc' = "poll"
  /\ UNCHANGED <<mutexVars, queue, sendVars, current, sent, ran, uninitMark>>

(* uv_run sees the signal, clears it and calls the async callback.         *)
Poll ==
  /\ loopPc = "poll" /\ LoopIdle
  /\ asyncHandle = "active" /\ asyncPending
  /\ asyncPending' = FALSE
  /\ loopPc' = "woken"
  /\ UNCHANGED <<mutexVars, queue, asyncHandle, sendVars, current, sent, ran,
                 uninitMark>>

DrainLock ==
  /\ loopPc = "woken"
  /\ Lock(LoopThread)
  /\ loopPc' = "drain"
  /\ UNCHANGED <<queue, asyncVars, sendVars, current, sent, ran, uninitMark>>

DrainNext ==
  /\ loopPc = "drain"
  /\ queue # <<>>
  /\ queue' = Tail(queue)
  /\ current' = Head(queue)
  /\ ran' = Append(ran, Head(queue))
  /\ loopPc' = "task"
  /\ UNCHANGED <<mutexVars, asyncVars, sendVars, sent, uninitMark>>

(* Mutant of TaskReturn: one task per wake-up, "if" instead of "while".    *)
TaskReturnOnce ==
  /\ loopPc = "task" /\ LoopIdle
  /\ current = UninitTask => asyncHandle # "active"
  /\ current' = NoTask
  /\ Unlock(LoopThread)
  /\ loopPc' = "poll"
  /\ UNCHANGED <<queue, asyncVars, sendVars, sent, ran, uninitMark>>

(* A task returns; the one that calls uninit does so first.                *)
TaskReturn ==
  /\ loopPc = "task" /\ LoopIdle
  /\ current = UninitTask => asyncHandle # "active"
  /\ current' = NoTask
  /\ loopPc' = "drain"
  /\ UNCHANGED <<mutexVars, queue, asyncVars, sendVars, sent, ran, uninitMark>>

(* Mutants of DrainEnd: the drain gives up once the handle is closing; the *)
(* mutex is never released.                                                *)
DrainEndOnClose ==
  /\ loopPc = "drain"
  /\ queue = <<>> \/ asyncHandle = "closing"
  /\ Unlock(LoopThread)
  /\ loopPc' = "poll"
  /\ UNCHANGED <<queue, asyncVars, sendVars, current, sent, ran, uninitMark>>

DrainEndLocked ==
  /\ loopPc = "drain"
  /\ queue = <<>>
  /\ loopPc' = "poll"
  /\ UNCHANGED <<mutexVars, queue, asyncVars, sendVars, current, sent, ran,
                 uninitMark>>

DrainEnd ==
  /\ loopPc = "drain"
  /\ queue = <<>>
  /\ Unlock(LoopThread)
  /\ loopPc' = "poll"
  /\ UNCHANGED <<queue, asyncVars, sendVars, current, sent, ran, uninitMark>>

(* uv_close on the async handle: from here no signal is delivered.         *)
CloseAsync ==
  /\ asyncHandle = "active"
  /\ asyncHandle' = "closing"
  /\ asyncPending' = FALSE
  /\ UNCHANGED <<mutexVars, queue, sendVars, loopPc, current, sent, ran>>

UninitInTask ==
  /\ loopPc = "task" /\ LoopIdle /\ current = UninitTask
  /\ CloseAsync
  /\ uninitMark' = Len(sent)

(* uninit from another callback of the loop thread, with no drain running. *)
UninitInCallback ==
  /\ loopPc = "poll" /\ LoopIdle /\ ~UninitSent
  /\ CloseAsync
  /\ UNCHANGED uninitMark

CloseDone ==
  /\ loopPc = "poll" /\ LoopIdle
  /\ asyncHandle = "closing"
  /\ asyncHandle' = "closed"
  /\ UNCHANGED <<mutexVars, queue, asyncPending, sendVars, loopPc, current,
                 sent, ran, uninitMark>>

(* uv_run returns once the loop has no handle left.                        *)
LoopExit ==
  /\ loopPc = "poll" /\ LoopIdle
  /\ asyncHandle = "closed"
  /\ loopPc' = "exited"
  /\ UNCHANGED <<mutexVars, queue, asyncVars, sendVars, current, sent, ran,
                 uninitMark>>

Terminated ==
  /\ loopPc = "exited"
  /\ \A t \in Thread : sendPc[t] = "idle"
  /\ UNCHANGED vars

-----------------------------------------------------------------------------
SendStep(t) == SendLock(t) \/ SendPush(t) \/ SendSignal(t)

LoopStep ==
  \/ LoopInit \/ Poll \/ DrainLock \/ DrainNext \/ TaskReturn \/ DrainEnd
  \/ UninitInTask \/ CloseDone \/ LoopExit

Next ==
  \/ \E t \in Thread, task \in Task : SendCall(t, task)
  \/ \E t \in Thread : SendStep(t)
  \/ LoopStep
  \/ UninitInCallback
  \/ Terminated

Safety == Init /\ [][Next]_vars

(* A thread inside sendQueuedTask keeps running, and so does the loop      *)
(* thread inside init, uv_run and processQueuedTask.  Nobody is forced to  *)
(* send a task or to call uninit outside a task.                           *)
Fairness == (\A t \in Thread : WF_vars(SendStep(t))) /\ WF_vars(LoopStep)

Spec == Safety /\ Fairness

-----------------------------------------------------------------------------
(* Types of the queue's state.                                             *)
TypeOK ==
  /\ mutexOwner \in Thread \cup {Nobody}
  /\ mutexDepth \in Nat
  /\ queue \in Seq(Task)
  /\ asyncHandle \in HandleState
  /\ asyncPending \in BOOLEAN
  /\ sendPc \in [Thread -> SendPc]
  /\ sendArg \in [Thread -> Task \cup {NoTask}]
  /\ loopPc \in LoopPc
  /\ current \in Task \cup {NoTask}
  /\ sent \in Seq(Task) /\ ran \in Seq(Task)
  /\ uninitMark \in Nat

(* The threads between lock_guard's constructor and destructor.            *)
InSection(t) ==
  \/ sendPc[t] \in {"push", "signal"}
  \/ t = LoopThread /\ loopPc \in {"drain", "task"}

(* No two threads touch the deque at once, and no sender is inside         *)
(* addQueuedTask while another thread's task runs.                         *)
MutualExclusion ==
  \A t, u \in Thread : InSection(t) /\ InSection(u) => t = u

(* Tasks start in the order in which they were pushed; none is lost,       *)
(* duplicated or overtaken, whatever the tasks send while the deque is     *)
(* drained.                                                                *)
FIFO == sent = ran \o queue

(* A task in the deque of a live loop always has a wake-up coming: a       *)
(* coalesced signal, a drain that has yet to look, or a sender about to    *)
(* signal.  Tasks sent before init are covered by init's own signal.       *)
NoLostWakeup ==
  asyncHandle = "active" /\ queue # <<>> =>
    \/ asyncPending
    \/ loopPc \in {"woken", "drain", "task"}
    \/ \E t \in Thread : sendPc[t] = "signal"

(* uninit called from a task abandons nothing that was already pushed:     *)
(* the drain that runs it goes on to the end of the deque.                 *)
UninitDrains ==
  loopPc \notin {"drain", "task"} => Len(ran) >= uninitMark

(* Every pushed task is run, unless uninit closes the wake-up handle.      *)
TaskRuns ==
  \A i \in 1..MaxSend :
    Len(sent) >= i ~> Len(ran) >= i \/ asyncHandle \in {"closing", "closed"}

(* sendQueuedTask returns: a sender blocks only while a drain runs.        *)
SendReturns ==
  \A t \in Thread : sendPc[t] = "lock" ~> sendPc[t] = "idle"

(* Sending uninit as a task, before or after init, ends uv_run: the        *)
(* shutdown LoopSupportTest::TearDown relies on.                           *)
UninitStops == UninitSent ~> loopPc = "exited"
=============================================================================
