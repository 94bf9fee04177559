-------------------------------- MODULE Timer --------------------------------
(***************************************************************************)
(* A Timer on the loop thread (src/unio/src/timer.cc).  TimerEvent and     *)
(* CloseEvent listeners run inside libuv's callbacks and may start, stop,  *)
(* re-arm or close the timer.                                              *)
(***************************************************************************)
EXTENDS Integers, Sequences

CONSTANTS MaxStarts,  \* bound: calls of start() and again()
          MaxEvents   \* bound: TimerEvents

ASSUME BoundAssumption == MaxStarts \in Nat /\ MaxEvents \in Nat

VARIABLES initTask,    \* the task of create() is queued
          uv,          \* life of the uv_timer_t
          dataRef,     \* HandleRef::data_ holds the timer
          armed,       \* libuv will call timerCallback
          callback,    \* timerCallback was given to libuv
          repeat,      \* the repeat value is not zero
          stack,       \* callbacks running program code, innermost last
          starts,      \* history: times the timer was armed by the program
          repeated,    \* history: the repeat value was ever not zero
          events       \* history: TimerEvents emitted

vars == <<initTask, uv, dataRef, armed, callback, repeat, stack, starts,
          repeated, events>>

Init ==
  /\ initTask = TRUE
  /\ uv = "zeroed" /\ dataRef = FALSE
  /\ armed = FALSE /\ callback = FALSE /\ repeat = FALSE
  /\ stack = <<>>
  /\ starts = 0 /\ repeated = FALSE /\ events = 0

(* The program uses the timer once InitEvent reported success, from any    *)
(* callback of the loop thread.                                            *)
Usable == uv # "zeroed"

-----------------------------------------------------------------------------
(* uv_timer_start: refused by a closing handle.                            *)
Start(rep) ==
  /\ Usable /\ starts < MaxStarts
  /\ IF uv = "open"
     THEN /\ armed' = TRUE /\ callback' = TRUE /\ repeat' = rep
          /\ starts' = starts + 1
          /\ repeated' = (repeated \/ rep)
     ELSE UNCHANGED <<armed, callback, repeat, starts, repeated>>
  /\ UNCHANGED <<initTask, uv, dataRef, stack, events>>

Stop ==
  /\ Usable
  /\ armed' = FALSE
  /\ UNCHANGED <<initTask, uv, dataRef, callback, repeat, stack, starts,
                 repeated, events>>

(* Mutant of Again: the timer is re-armed whatever its repeat value.       *)
AgainAlways ==
  /\ Usable /\ starts < MaxStarts
  /\ armed' = (armed \/ (uv = "open" /\ callback))
  /\ UNCHANGED <<initTask, uv, dataRef, callback, repeat, stack, starts,
                 repeated, events>>

(* uv_timer_again: only a repeating timer is armed again.                  *)
Again ==
  /\ Usable /\ starts < MaxStarts
  /\ LET arms == uv = "open" /\ callback /\ repeat
     IN /\ armed' = (armed \/ arms)
        /\ starts' = IF arms THEN starts + 1 ELSE starts
  /\ UNCHANGED <<initTask, uv, dataRef, callback, repeat, stack, repeated,
                 events>>

SetRepeat(rep) ==
  /\ Usable
  /\ repeat' = rep
  /\ repeated' = (repeated \/ rep)
  /\ UNCHANGED <<initTask, uv, dataRef, armed, callback, stack, starts, events>>

(* uv_close stops the timer.  There is no uv_is_closing check here: libuv  *)
(* aborts on a second call, so the program makes one.                      *)
Close ==
  /\ uv = "open"
  /\ uv' = "closing"
  /\ armed' = FALSE
  /\ UNCHANGED <<initTask, dataRef, callback, repeat, stack, starts, repeated,
                 events>>

-----------------------------------------------------------------------------
(* The task of create(): _init, then the InitEvent callbacks.              *)
InitTask ==
  /\ stack = <<>> /\ initTask
  /\ initTask' = FALSE
  /\ \/ uv' = "open" /\ dataRef' = TRUE     \* uv_timer_init returned 0
     \/ UNCHANGED <<uv, dataRef>>
  /\ stack' = <<"init">>
  /\ UNCHANGED <<armed, callback, repeat, starts, repeated, events>>

(* Mutant of TimerCallback: no event is emitted.                           *)
TimerCallbackSilent ==
  /\ stack = <<>> /\ armed /\ events < MaxEvents
  /\ armed' = repeat
  /\ stack' = <<"timer">>
  /\ UNCHANGED <<initTask, uv, dataRef, callback, repeat, starts, repeated,
                 events>>

(* The timer is due: libuv re-arms it if it repeats, then calls back.      *)
TimerCallback ==
  /\ stack = <<>> /\ armed /\ events < MaxEvents
  /\ armed' = repeat
  /\ events' = events + 1
  /\ stack' = <<"timer">>
  /\ UNCHANGED <<initTask, uv, dataRef, callback, repeat, starts, repeated>>

(* closeCallback: CloseEvent; then offAll and HandleRef::close.            *)
CloseCallback ==
  /\ stack = <<>> /\ uv = "closing"
  /\ uv' = "closed"
  /\ stack' = <<"close">>
  /\ UNCHANGED <<initTask, dataRef, armed, callback, repeat, starts, repeated,
                 events>>

(* Mutant of Return: closeCallback without HandleRef::close.               *)
ReturnKeepsData ==
  /\ stack # <<>>
  /\ stack' = <<>>
  /\ UNCHANGED <<initTask, uv, dataRef, armed, callback, repeat, starts,
                 repeated, events>>

Return ==
  /\ stack # <<>>
  /\ dataRef' = (dataRef /\ stack # <<"close">>)
  /\ stack' = <<>>
  /\ UNCHANGED <<initTask, uv, armed, callback, repeat, starts, repeated,
                 events>>

-----------------------------------------------------------------------------
ProgramStep ==
  \/ \E rep \in BOOLEAN : Start(rep) \/ SetRepeat(rep)
  \/ Stop \/ Again \/ Close

LoopStep == InitTask \/ TimerCallback \/ CloseCallback \/ Return

Next == ProgramStep \/ LoopStep

Safety == Init /\ [][Next]_vars

(* The loop thread runs and time passes.                                   *)
Fairness ==
  /\ WF_vars(InitTask) /\ WF_vars(CloseCallback) /\ WF_vars(Return)
  /\ WF_vars(TimerCallback)

Spec == Safety /\ Fairness

-----------------------------------------------------------------------------
(* A timer that was never given a repeat value emits at most one           *)
(* TimerEvent per start(), whatever its listeners stop, start or re-arm.   *)
OneShot ==
  ~repeated => events + (IF armed THEN 1 ELSE 0) <= starts

(* The timer's life is that of a Handle: kept alive from init to the end   *)
(* of its one CloseEvent, released after close().                          *)
Life ==
  CASE uv = "zeroed" -> "new"
    [] uv = "open" -> "live"
    [] uv = "closing" -> "closing"
    [] uv = "closed" -> IF dataRef THEN "notified" ELSE "gone"

H == INSTANCE HandleLife WITH life <- Life, held <- dataRef, pending <- 0

LifeContract == H!Spec

(* An armed timer emits its TimerEvent, unless the program disarms it or   *)
(* starts it afresh before it is due.                                      *)
TimerTicks ==
  \A n \in 0..MaxEvents - 1, s \in 0..MaxStarts :
    armed /\ events = n /\ starts = s ~> events > n \/ ~armed \/ starts > s
=============================================================================
