----------------------------- MODULE TimerProofs -----------------------------
(* The timer's safety for any number of starts and events: a timer without *)
(* a repeat value fires at most once per start, and the timer's life is    *)
(* the one HandleLife promises.                                            *)
EXTENDS Timer, TLAPS

TypeOK ==
  /\ initTask \in BOOLEAN /\ dataRef \in BOOLEAN /\ armed \in BOOLEAN
  /\ callback \in BOOLEAN /\ repeat \in BOOLEAN /\ repeated \in BOOLEAN
  /\ uv \in {"zeroed", "open", "closing", "closed"}
  /\ stack \in {<<>>, <<"init">>, <<"timer">>, <<"close">>}
  /\ starts \in Nat /\ events \in Nat

(* The repeat value of an armed timer is what the history says it is.      *)
RepeatInv == repeat => repeated

(* init runs once, HandleRef holds the timer from then to the end of its   *)
(* closeCallback.                                                          *)
HoldInv ==
  /\ initTask => uv = "zeroed"
  /\ uv \in {"open", "closing"} => dataRef
  /\ stack = <<"close">> => uv = "closed" /\ dataRef

IInv == TypeOK /\ RepeatInv /\ HoldInv /\ OneShot

LEMMA TypeStep == TypeOK /\ [Next]_vars => TypeOK'
<1> SUFFICES ASSUME TypeOK, [Next]_vars PROVE TypeOK'
  OBVIOUS
<1> USE DEF TypeOK
<1>1. ASSUME NEW rep \in BOOLEAN, Start(rep) PROVE TypeOK'
  <2>1. starts' \in Nat BY <1>1 DEF Start
  <2> QED BY <1>1, <2>1, Zenon DEF Start
<1>2. ASSUME NEW rep \in BOOLEAN, SetRepeat(rep) PROVE TypeOK'
  BY <1>2, Zenon DEF SetRepeat
<1>3. CASE Stop BY <1>3, Zenon DEF Stop
<1>4. CASE Again
  <2>1. starts' \in Nat BY <1>4 DEF Again
  <2> QED BY <1>4, <2>1, Zenon DEF Again
<1>5. CASE Close BY <1>5, Zenon DEF Close
<1>6. CASE InitTask BY <1>6, Zenon DEF InitTask
<1>7. CASE TimerCallback
  <2>1. events' \in Nat BY <1>7 DEF TimerCallback
  <2> QED BY <1>7, <2>1, Zenon DEF TimerCallback
<1>8. CASE CloseCallback BY <1>8, Zenon DEF CloseCallback
<1>9. CASE Return BY <1>9, Zenon DEF Return
<1>10. CASE UNCHANGED vars BY <1>10, Zenon DEF vars
<1> QED
  BY <1>1, <1>2, <1>3, <1>4, <1>5, <1>6, <1>7, <1>8, <1>9, <1>10
  DEF Next, ProgramStep, LoopStep

LEMMA Inductive == IInv /\ [Next]_vars => IInv'
<1> SUFFICES ASSUME IInv, [Next]_vars PROVE IInv'
  OBVIOUS
<1>0. TypeOK' BY TypeStep DEF IInv
<1>1. RepeatInv'
  <2>1. ASSUME NEW rep \in BOOLEAN, Start(rep) \/ SetRepeat(rep) PROVE RepeatInv'
    BY <2>1, Zenon DEF IInv, RepeatInv, Start, SetRepeat
  <2>2. CASE UNCHANGED <<repeat, repeated>>
    BY <2>2 DEF IInv, RepeatInv
  <2> QED
    BY <2>1, <2>2
    DEF Next, ProgramStep, LoopStep, Stop, Again, Close, InitTask,
        TimerCallback, CloseCallback, Return, vars
<1>2. HoldInv'
  <2> USE DEF IInv, HoldInv
  <2>1. CASE InitTask BY <2>1 DEF InitTask
  <2>2. CASE Close BY <2>2 DEF Close
  <2>3. CASE CloseCallback BY <2>3 DEF CloseCallback
  <2>4. CASE Return BY <2>4 DEF Return
  <2>5. CASE TimerCallback BY <2>5 DEF TimerCallback
  <2>6. CASE UNCHANGED <<initTask, uv, dataRef, stack>> BY <2>6
  <2> QED
    BY <2>1, <2>2, <2>3, <2>4, <2>5, <2>6
    DEF Next, ProgramStep, LoopStep, Start, SetRepeat, Stop, Again, vars
<1>3. OneShot'
  <2> USE DEF OneShot
  <2>0. /\ starts \in Nat /\ events \in Nat /\ armed \in BOOLEAN
        /\ ~repeated => events + (IF armed THEN 1 ELSE 0) <= starts /\ ~repeat
    BY DEF IInv, TypeOK, RepeatInv
  <2>1. ASSUME NEW rep \in BOOLEAN, Start(rep) PROVE OneShot'
    <3>1. CASE uv = "open"
      <4>1. armed' = TRUE /\ starts' = starts + 1 /\ events' = events
        BY <2>1, <3>1 DEF Start
      <4>2. ~repeated' => ~repeated BY <2>1, <3>1 DEF Start
      <4> QED BY <2>0, <4>1, <4>2
    <3>2. CASE uv # "open"
      <4>1. UNCHANGED <<armed, starts, events, repeated>>
        BY <2>1, <3>2 DEF Start
      <4> QED BY <2>0, <4>1
    <3> QED BY <3>1, <3>2
  <2>2. ASSUME NEW rep \in BOOLEAN, SetRepeat(rep) PROVE OneShot'
    BY <2>0, <2>2 DEF SetRepeat
  <2>3. CASE Stop \/ Close BY <2>0, <2>3 DEF Stop, Close
  <2>4. CASE Again BY <2>0, <2>4 DEF Again
  <2>5. CASE TimerCallback BY <2>0, <2>5 DEF TimerCallback
  <2>6. CASE UNCHANGED <<armed, starts, repeated, events>> BY <2>0, <2>6
  <2> QED
    BY <2>1, <2>2, <2>3, <2>4, <2>5, <2>6
    DEF Next, ProgramStep, LoopStep, InitTask, CloseCallback, Return, vars
<1> QED BY <1>0, <1>1, <1>2, <1>3 DEF IInv

(* The timer's types, and the facts about its repeat value and its handle  *)
(* that the next two theorems rest on.                                     *)
THEOREM TimerInvariant == Safety => []IInv
<1>1. Init => IInv
  <2> SUFFICES ASSUME Init PROVE IInv
    OBVIOUS
  <2>1. starts \in Nat /\ events \in Nat /\ OneShot BY DEF Init, OneShot
  <2>2. RepeatInv /\ HoldInv BY DEF Init, RepeatInv, HoldInv
  <2> QED BY <2>1, <2>2, Zenon DEF Init, IInv, TypeOK
<1> QED BY <1>1, Inductive, PTL DEF Safety

(* A timer that never had a repeat value emits at most one TimerEvent per  *)
(* start(), for every sequence of start, stop, again and setRepeat calls,  *)
(* from listeners too.                                                     *)
THEOREM FiresOncePerStart == Safety => []OneShot
BY TimerInvariant, PTL DEF IInv

(* The timer implements the safety part of HandleLife's contract: held     *)
(* from init to the end of its one CloseEvent, then let go.                *)
THEOREM TimerKeepsLife == Safety => H!Safety
<1>1. Init => H!Init
  BY DEF Init, H!Init, Life
<1>2. IInv /\ [Next]_vars => [H!Next]_(H!vars)
  <2> SUFFICES ASSUME IInv, [Next]_vars PROVE [H!Next]_(H!vars)
    OBVIOUS
  <2>1. CASE InitTask
    <3>1. uv = "zeroed" BY <2>1 DEF InitTask, IInv, HoldInv
    <3>2. CASE uv' = "open" /\ dataRef' = TRUE
      <4>1. H!Open BY <3>1, <3>2 DEF H!Open, Life
      <4> QED BY <4>1 DEF H!Next
    <3>3. CASE UNCHANGED <<uv, dataRef>>
      BY <3>3 DEF H!vars, Life
    <3> QED BY <2>1, <3>2, <3>3 DEF InitTask
  <2>2. CASE Close
    <3>1. H!Close BY <2>2 DEF Close, H!Close, Life
    <3> QED BY <3>1 DEF H!Next
  <2>3. CASE CloseCallback
    <3>1. uv = "closing" /\ uv' = "closed" /\ dataRef' = dataRef
      BY <2>3 DEF CloseCallback
    <3>2. dataRef BY <3>1 DEF IInv, HoldInv
    <3>3. H!Notify BY <3>1, <3>2 DEF H!Notify, Life
    <3> QED BY <3>3 DEF H!Next
  <2>4. CASE Return
    <3>1. CASE stack = <<"close">>
      <4>1. uv = "closed" /\ uv' = uv /\ dataRef /\ ~dataRef'
        BY <2>4, <3>1 DEF Return, IInv, HoldInv
      <4>2. dataRef' = FALSE BY <2>4, <3>1, Zenon DEF Return
      <4>3. H!Release BY <4>1, <4>2 DEF H!Release, Life
      <4> QED BY <4>3 DEF H!Next
    <3>2. CASE stack # <<"close">>
      <4>1. dataRef' = dataRef BY <2>4, <3>2, Zenon DEF Return, IInv, TypeOK
      <4> QED BY <2>4, <4>1 DEF Return, H!vars, Life
    <3> QED BY <3>1, <3>2
  <2>5. CASE UNCHANGED <<uv, dataRef>>
    BY <2>5 DEF H!vars, Life
  <2> QED
    BY <2>1, <2>2, <2>3, <2>4, <2>5
    DEF Next, ProgramStep, LoopStep, Start, SetRepeat, Stop, Again,
        TimerCallback, vars
<1> QED BY <1>1, <1>2, TimerInvariant, PTL DEF Safety, H!Safety
=============================================================================
