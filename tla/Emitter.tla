------------------------------- MODULE Emitter -------------------------------
(***************************************************************************)
(* The event emitter (src/unio/inc/jcu-unio/emitter.h) on one thread:      *)
(* registration, removal and emission of events, where the callbacks of an *)
(* emission may themselves use the emitter.                                *)
(*                                                                         *)
(* Handler<U> keeps a std::list; call() holds an iterator to the listener  *)
(* whose function is running and looks at it again when it returns.        *)
(***************************************************************************)
EXTENDS Integers, SequencesExt

CONSTANTS Event,          \* event types
          MaxListeners,   \* bound: listeners ever registered
          MaxEmits,       \* bound: calls of emit
          OnceReemits,    \* a once-listener may emit the event it is called for
          OffInCallback   \* a callback may remove listeners of its own event

ASSUME EventAssumption == Event # {}
ASSUME BoundAssumption == MaxListeners \in Nat /\ MaxEmits \in Nat
ASSUME ProgramAssumption == OnceReemits \in BOOLEAN /\ OffInCallback \in BOOLEAN

VARIABLES handlers,  \* per event: the listeners in list order
          once,      \* per listener: registered with once()
          next,      \* the next listener registered
          stack,     \* emissions in progress, innermost last: the event, the
                     \* listener the iterator is at, those there at the
                     \* start and those called
          emits,     \* history: calls of emit
          calls,     \* history: calls of each listener
          missed     \* history: listeners an emission should have reached

vars == <<handlers, once, next, stack, emits, calls, missed>>

Listener == 1..MaxListeners
Top == Last(stack)
Pop == Front(stack)

Init ==
  /\ handlers = [e \in Event |-> <<>>]
  /\ once = [l \in Listener |-> FALSE]
  /\ next = 1
  /\ stack = <<>>
  /\ emits = 0
  /\ calls = [l \in Listener |-> 0]
  /\ missed = {}

-----------------------------------------------------------------------------
(* Mutant of Register: getHandler makes a new Handler every time.          *)
RegisterFreshHandler(e, isOnce) ==
  /\ next <= MaxListeners
  /\ handlers' = [handlers EXCEPT ![e] = <<next>>]
  /\ once' = [once EXCEPT ![next] = isOnce]
  /\ next' = next + 1
  /\ UNCHANGED <<stack, emits, calls, missed>>

(* on<U>(callback) and once<U>(callback), from anywhere.                   *)
Register(e, isOnce) ==
  /\ next <= MaxListeners
  /\ handlers' = [handlers EXCEPT ![e] = Append(@, next)]
  /\ once' = [once EXCEPT ![next] = isOnce]
  /\ next' = next + 1
  /\ UNCHANGED <<stack, emits, calls, missed>>

(* A callback may remove listeners of events that are not being emitted.   *)
MayRemove(events) ==
  OffInCallback \/ \A i \in 1..Len(stack) : stack[i].event \notin events

Off(e) ==
  /\ MayRemove({e})
  /\ handlers' = [handlers EXCEPT ![e] = <<>>]
  /\ UNCHANGED <<once, next, stack, emits, calls, missed>>

OffAll ==
  /\ MayRemove(Event)
  /\ handlers' = [e \in Event |-> <<>>]
  /\ UNCHANGED <<once, next, stack, emits, calls, missed>>

(* Some callback that is running is a once-listener called for event e.    *)
InOnce(e) == \E i \in 1..Len(stack) : stack[i].event = e /\ once[stack[i].at]

(* emit<U>, from anywhere: call() starts with the first listener.          *)
Emit(e) ==
  /\ emits < MaxEmits
  /\ OnceReemits \/ ~InOnce(e)
  /\ handlers[e] # <<>>
  /\ LET l == Head(handlers[e])
     IN /\ stack' = Append(stack, [event |-> e, at |-> l,
                                   first |-> ToSet(handlers[e]),
                                   called |-> {l}])
        /\ calls' = [calls EXCEPT ![l] = @ + 1]
  /\ emits' = emits + 1
  /\ UNCHANGED <<handlers, once, next, missed>>

-----------------------------------------------------------------------------
(* The iterator of the innermost emission still points into its list.      *)
AtValid == \E i \in 1..Len(handlers[Top.event]) : handlers[Top.event][i] = Top.at

Index == CHOOSE i \in 1..Len(handlers[Top.event]) : handlers[Top.event][i] = Top.at

(* Mutant of AfterErase: a once listener is never erased.                  *)
AfterEraseNever == handlers[Top.event]

(* The list once the listener that returned is erased, if it is a once.    *)
AfterErase ==
  LET list == handlers[Top.event]
  IN IF once[Top.at]
     THEN SubSeq(list, 1, Index - 1) \o SubSeq(list, Index + 1, Len(list))
     ELSE list

(* Mutant of NextIndex: it = erase(it) is followed by it++.                *)
NextIndexSkips == Index + 1

NextIndex == IF once[Top.at] THEN Index ELSE Index + 1

(* The running callback returns and call() moves to the next listener.     *)
(* Past an invalid iterator the behaviour is undefined; IteratorValid says *)
(* that no such state is reached.                                          *)
Advance ==
  /\ stack # <<>> /\ AtValid
  /\ NextIndex <= Len(AfterErase)
  /\ LET l == AfterErase[NextIndex]
     IN /\ stack' = [stack EXCEPT ![Len(stack)] =
                       [Top EXCEPT !.at = l, !.called = @ \cup {l}]]
        /\ calls' = [calls EXCEPT ![l] = @ + 1]
  /\ handlers' = [handlers EXCEPT ![Top.event] = AfterErase]
  /\ UNCHANGED <<once, next, emits, missed>>

(* A once-listener that some emission has called has had its turn.         *)
Spent == {l \in Listener : once[l] /\ calls[l] > 0}

(* ... or, at the end of the list, emit returns.                           *)
EmitEnd ==
  /\ stack # <<>> /\ AtValid
  /\ NextIndex > Len(AfterErase)
  /\ missed' = missed \cup (Top.first \ (Top.called \cup Spent))
  /\ stack' = Pop
  /\ handlers' = [handlers EXCEPT ![Top.event] = AfterErase]
  /\ UNCHANGED <<once, next, emits, calls>>

(* Nothing left to do within the bounds.                                   *)
Quiet ==
  /\ stack = <<>>
  /\ UNCHANGED vars

Next ==
  \/ \E e \in Event, isOnce \in BOOLEAN : Register(e, isOnce)
  \/ \E e \in Event : Off(e) \/ Emit(e)
  \/ OffAll \/ Advance \/ EmitEnd \/ Quiet

Spec == Init /\ [][Next]_vars

-----------------------------------------------------------------------------
(* A listener registered with once() is called at most once, over any      *)
(* number of emissions, those included that on() listeners make of the     *)
(* same event while it waits for its turn behind them.  (One that emits    *)
(* its own event before it returns is called again: OnceReemits.)          *)
OnceCalledOnce == \A l \in Listener : once[l] => calls[l] <= 1

(* Every iterator call() holds points to a listener that still exists:     *)
(* no nested emission, registration or removal of other events' listeners  *)
(* may free it.  (Removal of the event's own does: OffInCallback.)         *)
IteratorValid ==
  \A i \in 1..Len(stack) :
    \E j \in 1..Len(handlers[stack[i].event]) :
      handlers[stack[i].event][j] = stack[i].at

(* An emission calls every listener that was registered when it began,     *)
(* although once-listeners are erased and others added on the way, unless  *)
(* it was a once-listener and an emission inside this one has called it.   *)
EmitReachesAll == missed = {}
=============================================================================
