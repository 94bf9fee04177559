---------------------------- MODULE EmitterProofs ----------------------------
(* The emitter's safety for any number of events, listeners and emissions, *)
(* for programs whose callbacks do not remove the listeners of their own   *)
(* event, and whose once() listeners do not emit it (Careful): no iterator *)
(* of Handler::call is left dangling, once() listeners are called once,    *)
(* and an emission reaches every listener it began with.                   *)
EXTENDS Emitter, TLAPS, SequenceTheorems

Careful == ~OnceReemits /\ ~OffInCallback

Emission == [event: Event, at: Listener, first: SUBSET Listener,
             called: SUBSET Listener]

TypeOK ==
  /\ handlers \in [Event -> Seq(Listener)]
  /\ once \in [Listener -> BOOLEAN]
  /\ next \in Nat \ {0}
  /\ stack \in Seq(Emission)
  /\ calls \in [Listener -> Nat]

In(l, e) == \E i \in 1..Len(handlers[e]) : handlers[e][i] = l

(* A listener is in one place of one list, and has been registered.        *)
ListInv ==
  /\ \A e \in Event : \A i \in 1..Len(handlers[e]) : handlers[e][i] < next
  /\ \A e, f \in Event :
       \A i \in 1..Len(handlers[e]), j \in 1..Len(handlers[f]) :
         handlers[e][i] = handlers[f][j] => e = f /\ i = j

(* An event is emitted again only from inside on() listeners of it.        *)
NestInv ==
  \A i, j \in 1..Len(stack) :
    i < j /\ stack[i].event = stack[j].event => ~once[stack[i].at]

(* A listener that is running has been called.                             *)
TurnInv == \A i \in 1..Len(stack) : calls[stack[i].at] > 0

(* A once listener that was called is being called or is gone.             *)
CountInv ==
  \A l \in Listener :
    /\ l >= next => calls[l] = 0
    /\ once[l] => calls[l] <= 1
    /\ once[l] /\ calls[l] = 1 =>
         \A e \in Event : In(l, e) =>
           \E i \in 1..Len(stack) : stack[i].event = e /\ stack[i].at = l

(* What an emission has still to call, once-listeners apart that another   *)
(* has called, comes after its iterator.                                   *)
Owed(m) == m.first \ (m.called \cup Spent)
Ahead(e, a, l) ==
  \E p, q \in 1..Len(handlers[e]) :
    p < q /\ handlers[e][p] = a /\ handlers[e][q] = l
ReachInv ==
  \A i \in 1..Len(stack) : \A l \in Owed(stack[i]) :
    Ahead(stack[i].event, stack[i].at, l)

IInv == /\ TypeOK /\ ListInv /\ NestInv /\ TurnInv /\ IteratorValid
        /\ CountInv /\ ReachInv /\ EmitReachesAll

-----------------------------------------------------------------------------
(* std::list::erase: the elements before stay, those after move up.        *)
LEMMA EraseFacts ==
  ASSUME NEW S, NEW list \in Seq(S), NEW k \in 1..Len(list)
  PROVE  LET new == SubSeq(list, 1, k - 1) \o SubSeq(list, k + 1, Len(list))
         IN  /\ new \in Seq(S)
             /\ Len(new) = Len(list) - 1
             /\ \A i \in 1..k - 1 : new[i] = list[i]
             /\ \A i \in k..Len(list) - 1 : new[i] = list[i + 1]
<1> DEFINE a == SubSeq(list, 1, k - 1)
           b == SubSeq(list, k + 1, Len(list))
<1>0. Len(list) \in Nat /\ k \in Int /\ 1 <= k /\ k <= Len(list)
      /\ \A i \in 1..Len(list) : list[i] \in S
  OBVIOUS
<1>1. a \in Seq(S) /\ Len(a) = k - 1 /\ \A i \in 1..k - 1 : a[i] = list[i]
  <2>1. \A i \in 1..k - 1 : list[i] \in S BY <1>0
  <2>2. /\ a \in Seq(S) /\ Len(a) = (IF 1 <= k - 1 THEN k - 1 - 1 + 1 ELSE 0)
        /\ \A i \in 1..k - 1 - 1 + 1 : a[i] = list[1 + i - 1]
    BY <1>0, <2>1, SubSeqProperties
  <2>3. k - 1 - 1 + 1 = k - 1 /\ \A i \in Int : 1 + i - 1 = i
    BY <1>0
  <2>4. Len(a) = k - 1 BY <1>0, <2>2
  <2> QED BY <2>2, <2>3, <2>4
<1>2. /\ b \in Seq(S) /\ Len(b) = Len(list) - k
      /\ \A i \in 1..Len(list) - k : b[i] = list[k + i]
  <2>1. \A i \in k + 1..Len(list) : list[i] \in S BY <1>0
  <2>2. /\ b \in Seq(S)
        /\ Len(b) = (IF k + 1 <= Len(list) THEN Len(list) - (k + 1) + 1 ELSE 0)
        /\ \A i \in 1..Len(list) - (k + 1) + 1 : b[i] = list[k + 1 + i - 1]
    BY <1>0, <2>1, SubSeqProperties
  <2>3. Len(list) - (k + 1) + 1 = Len(list) - k /\ \A i \in Int : k + 1 + i - 1 = k + i
    BY <1>0
  <2> HIDE DEF b
  <2>4. Len(b) = Len(list) - k BY <1>0, <2>2
  <2>5. ASSUME NEW i \in 1..Len(list) - k PROVE b[i] = list[k + i]
    <3>1. i \in Int /\ i \in 1..Len(list) - (k + 1) + 1 BY <1>0, <2>3
    <3> QED BY <2>2, <2>3, <3>1
  <2> QED BY <2>2, <2>4, <2>5
<1> HIDE DEF a, b
<1>3. /\ a \o b \in Seq(S) /\ Len(a \o b) = Len(a) + Len(b)
      /\ \A i \in 1..Len(a) + Len(b) :
           (a \o b)[i] = IF i <= Len(a) THEN a[i] ELSE b[i - Len(a)]
  BY <1>1, <1>2, ConcatProperties
<1>4. Len(a) + Len(b) = Len(list) - 1 BY <1>0, <1>1, <1>2
<1>5. ASSUME NEW i \in 1..k - 1 PROVE (a \o b)[i] = list[i]
  <2>1. i \in 1..Len(a) + Len(b) /\ i <= Len(a) BY <1>0, <1>1, <1>4
  <2> QED BY <1>1, <1>3, <2>1
<1>6. ASSUME NEW i \in k..Len(list) - 1 PROVE (a \o b)[i] = list[i + 1]
  <2>1. i \in 1..Len(a) + Len(b) /\ ~(i <= Len(a)) BY <1>0, <1>1, <1>4
  <2>2. i - Len(a) \in 1..Len(list) - k /\ k + (i - Len(a)) = i + 1
    BY <1>0, <1>1
  <2> QED BY <1>2, <1>3, <2>1, <2>2
<1> QED BY <1>3, <1>4, <1>5, <1>6 DEF a, b

(* Where the elements of the list after Advance or EmitEnd come from.      *)
Shift(i) == IF once[Top.at] /\ i >= Index THEN i + 1 ELSE i

LEMMA TopFacts ==
  ASSUME TypeOK, stack # <<>>
  PROVE  /\ Len(stack) \in Nat \ {0} /\ Len(stack) \in 1..Len(stack)
         /\ Top = stack[Len(stack)]
         /\ Top \in Emission /\ Top.event \in Event /\ Top.at \in Listener
         /\ handlers[Top.event] \in Seq(Listener)
<1>1. stack \in Seq(Emission) BY DEF TypeOK
<1>2. Len(stack) \in Nat \ {0} /\ Len(stack) \in 1..Len(stack)
      /\ \A i \in 1..Len(stack) : stack[i] \in Emission
  BY <1>1, EmptySeq, LenProperties
<1>3. Top = stack[Len(stack)] BY DEF Top, Last
<1>4. Top \in Emission BY <1>2, <1>3
<1>5. Top.event \in Event /\ Top.at \in Listener BY <1>4 DEF Emission
<1> QED BY <1>2, <1>3, <1>4, <1>5 DEF TypeOK

LEMMA PopFacts ==
  ASSUME TypeOK, stack # <<>>, stack' = Pop
  PROVE  /\ stack' \in Seq(Emission) /\ Len(stack') = Len(stack) - 1
         /\ \A i \in 1..Len(stack') : i \in 1..Len(stack) - 1 /\ stack'[i] = stack[i]
<1>1. stack \in Seq(Emission) BY DEF TypeOK
<1>2. Len(stack) \in Nat \ {0} BY TopFacts
<1>3. \A i \in 1..Len(stack) - 1 : stack[i] \in Emission BY <1>1, <1>2
<1>4. 1 \in Int /\ Len(stack) - 1 \in Int BY <1>2
<1> DEFINE f == SubSeq(stack, 1, Len(stack) - 1)
<1>5. /\ f \in Seq(Emission)
      /\ Len(f) = (IF 1 <= Len(stack) - 1 THEN Len(stack) - 1 - 1 + 1 ELSE 0)
      /\ \A i \in 1..Len(stack) - 1 - 1 + 1 : f[i] = stack[1 + i - 1]
  BY <1>3, <1>4, SubSeqProperties
<1>6. Len(stack) - 1 - 1 + 1 = Len(stack) - 1 /\ \A i \in Int : 1 + i - 1 = i
  BY <1>2
<1> HIDE DEF f
<1>7. Len(f) = Len(stack) - 1
  <2>1. Len(f) = (IF 1 <= Len(stack) - 1 THEN Len(stack) - 1 - 1 + 1 ELSE 0)
    BY <1>5
  <2> QED BY <1>2, <2>1
<1>8. ASSUME NEW i \in 1..Len(stack) - 1 PROVE f[i] = stack[i]
  <2>1. i \in Int /\ i \in 1..Len(stack) - 1 - 1 + 1 BY <1>2, <1>6
  <2> QED BY <1>5, <1>6, <2>1
<1>9. stack' = f BY DEF Pop, Front, f
<1> QED BY <1>5, <1>7, <1>8, <1>9

LEMMA MoveFacts ==
  ASSUME TypeOK, stack # <<>>, AtValid
  PROVE  LET list == handlers[Top.event]
         IN  /\ Index \in 1..Len(list) /\ list[Index] = Top.at
             /\ Len(list) \in Nat
             /\ AfterErase \in Seq(Listener) /\ Len(AfterErase) \in Nat
             /\ once[Top.at] => Len(AfterErase) = Len(list) - 1
             /\ ~once[Top.at] => AfterErase = list
             /\ \A i \in 1..Len(AfterErase) :
                  /\ Shift(i) \in 1..Len(list) /\ AfterErase[i] = list[Shift(i)]
                  /\ once[Top.at] => Shift(i) # Index
<1> DEFINE list == handlers[Top.event]
<1>1. list \in Seq(Listener) /\ Len(list) \in Nat BY TopFacts
<1>2. Index \in 1..Len(list) /\ list[Index] = Top.at
  BY DEF AtValid, Index
<1>3. CASE once[Top.at]
  <2>1. AfterErase = SubSeq(list, 1, Index - 1) \o SubSeq(list, Index + 1, Len(list))
    BY <1>3 DEF AfterErase
  <2>2. /\ AfterErase \in Seq(Listener) /\ Len(AfterErase) = Len(list) - 1
        /\ \A i \in 1..Index - 1 : AfterErase[i] = list[i]
        /\ \A i \in Index..Len(list) - 1 : AfterErase[i] = list[i + 1]
    BY <1>1, <1>2, <2>1, EraseFacts
  <2>3. ASSUME NEW i \in 1..Len(AfterErase)
        PROVE  /\ Shift(i) \in 1..Len(list) /\ AfterErase[i] = list[Shift(i)]
               /\ Shift(i) # Index
    <3>1. CASE i >= Index
      <4>1. i \in Index..Len(list) - 1 BY <1>1, <1>2, <2>2, <3>1
      <4>2. Shift(i) = i + 1 BY <1>3, <3>1 DEF Shift
      <4> QED BY <1>1, <1>2, <2>2, <4>1, <4>2
    <3>2. CASE ~(i >= Index)
      <4>1. i \in 1..Index - 1 BY <1>1, <1>2, <3>2
      <4>2. Shift(i) = i BY <3>2 DEF Shift
      <4> QED BY <1>1, <1>2, <2>2, <4>1, <4>2
    <3> QED BY <3>1, <3>2
  <2> QED BY <1>1, <1>2, <1>3, <2>2, <2>3
<1>4. CASE ~once[Top.at]
  <2>1. AfterErase = list BY <1>4 DEF AfterErase
  <2>2. \A i : Shift(i) = i BY <1>4 DEF Shift
  <2> QED BY <1>1, <1>2, <1>4, <2>1, <2>2
<1> QED BY <1>3, <1>4

-----------------------------------------------------------------------------
(* An emission in progress moved to listener l.                            *)
Moved(r, l) == [event |-> r.event, at |-> l, first |-> r.first,
                called |-> r.called \cup {l}]

LEMMA SameEmission ==
  ASSUME NEW r \in Emission, NEW q \in Emission, r.event = q.event,
         r.at = q.at, r.first = q.first, r.called = q.called
  PROVE  r = q
BY DEF Emission

LEMMA MovedIs ==
  ASSUME NEW r \in Emission, NEW l \in Listener
  PROVE  /\ [r EXCEPT !.at = l, !.called = @ \cup {l}] = Moved(r, l)
         /\ Moved(r, l) \in Emission
<1> DEFINE q == [r EXCEPT !.at = l, !.called = @ \cup {l}]
           m == Moved(r, l)
<1>1. q \in Emission BY DEF Emission
<1>2. m \in Emission BY DEF Emission, Moved
<1>3. q.event = r.event BY DEF Emission
<1>4. q.first = r.first /\ q.at = l BY DEF Emission
<1>5. q.called = r.called \cup {l} BY DEF Emission
<1>6. m.event = r.event /\ m.first = r.first /\ m.at = l
      /\ m.called = r.called \cup {l}
  BY DEF Moved
<1> HIDE DEF q, m
<1>7. q = m BY <1>1, <1>2, <1>3, <1>4, <1>5, <1>6, SameEmission
<1> QED BY <1>2, <1>7 DEF q, m

(* The step of an emission to its next listener.                           *)
LEMMA AdvanceFacts ==
  ASSUME TypeOK, ListInv, Advance
  PROVE  LET n == Len(stack)
             list == handlers[Top.event]
             l == list[Index + 1]
         IN  /\ Index + 1 \in 1..Len(list) /\ l \in Listener /\ l # Top.at
             /\ NextIndex \in 1..Len(AfterErase) /\ AfterErase[NextIndex] = l
             /\ stack' \in Seq(Emission) /\ Len(stack') = n
             /\ \A i \in 1..n : i # n => stack'[i] = stack[i]
             /\ stack'[n] = Moved(Top, l)
             /\ calls' = [calls EXCEPT ![l] = @ + 1]
<1> DEFINE n == Len(stack)
           list == handlers[Top.event]
           l == list[Index + 1]
<1>1. stack # <<>> /\ AtValid /\ NextIndex <= Len(AfterErase)
      /\ stack' = [stack EXCEPT ![n] = [Top EXCEPT !.at = AfterErase[NextIndex],
                                                   !.called = @ \cup {AfterErase[NextIndex]}]]
      /\ calls' = [calls EXCEPT ![AfterErase[NextIndex]] = @ + 1]
  BY DEF Advance
<1>2. /\ Index \in 1..Len(list) /\ list[Index] = Top.at /\ Len(list) \in Nat
      /\ Len(AfterErase) \in Nat
      /\ \A i \in 1..Len(AfterErase) :
           Shift(i) \in 1..Len(list) /\ AfterErase[i] = list[Shift(i)]
  BY <1>1, MoveFacts
<1>3. /\ n \in Nat \ {0} /\ n \in 1..n /\ Top = stack[n] /\ Top \in Emission
      /\ Top.event \in Event /\ list \in Seq(Listener) /\ stack \in Seq(Emission)
  BY <1>1, TopFacts DEF TypeOK
<1>4. NextIndex \in 1..Len(AfterErase)
  <2>1. NextIndex \in Nat \ {0} BY <1>2 DEF NextIndex
  <2> QED BY <1>1, <1>2, <2>1
<1>5. Shift(NextIndex) = Index + 1
  BY <1>2 DEF Shift, NextIndex
<1>6. Index + 1 \in 1..Len(list) /\ AfterErase[NextIndex] = l
  BY <1>2, <1>4, <1>5
<1>7. l \in Listener BY <1>3, <1>6
<1>8. l # Top.at
  <2>1. Index + 1 # Index BY <1>2
  <2>2. \A i, j \in 1..Len(list) : list[i] = list[j] => i = j
    BY <1>3 DEF ListInv
  <2> HIDE DEF list
  <2>3. list[Index + 1] # list[Index] BY <1>2, <1>6, <2>1, <2>2
  <2> QED BY <1>2, <2>3
<1>9. /\ stack' \in Seq(Emission) /\ Len(stack') = n
      /\ \A i \in 1..n : i # n => stack'[i] = stack[i]
      /\ stack'[n] = Moved(Top, l)
  <2>1. AfterErase[NextIndex] \in Listener BY <1>6, <1>7
  <2> DEFINE k == AfterErase[NextIndex]
  <2>a. stack' = [stack EXCEPT ![n] = [stack[n] EXCEPT !.at = k, !.called = @ \cup {k}]]
    BY <1>1, <1>3
  <2> HIDE DEF k, n
  <2>b. k \in Listener /\ n \in 1..Len(stack) /\ stack \in Seq(Emission)
    BY <1>3, <2>1 DEF k, n
  <2>c. /\ stack' \in Seq(Emission) /\ Len(stack') = Len(stack)
        /\ \A i \in 1..Len(stack) : i # n => stack'[i] = stack[i]
        /\ stack'[n] = Moved(stack[n], k)
    <3> DEFINE m == Moved(stack[n], k)
    <3>1. [stack[n] EXCEPT !.at = k, !.called = @ \cup {k}] = m /\ m \in Emission
      <4>1. stack[n] \in Emission BY <2>b
      <4> QED BY <2>b, <4>1, MovedIs
    <3>2. stack' = [stack EXCEPT ![n] = m] BY <2>a, <3>1
    <3> HIDE DEF m
    <3>3. stack' \in Seq(Emission) /\ Len(stack') = Len(stack)
          /\ \A j \in 1..Len(stack) : stack'[j] = IF j = n THEN m ELSE stack[j]
      BY <2>b, <3>1, <3>2, ExceptSeq
    <3> QED BY <2>b, <3>3 DEF m
  <2>2. /\ stack' \in Seq(Emission) /\ Len(stack') = n
        /\ \A i \in 1..n : i # n => stack'[i] = stack[i]
        /\ stack'[n] = Moved(stack[n], AfterErase[NextIndex])
    BY <2>c DEF n, k
  <2> QED BY <1>3, <1>6, <2>2, Zenon
<1> QED BY <1>1, <1>4, <1>6, <1>7, <1>8, <1>9

(* The lists after the listener that returned was erased, if it is a once. *)
LEMMA MoveLists ==
  ASSUME TypeOK, ListInv, stack # <<>>, AtValid, next' = next,
         handlers' = [handlers EXCEPT ![Top.event] = AfterErase]
  PROVE  /\ handlers' \in [Event -> Seq(Listener)]
         /\ handlers'[Top.event] = AfterErase
         /\ \A f \in Event : f # Top.event => handlers'[f] = handlers[f]
         /\ \A f \in Event : \A l : In(l, f)' => In(l, f)
         /\ once[Top.at] => \A i \in 1..Len(AfterErase) : AfterErase[i] # Top.at
         /\ ListInv'
<1> DEFINE e == Top.event
           list == handlers[e]
<1>1. /\ Index \in 1..Len(list) /\ list[Index] = Top.at /\ Len(list) \in Nat
      /\ AfterErase \in Seq(Listener) /\ Len(AfterErase) \in Nat
      /\ \A i \in 1..Len(AfterErase) :
           /\ Shift(i) \in 1..Len(list) /\ AfterErase[i] = list[Shift(i)]
           /\ once[Top.at] => Shift(i) # Index
  BY MoveFacts
<1>2. e \in Event BY TopFacts
<1>3. /\ handlers' \in [Event -> Seq(Listener)]
      /\ handlers'[e] = AfterErase
      /\ \A f \in Event : f # e => handlers'[f] = handlers[f]
  BY <1>1, <1>2 DEF TypeOK
<1>4. ASSUME NEW f \in Event, NEW l, In(l, f)' PROVE In(l, f)
  <2>1. CASE f = e BY <1>1, <1>3, <1>4, <2>1 DEF In
  <2>2. CASE f # e BY <1>3, <1>4, <2>2 DEF In
  <2> QED BY <2>1, <2>2
<1>5. ASSUME once[Top.at], NEW i \in 1..Len(AfterErase)
      PROVE  AfterErase[i] # Top.at
  BY <1>1, <1>2, <1>5 DEF ListInv
<1>6. ASSUME NEW f \in Event, NEW i \in 1..Len(handlers'[f])
      PROVE  \E j \in 1..Len(handlers[f]) :
               /\ handlers'[f][i] = handlers[f][j]
               /\ j = IF f = e THEN Shift(i) ELSE i
  BY <1>1, <1>3
<1>7. \A i, j \in Int : Shift(i) = Shift(j) => i = j
  BY <1>1 DEF Shift
<1>8. ASSUME NEW f \in Event, NEW g \in Event, NEW i \in 1..Len(handlers'[f]),
             NEW j \in 1..Len(handlers'[g]), handlers'[f][i] = handlers'[g][j]
      PROVE  f = g /\ i = j
  <2>1. PICK p \in 1..Len(handlers[f]) :
          handlers'[f][i] = handlers[f][p] /\ p = IF f = e THEN Shift(i) ELSE i
    BY <1>6
  <2>2. PICK q \in 1..Len(handlers[g]) :
          handlers'[g][j] = handlers[g][q] /\ q = IF g = e THEN Shift(j) ELSE j
    BY <1>6
  <2>3. f = g /\ p = q BY <1>8, <2>1, <2>2 DEF ListInv
  <2> QED BY <1>7, <2>1, <2>2, <2>3
<1>9. \A f \in Event : \A i \in 1..Len(handlers'[f]) : handlers'[f][i] < next'
  BY <1>6 DEF ListInv
<1>10. ListInv' BY <1>8, <1>9 DEF ListInv
<1> QED BY <1>3, <1>4, <1>5, <1>10

(* on() and once(): the new listener goes to the end of one list.          *)
LEMMA RegisterFacts ==
  ASSUME TypeOK, NEW e \in Event, NEW o \in BOOLEAN, Register(e, o)
  PROVE  /\ next \in Listener
         /\ handlers' \in [Event -> Seq(Listener)]
         /\ Len(handlers[e]) \in Nat /\ Len(handlers'[e]) = Len(handlers[e]) + 1
         /\ \A i \in 1..Len(handlers[e]) : handlers'[e][i] = handlers[e][i]
         /\ handlers'[e][Len(handlers[e]) + 1] = next
         /\ \A f \in Event : f # e => handlers'[f] = handlers[f]
<1>1. next \in Listener
  BY BoundAssumption DEF TypeOK, Register, Listener
<1>2. handlers[e] \in Seq(Listener) /\ Len(handlers[e]) \in Nat
  BY DEF TypeOK
<1> DEFINE new == Append(handlers[e], next)
<1>3. /\ new \in Seq(Listener) /\ Len(new) = Len(handlers[e]) + 1
      /\ \A i \in 1..Len(handlers[e]) : new[i] = handlers[e][i]
      /\ new[Len(handlers[e]) + 1] = next
  BY <1>1, <1>2, AppendProperties
<1>4. handlers' = [handlers EXCEPT ![e] = new]
  BY DEF Register
<1> HIDE DEF new
<1>5. /\ handlers' \in [Event -> Seq(Listener)] /\ handlers'[e] = new
      /\ \A f \in Event : f # e => handlers'[f] = handlers[f]
  BY <1>3, <1>4 DEF TypeOK
<1> QED BY <1>1, <1>2, <1>3, <1>5

(* off(): a list is as it was, or empty; none being walked is emptied.     *)
LEMMA OffFacts ==
  ASSUME TypeOK, Careful, OffAll \/ \E e \in Event : Off(e)
  PROVE  /\ handlers' \in [Event -> Seq(Listener)]
         /\ \A f \in Event : handlers'[f] = handlers[f] \/ Len(handlers'[f]) = 0
         /\ \A i \in 1..Len(stack) :
              handlers'[stack[i].event] = handlers[stack[i].event]
         /\ UNCHANGED <<once, next, stack, emits, calls, missed>>
<1>0. <<>> \in Seq(Listener) /\ Len(<<>>) = 0 OBVIOUS
<1>1. ASSUME NEW i \in 1..Len(stack) PROVE stack[i].event \in Event
  <2>1. stack[i] \in Emission BY DEF TypeOK
  <2> QED BY <2>1 DEF Emission
<1>2. CASE OffAll
  <2>1. \A i \in 1..Len(stack) : stack[i].event \notin Event
    BY <1>2 DEF OffAll, MayRemove, Careful
  <2>2. handlers' = [e \in Event |-> <<>>]
        /\ UNCHANGED <<once, next, stack, emits, calls, missed>>
    BY <1>2 DEF OffAll
  <2>3. handlers' \in [Event -> Seq(Listener)]
        /\ \A f \in Event : Len(handlers'[f]) = 0
    BY <1>0, <2>2
  <2> QED BY <1>1, <2>1, <2>2, <2>3, Zenon
<1>3. CASE \E e \in Event : Off(e)
  <2>1. PICK e \in Event : Off(e) BY <1>3
  <2>2. \A i \in 1..Len(stack) : stack[i].event # e
    BY <2>1 DEF Off, MayRemove, Careful
  <2>3. handlers' = [handlers EXCEPT ![e] = <<>>]
        /\ UNCHANGED <<once, next, stack, emits, calls, missed>>
    BY <2>1 DEF Off
  <2>4. /\ handlers' \in [Event -> Seq(Listener)] /\ Len(handlers'[e]) = 0
        /\ \A f \in Event : f # e => handlers'[f] = handlers[f]
    BY <1>0, <2>3 DEF TypeOK
  <2> QED BY <1>1, <2>2, <2>3, <2>4, Zenon
<1> QED BY <1>2, <1>3

(* emit(): a new emission, at the first listener of its list.              *)
LEMMA EmitFacts ==
  ASSUME TypeOK, Careful, NEW e \in Event, Emit(e)
  PROVE  LET l == handlers[e][1]
             n == Len(stack) + 1
         IN  /\ 1 \in 1..Len(handlers[e]) /\ l \in Listener
             /\ Len(stack) \in Nat
             /\ stack' \in Seq(Emission) /\ Len(stack') = n
             /\ \A i \in 1..Len(stack) :
                  /\ stack'[i] = stack[i]
                  /\ stack[i].event = e => ~once[stack[i].at]
             /\ stack'[n].event = e /\ stack'[n].at = l
             /\ stack'[n].first = ToSet(handlers[e]) /\ stack'[n].called = {l}
             /\ calls' = [calls EXCEPT ![l] = @ + 1]
             /\ UNCHANGED <<handlers, once, next, missed>>
<1> DEFINE l == handlers[e][1]
           n == Len(stack) + 1
           r == [event |-> e, at |-> l, first |-> ToSet(handlers[e]), called |-> {l}]
<1>1. handlers[e] \in Seq(Listener) /\ handlers[e] # <<>> /\ stack \in Seq(Emission)
  BY DEF TypeOK, Emit
<1>2. /\ 1 \in 1..Len(handlers[e]) /\ l \in Listener /\ Len(stack) \in Nat
      /\ \A i \in 1..Len(handlers[e]) : handlers[e][i] \in Listener
  BY <1>1, EmptySeq, LenProperties
<1>3. ToSet(handlers[e]) \subseteq Listener
  BY <1>2 DEF ToSet
<1>4. r \in Emission
  BY <1>2, <1>3 DEF Emission
<1>5. Head(handlers[e]) = l
  BY <1>1
<1>6. /\ stack' = Append(stack, r) /\ calls' = [calls EXCEPT ![l] = @ + 1]
      /\ UNCHANGED <<handlers, once, next, missed>>
      /\ \A i \in 1..Len(stack) : stack[i].event = e => ~once[stack[i].at]
  BY <1>5, Zenon DEF Emit, InOnce, Careful
<1> HIDE DEF r
<1>7. /\ stack' \in Seq(Emission) /\ Len(stack') = n
      /\ \A i \in 1..Len(stack) : stack'[i] = stack[i]
      /\ stack'[n] = r
  BY <1>1, <1>4, <1>6, AppendProperties
<1>8. r.event = e /\ r.at = l /\ r.first = ToSet(handlers[e]) /\ r.called = {l}
  BY DEF r
<1> QED BY <1>2, <1>6, <1>7, <1>8

-----------------------------------------------------------------------------
LEMMA TypeStep ==
  ASSUME TypeOK, ListInv, Careful, [Next]_vars
  PROVE  TypeOK'
<1>1. ASSUME NEW e \in Event, NEW o \in BOOLEAN, Register(e, o) PROVE TypeOK'
  <2>1. handlers' \in [Event -> Seq(Listener)] /\ next \in Listener
    BY <1>1, RegisterFacts
  <2>2. once' = [once EXCEPT ![next] = o] /\ next' = next + 1
        /\ UNCHANGED <<stack, calls>>
    BY <1>1 DEF Register
  <2>3. once' \in [Listener -> BOOLEAN] BY <2>1, <2>2 DEF TypeOK
  <2>4. next' \in Nat \ {0} BY <2>2 DEF TypeOK
  <2> QED BY <2>1, <2>2, <2>3, <2>4, Zenon DEF TypeOK
<1>2. ASSUME OffAll \/ \E e \in Event : Off(e) PROVE TypeOK'
  BY <1>2, OffFacts, Zenon DEF TypeOK
<1>3. ASSUME NEW e \in Event, Emit(e) PROVE TypeOK'
  <2>1. /\ stack' \in Seq(Emission) /\ handlers[e][1] \in Listener
        /\ calls' = [calls EXCEPT ![handlers[e][1]] = @ + 1]
        /\ UNCHANGED <<handlers, once, next>>
    BY <1>3, EmitFacts
  <2>2. calls' \in [Listener -> Nat] BY <2>1 DEF TypeOK
  <2> QED BY <2>1, <2>2, Zenon DEF TypeOK
<1>4. ASSUME Advance PROVE TypeOK'
  <2> DEFINE l == handlers[Top.event][Index + 1]
  <2>1. /\ stack' \in Seq(Emission) /\ l \in Listener
        /\ calls' = [calls EXCEPT ![l] = @ + 1]
    BY <1>4, AdvanceFacts
  <2>2. handlers' \in [Event -> Seq(Listener)]
    BY <1>4, MoveLists DEF Advance
  <2> HIDE DEF l
  <2>3. calls' \in [Listener -> Nat] BY <2>1 DEF TypeOK
  <2>4. UNCHANGED <<once, next>> BY <1>4 DEF Advance
  <2> QED BY <2>1, <2>2, <2>3, <2>4, Zenon DEF TypeOK
<1>5. ASSUME EmitEnd PROVE TypeOK'
  <2>1. handlers' \in [Event -> Seq(Listener)]
    BY <1>5, MoveLists DEF EmitEnd
  <2>2. stack' \in Seq(Emission) BY <1>5, PopFacts DEF EmitEnd
  <2>3. UNCHANGED <<once, next, calls>> BY <1>5 DEF EmitEnd
  <2> QED BY <2>1, <2>2, <2>3, Zenon DEF TypeOK
<1>6. ASSUME UNCHANGED vars PROVE TypeOK'
  BY <1>6, Zenon DEF vars, TypeOK
<1> QED BY <1>1, <1>2, <1>3, <1>4, <1>5, <1>6, Zenon DEF Next, Quiet

LEMMA ListStep ==
  ASSUME TypeOK, ListInv, Careful, [Next]_vars
  PROVE  ListInv'
<1>1. ASSUME NEW e \in Event, NEW o \in BOOLEAN, Register(e, o) PROVE ListInv'
  <2>1. /\ Len(handlers[e]) \in Nat /\ Len(handlers'[e]) = Len(handlers[e]) + 1
        /\ \A i \in 1..Len(handlers[e]) : handlers'[e][i] = handlers[e][i]
        /\ handlers'[e][Len(handlers[e]) + 1] = next
        /\ \A f \in Event : f # e => handlers'[f] = handlers[f]
    BY <1>1, RegisterFacts
  <2>2. next' = next + 1 /\ next \in Nat BY <1>1 DEF Register, TypeOK
  <2>3. ASSUME NEW f \in Event, NEW i \in 1..Len(handlers'[f])
        PROVE  \/ i \in 1..Len(handlers[f]) /\ handlers'[f][i] = handlers[f][i]
               \/ f = e /\ i = Len(handlers[e]) + 1 /\ handlers'[f][i] = next
    BY <2>1
  <2>4. \A f \in Event : \A i \in 1..Len(handlers[f]) :
          handlers[f][i] \in Nat /\ handlers[f][i] < next
    <3>1. \A f \in Event : \A i \in 1..Len(handlers[f]) : handlers[f][i] \in Listener
      BY DEF TypeOK
    <3> QED BY <3>1 DEF ListInv, Listener
  <2>5. ASSUME NEW f \in Event, NEW i \in 1..Len(handlers'[f])
        PROVE  handlers'[f][i] < next'
    <3>1. CASE i \in 1..Len(handlers[f]) /\ handlers'[f][i] = handlers[f][i]
      <4>1. handlers[f][i] \in Nat /\ handlers[f][i] < next BY <2>4, <3>1
      <4> QED BY <2>2, <3>1, <4>1
    <3>2. CASE handlers'[f][i] = next BY <2>2, <3>2
    <3> QED BY <2>3, <3>1, <3>2
  <2>6. ASSUME NEW f \in Event, NEW g \in Event, NEW i \in 1..Len(handlers'[f]),
               NEW j \in 1..Len(handlers'[g]), handlers'[f][i] = handlers'[g][j]
        PROVE  f = g /\ i = j
    <3>1. \/ i \in 1..Len(handlers[f]) /\ handlers'[f][i] = handlers[f][i]
          \/ f = e /\ i = Len(handlers[e]) + 1 /\ handlers'[f][i] = next
      BY <2>3
    <3>2. \/ j \in 1..Len(handlers[g]) /\ handlers'[g][j] = handlers[g][j]
          \/ g = e /\ j = Len(handlers[e]) + 1 /\ handlers'[g][j] = next
      BY <2>3
    <3>3. CASE /\ i \in 1..Len(handlers[f]) /\ handlers'[f][i] = handlers[f][i]
               /\ j \in 1..Len(handlers[g]) /\ handlers'[g][j] = handlers[g][j]
      <4>1. handlers[f][i] = handlers[g][j] BY <2>6, <3>3, Zenon
      <4>2. \A h, k \in Event :
              \A p \in 1..Len(handlers[h]), q \in 1..Len(handlers[k]) :
                handlers[h][p] = handlers[k][q] => h = k /\ p = q
        BY Zenon DEF ListInv
      <4>3. i \in 1..Len(handlers[f]) /\ j \in 1..Len(handlers[g]) BY <3>3, Zenon
      <4> QED BY <4>1, <4>2, <4>3
    <3>4. ASSUME i \in 1..Len(handlers[f]), handlers'[f][i] = handlers[f][i]
          PROVE  handlers'[f][i] # next
      <4>1. handlers[f][i] \in Nat /\ handlers[f][i] < next BY <2>4, <3>4
      <4> QED BY <2>2, <3>4, <4>1
    <3>5. ASSUME j \in 1..Len(handlers[g]), handlers'[g][j] = handlers[g][j]
          PROVE  handlers'[g][j] # next
      <4>1. handlers[g][j] \in Nat /\ handlers[g][j] < next BY <2>4, <3>5
      <4> QED BY <2>2, <3>5, <4>1
    <3> QED BY <2>6, <3>1, <3>2, <3>3, <3>4, <3>5, Zenon
  <2> QED BY <2>5, <2>6 DEF ListInv
<1>2. ASSUME OffAll \/ \E e \in Event : Off(e) PROVE ListInv'
  <2>1. /\ \A f \in Event : handlers'[f] = handlers[f] \/ Len(handlers'[f]) = 0
        /\ next' = next
    BY <1>2, OffFacts
  <2>2. ASSUME NEW f \in Event, NEW i \in 1..Len(handlers'[f])
        PROVE  handlers'[f] = handlers[f]
    BY <2>1
  <2> QED BY <2>1, <2>2 DEF ListInv
<1>3. ASSUME NEW e \in Event, Emit(e) PROVE ListInv'
  <2>1. UNCHANGED <<handlers, next>> BY <1>3 DEF Emit
  <2> QED BY <2>1 DEF ListInv
<1>4. ASSUME Advance PROVE ListInv'
  BY <1>4, MoveLists DEF Advance
<1>5. ASSUME EmitEnd PROVE ListInv'
  BY <1>5, MoveLists DEF EmitEnd
<1>6. ASSUME UNCHANGED vars PROVE ListInv'
  <2>1. UNCHANGED <<handlers, next>> BY <1>6 DEF vars
  <2> QED BY <2>1 DEF ListInv
<1> QED BY <1>1, <1>2, <1>3, <1>4, <1>5, <1>6, Zenon DEF Next, Quiet

-----------------------------------------------------------------------------
(* Emission i is left alone by a step: it is where it was, and what it     *)
(* owes still comes after that.                                            *)
Kept(i) ==
  LET list == handlers'[stack[i].event]
  IN  /\ i \in 1..Len(stack) /\ stack'[i] = stack[i]
      /\ \E p \in 1..Len(list) : list[p] = stack[i].at
      /\ \A l : l \notin Spent /\ Ahead(stack[i].event, stack[i].at, l) =>
           \E p, q \in 1..Len(list) :
             p < q /\ list[p] = stack[i].at /\ list[q] = l

LEMMA FrameFacts ==
  ASSUME TypeOK, NEW i \in 1..Len(stack)
  PROVE  stack[i] \in Emission /\ stack[i].event \in Event
         /\ Len(handlers[stack[i].event]) \in Nat
<1>1. stack[i] \in Emission BY DEF TypeOK
<1>2. stack[i].event \in Event BY <1>1 DEF Emission
<1> QED BY <1>1, <1>2 DEF TypeOK

(* ... as when its list only grows at the end.                             *)
LEMMA StableKept ==
  ASSUME TypeOK, IteratorValid, NEW i \in 1..Len(stack), stack'[i] = stack[i],
         \A j \in 1..Len(handlers[stack[i].event]) :
           /\ j \in 1..Len(handlers'[stack[i].event])
           /\ handlers'[stack[i].event][j] = handlers[stack[i].event][j]
  PROVE  Kept(i)
<1> DEFINE e == stack[i].event
           a == stack[i].at
<1>1. \E p \in 1..Len(handlers[e]) : handlers[e][p] = a BY DEF IteratorValid
<1>2. \E p \in 1..Len(handlers'[e]) : handlers'[e][p] = a BY <1>1
<1>3. ASSUME NEW l, Ahead(e, a, l)
      PROVE  \E p, q \in 1..Len(handlers'[e]) :
               p < q /\ handlers'[e][p] = a /\ handlers'[e][q] = l
  <2>1. PICK p, q \in 1..Len(handlers[e]) :
          p < q /\ handlers[e][p] = a /\ handlers[e][q] = l
    BY <1>3 DEF Ahead
  <2>2. /\ p \in 1..Len(handlers'[e]) /\ handlers'[e][p] = handlers[e][p]
        /\ q \in 1..Len(handlers'[e]) /\ handlers'[e][q] = handlers[e][q]
    OBVIOUS
  <2> QED BY <2>1, <2>2
<1> QED BY <1>2, <1>3 DEF Kept

(* ... and as when the listener another emission of the event had called   *)
(* is erased: it is a once, and the iterator of this one is at an on().    *)
LEMMA EraseKept ==
  ASSUME TypeOK, ListInv, NestInv, TurnInv, IteratorValid, stack # <<>>,
         AtValid, next' = next,
         NEW i \in 1..Len(stack), i # Len(stack), stack'[i] = stack[i],
         handlers' = [handlers EXCEPT ![Top.event] = AfterErase]
  PROVE  Kept(i)
<1> DEFINE e == Top.event
           list == handlers[e]
           a == stack[i].at
<1>1. /\ Top = stack[Len(stack)] /\ Len(stack) \in 1..Len(stack)
      /\ Len(stack) \in Nat /\ e \in Event /\ Top.at \in Listener
  BY TopFacts
<1>2. stack[i].event \in Event /\ Len(handlers[stack[i].event]) \in Nat
  BY FrameFacts
<1>3. /\ handlers'[e] = AfterErase
      /\ \A f \in Event : f # e => handlers'[f] = handlers[f]
  BY MoveLists
<1>4. /\ Index \in 1..Len(list) /\ list[Index] = Top.at /\ Len(list) \in Nat
      /\ Len(AfterErase) \in Nat
      /\ once[Top.at] => Len(AfterErase) = Len(list) - 1
      /\ ~once[Top.at] => AfterErase = list
      /\ \A j \in 1..Len(AfterErase) : AfterErase[j] = list[Shift(j)]
  BY MoveFacts
<1>5. CASE stack[i].event # e \/ ~once[Top.at]
  <2>1. handlers'[stack[i].event] = handlers[stack[i].event]
    BY <1>2, <1>3, <1>4, <1>5
  <2> QED BY <2>1, StableKept
<1>6. CASE stack[i].event = e /\ once[Top.at]
  <2>1. ~once[a]
    <3>1. i < Len(stack) BY <1>1
    <3> QED BY <1>1, <1>6, <3>1 DEF NestInv
  <2>2. Top.at \in Spent BY <1>1, <1>6 DEF TurnInv, Spent
  <2> DEFINE at(p) == IF p < Index THEN p ELSE p - 1
  <2>3. ASSUME NEW p \in 1..Len(list), list[p] # Top.at
        PROVE  at(p) \in 1..Len(AfterErase) /\ AfterErase[at(p)] = list[p]
    <3>1. p # Index BY <1>4, <2>3
    <3>2. at(p) \in 1..Len(AfterErase) BY <1>4, <1>6, <3>1
    <3>3. Shift(at(p)) = p BY <1>4, <1>6, <3>1 DEF Shift
    <3> QED BY <1>4, <3>2, <3>3
  <2>4. \E p \in 1..Len(AfterErase) : AfterErase[p] = a
    <3>1. PICK p \in 1..Len(list) : list[p] = a BY <1>6 DEF IteratorValid
    <3>2. list[p] # Top.at BY <1>6, <2>1, <3>1
    <3> QED BY <2>3, <3>1, <3>2
  <2>5. ASSUME NEW l, l \notin Spent, Ahead(e, a, l)
        PROVE  \E p, q \in 1..Len(AfterErase) :
                 p < q /\ AfterErase[p] = a /\ AfterErase[q] = l
    <3>1. PICK p, q \in 1..Len(list) : p < q /\ list[p] = a /\ list[q] = l
      BY <2>5 DEF Ahead
    <3>2. list[p] # Top.at /\ list[q] # Top.at BY <1>6, <2>1, <2>2, <2>5, <3>1
    <3>3. p # Index /\ q # Index BY <1>4, <3>2
    <3>4. at(p) < at(q) BY <1>4, <3>1, <3>3
    <3>5. /\ at(p) \in 1..Len(AfterErase) /\ AfterErase[at(p)] = a
          /\ at(q) \in 1..Len(AfterErase) /\ AfterErase[at(q)] = l
      BY <2>3, <3>1, <3>2
    <3> QED BY <3>4, <3>5
  <2>6. handlers'[stack[i].event] = AfterErase BY <1>3, <1>6
  <2>7. \E p \in 1..Len(handlers'[stack[i].event]) :
          handlers'[stack[i].event][p] = stack[i].at
    BY <2>4, <2>6, Zenon
  <2>8. ASSUME NEW l, l \notin Spent, Ahead(stack[i].event, stack[i].at, l)
        PROVE  \E p, q \in 1..Len(handlers'[stack[i].event]) :
                 /\ p < q
                 /\ handlers'[stack[i].event][p] = stack[i].at
                 /\ handlers'[stack[i].event][q] = l
    <3>1. Ahead(e, a, l) BY <1>6, <2>8, Zenon
    <3>2. PICK p, q \in 1..Len(AfterErase) :
            p < q /\ AfterErase[p] = a /\ AfterErase[q] = l
      BY <2>5, <2>8, <3>1
    <3> QED BY <2>6, <3>2, Zenon
  <2>9. \A l : l \notin Spent /\ Ahead(stack[i].event, stack[i].at, l) =>
          \E p, q \in 1..Len(handlers'[stack[i].event]) :
            /\ p < q
            /\ handlers'[stack[i].event][p] = stack[i].at
            /\ handlers'[stack[i].event][q] = l
    BY <2>8, Zenon
  <2>10. i \in 1..Len(stack) /\ stack'[i] = stack[i] OBVIOUS
  <2> QED BY ONLY <2>7, <2>9, <2>10 DEF Kept
<1> QED BY <1>5, <1>6

(* Only the innermost emission moves, by emit() or by call()'s next round. *)
LEMMA FramesKept ==
  ASSUME TypeOK, ListInv, NestInv, TurnInv, IteratorValid, Careful,
         [Next]_vars, NEW i \in 1..Len(stack')
  PROVE  \/ Kept(i)
         \/ i = Len(stack) + 1 /\ \E e \in Event : Emit(e)
         \/ i = Len(stack) /\ Advance
<1>0. Len(stack) \in Nat BY DEF TypeOK
<1>1. ASSUME NEW e \in Event, NEW o \in BOOLEAN, Register(e, o) PROVE Kept(i)
  <2>1. /\ Len(handlers[e]) \in Nat /\ Len(handlers'[e]) = Len(handlers[e]) + 1
        /\ \A j \in 1..Len(handlers[e]) : handlers'[e][j] = handlers[e][j]
        /\ \A f \in Event : f # e => handlers'[f] = handlers[f]
    BY <1>1, RegisterFacts
  <2>2. stack' = stack BY <1>1 DEF Register
  <2>3. stack[i].event \in Event BY <2>2, FrameFacts
  <2> QED BY <2>1, <2>2, <2>3, StableKept
<1>2. ASSUME OffAll \/ \E e \in Event : Off(e) PROVE Kept(i)
  <2>1. /\ \A j \in 1..Len(stack) :
              handlers'[stack[j].event] = handlers[stack[j].event]
        /\ stack' = stack
    BY <1>2, OffFacts
  <2> QED BY <2>1, StableKept
<1>3. ASSUME NEW e \in Event, Emit(e) PROVE i = Len(stack) + 1 \/ Kept(i)
  <2>1. /\ Len(stack') = Len(stack) + 1 /\ handlers' = handlers
        /\ \A j \in 1..Len(stack) : stack'[j] = stack[j]
    BY <1>3, EmitFacts
  <2>2. ASSUME i # Len(stack) + 1 PROVE Kept(i)
    <3>1. i \in 1..Len(stack) BY <1>0, <2>1, <2>2
    <3> QED BY <2>1, <3>1, StableKept
  <2> QED BY <2>2
<1>5. ASSUME Advance PROVE i = Len(stack) \/ Kept(i)
  <2>1. /\ Len(stack') = Len(stack)
        /\ \A j \in 1..Len(stack) : j # Len(stack) => stack'[j] = stack[j]
    BY <1>5, AdvanceFacts
  <2> QED BY <1>5, <2>1, EraseKept DEF Advance
<1>6. ASSUME EmitEnd PROVE Kept(i)
  <2>1. i \in 1..Len(stack) - 1 /\ stack'[i] = stack[i]
    BY <1>6, PopFacts DEF EmitEnd
  <2>2. i \in 1..Len(stack) /\ i # Len(stack) BY <1>0, <2>1
  <2> QED BY <1>6, <2>1, <2>2, EraseKept DEF EmitEnd
<1>7. ASSUME UNCHANGED vars PROVE Kept(i)
  BY <1>7, StableKept DEF vars
<1> QED BY <1>1, <1>2, <1>3, <1>5, <1>6, <1>7, Zenon DEF Next, Quiet

(* Listeners keep their kind, and those that run are registered.           *)
LEMMA KindKept ==
  ASSUME TypeOK, ListInv, IteratorValid, [Next]_vars
  PROVE  /\ \A l \in Listener : l # next => once'[l] = once[l]
         /\ \A i \in 1..Len(stack) : stack[i].at \in Listener /\ stack[i].at # next
<1>1. ASSUME NEW i \in 1..Len(stack)
      PROVE  stack[i].at \in Listener /\ stack[i].at # next
  <2>1. stack[i] \in Emission /\ stack[i].event \in Event BY FrameFacts
  <2>2. PICK p \in 1..Len(handlers[stack[i].event]) :
          handlers[stack[i].event][p] = stack[i].at
    BY DEF IteratorValid
  <2>3. stack[i].at < next BY <2>1, <2>2 DEF ListInv
  <2>4. stack[i].at \in Listener BY <2>1 DEF Emission
  <2> QED BY <2>3, <2>4 DEF TypeOK, Listener
<1>2. ASSUME NEW l \in Listener, l # next PROVE once'[l] = once[l]
  <2>1. ASSUME NEW e \in Event, NEW o \in BOOLEAN, Register(e, o)
        PROVE once'[l] = once[l]
    <3>1. once' = [once EXCEPT ![next] = o] BY <2>1 DEF Register
    <3> QED BY <1>2, <3>1 DEF TypeOK
  <2>2. ASSUME ~\E e \in Event, o \in BOOLEAN : Register(e, o) PROVE once' = once
    BY <2>2, Zenon DEF Next, Off, OffAll, Emit, Advance, EmitEnd, Quiet, vars
  <2> QED BY <2>1, <2>2
<1> QED BY <1>1, <1>2

LEMMA NestStep ==
  ASSUME TypeOK, ListInv, NestInv, TurnInv, IteratorValid, Careful, [Next]_vars
  PROVE  NestInv'
<1>0. Len(stack) \in Nat BY DEF TypeOK
<1>k. \A i \in 1..Len(stack) : once'[stack[i].at] = once[stack[i].at]
  BY KindKept
<1>1. ASSUME NEW e \in Event, Emit(e) PROVE NestInv'
  <2>1. /\ Len(stack') = Len(stack) + 1
        /\ \A i \in 1..Len(stack) :
             stack'[i] = stack[i] /\ (stack[i].event = e => ~once[stack[i].at])
        /\ stack'[Len(stack) + 1].event = e /\ once' = once
    BY <1>1, EmitFacts
  <2>2. ASSUME NEW i \in 1..Len(stack'), NEW j \in 1..Len(stack'), i < j,
               stack'[i].event = stack'[j].event
        PROVE  ~once'[stack'[i].at]
    <3>1. i \in 1..Len(stack) BY <1>0, <2>1, <2>2
    <3>2. CASE j \in 1..Len(stack) BY <2>1, <2>2, <3>1, <3>2 DEF NestInv
    <3>3. CASE j = Len(stack) + 1 BY <2>1, <2>2, <3>1, <3>3
    <3> QED BY <1>0, <2>1, <3>2, <3>3
  <2> QED BY <2>2 DEF NestInv
<1>2. ASSUME Advance PROVE NestInv'
  <2>1. /\ Len(stack') = Len(stack)
        /\ \A i \in 1..Len(stack) : i # Len(stack) => stack'[i] = stack[i]
        /\ stack'[Len(stack)].event = Top.event
    BY <1>2, AdvanceFacts DEF Moved
  <2>2. Top = stack[Len(stack)] BY <1>2, TopFacts DEF Advance
  <2>3. \A i \in 1..Len(stack) : stack'[i].event = stack[i].event
    BY <2>1, <2>2
  <2>4. ASSUME NEW i \in 1..Len(stack'), NEW j \in 1..Len(stack'), i < j,
               stack'[i].event = stack'[j].event
        PROVE  ~once'[stack'[i].at]
    <3>1. i \in 1..Len(stack) /\ i # Len(stack) BY <1>0, <2>1, <2>4
    <3>2. ~once[stack[i].at] BY <2>1, <2>3, <2>4, <3>1 DEF NestInv
    <3> QED BY <1>k, <2>1, <3>1, <3>2
  <2> QED BY <2>4 DEF NestInv
<1>3. ASSUME \A i \in 1..Len(stack') : Kept(i) PROVE NestInv'
  <2>1. \A i \in 1..Len(stack') : i \in 1..Len(stack) /\ stack'[i] = stack[i]
    BY <1>3 DEF Kept
  <2> QED BY <1>k, <2>1 DEF NestInv
<1> QED BY <1>1, <1>2, <1>3, FramesKept

(* Nobody's count goes down, and a listener that is reached is called.     *)
LEMMA CallsGrow ==
  ASSUME TypeOK, ListInv, [Next]_vars
  PROVE  \A l \in Listener : calls'[l] >= calls[l]
<1>0. \A l \in Listener : calls[l] \in Nat BY DEF TypeOK
<1>1. ASSUME NEW k \in Listener, calls' = [calls EXCEPT ![k] = @ + 1],
             NEW l \in Listener
      PROVE  calls'[l] >= calls[l]
  BY <1>0, <1>1 DEF TypeOK
<1>2. ASSUME NEW e \in Event, Emit(e)
      PROVE \E k \in Listener : calls' = [calls EXCEPT ![k] = @ + 1]
  <2>1. handlers[e] \in Seq(Listener) /\ handlers[e] # <<>> BY <1>2 DEF TypeOK, Emit
  <2>2. Head(handlers[e]) \in Listener BY <2>1
  <2>3. calls' = [calls EXCEPT ![Head(handlers[e])] = @ + 1] BY <1>2 DEF Emit
  <2> QED BY <2>2, <2>3
<1>3. ASSUME Advance
      PROVE \E k \in Listener : calls' = [calls EXCEPT ![k] = @ + 1]
  <2> DEFINE k == handlers[Top.event][Index + 1]
  <2>1. k \in Listener /\ calls' = [calls EXCEPT ![k] = @ + 1]
    BY <1>3, AdvanceFacts
  <2> HIDE DEF k
  <2> QED BY <2>1
<1>4. ASSUME ~Advance, ~\E e \in Event : Emit(e) PROVE calls' = calls
  BY <1>4, Zenon DEF Next, Register, Off, OffAll, EmitEnd, Quiet, vars
<1>5. ASSUME calls' = calls PROVE \A l \in Listener : calls'[l] >= calls[l]
  BY <1>0, <1>5
<1> QED BY <1>1, <1>2, <1>3, <1>4, <1>5, Zenon

LEMMA TurnStep ==
  ASSUME TypeOK, ListInv, NestInv, TurnInv, IteratorValid, Careful, [Next]_vars
  PROVE  TurnInv'
<1>0. /\ \A l \in Listener : calls[l] \in Nat /\ calls'[l] >= calls[l]
      /\ \A l \in Listener : calls'[l] \in Nat
      /\ Len(stack) \in Nat
  BY CallsGrow, TypeStep DEF TypeOK
<1>1. ASSUME NEW i \in 1..Len(stack), stack'[i] = stack[i]
      PROVE  calls'[stack'[i].at] > 0
  <2>1. stack[i].at \in Listener BY KindKept
  <2> QED BY <1>0, <1>1, <2>1 DEF TurnInv
<1>2. ASSUME NEW e \in Event, Emit(e) PROVE calls'[stack'[Len(stack) + 1].at] > 0
  <2> DEFINE l == handlers[e][1]
  <2>1. l \in Listener /\ stack'[Len(stack) + 1].at = l
        /\ calls' = [calls EXCEPT ![l] = @ + 1]
    BY <1>2, EmitFacts
  <2> HIDE DEF l
  <2> QED BY <1>0, <2>1 DEF TypeOK
<1>3. ASSUME Advance PROVE calls'[stack'[Len(stack)].at] > 0
  <2> DEFINE l == handlers[Top.event][Index + 1]
  <2>1. l \in Listener /\ stack'[Len(stack)].at = l
        /\ calls' = [calls EXCEPT ![l] = @ + 1]
    BY <1>3, AdvanceFacts DEF Moved
  <2> HIDE DEF l
  <2> QED BY <1>0, <2>1 DEF TypeOK
<1>4. ASSUME NEW i \in 1..Len(stack') PROVE calls'[stack'[i].at] > 0
  <2>1. \/ Kept(i)
        \/ i = Len(stack) + 1 /\ \E e \in Event : Emit(e)
        \/ i = Len(stack) /\ Advance
    BY FramesKept
  <2> QED BY <1>1, <1>2, <1>3, <2>1 DEF Kept
<1> QED BY <1>4 DEF TurnInv

(* Once-listeners that had their turn have had it for good.                *)
LEMMA SpentGrows ==
  ASSUME TypeOK, ListInv, IteratorValid, CountInv, Careful, [Next]_vars
  PROVE  \A l \in Spent : l \in Spent'
<1> TAKE l \in Spent
<1>1. l \in Listener /\ once[l] /\ calls[l] > 0 BY DEF Spent
<1>2. l # next BY <1>1 DEF CountInv, TypeOK
<1>3. once'[l] BY <1>1, <1>2, KindKept, Zenon
<1>4. calls'[l] > 0
  <2>1. calls'[l] >= calls[l] /\ calls[l] \in Nat BY <1>1, CallsGrow DEF TypeOK
  <2>2. TypeOK' BY TypeStep
  <2>3. calls'[l] \in Nat BY <1>1, <2>2 DEF TypeOK, Listener
  <2> QED BY <1>1, <2>1, <2>3
<1> QED BY <1>1, <1>3, <1>4 DEF Spent

(* What the new or moved innermost emission looks like.                    *)
LEMMA TopStep ==
  ASSUME TypeOK, ListInv, NestInv, TurnInv, IteratorValid, CountInv, ReachInv,
         Careful, [Next]_vars, NEW i \in 1..Len(stack'), ~Kept(i)
  PROVE  LET r == stack'[i]
             list == handlers'[r.event]
         IN  \E p \in 1..Len(list) :
               /\ list[p] = r.at
               /\ \A l \in r.first \ (r.called \cup Spent') :
                    \E q \in 1..Len(list) : p < q /\ list[q] = l
<1>1. ASSUME NEW e \in Event, Emit(e), i = Len(stack) + 1
      PROVE  \E p \in 1..Len(handlers'[stack'[i].event]) :
               /\ handlers'[stack'[i].event][p] = stack'[i].at
               /\ \A l \in stack'[i].first \ (stack'[i].called \cup Spent') :
                    \E q \in 1..Len(handlers'[stack'[i].event]) :
                      p < q /\ handlers'[stack'[i].event][q] = l
  <2>1. /\ 1 \in 1..Len(handlers[e]) /\ handlers' = handlers
        /\ stack'[i].event = e /\ stack'[i].at = handlers[e][1]
        /\ stack'[i].first = ToSet(handlers[e]) /\ stack'[i].called = {handlers[e][1]}
    BY <1>1, EmitFacts
  <2>2. ASSUME NEW l \in stack'[i].first \ stack'[i].called
        PROVE  \E q \in 1..Len(handlers[e]) : 1 < q /\ handlers[e][q] = l
    <3>1. PICK q \in 1..Len(handlers[e]) : handlers[e][q] = l
      BY <2>1 DEF ToSet
    <3>2. q # 1 BY <2>1, <3>1
    <3> QED BY <3>1, <3>2
  <2> QED BY <2>1, <2>2
<1>2. ASSUME Advance, i = Len(stack)
      PROVE  \E p \in 1..Len(handlers'[stack'[i].event]) :
               /\ handlers'[stack'[i].event][p] = stack'[i].at
               /\ \A l \in stack'[i].first \ (stack'[i].called \cup Spent') :
                    \E q \in 1..Len(handlers'[stack'[i].event]) :
                      p < q /\ handlers'[stack'[i].event][q] = l
  <2> DEFINE e == Top.event
             list == handlers[e]
             k == list[Index + 1]
  <2>1. /\ NextIndex \in 1..Len(AfterErase) /\ AfterErase[NextIndex] = k
        /\ Index + 1 \in 1..Len(list)
        /\ stack'[i].event = e /\ stack'[i].at = k /\ stack'[i].first = Top.first
        /\ stack'[i].called = Top.called \cup {k}
    BY <1>2, AdvanceFacts DEF Moved
  <2>2. stack # <<>> /\ AtValid /\ next' = next
        /\ handlers' = [handlers EXCEPT ![e] = AfterErase]
    BY <1>2 DEF Advance
  <2>3. handlers'[e] = AfterErase BY <2>2, MoveLists
  <2>4. /\ Index \in 1..Len(list) /\ list[Index] = Top.at /\ Len(list) \in Nat
        /\ Len(AfterErase) \in Nat
        /\ once[Top.at] => Len(AfterErase) = Len(list) - 1
        /\ ~once[Top.at] => AfterErase = list
        /\ \A j \in 1..Len(AfterErase) : AfterErase[j] = list[Shift(j)]
    BY <2>2, MoveFacts
  <2>5. Top = stack[i] /\ i \in 1..Len(stack) /\ e \in Event
    BY <1>2, <2>2, TopFacts
  <2>6. ASSUME NEW l \in stack'[i].first \ (stack'[i].called \cup Spent')
        PROVE  \E q \in 1..Len(AfterErase) : NextIndex < q /\ AfterErase[q] = l
    <3>0. l \notin Spent BY <2>6, SpentGrows
    <3>1. l \in Owed(Top) /\ l # k BY <2>1, <3>0 DEF Owed
    <3>2. Ahead(e, Top.at, l) BY <2>5, <3>1 DEF ReachInv
    <3>3. PICK p, q \in 1..Len(list) : p < q /\ list[p] = Top.at /\ list[q] = l
      BY <3>2 DEF Ahead
    <3>4. p = Index BY <2>4, <2>5, <3>3 DEF ListInv
    <3>5. q # Index + 1 BY <3>1, <3>3
    <3>6. q > Index + 1 BY <2>4, <3>3, <3>4, <3>5
    <3>7. CASE once[Top.at]
      <4>1. NextIndex = Index /\ q - 1 \in 1..Len(AfterErase) /\ q - 1 > Index
        BY <2>4, <3>6, <3>7 DEF NextIndex
      <4>2. Shift(q - 1) = q BY <2>4, <3>7, <4>1 DEF Shift
      <4> QED BY <2>4, <3>3, <4>1, <4>2
    <3>8. CASE ~once[Top.at]
      <4>1. NextIndex = Index + 1 BY <3>8 DEF NextIndex
      <4> QED BY <2>4, <3>3, <3>6, <3>8, <4>1
    <3> QED BY <3>7, <3>8
  <2> QED BY <2>1, <2>3, <2>6
<1> QED BY <1>1, <1>2, FramesKept

LEMMA ValidStep ==
  ASSUME TypeOK, ListInv, NestInv, TurnInv, IteratorValid, CountInv, ReachInv,
         Careful, [Next]_vars
  PROVE  IteratorValid' /\ ReachInv'
<1>1. ASSUME NEW i \in 1..Len(stack')
      PROVE  /\ \E p \in 1..Len(handlers'[stack'[i].event]) :
                  handlers'[stack'[i].event][p] = stack'[i].at
             /\ \A l \in stack'[i].first \ (stack'[i].called \cup Spent') :
                  \E p, q \in 1..Len(handlers'[stack'[i].event]) :
                    /\ p < q
                    /\ handlers'[stack'[i].event][p] = stack'[i].at
                    /\ handlers'[stack'[i].event][q] = l
  <2>1. CASE Kept(i)
    <3>1. i \in 1..Len(stack) /\ stack'[i] = stack[i] BY <2>1, Zenon DEF Kept
    <3>2. \E p \in 1..Len(handlers'[stack[i].event]) :
            handlers'[stack[i].event][p] = stack[i].at
      BY <2>1, Zenon DEF Kept
    <3>3. ASSUME NEW l \in stack[i].first \ (stack[i].called \cup Spent')
          PROVE  \E p, q \in 1..Len(handlers'[stack[i].event]) :
                   /\ p < q
                   /\ handlers'[stack[i].event][p] = stack[i].at
                   /\ handlers'[stack[i].event][q] = l
      <4>1. l \notin Spent BY <3>3, SpentGrows
      <4>2. Ahead(stack[i].event, stack[i].at, l)
        BY <3>1, <3>3, <4>1 DEF ReachInv, Owed
      <4> QED BY <2>1, <4>1, <4>2, Zenon DEF Kept
    <3> QED BY <3>1, <3>2, <3>3
  <2>2. CASE ~Kept(i)
    BY <2>2, TopStep, Zenon
  <2> QED BY <2>1, <2>2
<1>2. IteratorValid' BY <1>1, Zenon DEF IteratorValid
<1>3. ReachInv' BY <1>1 DEF ReachInv, Ahead, Owed
<1> QED BY <1>2, <1>3

(* At the end of the list there is nothing left to call.                   *)
LEMMA MissedStep ==
  ASSUME TypeOK, ListInv, ReachInv, EmitReachesAll, [Next]_vars
  PROVE  EmitReachesAll'
<1>1. ASSUME EmitEnd PROVE EmitReachesAll'
  <2> DEFINE list == handlers[Top.event]
  <2>1. stack # <<>> /\ AtValid /\ NextIndex > Len(AfterErase)
        /\ missed' = missed \cup Owed(Top)
    BY <1>1 DEF EmitEnd, Owed
  <2>2. /\ Index \in 1..Len(list) /\ list[Index] = Top.at /\ Len(list) \in Nat
        /\ once[Top.at] => Len(AfterErase) = Len(list) - 1
        /\ ~once[Top.at] => AfterErase = list
    BY <2>1, MoveFacts
  <2>3. Index = Len(list)
    BY <2>1, <2>2 DEF NextIndex
  <2>4. Top = stack[Len(stack)] /\ Len(stack) \in 1..Len(stack) /\ Top.event \in Event
    BY <2>1, TopFacts
  <2>5. ASSUME NEW l \in Owed(Top) PROVE FALSE
    <3>1. Ahead(Top.event, Top.at, l) BY <2>4, <2>5 DEF ReachInv
    <3>2. PICK p, q \in 1..Len(list) : p < q /\ list[p] = Top.at /\ list[q] = l
      BY <3>1 DEF Ahead
    <3>3. p = Index BY <2>2, <2>4, <3>2 DEF ListInv
    <3> QED BY <2>2, <2>3, <3>2, <3>3
  <2> QED BY <2>1, <2>5 DEF EmitReachesAll
<1>2. ASSUME ~EmitEnd PROVE missed' = missed
  BY <1>2, Zenon DEF Next, Register, Off, OffAll, Emit, Advance, Quiet, vars
<1> QED BY <1>1, <1>2 DEF EmitReachesAll

-----------------------------------------------------------------------------
(* A call of listener k adds one to its count.                             *)
LEMMA CallCounts ==
  ASSUME TypeOK, NEW k \in Listener, calls' = [calls EXCEPT ![k] = @ + 1]
  PROVE  /\ calls[k] \in Nat /\ calls'[k] = calls[k] + 1
         /\ \A l \in Listener : l # k => calls'[l] = calls[l]
BY DEF TypeOK

LEMMA CountStep ==
  ASSUME TypeOK, ListInv, NestInv, CountInv, Careful, [Next]_vars
  PROVE  CountInv'
<1>0. /\ Len(stack) \in Nat /\ next \in Nat
      /\ \A l \in Listener : l \in Nat /\ calls[l] \in Nat
  BY DEF TypeOK, Listener
<1>1. ASSUME NEW e \in Event, NEW o \in BOOLEAN, Register(e, o) PROVE CountInv'
  <2>1. /\ next \in Listener
        /\ Len(handlers[e]) \in Nat /\ Len(handlers'[e]) = Len(handlers[e]) + 1
        /\ \A i \in 1..Len(handlers[e]) : handlers'[e][i] = handlers[e][i]
        /\ handlers'[e][Len(handlers[e]) + 1] = next
        /\ \A f \in Event : f # e => handlers'[f] = handlers[f]
    BY <1>1, RegisterFacts
  <2>2. once' = [once EXCEPT ![next] = o] /\ next' = next + 1
        /\ stack' = stack /\ calls' = calls
    BY <1>1 DEF Register
  <2>3. \A l \in Listener : l # next => once'[l] = once[l]
    BY <2>1, <2>2 DEF TypeOK
  <2>4. ASSUME NEW l \in Listener, NEW f \in Event, l # next, In(l, f)' PROVE In(l, f)
    BY <2>1, <2>4 DEF In
  <2>5. calls[next] = 0 BY <1>0, <2>1 DEF CountInv
  <2>6. ASSUME NEW l \in Listener PROVE l >= next' => calls'[l] = 0
    BY <1>0, <2>2 DEF CountInv
  <2>7. ASSUME NEW l \in Listener, once'[l] PROVE calls'[l] <= 1
    BY <1>0, <2>2, <2>3, <2>5, <2>7 DEF CountInv
  <2>8. ASSUME NEW l \in Listener, once'[l], calls'[l] = 1,
               NEW f \in Event, In(l, f)'
        PROVE  \E i \in 1..Len(stack') : stack'[i].event = f /\ stack'[i].at = l
    <3>1. l # next BY <2>2, <2>5, <2>8
    <3> QED BY <2>2, <2>3, <2>4, <2>8, <3>1 DEF CountInv
  <2> QED BY <2>6, <2>7, <2>8 DEF CountInv
<1>2. ASSUME OffAll \/ \E e \in Event : Off(e) PROVE CountInv'
  <2>1. /\ \A f \in Event : handlers'[f] = handlers[f] \/ Len(handlers'[f]) = 0
        /\ UNCHANGED <<once, next, stack, calls>>
    BY <1>2, OffFacts
  <2>2. ASSUME NEW l \in Listener, NEW f \in Event, In(l, f)' PROVE In(l, f)
    BY <2>1, <2>2 DEF In
  <2> QED BY <2>1, <2>2 DEF CountInv
<1>3. ASSUME NEW e \in Event, Emit(e) PROVE CountInv'
  <2> DEFINE k == handlers[e][1]
             n == Len(stack) + 1
  <2>1. /\ 1 \in 1..Len(handlers[e]) /\ k \in Listener
        /\ Len(stack') = n
        /\ \A i \in 1..Len(stack) :
             stack'[i] = stack[i] /\ (stack[i].event = e => ~once[stack[i].at])
        /\ stack'[n].event = e /\ stack'[n].at = k
        /\ calls' = [calls EXCEPT ![k] = @ + 1]
        /\ UNCHANGED <<handlers, once, next>>
    BY <1>3, EmitFacts
  <2>2. In(k, e) /\ k < next BY <2>1 DEF In, ListInv
  <2>3. ASSUME once[k] PROVE calls[k] = 0
    <3>1. \A i \in 1..Len(stack) : ~(stack[i].event = e /\ stack[i].at = k)
      BY <2>1, <2>3
    <3>2. calls[k] # 1 BY <2>1, <2>2, <2>3, <3>1 DEF CountInv
    <3>3. calls[k] \in Nat /\ calls[k] <= 1 BY <1>0, <2>1, <2>3 DEF CountInv
    <3> QED BY <3>2, <3>3
  <2>4. /\ calls'[k] = calls[k] + 1
        /\ \A l \in Listener : l # k => calls'[l] = calls[l]
    BY <2>1, CallCounts
  <2>5. ASSUME NEW l \in Listener, NEW f \in Event, once'[l], calls'[l] = 1, In(l, f)'
        PROVE  \E i \in 1..Len(stack') : stack'[i].event = f /\ stack'[i].at = l
    <3>1. In(l, f) BY <2>1, <2>5 DEF In
    <3>2. CASE l = k
      <4>1. f = e BY <2>2, <3>1, <3>2 DEF In, ListInv
      <4> QED BY <1>0, <2>1, <3>2, <4>1
    <3>3. CASE l # k
      <4>1. PICK i \in 1..Len(stack) : stack[i].event = f /\ stack[i].at = l
        BY <2>1, <2>4, <2>5, <3>1, <3>3 DEF CountInv
      <4> QED BY <1>0, <2>1, <4>1
    <3> QED BY <3>2, <3>3
  <2> HIDE DEF k
  <2>6. ASSUME NEW l \in Listener PROVE l >= next' => calls'[l] = 0
    BY <1>0, <2>1, <2>2, <2>4 DEF CountInv
  <2>7. ASSUME NEW l \in Listener, once'[l] PROVE calls'[l] <= 1
    BY <1>0, <2>1, <2>3, <2>4, <2>7 DEF CountInv
  <2> QED BY <2>5, <2>6, <2>7 DEF CountInv
<1>4. ASSUME stack # <<>>, AtValid, UNCHANGED <<once, next>>,
             handlers' = [handlers EXCEPT ![Top.event] = AfterErase],
             NEW l \in Listener, NEW f \in Event, once[l], calls[l] = 1, In(l, f)'
      PROVE  In(l, f) /\ \E i \in 1..Len(stack) :
               i # Len(stack) /\ stack[i].event = f /\ stack[i].at = l
  <2>1. In(l, f) BY <1>4, MoveLists
  <2>2. PICK i \in 1..Len(stack) : stack[i].event = f /\ stack[i].at = l
    BY <1>4, <2>1 DEF CountInv
  <2>3. ASSUME i = Len(stack) PROVE FALSE
    <3>1. f = Top.event /\ l = Top.at BY <1>4, <2>2, <2>3, TopFacts
    <3>2. handlers'[f] = AfterErase /\ \A j \in 1..Len(AfterErase) : AfterErase[j] # l
      BY <1>4, <3>1, MoveLists
    <3> QED BY <1>4, <3>2 DEF In
  <2> QED BY <2>1, <2>2, <2>3
<1>5. ASSUME Advance PROVE CountInv'
  <2> DEFINE e == Top.event
             k == handlers[e][Index + 1]
             n == Len(stack)
  <2>0. /\ stack # <<>> /\ AtValid /\ UNCHANGED <<once, next>>
        /\ handlers' = [handlers EXCEPT ![Top.event] = AfterErase]
    BY <1>5 DEF Advance
  <2>1. /\ Index + 1 \in 1..Len(handlers[e]) /\ k \in Listener /\ k # Top.at
        /\ Len(stack') = n
        /\ \A i \in 1..n : i # n => stack'[i] = stack[i]
        /\ stack'[n].event = e /\ stack'[n].at = k
        /\ calls' = [calls EXCEPT ![k] = @ + 1]
    BY <1>5, AdvanceFacts DEF Moved
  <2>2. Top = stack[n] /\ n \in 1..n /\ e \in Event BY <2>0, TopFacts
  <2>3. In(k, e) /\ k < next BY <2>1, <2>2 DEF In, ListInv
  <2>4. /\ calls'[k] = calls[k] + 1
        /\ \A l \in Listener : l # k => calls'[l] = calls[l]
    BY <2>1, CallCounts
  <2> HIDE DEF k
  <2>5. ASSUME once[k] PROVE calls[k] = 0
    <3>1. ASSUME calls[k] = 1 PROVE FALSE
      <4>1. PICK i \in 1..n : stack[i].event = e /\ stack[i].at = k
        BY <2>1, <2>2, <2>3, <2>5, <3>1 DEF CountInv
      <4>2. i # n BY <2>1, <2>2, <4>1
      <4>3. i < n BY <1>0, <4>2
      <4> QED BY <2>2, <2>5, <4>1, <4>3 DEF NestInv
    <3> QED BY <1>0, <2>1, <2>5, <3>1 DEF CountInv
  <2>6. ASSUME NEW l \in Listener, NEW f \in Event, once'[l], calls'[l] = 1, In(l, f)'
        PROVE  \E i \in 1..Len(stack') : stack'[i].event = f /\ stack'[i].at = l
    <3>1. CASE l = k
      <4>1. In(k, f) BY <2>0, <2>6, <3>1, MoveLists
      <4>2. f = e BY <2>2, <2>3, <4>1 DEF In, ListInv
      <4> QED BY <2>1, <2>2, <3>1, <4>2
    <3>2. CASE l # k
      <4>1. once[l] /\ calls[l] = 1 BY <2>0, <2>4, <2>6, <3>2
      <4>2. PICK i \in 1..n : i # n /\ stack[i].event = f /\ stack[i].at = l
        BY <1>4, <2>0, <2>6, <4>1
      <4> QED BY <2>1, <4>2
    <3> QED BY <3>1, <3>2
  <2>7. ASSUME NEW l \in Listener PROVE l >= next' => calls'[l] = 0
    BY <1>0, <2>0, <2>1, <2>3, <2>4 DEF CountInv
  <2>8. ASSUME NEW l \in Listener, once'[l] PROVE calls'[l] <= 1
    BY <1>0, <2>0, <2>1, <2>4, <2>5, <2>8 DEF CountInv
  <2> QED BY <2>6, <2>7, <2>8 DEF CountInv
<1>6. ASSUME EmitEnd PROVE CountInv'
  <2>0. /\ stack # <<>> /\ AtValid /\ UNCHANGED <<once, next, calls>>
        /\ handlers' = [handlers EXCEPT ![Top.event] = AfterErase] /\ stack' = Pop
    BY <1>6 DEF EmitEnd
  <2>1. /\ Len(stack') = Len(stack) - 1
        /\ \A i \in 1..Len(stack') : stack'[i] = stack[i]
    BY <2>0, PopFacts
  <2>2. ASSUME NEW l \in Listener, NEW f \in Event, once'[l], calls'[l] = 1, In(l, f)'
        PROVE  \E i \in 1..Len(stack') : stack'[i].event = f /\ stack'[i].at = l
    <3>1. PICK i \in 1..Len(stack) :
            i # Len(stack) /\ stack[i].event = f /\ stack[i].at = l
      BY <1>4, <2>0, <2>2
    <3>2. i \in 1..Len(stack') BY <1>0, <2>1, <3>1
    <3> QED BY <2>1, <3>1, <3>2
  <2> QED BY <2>0, <2>2 DEF CountInv
<1>7. ASSUME UNCHANGED vars PROVE CountInv'
  BY <1>7 DEF vars, CountInv, In
<1> QED BY <1>1, <1>2, <1>3, <1>5, <1>6, <1>7, Zenon DEF Next, Quiet

-----------------------------------------------------------------------------
(* The invariant, for careful programs.                                    *)
THEOREM EmitterInvariant ==
  ASSUME Careful
  PROVE  Spec => []IInv
<1>1. Init => IInv
  <2> SUFFICES ASSUME Init PROVE IInv OBVIOUS
  <2>1. <<>> \in Seq(Listener) /\ <<>> \in Seq(Emission) /\ Len(<<>>) = 0
    OBVIOUS
  <2>2. /\ handlers = [e \in Event |-> <<>>] /\ once = [l \in Listener |-> FALSE]
        /\ next = 1 /\ stack = <<>> /\ calls = [l \in Listener |-> 0] /\ missed = {}
    BY DEF Init
  <2>3. \A e \in Event : Len(handlers[e]) = 0 BY <2>1, <2>2
  <2>4. Len(stack) = 0 BY <2>1, <2>2
  <2>5. TypeOK BY <2>1, <2>2 DEF TypeOK
  <2>6. ListInv BY <2>3 DEF ListInv
  <2>7. NestInv /\ TurnInv /\ IteratorValid /\ ReachInv
    BY <2>4 DEF NestInv, TurnInv, IteratorValid, ReachInv
  <2>8. CountInv BY <2>2 DEF CountInv
  <2>9. EmitReachesAll BY <2>2 DEF EmitReachesAll
  <2> QED BY <2>5, <2>6, <2>7, <2>8, <2>9 DEF IInv
<1>2. IInv /\ [Next]_vars => IInv'
  BY TypeStep, ListStep, NestStep, TurnStep, ValidStep, MissedStep, CountStep,
     Zenon DEF IInv
<1> QED BY <1>1, <1>2, PTL DEF Spec

(* No iterator of Handler::call is left dangling: nothing a careful        *)
(* callback does, at any depth of nesting, erases the node it is at.       *)
THEOREM IteratorsStayValid ==
  ASSUME Careful
  PROVE  Spec => []IteratorValid
<1>1. IInv => IteratorValid BY DEF IInv
<1> QED BY <1>1, EmitterInvariant, PTL

(* A listener registered with once() is called at most once, although an   *)
(* on() listener before it may emit the event again while it waits.        *)
THEOREM OnceIsOnce ==
  ASSUME Careful
  PROVE  Spec => []OnceCalledOnce
<1>1. IInv => OnceCalledOnce BY DEF IInv, CountInv, OnceCalledOnce
<1> QED BY <1>1, EmitterInvariant, PTL

(* An emission calls every listener registered when it began, but the once *)
(* ones an emission inside it has called: neither their erasure nor what   *)
(* callbacks add makes it skip one.                                        *)
THEOREM EmitIsComplete ==
  ASSUME Careful
  PROVE  Spec => []EmitReachesAll
<1>1. IInv => EmitReachesAll BY DEF IInv
<1> QED BY <1>1, EmitterInvariant, PTL
=============================================================================
