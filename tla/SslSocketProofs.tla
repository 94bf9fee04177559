--------------------------- MODULE SslSocketProofs ---------------------------
(* The TLS socket, for every version of TLS, buffer size and bound.  With  *)
(* any program and peer, connect() is answered at most once; with a        *)
(* program that awaits that answer before it closes, the socket's life is  *)
(* that of a Handle.  With a peer that completes the handshake, a          *)
(* connect() with a callback is answered, what is read during the          *)
(* handshake is kept, and a program that writes one piece at a time sends  *)
(* the records OpenSSL made in order.  With TLS 1.2 all of them are        *)
(* flushed.                                                                *)
EXTENDS SslSocket, TLAPS, SequenceTheorems

Frame == {"unwrap", "handshake", "sslRead", "tls", "disconnected"} \cup ProgramFrames

ParentWrites == [by: {"tls", "told"}, sent: BOOLEAN, len: Nat]

TypeOK ==
  /\ state \in {"closed", "handshaked", "closing", "error"}
  /\ made \in Nat /\ bioOut \in Seq(Nat) /\ outBuffer \in Seq(Nat)
  /\ parent \in {"zeroed", "open", "closing", "closed"}
  /\ tcp \in {"none", "connecting", "failed", "up", "ended"}
  /\ attached \in BOOLEAN /\ given \in BOOLEAN /\ connectCb \in BOOLEAN
  /\ writes \in Seq(ParentWrites)
  /\ stack \in Seq(Frame)
  /\ connects \in Nat

(* While the program's connect callback runs, connect_event_ is still set. *)
(* What can be called from it never reaches tlsProcess with the handshake  *)
(* finished: only disconnect() does, and that has shut TLS down first.     *)
Above == {"told", "disconnected", "tls"}
Free(s) == \A i \in 1..Len(s) : s[i] # "connected"
Nested(s, st) ==
  \A i, j \in 1..Len(s) : i < j /\ s[i] = "connected" =>
    s[j] \in Above /\ (s[j] = "tls" => st # "handshaked")

ConnectInv ==
  /\ Nested(stack, state)
  /\ connectCb /\ Free(stack) => connects = 0
  /\ tcp \in {"none", "connecting"} => connects = 0 /\ ~connectCb
  /\ ConnectOnce

HasClosed(s) == \E i \in 1..Len(s) : s[i] = "closed"

(* What the parent still owes, it owes before its CloseEvent; the socket   *)
(* is let go after it.                                                     *)
LifeInv ==
  /\ ~attached => parent = "closed"
  /\ tcp = "connecting" \/ writes # <<>> => parent \in {"open", "closing"}
  /\ HasClosed(stack) => parent = "closed"
  /\ parent = "zeroed" => stack = <<>>

IInv == TypeOK /\ ConnectInv /\ LifeInv

-----------------------------------------------------------------------------
(* Call stacks.                                                            *)

LEMMA FrontFacts ==
  ASSUME NEW S, NEW s \in Seq(S), s # <<>>
  PROVE  /\ Len(s) \in Nat \ {0} /\ Last(s) = s[Len(s)] /\ Last(s) \in S
         /\ Front(s) \in Seq(S) /\ Len(Front(s)) = Len(s) - 1
         /\ \A i \in 1..Len(s) - 1 : Front(s)[i] = s[i]
<1>1. Len(s) \in Nat \ {0} /\ \A i \in 1..Len(s) : s[i] \in S
  BY EmptySeq, LenProperties
<1>2. Last(s) = s[Len(s)] BY DEF Last
<1>3. Len(s) \in 1..Len(s) BY <1>1
<1>4. Last(s) \in S BY <1>1, <1>2, <1>3
<1> DEFINE f == SubSeq(s, 1, Len(s) - 1)
<1>5. /\ f \in Seq(S)
      /\ Len(f) = (IF 1 <= Len(s) - 1 THEN Len(s) - 1 - 1 + 1 ELSE 0)
      /\ \A i \in 1..Len(s) - 1 - 1 + 1 : f[i] = s[1 + i - 1]
  <2>1. \A i \in 1..Len(s) - 1 : s[i] \in S BY <1>1
  <2>2. 1 \in Int /\ Len(s) - 1 \in Int BY <1>1
  <2> QED BY <2>1, <2>2, SubSeqProperties
<1>6. Len(s) - 1 - 1 + 1 = Len(s) - 1 /\ \A i \in Int : 1 + i - 1 = i
  BY <1>1
<1> HIDE DEF f
<1>7. Len(f) = Len(s) - 1
  <2>1. Len(f) = (IF 1 <= Len(s) - 1 THEN Len(s) - 1 - 1 + 1 ELSE 0)
    BY <1>5
  <2>2. CASE 1 <= Len(s) - 1 BY <1>6, <2>1, <2>2
  <2>3. CASE ~(1 <= Len(s) - 1)
    <3>1. Len(s) - 1 = 0 BY <1>1, <2>3
    <3> QED BY <2>1, <2>3, <3>1
  <2> QED BY <2>2, <2>3
<1>8. ASSUME NEW i \in 1..Len(s) - 1 PROVE f[i] = s[i]
  <2>1. i \in Int /\ i \in 1..Len(s) - 1 - 1 + 1 BY <1>1, <1>6
  <2> QED BY <1>5, <1>6, <2>1
<1>9. Front(s) = f BY DEF Front, f
<1> QED BY <1>1, <1>2, <1>4, <1>5, <1>7, <1>8, <1>9

LEMMA NestedFront ==
  ASSUME NEW s \in Seq(Frame), s # <<>>, NEW st, Nested(s, st)
  PROVE  /\ Nested(Front(s), st)
         /\ HasClosed(Front(s)) => HasClosed(s)
         /\ Free(Front(s)) /\ Last(s) # "connected" => Free(s)
         /\ Last(s) \notin Above => Free(Front(s))
         /\ Last(s) = "tls" /\ st = "handshaked" => Free(Front(s))
<1>1. /\ Len(s) \in Nat \ {0} /\ Last(s) = s[Len(s)]
      /\ Len(Front(s)) = Len(s) - 1
      /\ \A i \in 1..Len(s) - 1 : Front(s)[i] = s[i]
  BY FrontFacts
<1>2. \A i \in 1..Len(s) - 1 : i \in 1..Len(s) /\ Len(s) \in 1..Len(s) /\ i < Len(s)
  BY <1>1
<1>3. \A i \in 1..Len(s) : i = Len(s) \/ i \in 1..Len(s) - 1
  BY <1>1
<1>4. Nested(Front(s), st) BY <1>1, <1>2 DEF Nested
<1>5. HasClosed(Front(s)) => HasClosed(s) BY <1>1, <1>2 DEF HasClosed
<1>6. Free(Front(s)) /\ Last(s) # "connected" => Free(s) BY <1>1, <1>3 DEF Free
<1>7. Last(s) \notin Above => Free(Front(s))
  BY <1>1, <1>2 DEF Nested, Free
<1>8. Last(s) = "tls" /\ st = "handshaked" => Free(Front(s))
  BY <1>1, <1>2 DEF Nested, Free
<1> QED BY <1>4, <1>5, <1>6, <1>7, <1>8

LEMMA NestedPush ==
  ASSUME NEW s \in Seq(Frame), NEW f \in Frame, NEW st, Nested(s, st),
         Free(s) \/ (f \in Above /\ (f = "tls" => st # "handshaked"))
  PROVE  /\ Append(s, f) \in Seq(Frame)
         /\ Nested(Append(s, f), st)
         /\ f # "connected" => (Free(Append(s, f)) <=> Free(s))
         /\ f = "connected" => ~Free(Append(s, f))
         /\ HasClosed(Append(s, f)) => HasClosed(s) \/ f = "closed"
<1> DEFINE t == Append(s, f)
<1>1. /\ t \in Seq(Frame) /\ Len(t) = Len(s) + 1 /\ Len(s) \in Nat
      /\ \A i \in 1..Len(s) : t[i] = s[i]
      /\ t[Len(s) + 1] = f
  BY AppendProperties, LenProperties
<1> HIDE DEF t
<1>2. \A i \in 1..Len(t) : i \in 1..Len(s) \/ i = Len(s) + 1 BY <1>1
<1>3. \A i \in 1..Len(s) : i \in 1..Len(t) /\ Len(s) + 1 \in 1..Len(t) BY <1>1
<1>4. Len(s) + 1 \in 1..Len(t) BY <1>1
<1>5. ASSUME NEW i \in 1..Len(t), NEW j \in 1..Len(t), i < j, t[i] = "connected"
      PROVE  t[j] \in Above /\ (t[j] = "tls" => st # "handshaked")
  <2>1. i \in 1..Len(s) BY <1>1, <1>5
  <2>2. s[i] = "connected" BY <1>1, <1>5, <2>1
  <2>3. CASE j \in 1..Len(s) BY <1>1, <1>5, <2>1, <2>2, <2>3 DEF Nested
  <2>4. CASE j = Len(s) + 1 BY <1>1, <2>1, <2>2, <2>4 DEF Free
  <2> QED BY <1>2, <2>3, <2>4
<1>6. Nested(t, st) BY <1>5 DEF Nested
<1>7. f # "connected" => (Free(t) <=> Free(s)) BY <1>1, <1>2, <1>3 DEF Free
<1>8. f = "connected" => ~Free(t) BY <1>1, <1>4 DEF Free
<1>9. HasClosed(t) => HasClosed(s) \/ f = "closed" BY <1>1, <1>2 DEF HasClosed
<1> QED BY <1>1, <1>6, <1>7, <1>8, <1>9 DEF t

LEMMA NestedState ==
  ASSUME NEW s, NEW st, NEW new, Nested(s, st),
         new = "handshaked" => st = "handshaked" \/ Free(s)
  PROVE  Nested(s, new)
BY DEF Nested, Free

LEMMA NestedOne ==
  ASSUME NEW f \in Frame, NEW st
  PROVE  /\ <<f>> \in Seq(Frame) /\ Nested(<<f>>, st)
         /\ f # "connected" => Free(<<f>>)
         /\ f # "closed" => ~HasClosed(<<f>>)
<1>1. <<f>> \in Seq(Frame) /\ Len(<<f>>) = 1 /\ <<f>>[1] = f OBVIOUS
<1> QED BY <1>1 DEF Nested, Free, HasClosed

-----------------------------------------------------------------------------
(* The engine.                                                             *)

EngineTypes ==
  /\ state \in {"closed", "handshaked", "closing", "error"}
  /\ made \in Nat /\ bioOut \in Seq(Nat)

LEMMA FreshType ==
  ASSUME NEW n \in Nat, made \in Nat
  PROVE  Fresh(n) \in Seq(Nat)
<1>1. [i \in 1..n |-> made + i] \in [1..n -> Nat] OBVIOUS
<1> QED BY <1>1 DEF Fresh

LEMMA MoreOut ==
  ASSUME TypeOK, NEW n \in Nat
  PROVE  bioOut \o Fresh(n) \in Seq(Nat) /\ made + n \in Nat
<1>1. made \in Nat /\ bioOut \in Seq(Nat) BY DEF TypeOK
<1>2. Fresh(n) \in Seq(Nat) BY <1>1, FreshType
<1>3. bioOut \o Fresh(n) \in Seq(Nat) BY <1>1, <1>2, ConcatProperties
<1> QED BY <1>1, <1>3

(* Any part of a sequence is one.                                          *)
LEMMA PartType ==
  ASSUME NEW s \in Seq(Nat), NEW m \in Nat \ {0}, NEW n \in Nat, n <= Len(s)
  PROVE  SubSeq(s, m, n) \in Seq(Nat)
<1>1. \A i \in m..n : s[i] \in Nat BY LenProperties
<1>2. m \in Int /\ n \in Int OBVIOUS
<1> QED BY <1>1, <1>2, SubSeqProperties

LEMMA WrapType ==
  ASSUME TypeOK, NEW n \in Nat, Wrap(n)
  PROVE  Wrapped(n) \in Seq(Nat) /\ EngineTypes' /\ state' = state
<1> DEFINE out == bioOut \o Fresh(n)
<1>1. out \in Seq(Nat) /\ made + n \in Nat /\ Len(out) \in Nat
  BY MoreOut, LenProperties
<1>2. OutCap \in Nat /\ OutCap + 1 \in Nat \ {0} /\ 1 \in Nat \ {0}
  BY CapAssumption
<1> HIDE DEF out
<1>3. SubSeq(out, OutCap + 1, Len(out)) \in Seq(Nat) BY <1>1, <1>2, PartType
<1> DEFINE k == IF Len(out) < OutCap THEN Len(out) ELSE OutCap
<1>4. k \in Nat /\ k <= Len(out) BY <1>1, <1>2
<1> HIDE DEF k
<1>5. SubSeq(out, 1, k) \in Seq(Nat) BY <1>1, <1>2, <1>4, PartType
<1>6. Wrapped(n) = SubSeq(out, 1, k) BY DEF Wrapped, out, k
<1>7. made' = made + n /\ bioOut' = SubSeq(out, OutCap + 1, Len(out)) /\ state' = state
  BY DEF Wrap, out
<1> QED BY <1>1, <1>3, <1>5, <1>6, <1>7 DEF EngineTypes, TypeOK

(* Only doHandshake finishes the handshake.                                *)
LEMMA EngineStep ==
  ASSUME TypeOK,
         \/ BeginHandshake \/ WrapFails \/ BioWrite(input) \/ BioWriteFails
         \/ SslReadData \/ SslReadNone \/ Shutdown \/ ShutdownFails
         \/ UNCHANGED engineVars
  PROVE  EngineTypes' /\ (state' = "handshaked" => state = "handshaked")
<1>1. CASE BeginHandshake
  <2>1. Fresh(1) \in Seq(Nat) BY FreshType DEF TypeOK
  <2> QED BY <1>1, <2>1 DEF BeginHandshake, EngineTypes, TypeOK
<1>2. CASE WrapFails \/ BioWrite(input) \/ BioWriteFails \/ SslReadData
           \/ ShutdownFails \/ UNCHANGED engineVars
  <2>1. UNCHANGED <<made, bioOut>> /\ state' \in {state, "error"}
    BY <1>2, Zenon DEF WrapFails, BioWrite, BioWriteFails, SslReadData,
       ShutdownFails, engineVars
  <2> QED BY <2>1 DEF EngineTypes, TypeOK
<1>3. CASE Shutdown
  <2>1. PICK n \in {0, 1} : made' = made + n /\ bioOut' = bioOut \o Fresh(n)
    BY <1>3 DEF Shutdown
  <2>2. bioOut' \in Seq(Nat) /\ made' \in Nat BY <2>1, MoreOut
  <2>3. state' = "closing" BY <1>3 DEF Shutdown
  <2> QED BY <2>2, <2>3 DEF EngineTypes
<1>4. CASE SslReadNone
  <2>1. PICK n \in {0, 1} : made' = made + n /\ bioOut' = bioOut \o Fresh(n)
    BY <1>4 DEF SslReadNone
  <2>2. bioOut' \in Seq(Nat) /\ made' \in Nat BY <2>1, MoreOut
  <2>3. state' \in {state, "error"} BY <1>4, Zenon DEF SslReadNone
  <2> QED BY <2>2, <2>3 DEF EngineTypes, TypeOK
<1> QED BY <1>1, <1>2, <1>3, <1>4

LEMMA HandshakeType ==
  ASSUME TypeOK, DoHandshake
  PROVE  EngineTypes'
<1>1. CASE UNCHANGED engineVars BY <1>1, EngineStep
<1>2. CASE \E n \in {0, 1} : made' = made + n /\ bioOut' = bioOut \o Fresh(n)
  <2>1. PICK n \in {0, 1} : made' = made + n /\ bioOut' = bioOut \o Fresh(n)
    BY <1>2
  <2>2. bioOut' \in Seq(Nat) /\ made' \in Nat BY <2>1, MoreOut
  <2>3. state' \in {state, "handshaked", "error"}
    BY DEF DoHandshake, engineVars
  <2> QED BY <2>2, <2>3 DEF EngineTypes, TypeOK
<1>3. UNCHANGED engineVars
      \/ \E n \in {0, 1} : made' = made + n /\ bioOut' = bioOut \o Fresh(n)
  BY DEF DoHandshake
<1> QED BY <1>1, <1>2, <1>3

-----------------------------------------------------------------------------
LEMMA ParentWriteFacts ==
  ASSUME TypeOK, outBuffer' \in Seq(Nat), NEW by \in {"tls", "told"}, NEW base,
         ParentWrite(by, base)
  PROVE  /\ writes' \in Seq(ParentWrites)
         /\ \/ /\ parent = "open" /\ stack' = base
               /\ Len(writes') = Len(writes) + 1
            \/ parent # "open" /\ stack' = Append(base, by) /\ writes' = writes
<1>1. CASE parent = "open"
  <2>1. PICK now \in BOOLEAN :
          writes' = Append(writes, [by |-> by, sent |-> now, len |-> Len(outBuffer')])
    BY <1>1 DEF ParentWrite
  <2> DEFINE w == [by |-> by, sent |-> now, len |-> Len(outBuffer')]
  <2>2. w \in ParentWrites BY LenProperties DEF ParentWrites
  <2> HIDE DEF w
  <2>3. writes' = Append(writes, w) BY <2>1 DEF w
  <2>4. writes \in Seq(ParentWrites) BY DEF TypeOK
  <2>5. writes' \in Seq(ParentWrites) /\ Len(writes') = Len(writes) + 1
    BY <2>2, <2>3, <2>4, AppendProperties
  <2>6. stack' = base BY <1>1 DEF ParentWrite
  <2> QED BY <1>1, <2>5, <2>6
<1>2. CASE parent # "open"
  BY <1>2 DEF ParentWrite, TypeOK
<1> QED BY <1>1, <1>2

LEMMA TopFacts ==
  ASSUME TypeOK, NEW f, Top = f, f # "none"
  PROVE  stack # <<>> /\ Last(stack) = f /\ stack \in Seq(Frame)
BY DEF Top, TypeOK

-----------------------------------------------------------------------------
(* What a step does to the call stack.                                     *)
StackOK ==
  /\ stack' \in Seq(Frame) /\ Nested(stack', state')
  /\ HasClosed(stack') => HasClosed(stack) \/ ParentClosed
  /\ Free(stack') => Free(stack) \/ (Return /\ Top = "connected")

(* The innermost frame is replaced by one that is no connect callback.     *)
LEMMA Replaced ==
  ASSUME TypeOK, Nested(stack, state), stack # <<>>, Last(stack) # "connected",
         NEW f \in Frame, f \notin {"connected", "closed"},
         Last(stack) \notin Above \/ f \in Above,
         f = "tls" /\ state = "handshaked" =>
           Last(stack) \notin Above \/ Last(stack) = "tls",
         stack' = Append(Below, f),
         state' = "handshaked" => state = "handshaked" \/ Last(stack) \notin Above
  PROVE  StackOK
<1>1. stack \in Seq(Frame) BY DEF TypeOK
<1>2. /\ Below \in Seq(Frame) /\ Nested(Below, state)
      /\ HasClosed(Below) => HasClosed(stack)
      /\ Free(Below) => Free(stack)
      /\ Last(stack) \notin Above => Free(Below)
      /\ Last(stack) = "tls" /\ state = "handshaked" => Free(Below)
  BY <1>1, FrontFacts, NestedFront DEF Below
<1>3. Free(Below) \/ (f \in Above /\ (f = "tls" => state # "handshaked"))
  BY <1>2
<1>4. /\ stack' \in Seq(Frame) /\ Nested(stack', state)
      /\ Free(stack') <=> Free(Below)
      /\ HasClosed(stack') => HasClosed(Below)
  BY <1>2, <1>3, NestedPush
<1>5. Last(stack) \notin Above => Free(stack') BY <1>2, <1>4
<1>6. Nested(stack', state') BY <1>4, <1>5, NestedState
<1> QED BY <1>2, <1>4, <1>6 DEF StackOK

LEMMA Popped ==
  ASSUME TypeOK, Nested(stack, state), stack # <<>>, stack' = Below,
         Last(stack) = "connected" => Return,
         state' = "handshaked" => state = "handshaked"
  PROVE  StackOK
<1>1. stack \in Seq(Frame) BY DEF TypeOK
<1>2. /\ Below \in Seq(Frame) /\ Nested(Below, state)
      /\ HasClosed(Below) => HasClosed(stack)
      /\ Free(Below) /\ Last(stack) # "connected" => Free(stack)
  BY <1>1, FrontFacts, NestedFront DEF Below
<1>3. Nested(Below, state') BY <1>2, NestedState
<1>4. Top = Last(stack) BY DEF Top
<1> QED BY <1>2, <1>3, <1>4 DEF StackOK

LEMMA Pushed ==
  ASSUME TypeOK, Nested(stack, state), stack' = stack \/ stack' = Append(stack, "told"),
         state' = "handshaked" => state = "handshaked"
  PROVE  StackOK
<1>1. stack \in Seq(Frame) BY DEF TypeOK
<1>2. Nested(stack, state') BY NestedState
<1>3. CASE stack' = stack BY <1>1, <1>2, <1>3 DEF StackOK
<1>4. CASE stack' = Append(stack, "told")
  <2>1. "told" \in Frame /\ "told" \in Above BY DEF Frame, ProgramFrames, Above
  <2>2. /\ stack' \in Seq(Frame) /\ Nested(stack', state')
        /\ Free(stack') <=> Free(stack)
        /\ HasClosed(stack') => HasClosed(stack)
    BY <1>1, <1>2, <1>4, <2>1, NestedPush
  <2> QED BY <2>2 DEF StackOK
<1> QED BY <1>3, <1>4

LEMMA Begun ==
  ASSUME TypeOK, stack = <<>>, NEW f \in Frame, f # "connected",
         f = "closed" => ParentClosed, stack' = <<f>>
  PROVE  StackOK
<1>1. /\ stack' \in Seq(Frame) /\ Nested(stack', state')
      /\ f # "closed" => ~HasClosed(stack')
  BY NestedOne
<1>2. Free(stack) BY DEF Free
<1> QED BY <1>1, <1>2 DEF StackOK

(* disconnect() in a callback of the program: TLS is shut down by then.    *)
LEMMA Disconnecting ==
  ASSUME TypeOK, Nested(stack, state), state' = "closing",
         stack' = stack \o <<"disconnected", "tls">>
  PROVE  StackOK
<1>1. stack \in Seq(Frame) BY DEF TypeOK
<1>2. /\ "disconnected" \in Frame /\ "tls" \in Frame
      /\ "disconnected" \in Above /\ "tls" \in Above
  BY DEF Frame, Above
<1> DEFINE s == Append(stack, "disconnected")
<1>3. Nested(stack, state') BY NestedState
<1>4. /\ s \in Seq(Frame) /\ Nested(s, state') /\ (Free(s) <=> Free(stack))
      /\ HasClosed(s) => HasClosed(stack)
  BY <1>1, <1>2, <1>3, NestedPush
<1> HIDE DEF s
<1>5. /\ Append(s, "tls") \in Seq(Frame) /\ Nested(Append(s, "tls"), state')
      /\ Free(Append(s, "tls")) <=> Free(s)
      /\ HasClosed(Append(s, "tls")) => HasClosed(s)
  BY <1>2, <1>4, NestedPush
<1>6. stack' = Append(s, "tls") BY <1>1 DEF s
<1> QED BY <1>4, <1>5, <1>6 DEF StackOK

LEMMA ProgramStack ==
  ASSUME TypeOK, Nested(stack, state), ProgramStep
  PROVE  StackOK
<1>1. ASSUME NEW cb \in Callbacks, Connect(cb) PROVE StackOK
  <2>1. stack' = stack \/ stack' = Append(stack, "told") BY <1>1 DEF Connect
  <2>2. state' = state BY <1>1 DEF Connect, engineVars
  <2> QED BY <2>1, <2>2, Pushed
<1>2. ASSUME NEW n \in WriteSize, Write(n) PROVE StackOK
  <2>1. stack' = stack \/ stack' = Append(stack, "told")
    BY <1>2 DEF Write, ParentWrite
  <2>2. state' = state \/ state' = "error" BY <1>2 DEF Write, Wrap, WrapFails
  <2> QED BY <2>1, <2>2, Pushed
<1>3. CASE SetSocketOutboundBuffer \/ Read \/ CancelRead \/ Close \/ CloseTheParent
  <2>1. stack' = stack /\ state' = state
    BY <1>3 DEF SetSocketOutboundBuffer, Read, CancelRead, Close, CloseTheParent,
       engineVars
  <2> QED BY <2>1, Pushed
<1>4. CASE Disconnect
  <2>1. CASE Shutdown /\ stack' = stack \o <<"disconnected", "tls">>
    BY <2>1, Disconnecting DEF Shutdown
  <2>2. CASE ShutdownFails /\ stack' = Append(stack, "told")
    <3>1. state' = "handshaked" => state = "handshaked" BY <2>2, EngineStep
    <3> QED BY <2>2, <3>1, Pushed
  <2> QED BY <1>4, <2>1, <2>2 DEF Disconnect
<1> QED BY <1>1, <1>2, <1>3, <1>4 DEF ProgramStep

LEMMA TlsStack ==
  ASSUME TypeOK, Nested(stack, state), TlsProcess
  PROVE  StackOK
<1>1. stack # <<>> /\ Last(stack) = "tls" /\ stack \in Seq(Frame)
  BY TopFacts DEF TlsProcess
<1>2. "tls" \in Frame /\ "tls" \in Above /\ "tls" \notin {"connected", "closed"}
      /\ "connected" \in Frame
  BY DEF Frame, Above, ProgramFrames
<1>3. ASSUME stack' = Below, state' = state PROVE StackOK
  BY <1>1, <1>3, Popped
<1>4. CASE TlsFlush
  <2>1. state' = state BY <1>4 DEF TlsFlush, Wrap
  <2>2. stack' = Below \/ stack' = Append(Below, "tls")
    BY <1>4 DEF TlsFlush, ParentWrite
  <2>3. CASE stack' = Append(Below, "tls")
    BY <1>1, <1>2, <2>1, <2>3, Replaced
  <2> QED BY <1>3, <2>1, <2>2, <2>3
<1>5. CASE TlsWait \/ TlsClosing
  BY <1>3, <1>5 DEF TlsWait, TlsClosing, engineVars
<1>6. CASE TlsFinished
  <2>1. state' = state /\ state = "handshaked"
    BY <1>6 DEF TlsFinished, GetHandshakeStatus, engineVars
  <2>2. stack' = Below \/ stack' = Append(Below, "connected")
    BY <1>6 DEF TlsFinished
  <2>3. CASE stack' = Append(Below, "connected")
    <3>1. /\ Below \in Seq(Frame) /\ Nested(Below, state) /\ Free(Below)
          /\ HasClosed(Below) => HasClosed(stack)
      BY <1>1, <2>1, FrontFacts, NestedFront DEF Below
    <3>2. /\ stack' \in Seq(Frame) /\ Nested(stack', state) /\ ~Free(stack')
          /\ HasClosed(stack') => HasClosed(Below)
      BY <1>2, <2>3, <3>1, NestedPush
    <3> QED BY <2>1, <3>1, <3>2 DEF StackOK
  <2> QED BY <1>3, <2>1, <2>2, <2>3
<1> QED BY <1>4, <1>5, <1>6 DEF TlsProcess

LEMMA OwnStack ==
  ASSUME TypeOK, Nested(stack, state), OwnStep
  PROVE  StackOK
<1>1. /\ {"tls", "told", "unwrap", "handshake", "sslRead"} \subseteq Frame
      /\ "told" \in Above
      /\ \A f \in {"unwrap", "handshake", "sslRead", "emitMore", "emitLast"} :
           f \notin Above /\ f # "connected" /\ f # "none"
  BY DEF Frame, Above, ProgramFrames
<1>2. ASSUME NEW f \in {"unwrap", "handshake", "sslRead", "emitMore", "emitLast"},
             Top = f, NEW g \in {"tls", "unwrap", "handshake", "sslRead"} ,
             stack' = Append(Below, g)
      PROVE  StackOK
  <2>1. stack # <<>> /\ Last(stack) = f BY <1>1, <1>2, TopFacts
  <2> QED BY <1>1, <1>2, <2>1, Replaced
<1>3. CASE TlsProcess BY <1>3, TlsStack
<1>4. CASE EmitDisconnect
  <2>1. stack # <<>> /\ Last(stack) = "disconnected" BY <1>4, TopFacts DEF EmitDisconnect
  <2>2. state' = state /\ stack' = Append(Below, "told")
    BY <1>4 DEF EmitDisconnect, engineVars
  <2> QED BY <1>1, <2>1, <2>2, Replaced
<1>5. CASE Return
  <2>1. stack # <<>> /\ state' = state BY <1>5 DEF Return, Top, ProgramFrames, engineVars
  <2>2. CASE Top = "emitLast"
    BY <1>2, <1>5, <2>2 DEF Return, Resume, LoopEnds
  <2>3. CASE Top = "emitMore"
    BY <1>2, <1>5, <2>3 DEF Return, Resume
  <2>4. CASE Top \notin {"emitLast", "emitMore"}
    <3>1. stack' = Below BY <1>5, <2>4 DEF Return, Resume
    <3> QED BY <1>5, <2>1, <3>1, Popped
  <2> QED BY <2>2, <2>3, <2>4
<1>6. CASE Unwrap
  <2>1. Top = "unwrap" BY <1>6 DEF Unwrap
  <2>2. \E g \in {"tls", "sslRead", "handshake"} : stack' = Append(Below, g)
    BY <1>6 DEF Unwrap, LoopEnds
  <2> QED BY <1>2, <2>1, <2>2
<1>7. CASE UnwrapHandshake
  <2>1. Top = "handshake" BY <1>7 DEF UnwrapHandshake
  <2>2. \E g \in {"tls", "sslRead"} : stack' = Append(Below, g)
    BY <1>7 DEF UnwrapHandshake, LoopEnds
  <2> QED BY <1>2, <2>1, <2>2
<1>8. CASE UnwrapRead
  <2>1. Top = "sslRead" BY <1>8 DEF UnwrapRead
  <2>2. \/ stack' = Append(Below, "tls")
        \/ stack' = Append(Below, IF plain' > 0 THEN "emitMore" ELSE "emitLast")
    BY <1>8 DEF UnwrapRead, LoopEnds
  <2>3. CASE stack' = Append(Below, "tls") BY <1>2, <2>1, <2>3
  <2>4. ASSUME NEW g \in {"emitMore", "emitLast"}, stack' = Append(Below, g)
        PROVE  StackOK
    <3>1. stack # <<>> /\ Last(stack) = "sslRead" BY <1>1, <2>1, TopFacts
    <3>2. g \in Frame /\ g \notin {"connected", "closed"} /\ g # "tls"
      BY DEF Frame, ProgramFrames
    <3> QED BY <1>1, <2>4, <3>1, <3>2, Replaced
  <2> QED BY <2>2, <2>3, <2>4
<1> QED BY <1>3, <1>4, <1>5, <1>6, <1>7, <1>8 DEF OwnStep

LEMMA StackStep ==
  ASSUME IInv, [Next]_vars
  PROVE  StackOK
<1>0. TypeOK /\ Nested(stack, state) /\ LifeInv BY DEF IInv, ConnectInv
<1>1. {"tls", "told", "unwrap", "closed"} \subseteq Frame
  BY DEF Frame, ProgramFrames
<1>2. CASE ParentInit
  <2>1. stack = <<>> /\ stack' = <<"told">> BY <1>0, <1>2 DEF ParentInit, LifeInv
  <2> QED BY <1>0, <1>1, <2>1, Begun
<1>3. CASE ParentWriteDone
  <2>1. stack = <<>> /\ writes # <<>> /\ stack' = <<Head(writes).by>>
    BY <1>3 DEF ParentWriteDone
  <2>2. Head(writes) \in ParentWrites
    BY <1>0, <2>1, HeadTailProperties DEF TypeOK
  <2>3. Head(writes).by \in {"tls", "told"} BY <2>2 DEF ParentWrites
  <2> QED BY <1>0, <1>1, <2>1, <2>3, Begun
<1>4. CASE ParentClosed
  <2>1. stack = <<>> /\ stack' = <<"closed">> BY <1>4 DEF ParentClosed
  <2> QED BY <1>0, <1>1, <1>4, <2>1, Begun
<1>5. ASSUME NEW ok \in BOOLEAN, ParentConnected(ok) PROVE StackOK
  <2>1. stack = <<>> /\ (stack' = <<"tls">> \/ stack' = <<"told">>)
    BY <1>5 DEF ParentConnected
  <2> QED BY <1>0, <1>1, <2>1, Begun
<1>6. ASSUME NEW k \in 0..MaxCoalesced, ParentRead(k) PROVE StackOK
  <2>1. stack = <<>> /\ stack' = <<"unwrap">> BY <1>6 DEF ParentRead
  <2> QED BY <1>0, <1>1, <2>1, Begun
<1>7. CASE ParentEnds \/ (\E rec \in Record : PeerSends(rec)) \/ UNCHANGED vars
  <2>1. stack' = stack /\ state' = state
    BY <1>7 DEF ParentEnds, PeerSends, vars, engineVars
  <2> QED BY <1>0, <2>1, Pushed
<1>8. CASE ProgramStep BY <1>0, <1>8, ProgramStack
<1>9. CASE OwnStep BY <1>0, <1>9, OwnStack
<1> QED BY <1>2, <1>3, <1>4, <1>5, <1>6, <1>7, <1>8, <1>9 DEF Next, ParentStep

-----------------------------------------------------------------------------
(* The engine, the buffers and the parent's writes.                        *)
LEMMA OutStep ==
  ASSUME TypeOK, [Next]_vars
  PROVE  /\ EngineTypes' /\ outBuffer' \in Seq(Nat) /\ writes' \in Seq(ParentWrites)
         /\ \/ writes' = writes
            \/ parent = "open" /\ Len(writes') = Len(writes) + 1
                /\ UNCHANGED <<parent, tcp, attached>>
            \/ writes # <<>> /\ writes' = Tail(writes)
                /\ UNCHANGED <<parent, tcp, attached>>
<1>0. EngineTypes /\ outBuffer \in Seq(Nat) /\ writes \in Seq(ParentWrites)
  BY DEF EngineTypes, TypeOK
<1> DEFINE Goal == /\ EngineTypes' /\ outBuffer' \in Seq(Nat)
                   /\ writes' \in Seq(ParentWrites)
                   /\ \/ writes' = writes
                      \/ parent = "open" /\ Len(writes') = Len(writes) + 1
                          /\ UNCHANGED <<parent, tcp, attached>>
                      \/ writes # <<>> /\ writes' = Tail(writes)
                          /\ UNCHANGED <<parent, tcp, attached>>
<1>1. ASSUME UNCHANGED <<outBuffer, writes>>,
             \/ BeginHandshake \/ WrapFails \/ BioWrite(input) \/ BioWriteFails
             \/ SslReadData \/ SslReadNone \/ Shutdown \/ ShutdownFails
             \/ UNCHANGED engineVars
      PROVE  Goal
  BY <1>0, <1>1, EngineStep
<1>2. CASE \/ ParentInit \/ ParentEnds \/ ParentClosed \/ Read \/ CancelRead
           \/ Disconnect \/ EmitDisconnect \/ Close \/ CloseTheParent
           \/ (\E cb \in Callbacks : Connect(cb))
           \/ (\E ok \in BOOLEAN : ParentConnected(ok))
           \/ (\E k \in 0..MaxCoalesced : ParentRead(k))
           \/ (\E rec \in Record : PeerSends(rec))
           \/ Return \/ Unwrap \/ UnwrapRead \/ UNCHANGED vars
  <2>1. UNCHANGED <<outBuffer, writes>>
    BY <1>2, Zenon DEF ParentInit, ParentEnds, ParentClosed, Read, CancelRead,
       Disconnect, EmitDisconnect, Close, CloseTheParent, Connect, ParentConnected,
       ParentRead, PeerSends, Return, Unwrap, UnwrapRead, vars, outVars
  <2>2. \/ BeginHandshake \/ WrapFails \/ BioWrite(input) \/ BioWriteFails
        \/ SslReadData \/ SslReadNone \/ Shutdown \/ ShutdownFails
        \/ UNCHANGED engineVars
    BY <1>2, Zenon DEF ParentInit, ParentEnds, ParentClosed, Read, CancelRead,
       Disconnect, EmitDisconnect, Close, CloseTheParent, Connect, ParentConnected,
       ParentRead, PeerSends, Return, Unwrap, UnwrapRead, vars
  <2> QED BY <1>1, <2>1, <2>2
<1>3. CASE UnwrapHandshake
  <2>1. UNCHANGED <<outBuffer, writes>> BY <1>3 DEF UnwrapHandshake, outVars
  <2>2. EngineTypes' BY <1>3, HandshakeType DEF UnwrapHandshake
  <2> QED BY <1>0, <2>1, <2>2
<1>4. CASE SetSocketOutboundBuffer
  <2>1. outBuffer' = <<>> /\ writes' = writes /\ UNCHANGED engineVars
    BY <1>4 DEF SetSocketOutboundBuffer
  <2>2. EngineTypes' BY <2>1, EngineStep
  <2> QED BY <1>0, <2>1, <2>2
<1>5. ASSUME outBuffer' \in Seq(Nat), EngineTypes', UNCHANGED parentVars,
             NEW by \in {"tls", "told"}, NEW base, ParentWrite(by, base)
      PROVE  Goal
  <2>1. /\ writes' \in Seq(ParentWrites)
        /\ \/ parent = "open" /\ Len(writes') = Len(writes) + 1
           \/ writes' = writes
    BY <1>5, ParentWriteFacts
  <2> QED BY <1>5, <2>1 DEF parentVars
<1>6. ASSUME NEW n \in WriteSize, Write(n) PROVE Goal
  <2>1. n \in Nat BY BoundsAssumption
  <2>2. ParentWrite("told", stack) /\ UNCHANGED parentVars BY <1>6 DEF Write
  <2>3. CASE Wrap(n) /\ outBuffer' = Wrapped(n)
    BY <1>5, <2>1, <2>2, <2>3, WrapType
  <2>4. CASE WrapFails /\ outBuffer' = StaleOutput
    <3>1. StaleOutput \in [1..OutCap -> Nat] /\ OutCap \in Nat
      BY CapAssumption DEF StaleOutput
    <3>2. StaleOutput \in Seq(Nat) BY <3>1
    <3>3. EngineTypes' BY <2>4, EngineStep
    <3> QED BY <1>5, <2>2, <2>4, <3>2, <3>3
  <2> QED BY <1>6, <2>3, <2>4 DEF Write
<1>7. CASE TlsProcess
  <2>1. CASE TlsFlush
    <3>1. Wrap(0) /\ outBuffer' = Wrapped(0) /\ ParentWrite("tls", Below)
          /\ UNCHANGED parentVars
      BY <2>1 DEF TlsFlush
    <3> QED BY <1>5, <3>1, WrapType
  <2>2. CASE TlsWait \/ TlsFinished \/ TlsClosing
    BY <1>1, <2>2 DEF TlsWait, TlsFinished, TlsClosing, outVars
  <2> QED BY <1>7, <2>1, <2>2 DEF TlsProcess
<1>8. CASE ParentWriteDone
  <2>1. writes # <<>> /\ writes' = Tail(writes) /\ outBuffer' = outBuffer
        /\ UNCHANGED engineVars /\ UNCHANGED parentVars
    BY <1>8 DEF ParentWriteDone
  <2>2. writes' \in Seq(ParentWrites) BY <1>0, <2>1, HeadTailProperties
  <2>3. EngineTypes' BY <2>1, EngineStep
  <2> QED BY <1>0, <2>1, <2>2, <2>3 DEF parentVars
<1> QED BY <1>2, <1>3, <1>4, <1>6, <1>7, <1>8, Zenon
        DEF Next, ProgramStep, OwnStep, ParentStep

(* How the parent's life, its connection and the listeners change.         *)
ParentChange ==
  \/ UNCHANGED <<parent, tcp, attached>>
  \/ parent = "zeroed" /\ parent' = "open" /\ UNCHANGED <<tcp, attached>>
  \/ parent = "open" /\ parent' = "closing" /\ UNCHANGED <<tcp, attached>>
  \/ /\ parent = "closing" /\ tcp # "connecting" /\ writes = <<>>
     /\ parent' = "closed" /\ UNCHANGED <<tcp, attached>>
  \/ /\ tcp = "none" /\ parent = "open" /\ tcp' \in {"connecting", "failed"}
     /\ UNCHANGED <<parent, attached>>
  \/ /\ tcp = "connecting" /\ tcp' \in {"up", "failed"}
     /\ UNCHANGED <<parent, attached>>
  \/ tcp = "up" /\ tcp' = "ended" /\ UNCHANGED <<parent, attached>>
  \/ Top = "closed" /\ attached' = FALSE /\ UNCHANGED <<parent, tcp>>

LEMMA ParentSteps ==
  ASSUME TypeOK, [Next]_vars
  PROVE  ParentChange
<1>1. ASSUME NEW cb \in Callbacks, Connect(cb) PROVE ParentChange
  BY <1>1 DEF Connect, ParentChange
<1>2. ASSUME NEW n \in WriteSize, Write(n) PROVE ParentChange
  BY <1>2 DEF Write, parentVars, ParentChange
<1>3. CASE SetSocketOutboundBuffer \/ Read \/ CancelRead \/ Disconnect
  BY <1>3 DEF SetSocketOutboundBuffer, Read, CancelRead, Disconnect, parentVars,
     ParentChange
<1>4. CASE Close \/ CloseTheParent
  BY <1>4 DEF Close, CloseTheParent, CloseImpl, CloseParent, ParentChange
<1>5. CASE TlsProcess
  BY <1>5 DEF TlsProcess, TlsFlush, TlsWait, TlsFinished, TlsClosing, CloseImpl,
     CloseParent, parentVars, ParentChange
<1>6. CASE EmitDisconnect \/ Unwrap \/ UnwrapHandshake \/ UnwrapRead
  BY <1>6 DEF EmitDisconnect, Unwrap, UnwrapHandshake, UnwrapRead, parentVars,
     ParentChange
<1>7. CASE Return
  <2>1. UNCHANGED <<parent, tcp>> /\ attached' = (attached /\ Top # "closed")
    BY <1>7 DEF Return
  <2>2. CASE Top = "closed" BY <2>1, <2>2 DEF ParentChange
  <2>3. CASE Top # "closed"
    <3>1. attached' = attached BY <2>1, <2>3, Zenon DEF TypeOK
    <3> QED BY <2>1, <3>1 DEF ParentChange
  <2> QED BY <2>2, <2>3
<1>8. CASE ParentInit \/ ParentWriteDone \/ ParentClosed
  BY <1>8 DEF ParentInit, ParentWriteDone, ParentClosed, parentVars, ParentChange
<1>9. ASSUME NEW ok \in BOOLEAN, ParentConnected(ok) PROVE ParentChange
  BY <1>9 DEF ParentConnected, ParentChange
<1>10. CASE \/ ParentEnds \/ (\E k \in 0..MaxCoalesced : ParentRead(k))
            \/ (\E rec \in Record : PeerSends(rec)) \/ UNCHANGED vars
  BY <1>10 DEF ParentEnds, ParentRead, PeerSends, parentVars, vars, ParentChange
<1> QED BY <1>1, <1>2, <1>3, <1>4, <1>5, <1>6, <1>7, <1>8, <1>9, <1>10, Zenon
        DEF Next, ProgramStep, OwnStep, ParentStep

(* How connect_event_ and the reports to the program change.               *)
ConnectChange ==
  \/ UNCHANGED <<connects, connectCb, given>>
     /\ (tcp' \in {"none", "connecting"} => tcp \in {"none", "connecting"})
  \/ /\ tcp = "none" /\ given' \in BOOLEAN /\ connectCb' = connectCb
     /\ \/ tcp' = "connecting" /\ connects' = connects
        \/ tcp' = "failed" /\ connects' = connects + 1
  \/ /\ tcp = "connecting" /\ given' = given
     /\ \/ tcp' = "up" /\ connectCb' = given /\ connects' = connects
        \/ tcp' = "failed" /\ connectCb' = connectCb /\ connects' = connects + 1
  \/ /\ Top = "tls" /\ state = "handshaked" /\ connectCb
     /\ stack' = Append(Below, "connected")
     /\ connects' = connects + 1 /\ UNCHANGED <<connectCb, given, tcp>>
  \/ /\ Top = "connected" /\ connectCb' = FALSE
     /\ UNCHANGED <<connects, given, tcp>>

LEMMA ConnectSteps ==
  ASSUME TypeOK, [Next]_vars
  PROVE  ConnectChange
<1>1. ASSUME NEW cb \in Callbacks, Connect(cb) PROVE ConnectChange
  <2>1. cb \in BOOLEAN BY UseAssumption
  <2>2. /\ tcp = "none" /\ given' = cb /\ connectCb' = connectCb
        /\ \/ tcp' = "connecting" /\ connects' = connects
           \/ tcp' = "failed" /\ connects' = connects + 1
    BY <1>1, Zenon DEF Connect
  <2> QED BY <2>1, <2>2, Zenon DEF ConnectChange
<1>2. ASSUME UNCHANGED <<connects, connectCb, given, tcp>> PROVE ConnectChange
  BY <1>2, Zenon DEF ConnectChange
<1>3. ASSUME NEW n \in WriteSize, Write(n) PROVE ConnectChange
  BY <1>2, <1>3, Zenon DEF Write, parentVars, flagVars, toldVars
<1>4. CASE SetSocketOutboundBuffer \/ Read \/ CancelRead \/ Disconnect
  BY <1>2, <1>4, Zenon DEF SetSocketOutboundBuffer, Read, CancelRead, Disconnect,
     parentVars, flagVars, moreVars, toldVars
<1>5. CASE Close \/ CloseTheParent
  BY <1>2, <1>5, Zenon DEF Close, CloseTheParent, CloseImpl, flagVars, moreVars, toldVars
<1>6. CASE TlsProcess
  <2>1. CASE TlsFlush \/ TlsWait \/ TlsClosing
    BY <1>2, <2>1, Zenon DEF TlsFlush, TlsWait, TlsClosing, CloseImpl, parentVars,
       flagVars
  <2>2. CASE TlsFinished
    <3>1. state = "handshaked" BY <2>2 DEF TlsFinished, GetHandshakeStatus
    <3>2. UNCHANGED <<connectCb, given, tcp>> BY <2>2 DEF TlsFinished, parentVars
    <3>3. CASE connectCb
      BY <1>6, <2>2, <3>1, <3>2, <3>3, Zenon DEF TlsProcess, TlsFinished, ConnectChange
    <3>4. CASE ~connectCb
      BY <1>2, <2>2, <3>2, <3>4, Zenon DEF TlsFinished
    <3> QED BY <3>3, <3>4
  <2> QED BY <1>6, <2>1, <2>2 DEF TlsProcess
<1>7. CASE EmitDisconnect \/ Unwrap \/ UnwrapHandshake \/ UnwrapRead
  BY <1>2, <1>7, Zenon DEF EmitDisconnect, Unwrap, UnwrapHandshake, UnwrapRead,
     parentVars, flagVars, moreVars, toldVars
<1>8. CASE Return
  <2>1. UNCHANGED <<connects, given, tcp>>
        /\ connectCb' = (connectCb /\ Top # "connected")
    BY <1>8 DEF Return, moreVars, toldVars
  <2>2. CASE Top = "connected"
    <3>1. connectCb' = FALSE BY <2>1, <2>2
    <3> QED BY <2>1, <2>2, <3>1, Zenon DEF ConnectChange
  <2>3. CASE Top # "connected"
    <3>1. connectCb' = connectCb BY <2>1, <2>3, Zenon DEF TypeOK
    <3> QED BY <1>2, <2>1, <3>1
  <2> QED BY <2>2, <2>3
<1>9. CASE ParentInit \/ ParentWriteDone \/ ParentClosed
  BY <1>2, <1>9, Zenon DEF ParentInit, ParentWriteDone, ParentClosed, parentVars,
     flagVars, moreVars, toldVars
<1>10. ASSUME NEW ok \in BOOLEAN, ParentConnected(ok) PROVE ConnectChange
  <2>1. CASE ok
    BY <1>10, <2>1, Zenon DEF ParentConnected, ConnectChange
  <2>2. CASE ~ok
    BY <1>10, <2>2, Zenon DEF ParentConnected, ConnectChange
  <2> QED BY <2>1, <2>2
<1>11. CASE ParentEnds
  <2>1. UNCHANGED <<connects, connectCb, given>> /\ tcp' = "ended"
    BY <1>11 DEF ParentEnds, flagVars, moreVars, toldVars
  <2> QED BY <2>1 DEF ConnectChange
<1>12. CASE \/ (\E k \in 0..MaxCoalesced : ParentRead(k))
            \/ (\E rec \in Record : PeerSends(rec)) \/ UNCHANGED vars
  BY <1>2, <1>12, Zenon DEF ParentRead, PeerSends, parentVars, flagVars, moreVars,
     toldVars, vars
<1> QED BY <1>1, <1>3, <1>4, <1>5, <1>6, <1>7, <1>8, <1>9, <1>10, <1>11, <1>12, Zenon
        DEF Next, ProgramStep, OwnStep, ParentStep

-----------------------------------------------------------------------------
LEMMA TypeStep ==
  ASSUME IInv, [Next]_vars
  PROVE  TypeOK'
<1>0. TypeOK BY DEF IInv
<1>1. stack' \in Seq(Frame) BY StackStep DEF StackOK
<1>2. EngineTypes' /\ outBuffer' \in Seq(Nat) /\ writes' \in Seq(ParentWrites)
  BY <1>0, OutStep
<1>3. /\ parent' \in {"zeroed", "open", "closing", "closed"}
      /\ tcp' \in {"none", "connecting", "failed", "up", "ended"}
  BY <1>0, ParentSteps DEF TypeOK, ParentChange
<1>4. attached' \in BOOLEAN
  BY <1>0, ParentSteps, Zenon DEF TypeOK, ParentChange
<1>5. given' \in BOOLEAN /\ connectCb' \in BOOLEAN
  BY <1>0, ConnectSteps, Zenon DEF TypeOK, ConnectChange
<1>6. connects' \in Nat
  <2>1. connects' = connects \/ connects' = connects + 1
    BY <1>0, ConnectSteps, Zenon DEF ConnectChange
  <2> QED BY <1>0, <2>1 DEF TypeOK
<1> QED BY <1>1, <1>2, <1>3, <1>4, <1>5, <1>6, Zenon DEF TypeOK, EngineTypes

LEMMA ConnectStep ==
  ASSUME IInv, [Next]_vars
  PROVE  ConnectInv'
<1>0. TypeOK /\ ConnectInv /\ LifeInv /\ connects \in Nat BY DEF IInv, TypeOK
<1>1. Nested(stack', state')
      /\ (Free(stack') => Free(stack) \/ (Return /\ Top = "connected"))
  BY StackStep DEF StackOK
<1>2. ConnectChange BY <1>0, ConnectSteps
<1>3. ASSUME /\ connectCb' /\ Free(stack') => connects' = 0
             /\ tcp' \in {"none", "connecting"} => connects' = 0 /\ ~connectCb'
             /\ connects' <= 1
      PROVE  ConnectInv'
  BY <1>1, <1>3 DEF ConnectInv, ConnectOnce
<1>4. /\ connectCb /\ Free(stack) => connects = 0
      /\ tcp \in {"none", "connecting"} => connects = 0 /\ ~connectCb
      /\ connects <= 1
  BY <1>0 DEF ConnectInv, ConnectOnce
<1>5. CASE /\ UNCHANGED <<connects, connectCb, given>>
           /\ (tcp' \in {"none", "connecting"} => tcp \in {"none", "connecting"})
  <2>1. ASSUME connectCb', Free(stack') PROVE connects' = 0
    <3>1. CASE Free(stack) BY <1>4, <1>5, <2>1, <3>1
    <3>2. CASE Return /\ Top = "connected"
      <4>1. connectCb' = FALSE BY <3>2 DEF Return
      <4> QED BY <2>1, <4>1
    <3> QED BY <1>1, <2>1, <3>1, <3>2
  <2> QED BY <1>3, <1>4, <1>5, <2>1
<1>6. CASE /\ tcp = "none" /\ given' \in BOOLEAN /\ connectCb' = connectCb
           /\ \/ tcp' = "connecting" /\ connects' = connects
              \/ tcp' = "failed" /\ connects' = connects + 1
  BY <1>3, <1>4, <1>6
<1>7. CASE /\ tcp = "connecting" /\ given' = given
           /\ \/ tcp' = "up" /\ connectCb' = given /\ connects' = connects
              \/ tcp' = "failed" /\ connectCb' = connectCb /\ connects' = connects + 1
  BY <1>3, <1>4, <1>7
<1>8. CASE /\ Top = "tls" /\ state = "handshaked" /\ connectCb
           /\ stack' = Append(Below, "connected")
           /\ connects' = connects + 1 /\ UNCHANGED <<connectCb, given, tcp>>
  <2>1. stack # <<>> /\ Last(stack) = "tls" /\ stack \in Seq(Frame)
    BY <1>0, <1>8, TopFacts
  <2>2. /\ Below \in Seq(Frame) /\ Nested(Below, state) /\ Free(Below)
        /\ Free(stack)
    BY <1>0, <1>8, <2>1, FrontFacts, NestedFront DEF Below, ConnectInv
  <2>3. connects = 0 BY <1>4, <1>8, <2>2
  <2>4. "connected" \in Frame BY DEF Frame, ProgramFrames
  <2>5. ~Free(stack') BY <1>8, <2>2, <2>4, NestedPush
  <2>6. tcp' \notin {"none", "connecting"} BY <1>4, <1>8
  <2> QED BY <1>3, <1>8, <2>3, <2>5, <2>6
<1>9. CASE /\ Top = "connected" /\ connectCb' = FALSE
           /\ UNCHANGED <<connects, given, tcp>>
  BY <1>3, <1>4, <1>9
<1> QED BY <1>2, <1>5, <1>6, <1>7, <1>8, <1>9, Zenon DEF ConnectChange

LEMMA ClosedFrame ==
  ASSUME TypeOK, LifeInv, Top = "closed"
  PROVE  parent = "closed"
<1>1. stack # <<>> /\ Last(stack) = "closed" /\ stack \in Seq(Frame)
  BY TopFacts
<1>2. Len(stack) \in Nat \ {0} /\ stack[Len(stack)] = "closed"
  BY <1>1, FrontFacts
<1>3. Len(stack) \in 1..Len(stack) BY <1>2
<1> QED BY <1>2, <1>3 DEF HasClosed, LifeInv

LEMMA LifeStep ==
  ASSUME IInv, [Next]_vars
  PROVE  LifeInv'
<1>0. TypeOK /\ LifeInv BY DEF IInv
<1>1. ParentChange BY <1>0, ParentSteps
<1>2. HasClosed(stack') => HasClosed(stack) \/ ParentClosed
  BY StackStep DEF StackOK
<1>3. \/ writes' = writes
      \/ parent = "open" /\ Len(writes') = Len(writes) + 1
          /\ UNCHANGED <<parent, tcp, attached>>
      \/ writes # <<>> /\ writes' = Tail(writes)
          /\ UNCHANGED <<parent, tcp, attached>>
  BY <1>0, OutStep
<1>4. Top = "closed" => parent = "closed" BY <1>0, ClosedFrame
<1>5. ~attached' => parent' = "closed"
  BY <1>0, <1>1, <1>4, Zenon DEF ParentChange, LifeInv
<1>6. tcp' = "connecting" \/ writes' # <<>> => parent' \in {"open", "closing"}
  <2>1. CASE writes' = writes
    BY <1>0, <1>1, <2>1 DEF ParentChange, LifeInv
  <2>2. CASE parent = "open" /\ UNCHANGED <<parent, tcp, attached>>
    BY <2>2
  <2>3. CASE writes # <<>> /\ UNCHANGED <<parent, tcp, attached>>
    BY <1>0, <2>3 DEF LifeInv
  <2> QED BY <1>3, <2>1, <2>2, <2>3
<1>7. HasClosed(stack') => parent' = "closed"
  <2>1. parent = "closed" => parent' = "closed" BY <1>1 DEF ParentChange
  <2> QED BY <1>0, <1>2, <2>1 DEF LifeInv, ParentClosed
<1>8. parent' = "zeroed" => stack' = <<>>
  <2> SUFFICES ASSUME parent' = "zeroed" PROVE stack' = <<>>
    OBVIOUS
  <2>1. parent = "zeroed" /\ stack = <<>> /\ writes = <<>> /\ tcp # "connecting"
    BY <1>0, <1>1 DEF ParentChange, LifeInv
  <2>2. Top = "none" BY <2>1 DEF Top
  <2>3. ~ProgramStep
    BY <2>1 DEF ProgramStep, Connect, Write, MayWrite, SetSocketOutboundBuffer, Read,
       CancelRead, Disconnect, Close, CloseTheParent, InProgram
  <2>4. ~OwnStep
    BY <2>2 DEF OwnStep, TlsProcess, EmitDisconnect, Return, Unwrap, UnwrapHandshake,
       UnwrapRead, ProgramFrames
  <2>5. ~ParentStep
    BY <2>1 DEF ParentStep, ParentInit, ParentWriteDone, ParentClosed, ParentConnected
  <2>6. \A k : ~ParentRead(k) BY <2>1 DEF ParentRead
  <2>7. stack' = stack
    BY <2>3, <2>4, <2>5, <2>6 DEF Next, ParentEnds, PeerSends, vars
  <2> QED BY <2>1, <2>7
<1> QED BY <1>5, <1>6, <1>7, <1>8 DEF LifeInv

-----------------------------------------------------------------------------
LEMMA InitIInv == Init => IInv
<1> SUFFICES ASSUME Init PROVE IInv OBVIOUS
<1>1. /\ state = "closed" /\ made = 0 /\ bioOut = <<>> /\ outBuffer = <<>>
      /\ parent = "zeroed" /\ tcp = "none" /\ attached = TRUE /\ given = FALSE
      /\ connectCb = FALSE /\ writes = <<>> /\ stack = <<>> /\ connects = 0
  BY DEF Init, EngineInit
<1>2. TypeOK
  <2>1. <<>> \in Seq(Nat) /\ <<>> \in Seq(ParentWrites) /\ <<>> \in Seq(Frame)
    OBVIOUS
  <2>2. made \in Nat /\ connects \in Nat BY <1>1
  <2> QED BY <1>1, <2>1, <2>2, Zenon DEF TypeOK
<1>3. Len(stack) = 0 BY <1>1
<1>4. Nested(stack, state) BY <1>3 DEF Nested
<1>5. ConnectInv BY <1>1, <1>4 DEF ConnectInv, ConnectOnce
<1>6. ~HasClosed(stack) BY <1>3 DEF HasClosed
<1>7. LifeInv BY <1>1, <1>6 DEF LifeInv
<1> QED BY <1>2, <1>5, <1>7 DEF IInv

(* The invariant, for every program and every peer.                        *)
THEOREM SslInvariant == Safety => []IInv
<1>1. IInv /\ [Next]_vars => IInv'
  BY TypeStep, ConnectStep, LifeStep DEF IInv
<1> QED BY <1>1, InitIInv, PTL DEF Safety

(* connect() is answered at most once, whatever a program calls from its   *)
(* callbacks: connect_event_ is cleared only after the callback returned,  *)
(* and tlsProcess never sees the handshake finished meanwhile.             *)
THEOREM ConnectReportedOnce == Safety => []ConnectOnce
<1>1. IInv => ConnectOnce BY DEF IInv, ConnectInv
<1> QED BY <1>1, SslInvariant, PTL

-----------------------------------------------------------------------------
(* What every program and peer can rely on: which code runs, and what that *)
(* says of the engine.                                                     *)

DataTypes ==
  /\ flights \in 0..PeerFlights /\ rejected \in BOOLEAN /\ shutSent \in BOOLEAN
  /\ bioIn \in Seq(Record) /\ input \in Seq(Record) /\ net \in Seq(Record)
  /\ peerSent \in [flights: Nat, others: Nat]
  /\ Len(bioIn) <= BioCap
  /\ plain \in Nat /\ wire \in Seq(Nat)
  /\ inbound \in BOOLEAN /\ handshaked \in BOOLEAN

(* What the loop called last: the outermost frame.                         *)
Base == IF stack = <<>> THEN "idle" ELSE stack[1]

(* The read loop's code runs only outermost; so does tlsProcess, unless    *)
(* disconnect() called it.                                                 *)
ShapeInv ==
  /\ \A i \in 2..Len(stack) :
       stack[i] \in Above /\ (stack[i] = "tls" => i = Len(stack) /\ state # "handshaked")
  /\ Base \in {"unwrap", "handshake", "sslRead", "tls"} => Len(stack) = 1

Up == tcp \in {"up", "ended"}
Reading == {"unwrap", "handshake", "sslRead", "emitMore", "emitLast"}

EngineInv ==
  /\ state = "handshaked" => InitFinished /\ ~rejected /\ ~shutSent
  /\ rejected => state = "error"
  /\ shutSent \/ handshaked => InitFinished
  /\ Base = "handshake" => ~InitFinished
  /\ Base \in {"sslRead", "emitMore", "emitLast", "connected"} => InitFinished
  /\ Base \in Reading => Up
  /\ input # <<>> => Base \in Reading

(* Before there is a connection there is nothing to send or to read.       *)
FreshInv ==
  /\ parent = "zeroed" => tcp = "none"
  /\ ~Up => /\ made = 0 /\ flights = 0 /\ bioOut = <<>> /\ wire = <<>>
            /\ writes = <<>> /\ bioIn = <<>> /\ net = <<>> /\ plain = 0
            /\ peerSent.flights = 0

SInv == DataTypes /\ ShapeInv /\ EngineInv /\ FreshInv

(* Nothing closes the parent while connect() awaits its handshake.         *)
AwaitInv ==
  /\ state = "closing" => shutSent
  /\ Handshaking => parent = "open" /\ state # "closing"

-----------------------------------------------------------------------------
(* connect() with a callback.                                              *)
AnswerInv ==
  /\ tcp # "none" => given
  /\ Up => connectCb \/ connects = 1
  /\ Base = "connected" \/ handshaked => connects = 1

(* While nobody reads before connect() is answered, the read loop goes     *)
(* from the end of the handshake straight to tlsProcess, which reports it. *)
ReportInv ==
  /\ inbound => connects = 1
  /\ Up /\ connects = 1 => handshaked
  /\ InitFinished /\ connects = 0 =>
       Base \in {"sslRead", "tls"} /\ state = "handshaked"

(* Until then each read of the parent finds the BIO empty.                 *)
EarlyInv ==
  /\ ~InitFinished => /\ Base # "handshake" => bioIn = <<>>
                      /\ Base # "unwrap" => input = <<>>
                      /\ Len(input) <= MaxCoalesced
  /\ InitFinished /\ connects = 0 => input = <<>>

-----------------------------------------------------------------------------
(* What the peer has sent and OpenSSL has not read is in bioIn, input and  *)
(* net, in this order.                                                     *)
AllFlights(s) == \A i \in 1..Len(s) : s[i] = "flight"
NoFlights(s) == \A i \in 1..Len(s) : s[i] # "flight"

Orderly(s) ==
  /\ \A i \in 1..Len(s) : s[i] # "bad" /\ (s[i] = "flight" => i = 1)
  /\ peerSent.flights < PeerFlights => AllFlights(s)
  /\ peerSent.flights = flights => NoFlights(s)

PipeInv ==
  /\ ~rejected
  /\ Orderly(bioIn) /\ Orderly(input) /\ Orderly(net)
  /\ bioIn # <<>> => NoFlights(input) /\ NoFlights(net)
  /\ input # <<>> => NoFlights(net)
  /\ ~InitFinished =>
       /\ bioIn # <<>> => bioIn[1] = "flight"
       /\ bioIn = <<>> /\ input # <<>> => input[1] = "flight"
       /\ bioIn = <<>> /\ input = <<>> /\ net # <<>> => net[1] = "flight"
       /\ tcp = "up" /\ peerSent.flights > flights =>
            ~(bioIn = <<>> /\ input = <<>> /\ net = <<>>)
  /\ Base = "handshake" /\ bioIn = <<>> => input = <<>>
  /\ flights <= peerSent.flights /\ peerSent.flights <= flights + 1
  /\ peerSent.flights <= PeerFlights

-----------------------------------------------------------------------------
Lag == IF Tls13 THEN 1 ELSE 0
CarefulWriter ==
  ~Pipelines /\ ~WritesLate /\ \A n \in WriteSize \cup {1} : n + Lag <= OutCap

Unsent == \E i \in 1..Len(writes) : ~writes[i].sent
InBuffer == IF Unsent THEN Len(outBuffer) ELSE 0

Counted ==
  /\ made = Len(wire) + InBuffer + Len(bioOut)
  /\ WireOrder
  /\ Unsent => /\ bioOut = <<>> /\ outBuffer # <<>>
               /\ \A i \in 1..Len(outBuffer) : outBuffer[i] = Len(wire) + i
  /\ \A i \in 1..Len(bioOut) : bioOut[i] = Len(wire) + InBuffer + i
  /\ \A i \in 1..Len(writes) : 
       ~writes[i].sent => i = Len(writes) /\ writes[i].len = Len(outBuffer)
  /\ Len(bioOut) <= OutCap

(* The peer has answered no flight it has not received, and sends other    *)
(* records only after the client's second.                                 *)
PeerBehind ==
  /\ peerSent.flights <= Len(wire)
  /\ (AllFlights(bioIn) /\ AllFlights(input) /\ AllFlights(net)) \/ Len(wire) >= 2

(* After the handshake only close_notify, which tlsProcess is about to     *)
(* send, or the last flight of TLS 1.3 stays in the BIO.                   *)
Leftover ==
  InitFinished /\ bioOut # <<>> =>
    IF shutSent THEN Top = "tls" /\ state = "closing"
    ELSE Tls13 /\ state = "handshaked" /\ Len(wire) = 1 /\ Len(bioOut) = 1

(* Until close_notify the buffer can be in use only by the program's write. *)
OnlyTold ==
  SslOpen => \A i \in 1..Len(writes) : ~writes[i].sent => writes[i].by = "told"

WireInv ==
  /\ ~InitFinished /\ Up => made = flights + 1
  /\ PeerBehind
  /\ parent = "open" /\ (CarefulWriter \/ ~InitFinished) => Counted
  /\ CarefulWriter => WireOrder
  /\ CarefulWriter /\ parent = "open" => Leftover /\ OnlyTold

-----------------------------------------------------------------------------
(* With TLS 1.2 a record in the BIO is one that tlsProcess is about to     *)
(* send, whatever the program and the peer do.                             *)
FlushInv == bioOut # <<>> => Top = "tls" /\ state # "handshaked" /\ Len(bioOut) = 1

-----------------------------------------------------------------------------
(* The outermost frame.                                                    *)
Other == {"idle", "tls", "disconnected", "connected", "told", "closed"}

(* The innermost frame and the outermost one.                              *)
LEMMA TopShape ==
  ASSUME TypeOK, ShapeInv
  PROVE  /\ Len(stack) \in Nat
         /\ stack = <<>> => Top = "none" /\ Base = "idle" /\ Len(stack) = 0
         /\ stack # <<>> => /\ Len(stack) > 0 /\ Top = stack[Len(stack)]
                            /\ Base = stack[1] /\ Base \in Frame
         /\ Len(stack) = 1 => Base = Top /\ stack # <<>>
         /\ stack # <<>> /\ Top \notin Above => Len(stack) = 1
         /\ Top = "tls" /\ state = "handshaked" => Len(stack) = 1
         /\ Base \in {"unwrap", "handshake", "sslRead", "tls"} => Len(stack) = 1
<1>0. stack \in Seq(Frame) BY DEF TypeOK
<1>1. Len(stack) \in Nat BY <1>0, LenProperties
<1>2. CASE stack = <<>>
  <2>1. Len(stack) = 0 /\ Top = "none" /\ Base = "idle" BY <1>2 DEF Top, Base
  <2>2. "idle" \notin {"unwrap", "handshake", "sslRead", "tls"} OBVIOUS
  <2> QED BY <1>1, <1>2, <2>1, <2>2
<1>3. CASE stack # <<>>
  <2>1. Len(stack) > 0 BY <1>0, <1>1, <1>3, EmptySeq
  <2>2. Top = stack[Len(stack)] /\ Base = stack[1] BY <1>3 DEF Top, Base, Last
  <2>3. Base \in Frame BY <1>0, <1>1, <2>1, <2>2
  <2>4. Len(stack) > 1 => /\ Top \in Above
                          /\ Top = "tls" => state # "handshaked"
    <3>1. Len(stack) > 1 => Len(stack) \in 2..Len(stack) BY <1>1
    <3> QED BY <2>2, <3>1 DEF ShapeInv
  <2>5. Len(stack) = 1 \/ Len(stack) > 1
    <3>1. \A n \in Nat : n > 0 => n = 1 \/ n > 1 OBVIOUS
    <3> QED BY <1>1, <2>1, <3>1, Zenon
  <2> QED BY <1>1, <1>3, <2>1, <2>2, <2>3, <2>4, <2>5 DEF ShapeInv
<1> QED BY <1>2, <1>3

(* The loop calls.                                                         *)
LEMMA Begins ==
  ASSUME NEW f \in Frame, stack' = <<f>>
  PROVE  ShapeInv' /\ Base' = f
<1>1. Len(stack') = 1 /\ stack'[1] = f /\ stack' # <<>> OBVIOUS
<1>2. Base' = f BY <1>1 DEF Base
<1>3. \A i \in 2..Len(stack') : FALSE BY <1>1
<1> QED BY <1>1, <1>2, <1>3 DEF ShapeInv

(* A frame is replaced, or left.                                           *)
LEMMA Replaces ==
  ASSUME TypeOK, ShapeInv, stack # <<>>, NEW g \in Frame, stack' = Append(Below, g),
         Len(stack) = 1 \/ (g \in Above /\ (g = "tls" => state' # "handshaked"))
  PROVE  ShapeInv' /\ Base' = IF Len(stack) = 1 THEN g ELSE Base
<1>1. /\ Len(stack) \in Nat \ {0} /\ Below \in Seq(Frame)
      /\ Len(Below) = Len(stack) - 1
      /\ \A i \in 1..Len(stack) - 1 : Below[i] = stack[i]
  BY FrontFacts DEF TypeOK, Below
<1>2. /\ Len(stack') = Len(stack) /\ stack' # <<>> /\ stack'[Len(stack)] = g
      /\ \A i \in 1..Len(stack) - 1 : stack'[i] = stack[i]
  BY <1>1, AppendProperties
<1>3. CASE Len(stack) = 1
  <2>1. Base' = g /\ Len(stack') = 1 BY <1>2, <1>3 DEF Base
  <2>2. \A i \in 2..Len(stack') : FALSE BY <2>1
  <2> QED BY <1>3, <2>1, <2>2 DEF ShapeInv
<1>4. CASE Len(stack) # 1
  <2>1. Base' = Base BY <1>1, <1>2, <1>4 DEF Base
  <2>2. Base \notin {"unwrap", "handshake", "sslRead", "tls"} BY <1>4 DEF ShapeInv
  <2>3. ASSUME NEW i \in 2..Len(stack')
        PROVE  stack'[i] \in Above
               /\ (stack'[i] = "tls" => i = Len(stack') /\ state' # "handshaked")
    <3>1. CASE i = Len(stack) BY <1>2, <1>4, <3>1
    <3>2. CASE i # Len(stack)
      <4>1. i \in 1..Len(stack) - 1 /\ i \in 2..Len(stack) BY <1>1, <1>2, <3>2
      <4>2. stack'[i] = stack[i] /\ stack[i] \in Above /\ stack[i] # "tls"
        BY <1>2, <3>2, <4>1 DEF ShapeInv
      <4> QED BY <4>2
    <3> QED BY <3>1, <3>2
  <2> QED BY <1>4, <2>1, <2>2, <2>3 DEF ShapeInv
<1> QED BY <1>3, <1>4

(* A frame returns.                                                        *)
LEMMA Leaves ==
  ASSUME TypeOK, ShapeInv, stack # <<>>, stack' = Below
  PROVE  ShapeInv' /\ Base' = IF Len(stack) = 1 THEN "idle" ELSE Base
<1>1. /\ Len(stack) \in Nat \ {0} /\ Below \in Seq(Frame)
      /\ Len(Below) = Len(stack) - 1
      /\ \A i \in 1..Len(stack) - 1 : Below[i] = stack[i]
  BY FrontFacts DEF TypeOK, Below
<1>2. CASE Len(stack) = 1
  <2>1. stack' = <<>> /\ Len(stack') = 0 BY <1>1, <1>2, EmptySeq
  <2>2. Base' = "idle" BY <2>1 DEF Base
  <2> QED BY <1>2, <2>1, <2>2 DEF ShapeInv
<1>3. CASE Len(stack) # 1
  <2>1. Base' = Base
    <3>1. stack' # <<>> BY <1>1, <1>3
    <3> QED BY <1>1, <1>3, <3>1 DEF Base
  <2>2. Base \notin {"unwrap", "handshake", "sslRead", "tls"} BY <1>3 DEF ShapeInv
  <2>3. ASSUME NEW i \in 2..Len(stack')
        PROVE  stack'[i] \in Above /\ stack'[i] # "tls"
    <3>1. i \in 1..Len(stack) - 1 /\ i \in 2..Len(stack) /\ i # Len(stack) BY <1>1
    <3> QED BY <1>1, <3>1 DEF ShapeInv
  <2> QED BY <1>3, <2>1, <2>2, <2>3 DEF ShapeInv
<1> QED BY <1>2, <1>3

(* The program calls: nothing of the socket's is running above it.         *)
LEMMA ProgramTop ==
  ASSUME TypeOK, ShapeInv, InProgram
  PROVE  /\ Top # "tls" /\ Base \notin {"unwrap", "handshake", "sslRead", "tls"}
         /\ \A i \in 2..Len(stack) : stack[i] \in Above /\ stack[i] # "tls"
         /\ Top = "connected" => Base = "connected"
<1>1. Top \notin {"unwrap", "handshake", "sslRead", "tls"}
  BY DEF InProgram, ProgramFrames
<1>2. Base \notin {"unwrap", "handshake", "sslRead", "tls"} BY <1>1, TopShape
<1>3. ASSUME NEW i \in 2..Len(stack)
      PROVE  stack[i] \in Above /\ stack[i] # "tls"
  <2>0. Len(stack) \in Nat /\ (stack = <<>> => Len(stack) = 0) BY TopShape
  <2>1. stack # <<>> BY <1>3, <2>0
  <2>2. Top = stack[Len(stack)] BY <2>1, TopShape
  <2> QED BY <1>1, <1>3, <2>0, <2>2 DEF ShapeInv
<1>4. Top = "connected" => Base = "connected"
  <2>1. "connected" \notin Above /\ "connected" # "none" BY DEF Above
  <2> QED BY <2>1, TopShape
<1> QED BY <1>1, <1>2, <1>3, <1>4

(* A call that leaves the stack alone, or reports at once.                 *)
LEMMA Called ==
  ASSUME TypeOK, ShapeInv, InProgram, stack' = stack \/ stack' = Append(stack, "told")
  PROVE  ShapeInv' /\ (Base' = Base \/ (Base = "idle" /\ Base' = "told"))
<1>1. /\ Base \notin {"unwrap", "handshake", "sslRead", "tls"}
      /\ \A i \in 2..Len(stack) : stack[i] \in Above /\ stack[i] # "tls"
      /\ Len(stack) \in Nat /\ (stack = <<>> => Base = "idle" /\ Len(stack) = 0)
      /\ stack # <<>> => Len(stack) > 0 /\ Base = stack[1]
  BY ProgramTop, TopShape
<1>2. CASE stack' = stack
  <2>1. Base' = Base BY <1>2 DEF Base
  <2> QED BY <1>1, <1>2, <2>1 DEF ShapeInv
<1>3. CASE stack' = Append(stack, "told")
  <2>1. /\ Len(stack') = Len(stack) + 1 /\ stack'[Len(stack) + 1] = "told"
        /\ stack' # <<>> /\ \A i \in 1..Len(stack) : stack'[i] = stack[i]
    <3>1. stack \in Seq(Frame) /\ "told" \in Frame BY DEF TypeOK, Frame, ProgramFrames
    <3>2. /\ Len(stack') = Len(stack) + 1 /\ stack'[Len(stack) + 1] = "told"
          /\ \A i \in 1..Len(stack) : stack'[i] = stack[i]
      BY <1>3, <3>1, AppendProperties
    <3>3. stack' # <<>> BY <1>1, <3>2
    <3> QED BY <3>2, <3>3
  <2>2. Base' = IF stack = <<>> THEN "told" ELSE Base BY <1>1, <2>1 DEF Base
  <2>3. ASSUME NEW i \in 2..Len(stack')
        PROVE  stack'[i] \in Above /\ stack'[i] # "tls"
    <3>1. CASE i = Len(stack) + 1 BY <2>1, <3>1 DEF Above
    <3>2. CASE i # Len(stack) + 1
      <4>1. i \in 2..Len(stack) /\ i \in 1..Len(stack) BY <1>1, <2>1, <3>2
      <4> QED BY <1>1, <2>1, <4>1
    <3> QED BY <3>1, <3>2
  <2>4. Base' \notin {"unwrap", "handshake", "sslRead", "tls"} BY <1>1, <2>2
  <2>5. ShapeInv' BY <2>3, <2>4 DEF ShapeInv
  <2> QED BY <1>1, <2>2, <2>5
<1> QED BY <1>2, <1>3

(* disconnect() calls tlsProcess.                                          *)
LEMMA Disconnects ==
  ASSUME TypeOK, ShapeInv, InProgram, state' = "closing",
         stack' = stack \o <<"disconnected", "tls">>
  PROVE  ShapeInv' /\ (Base' = Base \/ (Base = "idle" /\ Base' = "disconnected"))
         /\ Top' = "tls"
<1>1. /\ Base \notin {"unwrap", "handshake", "sslRead", "tls"}
      /\ \A i \in 2..Len(stack) : stack[i] \in Above /\ stack[i] # "tls"
      /\ Len(stack) \in Nat /\ (stack = <<>> => Base = "idle" /\ Len(stack) = 0)
      /\ stack # <<>> => Len(stack) > 0 /\ Base = stack[1]
  BY ProgramTop, TopShape
<1> DEFINE more == <<"disconnected", "tls">>
<1>2. more \in Seq(Frame) /\ Len(more) = 2 /\ more[1] = "disconnected" /\ more[2] = "tls"
  BY DEF Frame
<1>3. stack \in Seq(Frame) /\ stack' = stack \o more BY DEF TypeOK
<1> HIDE DEF more
<1>4. /\ Len(stack') = Len(stack) + 2 /\ stack' \in Seq(Frame)
      /\ \A i \in 1..Len(stack) + 2 :
           stack'[i] = IF i <= Len(stack) THEN stack[i] ELSE more[i - Len(stack)]
  BY <1>2, <1>3, ConcatProperties
<1>5. stack'[Len(stack) + 1] = "disconnected" /\ stack'[Len(stack) + 2] = "tls"
  BY <1>1, <1>2, <1>4
<1>6. \A i \in 1..Len(stack) : stack'[i] = stack[i] BY <1>1, <1>4
<1>7. stack' # <<>> BY <1>1, <1>4
<1>8. Base' = IF stack = <<>> THEN "disconnected" ELSE Base
  BY <1>1, <1>5, <1>6, <1>7 DEF Base
<1>9. ASSUME NEW i \in 2..Len(stack')
      PROVE  stack'[i] \in Above /\ (stack'[i] = "tls" => i = Len(stack'))
  <2>1. CASE i = Len(stack) + 1 BY <1>5, <2>1 DEF Above
  <2>2. CASE i = Len(stack) + 2 BY <1>4, <1>5, <2>2 DEF Above
  <2>3. CASE i \notin {Len(stack) + 1, Len(stack) + 2}
    <3>1. i \in 2..Len(stack) /\ i \in 1..Len(stack) BY <1>1, <1>4, <2>3
    <3> QED BY <1>1, <1>6, <3>1
  <2> QED BY <2>1, <2>2, <2>3
<1>10. Base' \notin {"unwrap", "handshake", "sslRead", "tls"} BY <1>1, <1>8
<1>11. ShapeInv' BY <1>9, <1>10 DEF ShapeInv
<1>12. Top' = "tls" BY <1>4, <1>5, <1>7 DEF Top, Last
<1> QED BY <1>1, <1>8, <1>11, <1>12

-----------------------------------------------------------------------------
(* Steps outside the read loop.                                            *)

(* A step that leaves alone what the peer sent: the outermost frame stays, *)
(* or neither the old nor the new one is of the read loop.                 *)
Aside ==
  /\ UNCHANGED <<flights, rejected, bioIn, plain, input, net, peerSent>>
  /\ ShapeInv'
  /\ Base' = Base \/ (Base \in Other /\ Base' \in Other)

Returns == Return /\ Top \notin {"emitMore", "emitLast"}

(* Calls of the program; the parent's answers.                             *)
LEMMA ProgramAside ==
  ASSUME TypeOK, ShapeInv, ProgramStep
  PROVE  Aside
<1>1. ASSUME InProgram, stack' = stack \/ stack' = Append(stack, "told"),
             UNCHANGED <<flights, rejected, bioIn, plain, input, net, peerSent>>
      PROVE  Aside
  BY <1>1, Called DEF Aside, Other
<1>2. ASSUME NEW cb \in Callbacks, Connect(cb) PROVE Aside
  BY <1>1, <1>2 DEF Connect, engineVars, peerVars
<1>3. ASSUME NEW n \in WriteSize, Write(n) PROVE Aside
  <2>1. InProgram /\ (stack' = stack \/ stack' = Append(stack, "told"))
    BY <1>3 DEF Write, MayWrite, ParentWrite
  <2>2. UNCHANGED <<flights, rejected, bioIn, plain, input, net, peerSent>>
    BY <1>3 DEF Write, Wrap, WrapFails, peerVars
  <2> QED BY <1>1, <2>1, <2>2
<1>4. CASE SetSocketOutboundBuffer \/ Read \/ CancelRead \/ Close \/ CloseTheParent
  BY <1>1, <1>4 DEF SetSocketOutboundBuffer, Read, CancelRead, Close, CloseTheParent,
     engineVars, peerVars
<1>5. CASE Disconnect
  <2>1. InProgram /\ UNCHANGED <<input, net, peerSent>> BY <1>5 DEF Disconnect, peerVars
  <2>2. UNCHANGED <<flights, rejected, bioIn, plain>>
    BY <1>5 DEF Disconnect, Shutdown, ShutdownFails
  <2>3. CASE Shutdown /\ stack' = stack \o <<"disconnected", "tls">>
    <3>1. state' = "closing" BY <2>3 DEF Shutdown
    <3> QED BY <2>1, <2>2, <2>3, <3>1, Disconnects DEF Aside, Other
  <2>4. CASE stack' = Append(stack, "told") BY <1>1, <2>1, <2>2, <2>4
  <2> QED BY <1>5, <2>3, <2>4 DEF Disconnect
<1> QED BY <1>2, <1>3, <1>4, <1>5 DEF ProgramStep

LEMMA ParentAside ==
  ASSUME TypeOK, LifeInv, ParentStep
  PROVE  Aside /\ stack = <<>> /\ Base = "idle" /\ Base' \in {"told", "tls", "closed"}
<1>1. ASSUME stack = <<>>, NEW f \in {"told", "tls", "closed"}, stack' = <<f>>,
             UNCHANGED <<flights, rejected, bioIn, plain, input, net, peerSent>>
      PROVE  Aside /\ stack = <<>> /\ Base = "idle" /\ Base' \in {"told", "tls", "closed"}
  <2>1. f \in Frame BY DEF Frame, ProgramFrames
  <2>2. Base = "idle" BY <1>1 DEF Base
  <2>3. ShapeInv' /\ Base' = f BY <1>1, <2>1, Begins
  <2> QED BY <1>1, <2>2, <2>3 DEF Aside, Other
<1>2. CASE ParentInit
  BY <1>1, <1>2 DEF ParentInit, LifeInv, engineVars, peerVars
<1>3. CASE ParentWriteDone
  <2>1. stack = <<>> /\ writes # <<>> /\ stack' = <<Head(writes).by>>
        /\ UNCHANGED <<flights, rejected, bioIn, plain, input, net, peerSent>>
    BY <1>3 DEF ParentWriteDone, engineVars, peerVars
  <2>2. Head(writes) \in ParentWrites
    BY <2>1, HeadTailProperties DEF TypeOK
  <2>3. Head(writes).by \in {"tls", "told"} BY <2>2 DEF ParentWrites
  <2> QED BY <1>1, <2>1, <2>3
<1>4. CASE ParentClosed
  BY <1>1, <1>4 DEF ParentClosed, engineVars, peerVars
<1>5. ASSUME NEW ok \in BOOLEAN, ParentConnected(ok)
      PROVE  Aside /\ stack = <<>> /\ Base = "idle" /\ Base' \in {"told", "tls", "closed"}
  <2>1. /\ stack = <<>> /\ (stack' = <<"tls">> \/ stack' = <<"told">>)
        /\ UNCHANGED <<flights, rejected, bioIn, plain, input, net, peerSent>>
    BY <1>5 DEF ParentConnected, BeginHandshake, engineVars, peerVars
  <2> QED BY <1>1, <2>1
<1> QED BY <1>2, <1>3, <1>4, <1>5 DEF ParentStep

(* tlsProcess, and a callback that returns to the loop.                    *)
LEMMA OwnAside ==
  ASSUME TypeOK, ShapeInv, TlsProcess \/ EmitDisconnect \/ Returns
  PROVE  /\ Aside
         /\ stack' = Below => Base' = IF Len(stack) = 1 THEN "idle" ELSE Base
         /\ Base' = "connected" => Base = "connected" \/ (Base = "tls" /\ TlsFinished)
<1>1. /\ UNCHANGED <<flights, rejected, bioIn, plain, input, net, peerSent>>
      /\ Top \in {"tls", "disconnected", "connected", "told", "closed"}
  BY DEF TlsProcess, TlsFlush, Wrap, TlsWait, TlsFinished, TlsClosing, EmitDisconnect,
     Returns, Return, Resume, ProgramFrames, engineVars, peerVars
<1>2. stack # <<>> BY <1>1 DEF Top
<1>3. Len(stack) = 1 => Base = Top BY TopShape
<1>4. CASE stack' = Below
  BY <1>1, <1>2, <1>3, <1>4, Leaves DEF Aside, Other
<1>5. ASSUME NEW g \in {"tls", "told"}, stack' = Append(Below, g),
             g = "tls" => state' # "handshaked"
      PROVE  Aside /\ (Base' = "connected" => Base = "connected") /\ stack' # Below
  <2>1. g \in Frame /\ g \in Above BY DEF Frame, ProgramFrames, Above
  <2>2. ShapeInv' /\ Base' = IF Len(stack) = 1 THEN g ELSE Base
    BY <1>2, <1>5, <2>1, Replaces
  <2>3. stack' # Below
    <3>1. Below \in Seq(Frame) BY <1>2, FrontFacts DEF TypeOK, Below
    <3>2. Len(Append(Below, g)) = Len(Below) + 1 /\ Len(Below) \in Nat
      BY <2>1, <3>1, AppendProperties, LenProperties
    <3> QED BY <1>5, <3>2
  <2> QED BY <1>1, <1>3, <2>2, <2>3 DEF Aside, Other
<1>6. CASE TlsProcess
  <2>0. Top = "tls" BY <1>6 DEF TlsProcess
  <2>1. CASE TlsFlush
    <3>1. state' = state /\ state # "handshaked"
          /\ (stack' = Below \/ stack' = Append(Below, "tls"))
      BY <2>1 DEF TlsFlush, GetHandshakeStatus, Wrap, ParentWrite
    <3> QED BY <1>4, <1>5, <3>1
  <2>2. CASE TlsWait \/ TlsClosing BY <1>4, <2>2 DEF TlsWait, TlsClosing
  <2>3. CASE TlsFinished
    <3>1. state = "handshaked" BY <2>3 DEF TlsFinished, GetHandshakeStatus
    <3>2. Len(stack) = 1 /\ Base = "tls" BY <2>0, <3>1, TopShape
    <3>3. CASE stack' = Below BY <1>4, <3>3
    <3>4. CASE stack' = Append(Below, "connected")
      <4>1. "connected" \in Frame BY DEF Frame, ProgramFrames
      <4>2. ShapeInv' /\ Base' = "connected" BY <1>2, <3>2, <3>4, <4>1, Replaces
      <4>3. stack' # Below
        <5>1. Below \in Seq(Frame) BY <1>2, FrontFacts DEF TypeOK, Below
        <5>2. Len(Append(Below, "connected")) = Len(Below) + 1 /\ Len(Below) \in Nat
          BY <4>1, <5>1, AppendProperties, LenProperties
        <5> QED BY <3>4, <5>2
      <4> QED BY <1>1, <2>3, <3>2, <4>2, <4>3 DEF Aside, Other
    <3> QED BY <2>3, <3>3, <3>4 DEF TlsFinished
  <2> QED BY <1>6, <2>1, <2>2, <2>3 DEF TlsProcess
<1>7. CASE EmitDisconnect BY <1>5, <1>7 DEF EmitDisconnect
<1>8. CASE Returns BY <1>4, <1>8 DEF Returns, Return, Resume
<1> QED BY <1>6, <1>7, <1>8

-----------------------------------------------------------------------------
(* Parts of a sequence.                                                    *)
LEMMA Joined ==
  ASSUME NEW S, NEW s \in Seq(S), NEW t \in Seq(S)
  PROVE  /\ s \o t \in Seq(S) /\ Len(s) \in Nat /\ Len(t) \in Nat
         /\ Len(s \o t) = Len(s) + Len(t)
         /\ \A i \in 1..Len(s) : (s \o t)[i] = s[i]
         /\ \A i \in 1..Len(t) : (s \o t)[Len(s) + i] = t[i]
<1>1. Len(s) \in Nat /\ Len(t) \in Nat BY LenProperties
<1> DEFINE u == s \o t
<1>2. /\ u \in Seq(S) /\ Len(u) = Len(s) + Len(t)
      /\ \A i \in 1..Len(s) + Len(t) : u[i] = IF i <= Len(s) THEN s[i] ELSE t[i - Len(s)]
  BY ConcatProperties
<1> HIDE DEF u
<1>3. ASSUME NEW i \in 1..Len(s) PROVE u[i] = s[i]
  <2>1. i \in 1..Len(s) + Len(t) /\ i <= Len(s) BY <1>1
  <2> QED BY <1>2, <2>1
<1>4. ASSUME NEW i \in 1..Len(t) PROVE u[Len(s) + i] = t[i]
  <2>1. /\ Len(s) + i \in 1..Len(s) + Len(t) /\ ~(Len(s) + i <= Len(s))
        /\ Len(s) + i - Len(s) = i
    BY <1>1
  <2> QED BY <1>2, <2>1
<1> QED BY <1>1, <1>2, <1>3, <1>4 DEF u

LEMMA Prefix ==
  ASSUME NEW S, NEW s \in Seq(S), NEW k \in Nat, k <= Len(s)
  PROVE  /\ SubSeq(s, 1, k) \in Seq(S) /\ Len(SubSeq(s, 1, k)) = k
         /\ \A i \in 1..k : SubSeq(s, 1, k)[i] = s[i]
<1>1. Len(s) \in Nat /\ \A i \in 1..Len(s) : s[i] \in S BY LenProperties
<1> DEFINE p == SubSeq(s, 1, k)
<1>2. \A i \in 1..k : s[i] \in S BY <1>1
<1>3. /\ p \in Seq(S) /\ Len(p) = (IF 1 <= k THEN k - 1 + 1 ELSE 0)
      /\ \A i \in 1..k - 1 + 1 : p[i] = s[1 + i - 1]
  <2>1. 1 \in Int /\ k \in Int OBVIOUS
  <2> QED BY <1>2, <2>1, SubSeqProperties
<1> HIDE DEF p
<1>4. Len(p) = k
  <2>1. (IF 1 <= k THEN k - 1 + 1 ELSE 0) = k OBVIOUS
  <2> QED BY <1>3, <2>1
<1>5. ASSUME NEW i \in 1..k PROVE p[i] = s[i]
  <2>1. i \in 1..k - 1 + 1 /\ 1 + i - 1 = i OBVIOUS
  <2> QED BY <1>3, <2>1
<1> QED BY <1>3, <1>4, <1>5 DEF p

LEMMA Suffix ==
  ASSUME NEW S, NEW s \in Seq(S), NEW k \in Nat
  PROVE  /\ SubSeq(s, k + 1, Len(s)) \in Seq(S)
         /\ k <= Len(s) => Len(SubSeq(s, k + 1, Len(s))) = Len(s) - k
         /\ Len(s) <= k => SubSeq(s, k + 1, Len(s)) = <<>>
         /\ \A i \in 1..Len(s) - k : SubSeq(s, k + 1, Len(s))[i] = s[k + i]
<1>1. Len(s) \in Nat /\ \A i \in 1..Len(s) : s[i] \in S BY LenProperties
<1> DEFINE p == SubSeq(s, k + 1, Len(s))
<1>2. \A i \in k + 1..Len(s) : s[i] \in S BY <1>1
<1>3. /\ p \in Seq(S)
      /\ Len(p) = (IF k + 1 <= Len(s) THEN Len(s) - (k + 1) + 1 ELSE 0)
      /\ \A i \in 1..Len(s) - (k + 1) + 1 : p[i] = s[k + 1 + i - 1]
  <2>1. k + 1 \in Int /\ Len(s) \in Int BY <1>1
  <2> QED BY <1>2, <2>1, SubSeqProperties
<1> HIDE DEF p
<1>4. k <= Len(s) => Len(p) = Len(s) - k
  <2>1. k <= Len(s) =>
          (IF k + 1 <= Len(s) THEN Len(s) - (k + 1) + 1 ELSE 0) = Len(s) - k
    BY <1>1
  <2> QED BY <1>3, <2>1
<1>5. Len(s) <= k => p = <<>>
  <2>1. Len(s) <= k =>
          (IF k + 1 <= Len(s) THEN Len(s) - (k + 1) + 1 ELSE 0) = 0
    BY <1>1
  <2>2. Len(s) <= k => Len(p) = 0 BY <1>3, <2>1
  <2> QED BY <1>3, <2>2, EmptySeq
<1>6. ASSUME NEW i \in 1..Len(s) - k PROVE p[i] = s[k + i]
  <2>1. i \in 1..Len(s) - (k + 1) + 1 /\ k + 1 + i - 1 = k + i BY <1>1
  <2> QED BY <1>3, <2>1
<1> QED BY <1>3, <1>4, <1>5, <1>6 DEF p

LEMMA Rest ==
  ASSUME NEW S, NEW s \in Seq(S), s # <<>>
  PROVE  /\ Len(s) \in Nat \ {0} /\ Head(s) = s[1] /\ Head(s) \in S
         /\ Tail(s) \in Seq(S) /\ Len(Tail(s)) = Len(s) - 1
         /\ \A i \in 1..Len(s) - 1 : Tail(s)[i] = s[i + 1]
<1>1. Len(s) \in Nat \ {0} BY EmptySeq
<1>2. Head(s) = s[1] OBVIOUS
<1>3. /\ Head(s) \in S /\ Tail(s) \in Seq(S) /\ Len(Tail(s)) = Len(s) - 1
      /\ \A i \in 1..Len(Tail(s)) : Tail(s)[i] = s[i + 1]
  BY HeadTailProperties
<1> QED BY <1>1, <1>2, <1>3

LEMMA Shorts ==
  ASSUME NEW S, NEW s \in Seq(S)
  PROVE  Len(s) \in Nat /\ (s = <<>> <=> Len(s) = 0)
<1>1. Len(s) \in Nat BY LenProperties
<1>2. s = <<>> => Len(s) = 0 OBVIOUS
<1>3. s # <<>> => Len(s) \in Nat \ {0} BY EmptySeq
<1>4. s # <<>> => Len(s) # 0 BY <1>3
<1> QED BY <1>1, <1>2, <1>4

-----------------------------------------------------------------------------
(* The read loop.                                                          *)
LEMMA LoopShape ==
  ASSUME TypeOK, ShapeInv, Top \in Reading, NEW g \in Frame, stack' = Append(Below, g)
  PROVE  Base = Top /\ Base' = g /\ ShapeInv'
<1>1. Top \notin Above /\ Top # "none" BY DEF Reading, Above
<1>2. stack # <<>> BY <1>1 DEF Top
<1>3. Len(stack) = 1 /\ Base = Top BY <1>1, <1>2, TopShape
<1>4. ShapeInv' /\ Base' = g BY <1>2, <1>3, Replaces
<1> QED BY <1>3, <1>4

LEMMA LoopFrames ==
  /\ {"unwrap", "handshake", "sslRead", "tls", "emitMore", "emitLast"} \subseteq Frame
  /\ {"unwrap", "handshake", "sslRead", "emitMore", "emitLast"} = Reading
BY DEF Frame, ProgramFrames, Reading

(* The peer's flights; the room in the BIO.                                *)
LEMMA FlightCount ==
  PeerFlights \in Nat \ {0} /\ PeerFlights <= 2 /\ (Tls13 => PeerFlights = 1)
  /\ (~Tls13 => PeerFlights = 2)
BY Tls13Assumption DEF PeerFlights

LEMMA RoomFacts ==
  ASSUME DataTypes
  PROVE  /\ Room(input) \in Nat /\ Room(input) <= Len(input)
         /\ Len(bioIn) + Room(input) <= BioCap
         /\ Room(input) = Len(input) \/ Len(bioIn) + Room(input) = BioCap
<1>1. Len(bioIn) \in Nat /\ Len(input) \in Nat /\ BioCap \in Nat /\ Len(bioIn) <= BioCap
  BY LenProperties, CapAssumption DEF DataTypes
<1>2. BioCap - Len(bioIn) \in Nat BY <1>1
<1> DEFINE free == BioCap - Len(bioIn)
<1>3. Room(input) = IF Len(input) < free THEN Len(input) ELSE free BY DEF Room
<1>4. CASE Len(input) < free BY <1>1, <1>2, <1>3, <1>4
<1>5. CASE ~(Len(input) < free) BY <1>1, <1>2, <1>3, <1>5
<1> QED BY <1>4, <1>5

(* What is taken of the input goes to the end of the BIO.                  *)
Taken(r) ==
  /\ r \in Nat /\ r <= Len(input)
  /\ bioIn' \in Seq(Record) /\ input' \in Seq(Record)
  /\ Len(bioIn') = Len(bioIn) + r /\ Len(input') = Len(input) - r
  /\ \A i \in 1..Len(bioIn) : bioIn'[i] = bioIn[i]
  /\ \A i \in 1..r : bioIn'[Len(bioIn) + i] = input[i]
  /\ \A i \in 1..Len(input) - r : input'[i] = input[r + i]

(* What each step of the read loop does, in terms of the outermost frame.  *)
LEMMA UnwrapFacts ==
  ASSUME TypeOK, ShapeInv, DataTypes, Unwrap
  PROVE  /\ Base = "unwrap" /\ Top = "unwrap" /\ ShapeInv'
         /\ UNCHANGED <<flights, rejected, shutSent, made, bioOut, plain, wire, writes,
                        outBuffer, parent, tcp, net, peerSent, inbound, connectCb,
                        handshaked>>
         /\ \/ /\ input # <<>> /\ Len(bioIn) = BioCap /\ bioIn' = bioIn
               /\ input' = <<>> /\ state' \in {state, "error"} /\ Base' = "tls"
            \/ /\ state' = state
               /\ Base' = IF InitFinished THEN "sslRead" ELSE "handshake"
               /\ Taken(Room(input))
               /\ input # <<>> => Room(input) > 0
<1>1. Top = "unwrap" /\ Top \in Reading BY DEF Unwrap, Reading
<1>2. UNCHANGED <<flights, rejected, shutSent, made, bioOut, plain, wire, writes,
                  outBuffer, parent, tcp, net, peerSent, inbound, connectCb,
                  handshaked>>
  BY DEF Unwrap, BioWriteFails, BioWrite, parentVars, outVars, peerVars, flagVars
<1>3. /\ Room(input) \in Nat /\ Room(input) <= Len(input)
      /\ Len(bioIn) + Room(input) <= BioCap
      /\ Room(input) = Len(input) \/ Len(bioIn) + Room(input) = BioCap
  BY RoomFacts
<1>4. bioIn \in Seq(Record) /\ input \in Seq(Record) BY DEF DataTypes
<1>5. Len(bioIn) \in Nat /\ Len(input) \in Nat /\ (input # <<>> => Len(input) # 0)
  BY <1>4, Shorts
<1>6. CASE input # <<>> /\ Room(input) = 0
  <2>1. BioWriteFails /\ input' = <<>> /\ stack' = Append(Below, "tls")
    BY <1>6 DEF Unwrap, LoopEnds
  <2>2. bioIn' = bioIn /\ state' \in {state, "error"} BY <2>1 DEF BioWriteFails
  <2>3. Len(bioIn) = BioCap BY <1>3, <1>5, <1>6
  <2>4. Base = Top /\ Base' = "tls" /\ ShapeInv'
    BY <1>1, <2>1, LoopFrames, LoopShape
  <2> QED BY <1>1, <1>2, <1>6, <2>1, <2>2, <2>3, <2>4
<1>7. CASE ~(input # <<>> /\ Room(input) = 0)
  <2> DEFINE g == IF InitFinished THEN "sslRead" ELSE "handshake"
  <2>1. /\ BioWrite(input) /\ input' = SubSeq(input, Room(input) + 1, Len(input))
        /\ stack' = Append(Below, g)
    BY <1>7 DEF Unwrap
  <2>2. bioIn' = bioIn \o SubSeq(input, 1, Room(input)) /\ state' = state
    BY <2>1 DEF BioWrite
  <2>3. g \in Frame BY LoopFrames
  <2> HIDE DEF g
  <2>4. Base = Top /\ Base' = g /\ ShapeInv'
    BY <1>1, <2>1, <2>3, LoopShape
  <2> DEFINE r == Room(input)
             p == SubSeq(input, 1, r)
  <2>5. p \in Seq(Record) /\ Len(p) = r /\ \A i \in 1..r : p[i] = input[i]
    BY <1>3, <1>4, Prefix
  <2>6. /\ input' \in Seq(Record) /\ Len(input') = Len(input) - r
        /\ \A i \in 1..Len(input) - r : input'[i] = input[r + i]
    BY <1>3, <1>4, <2>1, Suffix
  <2>7. r \in Nat /\ r <= Len(input) BY <1>3
  <2>8. bioIn' = bioIn \o p BY <2>2
  <2> HIDE DEF p, r
  <2>9. /\ bioIn' \in Seq(Record) /\ Len(bioIn') = Len(bioIn) + Len(p)
        /\ \A i \in 1..Len(bioIn) : bioIn'[i] = bioIn[i]
        /\ \A i \in 1..Len(p) : bioIn'[Len(bioIn) + i] = p[i]
    <3>1. p \in Seq(Record) BY <2>5
    <3>2. /\ bioIn \o p \in Seq(Record) /\ Len(bioIn \o p) = Len(bioIn) + Len(p)
          /\ \A i \in 1..Len(bioIn) : (bioIn \o p)[i] = bioIn[i]
          /\ \A i \in 1..Len(p) : (bioIn \o p)[Len(bioIn) + i] = p[i]
      BY <1>4, <3>1, Joined
    <3> QED BY <2>8, <3>2, Zenon
  <2>10. Taken(r) BY <2>5, <2>6, <2>7, <2>9 DEF Taken
  <2>11. input # <<>> => r > 0 BY <1>7, <2>7 DEF r
  <2> QED BY <1>1, <1>2, <2>2, <2>4, <2>10, <2>11 DEF r, g
<1> QED BY <1>6, <1>7

-----------------------------------------------------------------------------
(* The read loop.                                                          *)

(* No new record.                                                          *)
LEMMA FreshNone ==
  ASSUME TypeOK
  PROVE  bioOut \o Fresh(0) = bioOut /\ made + 0 = made
<1>1. made \in Nat /\ bioOut \in Seq(Nat) BY DEF TypeOK
<1>2. Fresh(0) \in Seq(Nat) BY <1>1, FreshType
<1>3. Len(Fresh(0)) = 0 BY DEF Fresh
<1>4. Fresh(0) = <<>> BY <1>2, <1>3, EmptySeq
<1>5. bioOut \o <<>> = bioOut BY <1>1, ConcatEmptySeq
<1> QED BY <1>1, <1>4, <1>5

(* SSL_do_handshake: a flight, an error, or nothing to read.               *)
LEMMA HandshakeFacts ==
  ASSUME TypeOK, ShapeInv, EngineInv, DataTypes, UnwrapHandshake
  PROVE  /\ Base = "handshake" /\ Top = "handshake" /\ ShapeInv' /\ ~InitFinished
         /\ UNCHANGED <<shutSent, plain, wire, writes, outBuffer, parent, tcp, net,
                        peerSent, inbound, connectCb, handshaked>>
         /\ \/ /\ ~rejected /\ bioIn # <<>> /\ bioIn[1] = "flight"
               /\ flights' = flights + 1 /\ rejected' = rejected /\ bioIn' = Tail(bioIn)
               /\ \/ /\ flights + 1 = PeerFlights /\ state' = "handshaked"
                     /\ made' = made + Lag /\ bioOut' = bioOut \o Fresh(Lag)
                     /\ Base' = "sslRead" /\ input' = input
                  \/ /\ flights + 1 # PeerFlights /\ state' = state
                     /\ made' = made + 1 /\ bioOut' = bioOut \o Fresh(1)
                     /\ Base' = "tls" /\ input' = <<>>
            \/ /\ rejected \/ (bioIn # <<>> /\ bioIn[1] # "flight")
               /\ rejected' = TRUE /\ state' = "error" /\ UNCHANGED <<flights, bioIn>>
               /\ Base' = "tls" /\ input' = <<>>
            \/ /\ ~rejected /\ bioIn = <<>>
               /\ UNCHANGED <<state, flights, rejected, made, bioOut, bioIn>>
               /\ Base' = "tls" /\ input' = <<>>
<1>1. Top = "handshake" /\ Top \in Reading BY DEF UnwrapHandshake, Reading
<1>2. UNCHANGED <<shutSent, plain, wire, writes, outBuffer, parent, tcp, net,
                  peerSent, inbound, connectCb, handshaked>>
  BY DEF UnwrapHandshake, DoHandshake, engineVars, parentVars, outVars, peerVars, flagVars
<1>3. ASSUME NEW g \in {"tls", "sslRead"}, stack' = Append(Below, g)
      PROVE  Base = "handshake" /\ ~InitFinished /\ Base' = g /\ ShapeInv'
  <2>1. g \in Frame BY LoopFrames
  <2>2. Base = Top /\ Base' = g /\ ShapeInv' BY <1>1, <1>3, <2>1, LoopShape
  <2> QED BY <1>1, <2>2 DEF EngineInv
<1>4. Base = "handshake" /\ ~InitFinished
  BY <1>3 DEF UnwrapHandshake, LoopEnds
<1>5. flights # PeerFlights BY <1>4 DEF InitFinished
<1>6. bioIn # <<>> => Head(bioIn) = bioIn[1] /\ Head(bioIn) \in Record
  BY Rest DEF DataTypes
<1>7. ASSUME flights' = PeerFlights
      PROVE  Base' = "sslRead" /\ input' = input /\ ShapeInv'
  BY <1>3, <1>7 DEF UnwrapHandshake
<1>8. ASSUME flights' # PeerFlights
      PROVE  Base' = "tls" /\ input' = <<>> /\ ShapeInv'
  BY <1>3, <1>8 DEF UnwrapHandshake, LoopEnds
<1>9. CASE /\ ~rejected /\ NextIs({"flight"})
           /\ flights' = flights + 1
           /\ bioIn' = Tail(bioIn)
           /\ LET last == flights + 1 = PeerFlights
                  reply == IF last /\ ~Tls13 THEN 0 ELSE 1
              IN /\ state' = IF last THEN "handshaked" ELSE state
                 /\ made' = made + reply
                 /\ bioOut' = bioOut \o Fresh(reply)
           /\ UNCHANGED <<rejected, shutSent, plain>>
  <2>1. bioIn # <<>> /\ bioIn[1] = "flight" BY <1>6, <1>9 DEF NextIs
  <2>2. CASE flights + 1 = PeerFlights
    <3>1. (IF TRUE /\ ~Tls13 THEN 0 ELSE 1) = Lag BY Tls13Assumption DEF Lag
    <3>2. /\ state' = "handshaked"
          /\ made' = made + Lag /\ bioOut' = bioOut \o Fresh(Lag)
      BY <1>9, <2>2, <3>1
    <3> QED BY <1>1, <1>2, <1>4, <1>7, <1>9, <2>1, <2>2, <3>2
  <2>3. CASE flights + 1 # PeerFlights
    <3>1. /\ state' = state /\ made' = made + 1 /\ bioOut' = bioOut \o Fresh(1)
      BY <1>9, <2>3
    <3> QED BY <1>1, <1>2, <1>4, <1>8, <1>9, <2>1, <2>3, <3>1
  <2> QED BY <2>2, <2>3
<1>10. CASE /\ rejected \/ NextIs(Record \ {"flight"})
            /\ rejected' = TRUE
            /\ state' = "error"
            /\ UNCHANGED <<flights, shutSent, bioIn, plain>>
  <2>1. rejected \/ (bioIn # <<>> /\ bioIn[1] # "flight") BY <1>6, <1>10 DEF NextIs
  <2> QED BY <1>1, <1>2, <1>4, <1>5, <1>8, <1>10, <2>1
<1>11. CASE ~rejected /\ bioIn = <<>> /\ UNCHANGED engineVars
  BY <1>1, <1>2, <1>4, <1>5, <1>8, <1>11 DEF engineVars
<1> QED BY <1>9, <1>10, <1>11 DEF UnwrapHandshake, DoHandshake

(* SSL_read: data, none, or no buffer to read into.                        *)
LEMMA ReadFacts ==
  ASSUME TypeOK, ShapeInv, DataTypes, UnwrapRead
  PROVE  /\ Base = "sslRead" /\ Top = "sslRead" /\ ShapeInv'
         /\ UNCHANGED <<flights, shutSent, wire, writes, outBuffer, parent, tcp, net,
                        peerSent, inbound, connectCb, handshaked>>
         /\ \/ /\ inbound /\ ~rejected
               /\ UNCHANGED <<state, rejected, made, bioOut, input>>
               /\ \/ plain > 0 /\ plain' = plain - 1 /\ bioIn' = bioIn
                  \/ /\ plain = 0 /\ bioIn # <<>> /\ bioIn[1] \in {"app", "long"}
                     /\ plain' = IF bioIn[1] = "long" THEN 1 ELSE 0
                     /\ bioIn' = Tail(bioIn)
               /\ Base' = IF plain' > 0 THEN "emitMore" ELSE "emitLast"
            \/ /\ inbound /\ input' = <<>> /\ Base' = "tls" /\ UNCHANGED <<bioIn, plain>>
               /\ rejected \/ (plain = 0 /\ (bioIn = <<>> \/ bioIn[1] \notin {"app", "long"}))
               /\ rejected' = (rejected \/ (bioIn # <<>> /\ bioIn[1] # "notify"))
               /\ state' = IF bioIn = <<>> /\ ~rejected THEN state ELSE "error"
               /\ ~rejected' => UNCHANGED <<made, bioOut>>
            \/ /\ ~inbound /\ input' = <<>> /\ Base' = "tls"
               /\ UNCHANGED <<state, rejected, made, bioOut, bioIn, plain>>
<1>1. Top = "sslRead" /\ Top \in Reading BY DEF UnwrapRead, Reading
<1>2. UNCHANGED <<flights, shutSent, wire, writes, outBuffer, parent, tcp, net,
                  peerSent, inbound, connectCb, handshaked>>
  BY DEF UnwrapRead, SslReadData, SslReadNone, engineVars, parentVars, outVars, peerVars,
     flagVars
<1>3. ASSUME NEW g \in {"tls", "emitMore", "emitLast"}, stack' = Append(Below, g)
      PROVE  Base = "sslRead" /\ Base' = g /\ ShapeInv'
  <2>1. g \in Frame BY LoopFrames
  <2>2. Base = Top /\ Base' = g /\ ShapeInv' BY <1>1, <1>3, <2>1, LoopShape
  <2> QED BY <1>1, <2>2
<1>4. bioIn # <<>> => Head(bioIn) = bioIn[1] /\ Head(bioIn) \in Record
  BY Rest DEF DataTypes
<1>5. CASE /\ inbound /\ SslReadData
           /\ stack' = Append(Below, IF plain' > 0 THEN "emitMore" ELSE "emitLast")
           /\ UNCHANGED input
  <2>1. Base = "sslRead" /\ ShapeInv'
        /\ Base' = IF plain' > 0 THEN "emitMore" ELSE "emitLast"
    BY <1>3, <1>5
  <2>2. ~rejected /\ UNCHANGED <<state, rejected, made, bioOut, input>>
    BY <1>5 DEF SslReadData
  <2>3. \/ plain > 0 /\ plain' = plain - 1 /\ bioIn' = bioIn
        \/ /\ plain = 0 /\ bioIn # <<>> /\ bioIn[1] \in {"app", "long"}
           /\ plain' = IF bioIn[1] = "long" THEN 1 ELSE 0
           /\ bioIn' = Tail(bioIn)
    BY <1>4, <1>5 DEF SslReadData, NextIs
  <2> QED BY <1>1, <1>2, <1>5, <2>1, <2>2, <2>3
<1>6. CASE inbound /\ SslReadNone /\ LoopEnds
  <2>1. Base = "sslRead" /\ Base' = "tls" /\ ShapeInv' /\ input' = <<>>
    BY <1>3, <1>6 DEF LoopEnds
  <2>2. NextIs(Record \ {"notify"}) <=> (bioIn # <<>> /\ bioIn[1] # "notify")
    BY <1>4 DEF NextIs
  <2>3. rejected' = (rejected \/ (bioIn # <<>> /\ bioIn[1] # "notify"))
    BY <1>6, <2>2, Zenon DEF SslReadNone
  <2>4. rejected \/ (plain = 0 /\ (bioIn = <<>> \/ bioIn[1] \notin {"app", "long"}))
    BY <1>4, <1>6 DEF SslReadNone, NextIs
  <2>5. /\ state' = IF bioIn = <<>> /\ ~rejected THEN state ELSE "error"
        /\ UNCHANGED <<bioIn, plain>>
    BY <1>6, Zenon DEF SslReadNone
  <2>6. ASSUME ~rejected' PROVE UNCHANGED <<made, bioOut>>
    <3>1. PICK alert \in {0} : made' = made + alert /\ bioOut' = bioOut \o Fresh(alert)
      <4>1. (IF rejected' /\ ~rejected THEN {0, 1} ELSE {0}) = {0} BY <2>6
      <4> QED BY <1>6, <4>1 DEF SslReadNone
    <3> QED BY <3>1, FreshNone
  <2> QED BY <1>1, <1>2, <1>6, <2>1, <2>3, <2>4, <2>5, <2>6
<1>7. CASE ~inbound /\ LoopEnds /\ UNCHANGED engineVars
  <2>1. Base = "sslRead" /\ Base' = "tls" /\ ShapeInv' /\ input' = <<>>
    BY <1>3, <1>7 DEF LoopEnds
  <2> QED BY <1>1, <1>2, <1>7, <2>1 DEF engineVars
<1> QED BY <1>5, <1>6, <1>7 DEF UnwrapRead

(* The parent has read k records.                                          *)
LEMMA ParentReadFacts ==
  ASSUME TypeOK, DataTypes, NEW k \in 0..MaxCoalesced, ParentRead(k)
  PROVE  /\ Base = "idle" /\ stack = <<>> /\ Base' = "unwrap" /\ ShapeInv' /\ tcp = "up"
         /\ UNCHANGED <<state, flights, rejected, shutSent, made, bioOut, bioIn, plain,
                        wire, writes, outBuffer, parent, tcp, peerSent, inbound,
                        connectCb, handshaked>>
         /\ k \in Nat /\ k <= Len(net) /\ net # <<>>
         /\ input' \in Seq(Record) /\ net' \in Seq(Record)
         /\ Len(input') = k /\ Len(net') = Len(net) - k
         /\ \A i \in 1..k : input'[i] = net[i]
         /\ \A i \in 1..Len(net) - k : net'[i] = net[k + i]
<1>1. stack = <<>> /\ stack' = <<"unwrap">> /\ k <= Len(net) /\ net # <<>> /\ tcp = "up"
  BY DEF ParentRead
<1>2. "unwrap" \in Frame BY LoopFrames
<1>3. Base = "idle" BY <1>1 DEF Base
<1>4. Base' = "unwrap" /\ ShapeInv' BY <1>1, <1>2, Begins
<1>5. UNCHANGED <<state, flights, rejected, shutSent, made, bioOut, bioIn, plain,
                  wire, writes, outBuffer, parent, tcp, peerSent, inbound,
                  connectCb, handshaked>>
  BY DEF ParentRead, engineVars, parentVars, outVars, flagVars
<1>6. k \in Nat /\ net \in Seq(Record) BY BoundsAssumption DEF DataTypes
<1>7. input' = SubSeq(net, 1, k) /\ net' = SubSeq(net, k + 1, Len(net))
  BY DEF ParentRead
<1>8. input' \in Seq(Record) /\ Len(input') = k /\ \A i \in 1..k : input'[i] = net[i]
  BY <1>1, <1>6, <1>7, Prefix
<1>9. net' \in Seq(Record) /\ Len(net') = Len(net) - k
      /\ \A i \in 1..Len(net) - k : net'[i] = net[k + i]
  BY <1>1, <1>6, <1>7, Suffix
<1> QED BY <1>1, <1>3, <1>4, <1>5, <1>6, <1>8, <1>9

(* The program's read callback returns to the loop.                        *)
LEMMA LoopReturnFacts ==
  ASSUME TypeOK, ShapeInv, Return, ~Returns
  PROVE  /\ ShapeInv' /\ Top = Base
         /\ UNCHANGED <<state, flights, rejected, shutSent, made, bioOut, bioIn, plain,
                        wire, writes, outBuffer, parent, tcp, net, peerSent, inbound,
                        connectCb, handshaked, connects>>
         /\ \/ Base = "emitMore" /\ Base' = "unwrap" /\ input' = input
            \/ Base = "emitLast" /\ Base' = "tls" /\ input' = <<>>
<1>1. Top \in {"emitMore", "emitLast"} BY DEF Returns
<1>2. Top \in Reading /\ Top # "connected" BY <1>1 DEF Reading
<1>3. UNCHANGED <<state, flights, rejected, shutSent, made, bioOut, bioIn, plain,
                  wire, writes, outBuffer, parent, tcp, net, peerSent, inbound,
                  handshaked, connects>>
  BY DEF Return, engineVars, outVars, peerVars, moreVars, toldVars
<1>4. connectCb' = connectCb BY <1>2, Zenon DEF Return, TypeOK
<1>5. CASE Top = "emitMore"
  <2>1. stack' = Append(Below, "unwrap") /\ input' = input
    BY <1>5 DEF Return, Resume
  <2>2. Base = Top /\ Base' = "unwrap" /\ ShapeInv'
    BY <1>2, <2>1, LoopFrames, LoopShape
  <2> QED BY <1>3, <1>4, <1>5, <2>1, <2>2
<1>6. CASE Top = "emitLast"
  <2>1. stack' = Append(Below, "tls") /\ input' = <<>>
    BY <1>6 DEF Return, Resume, LoopEnds
  <2>2. Base = Top /\ Base' = "tls" /\ ShapeInv'
    BY <1>2, <2>1, LoopFrames, LoopShape
  <2> QED BY <1>3, <1>4, <1>6, <2>1, <2>2
<1> QED BY <1>1, <1>5, <1>6

AsideAction ==
  ProgramStep \/ ParentStep \/ TlsProcess \/ EmitDisconnect \/ Returns \/ UNCHANGED vars

LEMMA AsideSteps ==
  ASSUME TypeOK, LifeInv, ShapeInv, AsideAction
  PROVE  Aside
<1>1. CASE UNCHANGED vars
  <2>1. UNCHANGED <<flights, rejected, bioIn, plain, input, net, peerSent, stack, state>>
    BY <1>1 DEF vars, engineVars, peerVars
  <2>2. Base' = Base /\ ShapeInv' BY <2>1 DEF Base, ShapeInv
  <2> QED BY <2>1, <2>2 DEF Aside
<1> QED BY <1>1, ProgramAside, ParentAside, OwnAside DEF AsideAction

(* The other steps.                                                        *)
LEMMA StepCases ==
  ASSUME [Next]_vars
  PROVE  \/ AsideAction \/ (Return /\ ~Returns) \/ Unwrap \/ UnwrapHandshake
         \/ UnwrapRead \/ (\E k \in 0..MaxCoalesced : ParentRead(k)) \/ ParentEnds
         \/ (\E rec \in Record : PeerSends(rec))
BY DEF Next, OwnStep, AsideAction

(* The record of what was sent only grows.                                 *)
LEMMA WireGrows ==
  ASSUME TypeOK, TypeOK', DataTypes, [Next]_vars
  PROVE  /\ wire' \in Seq(Nat) /\ Len(wire') >= Len(wire)
         /\ Len(wire) \in Nat /\ Len(wire') \in Nat
<1>1. wire \in Seq(Nat) /\ outBuffer \in Seq(Nat) /\ outBuffer' \in Seq(Nat)
  BY DEF TypeOK, DataTypes
<1>2. Len(wire) \in Nat BY <1>1, LenProperties
<1>3. ASSUME NEW t \in Seq(Nat), wire' = wire \o t
      PROVE  wire' \in Seq(Nat) /\ Len(wire') >= Len(wire) /\ Len(wire') \in Nat
  <2>1. /\ wire \o t \in Seq(Nat) /\ Len(wire \o t) = Len(wire) + Len(t)
        /\ Len(t) \in Nat
    BY <1>1, <1>3, Joined
  <2> QED BY <1>2, <1>3, <2>1
<1>4. CASE wire' = wire BY <1>1, <1>2, <1>4
<1>5. CASE wire' = wire \o outBuffer' BY <1>1, <1>2, <1>3, <1>5
<1>6. CASE ParentWriteDone
  <2>1. writes # <<>> /\ writes \in Seq(ParentWrites) BY <1>6 DEF ParentWriteDone, TypeOK
  <2>2. Head(writes) \in ParentWrites BY <2>1, HeadTailProperties
  <2>3. Head(writes).len \in Nat BY <2>2 DEF ParentWrites
  <2> DEFINE k == IF Head(writes).len < Len(outBuffer) THEN Head(writes).len
                                                     ELSE Len(outBuffer)
  <2>4. Len(outBuffer) \in Nat BY <1>1, LenProperties
  <2>5. k \in Nat /\ k <= Len(outBuffer) BY <2>3, <2>4
  <2>6. wire' = wire \/ wire' = wire \o SubSeq(outBuffer, 1, k)
    BY <1>6 DEF ParentWriteDone
  <2> HIDE DEF k
  <2>7. SubSeq(outBuffer, 1, k) \in Seq(Nat) BY <1>1, <2>5, Prefix
  <2> QED BY <1>2, <1>3, <1>4, <2>6, <2>7
<1>7. ParentWriteDone \/ wire' = wire \/ wire' = wire \o outBuffer'
  <2>1. ASSUME NEW n \in WriteSize, Write(n) PROVE wire' = wire \/ wire' = wire \o outBuffer'
    BY <2>1, Zenon DEF Write, ParentWrite
  <2>2. CASE TlsProcess
    BY <2>2, Zenon DEF TlsProcess, TlsFlush, ParentWrite, TlsWait, TlsFinished, TlsClosing,
       outVars
  <2>3. CASE ProgramStep
    BY <2>1, <2>3, Zenon DEF ProgramStep, Connect, SetSocketOutboundBuffer, Read,
       CancelRead, Disconnect, Close, CloseTheParent, outVars
  <2>4. CASE EmitDisconnect \/ Return \/ Unwrap \/ UnwrapHandshake \/ UnwrapRead
    BY <2>4, Zenon DEF EmitDisconnect, Return, Unwrap, UnwrapHandshake, UnwrapRead, outVars
  <2>5. CASE ParentStep
    BY <2>5, Zenon DEF ParentStep, ParentInit, ParentClosed, ParentConnected, outVars
  <2>6. CASE \/ (\E k \in 0..MaxCoalesced : ParentRead(k)) \/ ParentEnds
             \/ (\E rec \in Record : PeerSends(rec)) \/ UNCHANGED vars
    BY <2>6, Zenon DEF ParentRead, ParentEnds, PeerSends, vars, outVars
  <2> QED BY <2>2, <2>3, <2>4, <2>5, <2>6 DEF Next, OwnStep
<1> QED BY <1>2, <1>4, <1>5, <1>6, <1>7

-----------------------------------------------------------------------------
(* What such a step does to the engine and the flags.                      *)
EngineAside ==
  /\ \/ state' \in {state, "error"} /\ shutSent' = shutSent
     \/ /\ Disconnect /\ Shutdown /\ state' = "closing" /\ shutSent' = TRUE
        /\ inbound' = FALSE
  /\ handshaked' = handshaked \/ (handshaked' = TRUE /\ TlsFinished)
  /\ inbound' = inbound \/ inbound' = FALSE \/ (inbound' = TRUE /\ Read)
  /\ Base' = "connected" => Base = "connected" \/ (Base = "tls" /\ TlsFinished)

LEMMA EngineAsideSteps ==
  ASSUME TypeOK, LifeInv, ShapeInv, AsideAction
  PROVE  EngineAside
<1>1. CASE ProgramStep
  <2>1. \/ state' \in {state, "error"} /\ shutSent' = shutSent
        \/ /\ Disconnect /\ Shutdown /\ state' = "closing" /\ shutSent' = TRUE
           /\ inbound' = FALSE
    <3>1. ASSUME NEW n \in WriteSize, Write(n)
          PROVE  state' \in {state, "error"} /\ shutSent' = shutSent
      BY <3>1 DEF Write, Wrap, WrapFails
    <3>2. CASE Disconnect
      BY <3>2 DEF Disconnect, Shutdown, ShutdownFails
    <3>3. ASSUME ~Disconnect, \A n \in WriteSize : ~Write(n)
          PROVE  state' \in {state, "error"} /\ shutSent' = shutSent
      BY <1>1, <3>3, Zenon DEF ProgramStep, Connect, SetSocketOutboundBuffer, Read,
         CancelRead, Close, CloseTheParent, engineVars
    <3> QED BY <3>1, <3>2, <3>3
  <2>2. handshaked' = handshaked
    BY <1>1, Zenon DEF ProgramStep, Connect, Write, SetSocketOutboundBuffer, Read,
       CancelRead, Disconnect, Close, CloseImpl, CloseTheParent, flagVars
  <2>3. inbound' = inbound \/ inbound' = FALSE \/ (inbound' = TRUE /\ Read)
    BY <1>1, Zenon DEF ProgramStep, Connect, Write, SetSocketOutboundBuffer, Read,
       CancelRead, Disconnect, Close, CloseImpl, CloseTheParent, flagVars
  <2>4. Base' = "connected" => Base = "connected"
    <3>1. CASE Disconnect /\ Shutdown /\ stack' = stack \o <<"disconnected", "tls">>
      <4>1. InProgram /\ state' = "closing" BY <3>1 DEF Disconnect, Shutdown
      <4>2. Base' = Base \/ Base' = "disconnected" BY <3>1, <4>1, Disconnects
      <4> QED BY <4>2
    <3>2. CASE InProgram /\ (stack' = stack \/ stack' = Append(stack, "told"))
      <4>1. Base' = Base \/ Base' = "told" BY <3>2, Called
      <4> QED BY <4>1
    <3>3. \/ Disconnect /\ Shutdown /\ stack' = stack \o <<"disconnected", "tls">>
          \/ InProgram /\ (stack' = stack \/ stack' = Append(stack, "told"))
      BY <1>1, Zenon DEF ProgramStep, Connect, Write, MayWrite, ParentWrite,
         SetSocketOutboundBuffer, Read, CancelRead, Disconnect, Close, CloseTheParent
    <3> QED BY <3>1, <3>2, <3>3
  <2> QED BY <2>1, <2>2, <2>3, <2>4 DEF EngineAside
<1>2. CASE ParentStep
  <2>1. Base' # "connected" BY <1>2, ParentAside
  <2>2. state' = state /\ shutSent' = shutSent /\ handshaked' = handshaked
        /\ (inbound' = inbound \/ inbound' = FALSE)
    BY <1>2, Zenon DEF ParentStep, ParentInit, ParentWriteDone, ParentClosed,
       ParentConnected, BeginHandshake, engineVars, flagVars
  <2> QED BY <2>1, <2>2 DEF EngineAside
<1>3. CASE TlsProcess \/ EmitDisconnect \/ Returns
  <2>1. Base' = "connected" => Base = "connected" \/ (Base = "tls" /\ TlsFinished)
    BY <1>3, OwnAside
  <2>2. state' = state /\ shutSent' = shutSent
    BY <1>3, Zenon DEF TlsProcess, TlsFlush, TlsWait, TlsFinished, TlsClosing, Wrap,
       EmitDisconnect, Returns, Return, engineVars
  <2>3. handshaked' = handshaked \/ (handshaked' = TRUE /\ TlsFinished)
    BY <1>3, Zenon DEF TlsProcess, TlsFlush, TlsWait, TlsFinished, TlsClosing, CloseImpl,
       EmitDisconnect, Returns, Return, flagVars
  <2>4. inbound' = inbound \/ inbound' = FALSE
    BY <1>3, Zenon DEF TlsProcess, TlsFlush, TlsWait, TlsFinished, TlsClosing, CloseImpl,
       EmitDisconnect, Returns, Return, flagVars
  <2> QED BY <2>1, <2>2, <2>3, <2>4 DEF EngineAside
<1>4. CASE UNCHANGED vars
  <2>1. UNCHANGED <<state, shutSent, handshaked, inbound, stack>>
    BY <1>4 DEF vars, engineVars, flagVars
  <2>2. Base' = Base BY <2>1 DEF Base
  <2> QED BY <2>1, <2>2 DEF EngineAside
<1> QED BY <1>1, <1>2, <1>3, <1>4 DEF AsideAction

(* Records and writes need a connection.                                   *)
LEMMA FreshAside ==
  ASSUME TypeOK, LifeInv, DataTypes, FreshInv, AsideAction, ~Up'
  PROVE  ~Up /\ UNCHANGED <<made, bioOut, wire, writes>>
<1>0. ParentChange
  <2>1. [Next]_vars BY DEF AsideAction, Returns, Next, OwnStep
  <2> QED BY <2>1, ParentSteps
<1>1. ~Up BY <1>0 DEF ParentChange, Up
<1>2. flights = 0 /\ bioOut = <<>> /\ writes = <<>> BY <1>1 DEF FreshInv
<1>3. ~InitFinished BY <1>2, FlightCount DEF InitFinished
<1>4. CASE ProgramStep
  <2>1. \A n \in WriteSize : ~Write(n) BY <1>3 DEF Write, MayWrite
  <2>2. ~Disconnect BY <1>1 DEF Disconnect, Up
  <2> QED BY <1>1, <1>4, <2>1, <2>2, Zenon DEF ProgramStep, Connect,
          SetSocketOutboundBuffer, Read, CancelRead, Close, CloseTheParent, engineVars,
          outVars
<1>5. CASE ParentStep
  <2>1. ~ParentWriteDone BY <1>2 DEF ParentWriteDone
  <2>2. ASSUME NEW ok \in BOOLEAN, ParentConnected(ok)
        PROVE  UNCHANGED <<made, bioOut, wire, writes>>
    <3>1. ~ok BY <2>2 DEF ParentConnected, Up
    <3> QED BY <2>2, <3>1 DEF ParentConnected, engineVars, outVars
  <2>3. CASE ParentInit \/ ParentClosed
    BY <1>1, <2>3, Zenon DEF ParentInit, ParentClosed, engineVars, outVars
  <2> QED BY <1>1, <1>5, <2>1, <2>2, <2>3 DEF ParentStep
<1>6. CASE TlsProcess
  <2>1. ~TlsFlush BY <1>2 DEF TlsFlush, GetHandshakeStatus
  <2> QED BY <1>1, <1>6, <2>1, Zenon DEF TlsProcess, TlsWait, TlsFinished, TlsClosing,
          engineVars, outVars
<1>7. CASE EmitDisconnect \/ Returns \/ UNCHANGED vars
  BY <1>1, <1>7, Zenon DEF EmitDisconnect, Returns, Return, vars, engineVars, outVars
<1> QED BY <1>4, <1>5, <1>6, <1>7 DEF AsideAction

-----------------------------------------------------------------------------
(* The engine and the frames.                                              *)

(* SInv is inductive, with the invariant above.                            *)
LEMMA AsideS ==
  ASSUME IInv, TypeOK', SInv, AsideAction
  PROVE  SInv'
<1>0. TypeOK /\ LifeInv /\ DataTypes /\ ShapeInv /\ EngineInv /\ FreshInv
  BY DEF IInv, SInv
<1>1. [Next]_vars BY DEF AsideAction, Returns, Next, OwnStep
<1>2. Aside /\ EngineAside BY <1>0, AsideSteps, EngineAsideSteps
<1>3. ParentChange BY <1>0, <1>1, ParentSteps
<1>4. UNCHANGED <<flights, rejected, bioIn, plain, input, net, peerSent>>
  BY <1>2 DEF Aside
<1>5. (Base' = Base \/ (Base \in Other /\ Base' \in Other)) /\ ShapeInv'
  BY <1>2 DEF Aside
<1>6. DataTypes'
  <2>1. /\ shutSent' \in BOOLEAN /\ handshaked' \in BOOLEAN /\ inbound' \in BOOLEAN
        /\ rejected' \in BOOLEAN
    BY <1>0, <1>2, <1>4, Zenon DEF EngineAside, DataTypes
  <2>2. wire' \in Seq(Nat) BY <1>0, <1>1, WireGrows
  <2> QED BY <1>0, <1>4, <2>1, <2>2 DEF DataTypes
<1>7. InitFinished' = InitFinished BY <1>4 DEF InitFinished
<1>8. EngineInv'
  <2>1. TlsFinished => state = "handshaked" BY DEF TlsFinished, GetHandshakeStatus
  <2>2. state' = "handshaked" => InitFinished' /\ ~rejected' /\ ~shutSent'
    BY <1>0, <1>2, <1>4, <1>7 DEF EngineAside, EngineInv
  <2>3. rejected' => state' = "error"
    <3>1. Shutdown => ~rejected BY DEF Shutdown, SslShuts, SslOpen
    <3> QED BY <1>0, <1>2, <1>4, <3>1 DEF EngineAside, EngineInv
  <2>4. shutSent' \/ handshaked' => InitFinished'
    <3>1. Shutdown => InitFinished \/ shutSent BY DEF Shutdown, SslShuts, SslOpen
    <3>2. shutSent' => InitFinished
      BY <1>0, <1>2, <3>1 DEF EngineAside, EngineInv
    <3>3. handshaked' => InitFinished
      BY <1>0, <1>2, <2>1 DEF EngineAside, EngineInv
    <3> QED BY <1>7, <3>2, <3>3
  <2>5. Base' = "handshake" => ~InitFinished'
    BY <1>0, <1>5, <1>7 DEF EngineInv, Other
  <2>6. Base' \in {"sslRead", "emitMore", "emitLast", "connected"} => InitFinished'
    BY <1>0, <1>2, <1>5, <1>7, <2>1 DEF EngineInv, Other, EngineAside
  <2>7. Base' \in Reading => Up'
    <3>1. Base' \in Reading => Base' = Base BY <1>5 DEF Other, Reading
    <3>2. Up => Up' BY <1>3 DEF ParentChange, Up
    <3> QED BY <1>0, <3>1, <3>2 DEF EngineInv
  <2>8. input' # <<>> => Base' \in Reading
    <3>1. Base \in Reading => Base \notin Other BY DEF Other, Reading
    <3> QED BY <1>0, <1>4, <1>5, <3>1 DEF EngineInv
  <2> QED BY <2>2, <2>3, <2>4, <2>5, <2>6, <2>7, <2>8 DEF EngineInv
<1>9. FreshInv'
  <2>1. parent' = "zeroed" => tcp' = "none"
    BY <1>0, <1>3 DEF ParentChange, FreshInv
  <2>2. ~Up' => ~Up /\ UNCHANGED <<made, bioOut, wire, writes>>
    BY <1>0, FreshAside
  <2> QED BY <1>0, <1>4, <2>1, <2>2 DEF FreshInv
<1> QED BY <1>5, <1>6, <1>8, <1>9 DEF SInv

LEMMA SStep ==
  ASSUME IInv, TypeOK', SInv, [Next]_vars
  PROVE  SInv'
<1>0. TypeOK /\ LifeInv /\ DataTypes /\ ShapeInv /\ EngineInv /\ FreshInv
  BY DEF IInv, SInv
<1>1. ParentChange BY <1>0, ParentSteps
<1>2. parent' = "zeroed" => tcp' = "none"
  BY <1>0, <1>1 DEF ParentChange, FreshInv
<1>3. wire' \in Seq(Nat) BY <1>0, WireGrows
<1>4. <<>> \in Seq(Record) /\ Len(<<>>) = 0 BY EmptySeq
<1>5. Up' => FreshInv' BY <1>2 DEF FreshInv
<1>6. bioIn # <<>> => /\ Len(bioIn) \in Nat \ {0} /\ Tail(bioIn) \in Seq(Record)
                      /\ Len(Tail(bioIn)) = Len(bioIn) - 1
  BY <1>0, Rest DEF DataTypes
<1>7. BioCap \in Nat BY CapAssumption
<1>8. CASE AsideAction BY <1>8, AsideS
<1>9. CASE Return /\ ~Returns
  <2>1. /\ ShapeInv' /\ Base \in {"emitMore", "emitLast"} /\ Base' \in {"unwrap", "tls"}
        /\ UNCHANGED <<state, flights, rejected, shutSent, made, bioOut, bioIn, plain,
                       tcp, net, peerSent, inbound, handshaked>>
        /\ input' = <<>> \/ (input' = input /\ Base' = "unwrap")
    BY <1>0, <1>9, LoopReturnFacts
  <2>2. DataTypes' BY <1>0, <1>3, <1>4, <2>1 DEF DataTypes
  <2>3. Up /\ Up' BY <1>0, <2>1 DEF EngineInv, Reading, Up
  <2>4. InitFinished' = InitFinished BY <2>1 DEF InitFinished
  <2>5. EngineInv' BY <1>0, <2>1, <2>3, <2>4 DEF EngineInv, Reading
  <2> QED BY <1>5, <2>1, <2>2, <2>3, <2>5 DEF SInv
<1>10. CASE Unwrap
  <2>1. /\ Base = "unwrap" /\ ShapeInv'
        /\ UNCHANGED <<flights, rejected, shutSent, plain, tcp, net, peerSent, inbound,
                       handshaked>>
        /\ \/ /\ bioIn' = bioIn /\ input' = <<>> /\ state' \in {state, "error"}
              /\ Base' = "tls"
           \/ /\ state' = state /\ Taken(Room(input))
              /\ Base' = IF InitFinished THEN "sslRead" ELSE "handshake"
    BY <1>0, <1>10, UnwrapFacts
  <2>2. bioIn' \in Seq(Record) /\ input' \in Seq(Record) /\ Len(bioIn') <= BioCap
    <3>1. Len(bioIn) + Room(input) <= BioCap BY <1>0, RoomFacts
    <3> QED BY <1>0, <1>4, <2>1, <3>1 DEF DataTypes, Taken
  <2>3. DataTypes' BY <1>0, <1>3, <2>1, <2>2 DEF DataTypes
  <2>4. Up /\ Up' BY <1>0, <2>1 DEF EngineInv, Reading, Up
  <2>5. InitFinished' = InitFinished BY <2>1 DEF InitFinished
  <2>6. EngineInv' BY <1>0, <2>1, <2>4, <2>5 DEF EngineInv, Reading
  <2> QED BY <1>5, <2>1, <2>3, <2>4, <2>6 DEF SInv
<1>11. CASE UnwrapHandshake
  <2>1. /\ Base = "handshake" /\ ShapeInv' /\ ~InitFinished
        /\ UNCHANGED <<shutSent, plain, tcp, net, peerSent, inbound, handshaked>>
    BY <1>0, <1>11, HandshakeFacts
  <2>2. Up /\ Up' BY <1>0, <2>1 DEF EngineInv, Reading, Up
  <2>3. flights \in Nat /\ flights < PeerFlights
    BY <1>0, <2>1, FlightCount DEF DataTypes, InitFinished
  <2>4. CASE /\ ~rejected /\ bioIn # <<>>
             /\ flights' = flights + 1 /\ rejected' = rejected /\ bioIn' = Tail(bioIn)
             /\ \/ /\ flights + 1 = PeerFlights /\ state' = "handshaked"
                   /\ Base' = "sslRead" /\ input' = input
                \/ /\ flights + 1 # PeerFlights /\ state' = state
                   /\ Base' = "tls" /\ input' = <<>>
    <3>1. flights' \in 0..PeerFlights BY <2>3, <2>4, FlightCount
    <3>2. bioIn' \in Seq(Record) /\ Len(bioIn') <= BioCap
      BY <1>0, <1>6, <1>7, <2>4 DEF DataTypes
    <3>3. DataTypes'
      BY <1>0, <1>3, <1>4, <2>1, <2>4, <3>1, <3>2 DEF DataTypes
    <3>4. InitFinished' <=> flights + 1 = PeerFlights
      BY <2>4, Tls13Assumption DEF InitFinished, PeerFlights
    <3>5. EngineInv'
      BY <1>0, <2>1, <2>2, <2>4, <3>4 DEF EngineInv, Reading
    <3> QED BY <1>5, <2>1, <2>2, <3>3, <3>5 DEF SInv
  <2>5. CASE /\ UNCHANGED <<flights, bioIn>> /\ Base' = "tls" /\ input' = <<>>
             /\ \/ rejected' = TRUE /\ state' = "error"
                \/ UNCHANGED <<state, rejected>>
    <3>1. rejected' \in BOOLEAN BY <1>0, <2>5, Zenon DEF DataTypes
    <3>2. DataTypes' BY <1>0, <1>3, <1>4, <2>1, <2>5, <3>1 DEF DataTypes
    <3>3. InitFinished' = InitFinished BY <2>5 DEF InitFinished
    <3>4. EngineInv' BY <1>0, <2>1, <2>2, <2>5, <3>3 DEF EngineInv, Reading
    <3> QED BY <1>5, <2>1, <2>2, <3>2, <3>4 DEF SInv
  <2> QED BY <1>0, <1>11, <2>4, <2>5, HandshakeFacts
<1>12. CASE UnwrapRead
  <2>1. /\ Base = "sslRead" /\ ShapeInv'
        /\ UNCHANGED <<flights, shutSent, tcp, net, peerSent, inbound, handshaked>>
    BY <1>0, <1>12, ReadFacts
  <2>2. Up /\ Up' BY <1>0, <2>1 DEF EngineInv, Reading, Up
  <2>3. InitFinished' = InitFinished BY <2>1 DEF InitFinished
  <2>4. plain \in Nat BY <1>0 DEF DataTypes
  <2>5. CASE /\ ~rejected /\ UNCHANGED <<state, rejected, input>>
             /\ \/ plain > 0 /\ plain' = plain - 1 /\ bioIn' = bioIn
                \/ /\ bioIn # <<>> /\ bioIn' = Tail(bioIn)
                   /\ plain' \in {0, 1}
             /\ Base' \in {"emitMore", "emitLast"}
    <3>0. bioIn \in Seq(Record) /\ Len(bioIn) <= BioCap BY <1>0 DEF DataTypes
    <3>1. plain' \in Nat /\ bioIn' \in Seq(Record) /\ Len(bioIn') <= BioCap
      <4>1. CASE plain > 0 /\ plain' = plain - 1 /\ bioIn' = bioIn
        <5>1. plain' \in Nat BY <2>4, <4>1
        <5> QED BY <3>0, <4>1, <5>1
      <4>2. CASE bioIn # <<>> /\ bioIn' = Tail(bioIn) /\ plain' \in {0, 1}
        <5>1. Len(Tail(bioIn)) <= BioCap BY <1>6, <1>7, <3>0, <4>2
        <5>2. plain' \in Nat BY <4>2
        <5> QED BY <1>6, <4>2, <5>1, <5>2
      <4> QED BY <2>5, <4>1, <4>2
    <3>2. DataTypes' BY <1>0, <1>3, <2>1, <2>5, <3>1 DEF DataTypes
    <3>3. EngineInv' BY <1>0, <2>1, <2>2, <2>3, <2>5 DEF EngineInv, Reading
    <3> QED BY <1>5, <2>1, <2>2, <3>2, <3>3 DEF SInv
  <2>6. CASE /\ input' = <<>> /\ Base' = "tls" /\ UNCHANGED <<bioIn, plain>>
             /\ rejected' \in BOOLEAN
             /\ state' \in {state, "error"} /\ (rejected' => state' = "error")
             /\ state' # "error" => rejected' = rejected
    <3>1. DataTypes' BY <1>0, <1>3, <1>4, <2>1, <2>6 DEF DataTypes
    <3>2. EngineInv' BY <1>0, <2>1, <2>2, <2>3, <2>6 DEF EngineInv, Reading
    <3> QED BY <1>5, <2>1, <2>2, <3>1, <3>2 DEF SInv
  <2>7. /\ rejected => state = "error"
        /\ rejected \in BOOLEAN
    BY <1>0 DEF EngineInv, DataTypes
  <2>8. \/ /\ ~rejected /\ UNCHANGED <<state, rejected, input>>
           /\ \/ plain > 0 /\ plain' = plain - 1 /\ bioIn' = bioIn
              \/ /\ bioIn # <<>> /\ bioIn' = Tail(bioIn)
                 /\ plain' \in {0, 1}
           /\ Base' \in {"emitMore", "emitLast"}
        \/ /\ input' = <<>> /\ Base' = "tls" /\ UNCHANGED <<bioIn, plain>>
           /\ rejected' = (rejected \/ (bioIn # <<>> /\ bioIn[1] # "notify"))
           /\ state' = IF bioIn = <<>> /\ ~rejected THEN state ELSE "error"
        \/ /\ input' = <<>> /\ Base' = "tls"
           /\ UNCHANGED <<state, rejected, bioIn, plain>>
    BY <1>0, <1>12, ReadFacts
  <2>9. CASE /\ input' = <<>> /\ Base' = "tls" /\ UNCHANGED <<bioIn, plain>>
             /\ rejected' = (rejected \/ (bioIn # <<>> /\ bioIn[1] # "notify"))
             /\ state' = IF bioIn = <<>> /\ ~rejected THEN state ELSE "error"
    <3>1. rejected' \in BOOLEAN BY <2>9, Zenon
    <3>2. state' \in {state, "error"} /\ (rejected' => state' = "error")
      BY <2>9
    <3>3. state' # "error" => rejected' = rejected
      <4>1. CASE bioIn = <<>> /\ ~rejected
        <5>1. rejected' = FALSE BY <2>9, <4>1, Zenon
        <5> QED BY <2>7, <4>1, <5>1, Zenon
      <4>2. CASE ~(bioIn = <<>> /\ ~rejected) BY <2>9, <4>2
      <4> QED BY <4>1, <4>2
    <3> QED BY <2>6, <2>9, <3>1, <3>2, <3>3
  <2>10. CASE /\ input' = <<>> /\ Base' = "tls"
              /\ UNCHANGED <<state, rejected, bioIn, plain>>
    <3>1. rejected' \in BOOLEAN BY <2>7, <2>10, Zenon
    <3> QED BY <2>6, <2>7, <2>10, <3>1
  <2> QED BY <2>5, <2>8, <2>9, <2>10
<1>13. ASSUME NEW k \in 0..MaxCoalesced, ParentRead(k) PROVE SInv'
  <2>1. /\ Base = "idle" /\ Base' = "unwrap" /\ ShapeInv' /\ tcp = "up"
        /\ UNCHANGED <<state, flights, rejected, shutSent, bioIn, plain,
                       tcp, peerSent, inbound, handshaked>>
        /\ input' \in Seq(Record) /\ net' \in Seq(Record)
    BY <1>0, <1>13, ParentReadFacts
  <2>2. DataTypes' BY <1>0, <1>3, <2>1 DEF DataTypes
  <2>3. Up' BY <2>1 DEF Up
  <2>4. InitFinished' = InitFinished BY <2>1 DEF InitFinished
  <2>5. EngineInv' BY <1>0, <2>1, <2>3, <2>4 DEF EngineInv, Reading
  <2> QED BY <1>5, <2>1, <2>2, <2>3, <2>5 DEF SInv
<1>14. ASSUME UNCHANGED <<state, flights, rejected, shutSent, bioIn, plain, input,
                          inbound, handshaked, stack>>,
              net' \in Seq(Record), peerSent' \in [flights: Nat, others: Nat],
              Up, Up'
       PROVE  SInv'
  <2>1. DataTypes' BY <1>0, <1>3, <1>14 DEF DataTypes
  <2>2. Base' = Base /\ ShapeInv' BY <1>0, <1>14 DEF Base, ShapeInv
  <2>3. InitFinished' = InitFinished BY <1>14 DEF InitFinished
  <2>4. EngineInv' BY <1>0, <1>14, <2>2, <2>3 DEF EngineInv
  <2> QED BY <1>5, <1>14, <2>1, <2>2, <2>4 DEF SInv
<1>15. CASE ParentEnds
  <2>1. UNCHANGED <<state, flights, rejected, shutSent, bioIn, plain, input,
                    inbound, handshaked, stack, peerSent>> /\ net' = <<>>
        /\ tcp = "up" /\ tcp' = "ended"
    BY <1>15 DEF ParentEnds, engineVars, flagVars
  <2> QED BY <1>0, <1>4, <1>14, <2>1 DEF Up, DataTypes
<1>16. ASSUME NEW rec \in Record, PeerSends(rec) PROVE SInv'
  <2>1. UNCHANGED <<state, flights, rejected, shutSent, bioIn, plain, input,
                    inbound, handshaked, stack, tcp>> /\ net' = Append(net, rec)
        /\ tcp = "up"
    BY <1>16 DEF PeerSends, engineVars, flagVars, parentVars
  <2>2. net' \in Seq(Record) BY <1>0, <2>1, AppendProperties DEF DataTypes
  <2>3. peerSent' \in [flights: Nat, others: Nat]
    <3>1. peerSent \in [flights: Nat, others: Nat] BY <1>0 DEF DataTypes
    <3>2. \/ peerSent' = [peerSent EXCEPT !.flights = @ + 1]
          \/ peerSent' = [peerSent EXCEPT !.others = @ + 1]
      BY <1>16, Zenon DEF PeerSends
    <3> QED BY <3>1, <3>2
  <2> QED BY <1>14, <2>1, <2>2, <2>3 DEF Up
<1> QED BY <1>8, <1>9, <1>10, <1>11, <1>12, <1>13, <1>15, <1>16, StepCases

LEMMA InitSInv == Init => SInv
<1> SUFFICES ASSUME Init PROVE SInv OBVIOUS
<1>1. /\ state = "closed" /\ flights = 0 /\ rejected = FALSE /\ shutSent = FALSE
      /\ made = 0 /\ bioOut = <<>> /\ bioIn = <<>> /\ plain = 0 /\ stack = <<>>
      /\ parent = "zeroed" /\ tcp = "none" /\ wire = <<>> /\ writes = <<>>
      /\ net = <<>> /\ input = <<>> /\ inbound = FALSE /\ handshaked = FALSE
      /\ peerSent = [flights |-> 0, others |-> 0]
  BY DEF Init, EngineInit
<1>2. DataTypes
  <2>1. flights \in 0..PeerFlights BY <1>1, FlightCount
  <2>2. <<>> \in Seq(Record) /\ <<>> \in Seq(Nat) /\ Len(<<>>) = 0 /\ BioCap \in Nat
    BY EmptySeq, CapAssumption
  <2>3. peerSent \in [flights: Nat, others: Nat] BY <1>1
  <2>4. Len(bioIn) <= BioCap /\ plain \in Nat BY <1>1, <2>2
  <2> QED BY <1>1, <2>1, <2>2, <2>3, <2>4, Zenon DEF DataTypes
<1>3. Base = "idle" /\ Len(stack) = 0 BY <1>1 DEF Base
<1>4. ShapeInv BY <1>3 DEF ShapeInv
<1>5. EngineInv BY <1>1, <1>3 DEF EngineInv, Reading
<1>6. FreshInv BY <1>1 DEF FreshInv, Up
<1> QED BY <1>2, <1>4, <1>5, <1>6 DEF SInv

-----------------------------------------------------------------------------
(* connect() is answered.                                                  *)

(* Who changes the connection.                                             *)
LEMMA TcpChange ==
  ASSUME [Next]_vars
  PROVE  \/ tcp' = tcp \/ (\E cb \in Callbacks : Connect(cb))
         \/ (\E ok \in BOOLEAN : ParentConnected(ok)) \/ ParentEnds
<1>1. CASE ProgramStep
  BY <1>1, Zenon DEF ProgramStep, Write, SetSocketOutboundBuffer, Read, CancelRead,
     Disconnect, Close, CloseImpl, CloseTheParent, parentVars
<1>2. CASE TlsProcess
  BY <1>2, Zenon DEF TlsProcess, TlsFlush, TlsWait, TlsFinished, TlsClosing, CloseImpl,
     parentVars
<1>3. CASE EmitDisconnect \/ Return \/ Unwrap \/ UnwrapHandshake \/ UnwrapRead
  BY <1>3, Zenon DEF EmitDisconnect, Return, Unwrap, UnwrapHandshake, UnwrapRead,
     parentVars
<1>4. CASE ParentStep
  BY <1>4, Zenon DEF ParentStep, ParentInit, ParentWriteDone, ParentClosed, parentVars
<1>5. CASE \/ (\E k \in 0..MaxCoalesced : ParentRead(k)) \/ ParentEnds
           \/ (\E rec \in Record : PeerSends(rec)) \/ UNCHANGED vars
  BY <1>5, Zenon DEF ParentRead, PeerSends, vars, parentVars
<1> QED BY <1>1, <1>2, <1>3, <1>4, <1>5 DEF Next, OwnStep

(* The answers to connect().                                               *)
LEMMA AnswersFrom ==
  ASSUME [Next]_vars, connects' # connects
  PROVE  \/ \E cb \in Callbacks : Connect(cb)
         \/ \E ok \in BOOLEAN : ParentConnected(ok)
         \/ TlsFinished
<1>1. CASE ProgramStep
  BY <1>1, Zenon DEF ProgramStep, Write, SetSocketOutboundBuffer, Read, CancelRead,
     Disconnect, Close, CloseTheParent, moreVars, toldVars
<1>2. CASE TlsProcess
  BY <1>2, Zenon DEF TlsProcess, TlsFlush, TlsWait, TlsClosing
<1>3. CASE EmitDisconnect \/ Return \/ Unwrap \/ UnwrapHandshake \/ UnwrapRead
  BY <1>3, Zenon DEF EmitDisconnect, Return, Unwrap, UnwrapHandshake, UnwrapRead,
     moreVars, toldVars
<1>4. CASE ParentStep
  BY <1>4, Zenon DEF ParentStep, ParentInit, ParentWriteDone, ParentClosed,
     moreVars, toldVars
<1>5. CASE \/ (\E k \in 0..MaxCoalesced : ParentRead(k)) \/ ParentEnds
           \/ (\E rec \in Record : PeerSends(rec)) \/ UNCHANGED vars
  BY <1>5, Zenon DEF ParentRead, ParentEnds, PeerSends, vars, moreVars, toldVars
<1> QED BY <1>1, <1>2, <1>3, <1>4, <1>5 DEF Next, OwnStep

(* A finished handshake needs a connection.                                *)
LEMMA FinishedUp ==
  ASSUME SInv, InitFinished \/ Base = "connected" \/ handshaked \/ state = "handshaked"
  PROVE  InitFinished /\ Up
<1>1. InitFinished BY DEF SInv, EngineInv
<1>2. flights # 0 BY <1>1, FlightCount DEF InitFinished
<1> QED BY <1>1, <1>2 DEF SInv, FreshInv

(* handshaked_ and the connect callback come from tlsProcess.              *)
LEMMA Reports ==
  ASSUME IInv, SInv, [Next]_vars, Base' = "connected" \/ handshaked'
  PROVE  \/ Base = "connected" \/ handshaked
         \/ TlsFinished /\ state = "handshaked"
<1>0. TypeOK /\ LifeInv /\ DataTypes /\ ShapeInv /\ EngineInv BY DEF IInv, SInv
<1>1. CASE AsideAction
  <2>1. EngineAside BY <1>0, <1>1, EngineAsideSteps
  <2>2. TlsFinished => state = "handshaked" BY DEF TlsFinished, GetHandshakeStatus
  <2> QED BY <2>1, <2>2 DEF EngineAside
<1>2. CASE Return /\ ~Returns
  <2>1. Base' # "connected" /\ handshaked' = handshaked BY <1>0, <1>2, LoopReturnFacts
  <2> QED BY <2>1
<1>3. CASE Unwrap
  <2>1. Base' # "connected" /\ handshaked' = handshaked BY <1>0, <1>3, UnwrapFacts
  <2> QED BY <2>1
<1>4. CASE UnwrapHandshake
  <2>1. Base' # "connected" /\ handshaked' = handshaked BY <1>0, <1>4, HandshakeFacts
  <2> QED BY <2>1
<1>5. CASE UnwrapRead
  <2>1. Base' # "connected" /\ handshaked' = handshaked BY <1>0, <1>5, ReadFacts
  <2> QED BY <2>1
<1>6. ASSUME NEW k \in 0..MaxCoalesced, ParentRead(k) PROVE handshaked
  <2>1. Base' # "connected" /\ handshaked' = handshaked BY <1>0, <1>6, ParentReadFacts
  <2> QED BY <2>1
<1>7. CASE ParentEnds \/ (\E rec \in Record : PeerSends(rec))
  <2>1. UNCHANGED <<stack, handshaked>> BY <1>7 DEF ParentEnds, PeerSends, flagVars
  <2>2. Base' = Base BY <2>1 DEF Base
  <2> QED BY <2>1, <2>2
<1> QED BY <1>1, <1>2, <1>3, <1>4, <1>5, <1>6, <1>7, StepCases

(* AnswerInv is inductive for a program that gives connect() a callback.   *)
LEMMA AnswerStep ==
  ASSUME Callbacks \subseteq {TRUE}, IInv, IInv', SInv, SInv', AnswerInv, [Next]_vars
  PROVE  AnswerInv'
<1>0. TypeOK /\ ShapeInv /\ connects \in Nat /\ connects' \in Nat /\ connects' <= 1
  BY DEF IInv, SInv, TypeOK, ConnectInv, ConnectOnce
<1>1. ~Up' => ~(Base' = "connected" \/ handshaked')
  <2>1. ASSUME Base' = "connected" \/ handshaked' PROVE Up'
    <3>1. InitFinished' BY <2>1 DEF SInv, EngineInv
    <3>2. flights' # 0 BY <3>1, FlightCount DEF InitFinished, PeerFlights
    <3> QED BY <2>1, <3>2 DEF SInv, FreshInv
  <2> QED BY <2>1
<1>2. ConnectChange BY <1>0, ConnectSteps
<1>3. ASSUME NEW cb \in Callbacks, Connect(cb) PROVE AnswerInv'
  <2>1. given' = TRUE BY <1>3 DEF Connect
  <2>2. ~Up' BY <1>3 DEF Connect, Up
  <2> QED BY <1>1, <2>1, <2>2 DEF AnswerInv
<1>4. ASSUME NEW ok \in BOOLEAN, ParentConnected(ok) PROVE AnswerInv'
  <2>1. given /\ given' = given /\ tcp = "connecting" BY <1>4 DEF ParentConnected, AnswerInv
  <2>2. CASE ok
    <3>1. connectCb' = given BY <1>4, <2>2 DEF ParentConnected
    <3>2. ~(Base = "connected" \/ handshaked \/ state = "handshaked")
      BY <2>1, FinishedUp DEF Up
    <3>3. ~(Base' = "connected" \/ handshaked') BY <3>2, Reports
    <3> QED BY <2>1, <3>1, <3>3 DEF AnswerInv
  <2>3. CASE ~ok
    <3>1. ~Up' BY <1>4, <2>3 DEF ParentConnected, Up
    <3> QED BY <1>1, <2>1, <3>1 DEF AnswerInv
  <2> QED BY <2>2, <2>3
<1>5. CASE tcp' = tcp \/ ParentEnds
  <2>1. (Up' <=> Up) /\ (tcp' = "none" <=> tcp = "none")
    BY <1>5 DEF ParentEnds, Up
  <2>2. given' = given BY <1>2, <1>5, Zenon DEF ConnectChange, ParentEnds
  <2>3. connects = 1 => connects' = 1
    <3>1. connects' = connects \/ connects' = connects + 1 BY <1>2 DEF ConnectChange
    <3> QED BY <1>0, <3>1
  <2>4. ASSUME Up' PROVE connectCb' \/ connects' = 1
    <3>1. connectCb \/ connects = 1 BY <2>1, <2>4 DEF AnswerInv
    <3>2. connectCb' = connectCb \/ (Top = "connected" /\ connects' = connects)
      BY <1>2, <1>5 DEF ConnectChange, ParentEnds
    <3>3. Top = "connected" => Base = "connected"
      <4>1. "connected" \notin Above /\ "connected" # "none" BY DEF Above
      <4> QED BY <1>0, <4>1, TopShape
    <3>4. Top = "connected" => connects = 1 BY <3>3 DEF AnswerInv
    <3> QED BY <2>3, <3>1, <3>2, <3>4
  <2>5. ASSUME Base' = "connected" \/ handshaked' PROVE connects' = 1
    <3>1. CASE Base = "connected" \/ handshaked BY <2>3, <3>1 DEF AnswerInv
    <3>2. CASE TlsFinished /\ state = "handshaked"
      <4>1. Up BY <3>2, FinishedUp
      <4>2. CASE connectCb
        <5>1. connects' = connects + 1 BY <3>2, <4>2 DEF TlsFinished
        <5> QED BY <1>0, <5>1
      <4>3. CASE ~connectCb BY <2>3, <4>1, <4>3 DEF AnswerInv
      <4> QED BY <4>2, <4>3
    <3> QED BY <2>5, <3>1, <3>2, Reports
  <2> QED BY <2>1, <2>2, <2>4, <2>5 DEF AnswerInv
<1> QED BY <1>3, <1>4, <1>5, TcpChange

-----------------------------------------------------------------------------
(* The life of the socket.                                                 *)

(* An answer to connect() changes nothing the parent keeps.                *)
LEMMA AnswersApart ==
  ASSUME [Next]_vars
  PROVE  connects' = connects \/ UNCHANGED <<parent, attached, writes>>
<1>1. CASE connects' # connects
  BY <1>1, AnswersFrom, Zenon DEF Connect, ParentConnected, TlsFinished, parentVars,
     outVars
<1> QED BY <1>1

(* TLS is shut down, and the parent closed, by the program only after the  *)
(* answer to connect().                                                    *)
LEMMA ShutLater ==
  ASSUME ~ClosesEarly, TypeOK, LifeInv, DataTypes, ShapeInv, EngineInv, [Next]_vars
  PROVE  state' = "closing" =>
           UNCHANGED <<state, shutSent>> \/ (shutSent' = TRUE /\ ~Handshaking)
<1>1. CASE AsideAction
  <2>1. EngineAside BY <1>1, EngineAsideSteps
  <2>2. Disconnect => ~Handshaking BY DEF Disconnect
  <2> QED BY <2>1, <2>2 DEF EngineAside
<1>2. CASE Return /\ ~Returns
  <2>1. UNCHANGED <<state, shutSent>> BY <1>2, LoopReturnFacts
  <2> QED BY <2>1
<1>3. CASE Unwrap
  <2>1. state' \in {state, "error"} /\ shutSent' = shutSent BY <1>3, UnwrapFacts
  <2> QED BY <2>1
<1>4. CASE UnwrapHandshake
  <2>1. state' \in {state, "error", "handshaked"} /\ shutSent' = shutSent
    BY <1>4, HandshakeFacts
  <2> QED BY <2>1
<1>5. CASE UnwrapRead
  <2>1. state' \in {state, "error"} /\ shutSent' = shutSent BY <1>5, ReadFacts
  <2> QED BY <2>1
<1>6. ASSUME NEW k \in 0..MaxCoalesced, ParentRead(k) PROVE UNCHANGED <<state, shutSent>>
  BY <1>6, ParentReadFacts
<1>7. CASE ParentEnds \/ (\E rec \in Record : PeerSends(rec))
  <2>1. UNCHANGED <<state, shutSent>> BY <1>7 DEF ParentEnds, PeerSends, engineVars
  <2> QED BY <2>1
<1> QED BY <1>1, <1>2, <1>3, <1>4, <1>5, <1>6, <1>7, StepCases

LEMMA ParentStays ==
  ASSUME ~ClosesEarly, [Next]_vars, parent = "open", Handshaking, state # "closing"
  PROVE  parent' = "open"
<1>1. CASE ProgramStep
  <2>1. ~Close /\ ~CloseTheParent BY DEF Close, CloseTheParent
  <2> QED BY <1>1, <2>1, Zenon DEF ProgramStep, Connect, Write, SetSocketOutboundBuffer,
          Read, CancelRead, Disconnect, parentVars
<1>2. CASE TlsProcess
  <2>1. ~TlsClosing BY DEF TlsClosing, GetHandshakeStatus
  <2> QED BY <1>2, <2>1, Zenon DEF TlsProcess, TlsFlush, TlsWait, TlsFinished, parentVars
<1>3. CASE EmitDisconnect \/ Return \/ Unwrap \/ UnwrapHandshake \/ UnwrapRead
  BY <1>3, Zenon DEF EmitDisconnect, Return, Unwrap, UnwrapHandshake, UnwrapRead,
     parentVars
<1>4. CASE ParentStep
  BY <1>4 DEF ParentStep, ParentInit, ParentWriteDone, ParentClosed, ParentConnected,
     parentVars
<1>5. CASE \/ (\E k \in 0..MaxCoalesced : ParentRead(k)) \/ ParentEnds
           \/ (\E rec \in Record : PeerSends(rec)) \/ UNCHANGED vars
  BY <1>5, Zenon DEF ParentRead, ParentEnds, PeerSends, vars, parentVars
<1> QED BY <1>1, <1>2, <1>3, <1>4, <1>5 DEF Next, OwnStep

(* AwaitInv is inductive for a program that closes only later.             *)
LEMMA AwaitStep ==
  ASSUME ~ClosesEarly, IInv, SInv, AwaitInv, [Next]_vars
  PROVE  AwaitInv'
<1>0. TypeOK /\ LifeInv /\ DataTypes /\ ShapeInv /\ EngineInv /\ connects \in Nat
  BY DEF IInv, SInv, TypeOK
<1>1. state' = "closing" =>
        UNCHANGED <<state, shutSent>> \/ (shutSent' = TRUE /\ ~Handshaking)
  BY <1>0, ShutLater
<1>2. state' = "closing" => shutSent' BY <1>1 DEF AwaitInv
<1>3. ASSUME Handshaking' PROVE parent' = "open" /\ state' # "closing"
  <2>1. connects' = 0 /\ tcp' \in {"up", "ended"} BY <1>3 DEF Handshaking
  <2>2. connects = 0
    <3>1. connects' = connects \/ connects' = connects + 1
      BY <1>0, ConnectSteps, Zenon DEF ConnectChange
    <3> QED BY <1>0, <2>1, <3>1
  <2>3. CASE Up
    <3>1. Handshaking BY <2>2, <2>3 DEF Handshaking, Up
    <3>2. parent = "open" /\ state # "closing" BY <3>1 DEF AwaitInv
    <3>3. parent' = "open" BY <3>1, <3>2, ParentStays
    <3>4. state' # "closing" BY <1>1, <3>1, <3>2
    <3> QED BY <3>3, <3>4
  <2>4. CASE ~Up
    <3>1. tcp = "connecting" BY <1>0, <2>1, <2>4, ParentSteps DEF ParentChange, Up
    <3>2. ParentConnected(TRUE)
      <4>1. tcp' # tcp BY <2>1, <3>1
      <4>2. \E ok \in BOOLEAN : ParentConnected(ok)
        BY <3>1, <4>1, TcpChange DEF Connect, ParentEnds
      <4> QED BY <2>1, <4>2 DEF ParentConnected
    <3>3. parent = "open" /\ parent' = parent /\ state' = state
      BY <3>2 DEF ParentConnected, BeginHandshake
    <3>4. ~InitFinished /\ ~shutSent
      <4>1. ~InitFinished BY <2>4, FinishedUp
      <4> QED BY <1>0, <4>1 DEF EngineInv
    <3> QED BY <3>3, <3>4 DEF AwaitInv
  <2> QED BY <2>3, <2>4
<1> QED BY <1>2, <1>3 DEF AwaitInv

(* connect() is in flight from the parent's connect to its answer.         *)
Owed == tcp = "connecting" \/ Handshaking
Pending == Len(writes) + (IF tcp = "connecting" \/ Handshaking THEN 1 ELSE 0)

LEMMA OwedSteps ==
  ASSUME IInv, SInv, AwaitInv, [Next]_vars
  PROVE  \/ Owed' = Owed
         \/ ~Owed /\ Owed' /\ parent = "open" /\ UNCHANGED <<parent, attached, writes>>
         \/ /\ Owed /\ ~Owed' /\ parent \in {"open", "closing"}
            /\ UNCHANGED <<parent, attached, writes>>
<1>0. TypeOK /\ LifeInv /\ connects \in Nat BY DEF IInv, TypeOK
<1>1. ParentChange BY <1>0, ParentSteps
<1>2. tcp' # tcp => writes' = writes BY <1>0, OutStep
<1>3. connects' = connects \/ UNCHANGED <<parent, attached, writes>> BY AnswersApart
<1>4. Owed \in BOOLEAN /\ Owed' \in BOOLEAN BY DEF Owed
<1>5. Owed => parent \in {"open", "closing"}
  BY <1>0 DEF Owed, LifeInv, AwaitInv
<1>6. tcp = "connecting" => connects = 0 BY DEF IInv, ConnectInv
<1>7. ConnectChange BY <1>0, ConnectSteps
<1>8. CASE tcp' = tcp /\ connects' = connects
  BY <1>8 DEF Owed, Handshaking
<1>9. CASE tcp' = tcp /\ connects' # connects
  <2>1. connects' = connects + 1 BY <1>7, <1>9 DEF ConnectChange
  <2>2. connects' # 0 BY <1>0, <2>1
  <2>3. UNCHANGED <<parent, attached, writes>> BY <1>3, <1>9
  <2>4. Owed' => Owed BY <1>9, <2>2 DEF Owed, Handshaking
  <2> QED BY <1>4, <1>5, <2>3, <2>4
<1>10. CASE tcp' # tcp
  <2>1. UNCHANGED <<parent, attached, writes>> BY <1>1, <1>2, <1>10 DEF ParentChange
  <2>2. CASE ~Owed /\ Owed'
    <3>1. \/ tcp = "none" /\ parent = "open"
          \/ tcp = "connecting"
          \/ tcp = "up" /\ tcp' = "ended"
      BY <1>1, <1>10 DEF ParentChange
    <3>2. tcp # "connecting" BY <2>2 DEF Owed
    <3>3. CASE tcp = "up" /\ tcp' = "ended"
      <4>1. connects # 0 /\ connects' = 0 BY <2>2, <3>3 DEF Owed, Handshaking
      <4>2. connects' = connects \/ connects' = connects + 1
        BY <1>7, Zenon DEF ConnectChange
      <4> QED BY <1>0, <4>1, <4>2
    <3> QED BY <2>1, <2>2, <3>1, <3>2, <3>3
  <2> QED BY <1>4, <1>5, <2>1, <2>2
<1> QED BY <1>8, <1>9, <1>10

LEMMA LifeIs ==
  ASSUME TypeOK
  PROVE  /\ parent = "zeroed" => Life = "new"
         /\ parent = "open" => Life = "live"
         /\ parent = "closing" => Life = "closing"
         /\ parent = "closed" /\ attached => Life = "notified"
         /\ parent = "closed" /\ ~attached => Life = "gone"
BY DEF TypeOK, Life

LEMMA LifeIsNext ==
  ASSUME TypeOK'
  PROVE  /\ parent' = "zeroed" => Life' = "new"
         /\ parent' = "open" => Life' = "live"
         /\ parent' = "closing" => Life' = "closing"
         /\ parent' = "closed" /\ attached' => Life' = "notified"
         /\ parent' = "closed" /\ ~attached' => Life' = "gone"
BY DEF TypeOK, Life

LEMMA LifeRefines ==
  ASSUME IInv, SInv, AwaitInv, [Next]_vars
  PROVE  [H!Next]_(H!vars)
<1>0. TypeOK /\ LifeInv /\ TypeOK' BY TypeStep DEF IInv
<1>1. ParentChange BY <1>0, ParentSteps
<1>2. \/ writes' = writes
      \/ parent = "open" /\ Len(writes') = Len(writes) + 1
          /\ UNCHANGED <<parent, tcp, attached>>
      \/ writes # <<>> /\ writes' = Tail(writes)
          /\ UNCHANGED <<parent, tcp, attached>>
  BY <1>0, OutStep
<1>3. /\ Len(writes) \in Nat /\ writes \in Seq(ParentWrites)
      /\ (writes # <<>> => Len(writes) > 0)
  BY <1>0, EmptySeq, LenProperties DEF TypeOK
<1>4. /\ Pending = Len(writes) + (IF Owed THEN 1 ELSE 0)
      /\ Pending' = Len(writes') + (IF Owed' THEN 1 ELSE 0)
  BY DEF Pending, Owed
<1>5. /\ parent = "zeroed" => Life = "new"
      /\ parent = "open" => Life = "live"
      /\ parent = "closing" => Life = "closing"
      /\ parent = "closed" /\ attached => Life = "notified"
      /\ parent = "closed" /\ ~attached => Life = "gone"
  BY <1>0, LifeIs
<1>6. /\ parent' = "zeroed" => Life' = "new"
      /\ parent' = "open" => Life' = "live"
      /\ parent' = "closing" => Life' = "closing"
      /\ parent' = "closed" /\ attached' => Life' = "notified"
      /\ parent' = "closed" /\ ~attached' => Life' = "gone"
  BY <1>0, LifeIsNext
<1>7. UNCHANGED <<parent, attached>> => Life' = Life BY DEF Life
<1>8. /\ ~attached => parent = "closed"
      /\ tcp = "connecting" \/ writes # <<>> => parent \in {"open", "closing"}
      /\ attached \in BOOLEAN
  BY <1>0 DEF LifeInv, TypeOK
<1>9. ASSUME UNCHANGED <<Life, attached, Pending>> PROVE [H!Next]_(H!vars)
  BY <1>9, Zenon DEF H!vars, Pending
<1>10. ASSUME Life = "live", Pending' = Pending + 1, UNCHANGED <<Life, attached>>
       PROVE  [H!Next]_(H!vars)
  BY <1>10, Zenon DEF H!Next, H!Submit, Pending
<1>11. ASSUME Life \in {"live", "closing"}, Pending > 0, Pending' = Pending - 1,
              UNCHANGED <<Life, attached>>
       PROVE  [H!Next]_(H!vars)
  BY <1>11, Zenon DEF H!Next, H!Complete, Pending
<1>12. \/ Owed' = Owed
       \/ ~Owed /\ Owed' /\ parent = "open" /\ UNCHANGED <<parent, attached, writes>>
       \/ /\ Owed /\ ~Owed' /\ parent \in {"open", "closing"}
          /\ UNCHANGED <<parent, attached, writes>>
  BY OwedSteps
<1>13. CASE ~Owed /\ Owed' /\ parent = "open" /\ UNCHANGED <<parent, attached, writes>>
  <2>1. Pending' = Pending + 1 BY <1>3, <1>4, <1>13
  <2> QED BY <1>5, <1>7, <1>10, <1>13, <2>1
<1>14. CASE /\ Owed /\ ~Owed' /\ parent \in {"open", "closing"}
            /\ UNCHANGED <<parent, attached, writes>>
  <2>1. Pending > 0 /\ Pending' = Pending - 1 BY <1>3, <1>4, <1>14
  <2> QED BY <1>5, <1>7, <1>11, <1>14, <2>1
<1>15. CASE Owed' = Owed /\ parent = "open" /\ Len(writes') = Len(writes) + 1
            /\ UNCHANGED <<parent, tcp, attached>>
  <2>1. Pending' = Pending + 1 BY <1>3, <1>4, <1>15
  <2> QED BY <1>5, <1>7, <1>10, <1>15, <2>1
<1>16. CASE Owed' = Owed /\ writes # <<>> /\ writes' = Tail(writes)
            /\ UNCHANGED <<parent, tcp, attached>>
  <2>1. Len(writes') = Len(writes) - 1 BY <1>3, <1>16, HeadTailProperties
  <2>2. \A n, m, o \in Nat : n > 0 /\ m = n - 1 =>
          n + o > 0 /\ m + o = (n + o) - 1
    OBVIOUS
  <2> DEFINE o == IF Owed THEN 1 ELSE 0
  <2>3. o \in Nat OBVIOUS
  <2>4. Pending = Len(writes) + o /\ Pending' = Len(writes') + o
    BY <1>4, <1>16, Zenon
  <2>5. Len(writes) > 0 /\ Len(writes') \in Nat BY <1>3, <1>16, <2>1
  <2> HIDE DEF o
  <2>6. Pending > 0 /\ Pending' = Pending - 1
    <3>1. Len(writes) + o > 0 /\ Len(writes') + o = (Len(writes) + o) - 1
      BY <1>3, <2>1, <2>2, <2>3, <2>5
    <3> QED BY <2>4, <3>1, Zenon
  <2> QED BY <1>5, <1>7, <1>8, <1>11, <1>16, <2>6
<1>17. CASE Owed' = Owed /\ writes' = writes
  <2>1. Pending' = Pending BY <1>4, <1>17
  <2>2. CASE UNCHANGED <<parent, attached>>
    BY <1>7, <1>9, <2>1, <2>2
  <2>3. CASE parent = "zeroed" /\ parent' = "open" /\ UNCHANGED <<tcp, attached>>
    <3>1. Life = "new" /\ Life' = "live" /\ attached' = TRUE /\ Pending' = Pending
      BY <1>5, <1>6, <1>8, <2>1, <2>3
    <3> QED BY <3>1, Zenon DEF H!Next, H!Open, Pending
  <2>4. CASE parent = "open" /\ parent' = "closing" /\ UNCHANGED <<tcp, attached>>
    <3>1. Life = "live" /\ Life' = "closing" /\ attached' = attached /\ Pending' = Pending
      BY <1>5, <1>6, <2>1, <2>4
    <3> QED BY <3>1, Zenon DEF H!Next, H!Close, Pending
  <2>5. CASE /\ parent = "closing" /\ tcp # "connecting" /\ writes = <<>>
             /\ parent' = "closed" /\ UNCHANGED <<tcp, attached>>
    <3>1. Life = "closing" /\ Life' = "notified" /\ attached' = attached
          /\ Pending' = Pending
      BY <1>5, <1>6, <1>8, <2>1, <2>5
    <3>2. ~Owed /\ Len(writes) = 0 BY <2>5 DEF Owed, AwaitInv
    <3>3. Pending = 0 BY <1>4, <3>2
    <3> QED BY <3>1, <3>3, Zenon DEF H!Next, H!Notify, Pending
  <2>6. CASE Top = "closed" /\ attached' = FALSE /\ UNCHANGED <<parent, tcp>>
    <3>1. parent = "closed" BY <1>0, <2>6, ClosedFrame
    <3>2. CASE attached
      <4>1. Life = "notified" /\ Life' = "gone" /\ Pending' = Pending
        BY <1>5, <1>6, <2>1, <2>6, <3>1, <3>2
      <4> QED BY <2>6, <4>1, Zenon DEF H!Next, H!Release, Pending
    <3>3. CASE ~attached
      <4>1. attached' = attached BY <1>8, <2>6, <3>3
      <4> QED BY <1>7, <1>9, <2>1, <2>6, <4>1
    <3> QED BY <3>2, <3>3
  <2> QED BY <1>1, <2>2, <2>3, <2>4, <2>5, <2>6, Zenon DEF ParentChange
<1> QED BY <1>2, <1>12, <1>13, <1>14, <1>15, <1>16, <1>17

-----------------------------------------------------------------------------
(* The end of the handshake is reported.                                   *)

LEMMA Single ==
  ASSUME NEW S, NEW s \in Seq(S), s # <<>>, Len(s) <= 1
  PROVE  Tail(s) = <<>>
<1>1. Len(s) \in Nat \ {0} /\ Tail(s) \in Seq(S) /\ Len(Tail(s)) = Len(s) - 1
  BY Rest
<1>2. \A n \in Nat \ {0} : n <= 1 => n - 1 = 0 OBVIOUS
<1>3. Len(Tail(s)) = 0 BY <1>1, <1>2, Zenon
<1> QED BY <1>1, <1>3, Shorts

(* The program sets its read buffer in the connect callback.               *)
LEMMA InboundStep ==
  ASSUME ~ReadsLate, IInv, SInv, [Next]_vars, inbound'
  PROVE  inbound \/ Base = "connected"
<1>0. TypeOK /\ LifeInv /\ DataTypes /\ ShapeInv /\ EngineInv BY DEF IInv, SInv
<1>1. CASE AsideAction
  <2>1. EngineAside BY <1>0, <1>1, EngineAsideSteps
  <2>2. Read => InProgram /\ Top = "connected" BY DEF Read
  <2>3. Read => Base = "connected" BY <1>0, <2>2, ProgramTop
  <2> QED BY <2>1, <2>3 DEF EngineAside
<1>2. CASE Return /\ ~Returns BY <1>0, <1>2, LoopReturnFacts
<1>3. CASE Unwrap BY <1>0, <1>3, UnwrapFacts
<1>4. CASE UnwrapHandshake BY <1>0, <1>4, HandshakeFacts
<1>5. CASE UnwrapRead BY <1>0, <1>5, ReadFacts
<1>6. ASSUME NEW k \in 0..MaxCoalesced, ParentRead(k) PROVE inbound
  BY <1>0, <1>6, ParentReadFacts
<1>7. CASE ParentEnds \/ (\E rec \in Record : PeerSends(rec))
  BY <1>7 DEF ParentEnds, PeerSends, flagVars
<1> QED BY <1>1, <1>2, <1>3, <1>4, <1>5, <1>6, <1>7, StepCases

(* A connect() answered on a connection was answered by tlsProcess.        *)
LEMMA AnsweredByTls ==
  ASSUME IInv, IInv', SInv, ReportInv, [Next]_vars, Up', connects' = 1
  PROVE  handshaked'
<1>0. /\ TypeOK /\ LifeInv /\ DataTypes /\ ShapeInv /\ EngineInv
      /\ connects \in Nat /\ connects <= 1
  BY DEF IInv, SInv, TypeOK, ConnectInv, ConnectOnce
<1>1. handshaked' = handshaked \/ (handshaked' = TRUE /\ TlsFinished)
  <2>1. CASE AsideAction
    BY <1>0, <2>1, EngineAsideSteps DEF EngineAside
  <2>2. CASE Return /\ ~Returns BY <1>0, <2>2, LoopReturnFacts
  <2>3. CASE Unwrap BY <1>0, <2>3, UnwrapFacts
  <2>4. CASE UnwrapHandshake BY <1>0, <2>4, HandshakeFacts
  <2>5. CASE UnwrapRead BY <1>0, <2>5, ReadFacts
  <2>6. ASSUME NEW k \in 0..MaxCoalesced, ParentRead(k) PROVE handshaked' = handshaked
    BY <1>0, <2>6, ParentReadFacts
  <2>7. CASE ParentEnds \/ (\E rec \in Record : PeerSends(rec))
    BY <2>7 DEF ParentEnds, PeerSends, flagVars
  <2> QED BY <2>1, <2>2, <2>3, <2>4, <2>5, <2>6, <2>7, StepCases
<1>2. CASE connects = 1 /\ Up
  BY <1>1, <1>2 DEF ReportInv
<1>3. CASE connects # 1
  <2>1. TlsFinished
    <3>1. connects' # connects BY <1>3
    <3>2. ASSUME NEW cb \in Callbacks, Connect(cb) PROVE FALSE
      BY <3>2 DEF Connect, Up
    <3>3. ASSUME NEW ok \in BOOLEAN, ParentConnected(ok) PROVE FALSE
      <4>1. ~ok BY <3>1, <3>3 DEF ParentConnected
      <4> QED BY <3>3, <4>1 DEF ParentConnected, Up
    <3> QED BY <3>1, <3>2, <3>3, AnswersFrom
  <2> QED BY <2>1 DEF TlsFinished
<1>4. CASE ~Up
  <2>1. tcp = "connecting" BY <1>0, <1>4, ParentSteps DEF ParentChange, Up
  <2>2. connects = 0 BY <2>1 DEF IInv, ConnectInv
  <2> QED BY <1>3, <2>2
<1> QED BY <1>2, <1>3, <1>4

(* With the handshake finished and connect_event_ set, tlsProcess reports. *)
LEMMA Connects ==
  ASSUME TypeOK, LifeInv, ShapeInv, AsideAction, Base \in {"sslRead", "tls"},
         state = "handshaked", connectCb
  PROVE  UNCHANGED vars \/ (Base = "tls" /\ Base' = "connected")
<1>1. Len(stack) = 1 /\ Top = Base /\ stack # <<>> BY TopShape
<1>2. ~ProgramStep /\ ~Returns /\ ~EmitDisconnect
  <2>1. Top \notin ProgramFrames \cup {"none", "disconnected"}
    BY <1>1 DEF ProgramFrames
  <2> QED BY <2>1 DEF ProgramStep, Connect, Write, MayWrite, SetSocketOutboundBuffer, Read,
          CancelRead, Disconnect, Close, CloseTheParent, InProgram, Returns, Return,
          EmitDisconnect
<1>3. ~ParentStep BY <1>1, ParentAside
<1>4. CASE TlsProcess
  <2>1. TlsFinished /\ Top = "tls"
    BY <1>4 DEF TlsProcess, TlsFlush, TlsWait, TlsClosing, GetHandshakeStatus
  <2>2. stack' = Append(Below, "connected") BY <2>1 DEF TlsFinished
  <2>3. "connected" \in Frame BY DEF Frame, ProgramFrames
  <2>4. Base' = "connected" BY <1>1, <2>2, <2>3, Replaces
  <2> QED BY <1>1, <2>1, <2>4
<1> QED BY <1>2, <1>3, <1>4 DEF AsideAction

(* ReportInv is inductive for a program that gives connect() a callback    *)
(* and reads once it is called.                                            *)
LEMMA ReportStep ==
  ASSUME ~ReadsLate, IInv, IInv', SInv, SInv', AnswerInv, AnswerInv', ReportInv,
         [Next]_vars
  PROVE  ReportInv'
<1>0. /\ TypeOK /\ LifeInv /\ DataTypes /\ ShapeInv /\ EngineInv
      /\ connects \in Nat /\ connects' \in Nat /\ connects' <= 1
  BY DEF IInv, SInv, TypeOK, ConnectInv, ConnectOnce
<1>1. connects' = connects \/ connects' = connects + 1
  BY <1>0, ConnectSteps, Zenon DEF ConnectChange
<1>2. inbound' => connects' = 1
  <2>1. inbound' => connects = 1 BY InboundStep DEF ReportInv, AnswerInv
  <2> QED BY <1>0, <1>1, <2>1
<1>3. Up' /\ connects' = 1 => handshaked' BY AnsweredByTls
<1>4. ASSUME InitFinished', connects' = 0
      PROVE  Base' \in {"sslRead", "tls"} /\ state' = "handshaked"
  <2>0. connects = 0 /\ ~inbound
    <3>1. connects = 0 BY <1>0, <1>1, <1>4
    <3> QED BY <3>1 DEF ReportInv
  <2>1. CASE UnwrapHandshake /\ ~InitFinished
    <3>1. flights' = PeerFlights /\ flights # PeerFlights
      BY <1>4, <2>1 DEF InitFinished, PeerFlights
    <3> QED BY <1>0, <2>1, <3>1, HandshakeFacts
  <2>2. CASE InitFinished
    <3>1. /\ Base \in {"sslRead", "tls"} /\ state = "handshaked" /\ Up
      BY <2>0, <2>2, FinishedUp DEF ReportInv
    <3>2. connectCb BY <2>0, <3>1 DEF AnswerInv
    <3>3. CASE AsideAction
      <4>1. CASE UNCHANGED vars
        <5>1. UNCHANGED <<stack, state>> BY <4>1 DEF vars, engineVars
        <5> QED BY <3>1, <5>1 DEF Base
      <4>2. CASE Base' = "connected" BY <1>4, <4>2 DEF AnswerInv
      <4> QED BY <1>0, <3>1, <3>2, <3>3, <4>1, <4>2, Connects
    <3>4. CASE Return /\ ~Returns BY <1>0, <3>1, <3>4, LoopReturnFacts
    <3>5. CASE Unwrap BY <1>0, <3>1, <3>5, UnwrapFacts
    <3>6. CASE UnwrapHandshake BY <1>0, <3>1, <3>6, HandshakeFacts
    <3>7. CASE UnwrapRead BY <1>0, <2>0, <3>1, <3>7, ReadFacts
    <3>8. ASSUME NEW k \in 0..MaxCoalesced, ParentRead(k) PROVE FALSE
      BY <1>0, <3>1, <3>8, ParentReadFacts
    <3>9. CASE ParentEnds \/ (\E rec \in Record : PeerSends(rec))
      <4>1. UNCHANGED <<stack, state>> BY <3>9 DEF ParentEnds, PeerSends, engineVars
      <4> QED BY <3>1, <4>1 DEF Base
    <3> QED BY <3>3, <3>4, <3>5, <3>6, <3>7, <3>8, <3>9, StepCases
  <2>3. UnwrapHandshake \/ flights' = flights
    <3>1. AsideAction => flights' = flights BY <1>0, AsideSteps DEF Aside
    <3>2. Return /\ ~Returns => flights' = flights BY <1>0, LoopReturnFacts
    <3>3. Unwrap => flights' = flights BY <1>0, UnwrapFacts
    <3>4. UnwrapRead => flights' = flights BY <1>0, ReadFacts
    <3>5. ASSUME NEW k \in 0..MaxCoalesced, ParentRead(k) PROVE flights' = flights
      BY <1>0, <3>5, ParentReadFacts
    <3>6. ParentEnds \/ (\E rec \in Record : PeerSends(rec)) => flights' = flights
      BY DEF ParentEnds, PeerSends, engineVars
    <3> QED BY <3>1, <3>2, <3>3, <3>4, <3>5, <3>6, StepCases
  <2>4. flights' = flights => InitFinished BY <1>4 DEF InitFinished, PeerFlights
  <2> QED BY <2>1, <2>2, <2>3, <2>4
<1> QED BY <1>2, <1>3, <1>4 DEF ReportInv

(* Before the last flight the peer sends only flights, one at a time.      *)
LEMMA OneFlight ==
  ASSUME SInv, PipeInv, flights + 1 # PeerFlights, ~InitFinished, bioIn # <<>>
  PROVE  Tail(bioIn) = <<>>
<1>1. bioIn \in Seq(Record) /\ flights \in 0..PeerFlights /\ peerSent.flights \in Nat
  BY DEF SInv, DataTypes
<1>2. flights # PeerFlights BY DEF InitFinished
<1>3. peerSent.flights < PeerFlights BY <1>1, <1>2, FlightCount DEF PipeInv
<1>4. \A i \in 1..Len(bioIn) : i = 1 BY <1>3 DEF PipeInv, Orderly, AllFlights
<1>5. Len(bioIn) \in Nat BY <1>1, LenProperties
<1>6. Len(bioIn) <= 1
  <2>1. Len(bioIn) > 0 => Len(bioIn) \in 1..Len(bioIn) BY <1>5
  <2> QED BY <1>4, <1>5, <2>1
<1> QED BY <1>1, <1>6, Single

(* While the BIO is empty it has room for all that one read brings.        *)
LEMMA AllFits ==
  ASSUME MaxCoalesced <= BioCap, SInv, bioIn = <<>>, Len(input) <= MaxCoalesced
  PROVE  Room(input) = Len(input)
<1>1. Len(bioIn) = 0 OBVIOUS
<1>2. input \in Seq(Record) BY DEF SInv, DataTypes
<1>3. Len(input) \in Nat /\ BioCap \in Nat /\ MaxCoalesced \in Nat
  BY <1>2, LenProperties, CapAssumption, BoundsAssumption
<1>4. Len(input) <= BioCap BY <1>3
<1>5. Room(input) = IF Len(input) < BioCap THEN Len(input) ELSE BioCap
  BY <1>1, <1>3 DEF Room
<1> QED BY <1>3, <1>4, <1>5

(* EarlyInv is inductive when one read of the parent fits the BIO and the  *)
(* peer does not reject the handshake.                                     *)
LEMMA EarlyStep ==
  ASSUME MaxCoalesced <= BioCap, IInv, SInv, PipeInv, PipeInv', AnswerInv,
         ReportInv, EarlyInv, [Next]_vars
  PROVE  EarlyInv'
<1>0. /\ TypeOK /\ LifeInv /\ DataTypes /\ ShapeInv /\ EngineInv /\ ~rejected
      /\ ~rejected' /\ connects \in Nat
  BY DEF IInv, SInv, PipeInv, TypeOK
<1>1. connects' = 0 => connects = 0
  <2>1. connects' = connects \/ connects' = connects + 1
    BY <1>0, ConnectSteps, Zenon DEF ConnectChange
  <2> QED BY <1>0, <2>1
<1>2. Len(<<>>) = 0 /\ 0 <= MaxCoalesced BY BoundsAssumption
<1>3. ~InitFinished => /\ Base # "handshake" => bioIn = <<>>
                       /\ Base # "unwrap" => input = <<>>
                       /\ Len(input) <= MaxCoalesced
  BY DEF EarlyInv
<1>4. InitFinished /\ connects = 0 => input = <<>> /\ Base \in {"sslRead", "tls"}
  BY DEF EarlyInv, ReportInv
<1>5. CASE AsideAction
  <2>1. /\ UNCHANGED <<flights, bioIn, input>>
        /\ Base' = Base \/ (Base \in Other /\ Base' \in Other)
    BY <1>0, <1>5, AsideSteps DEF Aside
  <2>2. InitFinished' = InitFinished BY <2>1 DEF InitFinished
  <2>3. (Base' # "handshake" => Base # "handshake") /\ (Base' # "unwrap" => Base # "unwrap")
    BY <2>1 DEF Other
  <2> QED BY <1>1, <1>3, <1>4, <2>1, <2>2, <2>3 DEF EarlyInv
<1>6. CASE Return /\ ~Returns
  <2>1. flights' = flights /\ Base \in {"emitMore", "emitLast"}
    BY <1>0, <1>6, LoopReturnFacts
  <2>2. InitFinished /\ InitFinished' BY <1>0, <2>1 DEF EngineInv, InitFinished
  <2> QED BY <1>1, <1>4, <2>1, <2>2 DEF EarlyInv
<1>7. CASE Unwrap
  <2>1. Base = "unwrap" /\ flights' = flights BY <1>0, <1>7, UnwrapFacts
  <2>2. InitFinished' = InitFinished BY <2>1 DEF InitFinished
  <2>3. CASE InitFinished BY <1>1, <1>4, <2>1, <2>2, <2>3 DEF EarlyInv
  <2>4. CASE ~InitFinished
    <3>1. bioIn = <<>> /\ Len(input) <= MaxCoalesced BY <1>3, <2>1, <2>4
    <3>2. Len(bioIn) = 0 /\ BioCap # 0 BY <3>1, CapAssumption
    <3>3. Base' = "handshake" /\ Taken(Room(input))
      BY <1>0, <1>7, <2>4, <3>2, UnwrapFacts
    <3>4. Room(input) = Len(input) BY <3>1, AllFits
    <3>5. Len(input) \in Nat BY <1>0, LenProperties DEF DataTypes
    <3>6. input' \in Seq(Record) /\ Len(input') = Len(input) - Len(input)
      BY <3>3, <3>4 DEF Taken
    <3>7. Len(input') = 0 BY <3>5, <3>6
    <3>8. input' = <<>> BY <3>6, <3>7, Shorts
    <3> QED BY <1>2, <2>2, <2>4, <3>3, <3>8 DEF EarlyInv
  <2> QED BY <2>3, <2>4
<1>8. CASE UnwrapHandshake
  <2>1. Base = "handshake" /\ ~InitFinished BY <1>0, <1>8, HandshakeFacts
  <2>2. input = <<>> BY <1>3, <2>1
  <2>3. CASE flights + 1 = PeerFlights /\ flights' = flights + 1 /\ input' = input
    <3>1. InitFinished' BY <2>3 DEF InitFinished, PeerFlights
    <3> QED BY <2>2, <2>3, <3>1 DEF EarlyInv
  <2>4. CASE /\ bioIn # <<>> /\ flights + 1 # PeerFlights /\ flights' = flights + 1
             /\ bioIn' = Tail(bioIn) /\ input' = <<>> /\ Base' = "tls"
    <3>1. bioIn' = <<>> BY <2>1, <2>4, OneFlight
    <3> QED BY <1>2, <2>4, <3>1 DEF EarlyInv
  <2>5. CASE bioIn = <<>> /\ bioIn' = bioIn /\ input' = <<>> /\ Base' = "tls"
    BY <1>2, <2>5 DEF EarlyInv
  <2> QED BY <1>0, <1>8, <2>3, <2>4, <2>5, HandshakeFacts
<1>9. CASE UnwrapRead
  <2>1. Base = "sslRead" /\ flights' = flights /\ (input' = input \/ input' = <<>>)
    BY <1>0, <1>9, ReadFacts
  <2>2. InitFinished /\ InitFinished' BY <1>0, <2>1 DEF EngineInv, InitFinished
  <2> QED BY <1>1, <1>4, <2>1, <2>2 DEF EarlyInv
<1>10. ASSUME NEW k \in 0..MaxCoalesced, ParentRead(k) PROVE EarlyInv'
  <2>1. /\ Base = "idle" /\ Base' = "unwrap" /\ UNCHANGED <<flights, bioIn>>
        /\ Len(input') = k
    BY <1>0, <1>10, ParentReadFacts
  <2>2. k <= MaxCoalesced BY BoundsAssumption
  <2>3. InitFinished' = InitFinished BY <2>1 DEF InitFinished
  <2> QED BY <1>1, <1>3, <1>4, <2>1, <2>2, <2>3 DEF EarlyInv
<1>11. CASE ParentEnds \/ (\E rec \in Record : PeerSends(rec))
  <2>1. UNCHANGED <<flights, bioIn, input, stack>>
    BY <1>11 DEF ParentEnds, PeerSends, engineVars
  <2>2. Base' = Base /\ InitFinished' = InitFinished BY <2>1 DEF Base, InitFinished
  <2> QED BY <1>1, <1>3, <1>4, <2>1, <2>2 DEF EarlyInv
<1> QED BY <1>5, <1>6, <1>7, <1>8, <1>9, <1>10, <1>11, StepCases

(* A step that ends an early read has put all of it into the BIO.          *)
LEMMA EarlyKept ==
  ASSUME MaxCoalesced <= BioCap, IInv, SInv, ReportInv, EarlyInv, [Next]_vars
  PROVE  ~handshaked /\ ~rejected /\ input # <<>> /\ input' = <<>> =>
           Len(bioIn') = Len(bioIn) + Len(input)
<1> SUFFICES ASSUME ~handshaked, input # <<>>, input' = <<>>
             PROVE  Len(bioIn') = Len(bioIn) + Len(input)
  OBVIOUS
<1>0. /\ TypeOK /\ LifeInv /\ DataTypes /\ ShapeInv /\ EngineInv
      /\ connects \in Nat /\ connects <= 1
  BY DEF IInv, SInv, TypeOK, ConnectInv, ConnectOnce
<1>1. ~InitFinished
  <2>1. ASSUME InitFinished PROVE FALSE
    <3>1. Up BY <2>1, FinishedUp
    <3>2. connects # 0 BY <2>1 DEF EarlyInv
    <3>3. connects = 1 BY <1>0, <3>2
    <3> QED BY <3>1, <3>3 DEF ReportInv
  <2> QED BY <2>1
<1>2. Base = "unwrap" /\ bioIn = <<>> /\ Len(input) <= MaxCoalesced
  BY <1>1 DEF EarlyInv
<1>3. CASE Unwrap
  <2>1. Len(bioIn) # BioCap BY <1>2, CapAssumption
  <2>2. Room(input) = Len(input) BY <1>2, AllFits
  <2>3. Taken(Room(input)) BY <1>0, <1>3, <2>1, UnwrapFacts
  <2> QED BY <2>2, <2>3 DEF Taken
<1>4. ~AsideAction BY <1>0, AsideSteps DEF Aside
<1>5. ~(Return /\ ~Returns) BY <1>0, <1>2, LoopReturnFacts
<1>6. ~UnwrapHandshake BY <1>0, <1>2, HandshakeFacts
<1>7. ~UnwrapRead BY <1>0, <1>2, ReadFacts
<1>8. \A k \in 0..MaxCoalesced : ~ParentRead(k) BY <1>0, <1>2, ParentReadFacts
<1>9. ~ParentEnds /\ \A rec \in Record : ~PeerSends(rec)
  BY DEF ParentEnds, PeerSends
<1> QED BY <1>3, <1>4, <1>5, <1>6, <1>7, <1>8, <1>9, StepCases

-----------------------------------------------------------------------------
(* The records of the peer.                                                *)

(* A part of what the peer sent is in order too.                           *)
LEMMA OrderlyPart ==
  ASSUME NEW s \in Seq(Record), NEW t \in Seq(Record), NEW k \in Nat,
         Len(t) + k <= Len(s), \A i \in 1..Len(t) : t[i] = s[k + i]
  PROVE  /\ Orderly(s) => Orderly(t) /\ (k > 0 => NoFlights(t))
         /\ NoFlights(s) => NoFlights(t)
         /\ AllFlights(s) => AllFlights(t)
<1>1. Len(s) \in Nat /\ Len(t) \in Nat BY LenProperties
<1>2. ASSUME NEW i \in 1..Len(t)
      PROVE  t[i] = s[k + i] /\ k + i \in 1..Len(s) /\ (k + i = 1 => i = 1 /\ k = 0)
  BY <1>1, <1>2
<1>3. NoFlights(s) => NoFlights(t) BY <1>2 DEF NoFlights
<1>4. AllFlights(s) => AllFlights(t) BY <1>2 DEF AllFlights
<1>5. ASSUME Orderly(s) PROVE Orderly(t) /\ (k > 0 => NoFlights(t))
  <2>1. ASSUME NEW i \in 1..Len(t)
        PROVE  t[i] # "bad" /\ (t[i] = "flight" => i = 1 /\ k = 0)
    BY <1>2, <1>5, <2>1 DEF Orderly
  <2>2. k > 0 => NoFlights(t) BY <2>1 DEF NoFlights
  <2> QED BY <1>3, <1>4, <1>5, <2>1, <2>2 DEF Orderly
<1> QED BY <1>3, <1>4, <1>5

LEMMA OrderlyNone == Orderly(<<>>) /\ NoFlights(<<>>) /\ AllFlights(<<>>)
<1>1. \A i \in 1..Len(<<>>) : FALSE OBVIOUS
<1> QED BY <1>1 DEF Orderly, NoFlights, AllFlights

LEMMA OrderlyRest ==
  ASSUME NEW s \in Seq(Record), s # <<>>
  PROVE  /\ Orderly(s) => Orderly(Tail(s)) /\ NoFlights(Tail(s))
         /\ NoFlights(s) => NoFlights(Tail(s))
         /\ AllFlights(s) => AllFlights(Tail(s))
<1>1. /\ Tail(s) \in Seq(Record) /\ Len(Tail(s)) = Len(s) - 1 /\ Len(s) \in Nat \ {0}
      /\ \A i \in 1..Len(s) - 1 : Tail(s)[i] = s[i + 1]
  BY Rest
<1>2. Len(Tail(s)) + 1 <= Len(s) /\ \A i \in 1..Len(Tail(s)) : Tail(s)[i] = s[1 + i]
  BY <1>1
<1>3. /\ Orderly(s) => Orderly(Tail(s)) /\ (1 > 0 => NoFlights(Tail(s)))
      /\ NoFlights(s) => NoFlights(Tail(s))
      /\ AllFlights(s) => AllFlights(Tail(s))
  <2> DEFINE t == Tail(s)
  <2>1. t \in Seq(Record) /\ Len(t) + 1 <= Len(s) /\ \A i \in 1..Len(t) : t[i] = s[1 + i]
    BY <1>1, <1>2
  <2>2. 1 \in Nat OBVIOUS
  <2> HIDE DEF t
  <2>3. /\ Orderly(s) => Orderly(t) /\ (1 > 0 => NoFlights(t))
        /\ NoFlights(s) => NoFlights(t)
        /\ AllFlights(s) => AllFlights(t)
    BY <2>1, <2>2, OrderlyPart
  <2> QED BY <2>3 DEF t
<1>4. 1 > 0 OBVIOUS
<1> QED BY <1>3, <1>4

(* No flights, and nothing but flights: nothing.                           *)
LEMMA OnlyNone ==
  ASSUME NEW s \in Seq(Record), AllFlights(s), NoFlights(s)
  PROVE  s = <<>>
<1>1. Len(s) \in Nat /\ (s = <<>> <=> Len(s) = 0) BY Shorts
<1>2. Len(s) # 0 => 1 \in 1..Len(s) BY <1>1
<1> QED BY <1>1, <1>2 DEF AllFlights, NoFlights

(* After the handshake no flight is on its way.                            *)
LEMMA FlightsOver ==
  ASSUME SInv, PipeInv, InitFinished
  PROVE  /\ peerSent.flights = flights /\ peerSent.flights = PeerFlights
         /\ NoFlights(bioIn) /\ NoFlights(input) /\ NoFlights(net)
<1>1. flights = PeerFlights /\ peerSent.flights \in Nat /\ PeerFlights \in Nat
  BY FlightCount DEF SInv, DataTypes, InitFinished
<1>2. peerSent.flights = PeerFlights BY <1>1 DEF PipeInv
<1> QED BY <1>1, <1>2 DEF PipeInv, Orderly

(* PipeInv, step by step.                                                  *)
LEMMA PipeAside ==
  ASSUME IInv, SInv, PipeInv, AsideAction
  PROVE  PipeInv'
<1>0. TypeOK /\ LifeInv /\ DataTypes /\ ShapeInv /\ FreshInv BY DEF IInv, SInv
<1>1. Aside BY <1>0, AsideSteps
<1>2. UNCHANGED <<flights, rejected, bioIn, plain, input, net, peerSent>>
  BY <1>1 DEF Aside
<1>3. Base' = "handshake" => Base = "handshake" BY <1>1 DEF Aside, Other
<1>4. UNCHANGED <<InitFinished, Orderly(bioIn), Orderly(input), Orderly(net),
                  NoFlights(input), NoFlights(net)>>
  BY <1>2 DEF InitFinished, Orderly, AllFlights, NoFlights, PeerFlights
<1>5. [Next]_vars BY DEF AsideAction, Returns, Next, OwnStep
<1>6. ParentChange BY <1>0, <1>5, ParentSteps
<1>7. tcp' = "up" => tcp = "up" \/ ~(peerSent.flights > flights)
  <2>1. tcp' = "up" => tcp = "up" \/ tcp = "connecting" BY <1>6 DEF ParentChange
  <2>2. tcp = "connecting" => peerSent.flights = 0 /\ flights = 0
    BY <1>0 DEF FreshInv, Up
  <2> QED BY <2>1, <2>2
<1> QED BY <1>2, <1>3, <1>4, <1>7 DEF PipeInv, PeerFlights

(* Records only move on when unwrap takes them.                            *)
LEMMA TakenFrom ==
  ASSUME DataTypes, NEW r \in Nat, Taken(r), NEW i \in 1..Len(bioIn')
  PROVE  \/ i \in 1..Len(bioIn) /\ bioIn'[i] = bioIn[i]
         \/ /\ i - Len(bioIn) \in 1..Len(input)
            /\ bioIn'[i] = input[i - Len(bioIn)]
<1>1. /\ r <= Len(input) /\ Len(bioIn') = Len(bioIn) + r
      /\ \A k \in 1..Len(bioIn) : bioIn'[k] = bioIn[k]
      /\ \A k \in 1..r : bioIn'[Len(bioIn) + k] = input[k]
  BY DEF Taken
<1>2. Len(bioIn) \in Nat /\ Len(input) \in Nat BY LenProperties DEF DataTypes
<1>3. CASE i <= Len(bioIn) BY <1>1, <1>2, <1>3
<1>4. CASE i > Len(bioIn)
  <2> DEFINE j == i - Len(bioIn)
  <2>1. j \in 1..r /\ j \in 1..Len(input) /\ i = Len(bioIn) + j BY <1>1, <1>2, <1>4
  <2>2. bioIn'[Len(bioIn) + j] = input[j] BY <1>1, <2>1
  <2> QED BY <2>1, <2>2
<1> QED BY <1>1, <1>2, <1>3, <1>4

LEMMA TakenFlights ==
  ASSUME DataTypes, NEW r \in Nat, Taken(r), AllFlights(bioIn), AllFlights(input)
  PROVE  AllFlights(bioIn') /\ AllFlights(input')
<1>1. AllFlights(bioIn') BY TakenFrom DEF AllFlights
<1>2. AllFlights(input')
  <2>1. /\ r <= Len(input) /\ Len(input') = Len(input) - r
        /\ \A i \in 1..Len(input) - r : input'[i] = input[r + i]
    BY DEF Taken
  <2>2. Len(input) \in Nat BY LenProperties DEF DataTypes
  <2>3. \A i \in 1..Len(input) - r : r + i \in 1..Len(input) BY <2>1, <2>2
  <2> QED BY <2>1, <2>3 DEF AllFlights
<1> QED BY <1>1, <1>2

LEMMA PipeUnwrap ==
  ASSUME IInv, SInv, PipeInv, Unwrap
  PROVE  PipeInv'
<1>0. TypeOK /\ DataTypes /\ ShapeInv BY DEF IInv, SInv
<1>1. UNCHANGED <<flights, rejected, tcp, net, peerSent>> BY <1>0, UnwrapFacts
<1>2. UNCHANGED <<InitFinished, Orderly(net), NoFlights(net)>>
  BY <1>1 DEF InitFinished, Orderly, AllFlights, NoFlights, PeerFlights
<1>3. bioIn \in Seq(Record) /\ input \in Seq(Record) BY <1>0 DEF DataTypes
<1>4. /\ Len(bioIn) \in Nat /\ (bioIn = <<>> <=> Len(bioIn) = 0)
      /\ Len(input) \in Nat /\ (input = <<>> <=> Len(input) = 0)
  BY <1>3, Shorts
<1>5. BioCap \in Nat /\ BioCap # 0 BY CapAssumption
<1>6. CASE /\ input # <<>> /\ Len(bioIn) = BioCap /\ bioIn' = bioIn
           /\ input' = <<>> /\ Base' = "tls"
  <2>1. bioIn # <<>> BY <1>4, <1>5, <1>6
  <2>2. Orderly(bioIn)' /\ Orderly(input)' /\ NoFlights(input)'
    <3>1. Orderly(bioIn)' BY <1>1, <1>6 DEF PipeInv, Orderly, AllFlights, NoFlights, PeerFlights
    <3>2. \A i \in 1..Len(<<>>) : FALSE OBVIOUS
    <3> QED BY <1>6, <3>1, <3>2 DEF Orderly, AllFlights, NoFlights
  <2> QED BY <1>1, <1>2, <1>6, <2>1, <2>2 DEF PipeInv, PeerFlights
<1>7. CASE Taken(Room(input)) /\ (input # <<>> => Room(input) > 0)
  <2> DEFINE r == Room(input)
  <2>0. Taken(r) /\ (input # <<>> => r > 0) /\ r \in Nat /\ r <= Len(input)
        /\ (r = Len(input) \/ Len(bioIn) + r = BioCap)
    BY <1>0, <1>7, RoomFacts
  <2> HIDE DEF r
  <2>1. /\ bioIn' \in Seq(Record) /\ input' \in Seq(Record)
        /\ Len(bioIn') = Len(bioIn) + r /\ Len(input') = Len(input) - r
        /\ \A i \in 1..Len(bioIn) : bioIn'[i] = bioIn[i]
        /\ \A i \in 1..r : bioIn'[Len(bioIn) + i] = input[i]
        /\ \A i \in 1..Len(input) - r : input'[i] = input[r + i]
    BY <2>0 DEF Taken
  <2>2. /\ Len(bioIn') \in Nat /\ (bioIn' = <<>> <=> Len(bioIn') = 0)
        /\ Len(input') \in Nat /\ (input' = <<>> <=> Len(input') = 0)
    BY <2>1, Shorts
  <2>3. /\ Orderly(input') /\ (r > 0 => NoFlights(input'))
        /\ NoFlights(input) => NoFlights(input')
    <3>1. Len(input') + r <= Len(input) /\ \A i \in 1..Len(input') : input'[i] = input[r + i]
      BY <1>4, <2>0, <2>1
    <3>2. Orderly(input) BY DEF PipeInv
    <3> QED BY <1>3, <2>0, <2>1, <3>1, <3>2, OrderlyPart
  <2>4. ASSUME NEW i \in 1..Len(bioIn')
        PROVE  \/ i \in 1..Len(bioIn) /\ bioIn'[i] = bioIn[i]
               \/ /\ i - Len(bioIn) \in 1..Len(input)
                  /\ bioIn'[i] = input[i - Len(bioIn)]
    BY <1>0, <2>0, <2>4, TakenFrom
  <2>5. Orderly(bioIn')
    <3>1. Orderly(bioIn) /\ Orderly(input) /\ (bioIn # <<>> => NoFlights(input))
      BY DEF PipeInv
    <3>2. ASSUME NEW i \in 1..Len(bioIn')
          PROVE  bioIn'[i] # "bad" /\ (bioIn'[i] = "flight" => i = 1)
      <4>1. CASE i \in 1..Len(bioIn) /\ bioIn'[i] = bioIn[i]
        BY <3>1, <4>1 DEF Orderly
      <4>2. CASE /\ i - Len(bioIn) \in 1..Len(input)
                 /\ bioIn'[i] = input[i - Len(bioIn)]
        <5>1. bioIn'[i] # "bad" BY <3>1, <4>2 DEF Orderly
        <5>2. CASE bioIn # <<>> BY <3>1, <4>2, <5>1, <5>2 DEF NoFlights
        <5>3. CASE bioIn = <<>>
          <6>1. i - Len(bioIn) = i BY <1>4, <2>1, <5>3
          <6> QED BY <3>1, <4>2, <5>1, <6>1 DEF Orderly
        <5> QED BY <5>2, <5>3
      <4> QED BY <2>4, <4>1, <4>2
    <3>3. AllFlights(bioIn) /\ AllFlights(input) => AllFlights(bioIn')
      BY <2>4 DEF AllFlights
    <3>4. NoFlights(bioIn) /\ NoFlights(input) => NoFlights(bioIn')
      BY <2>4 DEF NoFlights
    <3> QED BY <3>1, <3>2, <3>3, <3>4 DEF Orderly
  <2>6. Orderly(bioIn)' /\ Orderly(input)' /\ (NoFlights(input)' <=> NoFlights(input'))
    BY <1>1, <2>3, <2>5 DEF Orderly, AllFlights, NoFlights, PeerFlights
  <2>7. bioIn' # <<>> => NoFlights(input)' /\ NoFlights(net)'
    <3>1. CASE bioIn # <<>> BY <1>2, <2>3, <2>6, <3>1 DEF PipeInv
    <3>2. CASE bioIn = <<>>
      <4>1. bioIn' # <<>> => r > 0 BY <1>4, <2>0, <2>1, <2>2, <3>2
      <4>2. r > 0 => input # <<>> BY <1>4, <2>0
      <4> QED BY <1>2, <2>3, <2>6, <4>1, <4>2 DEF PipeInv
    <3> QED BY <3>1, <3>2
  <2>8. input' # <<>> => input # <<>>
    BY <1>4, <2>0, <2>1, <2>2
  <2>9. bioIn' = <<>> => bioIn = <<>> /\ input = <<>> /\ input' = <<>>
    BY <1>4, <1>5, <2>0, <2>1, <2>2
  <2>10. bioIn' # <<>> =>
           \/ bioIn # <<>> /\ bioIn'[1] = bioIn[1]
           \/ bioIn = <<>> /\ input # <<>> /\ bioIn'[1] = input[1]
    <3>1. bioIn' # <<>> => 1 \in 1..Len(bioIn') BY <2>2
    <3>2. 1 \in 1..Len(bioIn) => bioIn # <<>> BY <1>4
    <3>3. 1 - Len(bioIn) \in 1..Len(input) => bioIn = <<>> /\ 1 - Len(bioIn) = 1 /\ input # <<>>
      BY <1>4
    <3> QED BY <2>4, <3>1, <3>2, <3>3
  <2>11. ~InitFinished =>
           /\ bioIn' # <<>> => bioIn'[1] = "flight"
           /\ bioIn' = <<>> /\ net # <<>> => net[1] = "flight"
           /\ tcp = "up" /\ peerSent.flights > flights => ~(bioIn' = <<>> /\ net = <<>>)
    BY <2>9, <2>10 DEF PipeInv
  <2> QED BY <1>1, <1>2, <2>6, <2>7, <2>8, <2>9, <2>11 DEF PipeInv, PeerFlights
<1> QED BY <1>0, <1>6, <1>7, UnwrapFacts

LEMMA PipeHandshake ==
  ASSUME IInv, SInv, PipeInv, UnwrapHandshake
  PROVE  PipeInv'
<1>0. TypeOK /\ DataTypes /\ ShapeInv /\ EngineInv BY DEF IInv, SInv
<1>1. /\ Base = "handshake" /\ ~InitFinished /\ ~rejected
      /\ UNCHANGED <<tcp, net, peerSent>>
  BY <1>0, HandshakeFacts DEF PipeInv
<1>2. bioIn # <<>> => bioIn[1] = "flight" BY <1>1 DEF PipeInv
<1>3. /\ bioIn \in Seq(Record) /\ input \in Seq(Record) /\ net \in Seq(Record)
      /\ flights \in Nat /\ peerSent.flights \in Nat /\ PeerFlights \in Nat
      /\ flights # PeerFlights /\ flights <= PeerFlights
  BY <1>0, <1>1, FlightCount DEF DataTypes, InitFinished
<1>4. /\ Orderly(bioIn) /\ Orderly(input) /\ Orderly(net)
      /\ flights <= peerSent.flights /\ peerSent.flights <= flights + 1
      /\ peerSent.flights <= PeerFlights
  BY DEF PipeInv
<1>5. CASE /\ bioIn # <<>> /\ bioIn[1] = "flight"
           /\ flights' = flights + 1 /\ rejected' = rejected /\ bioIn' = Tail(bioIn)
           /\ Base' # "handshake"
           /\ \/ flights + 1 = PeerFlights /\ input' = input
              \/ flights + 1 # PeerFlights /\ input' = <<>>
  <2>1. NoFlights(input) /\ NoFlights(net) BY <1>5 DEF PipeInv
  <2>2. peerSent.flights = flights + 1
    <3>1. Len(bioIn) \in Nat /\ Len(bioIn) # 0 BY <1>3, <1>5, Shorts
    <3>2. 1 \in 1..Len(bioIn) BY <3>1
    <3>3. ~NoFlights(bioIn) BY <1>5, <3>2 DEF NoFlights
    <3>4. peerSent.flights # flights BY <1>4, <3>3 DEF Orderly
    <3> QED BY <1>3, <1>4, <3>4
  <2>3. Orderly(Tail(bioIn)) /\ NoFlights(Tail(bioIn))
        /\ (AllFlights(bioIn) => AllFlights(Tail(bioIn)))
    BY <1>3, <1>4, <1>5, OrderlyRest
  <2>4. Orderly(<<>>) /\ NoFlights(<<>>) BY OrderlyNone
  <2>5. Orderly(input') /\ NoFlights(input') BY <1>4, <1>5, <2>1, <2>4
  <2>7. Orderly(bioIn)'
    <3>1. (peerSent.flights < PeerFlights)' => AllFlights(bioIn')
      BY <1>1, <1>5, <2>3 DEF Orderly, PeerFlights
    <3>2. NoFlights(bioIn') /\ \A i \in 1..Len(bioIn') : bioIn'[i] # "bad" 
      BY <1>5, <2>3 DEF Orderly
    <3> QED BY <3>1, <3>2 DEF Orderly, NoFlights, AllFlights
  <2>8. Orderly(input)'
    <3>1. (peerSent.flights < PeerFlights)' => AllFlights(input')
      BY <1>1, <2>5 DEF Orderly, PeerFlights
    <3> QED BY <2>5, <3>1 DEF Orderly, NoFlights, AllFlights
  <2>9. Orderly(net)' /\ NoFlights(net)' /\ NoFlights(input)'
    <3>1. (peerSent.flights < PeerFlights)' => AllFlights(net)
      BY <1>1, <1>4 DEF Orderly, PeerFlights
    <3> QED BY <1>1, <1>4, <2>1, <2>5, <3>1 DEF Orderly, NoFlights, AllFlights
  <2>10. ~InitFinished' => bioIn' = <<>> /\ input' = <<>> /\ net' = <<>>
    <3>1. ~InitFinished' => flights + 1 # PeerFlights
      BY <1>5 DEF InitFinished, PeerFlights
    <3>2. ASSUME flights + 1 # PeerFlights PROVE bioIn' = <<>> /\ input' = <<>> /\ net' = <<>>
      <4>1. peerSent.flights < PeerFlights BY <1>3, <1>4, <2>2, <3>2
      <4>2. AllFlights(Tail(bioIn)) /\ AllFlights(net) BY <1>4, <2>3, <4>1 DEF Orderly
      <4>3. Tail(bioIn) \in Seq(Record) BY <1>3, <1>5, Rest
      <4>4. Tail(bioIn) = <<>> BY <2>3, <4>2, <4>3, OnlyNone
      <4>5. net = <<>> BY <1>3, <2>1, <4>2, OnlyNone
      <4> QED BY <1>1, <1>5, <3>2, <4>4, <4>5
    <3> QED BY <3>1, <3>2
  <2>11. flights' <= peerSent'.flights /\ peerSent'.flights <= flights' + 1
         /\ peerSent'.flights <= PeerFlights /\ ~(peerSent'.flights > flights')
    BY <1>1, <1>3, <1>4, <1>5, <2>2
  <2> QED BY <1>1, <1>5, <2>7, <2>8, <2>9, <2>10, <2>11 DEF PipeInv, PeerFlights
<1>6. CASE /\ bioIn = <<>> /\ UNCHANGED <<flights, rejected, bioIn>>
           /\ Base' # "handshake" /\ input' = <<>>
  <2>1. input = <<>> BY <1>1, <1>6 DEF PipeInv
  <2>2. UNCHANGED <<input, bioIn, net, flights, peerSent, rejected, tcp>> BY <1>1, <1>6, <2>1
  <2>4. ~rejected' /\ Orderly(bioIn)' /\ Orderly(input)' /\ Orderly(net)' /\ bioIn' = <<>>
    <3>1. Orderly(bioIn)' BY <1>4, <2>2 DEF Orderly, AllFlights, NoFlights, PeerFlights
    <3>2. Orderly(input)' BY <1>4, <2>2 DEF Orderly, AllFlights, NoFlights, PeerFlights
    <3>3. Orderly(net)' BY <1>4, <2>2 DEF Orderly, AllFlights, NoFlights, PeerFlights
    <3>4. ~rejected' /\ bioIn' = <<>> BY <1>1, <1>6
    <3> QED BY <3>1, <3>2, <3>3, <3>4
  <2>5. input' # <<>> => NoFlights(net)' BY <1>6
  <2>6. ~InitFinished' => /\ net' # <<>> => net'[1] = "flight"
                          /\ (tcp = "up" /\ peerSent.flights > flights)' => net' # <<>>
    BY <1>1, <1>6, <2>1, <2>2 DEF PipeInv
  <2>7. (flights <= peerSent.flights /\ peerSent.flights <= flights + 1
         /\ peerSent.flights <= PeerFlights)'
    BY <1>4, <2>2 DEF PeerFlights
  <2> QED BY <1>6, <2>4, <2>5, <2>6, <2>7 DEF PipeInv
<1> QED BY <1>0, <1>1, <1>2, <1>5, <1>6, HandshakeFacts

LEMMA PipeRead ==
  ASSUME IInv, SInv, PipeInv, UnwrapRead
  PROVE  PipeInv'
<1>0. TypeOK /\ DataTypes /\ ShapeInv /\ EngineInv BY DEF IInv, SInv
<1>1. /\ Base = "sslRead" /\ UNCHANGED <<flights, tcp, net, peerSent>> /\ ~rejected
  BY <1>0, ReadFacts DEF PipeInv
<1>2. InitFinished /\ InitFinished' BY <1>0, <1>1 DEF EngineInv, InitFinished
<1>3. NoFlights(bioIn) /\ NoFlights(input) /\ NoFlights(net)
  BY <1>2, FlightsOver
<1>4. /\ bioIn \in Seq(Record) /\ Orderly(bioIn) /\ Orderly(input) /\ Orderly(net)
  BY <1>0 DEF DataTypes, PipeInv
<1>5. Orderly(<<>>) /\ NoFlights(<<>>) BY OrderlyNone
<1>6. bioIn # <<>> => bioIn[1] \in Record \ {"bad", "flight"}
  <2>1. bioIn # <<>> => bioIn[1] \in Record BY <1>4, Rest
  <2>2. bioIn # <<>> => 1 \in 1..Len(bioIn)
    <3>1. Len(bioIn) \in Nat /\ (bioIn # <<>> => Len(bioIn) # 0) BY <1>4, Shorts
    <3> QED BY <3>1
  <2> QED BY <1>3, <1>4, <2>1, <2>2 DEF Orderly, NoFlights
<1>7. ASSUME ~rejected', Orderly(bioIn'), NoFlights(bioIn'),
             input' = input \/ input' = <<>>, Base' # "handshake"
      PROVE  PipeInv'
  <2>1. Orderly(input') /\ NoFlights(input') BY <1>3, <1>4, <1>5, <1>7
  <2>2. Orderly(bioIn)' /\ Orderly(input)' /\ Orderly(net)' /\ NoFlights(input)'
        /\ NoFlights(net)'
    BY <1>1, <1>3, <1>4, <1>7, <2>1 DEF Orderly, AllFlights, NoFlights, PeerFlights
  <2> QED BY <1>1, <1>2, <1>7, <2>2 DEF PipeInv, PeerFlights
<1>8. bioIn # <<>> => Orderly(Tail(bioIn)) /\ NoFlights(Tail(bioIn))
  BY <1>4, OrderlyRest
<1>9. /\ Base' # "handshake" /\ (input' = input \/ input' = <<>>)
      /\ bioIn' = bioIn \/ (bioIn # <<>> /\ bioIn' = Tail(bioIn))
  BY <1>0, ReadFacts
<1>10. ~rejected'
  <2>1. CASE UNCHANGED rejected BY <1>1, <2>1
  <2>2. CASE /\ rejected \/ (plain = 0 /\ (bioIn = <<>> \/ bioIn[1] \notin {"app", "long"}))
             /\ rejected' = (rejected \/ (bioIn # <<>> /\ bioIn[1] # "notify"))
    BY <1>1, <1>6, <2>2 DEF Record
  <2> QED BY <1>0, <2>1, <2>2, ReadFacts
<1> QED BY <1>3, <1>4, <1>7, <1>8, <1>9, <1>10

LEMMA PipeParentRead ==
  ASSUME IInv, SInv, PipeInv, NEW k \in 0..MaxCoalesced, ParentRead(k)
  PROVE  PipeInv'
<1>0. TypeOK /\ DataTypes /\ ShapeInv /\ EngineInv BY DEF IInv, SInv
<1>1. /\ Base = "idle" /\ Base' = "unwrap"
      /\ UNCHANGED <<flights, rejected, bioIn, tcp, peerSent>>
      /\ k \in Nat /\ k <= Len(net) /\ net # <<>>
      /\ input' \in Seq(Record) /\ net' \in Seq(Record)
      /\ Len(input') = k /\ Len(net') = Len(net) - k
      /\ \A i \in 1..k : input'[i] = net[i]
      /\ \A i \in 1..Len(net) - k : net'[i] = net[k + i]
  BY <1>0, ParentReadFacts
<1>2. input = <<>> BY <1>0, <1>1 DEF EngineInv, Reading
<1>3. /\ net \in Seq(Record) /\ Orderly(net)
      /\ Len(net) \in Nat /\ Len(net) # 0
  BY <1>0, <1>1, Shorts DEF DataTypes, PipeInv
<1>4. Orderly(input') /\ (NoFlights(net) => NoFlights(input'))
  <2>1. Len(input') + 0 <= Len(net) /\ \A i \in 1..Len(input') : input'[i] = net[0 + i]
    BY <1>1, <1>3
  <2>2. 0 \in Nat OBVIOUS
  <2> QED BY <1>1, <1>3, <2>1, <2>2, OrderlyPart
<1>5. Orderly(net') /\ (k > 0 => NoFlights(net')) /\ (NoFlights(net) => NoFlights(net'))
  <2>1. Len(net') + k <= Len(net) /\ \A i \in 1..Len(net') : net'[i] = net[k + i]
    BY <1>1, <1>3
  <2> QED BY <1>1, <1>3, <2>1, OrderlyPart
<1>6. /\ Orderly(bioIn)' /\ Orderly(input)' /\ Orderly(net)' /\ InitFinished' = InitFinished
      /\ (NoFlights(input)' <=> NoFlights(input')) /\ (NoFlights(net)' <=> NoFlights(net'))
  BY <1>1, <1>4, <1>5 DEF PipeInv, InitFinished, Orderly, AllFlights, NoFlights, PeerFlights
<1>7. (input' # <<>> <=> k > 0) /\ (net' # <<>> <=> k < Len(net))
  <2>1. (input' = <<>> <=> Len(input') = 0) /\ (net' = <<>> <=> Len(net') = 0)
    BY <1>1, Shorts
  <2> QED BY <1>1, <1>3, <2>1
<1>8. k > 0 => input'[1] = net[1]
  <2>1. k > 0 => 1 \in 1..k BY <1>1
  <2> QED BY <1>1, <2>1
<1>9. k = 0 => net' # <<>> /\ net'[1] = net[1]
  <2>1. k = 0 => 1 \in 1..Len(net) - k /\ k + 1 = 1 BY <1>1, <1>3
  <2>2. k = 0 => k < Len(net) BY <1>3
  <2> QED BY <1>1, <1>7, <2>1, <2>2
<1>10. k = 0 \/ k > 0 BY <1>1
<1>11. ~InitFinished =>
         /\ bioIn = <<>> /\ input' # <<>> => input'[1] = "flight"
         /\ bioIn = <<>> /\ input' = <<>> /\ net' # <<>> => net'[1] = "flight"
         /\ ~(input' = <<>> /\ net' = <<>>)
  <2>1. ~InitFinished /\ bioIn = <<>> => net[1] = "flight" BY <1>1, <1>2 DEF PipeInv
  <2> QED BY <1>7, <1>8, <1>9, <1>10, <2>1
<1>12. bioIn # <<>> => NoFlights(input') /\ NoFlights(net') BY <1>4, <1>5 DEF PipeInv
<1> QED BY <1>1, <1>5, <1>6, <1>7, <1>11, <1>12 DEF PipeInv, PeerFlights

(* The peer answers a flight only when the one before was consumed: the    *)
(* client has made no more than it was asked for.                          *)
LEMMA PipePeer ==
  ASSUME ~PeerRejects, IInv, SInv, PipeInv, WireInv, NEW rec \in Record, PeerSends(rec)
  PROVE  PipeInv'
<1>0. TypeOK /\ DataTypes BY DEF IInv, SInv
<1>1. /\ tcp = "up" /\ parent = "open" /\ net' = Append(net, rec)
      /\ UNCHANGED <<flights, rejected, bioIn, input, tcp, stack>>
  BY DEF PeerSends, engineVars, parentVars
<1>2. /\ bioIn \in Seq(Record) /\ input \in Seq(Record) /\ net \in Seq(Record)
      /\ flights \in Nat /\ peerSent.flights \in Nat /\ PeerFlights \in Nat
      /\ peerSent \in [flights: Nat, others: Nat]
  BY <1>0, FlightCount DEF DataTypes
<1>3. UNCHANGED <<Base, InitFinished>> BY <1>1 DEF Base, InitFinished
<1>4. /\ Len(net) \in Nat /\ Len(net') = Len(net) + 1 /\ net'[Len(net) + 1] = rec
      /\ \A i \in 1..Len(net) : net'[i] = net[i]
      /\ net' # <<>> /\ (net = <<>> <=> Len(net) = 0)
  <2>1. Len(net) \in Nat /\ (net = <<>> <=> Len(net) = 0) BY <1>2, Shorts
  <2> QED BY <1>1, <1>2, <2>1, AppendProperties
<1>5. CASE rec = "flight"
  <2>1. /\ peerSent.flights < PeerFlights /\ Len(wire) > peerSent.flights
        /\ peerSent' = [peerSent EXCEPT !.flights = @ + 1]
    BY <1>5 DEF PeerSends
  <2>2. peerSent'.flights = peerSent.flights + 1 BY <1>2, <2>1
  <2>3. ~InitFinished
    <3>1. flights <= peerSent.flights BY DEF PipeInv
    <3> QED BY <1>2, <2>1, <3>1 DEF InitFinished
  <2>4. made = flights + 1 /\ Len(wire) <= made
    <3>1. Up BY <1>1 DEF Up
    <3>2. made = flights + 1 /\ Counted BY <1>1, <2>3, <3>1 DEF WireInv
    <3>3. made = Len(wire) + InBuffer + Len(bioOut) BY <3>2 DEF Counted
    <3>4. /\ outBuffer \in Seq(Nat) /\ wire \in Seq(Nat) /\ bioOut \in Seq(Nat)
      BY <1>0 DEF TypeOK, DataTypes
    <3>5. Len(outBuffer) \in Nat /\ Len(wire) \in Nat /\ Len(bioOut) \in Nat
      BY <3>4, LenProperties
    <3>6. InBuffer \in Nat BY <3>5 DEF InBuffer
    <3> QED BY <3>2, <3>3, <3>5, <3>6
  <2>5. peerSent.flights = flights
    <3>1. Len(wire) \in Nat BY <1>0, LenProperties DEF DataTypes
    <3>2. flights <= peerSent.flights BY DEF PipeInv
    <3> QED BY <1>2, <2>1, <2>4, <3>1, <3>2
  <2>6. bioIn = <<>> /\ input = <<>> /\ net = <<>>
    <3>1. /\ AllFlights(bioIn) /\ AllFlights(input) /\ AllFlights(net)
          /\ NoFlights(bioIn) /\ NoFlights(input) /\ NoFlights(net)
      BY <2>1, <2>5 DEF PipeInv, Orderly
    <3> QED BY <1>2, <3>1, OnlyNone
  <2>7. Len(net') = 1 /\ net'[1] = "flight" BY <1>4, <1>5, <2>6
  <2>8. peerSent'.flights # flights' /\ peerSent'.flights <= PeerFlights
        /\ flights' <= peerSent'.flights /\ peerSent'.flights <= flights' + 1
    BY <1>1, <1>2, <2>1, <2>2, <2>5
  <2>9. Orderly(net)'
    <3>1. \A i \in 1..Len(net') : i = 1 BY <2>7
    <3>2. AllFlights(net)' BY <2>7, <3>1 DEF AllFlights
    <3> QED BY <2>7, <2>8, <3>1, <3>2 DEF Orderly
  <2>10. Orderly(bioIn)' /\ Orderly(input)' /\ NoFlights(input)'
    <3>1. \A i \in 1..Len(<<>>) : FALSE OBVIOUS
    <3> QED BY <1>1, <2>6, <3>1 DEF Orderly, AllFlights, NoFlights
  <2>11. bioIn' = <<>> /\ input' = <<>> BY <1>1, <2>6
  <2> QED BY <1>1, <1>4, <2>7, <2>8, <2>9, <2>10, <2>11 DEF PipeInv, PeerFlights
<1>6. CASE rec # "flight"
  <2>1. /\ rec # "bad" /\ peerSent.flights = PeerFlights
        /\ peerSent' = [peerSent EXCEPT !.others = @ + 1]
    BY <1>6 DEF PeerSends
  <2>2. peerSent'.flights = peerSent.flights BY <1>2, <2>1
  <2>3. Orderly(bioIn)' /\ Orderly(input)' /\ NoFlights(input)' = NoFlights(input)
    BY <1>1, <2>2 DEF PipeInv, Orderly, AllFlights, NoFlights, PeerFlights
  <2>4. \A i \in 1..Len(net') : i \in 1..Len(net) \/ i = Len(net) + 1 BY <1>4
  <2>5. NoFlights(net) => NoFlights(net)' BY <1>4, <1>6, <2>4 DEF NoFlights
  <2>6. Orderly(net)'
    <3>1. Orderly(net) BY DEF PipeInv
    <3>2. ASSUME NEW i \in 1..Len(net')
          PROVE  net'[i] # "bad" /\ (net'[i] = "flight" => i = 1)
      BY <1>4, <1>6, <2>1, <2>4, <3>1 DEF Orderly
    <3>3. ~(peerSent.flights < PeerFlights)'
      BY <1>2, <2>1, <2>2 DEF PeerFlights
    <3>4. (peerSent.flights = flights)' => NoFlights(net)'
      BY <1>1, <2>2, <2>5, <3>1 DEF Orderly
    <3> QED BY <3>2, <3>3, <3>4 DEF Orderly
  <2>7. ~InitFinished /\ bioIn = <<>> /\ input = <<>> => net # <<>> /\ net[1] = "flight"
    <3>1. ~InitFinished => peerSent.flights > flights
      <4>1. flights <= peerSent.flights BY DEF PipeInv
      <4> QED BY <1>2, <2>1, <4>1 DEF InitFinished
    <3> QED BY <1>1, <3>1 DEF PipeInv
  <2>8. net # <<>> => net'[1] = net[1]
    <3>1. net # <<>> => 1 \in 1..Len(net) BY <1>4
    <3> QED BY <1>4, <3>1
  <2> QED BY <1>1, <1>3, <1>4, <2>2, <2>3, <2>5, <2>6, <2>7, <2>8 DEF PipeInv, PeerFlights
<1> QED BY <1>5, <1>6

(* PipeInv is inductive, with WireInv, when the peer does not reject the   *)
(* handshake.                                                              *)
LEMMA PipeStep ==
  ASSUME ~PeerRejects, IInv, SInv, PipeInv, WireInv, [Next]_vars
  PROVE  PipeInv'
<1>0. TypeOK /\ ShapeInv /\ EngineInv BY DEF IInv, SInv
<1>1. CASE ParentEnds
  <2>1. /\ UNCHANGED <<flights, rejected, bioIn, input, peerSent, stack>>
        /\ net' = <<>> /\ tcp' = "ended"
    BY <1>1 DEF ParentEnds, engineVars
  <2>2. \A i \in 1..Len(<<>>) : FALSE OBVIOUS
  <2>3. Orderly(net)' /\ NoFlights(net)'
    BY <2>1, <2>2 DEF Orderly, AllFlights, NoFlights
  <2>4. UNCHANGED <<InitFinished, Orderly(bioIn), Orderly(input), NoFlights(input), Base>>
    BY <2>1 DEF InitFinished, Orderly, AllFlights, NoFlights, PeerFlights, Base
  <2> QED BY <2>1, <2>3, <2>4 DEF PipeInv, PeerFlights
<1>2. CASE Return /\ ~Returns
  <2>1. /\ UNCHANGED <<flights, rejected, bioIn, tcp, net, peerSent>>
        /\ \/ Base = "emitMore" /\ Base' = "unwrap" /\ input' = input
           \/ Base = "emitLast" /\ Base' = "tls" /\ input' = <<>>
    BY <1>0, <1>2, LoopReturnFacts
  <2>2. InitFinished /\ InitFinished' BY <1>0, <2>1 DEF EngineInv, InitFinished
  <2>3. NoFlights(input) /\ NoFlights(net) BY <2>2, FlightsOver
  <2>4. Orderly(<<>>) /\ NoFlights(<<>>) BY OrderlyNone
  <2>5. Orderly(input') /\ NoFlights(input') BY <2>1, <2>3, <2>4 DEF PipeInv
  <2>6. Orderly(bioIn)' /\ Orderly(input)' /\ Orderly(net)' /\ NoFlights(input)'
        /\ NoFlights(net)'
    BY <2>1, <2>3, <2>5 DEF PipeInv, Orderly, AllFlights, NoFlights, PeerFlights
  <2>7. Base' # "handshake" BY <2>1
  <2> QED BY <2>1, <2>2, <2>6, <2>7 DEF PipeInv, PeerFlights
<1> QED BY <1>1, <1>2, PipeAside, PipeUnwrap, PipeHandshake, PipeRead, PipeParentRead,
        PipePeer, StepCases

-----------------------------------------------------------------------------
(* The records for the peer.                                               *)

LEMMA JoinedRecords ==
  ASSUME NEW s \in Seq(Nat), NEW t \in Seq(Nat)
  PROVE  /\ s \o t \in Seq(Nat) /\ Len(s \o t) = Len(s) + Len(t)
         /\ \A i \in 1..Len(s) : (s \o t)[i] = s[i]
         /\ \A i \in 1..Len(t) : (s \o t)[Len(s) + i] = t[i]
  BY Joined

LEMMA OutTypes ==
  ASSUME TypeOK, DataTypes
  PROVE  /\ made \in Nat /\ bioOut \in Seq(Nat) /\ outBuffer \in Seq(Nat)
         /\ wire \in Seq(Nat) /\ writes \in Seq(ParentWrites)
         /\ Len(bioOut) \in Nat /\ Len(outBuffer) \in Nat /\ Len(wire) \in Nat
         /\ Len(writes) \in Nat /\ InBuffer \in Nat /\ OutCap \in Nat \ {0}
<1>1. /\ made \in Nat /\ bioOut \in Seq(Nat) /\ outBuffer \in Seq(Nat)
      /\ wire \in Seq(Nat) /\ writes \in Seq(ParentWrites)
  BY DEF TypeOK, DataTypes
<1>2. /\ Len(bioOut) \in Nat /\ Len(outBuffer) \in Nat /\ Len(wire) \in Nat
      /\ Len(writes) \in Nat
  BY <1>1, LenProperties
<1>3. InBuffer \in Nat BY <1>2 DEF InBuffer
<1> QED BY <1>1, <1>2, <1>3, CapAssumption

(* n new records, counted on from those in the BIO.                        *)
LEMMA MoreCounted ==
  ASSUME TypeOK, DataTypes, Counted, ~Unsent, NEW n \in Nat
  PROVE  /\ bioOut \o Fresh(n) \in Seq(Nat)
         /\ Len(bioOut \o Fresh(n)) = Len(bioOut) + n
         /\ made + n = Len(wire) + (Len(bioOut) + n)
         /\ \A i \in 1..Len(bioOut) + n : (bioOut \o Fresh(n))[i] = Len(wire) + i
<1>1. made \in Nat /\ Len(bioOut) \in Nat /\ Len(wire) \in Nat /\ bioOut \in Seq(Nat)
  BY OutTypes
<1>2. InBuffer = 0 BY DEF InBuffer
<1>3. made = Len(wire) + Len(bioOut) /\ \A i \in 1..Len(bioOut) : bioOut[i] = Len(wire) + i
  BY <1>1, <1>2 DEF Counted
<1> DEFINE f == Fresh(n)
<1>4. f \in Seq(Nat) /\ Len(f) = n /\ \A i \in 1..n : f[i] = made + i
  <2>1. \A i \in 1..n : made + i \in Nat BY <1>1
  <2>2. f = [i \in 1..n |-> made + i] BY DEF Fresh
  <2>3. f \in [1..n -> Nat] BY <2>1, <2>2
  <2>4. f \in Seq(Nat) BY <2>3, SeqDef
  <2>5. Len(f) = n BY <2>3, <2>4, LenProperties
  <2> QED BY <2>2, <2>4, <2>5
<1> HIDE DEF f
<1> DEFINE s == bioOut \o f
<1>5. /\ s \in Seq(Nat) /\ Len(s) = Len(bioOut) + n
      /\ \A i \in 1..Len(bioOut) : s[i] = bioOut[i]
      /\ \A i \in 1..n : s[Len(bioOut) + i] = f[i]
  <2>0. bioOut \in Seq(Nat) /\ f \in Seq(Nat) BY <1>1, <1>4
  <2>1. /\ s \in Seq(Nat) /\ Len(s) = Len(bioOut) + Len(f)
        /\ \A i \in 1..Len(bioOut) : s[i] = bioOut[i]
        /\ \A i \in 1..Len(f) : s[Len(bioOut) + i] = f[i]
    BY <2>0, JoinedRecords, Zenon
  <2> QED BY <1>4, <2>1, Zenon
<1> HIDE DEF s
<1>6. ASSUME NEW i \in 1..Len(bioOut) + n PROVE s[i] = Len(wire) + i
  <2>1. CASE i <= Len(bioOut)
    <3>1. i \in 1..Len(bioOut) BY <1>1, <2>1
    <3> QED BY <1>3, <1>5, <3>1
  <2>2. CASE i > Len(bioOut)
    <3> DEFINE j == i - Len(bioOut)
    <3>1. j \in 1..n /\ i = Len(bioOut) + j BY <1>1, <2>2
    <3>2. s[i] = f[j] BY <1>5, <3>1
    <3>3. f[j] = made + j BY <1>4, <3>1
    <3> QED BY <1>1, <1>3, <3>1, <3>2, <3>3
  <2> QED BY <1>1, <2>1, <2>2
<1>7. made + n = Len(wire) + (Len(bioOut) + n) BY <1>1, <1>3
<1> QED BY <1>5, <1>6, <1>7 DEF s, f

(* Records are made, and stay in the BIO.                                  *)
LEMMA CountedMade ==
  ASSUME TypeOK, DataTypes, Counted, ~Unsent, NEW n \in Nat, Len(bioOut) + n <= OutCap,
         made' = made + n, bioOut' = bioOut \o Fresh(n), UNCHANGED outVars
  PROVE  Counted' /\ Len(bioOut') = Len(bioOut) + n
<1>1. UNCHANGED <<wire, writes, outBuffer>> BY DEF outVars
<1>2. ~Unsent' BY <1>1 DEF Unsent
<1>3. InBuffer' = 0 BY <1>2 DEF InBuffer
<1>4. /\ Len(bioOut') = Len(bioOut) + n /\ made' = Len(wire') + Len(bioOut')
      /\ \A i \in 1..Len(bioOut') : bioOut'[i] = Len(wire') + i
  BY <1>1, MoreCounted
<1>5. WireOrder' BY <1>1 DEF Counted, WireOrder
<1>6. \A i \in 1..Len(writes') : writes'[i].sent BY <1>2 DEF Unsent
<1>7. /\ Len(bioOut) \in Nat /\ Len(wire) \in Nat BY OutTypes
<1>8. made' = Len(wire') + InBuffer' + Len(bioOut') BY <1>1, <1>3, <1>4, <1>7
<1>9. \A i \in 1..Len(bioOut') : bioOut'[i] = Len(wire') + InBuffer' + i
  <2>1. \A k, i \in Nat : k + i = k + 0 + i OBVIOUS
  <2>2. \A i \in 1..Len(bioOut') : i \in Nat OBVIOUS
  <2> QED BY <1>1, <1>3, <1>4, <1>7, <2>1, <2>2, Zenon
<1> QED BY <1>2, <1>4, <1>5, <1>6, <1>8, <1>9 DEF Counted

(* wrap and the parent's write: all that is in the BIO goes to the buffer. *)
LEMMA CountedSend ==
  ASSUME TypeOK, DataTypes, Counted, ~Unsent, NEW n \in Nat, NEW by, NEW now \in BOOLEAN,
         Len(bioOut) + n <= OutCap, Len(bioOut) + n # 0, Wrap(n), outBuffer' = Wrapped(n),
         writes' = Append(writes, [by |-> by, sent |-> now, len |-> Len(outBuffer')]),
         wire' = IF now THEN wire \o outBuffer' ELSE wire,
         writes' \in Seq(ParentWrites)
  PROVE  /\ Counted' /\ bioOut' = <<>>
         /\ \A i \in 1..Len(writes') : ~writes'[i].sent => writes'[i].by = by
<1>1. /\ made \in Nat /\ Len(bioOut) \in Nat /\ Len(wire) \in Nat /\ Len(writes) \in Nat
      /\ OutCap \in Nat /\ wire \in Seq(Nat) /\ writes \in Seq(ParentWrites)
  BY OutTypes
<1> DEFINE out == bioOut \o Fresh(n)
           m == Len(bioOut) + n
<1>2. /\ out \in Seq(Nat) /\ Len(out) = m /\ made + n = Len(wire) + m
      /\ \A i \in 1..m : out[i] = Len(wire) + i
  BY MoreCounted
<1>3. m \in Nat /\ m # 0 /\ m <= OutCap BY <1>1
<1>4. outBuffer' = SubSeq(out, 1, m)
  <2>1. outBuffer' = SubSeq(out, 1, IF Len(out) < OutCap THEN Len(out) ELSE OutCap)
    BY DEF Wrapped
  <2> HIDE DEF out, m
  <2>2. \A k, c \in Nat : k <= c => (IF k < c THEN k ELSE c) = k OBVIOUS
  <2>3. (IF Len(out) < OutCap THEN Len(out) ELSE OutCap) = m
    BY <1>1, <1>2, <1>3, <2>2, Zenon
  <2> QED BY <2>1, <2>3, Zenon
<1>5. bioOut' = SubSeq(out, OutCap + 1, Len(out)) /\ made' = made + n BY DEF Wrap
<1> HIDE DEF out, m
<1>6. /\ outBuffer' \in Seq(Nat) /\ Len(outBuffer') = m
      /\ \A i \in 1..m : outBuffer'[i] = Len(wire) + i
  <2>1. m <= Len(out) BY <1>2, <1>3
  <2> QED BY <1>2, <1>3, <1>4, <2>1, Prefix
<1>7. bioOut' = <<>>
  <2>1. Len(out) <= OutCap BY <1>2, <1>3
  <2> QED BY <1>1, <1>2, <1>5, <2>1, Suffix
<1>8. Len(bioOut') = 0 /\ \A i \in 1..Len(bioOut') : FALSE BY <1>7
<1> DEFINE w == [by |-> by, sent |-> now, len |-> Len(outBuffer')]
<1>9. w.by = by /\ w.sent = now /\ w.len = Len(outBuffer') OBVIOUS
<1>10. writes' = Append(writes, w) OBVIOUS
<1> HIDE DEF w
<1>11. /\ Len(writes') = Len(writes) + 1 /\ writes'[Len(writes) + 1] = w
       /\ \A i \in 1..Len(writes) : writes'[i] = writes[i]
  <2>1. w \in ParentWrites
    <3>1. Len(writes) + 1 \in 1..Len(writes') /\ writes'[Len(writes) + 1] = w
      <4>1. writes \in Seq(ParentWrites \cup {w}) /\ w \in ParentWrites \cup {w}
        BY <1>1, SeqDef
      <4>2. Len(writes') = Len(writes) + 1 /\ writes'[Len(writes) + 1] = w
        BY <1>10, <4>1, AppendProperties
      <4> QED BY <1>1, <4>2
    <3> QED BY <3>1, LenProperties
  <2> QED BY <1>1, <1>10, <2>1, AppendProperties
<1>12. ASSUME NEW i \in 1..Len(writes')
       PROVE  \/ i \in 1..Len(writes) /\ writes'[i].sent
              \/ i = Len(writes') /\ writes'[i] = w
  <2>1. i \in 1..Len(writes) \/ i = Len(writes) + 1 BY <1>1, <1>11
  <2>2. \A k \in 1..Len(writes) : writes[k].sent BY DEF Unsent
  <2>3. CASE i \in 1..Len(writes)
    <3>1. writes'[i] = writes[i] BY <1>11, <2>3
    <3> QED BY <2>2, <2>3, <3>1, Zenon
  <2>4. CASE i = Len(writes) + 1 BY <1>11, <2>4
  <2> QED BY <2>1, <2>3, <2>4
<1>13. \A i \in 1..Len(writes') :
         ~writes'[i].sent => i = Len(writes') /\ writes'[i].len = Len(outBuffer')
                             /\ writes'[i].by = by
  BY <1>9, <1>12
<1>14. CASE now
  <2>1. ~Unsent' BY <1>9, <1>12, <1>14 DEF Unsent
  <2>2. InBuffer' = 0 BY <2>1 DEF InBuffer
  <2> DEFINE o == outBuffer'
  <2>3. o \in Seq(Nat) /\ Len(o) = m /\ \A i \in 1..m : o[i] = Len(wire) + i
    BY <1>6
  <2>4. wire' = wire \o o BY <1>14
  <2> HIDE DEF o
  <2>5. /\ Len(wire') = Len(wire) + m
        /\ \A i \in 1..Len(wire) : wire'[i] = wire[i]
        /\ \A i \in 1..m : wire'[Len(wire) + i] = o[i]
    <3>1. /\ Len(wire \o o) = Len(wire) + Len(o)
          /\ \A i \in 1..Len(wire) : (wire \o o)[i] = wire[i]
          /\ \A i \in 1..Len(o) : (wire \o o)[Len(wire) + i] = o[i]
      <4>1. wire \in Seq(Nat) /\ o \in Seq(Nat) BY <1>1, <2>3
      <4> QED BY <4>1, JoinedRecords, Zenon
    <3> QED BY <2>3, <2>4, <3>1, Zenon
  <2>6. ASSUME NEW i \in 1..Len(wire') PROVE wire'[i] = i
    <3>1. CASE i <= Len(wire)
      <4>1. i \in 1..Len(wire) BY <1>1, <3>1
      <4> QED BY <2>5, <4>1 DEF Counted, WireOrder
    <3>2. CASE i > Len(wire)
      <4> DEFINE j == i - Len(wire)
      <4>1. j \in 1..m /\ i = Len(wire) + j BY <1>1, <1>3, <2>5, <3>2
      <4>2. wire'[i] = o[j] /\ o[j] = Len(wire) + j BY <2>3, <2>5, <4>1
      <4> QED BY <4>1, <4>2
    <3> QED BY <1>1, <1>3, <2>5, <3>1, <3>2
  <2>7. WireOrder' BY <2>6 DEF WireOrder
  <2>8. made' = Len(wire') + InBuffer' + Len(bioOut') /\ Len(bioOut') <= OutCap
    <3>1. made' = Len(wire') BY <1>2, <1>5, <2>5
    <3>2. Len(wire') \in Nat BY <1>1, <1>3, <2>5
    <3> QED BY <1>1, <1>8, <2>2, <3>1, <3>2
  <2> QED BY <1>7, <1>8, <1>13, <2>1, <2>7, <2>8 DEF Counted
<1>15. CASE ~now
  <2>1. wire' = wire BY <1>15
  <2>2. Unsent'
    <3>1. Len(writes) + 1 \in 1..Len(writes') BY <1>1, <1>11
    <3> QED BY <1>9, <1>11, <1>15, <3>1 DEF Unsent
  <2>3. InBuffer' = m BY <1>6, <2>2 DEF InBuffer
  <2>4. outBuffer' # <<>> BY <1>3, <1>6
  <2>5. made' = Len(wire') + InBuffer' + Len(bioOut') /\ Len(bioOut') <= OutCap
    <3>1. made' = Len(wire') + InBuffer' BY <1>2, <1>5, <2>1, <2>3
    <3>2. Len(wire') + InBuffer' \in Nat BY <1>1, <1>3, <2>1, <2>3
    <3> QED BY <1>1, <1>8, <3>1, <3>2
  <2>6. WireOrder' BY <2>1 DEF Counted, WireOrder
  <2>7. \A i \in 1..Len(outBuffer') : outBuffer'[i] = Len(wire') + i BY <1>6, <2>1
  <2> QED BY <1>7, <1>8, <1>13, <2>4, <2>5, <2>6, <2>7 DEF Counted
<1> QED BY <1>7, <1>13, <1>14, <1>15

(* The oldest write is answered.                                           *)
LEMMA CountedDone ==
  ASSUME TypeOK, DataTypes, Counted, parent = "open", ParentWriteDone
  PROVE  /\ Counted'
         /\ Unsent' => Unsent
         /\ ~Unsent => wire' = wire
         /\ \A i \in 1..Len(writes') : i + 1 \in 1..Len(writes) /\ writes'[i] = writes[i + 1]
<1>1. /\ made \in Nat /\ Len(bioOut) \in Nat /\ Len(wire) \in Nat /\ Len(writes) \in Nat
      /\ Len(outBuffer) \in Nat /\ InBuffer \in Nat /\ outBuffer \in Seq(Nat)
      /\ wire \in Seq(Nat) /\ writes \in Seq(ParentWrites)
  BY OutTypes
<1> DEFINE w == Head(writes)
<1>2. /\ writes # <<>> /\ writes' = Tail(writes)
      /\ wire' = IF w.sent THEN wire
                 ELSE wire \o SubSeq(outBuffer, 1, IF w.len < Len(outBuffer) THEN w.len
                                                                   ELSE Len(outBuffer))
      /\ UNCHANGED <<made, bioOut, outBuffer>>
  BY DEF ParentWriteDone, engineVars
<1>3. /\ Len(writes) # 0 /\ w = writes[1] /\ Len(writes') = Len(writes) - 1
      /\ \A i \in 1..Len(writes) - 1 : writes'[i] = writes[i + 1]
  <2>1. /\ Len(writes) \in Nat \ {0} /\ w = writes[1] /\ Len(Tail(writes)) = Len(writes) - 1
        /\ \A i \in 1..Len(writes) - 1 : Tail(writes)[i] = writes[i + 1]
    BY <1>1, <1>2, Rest
  <2> QED BY <1>2, <2>1
<1> HIDE DEF w
<1>4. ASSUME NEW i \in 1..Len(writes')
      PROVE  i + 1 \in 1..Len(writes) /\ writes'[i] = writes[i + 1]
             /\ i \in Nat /\ i \in 1..Len(writes) - 1
  BY <1>1, <1>3
<1>5. Unsent' => Unsent BY <1>4 DEF Unsent
<1>6. /\ made = Len(wire) + InBuffer + Len(bioOut) /\ WireOrder /\ Len(bioOut) <= OutCap
      /\ Unsent => /\ bioOut = <<>> /\ outBuffer # <<>>
                   /\ \A i \in 1..Len(outBuffer) : outBuffer[i] = Len(wire) + i
      /\ \A i \in 1..Len(bioOut) : bioOut[i] = Len(wire) + InBuffer + i
      /\ \A i \in 1..Len(writes) :
           ~writes[i].sent => i = Len(writes) /\ writes[i].len = Len(outBuffer)
  BY DEF Counted
<1>7. \A i \in 1..Len(writes') :
        ~writes'[i].sent => i = Len(writes') /\ writes'[i].len = Len(outBuffer')
  <2> SUFFICES ASSUME NEW i \in 1..Len(writes'), ~writes'[i].sent
               PROVE  i = Len(writes') /\ writes'[i].len = Len(outBuffer')
    OBVIOUS
  <2>1. i + 1 = Len(writes) /\ writes[i + 1].len = Len(outBuffer) BY <1>4, <1>6
  <2>2. i \in Nat /\ writes'[i] = writes[i + 1] BY <1>4
  <2>3. i = Len(writes') BY <1>1, <1>3, <2>1, <2>2
  <2> QED BY <1>2, <2>1, <2>2, <2>3, Zenon
<1>8. CASE w.sent
  <2>1. wire' = wire BY <1>2, <1>8
  <2>2. Unsent => Unsent'
    <3> SUFFICES ASSUME NEW i \in 1..Len(writes), ~writes[i].sent PROVE Unsent'
      BY DEF Unsent
    <3>1. i # 1 BY <1>3, <1>8
    <3>2. i - 1 \in 1..Len(writes') /\ i - 1 \in 1..Len(writes) - 1 /\ (i - 1) + 1 = i
      BY <1>1, <1>3, <3>1
    <3>3. writes'[i - 1] = writes[(i - 1) + 1] BY <1>3, <3>2
    <3> QED BY <3>2, <3>3 DEF Unsent
  <2>3. InBuffer' = InBuffer BY <1>2, <1>5, <2>2 DEF InBuffer
  <2>4. WireOrder' BY <1>6, <2>1 DEF WireOrder
  <2> QED BY <1>2, <1>4, <1>5, <1>6, <1>7, <2>1, <2>3, <2>4 DEF Counted
<1>9. CASE ~w.sent
  <2>1. Unsent /\ Len(writes) = 1 /\ w.len = Len(outBuffer)
    <3>1. 1 \in 1..Len(writes) BY <1>1, <1>3
    <3> QED BY <1>3, <1>6, <1>9, <3>1 DEF Unsent
  <2>2. ~Unsent'
    <3>1. Len(writes') = 0 BY <1>1, <1>3, <2>1
    <3> QED BY <3>1 DEF Unsent
  <2>3. InBuffer = Len(outBuffer) /\ InBuffer' = 0 BY <2>1, <2>2 DEF InBuffer
  <2>4. bioOut = <<>> /\ Len(bioOut) = 0 /\ \A i \in 1..Len(bioOut) : FALSE BY <1>6, <2>1
  <2> DEFINE o == SubSeq(outBuffer, 1, Len(outBuffer))
  <2>5. wire' = wire \o o BY <1>1, <1>2, <1>9, <2>1
  <2>6. /\ o \in Seq(Nat) /\ Len(o) = Len(outBuffer)
        /\ \A i \in 1..Len(outBuffer) : o[i] = Len(wire) + i
    <3>1. /\ o \in Seq(Nat) /\ Len(o) = Len(outBuffer)
          /\ \A i \in 1..Len(outBuffer) : o[i] = outBuffer[i]
      BY <1>1, Prefix
    <3> QED BY <1>6, <2>1, <3>1
  <2> HIDE DEF o
  <2>7. /\ Len(wire') = Len(wire) + Len(outBuffer)
        /\ \A i \in 1..Len(wire) : wire'[i] = wire[i]
        /\ \A i \in 1..Len(outBuffer) : wire'[Len(wire) + i] = o[i]
    <3>1. /\ Len(wire \o o) = Len(wire) + Len(o)
          /\ \A i \in 1..Len(wire) : (wire \o o)[i] = wire[i]
          /\ \A i \in 1..Len(o) : (wire \o o)[Len(wire) + i] = o[i]
      <4>1. wire \in Seq(Nat) /\ o \in Seq(Nat) BY <1>1, <2>6
      <4> QED BY <4>1, JoinedRecords, Zenon
    <3> QED BY <2>5, <2>6, <3>1, Zenon
  <2>8. ASSUME NEW i \in 1..Len(wire') PROVE wire'[i] = i
    <3>1. CASE i <= Len(wire)
      <4>1. i \in 1..Len(wire) BY <1>1, <3>1
      <4> QED BY <1>6, <2>7, <4>1 DEF WireOrder
    <3>2. CASE i > Len(wire)
      <4> DEFINE j == i - Len(wire)
      <4>1. j \in 1..Len(outBuffer) /\ i = Len(wire) + j BY <1>1, <2>7, <3>2
      <4>2. wire'[i] = o[j] /\ o[j] = Len(wire) + j BY <2>6, <2>7, <4>1
      <4> QED BY <4>1, <4>2
    <3> QED BY <1>1, <2>7, <3>1, <3>2
  <2>9. WireOrder' BY <2>8 DEF WireOrder
  <2>10. made' = Len(wire') + InBuffer' + Len(bioOut')
    <3>1. made' = Len(wire) + Len(outBuffer) + 0 BY <1>2, <1>6, <2>3, <2>4
    <3>2. made' = Len(wire') + 0 + 0 BY <1>1, <2>7, <3>1
    <3> QED BY <1>2, <2>3, <2>4, <3>2, Zenon
  <2>11. Len(bioOut') <= OutCap /\ \A i \in 1..Len(bioOut') : FALSE BY <1>2, <1>6, <2>4
  <2>12. \A i \in 1..Len(bioOut') : bioOut'[i] = Len(wire') + InBuffer' + i BY <2>11
  <2> QED BY <1>4, <1>5, <1>7, <2>1, <2>2, <2>9, <2>10, <2>11, <2>12 DEF Counted
<1> QED BY <1>4, <1>5, <1>8, <1>9

(* Without a connection there is nothing to count.                         *)
LEMMA EmptyCounted ==
  ASSUME FreshInv, ~Up
  PROVE  Counted /\ Leftover /\ OnlyTold /\ ~Unsent /\ ~InitFinished /\ made = 0
         /\ bioOut = <<>> /\ flights = 0
<1>1. /\ made = 0 /\ flights = 0 /\ bioOut = <<>> /\ wire = <<>> /\ writes = <<>>
  BY DEF FreshInv
<1>2. ~InitFinished BY <1>1, FlightCount DEF InitFinished
<1>3. Len(<<>>) = 0 /\ \A i \in 1..Len(<<>>) : FALSE OBVIOUS
<1>4. ~Unsent BY <1>1, <1>3 DEF Unsent
<1>5. InBuffer = 0 BY <1>4 DEF InBuffer
<1>6. made = Len(wire) + InBuffer + Len(bioOut) /\ Len(bioOut) <= OutCap
  BY <1>1, <1>3, <1>5, CapAssumption
<1>7. Counted
  <2>1. WireOrder BY <1>1, <1>3 DEF WireOrder
  <2>2. \A i \in 1..Len(bioOut) : bioOut[i] = Len(wire) + InBuffer + i BY <1>1, <1>3
  <2>3. \A i \in 1..Len(writes) : FALSE BY <1>1, <1>3
  <2> QED BY <1>4, <1>6, <2>1, <2>2, <2>3 DEF Counted
<1> QED BY <1>1, <1>2, <1>4, <1>7 DEF Leftover, OnlyTold, SslOpen

(* What is left in the BIO stays as it is while tlsProcess does not run.   *)
LEMMA LeftoverStays ==
  ASSUME Leftover, UNCHANGED <<state, flights, shutSent, bioOut, wire>>,
         Top # "tls" \/ state = "handshaked" \/ Top' = Top, EngineInv
  PROVE  Leftover'
<1>1. InitFinished' = InitFinished BY DEF InitFinished, PeerFlights
<1>2. state = "handshaked" => ~shutSent BY DEF EngineInv
<1> QED BY <1>1, <1>2 DEF Leftover

(* Nothing is made or sent.                                                *)
LEMMA WireFrame ==
  ASSUME SInv, WireInv, UNCHANGED <<made, bioOut, wire, writes, outBuffer>>,
         UNCHANGED <<flights, rejected, shutSent>>,
         Up' => Up, parent' = "open" => parent = "open" \/ ~Up, PeerBehind',
         CarefulWriter /\ parent' = "open" /\ Leftover => Leftover'
  PROVE  WireInv'
<1>1. FreshInv BY DEF SInv
<1>2. /\ InitFinished' = InitFinished /\ SslOpen' = SslOpen
  BY DEF InitFinished, PeerFlights, SslOpen
<1>3. (Counted => Counted') /\ (WireOrder => WireOrder') /\ (OnlyTold => OnlyTold')
  <2>1. WireOrder => WireOrder' BY DEF WireOrder
  <2>2. Unsent' <=> Unsent BY DEF Unsent
  <2>3. InBuffer' = InBuffer BY <2>2 DEF InBuffer
  <2>4. OnlyTold => OnlyTold' BY <1>2 DEF OnlyTold
  <2>5. Counted => Counted' BY <2>1, <2>2, <2>3 DEF Counted
  <2> QED BY <2>1, <2>4, <2>5
<1>4. ~InitFinished' /\ Up' => made' = flights' + 1 BY <1>2 DEF WireInv
<1>5. CarefulWriter => WireOrder' BY <1>3 DEF WireInv
<1>6. CASE parent' # "open" BY <1>4, <1>5, <1>6 DEF WireInv
<1>7. CASE parent' = "open" /\ parent = "open"
  BY <1>2, <1>3, <1>4, <1>5, <1>7 DEF WireInv
<1>8. CASE parent' = "open" /\ ~Up
  <2>1. Counted /\ Leftover /\ OnlyTold BY <1>1, <1>8, EmptyCounted
  <2> QED BY <1>3, <1>4, <1>5, <1>8, <2>1 DEF WireInv
<1> QED BY <1>6, <1>7, <1>8

(* The wire only grows.                                                    *)
LEMMA BehindAside ==
  ASSUME IInv, TypeOK', SInv, WireInv, AsideAction
  PROVE  PeerBehind'
<1>0. TypeOK /\ LifeInv /\ ShapeInv /\ DataTypes BY DEF IInv, SInv
<1>1. [Next]_vars BY DEF AsideAction, Returns, Next, OwnStep
<1>2. Len(wire') >= Len(wire) /\ Len(wire) \in Nat /\ Len(wire') \in Nat
  BY <1>0, <1>1, WireGrows
<1>3. UNCHANGED <<bioIn, input, net, peerSent>> BY <1>0, AsideSteps DEF Aside
<1>4. peerSent.flights \in Nat BY <1>0 DEF DataTypes
<1>5. PeerBehind BY DEF WireInv
<1>6. peerSent'.flights <= Len(wire') BY <1>2, <1>3, <1>4, <1>5 DEF PeerBehind
<1>7. Len(wire) >= 2 => Len(wire') >= 2 BY <1>2
<1> QED BY <1>3, <1>5, <1>6, <1>7 DEF PeerBehind, AllFlights

(* No record can be sent any more.                                         *)
LEMMA WireClosed ==
  ASSUME WireInv, PeerBehind', parent' # "open", wire' = wire,
         ~InitFinished' /\ Up' => made' = flights' + 1
  PROVE  WireInv'
<1>1. WireOrder => WireOrder' BY DEF WireOrder
<1> QED BY <1>1 DEF WireInv

(* Calls of the program and answers of the parent that send nothing.       *)
LEMMA WireProgram ==
  ASSUME IInv, TypeOK', SInv, WireInv,
         \/ \E cb \in Callbacks : Connect(cb)
         \/ Read \/ CancelRead \/ Close \/ CloseTheParent
         \/ Disconnect /\ ShutdownFails
  PROVE  WireInv'
<1>0. TypeOK /\ ShapeInv /\ EngineInv /\ FreshInv BY DEF IInv, SInv
<1>1. AsideAction BY DEF AsideAction, ProgramStep
<1>2. PeerBehind' BY <1>1, BehindAside
<1>3. UNCHANGED <<made, bioOut, wire, writes, outBuffer, flights, rejected, shutSent>>
  BY Zenon DEF Connect, Read, CancelRead, Close, CloseTheParent, Disconnect,
     ShutdownFails, engineVars, outVars
<1>4. CASE \E cb \in Callbacks : Connect(cb)
  <2>1. tcp = "none" /\ tcp' \in {"connecting", "failed"} /\ parent' = parent
    BY <1>4 DEF Connect
  <2>2. ~Up /\ ~Up' BY <2>1 DEF Up
  <2>3. bioOut = <<>> BY <1>0, <2>2, EmptyCounted
  <2>4. Leftover' BY <1>3, <2>3 DEF Leftover
  <2> QED BY <1>2, <1>3, <2>1, <2>2, <2>4, WireFrame
<1>5. CASE Read \/ CancelRead \/ Close \/ CloseTheParent
  <2>1. /\ UNCHANGED <<state, stack, tcp>>
        /\ parent' = parent \/ (parent = "open" /\ parent' = "closing")
    BY <1>5, Zenon DEF Read, CancelRead, Close, CloseTheParent, CloseImpl, CloseParent,
       engineVars, parentVars
  <2>2. Up' = Up /\ Top' = Top BY <2>1 DEF Up, Top
  <2>3. Leftover => Leftover' BY <1>0, <1>3, <2>1, <2>2, LeftoverStays
  <2>4. parent' = "open" => parent = "open" BY <2>1
  <2> QED BY <1>2, <1>3, <2>2, <2>3, <2>4, WireFrame
<1>6. CASE Disconnect /\ ShutdownFails
  <2>1. InProgram /\ ~SslShuts /\ UNCHANGED <<parent, tcp>>
    BY <1>6 DEF Disconnect, ShutdownFails, parentVars
  <2>2. Top # "tls" BY <1>0, <2>1, ProgramTop
  <2>3. ~SslOpen BY <2>1 DEF SslShuts
  <2>4. ASSUME Leftover PROVE Leftover'
    <3>1. InitFinished /\ bioOut # <<>> => state = "handshaked" /\ ~shutSent
      BY <2>2, <2>4 DEF Leftover
    <3>2. ~(InitFinished /\ bioOut # <<>>)
      BY <1>0, <2>3, <3>1 DEF EngineInv, SslOpen
    <3> QED BY <1>3, <3>2 DEF Leftover, InitFinished, PeerFlights
  <2>5. Up' = Up BY <2>1 DEF Up
  <2> QED BY <1>2, <1>3, <2>1, <2>4, <2>5, WireFrame
<1> QED BY <1>4, <1>5, <1>6

LEMMA WireParent ==
  ASSUME IInv, TypeOK', SInv, WireInv,
         ParentInit \/ ParentClosed \/ ParentConnected(FALSE)
  PROVE  WireInv'
<1>0. TypeOK /\ ShapeInv /\ EngineInv /\ FreshInv BY DEF IInv, SInv
<1>1. AsideAction BY DEF AsideAction, ParentStep
<1>2. PeerBehind' BY <1>1, BehindAside
<1>3. UNCHANGED <<made, bioOut, wire, writes, outBuffer, flights, rejected, shutSent>>
  BY Zenon DEF ParentInit, ParentClosed, ParentConnected, engineVars, outVars
<1>4. CASE ParentInit \/ ParentConnected(FALSE)
  <2>1. ~Up /\ ~Up'
    <3>1. CASE ParentInit
      <4>1. tcp = "none" /\ tcp' = tcp BY <1>0, <3>1 DEF ParentInit, FreshInv
      <4> QED BY <4>1 DEF Up
    <3>2. CASE ParentConnected(FALSE)
      <4>1. tcp = "connecting" /\ tcp' = "failed" BY <3>2 DEF ParentConnected
      <4> QED BY <4>1 DEF Up
    <3> QED BY <1>4, <3>1, <3>2
  <2>2. bioOut = <<>> BY <1>0, <2>1, EmptyCounted
  <2>3. Leftover' BY <1>3, <2>2 DEF Leftover
  <2> QED BY <1>2, <1>3, <2>1, <2>3, WireFrame
<1>5. CASE ParentClosed
  <2>1. parent' = "closed" /\ tcp' = tcp BY <1>5 DEF ParentClosed
  <2>2. Up' = Up BY <2>1 DEF Up
  <2>3. parent' # "open" BY <2>1
  <2> QED BY <1>2, <1>3, <2>2, <2>3, WireFrame
<1> QED BY <1>4, <1>5

LEMMA WireOwn ==
  ASSUME IInv, TypeOK', SInv, WireInv,
         \/ Top = "tls" /\ (TlsWait \/ TlsFinished \/ TlsClosing) /\ TlsProcess
         \/ EmitDisconnect \/ Returns \/ UNCHANGED vars
  PROVE  WireInv'
<1>0. TypeOK /\ ShapeInv /\ EngineInv /\ FreshInv BY DEF IInv, SInv
<1>1. AsideAction BY DEF AsideAction
<1>2. PeerBehind' BY <1>1, BehindAside
<1>3. /\ UNCHANGED <<made, bioOut, wire, writes, outBuffer, flights, rejected, shutSent>>
      /\ UNCHANGED <<state, tcp>>
      /\ parent' = parent \/ (parent = "open" /\ parent' = "closing")
  BY Zenon DEF TlsWait, TlsFinished, TlsClosing, CloseImpl, CloseParent, EmitDisconnect,
     Returns, Return, vars, engineVars, outVars, parentVars
<1>4. Up' = Up /\ (parent' = "open" => parent = "open") BY <1>3 DEF Up
<1>5. Leftover => Leftover'
  <2>1. CASE TlsWait \/ TlsClosing
    <3>1. bioOut = <<>> BY <2>1 DEF TlsWait, TlsClosing, GetHandshakeStatus
    <3> QED BY <1>3, <3>1 DEF Leftover
  <2>2. CASE TlsFinished
    <3>1. state = "handshaked" BY <2>2 DEF TlsFinished, GetHandshakeStatus
    <3> QED BY <1>0, <1>3, <3>1, LeftoverStays
  <2>3. CASE EmitDisconnect \/ Returns
    <3>1. Top # "tls" BY <2>3 DEF EmitDisconnect, Returns, Return, ProgramFrames
    <3> QED BY <1>0, <1>3, <3>1, LeftoverStays
  <2>4. CASE UNCHANGED vars
    <3>1. Top' = Top BY <2>4 DEF vars, Top
    <3> QED BY <1>0, <1>3, <3>1, LeftoverStays
  <2> QED BY <2>1, <2>2, <2>3, <2>4
<1> QED BY <1>2, <1>3, <1>4, <1>5, WireFrame

(* Before close_notify, while the program has no write pending, nothing is *)
(* unsent and the BIO holds at most the last flight.                       *)
LEMMA ClearToSend ==
  ASSUME TypeOK, DataTypes, Leftover, OnlyTold, SslOpen, ~WritePending,
         Top # "tls" \/ ~shutSent
  PROVE  ~Unsent /\ Len(bioOut) <= Lag
<1>1. ~Unsent BY DEF OnlyTold, Unsent, WritePending
<1>2. Len(bioOut) \in Nat /\ (bioOut = <<>> => Len(bioOut) = 0)
  BY OutTypes
<1>3. bioOut # <<>> => Tls13 /\ Len(bioOut) = 1 BY DEF Leftover, SslOpen
<1>4. Len(bioOut) <= Lag
  <2>1. CASE bioOut = <<>>
    <3>1. Len(bioOut) = 0 BY <1>2, <2>1
    <3> QED BY <3>1 DEF Lag
  <2>2. CASE bioOut # <<>>
    <3>1. Tls13 /\ Len(bioOut) = 1 BY <1>3, <2>2
    <3> QED BY <3>1 DEF Lag
  <2> QED BY <2>1, <2>2
<1> QED BY <1>1, <1>4

(* The client's first flight.                                              *)
LEMMA WireConnected ==
  ASSUME IInv, TypeOK', SInv, WireInv, ParentConnected(TRUE)
  PROVE  WireInv'
<1>0. TypeOK /\ DataTypes /\ FreshInv BY DEF IInv, SInv
<1>1. AsideAction BY DEF AsideAction, ParentStep
<1>2. PeerBehind' BY <1>1, BehindAside
<1>3. /\ tcp = "connecting" /\ made' = made + 1 /\ bioOut' = Fresh(1)
      /\ UNCHANGED <<flights, outVars>>
  BY DEF ParentConnected, BeginHandshake
<1>4. ~Up BY <1>3 DEF Up
<1>5. Counted /\ ~Unsent /\ ~InitFinished /\ made = 0 /\ bioOut = <<>> /\ flights = 0
  BY <1>0, <1>4, EmptyCounted
<1>6. bioOut' = bioOut \o Fresh(1)
  <2>1. Fresh(1) \in Seq(Nat)
    <3>1. \A i \in 1..1 : made + i \in Nat BY <1>5
    <3>2. Fresh(1) \in [1..1 -> Nat] BY <3>1 DEF Fresh
    <3> QED BY <3>2, SeqDef
  <2>2. <<>> \o Fresh(1) = Fresh(1) BY <2>1, ConcatEmptySeq
  <2> QED BY <1>3, <1>5, <2>2
<1>7. 1 \in Nat /\ Len(bioOut) + 1 <= OutCap BY <1>5, CapAssumption
<1>8. Counted' BY <1>0, <1>3, <1>5, <1>6, <1>7, CountedMade
<1>9. ~InitFinished' BY <1>3, <1>5 DEF InitFinished, PeerFlights
<1>10. WireOrder' BY <1>8 DEF Counted
<1>11. made' = flights' + 1 BY <1>3, <1>5
<1> QED BY <1>2, <1>8, <1>9, <1>10, <1>11 DEF WireInv, Leftover, OnlyTold, SslOpen

(* setSocketOutboundBuffer, while no write is pending.                     *)
LEMMA WireSetBuffer ==
  ASSUME IInv, TypeOK', SInv, WireInv, SetSocketOutboundBuffer
  PROVE  WireInv'
<1>0. TypeOK /\ EngineInv BY DEF IInv, SInv
<1>1. AsideAction BY DEF AsideAction, ProgramStep
<1>2. PeerBehind' BY <1>1, BehindAside
<1>3. /\ writes = <<>> /\ writes' = writes
      /\ UNCHANGED <<made, bioOut, wire, flights, rejected, shutSent, state, stack>>
      /\ UNCHANGED <<parent, tcp>>
  BY DEF SetSocketOutboundBuffer, engineVars, parentVars
<1>4. \A i \in 1..Len(<<>>) : FALSE OBVIOUS
<1>5. ~Unsent /\ ~Unsent' BY <1>3, <1>4 DEF Unsent
<1>6. InBuffer = 0 /\ InBuffer' = 0 BY <1>5 DEF InBuffer
<1>7. \A i \in 1..Len(writes') : FALSE BY <1>3, <1>4
<1>8. WireOrder => WireOrder' BY <1>3 DEF WireOrder
<1>9. Counted => Counted' BY <1>3, <1>5, <1>6, <1>7, <1>8 DEF Counted
<1>10. OnlyTold' BY <1>7 DEF OnlyTold
<1>11. Top' = Top /\ Up' = Up /\ InitFinished' = InitFinished
  BY <1>3 DEF Top, Up, InitFinished, PeerFlights
<1>12. Leftover => Leftover' BY <1>0, <1>3, <1>11, LeftoverStays
<1> QED BY <1>2, <1>3, <1>8, <1>9, <1>10, <1>11, <1>12 DEF WireInv

(* close_notify: the BIO and the buffer have room for it.                  *)
LEMMA WireShutdown ==
  ASSUME IInv, TypeOK', SInv, WireInv, Disconnect, Shutdown
  PROVE  WireInv'
<1>0. TypeOK /\ DataTypes /\ ShapeInv /\ EngineInv BY DEF IInv, SInv
<1>1. AsideAction BY DEF AsideAction, ProgramStep
<1>2. PeerBehind' BY <1>1, BehindAside
<1>3. /\ SslShuts /\ InProgram /\ (Pipelines \/ ~WritePending)
      /\ shutSent' = TRUE /\ state' = "closing" /\ UNCHANGED <<flights, outVars, parent>>
      /\ stack' = stack \o <<"disconnected", "tls">>
  BY DEF Disconnect, Shutdown, ShutdownFails, parentVars
<1>4. UNCHANGED <<wire, writes, outBuffer>> BY <1>3 DEF outVars
<1>5. InitFinished /\ InitFinished'
  BY <1>0, <1>3 DEF SslShuts, SslOpen, EngineInv, InitFinished, PeerFlights
<1>6. WireOrder => WireOrder' BY <1>4 DEF WireOrder
<1>7. Top # "tls" /\ Top' = "tls"
  BY <1>0, <1>3, ProgramTop, Disconnects
<1>8. OnlyTold' BY <1>3 DEF OnlyTold, SslOpen
<1>9. ASSUME CarefulWriter, parent = "open" PROVE Counted' /\ Leftover'
  <2>1. Counted /\ Leftover /\ OnlyTold BY <1>9 DEF WireInv
  <2>2. CASE shutSent
    <3>1. made' = made + 0 /\ bioOut' = bioOut \o Fresh(0) BY <2>2 DEF Shutdown
    <3>2. made' = made /\ bioOut' = bioOut BY <1>0, <3>1, FreshNone
    <3>3. Unsent' <=> Unsent BY <1>4 DEF Unsent
    <3>4. InBuffer' = InBuffer BY <1>4, <3>3 DEF InBuffer
    <3>5. Counted' BY <1>4, <1>6, <2>1, <3>2, <3>3, <3>4 DEF Counted
    <3>6. bioOut = <<>> BY <1>5, <1>7, <2>1, <2>2 DEF Leftover
    <3> QED BY <3>2, <3>5, <3>6 DEF Leftover
  <2>3. CASE ~shutSent
    <3>1. made' = made + 1 /\ bioOut' = bioOut \o Fresh(1) BY <2>3 DEF Shutdown
    <3>2. SslOpen BY <1>3, <2>3 DEF SslShuts
    <3>3. ~WritePending BY <1>3, <1>9 DEF CarefulWriter
    <3>4. ~Unsent /\ Len(bioOut) <= Lag BY <1>0, <1>7, <2>1, <3>2, <3>3, ClearToSend
    <3>5. 1 \in Nat /\ Len(bioOut) + 1 <= OutCap
      <4>1. 1 + Lag <= OutCap BY <1>9 DEF CarefulWriter
      <4>2. Len(bioOut) \in Nat /\ Lag \in Nat /\ OutCap \in Nat BY <1>0, OutTypes DEF Lag
      <4> QED BY <3>4, <4>1, <4>2
    <3>6. Counted' BY <1>0, <1>3, <2>1, <3>1, <3>4, <3>5, CountedMade
    <3> QED BY <1>3, <1>7, <3>6 DEF Leftover
  <2> QED BY <2>2, <2>3
<1> QED BY <1>2, <1>3, <1>5, <1>6, <1>8, <1>9 DEF WireInv

(* write(): the buffer is free, and everything in the BIO fits into it.    *)
LEMMA WireWrite ==
  ASSUME IInv, TypeOK', SInv, WireInv, NEW n \in WriteSize, Write(n)
  PROVE  WireInv'
<1>0. TypeOK /\ DataTypes /\ ShapeInv /\ EngineInv BY DEF IInv, SInv
<1>1. AsideAction BY DEF AsideAction, ProgramStep
<1>2. PeerBehind' BY <1>1, BehindAside
<1>3. /\ MayWrite /\ ParentWrite("told", stack) /\ parent' = parent
      /\ \/ SslOpen /\ Wrap(n) /\ outBuffer' = Wrapped(n)
         \/ WrapFails /\ outBuffer' = StaleOutput
  BY DEF Write, parentVars
<1>4. flights' = flights BY <1>3 DEF Wrap, WrapFails
<1>5. InitFinished /\ InitFinished'
  BY <1>3, <1>4 DEF MayWrite, InitFinished, PeerFlights
<1>6. CASE parent # "open"
  <2>1. wire' = wire BY <1>3, <1>6 DEF ParentWrite
  <2> QED BY <1>2, <1>3, <1>5, <1>6, <2>1, WireClosed
<1>7. CASE parent = "open" /\ ~CarefulWriter
  BY <1>2, <1>5, <1>7 DEF WireInv
<1>8. CASE parent = "open" /\ CarefulWriter
  <2>1. Counted /\ Leftover /\ OnlyTold BY <1>8 DEF WireInv
  <2>2. ~WritePending /\ state = "handshaked"
    BY <1>3, <1>8 DEF MayWrite, CarefulWriter
  <2>3. SslOpen BY <1>0, <2>2 DEF EngineInv, SslOpen
  <2>4. Wrap(n) /\ outBuffer' = Wrapped(n) BY <1>3, <2>3 DEF WrapFails
  <2>5. ~Unsent /\ Len(bioOut) <= Lag
    BY <1>0, <2>1, <2>2, <2>3, ClearToSend DEF SslOpen
  <2>6. n \in Nat /\ Len(bioOut) + n <= OutCap /\ Len(bioOut) + n # 0
    <3>1. n + Lag <= OutCap BY <1>8 DEF CarefulWriter
    <3>2. /\ Len(bioOut) \in Nat /\ Lag \in Nat /\ OutCap \in Nat
          /\ n \in Nat /\ n # 0
      BY <1>0, OutTypes, BoundsAssumption DEF Lag
    <3> QED BY <2>5, <3>1, <3>2
  <2>7. PICK now \in BOOLEAN :
          /\ writes' = Append(writes, [by |-> "told", sent |-> now, len |-> Len(outBuffer')])
          /\ wire' = IF now THEN wire \o outBuffer' ELSE wire
    BY <1>3, <1>8 DEF ParentWrite
  <2>8. writes' \in Seq(ParentWrites) BY DEF TypeOK
  <2>9. /\ Counted' /\ bioOut' = <<>>
        /\ \A i \in 1..Len(writes') : ~writes'[i].sent => writes'[i].by = "told"
    BY <1>0, <2>1, <2>4, <2>5, <2>6, <2>7, <2>8, CountedSend
  <2>10. Leftover' /\ OnlyTold' /\ WireOrder' BY <2>9 DEF Leftover, OnlyTold, Counted
  <2> QED BY <1>2, <1>5, <2>9, <2>10 DEF WireInv
<1> QED BY <1>6, <1>7, <1>8

(* tlsProcess sends what is in the BIO; the buffer is free.                *)
LEMMA WireFlush ==
  ASSUME IInv, TypeOK', SInv, WireInv, TlsProcess, TlsFlush
  PROVE  WireInv'
<1>0. TypeOK /\ DataTypes /\ ShapeInv /\ EngineInv BY DEF IInv, SInv
<1>1. AsideAction BY DEF AsideAction
<1>2. PeerBehind' BY <1>1, BehindAside
<1>3. /\ state # "handshaked" /\ bioOut # <<>> /\ Wrap(0) /\ outBuffer' = Wrapped(0)
      /\ ParentWrite("tls", Below) /\ UNCHANGED <<parent, tcp>>
  BY DEF TlsFlush, GetHandshakeStatus, parentVars
<1>4. UNCHANGED <<flights, rejected, shutSent, state>> /\ made' = made + 0
  BY <1>3 DEF Wrap
<1>5. made' = made BY <1>0, <1>4, FreshNone
<1>6. InitFinished' = InitFinished /\ Up' = Up /\ SslOpen' = SslOpen
  BY <1>3, <1>4 DEF InitFinished, PeerFlights, Up, SslOpen
<1>7. ~InitFinished' /\ Up' => made' = flights' + 1
  BY <1>4, <1>5, <1>6 DEF WireInv
<1>8. CASE parent # "open"
  <2>1. wire' = wire BY <1>3, <1>8 DEF ParentWrite
  <2> QED BY <1>2, <1>3, <1>7, <1>8, <2>1, WireClosed
<1>9. CASE parent = "open" /\ ~CarefulWriter /\ InitFinished
  BY <1>2, <1>6, <1>7, <1>9 DEF WireInv
<1>10. CASE parent = "open" /\ (CarefulWriter \/ ~InitFinished)
  <2>1. Counted BY <1>10 DEF WireInv
  <2>2. ~Unsent /\ Len(bioOut) <= OutCap BY <1>3, <2>1 DEF Counted
  <2>3. 0 \in Nat /\ Len(bioOut) + 0 <= OutCap /\ Len(bioOut) + 0 # 0
    <3>1. bioOut \in Seq(Nat) BY <1>0, OutTypes
    <3>2. Len(bioOut) \in Nat /\ Len(bioOut) # 0 BY <1>3, <3>1, Shorts
    <3> QED BY <2>2, <3>2
  <2>4. PICK now \in BOOLEAN :
          /\ writes' = Append(writes, [by |-> "tls", sent |-> now, len |-> Len(outBuffer')])
          /\ wire' = IF now THEN wire \o outBuffer' ELSE wire
    BY <1>3, <1>10 DEF ParentWrite
  <2>5. writes' \in Seq(ParentWrites) BY DEF TypeOK
  <2>6. Counted' /\ bioOut' = <<>>
    BY <1>0, <1>3, <2>1, <2>2, <2>3, <2>4, <2>5, CountedSend
  <2>7. Leftover' /\ WireOrder' BY <2>6 DEF Leftover, Counted
  <2>8. CarefulWriter => OnlyTold'
    <3>1. CarefulWriter => Leftover BY <1>10 DEF WireInv
    <3>2. CarefulWriter => ~SslOpen BY <1>3, <3>1 DEF Leftover, SslOpen
    <3> QED BY <1>6, <3>2 DEF OnlyTold
  <2> QED BY <1>2, <1>7, <2>6, <2>7, <2>8 DEF WireInv
<1> QED BY <1>8, <1>9, <1>10

(* The parent answers a write.                                             *)
LEMMA WireDone ==
  ASSUME IInv, TypeOK', SInv, WireInv, ParentWriteDone
  PROVE  WireInv'
<1>0. TypeOK /\ DataTypes /\ EngineInv BY DEF IInv, SInv
<1>1. AsideAction BY DEF AsideAction, ParentStep
<1>2. PeerBehind' BY <1>1, BehindAside
<1>3. /\ stack = <<>> /\ UNCHANGED <<parent, tcp>>
      /\ UNCHANGED <<made, bioOut, flights, rejected, shutSent, state>>
  BY DEF ParentWriteDone, engineVars, parentVars
<1>4. InitFinished' = InitFinished /\ Up' = Up /\ SslOpen' = SslOpen
  BY <1>3 DEF InitFinished, PeerFlights, Up, SslOpen
<1>5. ~InitFinished' /\ Up' => made' = flights' + 1
  BY <1>3, <1>4 DEF WireInv
<1>6. CASE parent # "open"
  <2>1. wire' = wire BY <1>6 DEF ParentWriteDone
  <2> QED BY <1>2, <1>3, <1>5, <1>6, <2>1, WireClosed
<1>7. CASE parent = "open" /\ ~CarefulWriter /\ InitFinished
  BY <1>2, <1>4, <1>5, <1>7 DEF WireInv
<1>8. CASE parent = "open" /\ (CarefulWriter \/ ~InitFinished)
  <2>1. Counted BY <1>8 DEF WireInv
  <2>2. /\ Counted' /\ (~Unsent => wire' = wire)
        /\ \A i \in 1..Len(writes') : i + 1 \in 1..Len(writes) /\ writes'[i] = writes[i + 1]
    BY <1>0, <1>8, <2>1, CountedDone
  <2>3. OnlyTold => OnlyTold' BY <1>4, <2>2 DEF OnlyTold
  <2>4. Leftover => Leftover'
    <3>1. CASE bioOut = <<>> BY <1>3, <3>1 DEF Leftover
    <3>2. CASE bioOut # <<>>
      <4>1. wire' = wire BY <2>1, <2>2, <3>2 DEF Counted
      <4>2. Top # "tls" BY <1>3 DEF Top
      <4> QED BY <1>0, <1>3, <4>1, <4>2, LeftoverStays
    <3> QED BY <3>1, <3>2
  <2>5. WireOrder' BY <2>2 DEF Counted
  <2> QED BY <1>2, <1>3, <1>5, <1>8, <2>2, <2>3, <2>4, <2>5 DEF WireInv
<1> QED BY <1>6, <1>7, <1>8

(* Once there is something other than a flight to read, the peer has the   *)
(* client's second flight.                                                 *)
LEMMA SecondFlight ==
  ASSUME SInv, PipeInv, PeerBehind, InitFinished, bioIn # <<>>
  PROVE  Len(wire) # 1
<1>1. NoFlights(bioIn) /\ bioIn \in Seq(Record) BY FlightsOver DEF SInv, DataTypes
<1>2. ~AllFlights(bioIn) BY <1>1, OnlyNone
<1>3. Len(wire) >= 2 BY <1>2 DEF PeerBehind
<1>4. Len(wire) \in Nat BY LenProperties DEF SInv, DataTypes
<1>5. \A n \in Nat : n >= 2 => n # 1 OBVIOUS
<1> QED BY <1>3, <1>4, <1>5, Zenon

(* The read loop sends nothing.                                            *)
LEMMA WireUnwrap ==
  ASSUME IInv, SInv, PipeInv, WireInv, Unwrap
  PROVE  WireInv'
<1>0. TypeOK /\ ShapeInv /\ EngineInv /\ DataTypes BY DEF IInv, SInv
<1>1. /\ UNCHANGED <<made, bioOut, wire, writes, outBuffer, flights, rejected, shutSent>>
      /\ UNCHANGED <<parent, tcp, net, peerSent>> /\ Top = "unwrap"
  BY <1>0, UnwrapFacts
<1>2. bioIn \in Seq(Record) /\ input \in Seq(Record) /\ PeerBehind
  BY <1>0 DEF DataTypes, WireInv
<1>3. AllFlights(bioIn) /\ AllFlights(input) => AllFlights(bioIn') /\ AllFlights(input')
  <2>1. CASE bioIn' = bioIn /\ input' = <<>> BY <2>1, OrderlyNone
  <2>2. CASE Taken(Room(input))
    <3>1. Room(input) \in Nat BY <1>0, RoomFacts
    <3> QED BY <1>0, <2>2, <3>1, TakenFlights
  <2> QED BY <1>0, <2>1, <2>2, UnwrapFacts
<1>4. PeerBehind' BY <1>1, <1>2, <1>3 DEF PeerBehind, AllFlights
<1>5. Leftover => Leftover'
  <2>1. CASE state' = state BY <1>0, <1>1, <2>1, LeftoverStays
  <2>2. CASE input # <<>> /\ Len(bioIn) = BioCap
    <3>1. bioIn # <<>>
      <4>1. Len(bioIn) \in Nat /\ (bioIn = <<>> <=> Len(bioIn) = 0) BY <1>2, Shorts
      <4> QED BY <2>2, <4>1, CapAssumption
    <3>2. InitFinished => Len(wire) # 1 BY <1>2, <3>1, SecondFlight
    <3>3. Leftover => ~(InitFinished /\ bioOut # <<>>) BY <1>1, <3>2 DEF Leftover
    <3> QED BY <1>1, <3>3 DEF Leftover, InitFinished, PeerFlights
  <2> QED BY <1>0, <2>1, <2>2, UnwrapFacts
<1>6. Up' = Up BY <1>1 DEF Up
<1> QED BY <1>1, <1>4, <1>5, <1>6, WireFrame

LEMMA WireRead ==
  ASSUME IInv, SInv, SInv', PipeInv, PipeInv', WireInv, UnwrapRead
  PROVE  WireInv'
<1>0. TypeOK /\ ShapeInv /\ EngineInv /\ DataTypes BY DEF IInv, SInv
<1>1. ~rejected /\ ~rejected' BY DEF PipeInv
<1>2. /\ UNCHANGED <<wire, writes, outBuffer, flights, shutSent, parent, tcp, net, peerSent>>
      /\ Top = "sslRead"
  BY <1>0, ReadFacts
<1>3. /\ UNCHANGED <<made, bioOut>>
      /\ state' = state \/ bioIn # <<>>
      /\ bioIn' = bioIn \/ (bioIn # <<>> /\ bioIn' = Tail(bioIn))
      /\ input' = input \/ input' = <<>>
  BY <1>0, <1>1, ReadFacts
<1>4. bioIn \in Seq(Record) /\ PeerBehind BY <1>0 DEF DataTypes, WireInv
<1>5. (AllFlights(bioIn) => AllFlights(bioIn')) /\ (AllFlights(input) => AllFlights(input'))
  <2>1. bioIn # <<>> /\ AllFlights(bioIn) => AllFlights(Tail(bioIn)) BY <1>4, OrderlyRest
  <2>2. AllFlights(<<>>) BY OrderlyNone
  <2>3. AllFlights(bioIn) => AllFlights(bioIn') BY <1>3, <2>1
  <2>4. AllFlights(input) => AllFlights(input') BY <1>3, <2>2
  <2> QED BY <2>3, <2>4
<1>6. PeerBehind' BY <1>2, <1>4, <1>5 DEF PeerBehind, AllFlights
<1>7. Leftover => Leftover'
  <2>1. CASE state' = state BY <1>0, <1>2, <1>3, <2>1, LeftoverStays
  <2>2. CASE bioIn # <<>>
    <3>1. InitFinished => Len(wire) # 1 BY <1>4, <2>2, SecondFlight
    <3>2. Leftover => ~(InitFinished /\ bioOut # <<>>) BY <1>2, <3>1 DEF Leftover
    <3> QED BY <1>2, <1>3, <3>2 DEF Leftover, InitFinished, PeerFlights
  <2> QED BY <1>3, <2>1, <2>2
<1>8. Up' = Up BY <1>2 DEF Up
<1>9. rejected' = rejected
  <2>1. rejected \in BOOLEAN /\ rejected' \in BOOLEAN BY DEF SInv, DataTypes
  <2> QED BY <1>1, <2>1
<1> QED BY <1>2, <1>3, <1>6, <1>7, <1>8, <1>9, WireFrame

(* ... but SSL_do_handshake answers the peer's flight, when all before it  *)
(* was sent.                                                               *)
LEMMA WireHandshake ==
  ASSUME IInv, SInv, PipeInv, WireInv, UnwrapHandshake
  PROVE  WireInv'
<1>0. TypeOK /\ ShapeInv /\ EngineInv /\ DataTypes BY DEF IInv, SInv
<1>1. /\ ~InitFinished /\ ~rejected /\ Base = "handshake" /\ ~shutSent
      /\ UNCHANGED <<shutSent, wire, writes, outBuffer, parent, tcp, net, peerSent>>
  BY <1>0, HandshakeFacts DEF PipeInv, EngineInv
<1>2. bioIn # <<>> => bioIn[1] = "flight" BY <1>1 DEF PipeInv
<1>3. Up /\ Up' BY <1>0, <1>1 DEF EngineInv, Reading, Up
<1>4. made = flights + 1 /\ PeerBehind BY <1>1, <1>3 DEF WireInv
<1>5. /\ bioIn \in Seq(Record) /\ flights \in Nat /\ peerSent.flights \in Nat
      /\ PeerFlights \in Nat /\ flights + 1 <= PeerFlights
  <2>1. flights \in 0..PeerFlights /\ flights # PeerFlights /\ PeerFlights \in Nat
    BY <1>0, <1>1, FlightCount DEF DataTypes, InitFinished
  <2> QED BY <1>0, <2>1 DEF DataTypes
<1>6. AllFlights(<<>>) BY OrderlyNone
<1>7. CASE /\ bioIn # <<>> /\ flights' = flights + 1 /\ bioIn' = Tail(bioIn)
           /\ \/ /\ flights + 1 = PeerFlights /\ state' = "handshaked"
                 /\ made' = made + Lag /\ bioOut' = bioOut \o Fresh(Lag)
                 /\ input' = input
              \/ /\ flights + 1 # PeerFlights
                 /\ made' = made + 1 /\ bioOut' = bioOut \o Fresh(1)
                 /\ input' = <<>>
  <2>1. PeerBehind'
    <3>1. AllFlights(bioIn) => AllFlights(bioIn') BY <1>5, <1>7, OrderlyRest
    <3>2. AllFlights(input) => AllFlights(input') BY <1>6, <1>7
    <3> QED BY <1>1, <1>4, <3>1, <3>2 DEF PeerBehind, AllFlights
  <2>2. InitFinished' <=> flights + 1 = PeerFlights BY <1>7 DEF InitFinished, PeerFlights
  <2>3. ~InitFinished' => made' = flights' + 1
    BY <1>4, <1>5, <1>7, <2>2
  <2>4. CarefulWriter => WireOrder' BY <1>1 DEF WireInv, WireOrder
  <2>5. CASE parent # "open" BY <1>1, <2>1, <2>3, <2>4, <2>5 DEF WireInv
  <2>6. CASE parent = "open"
    <3>1. Counted BY <1>1, <2>6 DEF WireInv
    <3>2. peerSent.flights >= flights + 1
      <4>1. Len(bioIn) \in Nat /\ Len(bioIn) # 0 BY <1>5, <1>7, Shorts
      <4>2. 1 \in 1..Len(bioIn) BY <4>1
      <4>3. ~NoFlights(bioIn) BY <1>2, <1>7, <4>2 DEF NoFlights
      <4>4. peerSent.flights # flights /\ flights <= peerSent.flights
        BY <4>3 DEF PipeInv, Orderly
      <4> QED BY <1>5, <4>4
    <3>3. /\ Len(bioOut) \in Nat /\ Len(wire) \in Nat /\ InBuffer \in Nat
          /\ outBuffer \in Seq(Nat) /\ bioOut \in Seq(Nat) /\ OutCap \in Nat \ {0}
      BY <1>0, OutTypes
    <3>4. Len(wire) = flights + 1 /\ InBuffer = 0 /\ Len(bioOut) = 0
      <4>1. peerSent.flights <= Len(wire) BY <1>4 DEF PeerBehind
      <4>2. flights + 1 = Len(wire) + InBuffer + Len(bioOut) BY <1>4, <3>1 DEF Counted
      <4> QED BY <1>5, <3>2, <3>3, <4>1, <4>2
    <3>5. ~Unsent
      <4>1. outBuffer # <<>> => Len(outBuffer) # 0 BY <3>3, Shorts
      <4> QED BY <3>1, <3>4, <4>1 DEF Counted, InBuffer
    <3>6. Unsent' <=> Unsent BY <1>1 DEF Unsent
    <3>7. OnlyTold' BY <3>5, <3>6 DEF OnlyTold, Unsent
    <3>8. UNCHANGED outVars BY <1>1 DEF outVars
    <3>9. CASE flights + 1 = PeerFlights
      <4>1. Lag \in Nat /\ Len(bioOut) + Lag <= OutCap BY <3>3, <3>4 DEF Lag
      <4>2. made' = made + Lag /\ bioOut' = bioOut \o Fresh(Lag) /\ state' = "handshaked"
        BY <1>7, <3>9
      <4>3. Counted' /\ Len(bioOut') = Len(bioOut) + Lag
        BY <1>0, <3>1, <3>5, <3>8, <4>1, <4>2, CountedMade
      <4>4. Len(bioOut') = Lag BY <3>4, <4>1, <4>3
      <4>5. Leftover'
        <5>1. CASE Tls13
          <6>1. Len(wire) = 1 BY <3>4, <3>9, <5>1, FlightCount
          <6> QED BY <1>1, <4>2, <4>4, <5>1, <6>1 DEF Leftover, Lag
        <5>2. CASE ~Tls13
          <6>1. bioOut' \o <<>> = bioOut' /\ Lag = 0 BY <5>2 DEF Lag
          <6>2. bioOut' = bioOut BY <1>0, <4>2, <6>1, FreshNone
          <6>3. bioOut = <<>> BY <3>3, <3>4, Shorts
          <6> QED BY <6>2, <6>3 DEF Leftover
        <5> QED BY <5>1, <5>2
      <4> QED BY <2>1, <2>3, <2>4, <3>7, <4>3, <4>5 DEF WireInv
    <3>10. CASE flights + 1 # PeerFlights
      <4>1. 1 \in Nat /\ Len(bioOut) + 1 <= OutCap BY <3>3, <3>4
      <4>2. made' = made + 1 /\ bioOut' = bioOut \o Fresh(1) BY <1>7, <3>10
      <4>3. Counted' BY <1>0, <3>1, <3>5, <3>8, <4>1, <4>2, CountedMade
      <4>4. Leftover' BY <2>2, <3>10 DEF Leftover
      <4> QED BY <2>1, <2>3, <2>4, <3>7, <4>3, <4>4 DEF WireInv
    <3> QED BY <3>9, <3>10
  <2> QED BY <2>5, <2>6
<1>8. CASE /\ bioIn = <<>> /\ UNCHANGED <<flights, rejected, made, bioOut, bioIn>>
           /\ input' = <<>>
  <2>1. PeerBehind' BY <1>1, <1>4, <1>6, <1>8 DEF PeerBehind, AllFlights
  <2>2. ~InitFinished' BY <1>1, <1>8 DEF InitFinished, PeerFlights
  <2>3. Leftover' BY <2>2 DEF Leftover
  <2> QED BY <1>1, <1>3, <1>8, <2>1, <2>3, WireFrame
<1> QED BY <1>0, <1>1, <1>2, <1>7, <1>8, HandshakeFacts

(* The peer's records, up to the read loop.                                *)
LEMMA WirePeer ==
  ASSUME IInv, SInv, PipeInv, WireInv, ~PeerRejects,
         \/ Return /\ ~Returns
         \/ \E k \in 0..MaxCoalesced : ParentRead(k)
         \/ ParentEnds
         \/ \E rec \in Record : PeerSends(rec)
  PROVE  WireInv'
<1>0. TypeOK /\ ShapeInv /\ EngineInv /\ DataTypes BY DEF IInv, SInv
<1>1. UNCHANGED <<state, made, bioOut, wire, writes, outBuffer, flights, rejected, shutSent,
                  bioIn, parent>>
  BY Zenon DEF Return, ParentRead, ParentEnds, PeerSends, engineVars, outVars, parentVars
<1>2. PeerBehind /\ net \in Seq(Record) BY <1>0 DEF DataTypes, WireInv
<1>3. AllFlights(<<>>) BY OrderlyNone
<1>4. ASSUME PeerBehind', Top # "tls" \/ Top' = Top, Up' => Up PROVE WireInv'
  <2>1. Leftover => Leftover' BY <1>0, <1>1, <1>4, LeftoverStays
  <2> QED BY <1>1, <1>4, <2>1, WireFrame
<1>5. CASE Return /\ ~Returns
  <2>1. (input' = input \/ input' = <<>>) /\ UNCHANGED <<net, peerSent, tcp>>
    BY <1>0, <1>5, LoopReturnFacts
  <2>2. PeerBehind' BY <1>1, <1>2, <1>3, <2>1 DEF PeerBehind, AllFlights
  <2>3. Top # "tls" BY <1>5 DEF Return, ProgramFrames
  <2> QED BY <1>4, <2>1, <2>2, <2>3 DEF Up
<1>6. ASSUME NEW k \in 0..MaxCoalesced, ParentRead(k) PROVE WireInv'
  <2>1. /\ stack = <<>> /\ UNCHANGED <<tcp, peerSent>>
        /\ k \in Nat /\ k <= Len(net) /\ input' \in Seq(Record) /\ net' \in Seq(Record)
        /\ Len(input') = k /\ Len(net') = Len(net) - k
        /\ \A i \in 1..k : input'[i] = net[i]
        /\ \A i \in 1..Len(net) - k : net'[i] = net[k + i]
    BY <1>0, <1>6, ParentReadFacts
  <2>2. Len(net) \in Nat BY <1>2, LenProperties
  <2>3. AllFlights(net) => AllFlights(input') /\ AllFlights(net')
    <3>1. \A i \in 1..k : i \in 1..Len(net) BY <2>1, <2>2
    <3>2. \A i \in 1..Len(net) - k : k + i \in 1..Len(net) BY <2>1, <2>2
    <3> QED BY <2>1, <3>1, <3>2 DEF AllFlights
  <2>4. PeerBehind' BY <1>1, <1>2, <2>1, <2>3 DEF PeerBehind, AllFlights
  <2>5. Top # "tls" BY <2>1 DEF Top
  <2> QED BY <1>4, <2>1, <2>4, <2>5 DEF Up
<1>7. CASE ParentEnds
  <2>1. tcp = "up" /\ net' = <<>> /\ UNCHANGED <<input, peerSent, stack>>
    BY <1>7 DEF ParentEnds
  <2>2. PeerBehind' BY <1>1, <1>2, <1>3, <2>1 DEF PeerBehind, AllFlights
  <2>3. Top' = Top /\ Up BY <2>1 DEF Top, Up
  <2> QED BY <1>4, <2>2, <2>3
<1>8. ASSUME NEW rec \in Record, PeerSends(rec) PROVE WireInv'
  <2>1. net' = Append(net, rec) /\ UNCHANGED <<input, stack, tcp>>
    BY <1>8 DEF PeerSends, parentVars
  <2>2. peerSent \in [flights: Nat, others: Nat] /\ Len(wire) \in Nat
    BY <1>0, OutTypes DEF DataTypes
  <2>3. peerSent'.flights <= Len(wire)
    <3>1. CASE rec = "flight"
      <4>1. Len(wire) > peerSent.flights /\ peerSent' = [peerSent EXCEPT !.flights = @ + 1]
        BY <1>8, <3>1 DEF PeerSends
      <4>2. peerSent'.flights = peerSent.flights + 1 /\ peerSent.flights \in Nat
        BY <2>2, <4>1
      <4> QED BY <2>2, <4>1, <4>2
    <3>2. CASE rec # "flight"
      <4>1. peerSent' = [peerSent EXCEPT !.others = @ + 1] BY <1>8, <3>2 DEF PeerSends
      <4>2. peerSent'.flights = peerSent.flights BY <2>2, <4>1
      <4> QED BY <1>2, <4>2 DEF PeerBehind
    <3> QED BY <3>1, <3>2
  <2>4. (AllFlights(net) => AllFlights(net')) \/ Len(wire) >= 2
    <3>1. CASE rec = "flight"
      <4>1. /\ Len(net) \in Nat /\ Len(net') = Len(net) + 1 /\ net'[Len(net) + 1] = rec
            /\ \A i \in 1..Len(net) : net'[i] = net[i]
        BY <1>2, <2>1, AppendProperties, LenProperties
      <4>2. \A i \in 1..Len(net') : i \in 1..Len(net) \/ i = Len(net) + 1 BY <4>1
      <4> QED BY <3>1, <4>1, <4>2 DEF AllFlights
    <3>2. CASE rec # "flight" BY <1>8, <3>2 DEF PeerSends
    <3> QED BY <3>1, <3>2
  <2>5. PeerBehind' BY <1>1, <1>2, <2>1, <2>3, <2>4 DEF PeerBehind, AllFlights
  <2>6. Top' = Top /\ (Up' => Up) BY <2>1 DEF Top, Up
  <2> QED BY <1>4, <2>5, <2>6
<1> QED BY <1>5, <1>6, <1>7, <1>8

(* WireInv is inductive, with PipeInv.                                     *)
LEMMA WireStep ==
  ASSUME ~PeerRejects, IInv, TypeOK', SInv, PipeInv, PipeInv', WireInv, [Next]_vars
  PROVE  WireInv'
<1>1. ASSUME ProgramStep PROVE WireInv'
  <2>1. ASSUME NEW n \in WriteSize, Write(n) PROVE WireInv' BY <2>1, WireWrite
  <2>2. CASE Disconnect /\ Shutdown BY <2>2, WireShutdown
  <2>3. Disconnect => Shutdown \/ ShutdownFails BY DEF Disconnect
  <2> QED BY <1>1, <2>1, <2>2, <2>3, WireProgram, WireSetBuffer DEF ProgramStep
<1>2. ASSUME ParentStep PROVE WireInv'
  <2>1. ASSUME NEW ok \in BOOLEAN, ParentConnected(ok) PROVE WireInv'
    <3>1. CASE ok = TRUE BY <2>1, <3>1, WireConnected
    <3>2. CASE ok = FALSE BY <2>1, <3>2, WireParent
    <3> QED BY <3>1, <3>2
  <2> QED BY <1>2, <2>1, WireParent, WireDone DEF ParentStep
<1>3. ASSUME TlsProcess PROVE WireInv'
  <2>1. CASE TlsFlush BY <1>3, <2>1, WireFlush
  <2>2. Top = "tls" /\ (TlsFlush \/ TlsWait \/ TlsFinished \/ TlsClosing)
    BY <1>3 DEF TlsProcess
  <2> QED BY <1>3, <2>1, <2>2, WireOwn
<1>4. ASSUME AsideAction PROVE WireInv'
  <2>1. CASE EmitDisconnect \/ Returns \/ UNCHANGED vars BY <2>1, WireOwn
  <2> QED BY <1>1, <1>2, <1>3, <1>4, <2>1 DEF AsideAction
<1>5. SInv' BY SStep
<1> QED BY <1>4, <1>5, WirePeer, WireUnwrap, WireHandshake, WireRead, StepCases

-----------------------------------------------------------------------------
(* With TLS 1.2 nothing stays in the BIO.                                  *)

(* A record made with the BIO empty.                                       *)
LEMMA OneRecord ==
  ASSUME TypeOK, bioOut = <<>>, NEW n \in Nat
  PROVE  Len(bioOut \o Fresh(n)) = n /\ bioOut \o Fresh(n) \in Seq(Nat)
<1>1. bioOut \in Seq(Nat) /\ made \in Nat BY DEF TypeOK
<1>2. Fresh(n) \in Seq(Nat) BY <1>1, FreshType
<1>3. Len(Fresh(n)) = n
  <2>1. DOMAIN Fresh(n) = 1..n BY DEF Fresh
  <2> QED BY <1>2, <2>1, LenProperties
<1>4. Len(bioOut) = 0 OBVIOUS
<1>5. bioOut \o Fresh(n) \in Seq(Nat) /\ Len(bioOut \o Fresh(n)) = Len(bioOut) + Len(Fresh(n))
  BY <1>1, <1>2, JoinedRecords
<1>6. 0 + n = n OBVIOUS
<1> QED BY <1>3, <1>4, <1>5, <1>6, Zenon

(* wrap empties the BIO when all of it fits the buffer.                    *)
LEMMA WrapFits ==
  ASSUME TypeOK, NEW n \in Nat, Len(bioOut \o Fresh(n)) <= OutCap, Wrap(n)
  PROVE  bioOut' = <<>>
<1> DEFINE out == bioOut \o Fresh(n)
<1>1. out \in Seq(Nat) /\ Len(out) <= OutCap BY MoreOut
<1>2. bioOut' = SubSeq(out, OutCap + 1, Len(out)) BY DEF Wrap
<1> HIDE DEF out
<1>3. OutCap \in Nat BY CapAssumption
<1> QED BY <1>1, <1>2, <1>3, Suffix

(* The code that runs next is tlsProcess.                                  *)
LEMMA TlsNext ==
  ASSUME TypeOK, stack # <<>>, stack' = Append(Below, "tls")
  PROVE  Top' = "tls"
<1>1. Below \in Seq(Frame) BY FrontFacts DEF TypeOK, Below
<1>2. "tls" \in Frame BY LoopFrames
<1>3. /\ Len(stack') = Len(Below) + 1 /\ stack'[Len(Below) + 1] = "tls"
      /\ Len(Below) \in Nat
  BY <1>1, <1>2, AppendProperties, LenProperties
<1>4. stack' # <<>> BY <1>3
<1> QED BY <1>3, <1>4 DEF Top, Last

(* The BIO stays as it is.                                                 *)
LEMMA FlushAside ==
  ASSUME FlushInv, bioOut' = bioOut, Top # "tls" \/ (Top' = Top /\ state' = state)
  PROVE  FlushInv'
BY DEF FlushInv

(* Each step keeps FlushInv: with the BIO empty, a write that fits leaves  *)
(* it empty.                                                               *)
LEMMA FlushProgram ==
  ASSUME ~Tls13, \A n \in WriteSize : n <= OutCap, IInv, SInv, FlushInv, ProgramStep
  PROVE  FlushInv'
<1>0. TypeOK /\ ShapeInv BY DEF IInv, SInv
<1>1. InProgram
  BY Zenon DEF ProgramStep, Connect, Write, MayWrite, SetSocketOutboundBuffer, Read,
     CancelRead, Disconnect, Close, CloseTheParent
<1>2. Top # "tls" /\ bioOut = <<>> BY <1>0, <1>1, ProgramTop DEF FlushInv
<1>3. CASE bioOut' = bioOut BY <1>2, <1>3, FlushAside
<1>4. ASSUME NEW n \in WriteSize, Wrap(n) PROVE FlushInv'
  <2>1. n \in Nat /\ n <= OutCap BY BoundsAssumption
  <2>2. Len(bioOut \o Fresh(n)) = n BY <1>0, <1>2, <2>1, OneRecord
  <2>3. Len(bioOut \o Fresh(n)) <= OutCap BY <2>1, <2>2, Zenon
  <2>4. bioOut' = <<>> BY <1>0, <1>4, <2>1, <2>3, WrapFits
  <2> QED BY <2>4 DEF FlushInv
<1>5. CASE Shutdown /\ stack' = stack \o <<"disconnected", "tls">>
  <2>1. state' = "closing" BY <1>5 DEF Shutdown
  <2>2. Top' = "tls" BY <1>0, <1>1, <1>5, <2>1, Disconnects
  <2>3. PICK n \in {0, 1} : bioOut' = bioOut \o Fresh(n) BY <1>5 DEF Shutdown
  <2>4. CASE n = 0
    <3>1. bioOut' = bioOut BY <1>0, <2>3, <2>4, FreshNone
    <3> QED BY <1>3, <3>1
  <2>5. CASE n = 1
    <3>1. Len(bioOut') = 1 BY <1>0, <1>2, <2>3, <2>5, OneRecord
    <3> QED BY <2>1, <2>2, <3>1 DEF FlushInv
  <2> QED BY <2>3, <2>4, <2>5
<1>6. \/ bioOut' = bioOut
      \/ \E n \in WriteSize : Wrap(n)
      \/ Shutdown /\ stack' = stack \o <<"disconnected", "tls">>
  BY Zenon DEF ProgramStep, Connect, Write, WrapFails, SetSocketOutboundBuffer, Read,
     CancelRead, Disconnect, ShutdownFails, Close, CloseTheParent, engineVars
<1> QED BY <1>3, <1>4, <1>5, <1>6

(* The client's first flight, which tlsProcess sends.                      *)
LEMMA FlushParent ==
  ASSUME IInv, SInv, FlushInv, ParentStep
  PROVE  FlushInv'
<1>0. TypeOK /\ LifeInv /\ FreshInv /\ EngineInv BY DEF IInv, SInv
<1>1. stack = <<>> BY <1>0, ParentAside
<1>2. Top # "tls" BY <1>1 DEF Top
<1>3. CASE bioOut' = bioOut BY <1>2, <1>3, FlushAside
<1>4. CASE ParentConnected(TRUE)
  <2>1. tcp = "connecting" /\ bioOut' = Fresh(1) /\ stack' = <<"tls">> /\ state' = state
    BY <1>4 DEF ParentConnected, BeginHandshake
  <2>2. ~Up BY <2>1 DEF Up
  <2>3. ~InitFinished BY <1>0, <2>2, EmptyCounted
  <2>4. state' # "handshaked" BY <1>0, <2>1, <2>3 DEF EngineInv
  <2>5. Top' = "tls" BY <2>1 DEF Top, Last
  <2>6. Len(bioOut') = 1
    <3>1. Fresh(1) \in Seq(Nat) BY <1>0, FreshType DEF TypeOK
    <3>2. DOMAIN Fresh(1) = 1..1 BY DEF Fresh
    <3> QED BY <2>1, <3>1, <3>2, LenProperties
  <2> QED BY <2>4, <2>5, <2>6 DEF FlushInv
<1>5. bioOut' = bioOut \/ ParentConnected(TRUE)
  <2>1. ASSUME NEW ok \in BOOLEAN, ParentConnected(ok), ok # TRUE PROVE bioOut' = bioOut
    BY <2>1 DEF ParentConnected, engineVars
  <2>2. CASE ParentInit \/ ParentWriteDone \/ ParentClosed
    BY <2>2 DEF ParentInit, ParentWriteDone, ParentClosed, engineVars
  <2> QED BY <2>1, <2>2 DEF ParentStep
<1> QED BY <1>3, <1>4, <1>5

(* tlsProcess sends the one record, or there is none.                      *)
LEMMA FlushTls ==
  ASSUME IInv, FlushInv, TlsProcess
  PROVE  FlushInv'
<1>0. TypeOK BY DEF IInv
<1>1. CASE TlsFlush
  <2>1. bioOut # <<>> /\ Wrap(0) BY <1>1 DEF TlsFlush, GetHandshakeStatus
  <2>2. Len(bioOut) = 1 BY <2>1 DEF FlushInv
  <2>3. Len(bioOut \o Fresh(0)) = 1 BY <1>0, <2>2, FreshNone
  <2>4. 1 <= OutCap BY CapAssumption
  <2>5. Len(bioOut \o Fresh(0)) <= OutCap BY <2>3, <2>4, Zenon
  <2>6. bioOut' = <<>> BY <1>0, <2>1, <2>5, WrapFits
  <2> QED BY <2>6 DEF FlushInv
<1>2. CASE TlsWait \/ TlsFinished \/ TlsClosing
  <2>1. bioOut' = bioOut /\ GetHandshakeStatus # "needWrap"
    BY <1>2 DEF TlsWait, TlsFinished, TlsClosing, engineVars
  <2>2. bioOut = <<>> BY <2>1 DEF FlushInv, GetHandshakeStatus
  <2> QED BY <2>1, <2>2 DEF FlushInv
<1> QED BY <1>1, <1>2 DEF TlsProcess

(* A flight or an alert of the handshake: the loop over unwrap ends, and   *)
(* tlsProcess runs.                                                        *)
LEMMA FlushHandshake ==
  ASSUME ~Tls13, IInv, SInv, FlushInv, UnwrapHandshake
  PROVE  FlushInv'
<1>0. TypeOK /\ ShapeInv /\ EngineInv /\ DataTypes BY DEF IInv, SInv
<1>1. Top = "handshake" /\ ~InitFinished BY <1>0, HandshakeFacts
<1>2. bioOut = <<>> /\ stack # <<>> BY <1>1 DEF FlushInv, Top
<1>3. state # "handshaked" BY <1>0, <1>1 DEF EngineInv
<1>4. CASE bioOut' = bioOut BY <1>2, <1>4 DEF FlushInv
<1>5. ASSUME flights' # PeerFlights, state' \in {state, "error"},
             NEW n \in {0, 1}, bioOut' = bioOut \o Fresh(n)
      PROVE  FlushInv'
  <2>1. stack' = Append(Below, "tls") BY <1>5 DEF UnwrapHandshake, LoopEnds
  <2>2. Top' = "tls" BY <1>0, <1>2, <2>1, TlsNext
  <2>3. CASE n = 0
    <3>1. bioOut' = bioOut BY <1>0, <1>5, <2>3, FreshNone
    <3> QED BY <1>4, <3>1
  <2>4. CASE n = 1
    <3>1. Len(bioOut') = 1 BY <1>0, <1>2, <1>5, <2>4, OneRecord
    <3> QED BY <1>3, <1>5, <2>2, <3>1 DEF FlushInv
  <2> QED BY <2>3, <2>4
<1>6. CASE flights' = flights + 1 /\ flights + 1 = PeerFlights /\ bioOut' = bioOut \o Fresh(Lag)
  <2>1. Lag = 0 BY DEF Lag
  <2>2. bioOut' = bioOut BY <1>0, <1>6, <2>1, FreshNone
  <2> QED BY <1>4, <2>2
<1>7. CASE flights' = flights + 1 /\ flights + 1 # PeerFlights /\ state' = state
           /\ bioOut' = bioOut \o Fresh(1)
  BY <1>5, <1>7
<1>8. CASE rejected' = TRUE /\ state' = "error" /\ UNCHANGED flights
  <2>1. flights' # PeerFlights BY <1>1, <1>8 DEF InitFinished
  <2>2. PICK n \in {0, 1} : bioOut' = bioOut \o Fresh(n)
    BY <1>0, <1>3, <1>8, FreshNone DEF UnwrapHandshake, DoHandshake, engineVars
  <2> QED BY <1>5, <1>8, <2>1, <2>2
<1> QED BY <1>0, <1>4, <1>6, <1>7, <1>8, HandshakeFacts

(* An alert for a bad record, likewise.                                    *)
LEMMA FlushRead ==
  ASSUME IInv, SInv, FlushInv, UnwrapRead
  PROVE  FlushInv'
<1>0. TypeOK /\ DataTypes BY DEF IInv, SInv
<1>1. Top = "sslRead" BY DEF UnwrapRead
<1>2. bioOut = <<>> /\ stack # <<>> BY <1>1 DEF FlushInv, Top
<1>3. CASE bioOut' = bioOut BY <1>2, <1>3 DEF FlushInv
<1>4. CASE SslReadNone /\ LoopEnds
  <2>1. Top' = "tls" BY <1>0, <1>2, <1>4, TlsNext DEF LoopEnds
  <2>2. PICK n \in IF rejected' /\ ~rejected THEN {0, 1} ELSE {0} :
          bioOut' = bioOut \o Fresh(n)
    BY <1>4 DEF SslReadNone
  <2>3. CASE n = 0
    <3>1. bioOut' = bioOut BY <1>0, <2>2, <2>3, FreshNone
    <3> QED BY <1>3, <3>1
  <2>4. CASE n = 1 /\ rejected' /\ ~rejected
    <3>1. bioIn # <<>> BY <1>4, <2>4 DEF SslReadNone, NextIs
    <3>2. state' = "error" BY <1>4, <3>1 DEF SslReadNone
    <3>3. Len(bioOut') = 1 BY <1>0, <1>2, <2>2, <2>4, OneRecord
    <3> QED BY <2>1, <3>2, <3>3 DEF FlushInv
  <2> QED BY <2>2, <2>3, <2>4
<1> QED BY <1>3, <1>4 DEF UnwrapRead, SslReadData, engineVars

(* FlushInv is inductive for TLS 1.2 and writes that fit the buffer.       *)
LEMMA FlushStep ==
  ASSUME ~Tls13, \A n \in WriteSize : n <= OutCap, IInv, SInv, FlushInv, [Next]_vars
  PROVE  FlushInv'
<1>1. CASE ProgramStep BY <1>1, FlushProgram
<1>2. CASE ParentStep BY <1>2, FlushParent
<1>3. CASE TlsProcess BY <1>3, FlushTls
<1>4. CASE UnwrapHandshake BY <1>4, FlushHandshake
<1>5. CASE UnwrapRead BY <1>5, FlushRead
<1>6. CASE EmitDisconnect \/ Return \/ Unwrap \/ ParentEnds
           \/ (\E k \in 0..MaxCoalesced : ParentRead(k))
  <2>1. bioOut' = bioOut
    BY <1>6 DEF EmitDisconnect, Return, Unwrap, BioWriteFails, BioWrite, ParentEnds,
       ParentRead, engineVars
  <2>2. Top # "tls"
    BY <1>6 DEF EmitDisconnect, Return, Unwrap, ParentEnds, ParentRead, Top, ProgramFrames
  <2> QED BY <2>1, <2>2, FlushAside
<1>7. CASE UNCHANGED vars \/ (\E rec \in Record : PeerSends(rec))
  <2>1. UNCHANGED <<bioOut, state, stack>> BY <1>7 DEF vars, PeerSends, engineVars
  <2> QED BY <2>1, FlushAside DEF Top
<1> QED BY <1>1, <1>2, <1>3, <1>4, <1>5, <1>6, <1>7, StepCases DEF AsideAction, Returns

-----------------------------------------------------------------------------
(* The theorems about programs and peers that keep to a discipline.        *)

LEMMA InitFlow == Init => AnswerInv /\ PipeInv /\ WireInv
<1> SUFFICES ASSUME Init PROVE AnswerInv /\ PipeInv /\ WireInv OBVIOUS
<1>1. /\ tcp = "none" /\ parent = "zeroed" /\ ~rejected /\ stack = <<>> /\ ~handshaked
      /\ bioIn = <<>> /\ input = <<>> /\ net = <<>> /\ flights = 0 /\ wire = <<>>
      /\ peerSent = [flights |-> 0, others |-> 0]
  BY DEF Init, EngineInit
<1>2. Base = "idle" /\ ~Up /\ peerSent.flights = 0 BY <1>1 DEF Base, Up
<1>3. AnswerInv BY <1>1, <1>2 DEF AnswerInv
<1>4. \A i \in 1..Len(<<>>) : FALSE OBVIOUS
<1>5. PeerFlights \in Nat /\ 0 <= PeerFlights BY FlightCount
<1>6. PipeInv BY <1>1, <1>2, <1>4, <1>5 DEF PipeInv, Orderly, NoFlights, AllFlights
<1>7. Len(<<>>) = 0 OBVIOUS
<1>8. WireInv
  BY <1>1, <1>2, <1>4, <1>7 DEF WireInv, PeerBehind, AllFlights, WireOrder
<1> QED BY <1>3, <1>6, <1>8

(* The call stack and the engine, for every program and every peer: the    *)
(* read loop's code is never re-entered, OpenSSL's state and state_ agree, *)
(* and nothing exists before a connection.                                 *)
THEOREM EngineInvariant == Safety => []SInv
<1>1. IInv /\ [Next]_vars => TypeOK' BY TypeStep
<1>2. IInv /\ SInv /\ [Next]_vars => SInv' BY <1>1, SStep
<1> QED BY <1>2, InitSInv, SslInvariant, PTL DEF Safety

(* Where every record is, in either direction, for every program and a     *)
(* peer that completes the handshake: the two invariants hold each other   *)
(* up, since the peer answers what the client has sent and the client what *)
(* the peer has.                                                           *)
THEOREM FlowInvariant ==
  ASSUME ~PeerRejects
  PROVE  Safety => [](PipeInv /\ WireInv)
<1>1. IInv /\ SInv /\ PipeInv /\ WireInv /\ [Next]_vars => PipeInv' /\ WireInv'
  <2> SUFFICES ASSUME IInv, SInv, PipeInv, WireInv, [Next]_vars
               PROVE  PipeInv' /\ WireInv'
    OBVIOUS
  <2>1. TypeOK' BY TypeStep
  <2>2. PipeInv' BY PipeStep
  <2> QED BY <2>1, <2>2, WireStep
<1> QED BY <1>1, InitFlow, SslInvariant, EngineInvariant, PTL DEF Safety
(* Until connect() is answered, a finished handshake is about to be        *)
(* reported: for a program that gives connect() a callback and reads only  *)
(* once it is called.                                                      *)
THEOREM ReportInvariant ==
  ASSUME ~PeerRejects, Callbacks \subseteq {TRUE}, ~ReadsLate
  PROVE  Safety => [](AnswerInv /\ ReportInv)
<1>1. IInv /\ IInv' /\ SInv /\ SInv' /\ AnswerInv /\ ReportInv /\ [Next]_vars =>
        AnswerInv' /\ ReportInv'
  <2> SUFFICES ASSUME IInv, IInv', SInv, SInv', AnswerInv, ReportInv, [Next]_vars
               PROVE  AnswerInv' /\ ReportInv'
    OBVIOUS
  <2>1. AnswerInv' BY AnswerStep
  <2> QED BY <2>1, ReportStep
<1>2. Init => ReportInv
  <2> SUFFICES ASSUME Init PROVE ReportInv OBVIOUS
  <2>1. flights = 0 /\ tcp = "none" /\ inbound = FALSE BY DEF Init, EngineInit
  <2> QED BY <2>1, FlightCount DEF ReportInv, InitFinished, Up
<1> QED BY <1>1, <1>2, InitFlow, SslInvariant, EngineInvariant, PTL DEF Safety

(* A program that gives connect() a callback, and reads only once it is    *)
(* called, gets its answer once the handshake has ended and nothing runs:  *)
(* whatever came with the last flight, the read loop goes on to            *)
(* tlsProcess, which finds connect_event_ still set.  Without a callback,  *)
(* or with a peer that rejects the handshake, it does not (run             *)
(* SslSocketRejected).                                                     *)
THEOREM ConnectIsAnswered ==
  ASSUME ~PeerRejects, Callbacks \subseteq {TRUE}, ~ReadsLate
  PROVE  Safety => []ConnectAnswered
<1>1. ReportInv /\ PipeInv /\ IInv => ConnectAnswered
  <2> SUFFICES ASSUME ReportInv, PipeInv, IInv, Quiet, InitFinished \/ rejected
               PROVE  connects = 1
    BY DEF ConnectAnswered
  <2>1. InitFinished /\ Base = "idle" BY DEF PipeInv, Quiet, Base
  <2>2. connects # 0 BY <2>1 DEF ReportInv
  <2> QED BY <2>2 DEF IInv, TypeOK, ConnectInv, ConnectOnce
<1> QED BY <1>1, ReportInvariant, SslInvariant, FlowInvariant, PTL

(* What the parent has read before the end of the handshake is reported is *)
(* not dropped, whether the peer sends its flights alone or with more      *)
(* behind: the BIO is empty when a read comes, and holds what one read     *)
(* brings.                                                                 *)
THEOREM EarlyInputIsKept ==
  ASSUME ~PeerRejects, Callbacks \subseteq {TRUE}, ~ReadsLate, MaxCoalesced <= BioCap
  PROVE  Safety => EarlyInputKept
<1>1. Init => EarlyInv
  <2> SUFFICES ASSUME Init PROVE EarlyInv OBVIOUS
  <2>1. bioIn = <<>> /\ input = <<>> /\ Len(<<>>) = 0 BY DEF Init, EngineInit
  <2>2. 0 <= MaxCoalesced BY BoundsAssumption
  <2> QED BY <2>1, <2>2 DEF EarlyInv
<1>2. IInv /\ SInv /\ PipeInv /\ PipeInv' /\ AnswerInv /\ ReportInv /\ EarlyInv
        /\ [Next]_vars => EarlyInv'
  BY EarlyStep
<1>3. ASSUME IInv, SInv, ReportInv, EarlyInv, [Next]_vars
      PROVE  [~handshaked /\ ~rejected /\ input # <<>> /\ input' = <<>> =>
                Len(bioIn') = Len(bioIn) + Len(input)]_vars
  BY <1>3, EarlyKept
<1> QED BY <1>1, <1>2, <1>3, SslInvariant, EngineInvariant, FlowInvariant,
        ReportInvariant, PTL DEF Safety, EarlyInputKept

(* The TLS socket keeps the promise of every Handle, to any peer: the      *)
(* writes and a connect(), its handshake included, are answered before its *)
(* CloseEvent, and it is let go of only after that.  The program must wait *)
(* for the answer of connect() before it closes or disconnects: nothing    *)
(* answers a connect() whose handshake close() cuts short.                 *)
THEOREM SslKeepsLife ==
  ASSUME ~ClosesEarly
  PROVE  Safety => H!Safety
<1>1. Init => H!Init /\ AwaitInv
  <2> SUFFICES ASSUME Init PROVE H!Init /\ AwaitInv OBVIOUS
  <2>1. /\ parent = "zeroed" /\ attached = TRUE /\ writes = <<>> /\ tcp = "none"
        /\ state = "closed"
    BY DEF Init, EngineInit
  <2>2. Life = "new" BY <2>1 DEF Life
  <2>3. ~Handshaking BY <2>1 DEF Handshaking
  <2> QED BY <2>1, <2>2, <2>3 DEF H!Init, AwaitInv
<1>2. IInv /\ SInv /\ AwaitInv /\ [Next]_vars => AwaitInv' BY AwaitStep
<1>3. IInv /\ SInv /\ AwaitInv /\ [Next]_vars => [H!Next]_(H!vars) BY LifeRefines
<1> QED BY <1>1, <1>2, <1>3, SslInvariant, EngineInvariant, PTL DEF Safety, H!Safety

(* The peer receives the records OpenSSL made, each once and in order,     *)
(* from a program that writes and disconnects only with no write pending   *)
(* and TLS up, in pieces that fit the outbound buffer beside the last      *)
(* flight: no write reuses the buffer under another, and wrap leaves       *)
(* nothing behind.                                                         *)
THEOREM WireKeepsOrder ==
  ASSUME ~PeerRejects, CarefulWriter
  PROVE  Safety => []WireOrder
<1>1. WireInv => WireOrder BY DEF WireInv
<1> QED BY <1>1, FlowInvariant, PTL

(* With TLS 1.2, where the peer has the last word, and writes that fit the *)
(* outbound buffer, nothing stays in the BIO once nothing runs, whatever   *)
(* else the program and the peer do: every step that makes OpenSSL write a *)
(* record of its own is followed by tlsProcess, whose one wrap sends it.   *)
(* (With TLS 1.3 the client's last flight stays, see Leftover.)            *)
THEOREM BioIsFlushed ==
  ASSUME ~Tls13, \A n \in WriteSize : n <= OutCap
  PROVE  Safety => []Flushed
<1>1. Init => FlushInv BY DEF Init, EngineInit, FlushInv
<1>2. IInv /\ SInv /\ FlushInv /\ [Next]_vars => FlushInv' BY FlushStep
<1>3. FlushInv => Flushed BY DEF FlushInv, Flushed, Quiet, Top
<1> QED BY <1>1, <1>2, <1>3, SslInvariant, EngineInvariant, PTL DEF Safety
=============================================================================
