------------------------------ MODULE SslSocket ------------------------------
(***************************************************************************)
(* SSLSocketImpl (src/unio/src/net/ssl_socket.cc): a TLS client socket     *)
(* over a parent stream socket and an SslEngine.                           *)
(*                                                                         *)
(* Everything runs on the loop thread.  Its call stack is modelled: a      *)
(* frame is a piece of the socket's code still to run ("unwrap",           *)
(* "handshake", "sslRead", "tls" for tlsProcess, "disconnected") or a      *)
(* callback of the program that is running ("emitMore", "emitLast",        *)
(* "connected", "told", "closed").  The parent behaves as TcpSocket does:  *)
(* it answers connect and each write once, later or, if libuv refuses, at  *)
(* once; close() cancels them before its CloseEvent.                       *)
(***************************************************************************)
EXTENDS SslEngine, SequencesExt

CONSTANTS MaxCalls,     \* bound: calls of write and disconnect
          MaxPeer,      \* bound: records the peer sends after the handshake
          MaxCoalesced, \* records that may arrive in one read of the parent
          WriteSize,    \* records one write of the program may take
          Callbacks,    \* whether connect() is given a callback
          PeerRejects,  \* the peer may make the handshake fail
          ReadsLate,    \* read() and cancelRead() at any time, not only when connected
          Pipelines,    \* write or disconnect while a write is pending
          WritesLate,   \* write after disconnect() or an error
          ClosesEarly   \* close or disconnect while connect() awaits its handshake

ASSUME BoundsAssumption ==
  /\ MaxCalls \in Nat /\ MaxPeer \in Nat /\ MaxCoalesced \in Nat \ {0}
  /\ WriteSize \subseteq Nat \ {0}
ASSUME UseAssumption ==
  /\ Callbacks \subseteq BOOLEAN
  /\ {PeerRejects, ReadsLate, Pipelines, WritesLate, ClosesEarly} \subseteq BOOLEAN

VARIABLES parent,      \* life of the parent
          tcp,         \* the parent's connection
          attached,    \* the parent's listeners hold this socket
          writes,      \* writes the parent has not answered
          outBuffer,   \* records in socket_outbound_buffer_
          wire,        \* history: records sent to the peer
          net,         \* records of the peer on their way
          peerSent,    \* history: flights and other records of the peer
          input,       \* the parent's SocketReadEvent: records left in it
          inbound,     \* socket_inbound_buffer_ is set
          given,       \* connect() was given a callback
          connectCb,   \* connect_event_ is set
          handshaked,  \* handshaked_
          closing,     \* closing_
          stack,       \* the call stack, innermost last
          calls,       \* history: calls of write and disconnect
          connects, disconnects \* history: results reported

parentVars == <<parent, tcp, attached>>
outVars == <<writes, outBuffer, wire>>
peerVars == <<net, peerSent>>
flagVars == <<inbound, given, connectCb, handshaked, closing>>
toldVars == <<connects, disconnects>>
moreVars == <<calls, toldVars>>
vars == <<engineVars, parentVars, outVars, peerVars, input, flagVars, stack,
          moreVars>>

Init ==
  /\ EngineInit
  /\ parent = "zeroed" /\ tcp = "none" /\ attached = TRUE
  /\ writes = <<>> /\ outBuffer = <<>> /\ wire = <<>>
  /\ net = <<>> /\ peerSent = [flights |-> 0, others |-> 0]
  /\ input = <<>>
  /\ inbound = FALSE /\ given = FALSE /\ connectCb = FALSE
  /\ handshaked = FALSE /\ closing = FALSE
  /\ stack = <<>>
  /\ calls = 0 /\ connects = 0 /\ disconnects = 0

Top == IF stack = <<>> THEN "none" ELSE Last(stack)
Below == Front(stack)

ProgramFrames == {"emitMore", "emitLast", "connected", "told", "closed"}
InProgram == Top \in ProgramFrames \cup {"none"} /\ parent # "zeroed"

-----------------------------------------------------------------------------
(* The parent.                                                             *)

(* parent_->write(socket_outbound_buffer_): libuv sends at once what it    *)
(* can; the rest it reads from the buffer later.  by is what the callback  *)
(* runs, base the stack it returns to.                                     *)
ParentWrite(by, base) ==
  \/ /\ parent = "open"
     /\ \E now \in BOOLEAN :
          /\ now => \A i \in 1..Len(writes) : writes[i].sent
          /\ writes' = Append(writes,
                              [by |-> by, sent |-> now, len |-> Len(outBuffer')])
          /\ wire' = IF now THEN wire \o outBuffer' ELSE wire
     /\ stack' = base
  \/ /\ parent # "open"
     /\ stack' = Append(base, by)
     /\ UNCHANGED <<writes, wire>>

(* setParent: the parent's InitEvent initialises this socket.              *)
ParentInit ==
  /\ parent = "zeroed"
  /\ parent' = "open"
  /\ stack' = <<"told">>
  /\ UNCHANGED <<engineVars, tcp, attached, outVars, peerVars, input,
                 flagVars, moreVars>>

(* SocketEndEvent or ErrorEvent of the parent: it reads no more, and this  *)
(* socket listens to neither.                                              *)
ParentEnds ==
  /\ stack = <<>> /\ parent = "open" /\ tcp = "up"
  /\ tcp' = "ended" /\ net' = <<>>
  /\ UNCHANGED <<engineVars, parent, attached, outVars, peerSent, input,
                 flagVars, stack, moreVars>>

(* The oldest write is answered; unsent data is read from the buffer now.  *)
ParentWriteDone ==
  /\ stack = <<>> /\ writes # <<>>
  /\ LET w == Head(writes)
     IN /\ wire' = IF w.sent \/ parent # "open" THEN wire
                   ELSE wire \o SubSeq(outBuffer, 1,
                                       IF w.len < Len(outBuffer) THEN w.len
                                                          ELSE Len(outBuffer))
        /\ stack' = <<w.by>>
  /\ writes' = Tail(writes)
  /\ UNCHANGED <<engineVars, parentVars, outBuffer, peerVars, input, flagVars,
                 moreVars>>

CloseParent == parent' = IF parent = "open" THEN "closing" ELSE parent

(* The parent's CloseEvent: closeImpl(true), then our own CloseEvent.      *)
ParentClosed ==
  /\ stack = <<>> /\ parent = "closing" /\ writes = <<>> /\ tcp # "connecting"
  /\ parent' = "closed"
  /\ closing' = TRUE /\ inbound' = FALSE
  /\ stack' = <<"closed">>
  /\ UNCHANGED <<engineVars, tcp, attached, outVars, peerVars, input, given,
                 connectCb, handshaked, calls, connects, disconnects>>

-----------------------------------------------------------------------------
(* Calls of the program.                                                   *)

(* connect: the parent connects; refused at once, the error is reported.   *)
Connect(cb) ==
  /\ InProgram /\ parent = "open" /\ tcp = "none"
  /\ given' = cb
  /\ \/ tcp' = "connecting" /\ UNCHANGED <<connects, stack>>
     \/ /\ tcp' = "failed"
        /\ connects' = connects + 1
        /\ stack' = Append(stack, "told")
  /\ UNCHANGED <<engineVars, parent, attached, outVars, peerVars, input,
                 inbound, connectCb, handshaked, closing, calls, disconnects>>

Read ==
  /\ InProgram /\ (ReadsLate \/ Top = "connected")
  /\ inbound' = TRUE
  /\ UNCHANGED <<engineVars, parentVars, outVars, peerVars, input, given,
                 connectCb, handshaked, closing, stack, moreVars>>

CancelRead ==
  /\ InProgram /\ ReadsLate
  /\ inbound' = FALSE
  /\ UNCHANGED <<engineVars, parentVars, outVars, peerVars, input, given,
                 connectCb, handshaked, closing, stack, moreVars>>

(* setSocketOutboundBuffer: a fresh buffer, while no write uses the old.   *)
SetSocketOutboundBuffer ==
  /\ InProgram /\ writes = <<>>
  /\ outBuffer' = <<>>
  /\ UNCHANGED <<engineVars, parentVars, writes, wire, peerVars, input,
                 flagVars, stack, moreVars>>

WritePending == \E i \in 1..Len(writes) : writes[i].by = "told"

(* Data is written only once connect was reported (ssl_context.h: input    *)
(* must be null during handshaking).                                       *)
MayWrite ==
  /\ InProgram /\ InitFinished /\ connects > 0
  /\ Pipelines \/ ~WritePending
  /\ WritesLate \/ (state = "handshaked" /\ ~closing)

(* The result of wrap is ignored: the buffer is written either way.        *)
Write(n) ==
  /\ MayWrite /\ calls < MaxCalls
  /\ \/ SslOpen /\ Wrap(n) /\ outBuffer' = Wrapped(n)
     \/ WrapFails /\ outBuffer' = StaleOutput
  /\ ParentWrite("told", stack)
  /\ calls' = calls + 1
  /\ UNCHANGED <<parentVars, peerVars, input, flagVars, toldVars>>

(* connect() has its connection and is yet to be answered.                 *)
Handshaking == tcp \in {"up", "ended"} /\ connects = 0

(* cancelRead, shutdown, tlsProcess, then the disconnect event.            *)
Disconnect ==
  /\ InProgram /\ tcp \in {"up", "ended"} /\ calls < MaxCalls
  /\ ClosesEarly \/ ~Handshaking
  /\ calls' = calls + 1
  /\ Pipelines \/ ~WritePending
  /\ inbound' = FALSE
  /\ \/ /\ Shutdown
        /\ stack' = stack \o <<"disconnected", "tls">>
        /\ UNCHANGED disconnects
     \/ /\ ShutdownFails
        /\ stack' = Append(stack, "told")
        /\ disconnects' = disconnects + 1
  /\ UNCHANGED <<parentVars, outVars, peerVars, input, given, connectCb,
                 handshaked, closing, connects>>

EmitDisconnect ==
  /\ Top = "disconnected"
  /\ disconnects' = disconnects + 1
  /\ stack' = Append(Below, "told")
  /\ UNCHANGED <<engineVars, parentVars, outVars, peerVars, input, flagVars,
                 calls, connects>>

(* closeImpl(false): once.                                                 *)
CloseImpl ==
  /\ closing' = TRUE
  /\ IF closing THEN UNCHANGED <<parent, inbound>>
                ELSE inbound' = FALSE /\ CloseParent
  /\ UNCHANGED <<tcp, attached, given, connectCb, handshaked>>

Close ==
  /\ InProgram /\ (ClosesEarly \/ ~Handshaking)
  /\ CloseImpl
  /\ UNCHANGED <<engineVars, outVars, peerVars, input, stack, moreVars>>

(* The program may also close the parent it made.                          *)
CloseTheParent ==
  /\ InProgram /\ (ClosesEarly \/ ~Handshaking)
  /\ CloseParent
  /\ UNCHANGED <<engineVars, tcp, attached, outVars, peerVars, input,
                 flagVars, stack, moreVars>>

-----------------------------------------------------------------------------
(* Mutant of ParentConnected: the callback is not kept for later.          *)
ParentConnectedForgets(ok) ==
  /\ stack = <<>> /\ tcp = "connecting"
  /\ ok /\ parent = "open"
  /\ tcp' = "up"
  /\ BeginHandshake
  /\ stack' = <<"tls">>
  /\ UNCHANGED <<parent, attached, outVars, peerVars, input, flagVars,
                 moreVars>>

(* The parent's connect callback: report the error, or start the engine,   *)
(* read from the parent and run tlsProcess.                                *)
ParentConnected(ok) ==
  /\ stack = <<>> /\ tcp = "connecting"
  /\ ok => parent = "open"
  /\ tcp' = IF ok THEN "up" ELSE "failed"
  /\ IF ok
     THEN /\ BeginHandshake
          /\ connectCb' = given
          /\ stack' = <<"tls">>
          /\ UNCHANGED connects
     ELSE /\ connects' = connects + 1
          /\ stack' = <<"told">>
          /\ UNCHANGED <<engineVars, connectCb>>
  /\ UNCHANGED <<parent, attached, outVars, peerVars, input, inbound, given,
                 handshaked, closing, calls, disconnects>>

TlsFlush ==
  /\ GetHandshakeStatus = "needWrap"
  /\ Wrap(0) /\ outBuffer' = Wrapped(0)
  /\ ParentWrite("tls", Below)
  /\ UNCHANGED <<parentVars, flagVars, connects>>

TlsWait ==
  /\ GetHandshakeStatus = "needUnwrap"
  /\ stack' = Below
  /\ UNCHANGED <<engineVars, parentVars, outVars, flagVars, connects>>

TlsFinished ==
  /\ GetHandshakeStatus = "finished"
  /\ handshaked' = TRUE
  /\ IF connectCb
     THEN stack' = Append(Below, "connected") /\ connects' = connects + 1
     ELSE stack' = Below /\ UNCHANGED connects
  /\ UNCHANGED <<engineVars, parentVars, outVars, inbound, given, connectCb,
                 closing>>

(* Mutant of TlsClosing: close() is not called.                            *)
TlsClosingIgnored ==
  /\ GetHandshakeStatus = "closing"
  /\ stack' = Below
  /\ UNCHANGED <<engineVars, parentVars, flagVars, outVars, connects>>

TlsClosing ==
  /\ GetHandshakeStatus = "closing"
  /\ CloseImpl
  /\ stack' = Below
  /\ UNCHANGED <<engineVars, outVars, connects>>

(* tlsProcess.                                                             *)
TlsProcess ==
  /\ Top = "tls"
  /\ TlsFlush \/ TlsWait \/ TlsFinished \/ TlsClosing
  /\ UNCHANGED <<peerVars, input, calls, disconnects>>

-----------------------------------------------------------------------------
(* The parent's SocketReadEvent.                                           *)

(* One read of the parent completes k records; none if it brings only part *)
(* of the next.                                                            *)
ParentRead(k) ==
  /\ stack = <<>> /\ parent = "open" /\ tcp = "up"
  /\ net # <<>> /\ k <= Len(net)
  /\ input' = SubSeq(net, 1, k)
  /\ net' = SubSeq(net, k + 1, Len(net))
  /\ stack' = <<"unwrap">>
  /\ UNCHANGED <<engineVars, parentVars, outVars, peerSent, flagVars,
                 moreVars>>

(* The loop over unwrap ends: tlsProcess, and the parent reuses its        *)
(* buffer, with whatever was not taken from it.                            *)
LoopEnds ==
  /\ input' = <<>>
  /\ stack' = Append(Below, "tls")

Unwrap ==
  /\ Top = "unwrap"
  /\ IF input # <<>> /\ Room(input) = 0
     THEN BioWriteFails /\ LoopEnds
     ELSE /\ BioWrite(input)
          /\ input' = SubSeq(input, Room(input) + 1, Len(input))
          /\ stack' = Append(Below, IF InitFinished THEN "sslRead"
                                                   ELSE "handshake")
  /\ UNCHANGED <<parentVars, outVars, peerVars, flagVars, moreVars>>

UnwrapHandshake ==
  /\ Top = "handshake"
  /\ DoHandshake
  /\ IF flights' = PeerFlights
     THEN stack' = Append(Below, "sslRead") /\ UNCHANGED input
     ELSE LoopEnds
  /\ UNCHANGED <<parentVars, outVars, peerVars, flagVars, moreVars>>

(* Data read is emitted; kDataReadMore says that the record has more.      *)
UnwrapRead ==
  /\ Top = "sslRead"
  /\ \/ /\ inbound /\ SslReadData
        /\ stack' = Append(Below, IF plain' > 0 THEN "emitMore" ELSE "emitLast")
        /\ UNCHANGED input
     \/ inbound /\ SslReadNone /\ LoopEnds
     \/ ~inbound /\ LoopEnds /\ UNCHANGED engineVars
  /\ UNCHANGED <<parentVars, outVars, peerVars, flagVars, moreVars>>

-----------------------------------------------------------------------------
(* A callback of the program returns.                                      *)

Resume(frame) ==
  IF frame = "emitLast" THEN LoopEnds
  ELSE /\ stack' = IF frame = "emitMore" THEN Append(Below, "unwrap") ELSE Below
       /\ UNCHANGED input

(* Mutants of Return: connect_event_ keeps the callback; the parent's      *)
(* listeners stay.                                                         *)
ReturnKeepsCallback ==
  /\ Top \in ProgramFrames
  /\ Resume(Top)
  /\ attached' = (attached /\ Top # "closed")
  /\ UNCHANGED <<engineVars, parent, tcp, outVars, peerVars, flagVars, moreVars>>

ReturnStaysAttached ==
  /\ Top \in ProgramFrames
  /\ Resume(Top)
  /\ connectCb' = (connectCb /\ Top # "connected")
  /\ UNCHANGED <<engineVars, parentVars, outVars, peerVars, inbound, given,
                 handshaked, closing, moreVars>>

Return ==
  /\ Top \in ProgramFrames
  /\ Resume(Top)
  /\ connectCb' = (connectCb /\ Top # "connected")
  /\ attached' = (attached /\ Top # "closed")
  /\ UNCHANGED <<engineVars, parent, tcp, outVars, peerVars, inbound, given,
                 handshaked, closing, moreVars>>

-----------------------------------------------------------------------------
(* The peer: it answers the client's flights, then sends what it likes.    *)
PeerSends(rec) ==
  /\ tcp = "up" /\ parent = "open"
  /\ IF rec = "flight"
     THEN /\ peerSent.flights < PeerFlights /\ Len(wire) > peerSent.flights
          /\ peerSent' = [peerSent EXCEPT !.flights = @ + 1]
     ELSE /\ peerSent.others < MaxPeer
          /\ IF rec = "bad" THEN PeerRejects
             ELSE peerSent.flights = PeerFlights /\ Len(wire) >= 2
          /\ peerSent' = [peerSent EXCEPT !.others = @ + 1]
  /\ net' = Append(net, rec)
  /\ UNCHANGED <<engineVars, parentVars, outVars, input, flagVars, stack,
                 moreVars>>

-----------------------------------------------------------------------------
ProgramStep ==
  \/ \E cb \in Callbacks : Connect(cb)
  \/ \E n \in WriteSize : Write(n)
  \/ SetSocketOutboundBuffer \/ Read \/ CancelRead \/ Disconnect
  \/ Close \/ CloseTheParent

OwnStep ==
  \/ TlsProcess \/ EmitDisconnect \/ Return
  \/ Unwrap \/ UnwrapHandshake \/ UnwrapRead

ParentStep ==
  \/ ParentInit \/ ParentWriteDone \/ ParentClosed
  \/ \E ok \in BOOLEAN : ParentConnected(ok)

Next ==
  \/ ProgramStep \/ OwnStep \/ ParentStep
  \/ \E k \in 0..MaxCoalesced : ParentRead(k)
  \/ ParentEnds
  \/ \E rec \in Record : PeerSends(rec)

Safety == Init /\ [][Next]_vars

(* The socket's code runs on and callbacks return; the parent answers its  *)
(* operations (CompletesOnce and LifeContract of TcpSocket; for a write on *)
(* an open parent this supposes that the peer goes on reading).            *)
Fairness == WF_vars(OwnStep) /\ WF_vars(ParentStep)

Spec == Safety /\ Fairness

-----------------------------------------------------------------------------
(* Nothing runs and the parent has answered every write.                   *)
Quiet == stack = <<>> /\ writes = <<>> /\ parent = "open"

(* connect() is answered at most once, whatever re-enters tlsProcess.      *)
ConnectOnce == connects <= 1

(* Once the handshake has ended, well or badly, in OpenSSL, connect() is   *)
(* answered: StreamSocket::connect promises its callback, a                *)
(* SocketConnectEvent or an ErrorEvent.                                    *)
ConnectAnswered == Quiet /\ (InitFinished \/ rejected) => connects = 1

(* The peer receives the records OpenSSL made, each once and in order: the *)
(* outbound buffer the socket shares among its writes is never reused      *)
(* under a write.                                                          *)
WireOrder == \A i \in 1..Len(wire) : wire[i] = i

(* After the handshake no record stays in the BIO with nobody to send it:  *)
(* a status other than kHandshakeNeedWrap means nothing is outbound.       *)
Flushed == Quiet /\ handshaked => bioOut = <<>>

(* Until tlsProcess has seen the end of the handshake, no record the       *)
(* parent has read is dropped: BIO_write takes all of it, although nobody  *)
(* may be reading yet.                                                     *)
EarlyInputKept ==
  [][~handshaked /\ ~rejected /\ input # <<>> /\ input' = <<>> =>
       Len(bioIn') = Len(bioIn) + Len(input)]_vars

(* With a read buffer set, application data that has arrived is emitted    *)
(* and does not wait for the peer to send more.                            *)
AppDelivered ==
  Quiet /\ inbound /\ ~rejected =>
    plain = 0 /\ ~NextIs({"app", "long"})

(* With a read buffer set, EarlyInputKept goes on after the handshake.     *)
InputKept ==
  [][inbound /\ state # "error" /\ input # <<>> /\ input' = <<>> =>
       Len(bioIn') = Len(bioIn) + Len(input)]_vars

(* disconnect() is reported when it is complete: close_notify was sent.    *)
DisconnectComplete ==
  [][Top = "disconnected" /\ disconnects' > disconnects => Len(wire) = made]_vars

(* The socket's life is that of a Handle: the parent's listeners keep it   *)
(* until its CloseEvent, which follows the answers to every write and to   *)
(* connect(), in flight from the parent's connect to the report of the     *)
(* handshake.                                                              *)
Life ==
  CASE parent = "zeroed" -> "new"
    [] parent = "open" -> "live"
    [] parent = "closing" -> "closing"
    [] parent = "closed" -> IF attached THEN "notified" ELSE "gone"

H == INSTANCE HandleLife
       WITH life <- Life, held <- attached,
            pending <- Len(writes)
                       + (IF tcp = "connecting" \/ Handshaking THEN 1 ELSE 0)

LifeContract == H!Spec

(* A disconnect() that shut TLS down closes the socket in the end, unless  *)
(* the connection breaks meanwhile.                                        *)
DisconnectCloses ==
  state = "closing" ~> parent = "closed" \/ state = "error"
=============================================================================
