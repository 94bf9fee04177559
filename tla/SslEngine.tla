------------------------------ MODULE SslEngine ------------------------------
(***************************************************************************)
(* OpenSSLEngineImpl (src/unio/src/net/openssl_provider.cc), client role.  *)
(*                                                                         *)
(* The engine talks to OpenSSL through a pair of memory BIOs: wrap and     *)
(* unwrap move TLS records between them and the caller's buffers.  A       *)
(* record is the unit of data.  Outbound records are numbered in the order *)
(* OpenSSL writes them; inbound ones are known by what they do:            *)
(*   "flight"  the peer's next handshake flight                            *)
(*   "bad"     one OpenSSL rejects, or a fatal alert                       *)
(*   "app"     application data that fits the reader's buffer              *)
(*   "long"    application data that takes two reads                       *)
(*   "notify"  close_notify                                                *)
(***************************************************************************)
EXTENDS Integers, Sequences

CONSTANTS Tls13,   \* the client sends the last flight of the handshake
          BioCap,  \* inbound records the BIO pair holds
          OutCap   \* records the outbound buffer holds

ASSUME Tls13Assumption == Tls13 \in BOOLEAN
ASSUME CapAssumption == BioCap \in Nat \ {0} /\ OutCap \in Nat \ {0}

Record == {"flight", "bad", "app", "long", "notify"}

VARIABLES state,     \* state_
          flights,   \* OpenSSL: flights of the peer it has consumed
          rejected,  \* OpenSSL: the connection failed
          shutSent,  \* OpenSSL: SSL_SENT_SHUTDOWN
          made,      \* OpenSSL: outbound records produced so far
          bioOut,    \* app_bio_: outbound records pending
          bioIn,     \* app_bio_: inbound records OpenSSL has not read
          plain      \* SSL_pending: read units left of the current record

engineVars == <<state, flights, rejected, shutSent, made, bioOut, bioIn, plain>>

EngineInit ==
  /\ state = "closed"
  /\ flights = 0 /\ rejected = FALSE /\ shutSent = FALSE
  /\ made = 0 /\ bioOut = <<>> /\ bioIn = <<>> /\ plain = 0

-----------------------------------------------------------------------------
(* OpenSSL (external).                                                     *)

PeerFlights == IF Tls13 THEN 1 ELSE 2
InitFinished == flights = PeerFlights

(* n new records go to the BIO.                                            *)
Fresh(n) == [i \in 1..n |-> made + i]

NextIs(kinds) == bioIn # <<>> /\ Head(bioIn) \in kinds

(* SSL_write and SSL_shutdown work on a finished, unbroken connection that *)
(* has not sent close_notify.                                              *)
SslOpen == InitFinished /\ ~rejected /\ ~shutSent

-----------------------------------------------------------------------------
(* Never "failed", although SSLEngine has that status.                     *)
GetHandshakeStatus ==
  CASE state = "handshaked" -> "finished"
    [] state # "handshaked" /\ bioOut # <<>> -> "needWrap"
    [] state = "closing" /\ bioOut = <<>> -> "closing"
    [] OTHER -> "needUnwrap"

(* A new SSL and BIO pair; the client's first flight is produced.          *)
BeginHandshake ==
  /\ made' = made + 1
  /\ bioOut' = Fresh(1)
  /\ UNCHANGED <<state, flights, rejected, shutSent, bioIn, plain>>

(* doHandshake: SSL_do_handshake and handleError.                          *)
DoHandshake ==
  \/ /\ ~rejected /\ NextIs({"flight"})
     /\ flights' = flights + 1
     /\ bioIn' = Tail(bioIn)
     /\ LET last == flights + 1 = PeerFlights
            reply == IF last /\ ~Tls13 THEN 0 ELSE 1
        IN /\ state' = IF last THEN "handshaked" ELSE state
           /\ made' = made + reply
           /\ bioOut' = bioOut \o Fresh(reply)
     /\ UNCHANGED <<rejected, shutSent, plain>>
  \/ /\ rejected \/ NextIs(Record \ {"flight"})
     /\ rejected' = TRUE
     /\ state' = "error"
     /\ \E alert \in IF rejected THEN {0} ELSE {0, 1} :
          made' = made + alert /\ bioOut' = bioOut \o Fresh(alert)
     /\ UNCHANGED <<flights, shutSent, bioIn, plain>>
  \/ /\ ~rejected /\ bioIn = <<>>          \* SSL_ERROR_WANT_READ
     /\ UNCHANGED engineVars

-----------------------------------------------------------------------------
(* wrap: SSL_write of n records, then BIO_read into the output buffer.     *)
(* What it leaves in the buffer is Wrapped(n); the rest stays in the BIO.  *)
(* One write and what is pending are assumed to fit the outbound half of   *)
(* the BIO pair (17 kB): SSL_write never answers SSL_ERROR_WANT_WRITE.     *)
Wrapped(n) == LET out == bioOut \o Fresh(n)
              IN SubSeq(out, 1, IF Len(out) < OutCap THEN Len(out) ELSE OutCap)

(* Mutants of Wrap: BIO_read only looks; BIO_read comes before SSL_write.  *)
WrapPeeks(n) ==
  /\ made' = made + n
  /\ bioOut' = bioOut \o Fresh(n)
  /\ UNCHANGED <<state, flights, rejected, shutSent, bioIn, plain>>

WrapReadsFirst(n) ==
  /\ made' = made + n
  /\ bioOut' = SubSeq(bioOut, OutCap + 1, Len(bioOut)) \o Fresh(n)
  /\ UNCHANGED <<state, flights, rejected, shutSent, bioIn, plain>>

Wrap(n) ==
  /\ made' = made + n
  /\ LET out == bioOut \o Fresh(n)
     IN bioOut' = SubSeq(out, OutCap + 1, Len(out))
  /\ UNCHANGED <<state, flights, rejected, shutSent, bioIn, plain>>

(* SSL_write fails: wrap returns before it fills or flips the output       *)
(* buffer, which keeps old bytes between position and limit.               *)
WrapFails ==
  /\ ~SslOpen
  /\ state' = "error"
  /\ UNCHANGED <<flights, rejected, shutSent, made, bioOut, bioIn, plain>>

StaleOutput == [i \in 1..OutCap |-> 0]

-----------------------------------------------------------------------------
(* Mutant of Room: the BIO pair is made smaller than a read of the parent. *)
RoomSmaller(input) == LET free == BioCap - 1 - Len(bioIn)
                      IN IF Len(input) < free THEN Len(input) ELSE free

(* unwrap, first part: BIO_write takes what fits of the input.             *)
Room(input) == LET free == BioCap - Len(bioIn)
               IN IF Len(input) < free THEN Len(input) ELSE free

BioWrite(input) ==
  /\ bioIn' = bioIn \o SubSeq(input, 1, Room(input))
  /\ UNCHANGED <<state, flights, rejected, shutSent, made, bioOut, plain>>

(* BIO_write on a full BIO is an error; what SSL_get_error makes of it     *)
(* depends on the last call into OpenSSL.                                  *)
BioWriteFails ==
  /\ state' \in {state, "error"}
  /\ UNCHANGED <<flights, rejected, shutSent, made, bioOut, bioIn, plain>>

(* unwrap, last part: SSL_read returns one unit of plaintext ...           *)
SslReadData ==
  /\ ~rejected
  /\ \/ plain > 0 /\ plain' = plain - 1 /\ UNCHANGED bioIn
     \/ /\ plain = 0 /\ NextIs({"app", "long"})
        /\ plain' = IF Head(bioIn) = "long" THEN 1 ELSE 0
        /\ bioIn' = Tail(bioIn)
  /\ UNCHANGED <<state, flights, rejected, shutSent, made, bioOut>>

(* ... or none: close_notify, a bad record, for which OpenSSL may send an  *)
(* alert, or nothing to read.                                              *)
SslReadNone ==
  /\ rejected \/ (plain = 0 /\ ~NextIs({"app", "long"}))
  /\ rejected' = (rejected \/ NextIs(Record \ {"notify"}))
  /\ state' = IF bioIn = <<>> /\ ~rejected THEN state ELSE "error"
  /\ \E alert \in IF rejected' /\ ~rejected THEN {0, 1} ELSE {0} :
       made' = made + alert /\ bioOut' = bioOut \o Fresh(alert)
  /\ UNCHANGED <<flights, shutSent, bioIn, plain>>

-----------------------------------------------------------------------------
(* shutdown: SSL_shutdown sends close_notify, and finds the peer's if it   *)
(* was sent before.                                                        *)
SslShuts == SslOpen \/ (shutSent /\ ~rejected /\ NextIs({"notify"}))

Shutdown ==
  /\ SslShuts
  /\ LET n == IF shutSent THEN 0 ELSE 1
     IN made' = made + n /\ bioOut' = bioOut \o Fresh(n)
  /\ shutSent' = TRUE
  /\ state' = "closing"
  /\ UNCHANGED <<flights, rejected, bioIn, plain>>

(* It fails during the handshake, on a broken connection, and while it     *)
(* waits for the peer's close_notify.                                      *)
ShutdownFails ==
  /\ ~SslShuts
  /\ state' \in IF shutSent /\ ~rejected THEN {state, "error"} ELSE {"error"}
  /\ UNCHANGED <<flights, rejected, shutSent, made, bioOut, bioIn, plain>>
=============================================================================
