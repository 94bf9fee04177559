----------------------------- MODULE ReadBuffer -----------------------------
(***************************************************************************)
(* A VectorBuffer (src/unio/src/buffer.cc) used as a TCPSocket's read      *)
(* buffer: allocCallback offers libuv a piece of it, readCallback shows    *)
(* the program what arrived.  Sizes are size_t: arithmetic is modulo Word. *)
(***************************************************************************)
EXTENDS Integers

CONSTANTS Word,            \* 2^(bits of size_t)
          InitialSize,     \* first argument of createExpandableBuffer
          ExpandableSize,  \* its second one
          Suggested        \* sizes libuv may suggest to allocCallback

ASSUME WordAssumption == Word \in Nat \ {0}
ASSUME SizeAssumption ==
  /\ InitialSize \in 0..Word - 1 /\ ExpandableSize \in 0..Word - 1
  /\ Suggested \subseteq 0..Word - 1

VARIABLES cap,      \* buf_.size()
          pos, lim, \* position_, limit_
          phase,    \* "idle", "offered" to libuv, or in the read "event"
          offered,  \* buf->len of the last allocCallback
          nread     \* what libuv then reported

vars == <<cap, pos, lim, phase, offered, nread>>

Size == 0..Word - 1

Init ==
  /\ cap = InitialSize
  /\ pos = 0 /\ lim = 0
  /\ phase = "idle" /\ offered = 0 /\ nread = 0

-----------------------------------------------------------------------------
(* size_t subtraction: limit_ - position_.                                 *)
Remaining(p, l) == (l - p) % Word

(* Mutant of Expanded: the limit of getExpandableSize is not applied.      *)
ExpandedUnlimited(size) == IF size <= cap THEN cap ELSE size

(* The capacity after expand(size).                                        *)
Expanded(size) ==
  LET newSize == IF size <= ExpandableSize THEN size ELSE ExpandableSize
  IN IF newSize <= cap \/ ExpandableSize <= cap THEN cap ELSE newSize

-----------------------------------------------------------------------------
(* Calls of the program, which shares the buffer; libuv's read(2) runs     *)
(* between allocCallback and readCallback with no program code.            *)
ProgramTurn == phase # "offered"

SetPosition(n) ==
  /\ ProgramTurn
  /\ pos' = n
  /\ UNCHANGED <<cap, lim, phase, offered, nread>>

SetLimit(n) ==
  /\ ProgramTurn
  /\ lim' = n
  /\ UNCHANGED <<cap, pos, phase, offered, nread>>

Flip ==
  /\ ProgramTurn
  /\ lim' = pos /\ pos' = 0
  /\ UNCHANGED <<cap, phase, offered, nread>>

Clear ==
  /\ ProgramTurn
  /\ pos' = 0 /\ lim' = cap
  /\ UNCHANGED <<cap, phase, offered, nread>>

Expand(n) ==
  /\ ProgramTurn
  /\ cap' = Expanded(n)
  /\ UNCHANGED <<pos, lim, phase, offered, nread>>

-----------------------------------------------------------------------------
(* The size allocCallback asks expand for, after clear().                  *)
WantedSize(suggested) ==
  LET wanted == (cap + Remaining(Remaining(0, cap), suggested)) % Word
  IN IF ExpandableSize >= wanted THEN wanted ELSE ExpandableSize

(* Mutant of AllocCallback: without the clear() that starts it.            *)
AllocCallbackNoClear(suggested) ==
  /\ phase = "idle"
  /\ UNCHANGED <<pos, lim>>
  /\ cap' = IF Remaining(pos, lim) < suggested
            THEN Expanded(WantedSize(suggested)) ELSE cap
  /\ offered' = Remaining(pos, lim)
  /\ phase' = "offered"
  /\ UNCHANGED nread

(* clear(), expand if libuv wants more, offer remaining().                 *)
AllocCallback(suggested) ==
  /\ phase = "idle"
  /\ pos' = 0 /\ lim' = cap
  /\ cap' = IF Remaining(0, cap) < suggested
            THEN Expanded(WantedSize(suggested)) ELSE cap
  /\ offered' = Remaining(pos', lim')
  /\ phase' = "offered"
  /\ UNCHANGED nread

(* Mutant of ReadCallback: the limit is not moved to the data read.        *)
ReadCallbackNoLimit(n) ==
  /\ phase = "offered" /\ offered > 0
  /\ nread' = n
  /\ phase' = "event"
  /\ UNCHANGED <<cap, pos, lim, offered>>

(* libuv read n bytes; the program sees them between position and limit.   *)
ReadCallback(n) ==
  /\ phase = "offered" /\ offered > 0   \* an empty offer fails with ENOBUFS
  /\ lim' = (pos + n) % Word
  /\ nread' = n
  /\ phase' = "event"
  /\ UNCHANGED <<cap, pos, offered>>

(* End of stream or error, no data: the buffer is left as it is.           *)
ReadFails ==
  /\ phase = "offered"
  /\ phase' = "idle"
  /\ UNCHANGED <<cap, pos, lim, offered, nread>>

(* The program's handler returns and the buffer is cleared.                *)
EventReturn ==
  /\ phase = "event"
  /\ pos' = 0 /\ lim' = cap
  /\ phase' = "idle"
  /\ UNCHANGED <<cap, offered, nread>>

Next ==
  \/ \E n \in Size : SetPosition(n) \/ SetLimit(n) \/ Expand(n)
  \/ Flip \/ Clear
  \/ \E s \in Suggested : AllocCallback(s)
  \/ \E n \in 0..offered : ReadCallback(n)
  \/ ReadFails \/ EventReturn

Spec == Init /\ [][Next]_vars

-----------------------------------------------------------------------------
(* Types of the buffer's state.                                            *)
TypeOK ==
  /\ {cap, pos, lim, offered, nread} \subseteq Size
  /\ phase \in {"idle", "offered", "event"}

(* libuv never writes past the end of the buffer, whatever the program did *)
(* to position and limit before.                                           *)
OfferFits == phase = "offered" => pos + offered <= cap

(* The buffer never grows beyond the size it was created to expand to.     *)
CapBounded == cap <= InitialSize \/ cap <= ExpandableSize

(* Growing on demand never shrinks the buffer, which libuv or the program  *)
(* may be using.                                                           *)
CapGrows == [][cap' >= cap]_vars

(* The read event shows exactly the bytes read, all inside the buffer.     *)
EventShowsRead ==
  [][phase' = "event" /\ phase = "offered" =>
       Remaining(pos', lim') = nread' /\ lim' <= cap' /\ nread' <= offered]_vars

(* buffer.h: "size that socket can read = capacity - position".            *)
SocketCanRead == phase = "offered" => offered = cap - pos
=============================================================================
