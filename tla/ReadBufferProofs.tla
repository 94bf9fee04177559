-------------------------- MODULE ReadBufferProofs --------------------------
(* The read buffer's safety for every word size, buffer size and sequence  *)
(* of suggestions by libuv.                                                *)
EXTENDS ReadBuffer, TLAPS

(* The limit libuv was offered up to is a capacity the buffer once had,    *)
(* and it still has at least that.                                         *)
OfferInv == phase = "offered" => pos = 0 /\ lim <= cap /\ offered = lim

IInv == TypeOK /\ OfferInv /\ CapBounded

-----------------------------------------------------------------------------
LEMMA Sizes ==
  /\ Word \in Nat \ {0}
  /\ InitialSize \in Nat /\ InitialSize < Word
  /\ ExpandableSize \in Nat /\ ExpandableSize < Word
  /\ \A s \in Suggested : s \in Nat /\ s < Word
  BY WordAssumption, SizeAssumption

(* Reducing a size that fits the word changes nothing.                     *)
LEMMA SmallMod == ASSUME NEW n \in Size PROVE n % Word = n
  BY Sizes, SMTT(30) DEF Size

(* Any result of size_t arithmetic fits the word.                          *)
LEMMA ModFits == ASSUME NEW n \in Int PROVE n % Word \in Size
  BY Sizes, SMTT(30) DEF Size

(* expand never shrinks the buffer and never passes the larger of its old  *)
(* size and ExpandableSize.                                                *)
LEMMA ExpandedBounds ==
  ASSUME TypeOK, NEW n \in Size
  PROVE  /\ Expanded(n) \in Size
         /\ Expanded(n) >= cap
         /\ Expanded(n) = cap \/ Expanded(n) <= ExpandableSize
  BY Sizes DEF TypeOK, Size, Expanded

(* What allocCallback asks expand for fits the word.                       *)
LEMMA WantedFits == ASSUME TypeOK, NEW s \in Size PROVE WantedSize(s) \in Size
<1>1. cap \in Size
  BY DEF TypeOK
<1>2. Remaining(0, cap) \in Size
  BY <1>1, ModFits DEF Remaining, Size
<1>3. Remaining(Remaining(0, cap), s) \in Size
  BY <1>2, ModFits DEF Remaining, Size
<1>4. (cap + Remaining(Remaining(0, cap), s)) % Word \in Size
  BY <1>1, <1>3, ModFits DEF Size
<1> QED
  BY <1>4, Sizes DEF WantedSize, Size

(* One allocCallback.                                                      *)
LEMMA AllocStep ==
  ASSUME IInv, NEW s \in Suggested, AllocCallback(s)
  PROVE  IInv' /\ cap' >= cap
<1>1. cap \in Size /\ s \in Size
  BY SizeAssumption DEF IInv, TypeOK, Size
<1>2. WantedSize(s) \in Size
  BY <1>1, WantedFits DEF IInv
<1>3. cap' \in Size /\ cap' >= cap /\ (cap' = cap \/ cap' <= ExpandableSize)
  BY <1>1, <1>2, ExpandedBounds, Sizes DEF IInv, AllocCallback, Size
<1>4. offered' = cap /\ lim' = cap /\ pos' = 0
  BY <1>1, SmallMod, Sizes DEF AllocCallback, Remaining, Size
<1>5. TypeOK'
  BY <1>1, <1>3, <1>4, Sizes DEF IInv, TypeOK, AllocCallback, Size
<1>6. OfferInv'
  BY <1>1, <1>3, <1>4 DEF OfferInv
<1>7. CapBounded'
  BY <1>1, <1>3, Sizes DEF IInv, CapBounded, Size
<1> QED BY <1>3, <1>5, <1>6, <1>7 DEF IInv

(* One readCallback with data.                                             *)
LEMMA ReadStep ==
  ASSUME IInv, NEW n \in 0..offered, ReadCallback(n)
  PROVE  /\ IInv'
         /\ Remaining(pos', lim') = nread' /\ lim' <= cap' /\ nread' <= offered
<1>1. cap \in Size /\ offered \in Size /\ pos = 0 /\ offered <= cap
  BY DEF IInv, TypeOK, OfferInv, ReadCallback, Size
<1>2. n \in Size /\ n <= cap
  BY <1>1, Sizes DEF Size
<1>3. lim' = n /\ nread' = n /\ pos' = 0 /\ cap' = cap
  BY <1>1, <1>2, SmallMod DEF ReadCallback, Size
<1>4. Remaining(pos', lim') = n
  BY <1>2, <1>3, SmallMod DEF Remaining, Size
<1>5. IInv'
  BY <1>1, <1>2, <1>3, Sizes
  DEF IInv, TypeOK, OfferInv, CapBounded, ReadCallback, Size
<1> QED BY <1>2, <1>3, <1>4, <1>5, Sizes DEF Size

(* Every step keeps the invariant and never shrinks the buffer.            *)
LEMMA StepInv == IInv /\ [Next]_vars => IInv' /\ cap' >= cap
<1> SUFFICES ASSUME IInv, [Next]_vars PROVE IInv' /\ cap' >= cap
  OBVIOUS
<1> USE Sizes DEF IInv, TypeOK, OfferInv, CapBounded, Size, ProgramTurn
<1>1. ASSUME NEW n \in Size, SetPosition(n) PROVE IInv' /\ cap' >= cap
  BY <1>1 DEF SetPosition
<1>2. ASSUME NEW n \in Size, SetLimit(n) PROVE IInv' /\ cap' >= cap
  BY <1>2 DEF SetLimit
<1>3. ASSUME NEW n \in Size, Expand(n) PROVE IInv' /\ cap' >= cap
  BY <1>3, ExpandedBounds DEF Expand
<1>4. CASE Flip BY <1>4 DEF Flip
<1>5. CASE Clear BY <1>5 DEF Clear
<1>6. ASSUME NEW s \in Suggested, AllocCallback(s) PROVE IInv' /\ cap' >= cap
  BY <1>6, AllocStep
<1>7. ASSUME NEW n \in 0..offered, ReadCallback(n) PROVE IInv' /\ cap' >= cap
  BY <1>7, ReadStep DEF ReadCallback
<1>8. CASE ReadFails BY <1>8 DEF ReadFails
<1>9. CASE EventReturn BY <1>9 DEF EventReturn
<1>10. CASE UNCHANGED vars BY <1>10 DEF vars
<1> QED
  BY <1>1, <1>2, <1>3, <1>4, <1>5, <1>6, <1>7, <1>8, <1>9, <1>10 DEF Next

LEMMA Invariance == Spec => []IInv
<1>1. Init => IInv
  BY Sizes DEF Init, IInv, TypeOK, OfferInv, CapBounded, Size
<1>2. IInv /\ [Next]_vars => IInv'
  BY StepInv
<1> QED BY <1>1, <1>2, PTL DEF Spec

-----------------------------------------------------------------------------
(* Position, limit, capacity and lengths always fit a size_t: no negative  *)
(* or wrapped value is ever stored.                                        *)
THEOREM TypeCorrect == Spec => []TypeOK
<1>1. IInv => TypeOK BY DEF IInv
<1> QED BY Invariance, <1>1, PTL

(* allocCallback never offers libuv memory past the end of the buffer.     *)
THEOREM OfferFitsHolds == Spec => []OfferFits
<1>1. IInv => OfferFits
  BY Sizes DEF IInv, TypeOK, OfferInv, OfferFits, Size
<1> QED BY Invariance, <1>1, PTL

(* Expansion stops at the size given to createExpandableBuffer.            *)
THEOREM CapBoundedHolds == Spec => []CapBounded
<1>1. IInv => CapBounded BY DEF IInv
<1> QED BY Invariance, <1>1, PTL

(* expand never shrinks the buffer.                                        *)
THEOREM CapGrowsHolds == Spec => CapGrows
<1>1. IInv /\ [Next]_vars => [cap' >= cap]_vars
  BY StepInv
<1> QED BY Invariance, <1>1, PTL DEF Spec, CapGrows

(* The program sees exactly what libuv read.                               *)
THEOREM EventShowsReadHolds == Spec => EventShowsRead
<1> DEFINE Shown ==
      phase' = "event" /\ phase = "offered" =>
        Remaining(pos', lim') = nread' /\ lim' <= cap' /\ nread' <= offered
<1>1. IInv /\ [Next]_vars => [Shown]_vars
  <2> SUFFICES ASSUME IInv, Next, phase' = "event", phase = "offered"
               PROVE  Remaining(pos', lim') = nread' /\ lim' <= cap'
                        /\ nread' <= offered
    OBVIOUS
  <2>1. PICK n \in 0..offered : ReadCallback(n)
    BY DEF Next, SetPosition, SetLimit, Expand, Flip, Clear, ProgramTurn,
           AllocCallback, ReadFails, EventReturn
  <2> QED BY <2>1, ReadStep
<1> QED BY Invariance, <1>1, PTL DEF Spec, EventShowsRead

(* A buffer that cannot expand offers all of itself, as buffer.h says.     *)
THEOREM FixedBufferOffersAll ==
  ASSUME InitialSize >= ExpandableSize
  PROVE  Spec => []SocketCanRead
<1> DEFINE FixedInv == cap = InitialSize /\ (phase = "offered" => lim = cap)
<1>1. Init => FixedInv
  BY DEF Init
<1>2. IInv /\ FixedInv /\ [Next]_vars => FixedInv'
  <2> SUFFICES ASSUME IInv, FixedInv, [Next]_vars PROVE FixedInv'
    OBVIOUS
  <2>1. ASSUME NEW n PROVE Expanded(n) = cap
    BY Sizes DEF Expanded
  <2> QED
    BY <2>1 DEF Next, vars, SetPosition, SetLimit, Expand, Flip, Clear,
                ProgramTurn, AllocCallback, ReadCallback, ReadFails, EventReturn
<1>3. IInv /\ FixedInv => SocketCanRead
  BY Sizes DEF IInv, TypeOK, OfferInv, SocketCanRead, Size
<1> QED BY Invariance, <1>1, <1>2, <1>3, PTL DEF Spec
=============================================================================
