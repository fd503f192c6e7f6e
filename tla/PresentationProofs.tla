------------------------- MODULE PresentationProofs -------------------------
(***************************************************************************)
(* Proofs about the presentation queue and the clock that draws from it,   *)
(* for every queue depth, lead, threshold, cadence and stagger, and for    *)
(* streams of any length: the queue is fresh, a peeked frame stays, a tile *)
(* keeps moving, and nothing is early but by an eviction.                  *)
(*                                                                         *)
(* A frame that keeps waiting comes a refresh closer to its time with each *)
(* refresh that compares it, and one further away than the resync          *)
(* threshold is shown at once: that bounds how often it can be put off     *)
(* (PaceInv).                                                              *)
(***************************************************************************)
EXTENDS Presentation, SequenceTheorems, TLAPS

\* Freshness with the types it needs: the waiting frames are counted back from
\* the newest, so their numbers and their order are one fact.
QueueInv ==
  /\ offered \in Nat /\ shown \in Nat /\ pending \in Seq(Nat)
  /\ PendingIsFresh

-----------------------------------------------------------------------------
(* The queue.                                                              *)

LEMMA QueueInitFresh == QueueInit => QueueInv
<1> SUFFICES ASSUME QueueInit PROVE QueueInv
  OBVIOUS
<1>1. pending \in Seq(Nat) /\ Len(pending) = 0 /\ 1..0 = {}
  BY EmptySeq DEF QueueInit
<1> QED BY <1>1 DEF QueueInit, QueueInv, PendingIsFresh

LEMMA OfferFresh ==
  ASSUME QueueInv, Offer
  PROVE  QueueInv' /\ pending' # << >>
<1>1. /\ offered \in Nat /\ shown \in Nat /\ pending \in Seq(Nat) /\ Len(pending) \in Nat
      /\ offered' = offered + 1 /\ shown' = shown
  BY LenProperties DEF QueueInv, Offer
<1>2. CASE Len(pending) = QueueDepth
  <2>1. pending # << >> /\ Len(pending) >= 1
    BY <1>1, <1>2, QueueDepthAssumption, EmptySeq
  <2>2. /\ Tail(pending) \in Seq(Nat) /\ Len(Tail(pending)) = Len(pending) - 1
        /\ \A k \in 1..Len(Tail(pending)) : Tail(pending)[k] = pending[k + 1]
    BY <1>1, <2>1, HeadTailProperties
  <2>3. pending' = Append(Tail(pending), offered + 1)
    BY <1>2 DEF Offer
  <2>4. /\ pending' \in Seq(Nat) /\ pending' # << >> /\ Len(pending') = Len(pending)
        /\ \A k \in 1..Len(Tail(pending)) : pending'[k] = Tail(pending)[k]
        /\ pending'[Len(pending)] = offered + 1
    BY <1>1, <2>1, <2>2, <2>3, AppendProperties
  <2>5. ASSUME NEW k \in 1..Len(pending')
        PROVE  pending'[k] = offered' - Len(pending') + k
    <3>1. CASE k = Len(pending)
      BY <3>1, <1>1, <2>4
    <3>2. CASE k # Len(pending)
      <4> DEFINE n == Len(pending)
      <4>1. n \in Nat /\ k \in 1..n /\ k # n /\ Len(Tail(pending)) = n - 1
        BY <3>2, <1>1, <2>2, <2>4
      <4> HIDE DEF n
      <4>2. k \in 1..(n - 1) /\ k + 1 \in 1..n
        BY <4>1
      <4>3. k \in 1..Len(Tail(pending)) /\ k + 1 \in 1..Len(pending)
        BY <4>1, <4>2 DEF n
      <4>4. pending'[k] = pending[k + 1]
        BY <4>3, <2>2, <2>4
      <4>5. pending[k + 1] = offered - Len(pending) + (k + 1)
        BY <4>3 DEF QueueInv, PendingIsFresh
      <4> QED BY <4>4, <4>5, <1>1, <2>4
    <3> QED BY <3>1, <3>2
  <2>6. shown' <= offered' - Len(pending')
    BY <1>1, <2>4 DEF QueueInv, PendingIsFresh
  <2> QED BY <1>1, <2>4, <2>5, <2>6 DEF QueueInv, PendingIsFresh
<1>3. CASE Len(pending) # QueueDepth
  <2>1. pending' = Append(pending, offered + 1)
    BY <1>3 DEF Offer
  <2>2. /\ pending' \in Seq(Nat) /\ pending' # << >> /\ Len(pending') = Len(pending) + 1
        /\ \A k \in 1..Len(pending) : pending'[k] = pending[k]
        /\ pending'[Len(pending) + 1] = offered + 1
    BY <1>1, <2>1, AppendProperties
  <2>3. ASSUME NEW k \in 1..Len(pending')
        PROVE  pending'[k] = offered' - Len(pending') + k
    <3>1. CASE k = Len(pending) + 1
      BY <3>1, <1>1, <2>2
    <3>2. CASE k # Len(pending) + 1
      <4>1. k \in 1..Len(pending)
        BY <3>2, <1>1, <2>2
      <4>2. pending[k] = offered - Len(pending) + k
        BY <4>1 DEF QueueInv, PendingIsFresh
      <4> QED BY <4>1, <4>2, <1>1, <2>2
    <3> QED BY <3>1, <3>2
  <2>4. shown' <= offered' - Len(pending')
    BY <1>1, <2>2 DEF QueueInv, PendingIsFresh
  <2> QED BY <1>1, <2>2, <2>3, <2>4 DEF QueueInv, PendingIsFresh
<1> QED BY <1>2, <1>3

LEMMA ShowOldestFresh ==
  ASSUME QueueInv, ShowOldest
  PROVE  QueueInv'
<1>1. /\ offered \in Nat /\ shown \in Nat /\ pending \in Seq(Nat) /\ Len(pending) \in Nat
      /\ pending # << >> /\ offered' = offered
      /\ shown' = Head(pending) /\ pending' = Tail(pending)
  BY LenProperties DEF QueueInv, ShowOldest
<1>2. /\ Len(pending) >= 1 /\ Head(pending) = pending[1] /\ Head(pending) \in Nat
      /\ Tail(pending) \in Seq(Nat) /\ Len(Tail(pending)) = Len(pending) - 1
      /\ \A k \in 1..Len(Tail(pending)) : Tail(pending)[k] = pending[k + 1]
  BY <1>1, HeadTailProperties, EmptySeq
<1>3. \A k \in 1..Len(pending) : pending[k] = offered - Len(pending) + k
  BY DEF QueueInv, PendingIsFresh
<1>4. shown' = offered' - Len(pending')
  BY <1>1, <1>2, <1>3
<1>5. ASSUME NEW k \in 1..Len(pending')
      PROVE  pending'[k] = offered' - Len(pending') + k
  <2>1. k + 1 \in 1..Len(pending) /\ pending'[k] = pending[k + 1]
    BY <1>1, <1>2
  <2> QED BY <2>1, <1>1, <1>2, <1>3
<1> QED BY <1>1, <1>2, <1>4, <1>5 DEF QueueInv, PendingIsFresh

LEMMA ShowNewestFresh ==
  ASSUME QueueInv, ShowNewest
  PROVE  QueueInv'
<1>1. /\ offered \in Nat /\ shown \in Nat /\ pending \in Seq(Nat) /\ Len(pending) \in Nat
      /\ pending # << >> /\ offered' = offered
      /\ shown' = pending[Len(pending)] /\ pending' = << >>
  BY LenProperties DEF QueueInv, ShowNewest
<1>2. Len(pending) \in 1..Len(pending)
  BY <1>1, EmptySeq
<1>3. shown' = offered
  BY <1>1, <1>2 DEF QueueInv, PendingIsFresh
<1>4. pending' \in Seq(Nat) /\ Len(pending') = 0 /\ 1..0 = {}
  BY <1>1, EmptySeq
<1> QED BY <1>1, <1>3, <1>4 DEF QueueInv, PendingIsFresh

\* A queue that drops its oldest frame when it is full holds the newest frames,
\* without a gap, and none that was shown: the abstract slot of frame/slot.go,
\* for every depth.
THEOREM QueueStaysFresh == QueueSpec => []PendingIsFresh
<1>1. QueueInit => QueueInv
  BY QueueInitFresh
<1>2. ASSUME QueueInv, [QueueNext]_queueVars PROVE QueueInv'
  <2>1. CASE Offer
    BY <1>2, <2>1, OfferFresh
  <2>2. CASE ShowOldest
    BY <1>2, <2>2, ShowOldestFresh
  <2>3. CASE ShowNewest
    BY <1>2, <2>3, ShowNewestFresh
  <2>4. CASE UNCHANGED queueVars
    BY <1>2, <2>4 DEF queueVars, QueueInv, PendingIsFresh
  <2> QED BY <1>2, <2>1, <2>2, <2>3, <2>4 DEF QueueNext
<1>3. QueueInv => PendingIsFresh
  BY DEF QueueInv
<1> QED BY <1>1, <1>2, <1>3, PTL DEF QueueSpec

-----------------------------------------------------------------------------
(* The clock.                                                              *)

ClockInv == QueueInv /\ WaitingFrameStays

LEMMA ClockInitHolds == Init => ClockInv
BY QueueInitFresh DEF Init, ClockInv, WaitingFrameStays

\* The render thread is the only one that takes frames, so what a Peek saw
\* waiting stays: an eviction happens only where a frame is added.
LEMMA ClockStep ==
  ASSUME ClockInv, [Next]_vars
  PROVE  ClockInv'
<1>1. QueueInv /\ WaitingFrameStays
  BY DEF ClockInv
<1>2. CASE Decode
  <2>1. Offer /\ step' = step
    BY <1>2 DEF Decode, clockVars
  <2> QED BY <1>1, <2>1, OfferFresh DEF ClockInv, WaitingFrameStays
<1>3. CASE Refresh
  BY <1>1, <1>3 DEF Refresh, queueVars, ClockInv, QueueInv, PendingIsFresh, WaitingFrameStays
<1>4. CASE NothingQueued
  BY <1>1, <1>4 DEF NothingQueued, Return, queueVars, ClockInv, QueueInv, PendingIsFresh,
    WaitingFrameStays
<1>5. CASE PeekUntimed
  BY <1>1, <1>5 DEF PeekUntimed, queueVars, ClockInv, QueueInv, PendingIsFresh,
    WaitingFrameStays
<1>6. CASE PeekTimed
  BY <1>1, <1>6 DEF PeekTimed, queueVars, ClockInv, QueueInv, PendingIsFresh,
    WaitingFrameStays
<1>7. CASE TakeUntimed
  <2>1. ShowNewest /\ step' = "rest"
    BY <1>7 DEF TakeUntimed, Return
  <2> QED BY <1>1, <2>1, ShowNewestFresh DEF ClockInv, WaitingFrameStays
<1>8. CASE TakeResync
  <2>1. ShowNewest /\ step' = "rest"
    BY <1>8 DEF TakeResync, Return
  <2> QED BY <1>1, <2>1, ShowNewestFresh DEF ClockInv, WaitingFrameStays
<1>9. CASE ScanPeek
  BY <1>1, <1>9 DEF ScanPeek, queueVars, ClockInv, QueueInv, PendingIsFresh,
    WaitingFrameStays
<1>10. CASE ScanAdvance
  <2>1. ShowOldest /\ step' = "scan"
    BY <1>10 DEF ScanAdvance
  <2> QED BY <1>1, <2>1, ShowOldestFresh DEF ClockInv, WaitingFrameStays
<1>11. CASE Adjust
  BY <1>1, <1>11 DEF Adjust, Return, queueVars, ClockInv, QueueInv, PendingIsFresh,
    WaitingFrameStays
<1>12. CASE UNCHANGED vars
  BY <1>1, <1>12 DEF vars, queueVars, clockVars, ClockInv, QueueInv, PendingIsFresh,
    WaitingFrameStays
<1> QED BY <1>2, <1>3, <1>4, <1>5, <1>6, <1>7, <1>8, <1>9, <1>10, <1>11, <1>12
  DEF Next, Sample

LEMMA ClockInvariant == Spec => []ClockInv
BY ClockInitHolds, ClockStep, PTL DEF Spec

\* due never takes from an empty queue (present.go): neither Advance nor Take
\* returns nil once a Peek has found a frame, whatever the producer does between.
THEOREM PeekedFrameIsThere == Spec => []WaitingFrameStays
<1>1. ClockInv => WaitingFrameStays
  BY DEF ClockInv
<1> QED BY <1>1, ClockInvariant, PTL

\* A tile never goes back in time: what waits is newer than what is shown.
THEOREM ClockKeepsQueueFresh == Spec => []PendingIsFresh
<1>1. ClockInv => PendingIsFresh
  BY DEF ClockInv, QueueInv
<1> QED BY <1>1, ClockInvariant, PTL

\* Take on a clock that found frames always brings a newer one than the one on
\* screen, and so does Advance: the sequence numbers a tile shows only grow.
THEOREM ShownOnlyGrows == Spec => [][shown' >= shown]_vars
<1>1. ASSUME ClockInv, [Next]_vars PROVE [shown' >= shown]_vars
  <2>1. /\ offered \in Nat /\ shown \in Nat /\ pending \in Seq(Nat) /\ Len(pending) \in Nat
        /\ PendingIsFresh
    BY <1>1, LenProperties DEF ClockInv, QueueInv
  <2>2. ASSUME pending # << >>
        PROVE  /\ 1 \in 1..Len(pending) /\ Len(pending) \in 1..Len(pending)
               /\ Head(pending) = pending[1]
               /\ pending[1] > shown /\ pending[Len(pending)] > shown
    <3> DEFINE n == Len(pending)
    <3>1. n \in Nat /\ n >= 1 /\ Head(pending) = pending[1]
      BY <2>1, <2>2, EmptySeq, HeadTailProperties
    <3>2. /\ \A k \in 1..n : pending[k] = offered - n + k
          /\ shown <= offered - n
      BY <2>1 DEF PendingIsFresh
    <3> HIDE DEF n
    <3>3. 1 \in 1..n /\ n \in 1..n
      BY <3>1
    <3>4. pending[1] = offered - n + 1 /\ pending[n] = offered - n + n
      BY <3>2, <3>3
    <3>5. pending[1] > shown /\ pending[n] > shown
      BY <3>1, <3>2, <3>4, <2>1
    <3> QED BY <3>1, <3>3, <3>5 DEF n
  <2>3. shown' = shown \/ ShowOldest \/ ShowNewest
    BY <1>1 DEF Next, Sample, Decode, Offer, Refresh, NothingQueued, PeekUntimed, PeekTimed,
      TakeUntimed, TakeResync, ScanPeek, ScanAdvance, Adjust, vars, queueVars
  <2>4. shown' \in Nat
    BY <1>1, ClockStep DEF ClockInv, QueueInv
  <2>5. CASE shown' = shown
    BY <2>5, <2>1
  <2>6. CASE ShowOldest
    BY <2>6, <2>1, <2>2, <2>4 DEF ShowOldest
  <2>7. CASE ShowNewest
    BY <2>7, <2>1, <2>2, <2>4 DEF ShowNewest
  <2> QED BY <2>3, <2>5, <2>6, <2>7
<1> QED BY <1>1, ClockInvariant, PTL DEF Spec

-----------------------------------------------------------------------------
(* The stream and the clock: types, and what due knows of the frame it has *)
(* left waiting.                                                           *)

\* LastPts finds a frame: among those with a timestamp there is a last one.
Dated ==
  (\E n \in 1..offered : media[n] # NoPts) =>
    \E n \in 1..offered : media[n] # NoPts /\ \A m \in (n + 1)..offered : media[m] = NoPts

Types == TypeOK /\ ClockInv /\ Dated

\* The clock is set from the first timed frame until an untimed one.
ClockIsSet == step \in {"scan", "advance", "adjust", "resync"} => set

\* A frame that keeps waiting gets closer to its time by a refresh each time.  It
\* is compared with the threshold in every refresh but the first.
Closer(n) == pending # << >> /\ Front - Target + n * Vsync <= Resync

Closing ==
  /\ (waited - 2) * Vsync < Resync
  /\ waited > 0 /\ step \in {"rest", "peek"} => set /\ pending # << >>
  /\ waited > 1 /\ step = "rest" => Closer(waited - 2)
  /\ waited > 1 /\ step = "peek" => Closer(waited - 1)
  /\ waited > 0 /\ step \in {"scan", "advance"} /\ ~advanced => Closer(waited - 1)
  /\ waited > 0 /\ step = "adjust" /\ ~advanced => Closer(waited - 1) /\ Front > Target

\* What the loop found due stays due until it is shown, unless it is evicted.
DueStays == step = "advance" /\ ~evicted => pending # << >> /\ Front <= Target

PaceInv == ClockIsSet /\ Closing /\ DueStays

LEMMA FrontWaits ==
  ASSUME Types, pending # << >>
  PROVE  /\ Head(pending) = offered - Len(pending) + 1 /\ Head(pending) \in 1..offered
         /\ Head(pending) = pending[1] /\ Front \in Nat \cup {NoPts}
<1>1. /\ offered \in Nat /\ shown \in Nat /\ pending \in Seq(Nat) /\ Len(pending) \in Nat
      /\ media \in Seq(Nat \cup {NoPts}) /\ Len(media) = offered
  BY LenProperties DEF Types, ClockInv, QueueInv, TypeOK
<1>2. Len(pending) >= 1 /\ Head(pending) = pending[1] /\ 1 \in 1..Len(pending)
  BY <1>1, EmptySeq, HeadTailProperties
<1>3. Head(pending) = offered - Len(pending) + 1 /\ shown <= offered - Len(pending)
  BY <1>2 DEF Types, ClockInv, QueueInv, PendingIsFresh
<1>4. Head(pending) \in 1..offered
  BY <1>1, <1>2, <1>3
<1>5. media[Head(pending)] \in Nat \cup {NoPts}
  BY <1>1, <1>4, ElementOfSeq
<1> QED BY <1>2, <1>3, <1>4, <1>5 DEF Front

\* What waits are decoded frames.
LEMMA OfferedTyped ==
  ASSUME NEW q \in Seq(Nat), NEW n \in 0..MaxFrames, NEW last \in Nat,
         \A k \in 1..Len(q) : q[k] = n - Len(q) + k, last <= n - Len(q)
  PROVE  q \in Seq(1..MaxFrames) /\ last \in 0..MaxFrames
<1>1. Len(q) \in Nat /\ MaxFrames \in Nat
  BY LenProperties, PresentationAssumption
<1>2. ASSUME NEW k \in 1..Len(q)
      PROVE  q[k] \in 1..MaxFrames
  BY <1>1
<1>3. q = [k \in 1..Len(q) |-> q[k]]
  BY <1>1, SeqDef, LenProperties
<1>4. q \in [1..Len(q) -> 1..MaxFrames]
  BY <1>2, <1>3
<1> QED BY <1>1, <1>4, IsASeq

LEMMA QueueLength ==
  ASSUME Types, Offer \/ ShowOldest \/ ShowNewest
  PROVE  Len(pending') <= QueueDepth /\ Len(pending') \in Nat
<1>1. pending \in Seq(Nat) /\ Len(pending) \in Nat /\ Len(pending) <= QueueDepth /\ offered \in Nat
  BY LenProperties DEF Types, TypeOK, ClockInv, QueueInv
<1>2. QueueDepth \in Nat /\ QueueDepth >= 1
  BY QueueDepthAssumption
<1>3. CASE Offer
  <2>1. CASE Len(pending) = QueueDepth
    <3>1. Tail(pending) \in Seq(Nat) /\ Len(Tail(pending)) = Len(pending) - 1
      BY <1>1, <1>2, <2>1, EmptySeq, HeadTailProperties
    <3>2. pending' = Append(Tail(pending), offered + 1)
      BY <1>3, <2>1 DEF Offer
    <3> QED BY <1>1, <3>1, <3>2, AppendProperties
  <2>2. CASE Len(pending) # QueueDepth
    <3>1. pending' = Append(pending, offered + 1)
      BY <1>3, <2>2 DEF Offer
    <3> QED BY <1>1, <1>2, <2>2, <3>1, AppendProperties
  <2> QED BY <2>1, <2>2
<1>4. CASE ShowOldest
  <2>1. pending # << >> /\ pending' = Tail(pending)
    BY <1>4 DEF ShowOldest
  <2>2. Len(pending) >= 1 /\ Len(Tail(pending)) = Len(pending) - 1
    BY <1>1, <2>1, EmptySeq, HeadTailProperties
  <2> QED BY <1>1, <1>2, <2>1, <2>2
<1>5. CASE ShowNewest
  BY <1>1, <1>2, <1>5, EmptySeq DEF ShowNewest
<1> QED BY <1>3, <1>4, <1>5

LEMMA LastPtsTyped ==
  ASSUME Types
  PROVE  LastPts \in Nat
<1> DEFINE last(n) == media[n] # NoPts /\ \A m \in (n + 1)..offered : media[m] = NoPts
<1>1. CASE \E n \in 1..offered : media[n] # NoPts
  <2>1. \E n \in 1..offered : last(n)
    BY <1>1 DEF Types, Dated
  <2> DEFINE c == CHOOSE n \in 1..offered : last(n)
  <2>2. c \in 1..offered /\ media[c] # NoPts
    BY <2>1
  <2>3. LastPts = media[c]
    BY <1>1 DEF LastPts
  <2> HIDE DEF c
  <2>4. media[c] \in Nat \cup {NoPts}
    BY <2>2, ElementOfSeq DEF Types, TypeOK
  <2> QED BY <2>2, <2>3, <2>4
<1>2. CASE ~ \E n \in 1..offered : media[n] # NoPts
  BY <1>2 DEF LastPts
<1> QED BY <1>1, <1>2

\* A decoded frame gets a number and a media time, and is the last one.
LEMMA DecodeTypes ==
  ASSUME Types, Decode
  PROVE  Types' /\ media' \in Seq(Nat \cup {NoPts})
<1>0. /\ offered \in Nat /\ offered < MaxFrames /\ MaxFrames \in Nat
      /\ media \in Seq(Nat \cup {NoPts}) /\ Len(media) = offered
      /\ Offer /\ offered' = offered + 1 /\ ClockInv
      /\ waited \in Nat /\ drops \in Nat /\ evicted \in BOOLEAN
  BY PresentationAssumption DEF Types, TypeOK, Decode, Offer
<1>1. PICK p \in {LastPts + c : c \in Cadences} \cup Restarts \cup {NoPts} :
        media' = Append(media, p)
  BY DEF Decode
<1>2. p \in Nat \cup {NoPts}
  <2>1. LastPts \in Nat /\ Cadences \subseteq Nat /\ Restarts \subseteq Nat
    BY LastPtsTyped, PresentationAssumption
  <2>2. {LastPts + c : c \in Cadences} \subseteq Nat
    BY <2>1
  <2> QED BY <2>1, <2>2
<1>3. /\ media' \in Seq(Nat \cup {NoPts}) /\ Len(media') = offered'
      /\ \A n \in 1..offered : media'[n] = media[n]
      /\ media'[offered'] = p
  BY <1>0, <1>1, <1>2, AppendProperties
<1>4. ClockInv'
  BY <1>0, ClockStep DEF Next
<1>5. Dated'
  <2> SUFFICES ASSUME \E n \in 1..offered' : media'[n] # NoPts
               PROVE  \E n \in 1..offered' :
                        media'[n] # NoPts /\ \A m \in (n + 1)..offered' : media'[m] = NoPts
    BY DEF Dated
  <2>0. offered \in Nat /\ offered' = offered + 1
    BY <1>0
  <2>1. CASE p # NoPts
    <3>1. offered' \in 1..offered' /\ media'[offered'] # NoPts
      BY <2>0, <1>3, <2>1
    <3>2. (offered' + 1)..offered' = {}
      BY <2>0
    <3>3. \A m \in (offered' + 1)..offered' : media'[m] = NoPts
      BY <3>2
    <3> QED BY <3>1, <3>3
  <2>2. CASE p = NoPts
    <3>1. PICK n \in 1..offered : media[n] # NoPts /\ \A m \in (n + 1)..offered : media[m] = NoPts
      BY <1>0, <1>3, <2>2 DEF Types, Dated
    <3>2. n \in 1..offered' /\ media'[n] # NoPts
      BY <1>0, <1>3, <3>1
    <3>3. ASSUME NEW m \in (n + 1)..offered'
          PROVE  media'[m] = NoPts
      BY <1>0, <1>3, <2>2, <3>1
    <3> QED BY <3>2, <3>3
  <2> QED BY <2>1, <2>2
<1>6. pending' \in Seq(1..MaxFrames) /\ shown' \in 0..MaxFrames /\ Len(pending') <= QueueDepth
  <2>1. offered' \in 0..MaxFrames /\ QueueInv'
    BY <1>0, <1>4 DEF ClockInv
  <2>2. pending' \in Seq(1..MaxFrames) /\ shown' \in 0..MaxFrames
    BY <2>1, OfferedTyped DEF QueueInv, PendingIsFresh
  <2> QED BY <1>0, <2>2, QueueLength
<1>7. /\ set' \in BOOLEAN /\ lag' \in Int /\ now' \in Nat /\ step' \in Steps
      /\ advanced' \in BOOLEAN /\ evicted' \in BOOLEAN /\ drops' \in Nat /\ waited' \in Nat
  <2>1. UNCHANGED clockVars /\ drops' \in Nat
    BY <1>0 DEF Decode, Offer
  <2> QED BY <1>0, <2>1 DEF Decode, clockVars, Types, TypeOK
<1>8. offered' \in 0..MaxFrames
  BY <1>0
<1> QED BY <1>3, <1>4, <1>5, <1>6, <1>7, <1>8 DEF Types, TypeOK

LEMMA SampleTypes ==
  ASSUME Types, Sample
  PROVE  Types'
<1>0. /\ media \in Seq(Nat \cup {NoPts}) /\ Len(media) = offered /\ offered \in 0..MaxFrames
      /\ now \in Nat /\ lag \in Int /\ Len(pending) <= QueueDepth
      /\ waited \in Nat /\ drops \in Nat /\ evicted \in BOOLEAN /\ set \in BOOLEAN
      /\ advanced \in BOOLEAN
      /\ Vsync \in Nat /\ Slew \in Nat /\ Lead \in Nat /\ Staggers \subseteq Nat
  BY PresentationAssumption DEF Types, TypeOK
<1>1. ClockInv'
  BY ClockStep DEF Types, Next
<1>2. /\ UNCHANGED <<media, offered, drops>>
      /\ (UNCHANGED <<pending, shown>>) \/ ShowOldest \/ ShowNewest
  BY DEF Sample, Refresh, NothingQueued, PeekUntimed, PeekTimed, TakeUntimed, TakeResync,
         ScanPeek, ScanAdvance, Adjust, ShowOldest, ShowNewest, queueVars
<1>3. pending' \in Seq(1..MaxFrames) /\ shown' \in 0..MaxFrames
  <2>1. offered' \in 0..MaxFrames /\ QueueInv'
    BY <1>0, <1>1, <1>2 DEF ClockInv
  <2> QED BY <2>1, OfferedTyped DEF QueueInv, PendingIsFresh
<1>4. Len(pending') <= QueueDepth
  BY <1>0, <1>2, QueueLength
<1>5. /\ step' \in Steps /\ set' \in BOOLEAN /\ evicted' \in BOOLEAN /\ waited' \in Nat
      /\ now' \in Nat /\ advanced' \in BOOLEAN /\ drops' \in Nat
  <2>1. waited' \in {0, waited, waited + 1}
    BY DEF Sample, Refresh, NothingQueued, PeekUntimed, PeekTimed, TakeUntimed, TakeResync,
           ScanPeek, ScanAdvance, Adjust, Return
  <2>2. step' \in Steps
    BY DEF Sample, Refresh, NothingQueued, PeekUntimed, PeekTimed, TakeUntimed, TakeResync,
           ScanPeek, ScanAdvance, Adjust, Return, Steps
  <2>3. set' \in {set, TRUE, FALSE} /\ evicted' \in {evicted, FALSE} /\ now' \in {now, now + Vsync}
        /\ advanced' \in {advanced, TRUE, FALSE}
    BY DEF Sample, Refresh, NothingQueued, PeekUntimed, PeekTimed, TakeUntimed, TakeResync,
           ScanPeek, ScanAdvance, Adjust
  <2>4. waited' \in Nat
    BY <1>0, <2>1
  <2>5. set' \in BOOLEAN /\ evicted' \in BOOLEAN
    BY <1>0, <2>3
  <2>6. now' \in Nat /\ drops' \in Nat /\ advanced' \in BOOLEAN
    <3>1. now' \in Nat
      BY <1>0, <2>3
    <3>2. drops' \in Nat
      BY <1>0, <1>2
    <3>3. advanced' \in BOOLEAN
      BY <1>0, <2>3
    <3> QED BY <3>1, <3>2, <3>3
  <2> QED BY <2>2, <2>4, <2>5, <2>6
<1>6. lag' \in Int
  <2>1. CASE PeekTimed
    <3>1. Front \in Int
      BY <2>1, FrontWaits DEF PeekTimed, NoPts
    <3>2. PICK s \in Staggers : lag' = IF set THEN lag ELSE now + Lead + s - Front
      BY <2>1 DEF PeekTimed
    <3> QED BY <1>0, <3>1, <3>2
  <2>2. CASE TakeResync
    <3>1. pending # << >> /\ shown' = pending[Len(pending)]
      BY <2>2 DEF TakeResync, ShowNewest
    <3>2. pending \in Seq(Nat) /\ Len(pending) \in 1..Len(pending)
      BY <3>1, LenProperties, EmptySeq DEF Types, ClockInv, QueueInv
    <3>3. shown' \in 1..offered
      BY <3>1, <3>2, <1>0, <1>2, <1>1 DEF Types, ClockInv, QueueInv, PendingIsFresh
    <3>4. media[shown'] \in Nat \cup {NoPts}
      BY <1>0, <3>3, ElementOfSeq
    <3> QED BY <1>0, <2>2, <3>4 DEF TakeResync, NoPts
  <2>3. CASE Adjust
    BY <1>0, <2>3 DEF Adjust
  <2>4. CASE ~PeekTimed /\ ~TakeResync /\ ~Adjust
    BY <1>0, <2>4 DEF Sample, Refresh, NothingQueued, PeekUntimed, TakeUntimed, ScanPeek, ScanAdvance
  <2> QED BY <2>1, <2>2, <2>3, <2>4
<1> QED BY <1>0, <1>1, <1>2, <1>3, <1>4, <1>5, <1>6 DEF Types, TypeOK, Dated

LEMMA TypesHold == Spec => []Types
<1>1. Init => Types
  <2> SUFFICES ASSUME Init PROVE Types
    OBVIOUS
  <2>1. media \in Seq(Nat \cup {NoPts}) /\ Len(media) = 0 /\ pending \in Seq(1..MaxFrames)
        /\ Len(pending) = 0
    BY EmptySeq DEF Init, QueueInit
  <2>2. 0 \in 0..MaxFrames /\ 0 <= QueueDepth /\ 1..0 = {}
    BY PresentationAssumption, QueueDepthAssumption
  <2>3. TypeOK
    <3>1. /\ offered \in 0..MaxFrames /\ Len(media) = offered /\ Len(pending) <= QueueDepth
          /\ shown \in 0..MaxFrames /\ drops \in Nat
      BY <2>1, <2>2 DEF Init, QueueInit
    <3>2. /\ set \in BOOLEAN /\ lag \in Int /\ now \in Nat /\ step \in Steps
          /\ advanced \in BOOLEAN /\ evicted \in BOOLEAN /\ waited \in Nat
      <4>1. set \in BOOLEAN /\ advanced \in BOOLEAN /\ evicted \in BOOLEAN
        BY DEF Init
      <4>2. lag \in Int /\ now \in Nat /\ waited \in Nat
        BY DEF Init
      <4>3. step \in Steps
        BY DEF Init, Steps
      <4> QED BY <4>1, <4>2, <4>3
    <3> QED BY <2>1, <3>1, <3>2 DEF TypeOK
  <2>4. Dated
    BY <2>2 DEF Init, QueueInit, Dated
  <2> QED BY <2>3, <2>4, ClockInitHolds DEF Types
<1>2. Types /\ [Next]_vars => Types'
  <2> SUFFICES ASSUME Types, [Next]_vars PROVE Types'
    OBVIOUS
  <2>1. CASE UNCHANGED vars
    BY <2>1, ClockStep DEF vars, queueVars, clockVars, Types, TypeOK, Dated
  <2> QED BY <2>1, DecodeTypes, SampleTypes DEF Next
<1> QED BY <1>1, <1>2, PTL DEF Spec

\* Every variable of the clock and the queue keeps its type: the media time that
\* is compared is that of a decoded frame, and the queue keeps its depth.
THEOREM ClockTypeOK == Spec => []TypeOK
<1>1. Types => TypeOK
  BY DEF Types
<1> QED BY <1>1, TypesHold, PTL

-----------------------------------------------------------------------------
(* How long a frame waits, and when it is due.                             *)

\* A decoded frame does not touch the front of the queue, or evicts it.
LEMMA DecodeKeepsFront ==
  ASSUME Types, Decode
  PROVE  /\ UNCHANGED clockVars
         /\ \/ evicted' = TRUE /\ waited' = 0
            \/ /\ evicted' = evicted /\ waited' = waited
               /\ pending # << >> => pending' # << >> /\ Front' = Front
<1>0. /\ UNCHANGED clockVars /\ Offer /\ drops \in Nat /\ evicted \in BOOLEAN
      /\ media \in Seq(Nat \cup {NoPts}) /\ Len(media) = offered /\ pending \in Seq(Nat)
      /\ offered \in Nat
  BY DEF Decode, Types, TypeOK, ClockInv, QueueInv
<1>1. CASE Len(pending) = QueueDepth
  <2>1. drops' > drops
    BY <1>0, <1>1 DEF Offer
  <2> QED BY <1>0, <2>1 DEF Decode
<1>2. CASE Len(pending) # QueueDepth
  <2>1. ~(drops' > drops) /\ pending' = Append(pending, offered + 1)
    BY <1>0, <1>2 DEF Offer
  <2>2. ASSUME pending # << >>
        PROVE  pending' # << >> /\ Front' = Front
    <3>1. Head(pending) \in 1..offered /\ Head(pending) = pending[1]
      BY <2>2, FrontWaits
    <3>2. Len(pending) \in Nat /\ Len(pending) >= 1
      BY <1>0, <2>2, LenProperties, EmptySeq
    <3>3. /\ pending' \in Seq(Nat) /\ Len(pending') = Len(pending) + 1
          /\ pending'[1] = pending[1]
      BY <1>0, <2>1, <3>2, AppendProperties
    <3>4. pending' # << >> /\ Head(pending') = Head(pending)
      BY <3>1, <3>2, <3>3, EmptySeq, HeadTailProperties
    <3>5. PICK p \in {LastPts + c : c \in Cadences} \cup Restarts \cup {NoPts} :
            media' = Append(media, p)
      BY DEF Decode
    <3>6. media'[Head(pending)] = media[Head(pending)]
      BY <1>0, <3>1, <3>5, AppendProperties
    <3> QED BY <3>4, <3>6 DEF Front
  <2> QED BY <1>0, <2>1, <2>2 DEF Decode
<1> QED BY <1>1, <1>2

LEMMA PaceInit == Init => PaceInv
<1> SUFFICES ASSUME Init PROVE PaceInv
  OBVIOUS
<1>1. (0 - 2) * Vsync < Resync
  BY PresentationAssumption
<1> QED BY <1>1 DEF Init, PaceInv, ClockIsSet, Closing, DueStays

LEMMA DecodePaces ==
  ASSUME Types, PaceInv, Decode
  PROVE  PaceInv'
<1>1. /\ Vsync \in Nat \ {0} /\ Resync \in Nat /\ Target \in Int /\ Target' = Target
      /\ UNCHANGED <<set, step, advanced>>
  BY PresentationAssumption, DecodeKeepsFront DEF Types, TypeOK, Target, clockVars
<1>2. CASE evicted' = TRUE /\ waited' = 0
  <2>1. (0 - 2) * Vsync < Resync
    BY <1>1
  <2> QED BY <1>1, <1>2, <2>1 DEF PaceInv, ClockIsSet, Closing, DueStays
<1>3. CASE /\ evicted' = evicted /\ waited' = waited
           /\ pending # << >> => pending' # << >> /\ Front' = Front
  <2>1. ClockIsSet' /\ DueStays'
    BY <1>1, <1>3 DEF PaceInv, ClockIsSet, DueStays
  <2>2. ASSUME NEW n \in Int, Closer(n)
        PROVE  pending' # << >> /\ Front' = Front /\ Front' - Target' + n * Vsync <= Resync
    BY <1>1, <1>3, <2>2 DEF Closer
  <2>3. waited \in Nat /\ waited - 1 \in Int /\ waited - 2 \in Int
    BY DEF Types, TypeOK
  <2> QED BY <1>1, <1>3, <2>1, <2>2, <2>3 DEF PaceInv, Closing, Closer
<1> QED BY <1>2, <1>3, DecodeKeepsFront

LEMMA LaterIsCloser ==
  ASSUME NEW pts \in Int, NEW t \in Int, NEW u \in Int, NEW m \in Int, NEW r \in Int,
         pts - t + m <= r, u >= t
  PROVE  pts - u + m <= r
  OBVIOUS

LEMMA SamplePaces ==
  ASSUME Types, PaceInv, Sample
  PROVE  PaceInv'
<1>0. /\ Vsync \in Nat \ {0} /\ Resync \in Nat /\ Slew \in Nat /\ now \in Nat /\ lag \in Int
      /\ waited \in Nat /\ set \in BOOLEAN /\ advanced \in BOOLEAN /\ evicted \in BOOLEAN
      /\ pending # << >> => Front \in Int
      /\ (waited - 2) * Vsync < Resync /\ (0 - 2) * Vsync < Resync
  <2>1. /\ Vsync \in Nat \ {0} /\ Resync \in Nat /\ Slew \in Nat
        /\ (0 - 2) * Vsync < Resync
    BY PresentationAssumption
  <2>2. pending # << >> => Front \in Int
    BY FrontWaits DEF NoPts
  <2> QED BY <2>1, <2>2 DEF Types, TypeOK, PaceInv, Closing
<1>1. CASE Refresh
  <2>1. /\ Target' = Target + Vsync /\ waited' = waited /\ pending' = pending /\ Front' = Front
        /\ set' = set /\ step = "rest" /\ step' = "peek"
    BY <1>0, <1>1 DEF Refresh, Target, Front, queueVars
  <2>2. waited > 1 => Closer(waited - 1)'
    <3> SUFFICES ASSUME waited > 1 PROVE Closer(waited - 1)'
      OBVIOUS
    <3>1. pending # << >> /\ Front - Target + (waited - 2) * Vsync <= Resync
      BY <2>1 DEF PaceInv, Closing, Closer
    <3>2. Front - (Target + Vsync) + (waited - 1) * Vsync = Front - Target + (waited - 2) * Vsync
      BY <1>0, <3>1 DEF Target
    <3> QED BY <2>1, <3>1, <3>2 DEF Closer
  <2> QED BY <1>0, <2>1, <2>2 DEF PaceInv, ClockIsSet, Closing, Closer, DueStays
<1>2. CASE NothingQueued \/ TakeUntimed \/ TakeResync
  BY <1>0, <1>2 DEF NothingQueued, TakeUntimed, TakeResync, Return, PaceInv, ClockIsSet, Closing,
                    DueStays
<1>3. CASE PeekUntimed
  BY <1>0, <1>3 DEF PeekUntimed, PaceInv, ClockIsSet, Closing, DueStays
<1>4. CASE PeekTimed
  <2>1. /\ pending # << >> /\ pending' = pending /\ Front' = Front /\ Front \in Int
        /\ waited' = waited /\ advanced' = advanced /\ now' = now /\ step = "peek" /\ set'
        /\ step' \in {"resync", "scan"} /\ (step' = "scan" => ~OutOfSync(Front, lag'))
        /\ set => lag' = lag
    BY <1>0, <1>4 DEF PeekTimed, Front, queueVars
  <2>2. waited > 0 => lag' = lag /\ Target' = Target /\ Target \in Int
    BY <1>0, <2>1 DEF PaceInv, Closing, Target
  <2>3. waited > 0 /\ step' = "scan" => Closer(waited - 1)'
    <3> SUFFICES ASSUME waited > 0, step' = "scan" PROVE Closer(waited - 1)'
      OBVIOUS
    <3>1. CASE waited = 1
      <4>1. Front <= Target + Resync
        BY <1>0, <2>1, <2>2 DEF OutOfSync, Target
      <4>2. Front - Target + (waited - 1) * Vsync <= Resync
        BY <1>0, <2>1, <2>2, <3>1, <4>1
      <4> QED BY <2>1, <2>2, <4>2 DEF Closer
    <3>2. CASE waited # 1
      <4>1. Front - Target + (waited - 1) * Vsync <= Resync
        BY <1>0, <2>1, <3>2 DEF PaceInv, Closing, Closer
      <4> QED BY <2>1, <2>2, <4>1 DEF Closer
    <3> QED BY <3>1, <3>2
  <2> QED BY <1>0, <2>1, <2>3 DEF PaceInv, ClockIsSet, Closing, DueStays
<1>5. CASE ScanPeek
  <2>1. /\ UNCHANGED <<pending, set, waited, advanced>> /\ step = "scan" /\ set
        /\ Front' = Front /\ Target' = Target /\ step' \in {"advance", "adjust"}
        /\ step' = "advance" => pending # << >> /\ Front <= Target
        /\ step' = "adjust" /\ pending # << >> => ~(Front <= Target)
    BY <1>5 DEF ScanPeek, Front, Target, queueVars, PaceInv, ClockIsSet, IsDue
  <2>2. waited > 0 /\ ~advanced => Closer(waited - 1) /\ Closer(waited - 1)'
    BY <2>1 DEF PaceInv, Closing, Closer
  <2>3. waited > 0 /\ ~advanced /\ step' = "adjust" => Front > Target
    <3>1. Target \in Int
      BY <1>0 DEF Target
    <3> QED BY <1>0, <2>1, <2>2, <3>1 DEF Closer
  <2>4. ClockIsSet' /\ DueStays'
    BY <2>1 DEF ClockIsSet, DueStays
  <2> QED BY <1>0, <2>1, <2>2, <2>3, <2>4 DEF PaceInv, Closing
<1>6. CASE ScanAdvance
  <2>1. /\ waited' = waited /\ set' = set /\ advanced' = TRUE /\ step' = "scan" /\ step = "advance"
    BY <1>6 DEF ScanAdvance
  <2> QED BY <1>0, <2>1 DEF PaceInv, ClockIsSet, Closing, DueStays
<1>7. CASE Adjust
  <2>1. /\ UNCHANGED <<pending, now, set>> /\ Front' = Front /\ set /\ step = "adjust"
        /\ step' = "rest" /\ waited' \in {0, waited + 1}
        /\ waited' # 0 => ~advanced /\ pending # << >> /\ lag' \in {lag, lag - Slew}
    BY <1>0, <1>7 DEF Adjust, Return, Front, queueVars, PaceInv, ClockIsSet
  <2>2. CASE waited' = 0
    BY <1>0, <2>1, <2>2 DEF PaceInv, ClockIsSet, Closing, DueStays
  <2>3. CASE waited' = 1 /\ waited = 0
    <3>1. (1 - 2) * Vsync < Resync
      BY <1>0
    <3> QED BY <2>1, <2>3, <3>1 DEF PaceInv, ClockIsSet, Closing, DueStays
  <2>4. CASE waited' = waited + 1 /\ waited > 0
    <3>0. waited' # 0 /\ waited' - 2 = waited - 1
      BY <1>0, <2>4
    <3>1. /\ Front - Target + (waited - 1) * Vsync <= Resync /\ Front > Target
          /\ Front \in Int /\ Target \in Int
      BY <1>0, <2>1, <2>4, <3>0 DEF PaceInv, Closing, Closer, Target
    <3>2. (waited' - 2) * Vsync < Resync
      <4> DEFINE m == (waited - 1) * Vsync
      <4>1. m \in Int
        BY <1>0
      <4>2. Front - Target + m <= Resync
        BY <3>1
      <4> HIDE DEF m
      <4>3. m < Resync
        BY <1>0, <3>1, <4>1, <4>2
      <4> QED BY <3>0, <4>3 DEF m
    <3>3. Target' >= Target /\ Target' \in Int
      BY <1>0, <2>1, <3>0 DEF Target
    <3>4. Front - Target' + (waited - 1) * Vsync <= Resync
      <4>1. (waited - 1) * Vsync \in Int /\ Resync \in Int
        BY <1>0
      <4> QED BY ONLY <3>1, <3>3, <4>1, LaterIsCloser
    <3>5. Closer(waited - 2)'
      BY <1>0, <2>1, <2>4, <3>0, <3>4 DEF Closer
    <3> QED BY <2>1, <3>0, <3>2, <3>5 DEF PaceInv, ClockIsSet, Closing, DueStays
  <2> QED BY <1>0, <2>1, <2>2, <2>3, <2>4
<1> QED BY <1>1, <1>2, <1>3, <1>4, <1>5, <1>6, <1>7 DEF Sample

LEMMA PaceHolds == Spec => [](Types /\ PaceInv)
<1>1. Types /\ PaceInv /\ [Next]_vars => PaceInv'
  <2> SUFFICES ASSUME Types, PaceInv, [Next]_vars PROVE PaceInv'
    OBVIOUS
  <2>1. CASE UNCHANGED vars
    BY <2>1 DEF vars, queueVars, clockVars, PaceInv, ClockIsSet, Closing, Closer, DueStays, Front, Target
  <2> QED BY <2>1, DecodePaces, SamplePaces DEF Next
<1> QED BY <1>1, PaceInit, TypesHold, PTL DEF Spec

\* The threshold of due bounds how long a queued frame can wait, for every queue
\* depth, stagger, slew and jump of media time: each refresh takes Vsync off the
\* distance that the first comparison found within the threshold.
THEOREM TileAlwaysMoves == Spec => []TileKeepsMoving
<1>1. Types /\ PaceInv => TileKeepsMoving
  <2> SUFFICES ASSUME Types, PaceInv, ~TileKeepsMoving PROVE FALSE
    OBVIOUS
  <2> DEFINE q == (Resync + Vsync - 1) \div Vsync
  <2>1. /\ Vsync \in Nat /\ Vsync >= 1 /\ Resync \in Nat /\ waited \in Nat
        /\ (waited - 2) * Vsync < Resync
    BY PresentationAssumption DEF Types, TypeOK, PaceInv, Closing
  <2>2. q \in Int /\ Resync + Vsync - 1 < (q + 1) * Vsync
    BY <2>1
  <2>3. waited > q + 1
    BY <2>1, <2>2 DEF TileKeepsMoving, FreezeBound
  <2> HIDE DEF q
  <2>4. \E d \in Nat : waited - 2 = q + d
    <3>1. waited - 2 - q \in Nat
      BY <2>1, <2>2, <2>3
    <3> QED BY <2>1, <2>2, <3>1
  <2>5. PICK d \in Nat : waited - 2 = q + d
    BY <2>4
  <2>6. (waited - 2) * Vsync = q * Vsync + d * Vsync /\ d * Vsync >= 0 /\ (q + 1) * Vsync = q * Vsync + Vsync
    BY <2>1, <2>2, <2>5
  <2> QED BY <2>1, <2>2, <2>6
<1> QED BY <1>1, PaceHolds, PTL

\* The loop of due shows a frame before its time only if the queue overflowed and
\* gave up the frame it had found due between Peek and Advance.
THEOREM EarlyOnlyByEviction == Spec => EarlyOnlyAfterEviction
<1>1. Types /\ PaceInv /\ [Next]_vars =>
        [step = "advance" /\ step' = "scan" /\ media[shown'] > Target => evicted]_vars
  <2> SUFFICES ASSUME Types, PaceInv, [Next]_vars, step = "advance", step' = "scan", ~evicted,
                      ~(UNCHANGED vars)
               PROVE  ~(media[shown'] > Target)
    OBVIOUS
  <2>1. ScanAdvance
    BY DEF Next, Sample, Decode, clockVars, Refresh, NothingQueued, PeekUntimed, PeekTimed,
           TakeUntimed, TakeResync, ScanPeek, Adjust, Return
  <2>2. media[shown'] = Front
    BY <2>1 DEF ScanAdvance, ShowOldest, Front
  <2>3. Front <= Target /\ Front \in Int /\ Target \in Int
    BY FrontWaits DEF PaceInv, DueStays, Types, TypeOK, Target, NoPts
  <2> QED BY <2>2, <2>3
<1> QED BY <1>1, PaceHolds, PTL DEF Spec, EarlyOnlyAfterEviction
=============================================================================
