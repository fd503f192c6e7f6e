--------------------------- MODULE FrameSlotProofs ---------------------------
(***************************************************************************)
(* Proofs about the frame slot for every QueueDepth and every number of    *)
(* frames.  The argument: the pool is two larger than the queue, so        *)
(* reserveLocked always finds a buffer nobody else uses; hence the owners  *)
(* of buffers never meet, hence the pixels of a queued or held buffer do   *)
(* not change, hence the pool behaves like a queue of frames.              *)
(***************************************************************************)
EXTENDS FrameSlot, NumberFacts, FiniteSets, FiniteSetTheorems, SequenceTheorems, TLAPS

-----------------------------------------------------------------------------
(* The pool always has a free buffer when the producer asks for one.       *)

LEMMA PoolHasFreeBuffer ==
  ASSUME TypeOK, fill = NoIndex
  PROVE  Free # {}
<1>1. SUFFICES ASSUME Free = {} PROVE FALSE
  OBVIOUS
<1> DEFINE place == [i \in Buffers |-> IF i \in Queued
                       THEN CHOOSE k \in 1..Len(queue) : queue[k] = i ELSE 0]
<1>2. Len(queue) \in Nat /\ Len(queue) <= QueueDepth
  BY LenProperties DEF TypeOK
<1>3. QueueDepth \in Nat
  BY FrameSlotAssumption
<1>4. IsFiniteSet(Buffers) /\ Cardinality(Buffers) = QueueDepth + 2
  BY <1>3, FS_Interval DEF Buffers, PoolSize
<1>5. IsFiniteSet(0..Len(queue)) /\ Cardinality(0..Len(queue)) = Len(queue) + 1
  BY <1>2, FS_Interval
<1>6. \A i \in Queued : place[i] \in 1..Len(queue) /\ queue[place[i]] = i
  <2> TAKE i \in Queued
  <2>1. i \in Buffers
    BY ElementOfSeq DEF Queued, TypeOK
  <2>2. \E k \in 1..Len(queue) : queue[k] = i
    BY DEF Queued
  <2> QED BY <2>1, <2>2
<1>7. \A i \in Buffers \ Queued : place[i] = 0 /\ i = busy
  <2> TAKE i \in Buffers \ Queued
  <2>1. i # fill
    BY DEF Buffers, NoIndex
  <2> QED BY <1>1, <2>1 DEF Free
<1>8. place \in [Buffers -> 0..Len(queue)]
  <2>1. \A i \in Buffers : place[i] \in 0..Len(queue)
    <3> HIDE DEF place
    <3> QED BY <1>2, <1>6, <1>7
  <2> QED BY <2>1
<1> HIDE DEF place
<1>9. PICK i, j \in Buffers : i # j /\ place[i] = place[j]
  <2>1. Cardinality(0..Len(queue)) < Cardinality(Buffers)
    BY <1>2, <1>3, <1>4, <1>5
  <2> QED BY <2>1, <1>4, <1>5, <1>8, FS_PigeonHole
<1> QED BY <1>2, <1>6, <1>7, <1>9

LEMMA ReserveIsFree ==
  ASSUME TypeOK, fill = NoIndex
  PROVE  Reserve \in Free
<1>1. Free # {} /\ Free \in SUBSET Nat
  BY PoolHasFreeBuffer, FrameSlotAssumption DEF Free, Buffers, PoolSize
<1>2. \E i \in Free : \A j \in Free : i <= j
  BY <1>1, LeastElement
<1> QED BY <1>1, <1>2 DEF Reserve

-----------------------------------------------------------------------------
(* The inductive invariant.                                                *)

\* What the producer's position says about `fill' and about the buffer there.
ProducerOwnsFill ==
  /\ producer = "idle" <=> fill = NoIndex
  /\ producer = "copied" => image[fill] = seq + 1
  /\ producer = "stamped" => image[fill] = seq /\ stamp[fill] = seq /\ seq > 0

SlotInv == TypeOK /\ NoSharedBuffer /\ WholeFrames /\ ProducerOwnsFill

\* Queueing the producer's buffer keeps the order of the others, drops at most
\* the oldest, and never exceeds the depth.
LEMMA EnqueueEffect ==
  ASSUME TypeOK, NEW i \in Buffers, Enqueue(i)
  PROVE  /\ queue' \in Seq(Buffers)
         /\ Len(queue') \in 1..QueueDepth
         /\ queue'[Len(queue')] = i
         /\ Len(queue') = Len(queue) \/ Len(queue') = Len(queue) + 1
         /\ \A k \in 1..(Len(queue') - 1) :
              /\ k + (Len(queue) + 1 - Len(queue')) \in 1..Len(queue)
              /\ queue'[k] = queue[k + (Len(queue) + 1 - Len(queue'))]
         /\ drops' \in Nat
<1>1. queue \in Seq(Buffers) /\ Len(queue) \in Nat /\ Len(queue) <= QueueDepth
  BY LenProperties DEF TypeOK
<1>2. QueueDepth \in Nat \ {0} /\ drops \in Nat
  BY FrameSlotAssumption DEF TypeOK
<1>3. CASE Len(queue) = QueueDepth
  <2>1. queue # << >>
    BY <1>1, <1>2, <1>3, EmptySeq
  <2>2. /\ Tail(queue) \in Seq(Buffers)
        /\ Len(Tail(queue)) = Len(queue) - 1
        /\ \A k \in 1..Len(Tail(queue)) : Tail(queue)[k] = queue[k + 1]
    BY <1>1, <2>1, HeadTailProperties
  <2>3. queue' = Append(Tail(queue), i) /\ drops' = drops + 1
    BY <1>3 DEF Enqueue
  <2>4. /\ queue' \in Seq(Buffers)
        /\ Len(queue') = Len(queue)
        /\ queue'[Len(queue')] = i
        /\ \A k \in 1..(Len(queue') - 1) : queue'[k] = queue[k + 1]
    BY <1>1, <2>2, <2>3, AppendProperties
  <2> QED BY <1>1, <1>2, <1>3, <2>3, <2>4
<1>4. CASE Len(queue) # QueueDepth
  <2>1. queue' = Append(queue, i) /\ drops' = drops
    BY <1>4 DEF Enqueue
  <2>2. /\ queue' \in Seq(Buffers)
        /\ Len(queue') = Len(queue) + 1
        /\ queue'[Len(queue')] = i
        /\ \A k \in 1..(Len(queue') - 1) : queue'[k] = queue[k]
    BY <1>1, <2>1, AppendProperties
  <2> QED BY <1>1, <1>2, <1>4, <2>1, <2>2
<1> QED BY <1>3, <1>4

\* Queueing the producer's buffer keeps the owners apart.
LEMMA EnqueueKeepsApart ==
  ASSUME SlotInv, fill \in Buffers, Enqueue(fill), busy' = busy, fill' = NoIndex
  PROVE  NoSharedBuffer' /\ Queued' \subseteq Queued \cup {fill}
<1> DEFINE shift == Len(queue) + 1 - Len(queue')
<1>1. /\ Len(queue) \in Nat /\ Len(queue') \in Nat
      /\ queue \in Seq(Buffers) /\ queue' \in Seq(Buffers)
  BY EnqueueEffect, LenProperties DEF SlotInv, TypeOK
<1>2. /\ shift \in {0, 1}
      /\ queue'[Len(queue')] = fill
      /\ \A k \in 1..(Len(queue') - 1) :
           k + shift \in 1..Len(queue) /\ queue'[k] = queue[k + shift]
  BY <1>1, EnqueueEffect DEF SlotInv
<1> HIDE DEF shift
<1>3. fill \notin Queued /\ busy \notin Queued /\ (busy = fill => busy = NoIndex)
  BY DEF SlotInv, NoSharedBuffer, OwnersApart
<1>4. \A k \in 1..(Len(queue') - 1) : queue'[k] \in Queued
  BY <1>2 DEF Queued
<1>5. Queued' \subseteq Queued \cup {fill}
  BY <1>1, <1>2, <1>4 DEF Queued
<1>6. QueueHasNoDuplicate'
  <2> SUFFICES ASSUME NEW k \in 1..Len(queue'), NEW l \in 1..Len(queue'),
                      queue'[k] = queue'[l]
               PROVE  k = l
    BY DEF QueueHasNoDuplicate
  <2>1. CASE k = Len(queue') \/ l = Len(queue')
    BY <1>1, <1>2, <1>3, <1>4, <2>1
  <2>2. CASE k # Len(queue') /\ l # Len(queue')
    <3>1. k \in 1..(Len(queue') - 1) /\ l \in 1..(Len(queue') - 1)
      BY <1>1, <2>2
    <3>2. queue[k + shift] = queue[l + shift]
      BY <1>2, <3>1
    <3>3. k + shift = l + shift
      BY <1>2, <3>1, <3>2 DEF SlotInv, NoSharedBuffer, QueueHasNoDuplicate
    <3> QED BY <1>2, <3>1, <3>3
  <2> QED BY <2>1, <2>2
<1>7. OwnersApart'
  <2>1. NoIndex \notin Buffers
    BY DEF Buffers, NoIndex
  <2>2. Queued' \subseteq Buffers
    BY <1>1, ElementOfSeq DEF Queued
  <2> QED BY <1>3, <1>5, <2>1, <2>2 DEF OwnersApart
<1> QED BY <1>5, <1>6, <1>7 DEF NoSharedBuffer

LEMMA InitSlotInv == Init => SlotInv
<1> SUFFICES ASSUME Init PROVE SlotInv
  OBVIOUS
<1>1. Len(queue) = 0 /\ Queued = {} /\ queue \in Seq(Buffers)
  BY EmptySeq DEF Init, Queued
<1>2. TypeOK
  BY <1>1, FrameSlotAssumption DEF Init, TypeOK, Blank, Torn, ProducerStates
<1> QED BY <1>1, <1>2 DEF Init, SlotInv, NoSharedBuffer, QueueHasNoDuplicate,
             OwnersApart, WholeFrames, ProducerOwnsFill

\* Writing the pixels or the stamp of the producer's buffer disturbs nothing
\* that is queued or held.
LEMMA FillIsPrivate ==
  ASSUME SlotInv, fill \in Buffers
  PROVE  fill \notin Queued /\ busy # fill
BY DEF SlotInv, NoSharedBuffer, OwnersApart, Buffers, NoIndex

LEMMA QueuedAreBuffers ==
  ASSUME TypeOK
  PROVE  Queued \subseteq Buffers /\ NoIndex \notin Buffers
<1>1. Queued \subseteq Buffers
  BY ElementOfSeq DEF TypeOK, Queued
<1>2. NoIndex \notin Buffers
  BY DEF Buffers, NoIndex
<1> QED BY <1>1, <1>2

\* Popping the queue, whether one entry (Advance) or all of them (Take).
LEMMA PopKeepsInv ==
  ASSUME SlotInv, queue # << >>,
         UNCHANGED <<fill, stamp, image, seq, drops, producer>>,
         \/ busy' = Head(queue) /\ queue' = Tail(queue)
         \/ busy' = queue[Len(queue)] /\ queue' = << >>
  PROVE  SlotInv' /\ busy' \in Queued
<1>1. queue \in Seq(Buffers) /\ Len(queue) \in Nat \ {0} /\ Len(queue) <= QueueDepth
  BY EmptySeq, LenProperties DEF SlotInv, TypeOK
<1>2. busy' \in Queued /\ queue' \in Seq(Buffers) /\ Len(queue') <= Len(queue)
      /\ Len(queue') \in Nat
      /\ \A k \in 1..Len(queue') : /\ k + 1 \in 1..Len(queue)
                                    /\ queue'[k] = queue[k + 1]
                                    /\ busy' = queue[1]
  <2>1. CASE busy' = Head(queue) /\ queue' = Tail(queue)
    <3>1. Head(queue) = queue[1] /\ 1 \in 1..Len(queue)
      BY <1>1
    <3>2. /\ Tail(queue) \in Seq(Buffers)
          /\ Len(Tail(queue)) = Len(queue) - 1
          /\ \A k \in 1..Len(Tail(queue)) : Tail(queue)[k] = queue[k + 1]
      BY <1>1, HeadTailProperties
    <3> QED BY <1>1, <2>1, <3>1, <3>2 DEF Queued
  <2>2. CASE busy' = queue[Len(queue)] /\ queue' = << >>
    <3>1. Len(queue) \in 1..Len(queue) /\ Len(queue') = 0 /\ queue' \in Seq(Buffers)
      BY <1>1, <2>2, EmptySeq
    <3> QED BY <1>1, <2>2, <3>1 DEF Queued
  <2> QED BY <2>1, <2>2
<1>3. Queued' \subseteq Queued /\ Queued \subseteq Buffers /\ NoIndex \notin Buffers
  BY <1>2, QueuedAreBuffers DEF Queued, SlotInv
<1>4. TypeOK'
  BY <1>1, <1>2, <1>3, FrameSlotAssumption DEF TypeOK, SlotInv
<1>5. QueueHasNoDuplicate'
  BY <1>1, <1>2 DEF QueueHasNoDuplicate, SlotInv, NoSharedBuffer
<1>6. OwnersApart'
  <2>1. busy' \notin Queued'
    <3> SUFFICES ASSUME busy' \in Queued' PROVE FALSE
      OBVIOUS
    <3>1. PICK k \in 1..Len(queue') : busy' = queue'[k]
      BY DEF Queued
    <3>2. queue[k + 1] = queue[1] /\ k + 1 \in 1..Len(queue) /\ 1 \in 1..Len(queue)
      BY <1>1, <1>2, <3>1
    <3>3. k + 1 = 1
      BY <3>2 DEF SlotInv, NoSharedBuffer, QueueHasNoDuplicate
    <3> QED BY <1>2, <3>3
  <2>2. fill' \notin Queued' /\ busy' # fill'
    BY <1>2, <1>3 DEF SlotInv, NoSharedBuffer, OwnersApart
  <2> QED BY <2>1, <2>2 DEF OwnersApart
<1>7. WholeFrames'
  BY <1>2, <1>3 DEF SlotInv, WholeFrames
<1>8. ProducerOwnsFill'
  BY DEF SlotInv, ProducerOwnsFill
<1> QED BY <1>2, <1>4, <1>5, <1>6, <1>7, <1>8 DEF SlotInv, NoSharedBuffer

\* A producer step that leaves the queue and the owners alone only has to keep
\* the types and the producer's own buffer.
LEMMA FillStepKeepsInv ==
  ASSUME SlotInv, fill \in Buffers, UNCHANGED <<queue, busy, fill>>,
         TypeOK', ProducerOwnsFill',
         \A i \in Buffers \ {fill} : stamp'[i] = stamp[i] /\ image'[i] = image[i]
  PROVE  SlotInv'
<1>1. Queued' = Queued /\ Queued \subseteq Buffers /\ NoIndex \notin Buffers
  BY QueuedAreBuffers DEF Queued, SlotInv
<1>2. fill \notin Queued /\ busy # fill /\ busy \in Buffers \cup {NoIndex}
  BY FillIsPrivate DEF SlotInv, TypeOK
<1>3. NoSharedBuffer'
  BY <1>1 DEF SlotInv, NoSharedBuffer, QueueHasNoDuplicate, OwnersApart
<1>4. WholeFrames'
  BY <1>1, <1>2 DEF SlotInv, WholeFrames
<1> QED BY <1>3, <1>4 DEF SlotInv

\* Reserving a buffer, for Prepare or for Publish.
LEMMA ReserveKeepsInv ==
  ASSUME SlotInv, producer = "idle", fill' = Reserve,
         producer' \in {"reserved", "publishing"},
         UNCHANGED <<queue, busy, stamp, image, seq, drops>>
  PROVE  SlotInv'
<1>1. Reserve \in Free /\ NoIndex \notin Buffers
  BY ReserveIsFree, QueuedAreBuffers DEF SlotInv, ProducerOwnsFill
<1>2. fill' \in Buffers /\ fill' \notin Queued /\ fill' # busy
  BY <1>1 DEF Free
<1>3. TypeOK'
  BY <1>2 DEF SlotInv, TypeOK, ProducerStates
<1>4. NoSharedBuffer' /\ WholeFrames'
  BY <1>2 DEF SlotInv, NoSharedBuffer, QueueHasNoDuplicate, OwnersApart, Queued,
               WholeFrames
<1>5. ProducerOwnsFill'
  BY <1>1, <1>2 DEF ProducerOwnsFill
<1> QED BY <1>3, <1>4, <1>5 DEF SlotInv

\* Giving the producer's buffer up without queueing it.
LEMMA AbortKeepsInv == SlotInv /\ Abort => SlotInv'
<1> SUFFICES ASSUME SlotInv, Abort PROVE SlotInv'
  OBVIOUS
<1>1. Queued' = Queued /\ Queued \subseteq Buffers /\ NoIndex \notin Buffers
  BY QueuedAreBuffers DEF Abort, Queued, SlotInv
<1>2. TypeOK'
  BY DEF SlotInv, TypeOK, Abort, ProducerStates
<1>3. NoSharedBuffer' /\ WholeFrames'
  BY <1>1 DEF SlotInv, NoSharedBuffer, QueueHasNoDuplicate, OwnersApart, Abort,
              WholeFrames
<1>4. ProducerOwnsFill'
  BY DEF Abort, ProducerOwnsFill
<1> QED BY <1>2, <1>3, <1>4 DEF SlotInv

\* Queueing the producer's buffer, once its pixels and its stamp agree.
LEMMA QueueFillKeepsInv ==
  ASSUME SlotInv, fill \in Buffers, Enqueue(fill), fill' = NoIndex, producer' = "idle",
         UNCHANGED <<busy, image>>,
         stamp' \in [Buffers -> Nat], seq' \in Nat,
         \A i \in Buffers \ {fill} : stamp'[i] = stamp[i],
         image[fill] = stamp'[fill], stamp'[fill] > 0
  PROVE  SlotInv'
<1>1. NoSharedBuffer' /\ Queued' \subseteq Queued \cup {fill}
  BY EnqueueKeepsApart
<1>2. Queued \subseteq Buffers /\ NoIndex \notin Buffers
  BY QueuedAreBuffers DEF SlotInv
<1>3. fill \notin Queued /\ busy # fill /\ busy \in Buffers \cup {NoIndex}
  BY FillIsPrivate DEF SlotInv, TypeOK
<1>4. TypeOK'
  <2>1. queue' \in Seq(Buffers) /\ Len(queue') <= QueueDepth /\ drops' \in Nat
    BY EnqueueEffect, FrameSlotAssumption DEF SlotInv
  <2> QED BY <2>1 DEF SlotInv, TypeOK, ProducerStates
<1>5. WholeFrames'
  BY <1>1, <1>2, <1>3 DEF SlotInv, WholeFrames
<1>6. ProducerOwnsFill'
  BY DEF ProducerOwnsFill
<1> QED BY <1>1, <1>4, <1>5, <1>6 DEF SlotInv

\* One step per action of Next.
LEMMA NextSlotInv == SlotInv /\ [Next]_vars => SlotInv'
<1> SUFFICES ASSUME SlotInv, [Next]_vars PROVE SlotInv'
  OBVIOUS
<1> USE DEF ProducerStates
<1>0. producer # "idle" => fill \in Buffers
  BY DEF SlotInv, TypeOK, ProducerOwnsFill
<1>1. CASE PrepareReserve
  BY <1>1, ReserveKeepsInv DEF PrepareReserve
<1>2. CASE PrepareReuse
  <2>1. fill \in Buffers /\ UNCHANGED <<queue, busy, fill, stamp, image, seq, drops>>
    BY <1>0, <1>2 DEF PrepareReuse
  <2>2. TypeOK' /\ ProducerOwnsFill'
    BY <1>2 DEF PrepareReuse, SlotInv, TypeOK, ProducerOwnsFill
  <2> QED BY <2>1, <2>2, FillStepKeepsInv
<1>3. CASE PrepareAllocate
  <2>1. fill \in Buffers /\ UNCHANGED <<queue, busy, fill>>
    BY <1>0, <1>3 DEF PrepareAllocate
  <2>2. /\ TypeOK' /\ ProducerOwnsFill'
        /\ \A i \in Buffers \ {fill} : stamp'[i] = stamp[i] /\ image'[i] = image[i]
    BY <1>3 DEF PrepareAllocate, SlotInv, TypeOK, ProducerOwnsFill
  <2> QED BY <2>1, <2>2, FillStepKeepsInv
<1>4. CASE CopyBegin
  <2>1. fill \in Buffers /\ UNCHANGED <<queue, busy, fill>>
    BY <1>0, <1>4 DEF CopyBegin
  <2>2. /\ TypeOK' /\ ProducerOwnsFill'
        /\ \A i \in Buffers \ {fill} : stamp'[i] = stamp[i] /\ image'[i] = image[i]
    BY <1>4 DEF CopyBegin, SlotInv, TypeOK, ProducerOwnsFill
  <2> QED BY <2>1, <2>2, FillStepKeepsInv
<1>5. CASE CopyEnd
  <2>1. fill \in Buffers /\ UNCHANGED <<queue, busy, fill>>
    BY <1>0, <1>5 DEF CopyEnd
  <2>2. /\ TypeOK' /\ ProducerOwnsFill'
        /\ \A i \in Buffers \ {fill} : stamp'[i] = stamp[i] /\ image'[i] = image[i]
    BY <1>5, <2>1 DEF CopyEnd, SlotInv, TypeOK, ProducerOwnsFill
  <2> QED BY <2>1, <2>2, FillStepKeepsInv
<1>6. CASE Commit
  <2>1. fill \in Buffers /\ image[fill] = seq + 1
    BY <1>0, <1>6 DEF Commit, SlotInv, ProducerOwnsFill
  <2>2. /\ stamp' \in [Buffers -> Nat] /\ seq' \in Nat /\ stamp'[fill] = seq + 1
        /\ \A i \in Buffers \ {fill} : stamp'[i] = stamp[i]
        /\ seq + 1 > 0
    BY <1>6, <2>1 DEF Commit, SlotInv, TypeOK
  <2> QED BY <1>6, <2>1, <2>2, QueueFillKeepsInv DEF Commit
<1>7. CASE Abort
  BY <1>7, AbortKeepsInv
<1>8. CASE PublishReserve
  BY <1>8, ReserveKeepsInv DEF PublishReserve
<1>9. CASE PublishCopy
  <2>1. fill \in Buffers /\ UNCHANGED <<queue, busy, fill>>
    BY <1>0, <1>9 DEF PublishCopy
  <2>2. /\ TypeOK' /\ ProducerOwnsFill'
        /\ \A i \in Buffers \ {fill} : stamp'[i] = stamp[i] /\ image'[i] = image[i]
    BY <1>9 DEF PublishCopy, SlotInv, TypeOK, ProducerOwnsFill
  <2> QED BY <2>1, <2>2, FillStepKeepsInv
<1>10. CASE PublishStamp
  <2>1. fill \in Buffers /\ UNCHANGED <<queue, busy, fill>>
    BY <1>0, <1>10 DEF PublishStamp
  <2>2. /\ TypeOK' /\ ProducerOwnsFill'
        /\ \A i \in Buffers \ {fill} : stamp'[i] = stamp[i] /\ image'[i] = image[i]
    BY <1>10, <2>1 DEF PublishStamp, SlotInv, TypeOK, ProducerOwnsFill
  <2> QED BY <2>1, <2>2, FillStepKeepsInv
<1>11. CASE PublishQueue
  <2>1. /\ fill \in Buffers
        /\ image[fill] = seq /\ stamp[fill] = seq /\ seq > 0
    BY <1>0, <1>11 DEF PublishQueue, SlotInv, ProducerOwnsFill
  <2>2. stamp \in [Buffers -> Nat] /\ seq \in Nat
    BY DEF SlotInv, TypeOK
  <2> QED BY <1>11, <2>1, <2>2, QueueFillKeepsInv DEF PublishQueue
<1>12. CASE Advance
  BY <1>12, PopKeepsInv DEF Advance
<1>13. CASE Take
  BY <1>13, PopKeepsInv DEF Take
<1>14. CASE UNCHANGED vars
  BY <1>14 DEF vars, SlotInv, TypeOK, NoSharedBuffer, QueueHasNoDuplicate, OwnersApart,
               Queued, WholeFrames, ProducerOwnsFill
<1> QED BY <1>1, <1>2, <1>3, <1>4, <1>5, <1>6, <1>7, <1>8, <1>9, <1>10, <1>11, <1>12,
           <1>13, <1>14 DEF Next, Produce, Consume

LEMMA SlotInvHolds == Spec => []SlotInv
BY InitSlotInv, NextSlotInv, PTL DEF Spec

\* Every variable of the slot keeps its type, and the queue its bound.
THEOREM SlotTypeCorrect == Spec => []TypeOK
<1>1. SlotInv => TypeOK
  BY DEF SlotInv
<1> QED BY <1>1, SlotInvHolds, PTL

\* reserveLocked never hands the producer a buffer that is queued or being read,
\* whatever the depth of the queue: its last line really is unreachable.
THEOREM BuffersNeverShared == Spec => []NoSharedBuffer
<1>1. SlotInv => NoSharedBuffer
  BY DEF SlotInv
<1> QED BY <1>1, SlotInvHolds, PTL

\* The renderer never sees a picture that is half written or was aborted.
THEOREM RendererSeesWholeFrames == Spec => []WholeFrames
<1>1. SlotInv => WholeFrames
  BY DEF SlotInv
<1> QED BY <1>1, SlotInvHolds, PTL

\* A buffer the renderer keeps is never written.
THEOREM HeldFrameNeverChanges == Spec => HeldFrameIsStable
<1>1. SlotInv /\ [Next]_vars =>
        (busy # NoIndex /\ busy' = busy
           => image'[busy] = image[busy] /\ stamp'[busy] = stamp[busy])
  <2> SUFFICES ASSUME SlotInv, [Next]_vars, busy # NoIndex
               PROVE  image'[busy] = image[busy] /\ stamp'[busy] = stamp[busy]
    OBVIOUS
  <2>1. busy # fill
    BY DEF SlotInv, NoSharedBuffer, OwnersApart
  <2>2. image \in [Buffers -> Nat \cup {Torn}] /\ stamp \in [Buffers -> Nat]
        /\ busy \in Buffers
    BY DEF SlotInv, TypeOK
  <2>3. CASE Produce
    BY <2>1, <2>2, <2>3
      DEF Produce, PrepareReserve, PrepareReuse, PrepareAllocate, CopyBegin, CopyEnd,
          Commit, Abort, PublishReserve, PublishCopy, PublishStamp, PublishQueue
  <2>4. CASE Consume
    BY <2>4 DEF Consume, Advance, Take
  <2>5. CASE UNCHANGED vars
    BY <2>5 DEF vars
  <2> QED BY <2>3, <2>4, <2>5 DEF Next
<1> QED BY <1>1, SlotInvHolds, PTL DEF Spec, HeldFrameIsStable

-----------------------------------------------------------------------------
(* The pool of buffers implements the queue of frames.                     *)

\* The frames that wait, as the refinement mapping reads them off the buffers.
FramesOf(q, st) == [k \in 1..Len(q) |-> st[q[k]]]
Pending == FramesOf(queue, stamp)

LEMMA FramesOfIsSequence ==
  ASSUME NEW q \in Seq(Buffers), NEW st \in [Buffers -> Nat]
  PROVE  /\ FramesOf(q, st) \in Seq(Nat) /\ Len(FramesOf(q, st)) = Len(q)
         /\ Len(q) \in Nat
         /\ \A k \in 1..Len(q) : /\ q[k] \in Buffers
                                 /\ FramesOf(q, st)[k] = st[q[k]]
<1>1. Len(q) \in Nat
  BY LenProperties
<1>2. \A k \in 1..Len(q) : q[k] \in Buffers /\ st[q[k]] \in Nat
  BY <1>1, ElementOfSeq
<1>3. FramesOf(q, st) \in Seq(Nat)
  BY <1>1, <1>2, IsASeq DEF FramesOf
<1>4. Len(FramesOf(q, st)) = Len(q)
  BY <1>1, <1>3, LenProperties DEF FramesOf
<1> QED BY <1>1, <1>2, <1>3, <1>4 DEF FramesOf

\* A step that keeps the queue and writes at most the producer's stamp leaves the
\* waiting frames and the frame on screen as they were.
LEMMA PendingUnchanged ==
  ASSUME SlotInv, UNCHANGED <<queue, busy>>,
         \A i \in Buffers \ {fill} : stamp'[i] = stamp[i]
  PROVE  Pending' = Pending /\ (busy # NoIndex => stamp'[busy] = stamp[busy])
<1>1. Queued \subseteq Buffers /\ fill \notin Queued /\ (busy = fill => busy = NoIndex)
  BY QueuedAreBuffers DEF SlotInv, NoSharedBuffer, OwnersApart
<1>2. \A k \in 1..Len(queue) : stamp'[queue[k]] = stamp[queue[k]]
  BY <1>1 DEF Queued
<1> QED BY <1>1, <1>2 DEF Pending, FramesOf, SlotInv, TypeOK

\* Queueing the buffer whose stamp is the next frame offers that frame.
LEMMA EnqueueOffers ==
  ASSUME SlotInv, SlotInv', fill \in Buffers, Enqueue(fill), UNCHANGED busy,
         \A i \in Buffers \ {fill} : stamp'[i] = stamp[i],
         NEW n \in Nat, stamp'[fill] = n
  PROVE  /\ IF Len(Pending) = QueueDepth
              THEN Pending' = Append(Tail(Pending), n) /\ drops' = drops + 1
              ELSE Pending' = Append(Pending, n) /\ drops' = drops
         /\ busy # NoIndex => stamp'[busy] = stamp[busy]
<1>1. /\ Pending \in Seq(Nat) /\ Len(Pending) = Len(queue) /\ Len(queue) \in Nat
      /\ Pending' \in Seq(Nat) /\ Len(Pending') = Len(queue') /\ Len(queue') \in Nat
      /\ \A k \in 1..Len(queue) : queue[k] \in Buffers /\ Pending[k] = stamp[queue[k]]
      /\ \A k \in 1..Len(queue') : Pending'[k] = stamp'[queue'[k]]
      /\ queue \in Seq(Buffers)
  BY FramesOfIsSequence DEF SlotInv, TypeOK, Pending
<1>2. fill \notin Queued /\ (busy = fill => busy = NoIndex)
  BY DEF SlotInv, NoSharedBuffer, OwnersApart
<1>3. \A k \in 1..Len(queue) : stamp'[queue[k]] = Pending[k]
  BY <1>1, <1>2 DEF Queued
<1>4. QueueDepth \in Nat \ {0}
  BY FrameSlotAssumption
<1>5. CASE Len(queue) = QueueDepth
  <2>1. /\ Tail(queue) \in Seq(Buffers) /\ Len(Tail(queue)) = Len(queue) - 1
        /\ \A k \in 1..(Len(queue) - 1) : Tail(queue)[k] = queue[k + 1]
        /\ Tail(Pending) \in Seq(Nat) /\ Len(Tail(Pending)) = Len(queue) - 1
        /\ \A k \in 1..(Len(queue) - 1) : Tail(Pending)[k] = Pending[k + 1]
    BY <1>1, <1>4, <1>5, HeadTailProperties, EmptySeq
  <2>2. queue' = Append(Tail(queue), fill) /\ drops' = drops + 1
    BY <1>5 DEF Enqueue
  <2> DEFINE Q == Append(Tail(Pending), n)
  <2>3. /\ Q \in Seq(Nat) /\ Len(Q) = Len(queue) /\ Q[Len(queue)] = n
        /\ \A k \in 1..(Len(queue) - 1) : Q[k] = Pending[k + 1]
    BY <1>1, <2>1, AppendProperties
  <2>4. /\ Len(queue') = Len(queue) /\ queue'[Len(queue)] = fill
        /\ \A k \in 1..(Len(queue) - 1) : queue'[k] = queue[k + 1]
    BY <1>1, <2>1, <2>2, AppendProperties
  <2> HIDE DEF Q
  <2>5. \A k \in 1..Len(queue) : Pending'[k] = Q[k]
    <3> TAKE k \in 1..Len(queue)
    <3>1. Pending'[k] = stamp'[queue'[k]]
      BY <1>1, <2>4
    <3>2. CASE k = Len(queue)
      BY <2>3, <2>4, <3>1, <3>2
    <3>3. CASE k # Len(queue)
      <4>1. k \in 1..(Len(queue) - 1) /\ k + 1 \in 1..Len(queue)
        BY <1>1, <3>3
      <4>2. stamp'[queue[k + 1]] = Pending[k + 1]
        BY <1>3, <4>1
      <4> QED BY <2>3, <2>4, <3>1, <4>1, <4>2
    <3> QED BY <3>2, <3>3
  <2>6. Pending' = Q
    BY <1>1, <2>3, <2>4, <2>5, SeqEqual
  <2> QED BY <1>1, <1>2, <1>5, <2>2, <2>6 DEF SlotInv, TypeOK, Q
<1>6. CASE Len(queue) # QueueDepth
  <2>2. queue' = Append(queue, fill) /\ drops' = drops
    BY <1>6 DEF Enqueue
  <2> DEFINE Q == Append(Pending, n)
  <2>3. /\ Q \in Seq(Nat) /\ Len(Q) = Len(queue) + 1 /\ Q[Len(queue) + 1] = n
        /\ \A k \in 1..Len(queue) : Q[k] = Pending[k]
    BY <1>1, AppendProperties
  <2>4. /\ Len(queue') = Len(queue) + 1 /\ queue'[Len(queue) + 1] = fill
        /\ \A k \in 1..Len(queue) : queue'[k] = queue[k]
    BY <1>1, <2>2, AppendProperties
  <2> HIDE DEF Q
  <2>5. \A k \in 1..(Len(queue) + 1) : Pending'[k] = Q[k]
    <3> TAKE k \in 1..(Len(queue) + 1)
    <3>1. Pending'[k] = stamp'[queue'[k]]
      BY <1>1, <2>4
    <3>2. CASE k = Len(queue) + 1
      BY <2>3, <2>4, <3>1, <3>2
    <3>3. CASE k # Len(queue) + 1
      <4>1. k \in 1..Len(queue)
        BY <1>1, <3>3
      <4>2. stamp'[queue[k]] = Pending[k]
        BY <1>3, <4>1
      <4> QED BY <2>3, <2>4, <3>1, <4>1, <4>2
    <3> QED BY <3>2, <3>3
  <2>6. Pending' = Q
    BY <1>1, <2>3, <2>4, <2>5, SeqEqual
  <2> QED BY <1>1, <1>2, <1>6, <2>2, <2>6 DEF SlotInv, TypeOK, Q
<1> QED BY <1>5, <1>6

\* The mapped variables, named so that the steps below can speak of them.
Shown == IF busy = NoIndex THEN 0 ELSE stamp[busy]

LEMMA MappedOffer ==
  ASSUME SlotInv, SlotInv', fill \in Buffers, Enqueue(fill), UNCHANGED busy,
         \A i \in Buffers \ {fill} : stamp'[i] = stamp[i],
         Offered \in Nat, Offered' = Offered + 1, stamp'[fill] = Offered + 1
  PROVE  Queue!Offer
<1>1. /\ IF Len(Pending) = QueueDepth
            THEN Pending' = Append(Tail(Pending), Offered + 1) /\ drops' = drops + 1
            ELSE Pending' = Append(Pending, Offered + 1) /\ drops' = drops
      /\ busy # NoIndex => stamp'[busy] = stamp[busy]
  BY EnqueueOffers
<1>2. Shown' = Shown
  BY <1>1 DEF Shown
<1> QED BY <1>1, <1>2 DEF Queue!Offer, Pending, FramesOf, Shown

LEMMA MappedStutter ==
  ASSUME SlotInv, UNCHANGED <<queue, busy, drops>>, Offered' = Offered,
         \A i \in Buffers \ {fill} : stamp'[i] = stamp[i]
  PROVE  UNCHANGED Queue!queueVars
<1>1. Pending' = Pending /\ (busy # NoIndex => stamp'[busy] = stamp[busy])
  BY PendingUnchanged
<1>2. Shown' = Shown
  BY <1>1 DEF Shown
<1> QED BY <1>1, <1>2 DEF Queue!queueVars, Pending, FramesOf, Shown

LEMMA MappedPop ==
  ASSUME SlotInv, Consume
  PROVE  Queue!ShowOldest \/ Queue!ShowNewest
<1>1. /\ queue \in Seq(Buffers) /\ stamp \in [Buffers -> Nat] /\ queue # << >>
      /\ UNCHANGED <<stamp, seq, drops, producer>>
  BY DEF SlotInv, TypeOK, Consume, Advance, Take
<1>2. /\ Pending \in Seq(Nat) /\ Len(Pending) = Len(queue) /\ Len(queue) \in Nat \ {0}
      /\ \A k \in 1..Len(queue) : queue[k] \in Buffers /\ Pending[k] = stamp[queue[k]]
  BY <1>1, FramesOfIsSequence, EmptySeq DEF Pending
<1>3. Pending # << >> /\ Offered' = Offered
  BY <1>1, <1>2, EmptySeq DEF Offered
<1>4. NoIndex \notin Buffers
  BY QueuedAreBuffers DEF SlotInv
<1>5. CASE Advance
  <2>1. busy' = queue[1] /\ queue' = Tail(queue)
    BY <1>1, <1>5 DEF Advance
  <2>2. Shown' = Head(Pending)
    BY <1>1, <1>2, <1>3, <1>4, <2>1 DEF Shown
  <2>3. /\ Tail(queue) \in Seq(Buffers) /\ Len(Tail(queue)) = Len(queue) - 1
        /\ \A k \in 1..(Len(queue) - 1) : Tail(queue)[k] = queue[k + 1]
    BY <1>1, <1>2, HeadTailProperties
  <2>4. /\ Tail(Pending) \in Seq(Nat) /\ Len(Tail(Pending)) = Len(queue) - 1
        /\ \A k \in 1..(Len(queue) - 1) : Tail(Pending)[k] = Pending[k + 1]
    BY <1>2, <1>3, HeadTailProperties
  <2>5. /\ FramesOf(Tail(queue), stamp) \in Seq(Nat)
        /\ Len(FramesOf(Tail(queue), stamp)) = Len(queue) - 1
        /\ \A k \in 1..(Len(queue) - 1) :
              FramesOf(Tail(queue), stamp)[k] = stamp[Tail(queue)[k]]
    BY <1>1, <2>3, FramesOfIsSequence
  <2>6. \A k \in 1..(Len(queue) - 1) : FramesOf(Tail(queue), stamp)[k] = Tail(Pending)[k]
    <3> TAKE k \in 1..(Len(queue) - 1)
    <3>1. k + 1 \in 1..Len(queue)
      BY <1>2
    <3> QED BY <1>2, <2>3, <2>4, <2>5, <3>1
  <2>7. FramesOf(Tail(queue), stamp) = Tail(Pending)
    BY <2>4, <2>5, <2>6, SeqEqual
  <2>8. Pending' = Tail(Pending)
    BY <1>1, <2>1, <2>7 DEF Pending
  <2> QED BY <1>1, <1>3, <2>2, <2>8
           DEF Queue!ShowOldest, Pending, FramesOf, Shown
<1>6. CASE Take
  <2>1. busy' = queue[Len(queue)] /\ queue' = << >>
    BY <1>6 DEF Take
  <2>2. Shown' = Pending[Len(Pending)]
    BY <1>1, <1>2, <1>4, <2>1 DEF Shown
  <2>3. Pending' = << >>
    <3>1. << >> \in Seq(Buffers) /\ Len(<< >>) = 0
      BY EmptySeq
    <3>2. Len(FramesOf(<< >>, stamp)) = 0 /\ FramesOf(<< >>, stamp) \in Seq(Nat)
      BY <1>1, <3>1, FramesOfIsSequence
    <3>3. FramesOf(<< >>, stamp) = << >>
      BY <3>2, EmptySeq
    <3> QED BY <1>1, <2>1, <3>3 DEF Pending
  <2> QED BY <1>1, <1>3, <2>2, <2>3
           DEF Queue!ShowNewest, Pending, FramesOf, Shown
<1> QED BY <1>5, <1>6 DEF Consume

LEMMA InitMapped == Init => Queue!QueueInit
<1> SUFFICES ASSUME Init PROVE Queue!QueueInit
  OBVIOUS
<1>1. queue \in Seq(Buffers) /\ stamp \in [Buffers -> Nat] /\ Len(queue) = 0
  BY EmptySeq DEF Init
<1>2. FramesOf(queue, stamp) \in Seq(Nat) /\ Len(FramesOf(queue, stamp)) = 0
  BY <1>1, FramesOfIsSequence
<1>3. FramesOf(queue, stamp) = << >>
  BY <1>2, EmptySeq
<1> QED BY <1>3 DEF Init, Queue!QueueInit, FramesOf, Offered

\* Every step of the slot is a step of the queue of frames or changes none of it.
LEMMA NextMapped ==
  SlotInv /\ SlotInv' /\ [Next]_vars => [Queue!QueueNext]_(Queue!queueVars)
<1> SUFFICES ASSUME SlotInv, SlotInv', [Next]_vars
             PROVE  Queue!QueueNext \/ UNCHANGED Queue!queueVars
  OBVIOUS
<1>0. /\ producer # "idle" => fill \in Buffers
      /\ seq \in Nat /\ stamp \in [Buffers -> Nat]
  BY DEF SlotInv, TypeOK, ProducerOwnsFill
<1>1. CASE PrepareReserve \/ PrepareReuse \/ PrepareAllocate \/ CopyBegin \/ CopyEnd
           \/ Abort \/ PublishReserve \/ PublishCopy
  <2>1. /\ UNCHANGED <<queue, busy, drops, seq>>
        /\ \A i \in Buffers \ {fill} : stamp'[i] = stamp[i]
        /\ producer # "stamped" /\ producer' # "stamped"
    BY <1>0, <1>1 DEF PrepareReserve, PrepareReuse, PrepareAllocate, CopyBegin, CopyEnd,
         Abort, PublishReserve, PublishCopy
  <2>2. Offered' = Offered
    BY <2>1 DEF Offered
  <2> QED BY <2>1, <2>2, MappedStutter
<1>2. CASE PublishStamp
  <2>1. /\ UNCHANGED <<queue, busy, drops>> /\ seq' = seq + 1
        /\ \A i \in Buffers \ {fill} : stamp'[i] = stamp[i]
        /\ producer = "writing" /\ producer' = "stamped"
    BY <1>0, <1>2 DEF PublishStamp
  <2>2. Offered' = Offered
    BY <1>0, <2>1 DEF Offered
  <2> QED BY <2>1, <2>2, MappedStutter
<1>3. CASE Commit
  <2>1. /\ Enqueue(fill) /\ UNCHANGED busy /\ seq' = seq + 1
        /\ fill \in Buffers /\ stamp'[fill] = seq + 1
        /\ \A i \in Buffers \ {fill} : stamp'[i] = stamp[i]
        /\ producer = "copied" /\ producer' = "idle"
    BY <1>0, <1>3 DEF Commit
  <2>2. Offered = seq /\ Offered' = seq + 1
    BY <2>1 DEF Offered
  <2> QED BY <1>0, <2>1, <2>2, MappedOffer DEF Queue!QueueNext
<1>4. CASE PublishQueue
  <2>1. /\ Enqueue(fill) /\ UNCHANGED <<busy, stamp, seq>>
        /\ fill \in Buffers /\ stamp[fill] = seq /\ seq > 0
        /\ producer = "stamped" /\ producer' = "idle"
    BY <1>0, <1>4 DEF PublishQueue, SlotInv, ProducerOwnsFill
  <2>2. Offered = seq - 1 /\ Offered' = seq
    BY <2>1 DEF Offered
  <2>3. Offered \in Nat /\ Offered' = Offered + 1 /\ stamp'[fill] = Offered + 1
    BY <1>0, <2>1, <2>2
  <2> QED BY <2>1, <2>3, MappedOffer DEF Queue!QueueNext
<1>5. CASE Consume
  BY <1>5, MappedPop DEF Queue!QueueNext
<1>6. CASE UNCHANGED vars
  <2>1. UNCHANGED <<queue, busy, drops, stamp, seq, producer>>
    BY <1>6 DEF vars
  <2>2. Offered' = Offered
    BY <2>1 DEF Offered
  <2> QED BY <2>1, <2>2, MappedStutter
<1> QED BY <1>1, <1>2, <1>3, <1>4, <1>5, <1>6 DEF Next, Produce

\* The slot, with its pool of buffers and copies outside the mutex, is a bounded
\* queue of frames that drops its oldest entry: for every depth, the abstract
\* specification holds of it.
THEOREM SlotImplementsQueue == Spec => ImplementsPresentationQueue
BY InitMapped, NextMapped, SlotInvHolds, PTL
   DEF Spec, ImplementsPresentationQueue, Queue!QueueSpec
=============================================================================
