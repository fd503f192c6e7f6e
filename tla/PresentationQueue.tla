-------------------------- MODULE PresentationQueue --------------------------
(***************************************************************************)
(* What a frame slot promises (internal/frame/slot.go, the comment of type *)
(* Slot): a bounded queue of decoded frames, oldest first, that drops its  *)
(* oldest entry when it is full, so that a renderer that falls behind      *)
(* loses frames instead of accruing latency.  Nothing here speaks of       *)
(* buffers, of the mutex or of copying: a frame is the number it was       *)
(* stamped with, and every operation is one step.                          *)
(***************************************************************************)
EXTENDS Integers, Sequences

CONSTANT QueueDepth     \* how many frames may wait for presentation

ASSUME QueueDepthAssumption == QueueDepth \in Nat \ {0}

VARIABLES
  offered,  \* number of frames offered so far; also the newest frame
  pending,  \* the frames waiting for presentation, oldest first
  shown,    \* the frame the consumer holds, 0 before the first
  drops     \* frames dropped because the consumer fell behind

queueVars == <<offered, pending, shown, drops>>

QueueInit ==
  /\ offered = 0
  /\ pending = << >>
  /\ shown = 0
  /\ drops = 0

\* Mutants: a queue that grows without bound, and one that keeps its oldest
\* frames and refuses the new one.
OfferUnbounded ==
  /\ offered' = offered + 1
  /\ pending' = Append(pending, offered + 1)
  /\ UNCHANGED <<shown, drops>>
OfferDropNewest ==
  /\ offered' = offered + 1
  /\ IF Len(pending) = QueueDepth
       THEN drops' = drops + 1 /\ UNCHANGED pending
       ELSE pending' = Append(pending, offered + 1) /\ UNCHANGED drops
  /\ UNCHANGED shown

\* The producer adds the next frame; a full queue gives up its oldest one.
Offer ==
  /\ offered' = offered + 1
  /\ IF Len(pending) = QueueDepth
       THEN /\ pending' = Append(Tail(pending), offered + 1)
            /\ drops' = drops + 1
       ELSE /\ pending' = Append(pending, offered + 1)
            /\ UNCHANGED drops
  /\ UNCHANGED shown

\* The consumer moves on to the oldest waiting frame.
ShowOldest ==
  /\ pending # << >>
  /\ shown' = Head(pending)
  /\ pending' = Tail(pending)
  /\ UNCHANGED <<offered, drops>>

\* The consumer jumps to the newest waiting frame and forgets the others.
ShowNewest ==
  /\ pending # << >>
  /\ shown' = pending[Len(pending)]
  /\ pending' = << >>
  /\ UNCHANGED <<offered, drops>>

QueueNext == Offer \/ ShowOldest \/ ShowNewest

QueueSpec == QueueInit /\ [][QueueNext]_queueVars

\* Waiting frames are the most recent ones, with no gap, and all of them are
\* newer than the frame on screen.
PendingIsFresh ==
  /\ \A k \in 1..Len(pending) : pending[k] = offered - Len(pending) + k
  /\ shown <= offered - Len(pending)
=============================================================================
