------------------------------ MODULE FrameSlot ------------------------------
(***************************************************************************)
(* The presentation queue between one decode worker (the producer) and the *)
(* render thread (the consumer): internal/frame/slot.go.                   *)
(*                                                                         *)
(* The slot owns a pool of QueueDepth + 2 buffers and hands out indices    *)
(* into it: `queue' holds the indices waiting for presentation, `fill' the *)
(* one the producer writes, `busy' the one the consumer reads.  The mutex  *)
(* covers index bookkeeping only, so the copy of the pixels (CopyBegin,    *)
(* CopyEnd) interleaves with everything the consumer does, and one         *)
(* critical section of the code is one action here.                        *)
(*                                                                         *)
(* A picture is abstracted to the number of the frame it shows, Torn while *)
(* it is being written (or after an aborted write), Blank when the buffer  *)
(* was never allocated.                                                    *)
(***************************************************************************)
EXTENDS Integers, Sequences

CONSTANTS
  QueueDepth,  \* const QueueDepth (6 in the code)
  MaxSeq       \* bound of the model: how many frames are produced

ASSUME FrameSlotAssumption == QueueDepth \in Nat \ {0} /\ MaxSeq \in Nat

VARIABLES
  queue,   \* Slot.queue: buffer indices, oldest first
  busy,    \* Slot.busy: index handed to the consumer, or NoIndex
  fill,    \* Slot.fill: index the producer is writing, or NoIndex
  stamp,   \* stamp[i]: Seq of the frame in bufs[i]
  image,   \* image[i]: the picture the pixels of bufs[i] show
  seq,     \* Slot.seq
  drops,   \* Slot.drops
  producer \* where the producer stands in Prepare/Commit or in Publish

vars == <<queue, busy, fill, stamp, image, seq, drops, producer>>

\* Mutant: no buffer to spare for the producer.
PoolWithoutSpare == QueueDepth + 1

PoolSize == QueueDepth + 2
Buffers == 0..(PoolSize - 1)
NoIndex == -1
Blank == 0
Torn == -1

ProducerStates ==
  {"idle",
   "reserved", "prepared", "copying", "copied",  \* Prepare, copy, then Commit
   "publishing", "writing", "stamped"}           \* Publish

Queued == {queue[k] : k \in 1..Len(queue)}

\* Mutants: a reservation that overlooks one of the three owners.
FreeButRead == {i \in Buffers : i # fill /\ i \notin Queued}
FreeButQueued == {i \in Buffers : i # busy /\ i # fill}

\* reserveLocked: the first buffer that is neither queued, nor read, nor
\* written.  0 is the fallback the code calls unreachable.
Free == {i \in Buffers : i # busy /\ i # fill /\ i \notin Queued}
Reserve ==
  IF Free = {} THEN 0 ELSE CHOOSE i \in Free : \A j \in Free : i <= j

Init ==
  /\ queue = << >>
  /\ busy = NoIndex
  /\ fill = NoIndex
  /\ stamp = [i \in Buffers |-> 0]
  /\ image = [i \in Buffers |-> Blank]
  /\ seq = 0
  /\ drops = 0
  /\ producer = "idle"

-----------------------------------------------------------------------------
(* The producer: Prepare, copy, Commit or Abort (ingest publishToSlot).    *)

\* Prepare, first critical section.
PrepareReserve ==
  /\ producer = "idle" /\ seq < MaxSeq
  /\ fill' = Reserve
  /\ producer' = "reserved"
  /\ UNCHANGED <<queue, busy, stamp, image, seq, drops>>

\* Prepare keeps the reserved buffer when it fits the frame ...
PrepareReuse ==
  /\ producer = "reserved"
  /\ image[fill] # Blank
  /\ producer' = "prepared"
  /\ UNCHANGED <<queue, busy, fill, stamp, image, seq, drops>>

\* ... and otherwise (no buffer yet, or another geometry) installs a new one.
PrepareAllocate ==
  /\ producer = "reserved"
  /\ image' = [image EXCEPT ![fill] = Torn]
  /\ stamp' = [stamp EXCEPT ![fill] = 0]
  /\ producer' = "prepared"
  /\ UNCHANGED <<queue, busy, fill, seq, drops>>

\* ImageCopyToBuffer writes the pixels without the lock.
CopyBegin ==
  /\ producer = "prepared"
  /\ image' = [image EXCEPT ![fill] = Torn]
  /\ producer' = "copying"
  /\ UNCHANGED <<queue, busy, fill, stamp, seq, drops>>

CopyEnd ==
  /\ producer = "copying"
  /\ image' = [image EXCEPT ![fill] = seq + 1]
  /\ producer' = "copied"
  /\ UNCHANGED <<queue, busy, fill, stamp, seq, drops>>

\* Mutants: a queue with no bound, and one that drops its newest frame.
EnqueueUnbounded(i) == queue' = Append(queue, i) /\ UNCHANGED drops
EnqueueOverNewest(i) ==
  IF Len(queue) = QueueDepth
    THEN /\ queue' = [queue EXCEPT ![QueueDepth] = i]
         /\ drops' = drops + 1
    ELSE queue' = Append(queue, i) /\ UNCHANGED drops

\* The queueing half of Commit and Publish: a full queue evicts its oldest.
Enqueue(i) ==
  IF Len(queue) = QueueDepth
    THEN queue' = Append(Tail(queue), i) /\ drops' = drops + 1
    ELSE queue' = Append(queue, i) /\ UNCHANGED drops

Commit ==
  /\ producer = "copied"
  /\ stamp' = [stamp EXCEPT ![fill] = seq + 1]
  /\ seq' = seq + 1
  /\ Enqueue(fill)
  /\ fill' = NoIndex
  /\ producer' = "idle"
  /\ UNCHANGED <<busy, image>>

\* The buffer was too short, or the copy failed or fell short.
Abort ==
  /\ producer \in {"prepared", "copying", "copied"}
  /\ fill' = NoIndex
  /\ producer' = "idle"
  /\ UNCHANGED <<queue, busy, stamp, image, seq, drops>>

-----------------------------------------------------------------------------
(* The producer's other entry point: Publish copies a frame it is given.   *)
(* It draws the sequence number before it takes the lock again.            *)

PublishReserve ==
  /\ producer = "idle" /\ seq < MaxSeq
  /\ fill' = Reserve
  /\ producer' = "publishing"
  /\ UNCHANGED <<queue, busy, stamp, image, seq, drops>>

PublishCopy ==
  /\ producer = "publishing"
  /\ image' = [image EXCEPT ![fill] = Torn]
  /\ producer' = "writing"
  /\ UNCHANGED <<queue, busy, fill, stamp, seq, drops>>

PublishStamp ==
  /\ producer = "writing"
  /\ image' = [image EXCEPT ![fill] = seq + 1]
  /\ stamp' = [stamp EXCEPT ![fill] = seq + 1]
  /\ seq' = seq + 1
  /\ producer' = "stamped"
  /\ UNCHANGED <<queue, busy, fill, drops>>

PublishQueue ==
  /\ producer = "stamped"
  /\ Enqueue(fill)
  /\ fill' = NoIndex
  /\ producer' = "idle"
  /\ UNCHANGED <<busy, stamp, image, seq>>

-----------------------------------------------------------------------------
(* The consumer.  Peek and Depth change nothing; Take on an empty queue    *)
(* hands back the buffer it already holds.                                 *)

Advance ==
  /\ queue # << >>
  /\ busy' = Head(queue)
  /\ queue' = Tail(queue)
  /\ UNCHANGED <<fill, stamp, image, seq, drops, producer>>

Take ==
  /\ queue # << >>
  /\ busy' = queue[Len(queue)]
  /\ queue' = << >>
  /\ UNCHANGED <<fill, stamp, image, seq, drops, producer>>

Produce ==
  \/ PrepareReserve \/ PrepareReuse \/ PrepareAllocate
  \/ CopyBegin \/ CopyEnd \/ Commit \/ Abort
  \/ PublishReserve \/ PublishCopy \/ PublishStamp \/ PublishQueue

Consume == Advance \/ Take

Next == Produce \/ Consume

Spec == Init /\ [][Next]_vars

-----------------------------------------------------------------------------
(* Properties.                                                             *)

TypeOK ==
  /\ queue \in Seq(Buffers) /\ Len(queue) <= QueueDepth
  /\ busy \in Buffers \cup {NoIndex}
  /\ fill \in Buffers \cup {NoIndex}
  /\ stamp \in [Buffers -> Nat]
  /\ image \in [Buffers -> Nat \cup {Torn}]
  /\ seq \in Nat /\ drops \in Nat
  /\ producer \in ProducerStates

\* reserveLocked, the queue and the two owners never meet on one buffer: the
\* queue holds no index twice, and neither the consumer's buffer nor the
\* producer's is queued or the other's (the "buffer the consumer cannot be
\* reading" of reserveLocked).
QueueHasNoDuplicate ==
  \A k, l \in 1..Len(queue) : queue[k] = queue[l] => k = l
OwnersApart ==
  /\ busy \notin Queued
  /\ fill \notin Queued
  /\ busy = fill => busy = NoIndex
NoSharedBuffer == QueueHasNoDuplicate /\ OwnersApart

\* The number of the newest frame that was ever queued (Publish stamps first).
Offered == IF producer = "stamped" THEN seq - 1 ELSE seq

\* Every frame that waits or is on screen is whole, and its pixels are those of
\* the frame its Seq names: Prepare's buffer reuse never leaks a half-written or
\* an aborted picture to the renderer.
WholeFrames ==
  /\ \A i \in Queued : image[i] = stamp[i] /\ stamp[i] > 0
  /\ busy # NoIndex => image[busy] = stamp[busy] /\ stamp[busy] > 0

\* While the consumer keeps a buffer, nobody changes what is in it: "the
\* returned pointer is owned by the slot" until the next Advance or Take.
HeldFrameIsStable ==
  [][busy # NoIndex /\ busy' = busy
       => image'[busy] = image[busy] /\ stamp'[busy] = stamp[busy]]_vars

\* The pool of buffers implements the bounded drop-oldest queue of frames.
Queue == INSTANCE PresentationQueue WITH
  offered <- Offered,
  pending <- [k \in 1..Len(queue) |-> stamp[queue[k]]],
  shown <- IF busy = NoIndex THEN 0 ELSE stamp[busy]

ImplementsPresentationQueue == Queue!QueueSpec
=============================================================================
