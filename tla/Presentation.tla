---------------------------- MODULE Presentation ----------------------------
(***************************************************************************)
(* The render thread's side of one source: presentClock.due, called once   *)
(* per refresh by Engine.sample (internal/display/present.go, engine.go),  *)
(* on the queue of frames of PresentationQueue.                            *)
(*                                                                         *)
(* due is not atomic: each Peek, Advance, Take and Depth takes the slot's  *)
(* mutex on its own, and the decode worker may offer a frame, and so evict *)
(* the oldest one, between any two of them.  Each such call is one action. *)
(*                                                                         *)
(* Time is counted in ticks.  The clock's pair (wall, pts) only ever       *)
(* enters as pts + t - wall, so it is kept as their difference.            *)
(***************************************************************************)
EXTENDS PresentationQueue

CONSTANTS
  Vsync,      \* ticks from one refresh to the next
  Lead,       \* presentLead: how far behind the stream a clock is anchored
  Staggers,   \* the offsets Engine.stagger hands out
  Resync,     \* resyncThreshold
  Slew,       \* correction per refresh
  Cadences,   \* media time from one decoded frame to the next
  Restarts,   \* media times a stream continues from after a loop or reconnect
  MaxFrames,  \* bound of the model: frames decoded
  MaxTime     \* bound of the model: ticks

ASSUME PresentationAssumption ==
  /\ Vsync \in Nat \ {0} /\ Slew \in Nat /\ Slew < Vsync
  /\ Lead \in Nat /\ Resync \in Nat
  /\ Staggers \subseteq Nat /\ Cadences \subseteq Nat /\ Restarts \subseteq Nat
  /\ \A s \in Staggers : Lead + s <= Resync
  /\ MaxFrames \in Nat /\ MaxTime \in Nat

NoPts == -1   \* ptsDuration: a frame without a usable timestamp

VARIABLES
  media,    \* media[n]: Frame.PTS of frame n
  now,      \* the refresh the frame being drawn will appear at
  set,      \* presentClock.set
  lag,      \* presentClock.wall - presentClock.pts
  step,     \* where the render thread stands in due
  advanced, \* due # nil in the loop
  evicted,  \* history: the producer evicted a frame since the loop's last Peek
  waited    \* history: refreshes in a row that left the same frame waiting

clockVars == <<now, set, lag, step, advanced>>
vars == <<queueVars, media, clockVars, evicted, waited>>

Steps == {"rest", "peek", "untimed", "resync", "scan", "advance", "adjust"}

Init ==
  /\ QueueInit
  /\ media = << >>
  /\ now = 0 /\ set = FALSE /\ lag = 0
  /\ step = "rest" /\ advanced = FALSE
  /\ evicted = FALSE /\ waited = 0

\* presentClock.dueAt: the media time that belongs on screen now.
Target == now - lag

Front == media[Head(pending)]

-----------------------------------------------------------------------------
(* The decode worker commits a frame: in cadence, after a jump, or untimed. *)

LastPts ==
  IF \E n \in 1..offered : media[n] # NoPts
    THEN media[CHOOSE n \in 1..offered :
                 media[n] # NoPts /\ \A m \in (n + 1)..offered : media[m] = NoPts]
    ELSE 0

Decode ==
  /\ offered < MaxFrames
  /\ Offer
  /\ \E p \in {LastPts + c : c \in Cadences} \cup Restarts \cup {NoPts} :
       media' = Append(media, p)
  /\ evicted' = (evicted \/ drops' > drops)
  /\ waited' = IF drops' > drops THEN 0 ELSE waited
  /\ UNCHANGED clockVars

-----------------------------------------------------------------------------
(* The render thread.                                                      *)

\* Engine.sample asks the clock which frame belongs on the next refresh.
Refresh ==
  /\ step = "rest" /\ now < MaxTime
  /\ now' = now + Vsync
  /\ advanced' = FALSE
  /\ step' = "peek"
  /\ UNCHANGED <<queueVars, media, set, lag, evicted, waited>>

\* due returns: nothing was due if the picture is still the same.
Return(kept) ==
  /\ step' = "rest"
  /\ waited' = IF kept /\ pending # << >> THEN waited + 1 ELSE 0

NothingQueued ==
  /\ step = "peek" /\ pending = << >>
  /\ Return(TRUE)
  /\ UNCHANGED <<queueVars, media, now, set, lag, advanced, evicted>>

\* The first frame has no timestamp: forget the mapping, newest wins.
PeekUntimed ==
  /\ step = "peek" /\ pending # << >>
  /\ Front < 0
  /\ set' = FALSE
  /\ step' = "untimed"
  /\ UNCHANGED <<queueVars, media, now, lag, advanced, evicted, waited>>

\* Mutant: a queued frame far ahead of the clock does not re-anchor it.
OutOfSyncBehindOnly(pts, lag1) == pts < now - lag1 - Resync

OutOfSync(pts, lag1) ==
  pts > now - lag1 + Resync \/ pts < now - lag1 - Resync

\* A timed frame: anchor a fresh clock on it, then see whether the mapping
\* still describes the stream.
PeekTimed ==
  /\ step = "peek" /\ pending # << >>
  /\ Front >= 0
  /\ \E s \in Staggers :
       lag' = IF set THEN lag ELSE now + Lead + s - Front
  /\ set' = TRUE
  /\ step' = IF OutOfSync(Front, lag') THEN "resync" ELSE "scan"
  /\ UNCHANGED <<queueVars, media, now, advanced, evicted, waited>>

TakeUntimed ==
  /\ step = "untimed"
  /\ ShowNewest
  /\ Return(FALSE)
  /\ UNCHANGED <<media, now, set, lag, advanced, evicted>>

\* Engine.stagger is 0 for a clock that is set, and a clock that was not set has
\* just been anchored in sync.
TakeResync ==
  /\ step = "resync"
  /\ ShowNewest
  /\ lag' = now + Lead - media[shown']
  /\ Return(FALSE)
  /\ UNCHANGED <<media, now, set, advanced, evicted>>

\* Mutant: the loop runs one refresh ahead.
IsDueNextRefresh(pts) == pts <= Target + Vsync

IsDue(pts) == pts <= Target

\* Mutant: the loop ignores that Peek found nothing.
ScanPeekUnchecked ==
  /\ step = "scan"
  /\ IF pending = << >> \/ IsDue(Front)
       THEN step' = "advance" /\ evicted' = FALSE
       ELSE step' = "adjust" /\ UNCHANGED evicted
  /\ UNCHANGED <<queueVars, media, now, set, lag, advanced, waited>>

ScanPeek ==
  /\ step = "scan"
  /\ IF pending # << >> /\ IsDue(Front)
       THEN step' = "advance" /\ evicted' = FALSE
       ELSE step' = "adjust" /\ UNCHANGED evicted
  /\ UNCHANGED <<queueVars, media, now, set, lag, advanced, waited>>

ScanAdvance ==
  /\ step = "advance"
  /\ ShowOldest
  /\ advanced' = TRUE
  /\ step' = "scan"
  /\ UNCHANGED <<media, now, set, lag, evicted, waited>>

\* Drift correction by the depth that is left.
Adjust ==
  /\ step = "adjust"
  /\ lag' = IF Len(pending) >= QueueDepth - 1 THEN lag - Slew
            ELSE IF pending = << >> /\ advanced THEN lag + Slew
            ELSE lag
  /\ Return(~advanced)
  /\ UNCHANGED <<queueVars, media, now, set, advanced, evicted>>

Sample ==
  \/ Refresh \/ NothingQueued \/ PeekUntimed \/ PeekTimed \/ TakeUntimed
  \/ TakeResync \/ ScanPeek \/ ScanAdvance \/ Adjust

Next == Decode \/ Sample

Spec == Init /\ [][Next]_vars

-----------------------------------------------------------------------------
(* Properties.                                                             *)

TypeOK ==
  /\ offered \in 0..MaxFrames /\ media \in Seq(Nat \cup {NoPts})
  /\ Len(media) = offered
  /\ pending \in Seq(1..MaxFrames) /\ Len(pending) <= QueueDepth
  /\ shown \in 0..MaxFrames /\ drops \in Nat
  /\ set \in BOOLEAN /\ lag \in Int /\ now \in Nat /\ step \in Steps /\ advanced \in BOOLEAN
  /\ evicted \in BOOLEAN /\ waited \in Nat

\* due consumes only what it has seen waiting: the queue it Peeked cannot be
\* empty when it goes on to Advance or Take, so neither returns nil, and Take
\* never hands back the frame already on screen.
WaitingFrameStays == step \in {"untimed", "resync", "advance"} => pending # << >>

\* A frame is never shown ahead of its time, whatever the producer does between
\* the loop's Peek and its Advance -- except that a full queue may evict the
\* very frame the Peek found due.
EarlyOnlyAfterEviction ==
  [][step = "advance" /\ step' = "scan" /\ media[shown'] > Target
       => evicted]_vars

\* A tile does not freeze on a queue that has frames: a waiting frame that is
\* not evicted is shown within the resync threshold, counted in whole refreshes,
\* after the one that leaves it waiting first (it may have come to the front too
\* late for that refresh to compare it with the clock).
FreezeBound == (Resync + Vsync - 1) \div Vsync + 1
TileKeepsMoving == waited <= FreezeBound
=============================================================================
