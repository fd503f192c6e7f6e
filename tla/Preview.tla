------------------------------- MODULE Preview -------------------------------
(***************************************************************************)
(* preview.Service, the mailbox between the render thread, which stages    *)
(* frames, the goroutine that encodes them, and a viewer that waits for    *)
(* the next one (handler.PreviewStream).                                   *)
(*                                                                         *)
(* The encoder is started by the first frame staged and ends when it finds *)
(* none.  Pixel buffers are recycled: a buffer is staged, being encoded,   *)
(* or free.  A frame is the buffer it is in; its pixels, and the JPEG but  *)
(* for its number, are left out.  So are the limit on viewers and the      *)
(* viewers beyond one: they wait on the same channel and take nothing.     *)
(***************************************************************************)
EXTENDS Naturals, FiniteSets

CONSTANTS
  MaxFreeBuffers,  \* maxFreeBuffers; 2 in the code
  MaxFrames,       \* bound: frames pushed
  MaxPanics        \* bound: panics of the encoder

ASSUME PreviewAssumption == MaxFreeBuffers \in Nat

NoBuffer == 0
Buffers == 1..(MaxFreeBuffers + 4)

VARIABLES
  staged,     \* pendingPix, or NoBuffer: hasPending
  free,       \* Service.free
  flag,       \* Service.encoding
  looping,    \* encoder goroutines between two frames
  encoding,   \* the buffers encoder goroutines are encoding
  closed,     \* Service.closed
  jpegs,      \* Service.seq
  viewer,     \* the viewer: where it is, the number it waits to see passed
  pushed, panics,  \* counted for their bounds
  abandoned   \* history: the encoder panicked and no frame was pushed since

previewVars ==
  <<staged, free, flag, looping, encoding, closed, jpegs, viewer, pushed, panics, abandoned>>

PreviewInit ==
  /\ staged = NoBuffer /\ free = {} /\ flag = FALSE /\ looping = 0 /\ encoding = {}
  /\ closed = FALSE /\ jpegs = 0 /\ viewer = [at |-> "none", number |-> 0]
  /\ pushed = 0 /\ panics = 0 /\ abandoned = FALSE

Held == free \cup encoding \cup ({staged} \ {NoBuffer})

\* recycleLocked
Recycle(bufs, b) ==
  IF b = NoBuffer \/ Cardinality(bufs) >= MaxFreeBuffers THEN bufs ELSE bufs \cup {b}

\* takeBufLocked: any free buffer that is large enough, or a new one.
Taken == free \cup {CHOOSE b \in Buffers : b \notin Held}

-----------------------------------------------------------------------------

\* Mutant: only the first frame starts an encoder.
PushAfterFirst ==
  IF closed THEN UNCHANGED previewVars
  ELSE \E b \in Taken :
         /\ pushed < MaxFrames /\ pushed' = pushed + 1
         /\ free' = Recycle(free \ {b}, staged)
         /\ staged' = b
         /\ flag' = (flag \/ pushed = 0)
         /\ looping' = IF pushed = 0 THEN looping + 1 ELSE looping
         /\ abandoned' = FALSE
         /\ UNCHANGED <<encoding, closed, jpegs, viewer, panics>>

\* PushRGBA: a frame that was staged and not taken is replaced.
Push ==
  IF closed THEN UNCHANGED previewVars
  ELSE \E b \in Taken :
         /\ pushed < MaxFrames /\ pushed' = pushed + 1
         /\ free' = Recycle(free \ {b}, staged)
         /\ staged' = b
         /\ flag' = TRUE
         /\ looping' = IF flag THEN looping ELSE looping + 1
         /\ abandoned' = FALSE
         /\ UNCHANGED <<encoding, closed, jpegs, viewer, panics>>

\* Mutant: the frame that is taken stays staged.
TakeAndKeep ==
  /\ looping > 0 /\ ~closed /\ staged # NoBuffer
  /\ looping' = looping - 1 /\ encoding' = encoding \cup {staged}
  /\ UNCHANGED <<staged, free, flag, closed, jpegs, viewer, pushed, panics, abandoned>>

\* encodeLoop takes the staged frame, ...
Take ==
  /\ looping > 0 /\ ~closed /\ staged # NoBuffer
  /\ looping' = looping - 1 /\ encoding' = encoding \cup {staged} /\ staged' = NoBuffer
  /\ UNCHANGED <<free, flag, closed, jpegs, viewer, pushed, panics, abandoned>>

\* ... or ends, under the lock it looked under.
EncoderEnds ==
  /\ looping > 0 /\ (closed \/ staged = NoBuffer)
  /\ looping' = looping - 1 /\ flag' = FALSE
  /\ UNCHANGED <<staged, free, encoding, closed, jpegs, viewer, pushed, panics, abandoned>>

\* encodeOne: an error of the encoder publishes nothing, nor does a closed service.
Encoded ==
  \E b \in encoding : \E ok \in BOOLEAN :
    /\ encoding' = encoding \ {b} /\ looping' = looping + 1
    /\ free' = Recycle(free, b)
    /\ jpegs' = IF ok /\ ~closed THEN jpegs + 1 ELSE jpegs
    /\ UNCHANGED <<staged, flag, closed, viewer, pushed, panics, abandoned>>

\* A panic resets the flag, and leaves a frame that was staged meanwhile behind.
EncoderPanics ==
  \E b \in encoding :
    /\ panics < MaxPanics /\ panics' = panics + 1
    /\ encoding' = encoding \ {b} /\ flag' = FALSE
    /\ abandoned' = (staged # NoBuffer)
    /\ UNCHANGED <<staged, free, looping, closed, jpegs, viewer, pushed>>

ClosePreview ==
  /\ closed' = TRUE
  /\ UNCHANGED <<staged, free, flag, looping, encoding, jpegs, viewer, pushed, panics, abandoned>>

-----------------------------------------------------------------------------
(* The viewer.                                                             *)

Wanted == viewer.at \in {"between", "waiting", "stuck"}

viewerOnly ==
  UNCHANGED <<staged, free, flag, looping, encoding, closed, jpegs, pushed, panics, abandoned>>

\* PreviewStream turns a viewer away unless the display runs.
ViewerArrives(displayRunning) ==
  /\ viewer.at = "none"
  /\ viewer' = [viewer EXCEPT !.at = IF displayRunning THEN "between" ELSE "ended"]
  /\ viewerOnly

\* WaitNextCtx: the number and the channel are read together, ...
Wait ==
  /\ viewer.at = "between" /\ ~closed
  /\ viewer' = [at |-> "waiting", number |-> jpegs]
  /\ viewerOnly

\* ... and only a newer frame is returned, and written; the client may block it.
Wake(timeout) ==
  /\ viewer.at = "waiting" /\ (jpegs # viewer.number \/ closed \/ timeout)
  /\ \E at \in IF jpegs # viewer.number /\ ~closed THEN {"between", "stuck"} ELSE {"between"} :
       viewer' = [viewer EXCEPT !.at = at]
  /\ viewerOnly

ViewerReads ==
  /\ viewer.at = "stuck" /\ viewer' = [viewer EXCEPT !.at = "between"]
  /\ viewerOnly

\* The loop of PreviewStream, and a wait that the context ends.
ViewerEnds(contextDone) ==
  /\ \/ viewer.at = "between" /\ (closed \/ contextDone)
     \/ viewer.at = "waiting" /\ contextDone
  /\ viewer' = [viewer EXCEPT !.at = "ended"]
  /\ viewerOnly

ViewerLeaves ==
  /\ Wanted /\ viewer' = [viewer EXCEPT !.at = "ended"]
  /\ viewerOnly

EncoderStep == Take \/ EncoderEnds \/ Encoded

-----------------------------------------------------------------------------

\* The render thread never writes into a buffer an encoder reads, and there is
\* one encoder at most: no buffer is in two places, and the flag says whether a
\* goroutine is there to take what is staged.
BuffersApart ==
  /\ staged \notin free \cup encoding /\ free \cap encoding = {}
  /\ Cardinality(free) <= MaxFreeBuffers
  /\ looping + Cardinality(encoding) = IF flag THEN 1 ELSE 0

\* A frame is not left staged: the encoder that is about to end sees it or its
\* pusher starts another.  Only a panic, or the end of the display, strands one.
NoFrameStranded == <>[](staged = NoBuffer \/ closed \/ abandoned)
=============================================================================
