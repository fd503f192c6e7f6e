------------------------------ MODULE StateFeed ------------------------------
(***************************************************************************)
(* How the state of the wall reaches a browser: schedule.Runtime publishes *)
(* it, router.go passes it to events.Hub, and handler.Events writes it to  *)
(* an event stream.                                                        *)
(*                                                                         *)
(* Every change is made, compared with the state published last, and       *)
(* published under the runtime's mutex.  The listener is called after the  *)
(* mutex is released, by whichever thread made the change, so two calls    *)
(* may overtake each other.  The hub appends to the channel of every       *)
(* subscriber and drops what does not fit.                                 *)
(*                                                                         *)
(* One stream is modelled: streams share nothing but their limit, which is *)
(* left out with the keepalives.  A state is what the comparison tells     *)
(* apart: the fields every publisher compares, the display's status that   *)
(* the engine compares alone, the second of dwell that passes by itself,   *)
(* what is passed on without a comparison, and what no comparison looks at *)
(* and nobody passes on: the frame rate with the dropped frames and the    *)
(* degradations, and the message of a decoder's health.                    *)
(***************************************************************************)
EXTENDS Naturals, Sequences, FiniteSets

CONSTANTS
  Sources,        \* the sources whose decoder health is published
  Publishers,     \* threads that publish
  ChunkBuffer,    \* capacity of a subscriber's channel; 8 in the code
  MaxChanges      \* bound: commands, edits and seconds of dwell

VARIABLES
  wall,       \* the runtime's fields: shown, detail, display, offline, message, rate
  second,     \* the second of the dwell, which the clock moves
  published,  \* Runtime.published
  news,       \* per thread, the call of the listener it is about to make
  notified,   \* calls of the listener decided on so far
  delivered,  \* history: the number of the call that was made last
  hubClosed,  \* Hub.closed
  feed        \* the event stream

feedVars == <<wall, second, published, news, notified, delivered, hubClosed, feed>>

\* buildStateLocked: the fields as they are, the countdown as of now.
Build(w) == [wall |-> w, second |-> second]

\* stateChangedForSSE does not look at the detail (fit, layout, dwell).
Compared(st) == <<st.wall.shown, st.wall.display, st.wall.offline, st.second>>
StateChanged(w) == Compared(published) # Compared(Build(w))
DisplayChanged(w) == published.wall.display # w.display

FeedInit ==
  /\ wall = [shown |-> 0, detail |-> 0, display |-> "off", offline |-> {}, message |-> 0, rate |-> 0]
  /\ second = 0 /\ published = Build(wall)
  /\ news = [p \in Publishers |-> {}] /\ notified = 0 /\ delivered = 0
  /\ hubClosed = FALSE
  /\ feed = [at |-> "none", queue |-> <<>>, seen |-> published, lossy |-> FALSE]

MayChange == wall.shown + wall.detail + wall.message + second < MaxChanges

-----------------------------------------------------------------------------
(* Publishing.                                                             *)

\* The critical section of every publisher.  A thread makes one call at a time.
Publish(p, w, told) ==
  LET st == Build(w) IN
  /\ news[p] = {}
  /\ wall' = w /\ published' = st
  /\ IF told
       THEN /\ notified' = notified + 1
            /\ news' = [news EXCEPT ![p] = {[number |-> notified + 1, state |-> st]}]
       ELSE UNCHANGED <<news, notified>>
  /\ UNCHANGED <<second, delivered, hubClosed, feed>>

Compare(p, w) == Publish(p, w, StateChanged(w))

\* Commands of the control plane.
Command(p) ==
  /\ MayChange
  /\ Compare(p, [wall EXCEPT !.shown = @ + 1])

\* The health of the decoders.  The message is compared by nobody.
SetDecoderHealth(p, offline, message) ==
  Compare(p, [wall EXCEPT !.offline = offline, !.message = message])

WorkerReports(p, s) ==
  /\ MayChange
  /\ \E offline \in {wall.offline \cup {s}, wall.offline \ {s}} :
       SetDecoderHealth(p, offline, wall.message + 1)

\* ApplyStrategy: an edit may change what is not compared, so it always calls.
ApplyStrategy(p) ==
  /\ MayChange
  /\ Publish(p, [wall EXCEPT !.detail = @ + 1], TRUE)

\* Tick: the tour may move on.
Tick(p) ==
  \/ Compare(p, wall)
  \/ MayChange /\ Compare(p, [wall EXCEPT !.shown = @ + 1])


\* SetDisplayMetrics compares the display's status, and publishes the rest unsaid:
\* the rate it sets, and what the clock has moved since the last publication.
SetDisplayMetrics(p, status, rates) ==
  \E rate \in rates :
    LET w == [wall EXCEPT !.display = status, !.rate = rate] IN Publish(p, w, DisplayChanged(w))

SecondPasses ==
  /\ MayChange
  /\ second' = second + 1
  /\ UNCHANGED <<wall, published, news, notified, delivered, hubClosed, feed>>

-----------------------------------------------------------------------------
(* The hub.                                                                *)

\* PublishDisplayState: a full channel loses the newest state.
Deliver(p) ==
  \E call \in news[p] :
    /\ news' = [news EXCEPT ![p] = {}]
    /\ delivered' = call.number
    /\ feed' = IF hubClosed \/ feed.at \in {"none", "ended"} THEN feed
               ELSE IF Len(feed.queue) < ChunkBuffer
               THEN [feed EXCEPT !.queue = Append(@, call.state), !.lossy = FALSE]
               ELSE [feed EXCEPT !.lossy = TRUE]
    /\ UNCHANGED <<wall, second, published, notified, hubClosed>>

CloseHub ==
  /\ hubClosed' = TRUE
  /\ UNCHANGED <<wall, second, published, news, notified, delivered, feed>>

-----------------------------------------------------------------------------
(* The stream.                                                             *)

feedOnly == UNCHANGED <<wall, second, published, news, notified, delivered, hubClosed>>

\* Events: the stream subscribes, to a closed channel if the hub is closed, ...
Subscribe ==
  /\ feed.at = "none"
  /\ feed' = [feed EXCEPT !.at = "subscribed"]
  /\ feedOnly

\* ... and then writes the current state.  Any write may block for as long as the
\* client does not read.
WriteState ==
  /\ feed.at = "subscribed"
  /\ \E at \in {"open", "stuck"} : feed' = [feed EXCEPT !.at = at, !.seen = published]
  /\ feedOnly

WriteChunk ==
  /\ feed.at = "open" /\ feed.queue # <<>>
  /\ \E at \in {"open", "stuck"} :
       feed' = [feed EXCEPT !.at = at, !.seen = Head(feed.queue), !.queue = Tail(@)]
  /\ feedOnly

ClientReads ==
  /\ feed.at = "stuck" /\ feed' = [feed EXCEPT !.at = "open"]
  /\ feedOnly

EndFeed == feed' = [feed EXCEPT !.at = "ended", !.queue = <<>>]

\* The channel is closed and read to its end, or the request's context is done.
FeedEnds(contextDone) ==
  /\ feed.at = "open"
  /\ contextDone \/ (hubClosed /\ feed.queue = <<>>)
  /\ EndFeed /\ feedOnly

\* The client is gone, whether or not a write was blocked on it.
FeedClientLeaves ==
  /\ feed.at \in {"subscribed", "open", "stuck"}
  /\ EndFeed /\ feedOnly

-----------------------------------------------------------------------------

\* What some publisher passes on: all but the countdown, which the clock moves, the
\* message and the rate.
Told(st) == <<st.wall.shown, st.wall.detail, st.wall.display, st.wall.offline>>


\* "Every state change is published ... so the Preview page reflects reality without
\* polling": at rest the page shows which decoders are offline, as long as its
\* channel takes what it is given ...
LastCallComesLast ==
  <>[](feed.at = "open" /\ ~feed.lossy => feed.seen.wall.offline = published.wall.offline)

\* ... and as long as the calls of the listener keep their order.
NewestStateIsKept ==
  <>[](feed.at = "open" /\ delivered = notified
         => feed.seen.wall.offline = published.wall.offline)

\* "Structured display state (... frame rate, dropped frame counts) is pushed": at
\* rest an open stream has written the rate that is published, if no call was
\* overtaken and none lost.
FrameRateIsPushed ==
  <>[](feed.at = "open" /\ delivered = notified /\ ~feed.lossy
         => feed.seen.wall.rate = published.wall.rate)
=============================================================================
