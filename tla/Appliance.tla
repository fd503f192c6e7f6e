------------------------------ MODULE Appliance ------------------------------
(***************************************************************************)
(* The process as main.go puts it together: the display engine on the main *)
(* thread, the ingest manager, the HTTP server with its two kinds of       *)
(* stream, and the end of all of them.  It composes StateFeed and Preview  *)
(* with the life of the engine (display/engine.go) and of the manager.     *)
(*                                                                         *)
(* The root context is cancelled by a signal, by the server, or by the     *)
(* engine.  The engine's Run returns on the main thread, which then closes *)
(* the hub and the preview, stops the workers, and shuts the server down.  *)
(* The manager sees the context end by itself and stops the workers too.   *)
(* To stop a worker is to ask the render thread to unbind it first, and    *)
(* that thread may be gone, or may never have started.                     *)
(*                                                                         *)
(* Decoding is module DecodeWorker's, starting workers IngestPipeline's:   *)
(* here the manager only stops them.  The second signal that exits at once *)
(* is left out, as are the token provider and the database.                *)
(***************************************************************************)
EXTENDS StateFeed, Preview

CONSTANTS
  QueueSize,  \* capacity of Engine.cmds
  MaxSyncs    \* bound: syncs that stop a worker

\* What the process has to do, so that one part is explored at a time: edits and the
\* frame rate, reports of a decoder, a preview, stopping workers.
Loads == {"edits", "reports", "viewer", "workers"}

VARIABLES
  load,       \* bound: which of them
  cancelled,  \* the root context
  main,       \* what the main thread still has to do, in order
  stopped,    \* Engine.stopped and stopCh
  queue,      \* Engine.cmds: who waits for each command, or nobody
  manager,    \* the manager's goroutine
  once,       \* Manager.stopOnce: free, done, or who is in it
  stopping,   \* stopOne, as the main thread and the manager run it
  worker,     \* the workers
  syncs       \* counted for its bound

processVars == <<load, cancelled, main, stopped, queue, manager, once, stopping, worker, syncs>>
vars == <<feedVars, previewVars, processVars>>

Stoppers == {"main", "manager"}
NoOne == "nobody"

Frame == <<"poll", "tick", "show">>
Finish == <<"stop", "report off", "close preview">>
Ending == <<"close hub", "close preview", "stop all", "shut down">>

Init ==
  /\ FeedInit /\ PreviewInit
  /\ load \in Loads
  /\ cancelled = FALSE /\ main = <<"init">>
  /\ stopped = FALSE /\ queue = <<>>
  /\ IF load = "workers" THEN once = "free" /\ manager = "select"
     ELSE once = "done" /\ manager = "gone"
  /\ stopping = [p \in Stoppers |-> [at |-> "idle", todo |-> {}]]
  /\ worker = [s \in Sources |-> IF load = "workers" THEN "on" ELSE "off"]
  /\ syncs = 0

-----------------------------------------------------------------------------
(* The main thread.  It makes the calls of its own listener before it goes *)
(* on.                                                                     *)

At(step) == main # <<>> /\ Head(main) = step /\ news["main"] = {}
Go(plan) == main' = plan
Rest == Tail(main)

notFeed == UNCHANGED <<previewVars, load, cancelled, stopped, queue, manager, once, stopping, worker, syncs>>
notMain == UNCHANGED <<feedVars, previewVars, load, stopped, queue, manager, once, stopping, worker, syncs>>

\* output.Init: without a display the API stays up until the context ends, and
\* nobody drains the engine's commands.
InitDisplay ==
  /\ At("init")
  /\ \/ SetDisplayMetrics("main", "on", {0}) /\ Go(Frame)
     \/ SetDisplayMetrics("main", "failed", {0}) /\ Go(<<"await">> \o Ending)
  /\ notFeed

\* The context and the window are looked at, and the commands drained.  A window
\* that is closed cancels the context.
Poll ==
  /\ At("poll")
  /\ \/ /\ ~cancelled
        /\ queue' = <<>> /\ Go(Rest) /\ UNCHANGED cancelled
     \/ /\ cancelled' = TRUE
        /\ Go(Finish \o Ending) /\ UNCHANGED queue
  /\ UNCHANGED <<feedVars, previewVars, load, stopped, manager, once, stopping, worker, syncs>>

\* Bound: nothing is edited that no stream would show, or once the end has begun.
Edited == load \in {"edits", "reports"} /\ feed.at # "ended" /\ ~cancelled

TickFrame ==
  /\ At("tick") /\ Go(Rest)
  /\ IF Edited THEN Tick("main") ELSE UNCHANGED feedVars
  /\ notFeed

\* Preview read-back, and the flip.  A failed flip ends the loop; a loop that
\* goes on reports its frame rate now and then.
Show ==
  /\ At("show")
  /\ IF load = "viewer" /\ Wanted
       THEN Push \/ UNCHANGED previewVars ELSE UNCHANGED previewVars
  /\ \/ Go(Frame) \/ Go(<<"report on">>) \/ Go(Finish \o <<"cancel">> \o Ending)
  /\ UNCHANGED <<feedVars, load, cancelled, stopped, queue, manager, once, stopping, worker, syncs>>

\* A panic of the render loop, recovered.
LoopPanics ==
  /\ load \notin {"edits", "reports"}
  /\ main # <<>> /\ Head(main) \in {"poll", "tick", "show"} /\ news["main"] = {}
  /\ Go(<<"report failed", "stop", "close preview", "cancel", "await">> \o Ending)
  /\ notMain /\ UNCHANGED cancelled

Report ==
  \/ /\ At("report on") /\ Go(Frame) /\ notFeed
     /\ SetDisplayMetrics("main", "on",
          IF Edited /\ load = "edits" THEN {wall.rate, 1} ELSE {wall.rate})
  \/ At("report off") /\ SetDisplayMetrics("main", "off", {wall.rate}) /\ Go(Rest) /\ notFeed
  \/ At("report failed") /\ SetDisplayMetrics("main", "failed", {0}) /\ Go(Rest) /\ notFeed

\* Engine.stop: whoever waits for a command is let go, and the rest are applied.
StopEngine ==
  /\ At("stop") /\ Go(Rest)
  /\ stopped' = TRUE /\ queue' = <<>>
  /\ UNCHANGED <<feedVars, previewVars, load, cancelled, manager, once, stopping, worker, syncs>>

CancelRoot == At("cancel") /\ Go(Rest) /\ cancelled' = TRUE /\ notMain
AwaitRoot == At("await") /\ cancelled /\ Go(Rest) /\ notMain /\ UNCHANGED cancelled
CloseTheHub == At("close hub") /\ Go(Rest) /\ CloseHub /\ notFeed
CloseThePreview ==
  /\ At("close preview") /\ Go(Rest) /\ ClosePreview
  /\ UNCHANGED <<feedVars, load, cancelled, stopped, queue, manager, once, stopping, worker, syncs>>
StoppedAll == At("stop all") /\ once = "done" /\ Go(Rest) /\ notMain /\ UNCHANGED cancelled

\* Server.Shutdown waits for the streams; five seconds are enough for any but
\* those whose client does not read, which Close then ends.
StreamsOver == feed.at \in {"none", "ended"} /\ ~Wanted
StreamStuck == "stuck" \in {feed.at, viewer.at}

ShutDown ==
  /\ At("shut down") /\ (StreamsOver \/ StreamStuck)
  /\ Go(Rest) /\ notMain /\ UNCHANGED cancelled

\* A signal, or a server that could not listen.
Signal ==
  /\ ~cancelled /\ cancelled' = TRUE
  /\ notMain /\ UNCHANGED main

-----------------------------------------------------------------------------
(* Stopping workers: Manager.stopOne and Engine.send, for either thread.   *)

notStopping ==
  UNCHANGED <<feedVars, previewVars, load, cancelled, main, stopped, syncs>>

Turn(p, at) == stopping[p].at = at /\ news[p] = {}
To(p, at) == stopping' = [stopping EXCEPT ![p].at = at]

\* StopAll: the first caller does it, another one waits for it.
StopAllStarts(p) ==
  /\ once = "free" /\ Turn(p, "idle")
  /\ IF p = "main" THEN At("stop all") ELSE manager = "stop all"
  /\ once' = p
  /\ stopping' = [stopping EXCEPT ![p] =
       [at |-> "next", todo |-> {s \in Sources : worker[s] = "on"}]]
  /\ UNCHANGED <<queue, manager, worker>> /\ notStopping

StopNext(p) ==
  /\ Turn(p, "next")
  /\ IF stopping[p].todo # {}
       THEN To(p, "send") /\ UNCHANGED once
       ELSE To(p, "idle") /\ once' = IF once = p THEN "done" ELSE once
  /\ UNCHANGED <<queue, manager, worker>> /\ notStopping

\* The command is queued, or there is no engine, or no room for two seconds.
SendUnbind(p) ==
  /\ Turn(p, "send")
  /\ \/ stopped /\ To(p, "cancel") /\ UNCHANGED queue
     \/ Len(queue) < QueueSize /\ queue' = Append(queue, p) /\ To(p, "sent")
     \/ Len(queue) = QueueSize /\ To(p, "cancel") /\ UNCHANGED queue
  /\ UNCHANGED <<manager, once, worker>> /\ notStopping

\* Mutant: the answer to a command is waited for without a limit.
AwaitAnswer(p) ==
  /\ Turn(p, "sent")
  /\ stopped \/ \A i \in DOMAIN queue : queue[i] # p
  /\ To(p, "cancel") /\ UNCHANGED queue
  /\ UNCHANGED <<manager, once, worker>> /\ notStopping

\* It is applied, or the engine stops, or the two seconds are over.
AwaitUnbind(p) ==
  /\ Turn(p, "sent")
  /\ To(p, "cancel")
  /\ queue' = [i \in DOMAIN queue |-> IF queue[i] = p THEN NoOne ELSE queue[i]]
  /\ UNCHANGED <<manager, once, worker>> /\ notStopping

\* The worker is cancelled and awaited, for five seconds at most, and reported.
CancelWorker(p) ==
  /\ Turn(p, "cancel")
  /\ \E s \in stopping[p].todo :
       /\ worker' = [worker EXCEPT ![s] = "off"]
       /\ stopping' = [stopping EXCEPT ![p] = [at |-> "next", todo |-> @.todo \ {s}]]
       /\ SetDecoderHealth(p, wall.offline \cup {s}, 0)
  /\ UNCHANGED <<previewVars, load, cancelled, main, stopped, queue, manager, once, syncs>>

StopStep(p) ==
  StopAllStarts(p) \/ StopNext(p) \/ SendUnbind(p) \/ AwaitUnbind(p) \/ CancelWorker(p)

-----------------------------------------------------------------------------
(* The manager's goroutine.                                                *)

\* Manager.Run: a sync finds a worker that is not needed any more.
Sync ==
  /\ manager = "select" /\ Turn("manager", "idle") /\ syncs < MaxSyncs
  /\ syncs' = syncs + 1
  /\ \E s \in {s \in Sources : worker[s] = "on"} :
       stopping' = [stopping EXCEPT !["manager"] = [at |-> "next", todo |-> {s}]]
  /\ UNCHANGED <<feedVars, previewVars, load, cancelled, main, stopped, queue, manager, once, worker>>

ManagerEnds ==
  /\ Turn("manager", "idle")
  /\ \/ manager = "select" /\ cancelled /\ manager' = "stop all"
     \/ manager = "stop all" /\ once = "done" /\ manager' = "gone"
  /\ UNCHANGED <<queue, once, stopping, worker>> /\ notStopping

-----------------------------------------------------------------------------
(* Streams and edits, while there is a process.                            *)

Serving == main # <<>> /\ Head(main) # "shut down"

Edit ==
  /\ Edited /\ Serving
  /\ \/ load = "edits" /\ (Command("handler") \/ ApplyStrategy("handler"))
     \/ load = "reports" /\ WorkerReports("worker", CHOOSE s \in Sources : TRUE)

FeedStream == WriteState \/ WriteChunk \/ FeedEnds(cancelled)
ViewerStream == Wait \/ Wake(TRUE) \/ ViewerEnds(cancelled)

FeedAct ==
  /\ \/ Edit
     \/ Edited /\ load = "edits" /\ SecondPasses
     \/ load \in {"edits", "reports"} /\ Serving /\ Subscribe
     \/ FeedStream \/ ClientReads \/ FeedClientLeaves
     \/ \E p \in Publishers : Deliver(p)
  /\ UNCHANGED <<previewVars, processVars>>

PreviewAct ==
  /\ \/ load = "viewer" /\ Serving /\ ViewerArrives(published.wall.display = "on")
     \/ ViewerStream \/ ViewerReads \/ ViewerLeaves
     \/ EncoderStep \/ EncoderPanics
  /\ UNCHANGED <<feedVars, processVars>>

MainStep ==
  \/ InitDisplay \/ Poll \/ TickFrame \/ Show \/ Report \/ StopEngine \/ CancelRoot
  \/ AwaitRoot \/ CloseTheHub \/ CloseThePreview \/ StoppedAll \/ ShutDown

\* Nothing happens to a process that has exited.
Next ==
  /\ main # <<>>
  /\ \/ MainStep \/ LoopPanics \/ Signal
     \/ \E p \in Stoppers : StopStep(p)
     \/ Sync \/ ManagerEnds
     \/ FeedAct \/ PreviewAct

\* Threads run, timers fire, and a stream runs unless its client blocks it.
\* Signals, clients, edits and panics come or do not.
Fairness ==
  /\ WF_vars(MainStep) /\ WF_vars(ManagerEnds)
  /\ \A p \in Stoppers : WF_vars(StopStep(p))
  /\ \A p \in Publishers : WF_vars(main # <<>> /\ Deliver(p) /\ UNCHANGED <<previewVars, processVars>>)
  /\ WF_vars(main # <<>> /\ FeedStream /\ UNCHANGED <<previewVars, processVars>>)
  /\ WF_vars(main # <<>> /\ ViewerStream /\ UNCHANGED <<feedVars, processVars>>)
  /\ WF_vars(main # <<>> /\ EncoderStep /\ UNCHANGED <<feedVars, processVars>>)

Spec == Init /\ [][Next]_vars /\ Fairness

-----------------------------------------------------------------------------

\* Whatever ends the context, and whoever waits for whom then -- the manager for
\* the render thread, the main thread for the manager, the server for its
\* streams -- the process exits.
StopsInTheEnd == cancelled ~> main = <<>>
=============================================================================
