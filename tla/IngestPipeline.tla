--------------------------- MODULE IngestPipeline ---------------------------
(***************************************************************************)
(* The ingest manager, its decode workers, and the render thread that owns *)
(* their slots: internal/ingest/manager.go with the command channel of     *)
(* internal/display/engine.go.                                             *)
(*                                                                         *)
(* Four kinds of goroutine meet here.  HTTP handlers edit source rows and  *)
(* call Resync.  The render thread calls RequestSync every frame and       *)
(* applies bind and unbind commands.  The manager turns a request into     *)
(* stops and starts, and hands each stop and start to the render thread    *)
(* through a bounded channel.  Workers decode, fall back to software, and  *)
(* exit some time after they are cancelled -- or not within the time the   *)
(* manager waits for them.                                                 *)
(*                                                                         *)
(* What a worker does inside a session is module DecodeWorker's matter;    *)
(* shutdown (StopAll, Engine.stop) is not part of this module.             *)
(***************************************************************************)
EXTENDS Integers, Sequences, FiniteSets

CONSTANTS
  Sources,      \* source ids
  YouTube,      \* the sources of kind youtube
  HWCapable,    \* the sources ShouldUseHW accepts
  HWCap,        \* effectiveMaxHW; 0 is no limit
  CmdCapacity,  \* capacity of Engine.cmds (64 in the code)
  WorkerIds,    \* names of workers; the name of one that is gone is used again
  MaxEvents     \* bound of the model: how many rows are edited, needed sets
                \*   changed, queries failed, and waits for the render thread, a
                \*   worker or a codec given up, together

ASSUME PipelineAssumption ==
  /\ Sources \subseteq Nat /\ IsFiniteSet(Sources)
  /\ YouTube \subseteq Sources /\ HWCapable \subseteq Sources
  /\ WorkerIds \subseteq Nat \ {0} /\ IsFiniteSet(WorkerIds)
  /\ HWCap \in Nat /\ CmdCapacity \in Nat \ {0} /\ MaxEvents \in Nat

VARIABLES
  rows,       \* source rows in the database
  authGen,    \* Manager.authGen
  view,       \* ComposeView().Needed of the scheduler
  editor,     \* the HTTP handler: where it stands, and the set it will ask for
  dirty,      \* Manager.dirty
  request,    \* Manager.needed: the sets waiting in it, at most one
  applied,    \* Manager.applied
  registered, \* Manager.workers: the worker of each source, or NoWorker
  hwInUse,    \* Manager.hwInUse
  sync,       \* the manager's position in sync and its locals
  worker,     \* the decode workers, gone or not
  cmds,       \* Engine.cmds
  slots,      \* Engine.slots: whose slot the render thread draws from
  health,     \* the scheduler's record of each source's decoder
  abandoned,  \* hardware codecs Session.Close left behind, still being freed
  events      \* how many events of each kind there were

dbVars == <<rows, authGen, editor, view>>
mgrVars == <<applied, registered, hwInUse, sync>>
engVars == <<cmds, slots>>
vars == <<dbVars, dirty, request, mgrVars, worker, engVars, health, abandoned, events>>

NoWorker == 0
Absent == [there |-> FALSE, enabled |-> FALSE, rev |-> 0]
Rows == [there : BOOLEAN, enabled : BOOLEAN, rev : 0..MaxEvents]
Events == {"edit", "view", "fault", "stall", "wedge", "stuck"}
Happened == events["edit"] + events["view"] + events["fault"] + events["stall"]
            + events["wedge"] + events["stuck"]
Happens(e) ==
  /\ Happened < MaxEvents
  /\ events' = [events EXCEPT ![e] = @ + 1]

\* fingerprint: whatever requires a restart, and the credentials of YouTube.
Fingerprint(s, row) == <<row.rev, IF s \in YouTube THEN authGen ELSE 0>>

AtRest == [at |-> "idle", ids |-> {}, loaded |-> [s \in Sources |-> Absent],
           extra |-> {}, missing |-> {}, cur |-> 0, w |-> NoWorker, hw |-> FALSE]

\* usingHW is the manager's reservation, onHW what the worker's session uses.
Gone == [phase |-> "gone", src |-> 0, fp |-> <<0, 0>>, usingHW |-> FALSE,
         onHW |-> FALSE, cancelled |-> FALSE]

Init ==
  /\ rows = [s \in Sources |-> [there |-> TRUE, enabled |-> TRUE, rev |-> 0]]
  /\ authGen = 0
  /\ view \in SUBSET Sources
  /\ editor = [at |-> "idle", ids |-> {}]
  /\ dirty = FALSE
  /\ request = {}
  /\ applied = {}
  /\ registered = [s \in Sources |-> NoWorker]
  /\ hwInUse = 0
  /\ sync = AtRest
  /\ worker = [w \in WorkerIds |-> Gone]
  /\ cmds = << >>
  /\ slots = [s \in Sources |-> NoWorker]
  /\ health = [s \in Sources |-> "offline"]
  /\ abandoned = 0
  /\ events = [e \in Events |-> 0]

-----------------------------------------------------------------------------
(* Requests.                                                               *)

Settled(ids) == ~dirty /\ applied = ids

\* Mutant: a new request queues up behind the one it should replace.
RequestSyncQueueing(ids) ==
  request' = IF Settled(ids) THEN request ELSE request \cup {ids}

\* RequestSync: nothing when settled, else the channel holds the latest set.
RequestSync(ids) == request' = IF Settled(ids) THEN request ELSE {ids}

\* The render thread asks once per frame.
FrameRequest ==
  /\ RequestSync(view)
  /\ UNCHANGED <<dbVars, dirty, mgrVars, worker, engVars, health, events, abandoned>>

\* The scheduler moves on: another screen, another strategy.
ChangeView ==
  /\ Happens("view")
  /\ view' \in SUBSET Sources \ {view}
  /\ UNCHANGED <<rows, authGen, editor, dirty, request, mgrVars, worker, engVars, health, abandoned>>

\* A handler writes a row (or reloads YouTube credentials), ...
EditRow ==
  /\ editor.at = "idle"
  /\ Happens("edit")
  /\ \/ \E s \in Sources :
          /\ rows[s].there
          /\ rows' \in {[rows EXCEPT ![s].rev = @ + 1],
                        [rows EXCEPT ![s].enabled = ~@],
                        [rows EXCEPT ![s] = Absent]}
          /\ UNCHANGED authGen
     \/ YouTube # {} /\ authGen' = authGen + 1 /\ UNCHANGED rows
  /\ editor' = [at |-> "written", ids |-> {}]
  /\ UNCHANGED <<view, dirty, request, mgrVars, worker, engVars, health, abandoned>>

\* ... then reads the needed set and marks the manager dirty (Resync), ...
Resync ==
  /\ editor.at = "written"
  /\ editor' = [at |-> "marked", ids |-> view]
  /\ dirty' = TRUE
  /\ UNCHANGED <<rows, authGen, view, request, mgrVars, worker, engVars, health, events, abandoned>>

\* ... and only then sends its request, which may be out of date by now.
ResyncRequest ==
  /\ editor.at = "marked"
  /\ RequestSync(editor.ids)
  /\ editor' = [at |-> "idle", ids |-> {}]
  /\ UNCHANGED <<rows, authGen, view, dirty, mgrVars, worker, engVars, health, events, abandoned>>

-----------------------------------------------------------------------------
(* Manager.sync.                                                           *)

Go(to) == sync' = [sync EXCEPT !.at = to]

Receive ==
  /\ sync.at = "idle"
  /\ \E ids \in request :
       IF Settled(ids) THEN UNCHANGED sync
       ELSE sync' = [AtRest EXCEPT !.at = "clear", !.ids = ids]
  /\ request' = {}
  /\ UNCHANGED <<dbVars, dirty, applied, registered, hwInUse, worker, engVars, health, events, abandoned>>

\* dirty is cleared before the rows are read, so that an edit that comes too
\* late for this pass marks the manager dirty for the next one.
ClearDirty ==
  /\ sync.at = "clear"
  /\ dirty' = FALSE
  /\ Go("load")
  /\ UNCHANGED <<dbVars, request, applied, registered, hwInUse, worker, engVars, health, events, abandoned>>

\* One query; a disabled source is reported as such.
Load ==
  /\ sync.at = "load"
  /\ sync' = [sync EXCEPT !.at = "diff", !.ids = {},
                !.loaded = [s \in Sources |-> IF s \in sync.ids THEN rows[s] ELSE Absent]]
  /\ health' = [s \in Sources |->
                 IF s \in sync.ids /\ rows[s].there /\ ~rows[s].enabled
                   THEN "disabled" ELSE health[s]]
  /\ UNCHANGED <<dbVars, dirty, request, applied, registered, hwInUse, worker, engVars, events, abandoned>>

\* Mutant: a failed query forgets that there was something to do.
LoadFailsForgotten ==
  /\ sync.at = "load" /\ sync.ids # {}
  /\ Happens("fault")
  /\ sync' = AtRest
  /\ UNCHANGED <<dbVars, dirty, request, applied, registered, hwInUse, worker, engVars,
                 health, abandoned>>

LoadFails ==
  /\ sync.at = "load" /\ sync.ids # {}
  /\ Happens("fault")
  /\ dirty' = TRUE
  /\ sync' = AtRest
  /\ UNCHANGED <<dbVars, request, applied, registered, hwInUse, worker, engVars, health, abandoned>>

Want == {s \in Sources : sync.loaded[s].there /\ sync.loaded[s].enabled}
Stale == {s \in Want : /\ registered[s] # NoWorker
                       /\ worker[registered[s]].fp # Fingerprint(s, sync.loaded[s])}
Running == {s \in Sources : registered[s] # NoWorker}

\* Mutant: dirty is cleared after the rows were read.
DiffThenClear ==
  /\ sync.at = "diff"
  /\ sync' = [sync EXCEPT !.at = "stop", !.extra = (Running \ Want) \cup Stale,
                          !.missing = (Want \ Running) \cup Stale]
  /\ dirty' = FALSE
  /\ UNCHANGED <<dbVars, request, applied, registered, hwInUse, worker, engVars, health, events, abandoned>>

\* Workers nobody wants or whose source changed are stopped, the rest started.
Diff ==
  /\ sync.at = "diff"
  /\ sync' = [sync EXCEPT !.at = "stop", !.extra = (Running \ Want) \cup Stale,
                          !.missing = (Want \ Running) \cup Stale]
  /\ UNCHANGED <<dbVars, dirty, request, applied, registered, hwInUse, worker, engVars,
                 health, events, abandoned>>

Stopping == sync.at = "stop"

\* Mutant: the worker is stopped while the render thread may draw its slot.
PickStopStillBound ==
  /\ Stopping /\ sync.extra # {}
  /\ \E s \in sync.extra :
       sync' = [sync EXCEPT !.at = "deregister", !.cur = s, !.extra = @ \ {s}]
  /\ UNCHANGED <<dbVars, dirty, request, applied, registered, hwInUse, worker, engVars,
                 health, events, abandoned>>

PickStop ==
  /\ Stopping /\ sync.extra # {}
  /\ \E s \in sync.extra :
       sync' = [sync EXCEPT !.at = "unbind", !.cur = s, !.extra = @ \ {s}]
  /\ UNCHANGED <<dbVars, dirty, request, applied, registered, hwInUse, worker, engVars,
                 health, events, abandoned>>

\* stopOne first takes the slot away from the render thread (Engine.send) ...
Full == Len(cmds) = CmdCapacity
UnbindCmd(s) == [kind |-> "unbind", id |-> s, slot |-> NoWorker]
UnbindPending == \E k \in 1..Len(cmds) : cmds[k] = UnbindCmd(sync.cur)

SendUnbind ==
  /\ sync.at = "unbind" /\ ~Full
  /\ cmds' = Append(cmds, UnbindCmd(sync.cur))
  /\ Go("unbinding")
  /\ UNCHANGED <<dbVars, dirty, request, applied, registered, hwInUse, worker, slots,
                 health, events, abandoned>>

UnbindDone ==
  /\ sync.at = "unbinding" /\ ~UnbindPending
  /\ Go("deregister")
  /\ UNCHANGED <<dbVars, dirty, request, applied, registered, hwInUse, worker, engVars,
                 health, events, abandoned>>

\* ... but gives up after two seconds, sent or not.
UnbindTimesOut ==
  /\ \/ sync.at = "unbind" /\ Full
     \/ sync.at = "unbinding" /\ UnbindPending
  /\ Happens("stall")
  /\ Go("deregister")
  /\ UNCHANGED <<dbVars, dirty, request, applied, registered, hwInUse, worker, engVars,
                 health, abandoned>>

\* ... then forgets the worker and gives its hardware session back, whether or
\* not the worker has let go of it, ...
\* Mutant: the manager does not wait for the worker.
DeregisterUnjoined ==
  /\ sync.at = "deregister"
  /\ LET w == registered[sync.cur] IN
       /\ hwInUse' = IF worker[w].usingHW /\ hwInUse > 0 THEN hwInUse - 1 ELSE hwInUse
       /\ worker' = [worker EXCEPT ![w].cancelled = TRUE, ![w].usingHW = FALSE]
  /\ sync' = [sync EXCEPT !.at = "stop"]
  /\ registered' = [registered EXCEPT ![sync.cur] = NoWorker]
  /\ health' = [health EXCEPT ![sync.cur] = "offline"]
  /\ UNCHANGED <<dbVars, dirty, request, applied, engVars, events, abandoned>>

Deregister ==
  /\ sync.at = "deregister"
  /\ LET w == registered[sync.cur] IN
       /\ hwInUse' = IF worker[w].usingHW /\ hwInUse > 0 THEN hwInUse - 1 ELSE hwInUse
       /\ worker' = [worker EXCEPT ![w].cancelled = TRUE, ![w].usingHW = FALSE]
       /\ sync' = [sync EXCEPT !.at = "joining", !.w = w]
  /\ registered' = [registered EXCEPT ![sync.cur] = NoWorker]
  /\ UNCHANGED <<dbVars, dirty, request, applied, engVars, health, events, abandoned>>

\* ... and waits for the worker to exit, at most workerStopWait.
Stopped ==
  /\ health' = [health EXCEPT ![sync.cur] = "offline"]
  /\ sync' = [sync EXCEPT !.at = "stop", !.w = NoWorker]
  /\ UNCHANGED <<dbVars, dirty, request, applied, registered, hwInUse, worker, engVars, abandoned>>

Joined ==
  /\ sync.at = "joining" /\ worker[sync.w].phase = "gone"
  /\ Stopped
  /\ UNCHANGED events

JoinTimesOut ==
  /\ sync.at = "joining" /\ worker[sync.w].phase \in {"connecting", "live"}
  /\ Happens("wedge")
  /\ Stopped

\* Starting, in the order of the ids: reserve a hardware session if there is one.
Idle(w) == /\ worker[w].phase = "gone"
           /\ \A s \in Sources : slots[s] # w
           /\ \A k \in 1..Len(cmds) : cmds[k].slot # w
NextId == CHOOSE w \in WorkerIds : Idle(w) /\ \A v \in WorkerIds : Idle(v) => w <= v

Reserve ==
  /\ Stopping /\ sync.extra = {} /\ sync.missing # {}
  /\ \E w \in WorkerIds : Idle(w)
  /\ LET s == CHOOSE s \in sync.missing : \A t \in sync.missing : s <= t
         hw == s \in HWCapable /\ (HWCap = 0 \/ hwInUse < HWCap)
     IN /\ sync' = [sync EXCEPT !.at = "bind", !.cur = s, !.missing = @ \ {s},
                                !.hw = hw, !.w = NextId]
        /\ hwInUse' = IF hw THEN hwInUse + 1 ELSE hwInUse
  /\ UNCHANGED <<dbVars, dirty, request, applied, registered, worker, engVars, health, events, abandoned>>

SendBind ==
  /\ sync.at = "bind" /\ ~Full
  /\ cmds' = Append(cmds, [kind |-> "bind", id |-> sync.cur, slot |-> sync.w])
  /\ Go("register")
  /\ UNCHANGED <<dbVars, dirty, request, applied, registered, hwInUse, worker, slots,
                 health, events, abandoned>>

\* Mutant: the hardware session stays reserved for a worker that never starts.
BindTimesOutLeaking ==
  /\ sync.at = "bind" /\ Full
  /\ Happens("stall")
  /\ dirty' = TRUE
  /\ sync' = [sync EXCEPT !.at = "stop", !.hw = FALSE, !.w = NoWorker]
  /\ UNCHANGED <<dbVars, request, applied, registered, hwInUse, worker, engVars, health, abandoned>>

\* Mutant: the worker is started although nothing will draw its frames.
BindTimesOutStarting ==
  /\ sync.at = "bind" /\ Full
  /\ Happens("stall")
  /\ Go("register")
  /\ UNCHANGED <<dbVars, dirty, request, applied, registered, hwInUse, worker, engVars,
                 health, abandoned>>

\* The bind was not queued: no worker may start, try again later.
BindTimesOut ==
  /\ sync.at = "bind" /\ Full
  /\ Happens("stall")
  /\ hwInUse' = IF sync.hw /\ hwInUse > 0 THEN hwInUse - 1 ELSE hwInUse
  /\ dirty' = TRUE
  /\ sync' = [sync EXCEPT !.at = "stop", !.hw = FALSE, !.w = NoWorker]
  /\ UNCHANGED <<dbVars, request, applied, registered, worker, engVars, health, abandoned>>

Register ==
  /\ sync.at = "register"
  /\ LET s == sync.cur IN
       /\ registered' = [registered EXCEPT ![s] = sync.w]
       /\ worker' = [worker EXCEPT ![sync.w] =
            [phase |-> "starting", src |-> s, fp |-> Fingerprint(s, sync.loaded[s]),
             usingHW |-> sync.hw, onHW |-> FALSE, cancelled |-> FALSE]]
  /\ sync' = [sync EXCEPT !.at = "stop", !.hw = FALSE, !.w = NoWorker]
  /\ UNCHANGED <<dbVars, dirty, request, applied, hwInUse, engVars, health, events, abandoned>>

Finish ==
  /\ Stopping /\ sync.extra = {} /\ sync.missing = {}
  /\ applied' = Running
  /\ sync' = AtRest
  /\ UNCHANGED <<dbVars, dirty, request, registered, hwInUse, worker, engVars, health, events, abandoned>>

Manage ==
  \/ Receive \/ ClearDirty \/ Load \/ Diff \/ PickStop \/ SendUnbind \/ UnbindDone
  \/ Deregister \/ Joined \/ Reserve \/ SendBind \/ Register \/ Finish
GiveUp == LoadFails \/ UnbindTimesOut \/ JoinTimesOut \/ BindTimesOut

-----------------------------------------------------------------------------
(* The render thread: Engine.drain and Engine.apply.                       *)

ApplyCommand ==
  /\ cmds # << >>
  /\ cmds' = Tail(cmds)
  /\ slots' = [slots EXCEPT ![Head(cmds).id] = Head(cmds).slot]
  /\ UNCHANGED <<dbVars, dirty, request, mgrVars, worker, health, events, abandoned>>

-----------------------------------------------------------------------------
(* A worker (RunWorker, seen from outside).                                *)

Report(w, status) == health' = [health EXCEPT ![worker[w].src] = status]
WorkerOnly == UNCHANGED <<dbVars, dirty, request, applied, registered, sync, engVars>>

\* Session.Close waits two seconds for the codec to be freed and then leaves it
\* to a goroutine: the session is over, the hardware decoder may still be open.
Close(w) ==
  \/ UNCHANGED <<abandoned, events>>
  \/ worker[w].onHW /\ Happens("stuck") /\ abandoned' = abandoned + 1

\* The driver answers after all.
CodecFreed ==
  /\ abandoned > 0
  /\ abandoned' = abandoned - 1
  /\ WorkerOnly /\ UNCHANGED <<worker, hwInUse, health, events>>

\* A session begins ("reconnecting" counts as "connecting"); the hardware decoder is held from here to its end.
Connect(w) ==
  /\ worker[w].phase = "starting" /\ ~worker[w].cancelled
  /\ worker' = [worker EXCEPT ![w].phase = "connecting", ![w].onHW = worker[w].usingHW]
  /\ Report(w, "connecting")
  /\ WorkerOnly /\ UNCHANGED <<hwInUse, abandoned, events>>

FirstFrame(w) ==
  /\ worker[w].phase = "connecting"
  /\ worker' = [worker EXCEPT ![w].phase = "live"]
  /\ Report(w, IF worker[w].onHW THEN "hardware" ELSE "software")
  /\ WorkerOnly /\ UNCHANGED <<hwInUse, abandoned, events>>

\* With or without a first frame; the next session opens the decoder anew.
SessionEnds(w) ==
  /\ worker[w].phase \in {"connecting", "live"} /\ ~worker[w].cancelled
  /\ worker' = [worker EXCEPT ![w].phase = "connecting"]
  /\ Report(w, "connecting")
  /\ Close(w)
  /\ WorkerOnly /\ UNCHANGED hwInUse

\* errHWUnusable: the session is closed before the manager hears of it.
HWUnusable(w) ==
  /\ worker[w].phase = "connecting" /\ worker[w].onHW /\ ~worker[w].cancelled
  /\ worker' = [worker EXCEPT ![w].phase = "falling", ![w].onHW = FALSE]
  /\ Close(w)
  /\ WorkerOnly /\ UNCHANGED <<hwInUse, health>>

\* OnHWFallback looks the source up again, under the lock, and gives back the
\* reservation of whatever worker is registered for it now.
Fallback(w) ==
  /\ worker[w].phase = "falling"
  /\ LET r == registered[worker[w].src]
         holds == r # NoWorker /\ worker[r].usingHW
     IN /\ worker' = [v \in WorkerIds |->
             [worker[v] EXCEPT !.phase = IF v = w THEN "starting" ELSE @,
                               !.usingHW = IF v = r THEN FALSE ELSE @]]
        /\ hwInUse' = IF holds /\ hwInUse > 0 THEN hwInUse - 1 ELSE hwInUse
  /\ WorkerOnly /\ UNCHANGED <<health, abandoned, events>>

\* A cancelled worker closes its session and reports its source offline as it leaves.
Exit(w) ==
  /\ worker[w].phase \in {"starting", "connecting", "live"} /\ worker[w].cancelled
  /\ worker' = [worker EXCEPT ![w] = Gone]
  /\ Report(w, "offline")
  /\ Close(w)
  /\ WorkerOnly /\ UNCHANGED hwInUse

Progress(w) == Connect(w) \/ FirstFrame(w) \/ Fallback(w) \/ Exit(w)
Decode(w) == Progress(w) \/ SessionEnds(w) \/ HWUnusable(w)

-----------------------------------------------------------------------------

Environment == ChangeView \/ EditRow
Handler == Resync \/ ResyncRequest

Next ==
  \/ Environment \/ Handler \/ FrameRequest \/ ApplyCommand \/ CodecFreed
  \/ Manage \/ GiveUp
  \/ \E w \in WorkerIds : Decode(w)

Spec == Init /\ [][Next]_vars

\* Go schedules every goroutine that can run; the handler finishes its request,
\* the render loop keeps drawing and workers keep making progress.
Fairness ==
  /\ WF_vars(Handler) /\ WF_vars(FrameRequest) /\ WF_vars(ApplyCommand)
  /\ WF_vars(Manage)
  /\ \A w \in WorkerIds : WF_vars(Progress(w))

FairSpec == Spec /\ Fairness

-----------------------------------------------------------------------------
(* Properties.                                                             *)

Workers == [phase : {"gone", "starting", "connecting", "live", "falling"},
            src : Sources \cup {0}, fp : (0..MaxEvents) \X (0..MaxEvents),
            usingHW : BOOLEAN, onHW : BOOLEAN, cancelled : BOOLEAN]
Statuses == {"offline", "disabled", "connecting", "hardware", "software"}
Commands == [kind : {"bind"}, id : Sources, slot : WorkerIds]
            \cup {UnbindCmd(s) : s \in Sources}

Syncs == [at : {"idle", "clear", "load", "diff", "stop", "unbind", "unbinding",
                "deregister", "joining", "bind", "register"},
          ids : SUBSET Sources, loaded : [Sources -> Rows], extra : SUBSET Sources,
          missing : SUBSET Sources, cur : Sources \cup {0},
          w : WorkerIds \cup {NoWorker}, hw : BOOLEAN]

\* Every variable holds a value of its type; the command channel keeps its
\* capacity and hwInUse never exceeds the number of sources.
TypeOK ==
  /\ rows \in [Sources -> Rows] /\ authGen \in 0..MaxEvents /\ view \subseteq Sources
  /\ editor \in [at : {"idle", "written", "marked"}, ids : SUBSET Sources]
  /\ dirty \in BOOLEAN
  /\ request \in SUBSET SUBSET Sources /\ Cardinality(request) <= 1
  /\ applied \subseteq Sources /\ registered \in [Sources -> WorkerIds \cup {NoWorker}]
  /\ hwInUse \in 0..Cardinality(Sources)
  /\ sync \in Syncs
  /\ worker \in [WorkerIds -> Workers]
  /\ cmds \in Seq(Commands) /\ Len(cmds) <= CmdCapacity
  /\ slots \in [Sources -> WorkerIds \cup {NoWorker}]
  /\ health \in [Sources -> Statuses]
  /\ abandoned \in Nat /\ abandoned <= events["stuck"]
  /\ events \in [Events -> Nat] /\ Happened <= MaxEvents

\* The hardware budget is neither leaked nor given back twice: hwInUse counts the
\* registered workers that hold a reservation and the one being started.
HwBudgetBalances ==
  hwInUse = Cardinality({s \in Running : worker[registered[s]].usingHW})
            + (IF sync.hw THEN 1 ELSE 0)

OnHardware == {w \in WorkerIds : worker[w].onHW}

\* "Keep one hardware session" (effectiveMaxHW): the sessions the workers hold
\* open on hardware never outnumber the cap.
HwSessionsWithinCap == HWCap > 0 => Cardinality(OnHardware) <= HWCap

\* The decoders open on hardware: those of the sessions and those left behind.
HwDecoders == Cardinality(OnHardware) + abandoned

\* What the cap is worth: as long as every worker leaves within workerStopWait,
\* the decoders open on hardware outnumber it by at most one for every codec
\* that Session.Close gave up on.
HwCapButForAbandoned ==
  (HWCap > 0 /\ events["wedge"] = 0) => HwDecoders <= HWCap + events["stuck"]

\* A slot the render thread draws from belongs to the worker registered for that
\* source, or to the one being started: a slot is taken from the render thread
\* before its worker is cancelled, as long as the render thread is not stalled
\* for two seconds.
UnboundBeforeStopped ==
  events["stall"] = 0 =>
    \A s \in Sources : slots[s] # NoWorker =>
      \/ registered[s] = slots[s]
      \/ sync.at = "register" /\ sync.cur = s /\ sync.w = slots[s]

\* A registered worker never decodes into a slot nobody draws: its slot is
\* bound, or is about to be, unless the worker is being stopped.
RegisteredIsDrawn ==
  \A s \in Running :
    \/ slots[s] = registered[s]
    \/ \E k \in 1..Len(cmds) : cmds[k].id = s /\ cmds[k].slot = registered[s]
    \/ sync.cur = s /\ sync.at \in {"unbinding", "deregister"}

\* A settled manager, which ignores every request for the set it applied, runs
\* the workers the rows ask for: no edit falls between clearing dirty, reading
\* the rows and marking dirty again.
SettledIsCurrent ==
  (sync.at = "idle" /\ editor.at = "idle" /\ Settled(view)) =>
    \A s \in Sources :
      /\ s \in Running <=> (s \in view /\ rows[s].there /\ rows[s].enabled)
      /\ s \in Running => worker[registered[s]].fp = Fingerprint(s, rows[s])

\* What the scheduler says of a decoder is true when the manager rests: a late
\* report of a worker that was stopped never hides the state of its successor,
\* as long as every worker leaves within workerStopWait.
HealthIsTrue ==
  (sync.at = "idle" /\ events["wedge"] = 0) =>
    \A s \in Sources :
      IF s \in Running
        THEN worker[registered[s]].phase = "live" =>
               health[s] = IF worker[registered[s]].onHW THEN "hardware" ELSE "software"
        ELSE health[s] \in {"offline", "disabled"}

\* Once edits stop, the workers are those of the needed, enabled sources, with
\* the rows' last contents, and their slots are the ones drawn, for good.
Converged ==
  \A s \in Sources :
    /\ s \in Running <=> (s \in view /\ rows[s].there /\ rows[s].enabled)
    /\ s \in Running => /\ worker[registered[s]].fp = Fingerprint(s, rows[s])
                        /\ slots[s] = registered[s]
EventuallyConverged == <>[]Converged

\* "When the set is unchanged this returns without ... waking the manager":
\* once nothing changes any more and every needed source exists, the manager
\* comes to rest.
ManagerComesToRest ==
  <>[](\A s \in view : rows[s].there) => <>[](sync.at = "idle")
=============================================================================
