------------------------ MODULE IngestPipelineProofs ------------------------
(***************************************************************************)
(* The safety of the ingest manager for any sources, hardware limit,       *)
(* command channel and number of events.                                   *)
(*                                                                         *)
(* Each property needs to know where sync stands.  Roles says what the     *)
(* manager's locals mean at every position and which workers there are;    *)
(* the other invariants rest on it: Budget on what is reserved, Sound on   *)
(* what a session may hold while every worker leaves in time, Bound and    *)
(* Drawn on what waits in the command channel, Current on what the rows    *)
(* said when they were read, and Told on what was reported.                *)
(***************************************************************************)
EXTENDS IngestPipeline, NumberFacts, FiniteSetTheorems, SequenceTheorems, TLAPS

-----------------------------------------------------------------------------
(* The invariants.                                                         *)

\* TypeOK, but for the limit of hwInUse, which is a matter of the budget.  What
\* bounds a revision is the number of edits.
Types ==
  /\ rows \in [Sources -> Rows] /\ authGen \in Nat /\ view \subseteq Sources
  /\ editor \in [at : {"idle", "written", "marked"}, ids : SUBSET Sources]
  /\ dirty \in BOOLEAN
  /\ request \in SUBSET SUBSET Sources /\ Cardinality(request) <= 1
  /\ applied \subseteq Sources /\ registered \in [Sources -> WorkerIds \cup {NoWorker}]
  /\ hwInUse \in Nat
  /\ sync \in Syncs
  /\ worker \in [WorkerIds -> Workers]
  /\ cmds \in Seq(Commands) /\ Len(cmds) <= CmdCapacity
  /\ slots \in [Sources -> WorkerIds \cup {NoWorker}]
  /\ health \in [Sources -> Statuses]
  /\ events \in [Events -> Nat] /\ Happened <= MaxEvents
  /\ authGen <= events["edit"] /\ \A s \in Sources : rows[s].rev <= events["edit"]

\* Positions of sync: while it stops a worker, starts one, or is between two.
Ending == {"unbind", "unbinding", "deregister"}
Starting == {"bind", "register"}
Passing == {"stop", "joining"} \cup Ending \cup Starting

\* What is still to be stopped.
ToStop == sync.extra \cup IF sync.at \in Ending THEN {sync.cur} ELSE {}

\* A registered worker decodes its source and is not cancelled.
RegisteredRuns ==
  \A s \in Running : LET w == registered[s] IN
    w \in WorkerIds /\ worker[w].src = s /\ worker[w].phase # "gone" /\ ~worker[w].cancelled

\* A worker that is neither cancelled nor gone is registered; only such a one has
\* a reservation, and only while it has one does it use the hardware.
WorkersKnown ==
  \A w \in WorkerIds :
    IF worker[w].phase = "gone"
      THEN ~worker[w].usingHW /\ ~worker[w].onHW /\ ~worker[w].cancelled
      ELSE /\ worker[w].src \in Sources
           /\ IF worker[w].cancelled THEN ~worker[w].usingHW
              ELSE /\ registered[worker[w].src] = w
                   /\ worker[w].onHW => worker[w].usingHW
           /\ worker[w].onHW => worker[w].phase \in {"connecting", "live"}

\* A worker that falls back is registered or waited for, so the reservation it
\* gives back is its own or nobody's.
FallingKnown ==
  \A w \in WorkerIds : worker[w].phase = "falling" =>
    registered[worker[w].src] = w \/ (sync.at = "joining" /\ sync.w = w)

\* What sync has left to do, and whom it is busy with.
SyncKnows ==
  /\ sync.hw => sync.at \in Starting
  /\ sync.at \in Passing =>
       /\ sync.extra \subseteq Running
       /\ sync.missing \cap Running \subseteq ToStop
  /\ sync.at \in Ending => sync.cur \in Running \ sync.extra
  /\ sync.at = "joining" =>
       /\ sync.cur \in Sources \ Running /\ sync.w \in WorkerIds
       /\ worker[sync.w].phase # "gone" =>
            worker[sync.w].src = sync.cur /\ worker[sync.w].cancelled
  /\ sync.at \in Starting =>
       /\ sync.extra = {} /\ sync.cur \in Sources \ (Running \cup sync.missing)
       /\ sync.w \in WorkerIds /\ worker[sync.w].phase = "gone"

Roles == RegisteredRuns /\ WorkersKnown /\ FallingKnown /\ SyncKnows

HwUsers == {s \in Running : worker[registered[s]].usingHW}

\* As long as every worker leaves in time, each is registered or waited for, and
\* the one waited for leaves room for its session.
Sound ==
  /\ HWCap > 0 => hwInUse <= HWCap
  /\ events["wedge"] = 0 =>
       /\ \A w \in WorkerIds : worker[w].phase # "gone" =>
            registered[worker[w].src] = w \/ (sync.at = "joining" /\ sync.w = w)
       /\ (HWCap > 0 /\ sync.at = "joining" /\ worker[sync.w].onHW) => hwInUse < HWCap

\* As long as the render thread answers in time, a slot that is drawn or waits to
\* be drawn is that of a registered worker or of the one being started, and a
\* source whose worker is stopped is drawn no more.
MayDraw(s, w) == registered[s] = w \/ (sync.at = "register" /\ sync.cur = s /\ sync.w = w)
CutFrom(k) == \E j \in k..Len(cmds) : cmds[j] = UnbindCmd(sync.cur)
Bound ==
  events["stall"] = 0 =>
    /\ \A s \in Sources : slots[s] # NoWorker => MayDraw(s, slots[s])
    /\ \A k \in 1..Len(cmds) : cmds[k].slot # NoWorker => MayDraw(cmds[k].id, cmds[k].slot)
    /\ sync.at = "unbinding" =>
         /\ slots[sync.cur] # NoWorker => CutFrom(1)
         /\ \A k \in 1..Len(cmds) :
              cmds[k].id = sync.cur /\ cmds[k].slot # NoWorker => CutFrom(k)
    /\ sync.at = "deregister" =>
         /\ slots[sync.cur] = NoWorker
         /\ \A k \in 1..Len(cmds) : cmds[k].id = sync.cur => cmds[k].slot = NoWorker

\* Once the commands that wait have been applied, source s is drawn from w.
WillBeDrawn(s, w) ==
  \/ /\ slots[s] = w
     /\ \A k \in 1..Len(cmds) : cmds[k].id # s
  \/ \E k \in 1..Len(cmds) :
       /\ cmds[k].id = s /\ cmds[k].slot = w
       /\ \A j \in (k + 1)..Len(cmds) : cmds[j].id # s

Drawn ==
  /\ \A s \in Running :
       WillBeDrawn(s, registered[s]) \/ (sync.cur = s /\ sync.at \in {"unbinding", "deregister"})
  /\ sync.at = "register" => WillBeDrawn(sync.cur, sync.w)

\* No edit was made that the manager does not know of.
Clean == ~dirty /\ editor.at # "written"
Current ==
  /\ (sync.at = "idle" /\ Clean) =>
       /\ applied = Running
       /\ \A s \in Running : /\ rows[s].there /\ rows[s].enabled
                             /\ worker[registered[s]].fp = Fingerprint(s, rows[s])
  /\ (sync.at \in Passing \cup {"diff"} /\ Clean) =>
       \A s \in Want : sync.loaded[s] = rows[s]
  /\ sync.at \in Passing =>
       /\ Running \ Want \subseteq ToStop /\ sync.missing \subseteq Want
       /\ sync.at \in Starting => sync.cur \in Want
       /\ Clean => \A s \in Running \ ToStop :
            worker[registered[s]].fp = Fingerprint(s, sync.loaded[s])

\* What was reported last of a worker on its first frame, and of no worker.
Told ==
  events["wedge"] = 0 =>
    \A s \in Sources :
      IF s \in Running
        THEN worker[registered[s]].phase = "live" =>
               \/ health[s] = IF worker[registered[s]].onHW THEN "hardware" ELSE "software"
               \/ sync.at \in Passing \cup {"diff"} /\ s \notin Want
        ELSE health[s] \in {"offline", "disabled"} \/ (sync.at = "joining" /\ sync.cur = s)

-----------------------------------------------------------------------------
(* Types.                                                                  *)

LEMMA HappensCounts ==
  ASSUME Types, NEW e \in Events, Happens(e)
  PROVE  /\ events' \in [Events -> Nat] /\ Happened' <= MaxEvents
         /\ events'[e] = events[e] + 1
         /\ \A f \in Events : events'[f] >= events[f] /\ (f # e => events'[f] = events[f])
<1>1. events' = [events EXCEPT ![e] = @ + 1] /\ Happened + 1 <= MaxEvents
  BY PipelineAssumption DEF Types, Happens, Happened, Events
<1>2. /\ events' \in [Events -> Nat] /\ events'[e] = events[e] + 1
      /\ \A f \in Events : events'[f] >= events[f] /\ (f # e => events'[f] = events[f])
  BY <1>1 DEF Types
<1>3. Happened' = Happened + 1
  <2>1. \A f \in Events : events[f] \in Nat /\ events'[f] = IF f = e THEN events[f] + 1 ELSE events[f]
    BY <1>1 DEF Types
  <2> DEFINE n(f) == events[f]
             m(f) == events'[f]
  <2>2. \A f \in Events : n(f) \in Nat /\ m(f) = IF f = e THEN n(f) + 1 ELSE n(f)
    BY <2>1
  <2>3. /\ Happened = n("edit") + n("view") + n("fault") + n("stall") + n("wedge") + n("stuck")
        /\ Happened' = m("edit") + m("view") + m("fault") + m("stall") + m("wedge") + m("stuck")
    BY DEF Happened
  <2> HIDE DEF n, m
  <2>4. CASE e \in {"edit", "view", "fault"}
    BY <2>2, <2>3, <2>4 DEF Events
  <2>5. CASE e \in {"stall", "wedge", "stuck"}
    BY <2>2, <2>3, <2>5 DEF Events
  <2> QED
    BY <2>4, <2>5 DEF Events
<1> QED
  BY <1>1, <1>2, <1>3

LEMMA OneRequest ==
  ASSUME Types, NEW ids \in SUBSET Sources, RequestSync(ids)
  PROVE  request' \in SUBSET SUBSET Sources /\ Cardinality(request') <= 1
<1>1. \A x : Cardinality({x}) = 1
  BY FS_Singleton
<1>2. CASE request' = {ids}
  <2>1. Cardinality(request') = 1
    BY <1>1, <1>2, Zenon
  <2> QED
    BY <1>2, <2>1
<1>3. CASE request' = request
  BY <1>3 DEF Types
<1> QED
  BY <1>2, <1>3 DEF RequestSync

LEMMA CommandShape ==
  /\ \A c \in Commands : c.id \in Sources /\ c.slot \in WorkerIds \cup {NoWorker}
  /\ \A s \in Sources : UnbindCmd(s) \in Commands
  /\ \A s \in Sources, w \in WorkerIds : [kind |-> "bind", id |-> s, slot |-> w] \in Commands
  BY DEF Commands, UnbindCmd

LEMMA InitTypes == Init => Types
<1> SUFFICES ASSUME Init PROVE Types
  OBVIOUS
<1>1. Cardinality(request) <= 1 /\ request \in SUBSET SUBSET Sources
  BY FS_EmptySet DEF Init
<1>2. Happened = 0 /\ events \in [Events -> Nat] /\ events["edit"] = 0
  BY DEF Init, Happened, Events
<1>3. worker \in [WorkerIds -> Workers]
  BY PipelineAssumption DEF Init, Gone, Workers
<1>4. rows \in [Sources -> Rows] /\ \A s \in Sources : rows[s].rev = 0
  BY PipelineAssumption DEF Init, Rows
<1>5. sync \in Syncs
  BY PipelineAssumption DEF Init, AtRest, Syncs, Absent, Rows
<1>6. cmds \in Seq(Commands) /\ Len(cmds) <= CmdCapacity
  BY PipelineAssumption DEF Init
<1>7. registered \in [Sources -> WorkerIds \cup {NoWorker}] /\ slots = registered
  BY DEF Init
<1>8. /\ editor \in [at : {"idle", "written", "marked"}, ids : SUBSET Sources]
      /\ health \in [Sources -> Statuses]
  BY DEF Init, Statuses
<1>9. /\ authGen \in Nat /\ hwInUse \in Nat /\ dirty \in BOOLEAN
      /\ applied \subseteq Sources /\ view \subseteq Sources
  BY DEF Init
<1>10. /\ authGen <= events["edit"] /\ Happened <= MaxEvents
       /\ \A s \in Sources : rows[s].rev <= events["edit"]
  BY <1>2, <1>4, PipelineAssumption DEF Init
<1> QED
  BY <1>1, <1>2, <1>3, <1>4, <1>5, <1>6, <1>7, <1>8, <1>9, <1>10 DEF Types

\* What each step of the environment, the handler and the render thread sets.
LEMMA OutsideKeepsTypes ==
  ASSUME Types, Environment \/ Handler \/ FrameRequest \/ ApplyCommand
  PROVE  Types'
<1>1. CASE ChangeView
  BY <1>1, HappensCounts DEF ChangeView, Types, Events, mgrVars, engVars
<1>2. CASE EditRow
  <2>1. /\ events' \in [Events -> Nat] /\ Happened' <= MaxEvents
        /\ events'["edit"] = events["edit"] + 1 /\ events'["edit"] <= MaxEvents
    BY <1>2, HappensCounts, PipelineAssumption DEF EditRow, Events, Happened
  <2>2. ASSUME NEW s \in Sources, rows[s].there,
               rows' \in {[rows EXCEPT ![s].rev = @ + 1], [rows EXCEPT ![s].enabled = ~@],
                          [rows EXCEPT ![s] = Absent]}
        PROVE  rows' \in [Sources -> Rows] /\ \A t \in Sources : rows'[t].rev <= events'["edit"]
    <3> DEFINE Good(r) == r \in Rows /\ r.rev <= events'["edit"]
    <3>1. \A t \in Sources : Good(rows[t]) /\ rows[t].rev <= events["edit"]
      BY <2>1 DEF Types, Rows, Events
    <3>2. Good([rows[s] EXCEPT !.rev = @ + 1])
      <4>1. events["edit"] \in Nat
        BY DEF Types, Events
      <4>2. rows[s] \in Rows /\ rows[s].rev + 1 \in 0..MaxEvents
        BY <2>1, <3>1, <4>1, PipelineAssumption DEF Rows
      <4> QED
        BY <2>1, <3>1, <4>1, <4>2 DEF Rows
    <3>3. Good([rows[s] EXCEPT !.enabled = ~@])
      BY <3>1 DEF Rows
    <3>4. Good(Absent)
      BY <2>1, PipelineAssumption DEF Rows, Absent, Events
    <3> HIDE DEF Good
    <3>5. /\ DOMAIN rows' = Sources
          /\ \A t \in Sources : Good(rows'[t])
      BY <2>2, <3>1, <3>2, <3>3, <3>4 DEF Types
    <3>6. rows' = [t \in Sources |-> rows'[t]]
      BY <2>2 DEF Types
    <3> QED
      BY <3>5, <3>6 DEF Good
  <2>3. /\ rows' \in [Sources -> Rows] /\ authGen' \in Nat
        /\ authGen' <= events'["edit"] /\ \A t \in Sources : rows'[t].rev <= events'["edit"]
    <3>1. CASE UNCHANGED authGen
      <4>1. authGen \in Nat /\ authGen <= events'["edit"]
        BY <2>1 DEF Types, Events
      <4>2. \/ \E s \in Sources : rows[s].there /\ rows' \in
                  {[rows EXCEPT ![s].rev = @ + 1], [rows EXCEPT ![s].enabled = ~@],
                   [rows EXCEPT ![s] = Absent]}
            \/ UNCHANGED rows
        BY <1>2 DEF EditRow
      <4>3. CASE UNCHANGED rows
        BY <2>1, <3>1, <4>1, <4>3 DEF Types, Events, Rows
      <4> QED
        BY <2>2, <3>1, <4>1, <4>2, <4>3
    <3>2. CASE authGen' = authGen + 1 /\ rows' = rows
      BY <2>1, <3>2 DEF Types, Events, Rows
    <3> QED
      BY <1>2, <3>1, <3>2 DEF EditRow
  <2> QED
    BY <1>2, <2>1, <2>3 DEF EditRow, Types, mgrVars, engVars
<1>3. CASE Resync
  BY <1>3 DEF Resync, Types, mgrVars, engVars, Happened
<1>4. CASE ResyncRequest
  <2>1. request' \in SUBSET SUBSET Sources /\ Cardinality(request') <= 1
    BY <1>4, OneRequest DEF ResyncRequest, Types
  <2> QED
    BY <1>4, <2>1 DEF ResyncRequest, Types, mgrVars, engVars, Happened
<1>5. CASE FrameRequest
  <2>1. request' \in SUBSET SUBSET Sources /\ Cardinality(request') <= 1
    BY <1>5, OneRequest DEF FrameRequest, Types
  <2> QED
    BY <1>5, <2>1 DEF FrameRequest, Types, dbVars, mgrVars, engVars, Happened
<1>6. CASE ApplyCommand
  <2>1. cmds' \in Seq(Commands) /\ Len(cmds') <= CmdCapacity /\ Head(cmds) \in Commands
    BY <1>6, PipelineAssumption DEF ApplyCommand, Types
  <2>2. slots' \in [Sources -> WorkerIds \cup {NoWorker}]
    BY <1>6, <2>1, CommandShape DEF ApplyCommand, Types
  <2> QED
    BY <1>6, <2>1, <2>2 DEF ApplyCommand, Types, dbVars, mgrVars, Happened
<1> QED
  BY <1>1, <1>2, <1>3, <1>4, <1>5, <1>6 DEF Environment, Handler

LEMMA NextIdIsIdle ==
  ASSUME NEW w \in WorkerIds, Idle(w)
  PROVE  NextId \in WorkerIds /\ Idle(NextId)
<1>1. \E v \in {v \in WorkerIds : Idle(v)} : \A u \in {u \in WorkerIds : Idle(u)} : v <= u
  BY LeastElement, PipelineAssumption
<1> QED
  BY <1>1 DEF NextId

LEMMA FirstMissing ==
  ASSUME NEW S \in SUBSET Sources, S # {}
  PROVE  (CHOOSE s \in S : \A t \in S : s <= t) \in S
<1>1. \E s \in S : \A t \in S : s <= t
  BY LeastElement, PipelineAssumption
<1> QED
  BY <1>1

\* Most steps of the manager change little besides its locals.
LEMMA SyncOnlyKeepsTypes ==
  ASSUME Types, sync' \in Syncs, hwInUse' \in Nat, cmds' \in Seq(Commands),
         Len(cmds') <= CmdCapacity, dirty' \in BOOLEAN,
         UNCHANGED <<dbVars, request, applied, registered, worker, slots, health>>,
         UNCHANGED events \/ \E e \in Events : Happens(e)
  PROVE  Types'
<1>1. /\ events' \in [Events -> Nat] /\ Happened' <= MaxEvents
      /\ events'["edit"] >= events["edit"]
  BY HappensCounts DEF Types, Events, Happened
<1> QED
  BY <1>1 DEF Types, dbVars, Events, Rows

LEMMA ManagerKeepsTypes ==
  ASSUME Types, Roles, Manage \/ GiveUp
  PROVE  Types'
<1>0. /\ sync \in Syncs /\ AtRest \in Syncs /\ hwInUse \in Nat /\ dirty \in BOOLEAN
      /\ cmds \in Seq(Commands) /\ Len(cmds) <= CmdCapacity
  BY PipelineAssumption DEF Types, AtRest, Syncs, Absent, Rows
<1>1. CASE ClearDirty
  <2>1. sync' \in Syncs
    BY <1>0, <1>1 DEF ClearDirty, Go, Syncs
  <2>2. hwInUse' \in Nat /\ dirty' \in BOOLEAN
    BY <1>0, <1>1 DEF ClearDirty
  <2>3. cmds' \in Seq(Commands) /\ Len(cmds') <= CmdCapacity
    BY <1>0, <1>1 DEF ClearDirty, engVars
  <2>4. UNCHANGED <<dbVars, request, applied, registered, worker, slots, health>>
    BY <1>1 DEF ClearDirty, engVars
  <2>5. UNCHANGED events \/ \E e \in Events : Happens(e)
    BY <1>1 DEF ClearDirty, Events
  <2> QED
    BY <2>1, <2>2, <2>3, <2>4, <2>5, SyncOnlyKeepsTypes
<1>2. CASE LoadFails
  <2>1. sync' \in Syncs
    BY <1>0, <1>2 DEF LoadFails, Go, Syncs
  <2>2. hwInUse' \in Nat /\ dirty' \in BOOLEAN
    BY <1>0, <1>2 DEF LoadFails
  <2>3. cmds' \in Seq(Commands) /\ Len(cmds') <= CmdCapacity
    BY <1>0, <1>2 DEF LoadFails, engVars
  <2>4. UNCHANGED <<dbVars, request, applied, registered, worker, slots, health>>
    BY <1>2 DEF LoadFails, engVars
  <2>5. UNCHANGED events \/ \E e \in Events : Happens(e)
    BY <1>2 DEF LoadFails, Events
  <2> QED
    BY <2>1, <2>2, <2>3, <2>4, <2>5, SyncOnlyKeepsTypes
<1>3. CASE Diff
  <2>1. sync' \in Syncs
    BY <1>0, <1>3 DEF Diff, Go, Syncs, Running, Want, Stale
  <2>2. hwInUse' \in Nat /\ dirty' \in BOOLEAN
    BY <1>0, <1>3 DEF Diff
  <2>3. cmds' \in Seq(Commands) /\ Len(cmds') <= CmdCapacity
    BY <1>0, <1>3 DEF Diff, engVars
  <2>4. UNCHANGED <<dbVars, request, applied, registered, worker, slots, health>>
    BY <1>3 DEF Diff, engVars
  <2>5. UNCHANGED events \/ \E e \in Events : Happens(e)
    BY <1>3 DEF Diff, Events
  <2> QED
    BY <2>1, <2>2, <2>3, <2>4, <2>5, SyncOnlyKeepsTypes
<1>4. CASE PickStop
  <2>1. sync' \in Syncs
    BY <1>0, <1>4 DEF PickStop, Go, Syncs
  <2>2. hwInUse' \in Nat /\ dirty' \in BOOLEAN
    BY <1>0, <1>4 DEF PickStop
  <2>3. cmds' \in Seq(Commands) /\ Len(cmds') <= CmdCapacity
    BY <1>0, <1>4 DEF PickStop, engVars
  <2>4. UNCHANGED <<dbVars, request, applied, registered, worker, slots, health>>
    BY <1>4 DEF PickStop, engVars
  <2>5. UNCHANGED events \/ \E e \in Events : Happens(e)
    BY <1>4 DEF PickStop, Events
  <2> QED
    BY <2>1, <2>2, <2>3, <2>4, <2>5, SyncOnlyKeepsTypes
<1>5. CASE SendUnbind
  <2>0. UnbindCmd(sync.cur) \in Commands
    BY <1>0, <1>5, CommandShape DEF SendUnbind, Roles, SyncKnows, Ending, Running
  <2>1. sync' \in Syncs
    BY <1>0, <1>5 DEF SendUnbind, Go, Syncs
  <2>2. hwInUse' \in Nat /\ dirty' \in BOOLEAN
    BY <1>0, <1>5 DEF SendUnbind
  <2>3. cmds' \in Seq(Commands) /\ Len(cmds') <= CmdCapacity
    BY <1>0, <1>5, <2>0, PipelineAssumption DEF SendUnbind, Full
  <2>4. UNCHANGED <<dbVars, request, applied, registered, worker, slots, health>>
    BY <1>5 DEF SendUnbind, engVars
  <2>5. UNCHANGED events \/ \E e \in Events : Happens(e)
    BY <1>5 DEF SendUnbind, Events
  <2> QED
    BY <2>1, <2>2, <2>3, <2>4, <2>5, SyncOnlyKeepsTypes
<1>6. CASE UnbindDone
  <2>1. sync' \in Syncs
    BY <1>0, <1>6 DEF UnbindDone, Go, Syncs
  <2>2. hwInUse' \in Nat /\ dirty' \in BOOLEAN
    BY <1>0, <1>6 DEF UnbindDone
  <2>3. cmds' \in Seq(Commands) /\ Len(cmds') <= CmdCapacity
    BY <1>0, <1>6 DEF UnbindDone, engVars
  <2>4. UNCHANGED <<dbVars, request, applied, registered, worker, slots, health>>
    BY <1>6 DEF UnbindDone, engVars
  <2>5. UNCHANGED events \/ \E e \in Events : Happens(e)
    BY <1>6 DEF UnbindDone, Events
  <2> QED
    BY <2>1, <2>2, <2>3, <2>4, <2>5, SyncOnlyKeepsTypes
<1>7. CASE UnbindTimesOut
  <2>1. sync' \in Syncs
    BY <1>0, <1>7 DEF UnbindTimesOut, Go, Syncs
  <2>2. hwInUse' \in Nat /\ dirty' \in BOOLEAN
    BY <1>0, <1>7 DEF UnbindTimesOut
  <2>3. cmds' \in Seq(Commands) /\ Len(cmds') <= CmdCapacity
    BY <1>0, <1>7 DEF UnbindTimesOut, engVars
  <2>4. UNCHANGED <<dbVars, request, applied, registered, worker, slots, health>>
    BY <1>7 DEF UnbindTimesOut, engVars
  <2>5. UNCHANGED events \/ \E e \in Events : Happens(e)
    BY <1>7 DEF UnbindTimesOut, Events
  <2> QED
    BY <2>1, <2>2, <2>3, <2>4, <2>5, SyncOnlyKeepsTypes
<1>8. CASE Reserve
  <2>0. PICK w \in WorkerIds : Idle(w)
    BY <1>8 DEF Reserve
  <2>a. NextId \in WorkerIds /\ Idle(NextId)
    BY <2>0, NextIdIsIdle
  <2>b. (CHOOSE s \in sync.missing : \A t \in sync.missing : s <= t) \in sync.missing
    BY <1>0, <1>8, FirstMissing DEF Reserve, Syncs
  <2>1. sync' \in Syncs
    BY <1>0, <1>8, <2>a, <2>b DEF Reserve, Syncs
  <2>2. hwInUse' \in Nat /\ dirty' \in BOOLEAN
    BY <1>0, <1>8 DEF Reserve
  <2>3. cmds' \in Seq(Commands) /\ Len(cmds') <= CmdCapacity
    BY <1>0, <1>8 DEF Reserve, engVars
  <2>4. UNCHANGED <<dbVars, request, applied, registered, worker, slots, health>>
    BY <1>8 DEF Reserve, engVars
  <2>5. UNCHANGED events \/ \E e \in Events : Happens(e)
    BY <1>8 DEF Reserve, Events
  <2> QED
    BY <2>1, <2>2, <2>3, <2>4, <2>5, SyncOnlyKeepsTypes
<1>9. CASE SendBind
  <2>0. [kind |-> "bind", id |-> sync.cur, slot |-> sync.w] \in Commands
    BY <1>0, <1>9, CommandShape DEF SendBind, Roles, SyncKnows, Starting
  <2>1. sync' \in Syncs
    BY <1>0, <1>9 DEF SendBind, Go, Syncs
  <2>2. hwInUse' \in Nat /\ dirty' \in BOOLEAN
    BY <1>0, <1>9 DEF SendBind
  <2>3. cmds' \in Seq(Commands) /\ Len(cmds') <= CmdCapacity
    BY <1>0, <1>9, <2>0, PipelineAssumption DEF SendBind, Full
  <2>4. UNCHANGED <<dbVars, request, applied, registered, worker, slots, health>>
    BY <1>9 DEF SendBind, engVars
  <2>5. UNCHANGED events \/ \E e \in Events : Happens(e)
    BY <1>9 DEF SendBind, Events
  <2> QED
    BY <2>1, <2>2, <2>3, <2>4, <2>5, SyncOnlyKeepsTypes
<1>10. CASE BindTimesOut
  <2>1. sync' \in Syncs
    BY <1>0, <1>10 DEF BindTimesOut, Go, Syncs
  <2>2. hwInUse' \in Nat /\ dirty' \in BOOLEAN
    BY <1>0, <1>10 DEF BindTimesOut
  <2>3. cmds' \in Seq(Commands) /\ Len(cmds') <= CmdCapacity
    BY <1>0, <1>10 DEF BindTimesOut, engVars
  <2>4. UNCHANGED <<dbVars, request, applied, registered, worker, slots, health>>
    BY <1>10 DEF BindTimesOut, engVars
  <2>5. UNCHANGED events \/ \E e \in Events : Happens(e)
    BY <1>10 DEF BindTimesOut, Events
  <2> QED
    BY <2>1, <2>2, <2>3, <2>4, <2>5, SyncOnlyKeepsTypes
<1>11. CASE Receive
  <2>1. sync' \in Syncs
    <3>1. PICK ids \in request : IF Settled(ids) THEN UNCHANGED sync
                                 ELSE sync' = [AtRest EXCEPT !.at = "clear", !.ids = ids]
      BY <1>11 DEF Receive
    <3>2. ids \in SUBSET Sources
      BY <3>1 DEF Types
    <3> QED
      BY <1>0, <3>1, <3>2 DEF Syncs
  <2>2. request' \in SUBSET SUBSET Sources /\ Cardinality(request') <= 1
    BY <1>11, FS_EmptySet DEF Receive
  <2> QED
    BY <1>11, <2>1, <2>2 DEF Receive, Types, dbVars, engVars, Happened
<1>12. CASE Load
  <2>1. sync' \in Syncs
    <3>1. [s \in Sources |-> IF s \in sync.ids THEN rows[s] ELSE Absent] \in [Sources -> Rows]
      BY PipelineAssumption DEF Types, Absent, Rows
    <3> QED
      BY <1>0, <1>12, <3>1 DEF Load, Syncs
  <2>2. health' \in [Sources -> Statuses]
    BY <1>12 DEF Load, Types, Statuses
  <2> QED
    BY <1>12, <2>1, <2>2 DEF Load, Types, dbVars, engVars, Happened
<1>13. CASE Deregister
  <2> DEFINE w == registered[sync.cur]
  <2>1. sync.cur \in Sources /\ w \in WorkerIds
    BY <1>13 DEF Deregister, Roles, SyncKnows, RegisteredRuns, Ending, Running
  <2>2. sync' \in Syncs
    BY <1>0, <1>13, <2>1 DEF Deregister, Syncs
  <2>3. worker' \in [WorkerIds -> Workers]
    <3>1. worker[w] \in Workers
      BY <2>1 DEF Types
    <3>2. [worker[w] EXCEPT !.cancelled = TRUE, !.usingHW = FALSE] \in Workers
      BY <3>1 DEF Workers
    <3>3. worker' = [worker EXCEPT ![w] = [worker[w] EXCEPT !.cancelled = TRUE, !.usingHW = FALSE]]
      BY <1>13, <2>1, <3>1 DEF Deregister, Types, Workers
    <3> QED
      BY <3>2, <3>3 DEF Types
  <2>4. registered' \in [Sources -> WorkerIds \cup {NoWorker}]
    BY <1>13 DEF Deregister, Types
  <2>5. hwInUse' \in Nat
    BY <1>0, <1>13 DEF Deregister
  <2> QED
    BY <1>13, <2>2, <2>3, <2>4, <2>5 DEF Deregister, Types, dbVars, engVars, Happened
<1>14. CASE Joined \/ JoinTimesOut
  <2>1. sync' \in Syncs
    BY <1>0, <1>14 DEF Joined, JoinTimesOut, Stopped, Syncs
  <2>2. health' \in [Sources -> Statuses]
    BY <1>14 DEF Joined, JoinTimesOut, Stopped, Types, Statuses
  <2>3. UNCHANGED events \/ Happens("wedge")
    BY <1>14 DEF Joined, JoinTimesOut
  <2>4. /\ events' \in [Events -> Nat] /\ Happened' <= MaxEvents
        /\ events'["edit"] >= events["edit"]
    BY <2>3, HappensCounts DEF Types, Events, Happened
  <2> QED
    BY <1>14, <2>1, <2>2, <2>4 DEF Joined, JoinTimesOut, Stopped, Types, dbVars, engVars, Events, Rows
<1>15. CASE Register
  <2>1. sync.cur \in Sources /\ sync.w \in WorkerIds
    BY <1>15 DEF Register, Roles, SyncKnows, Starting
  <2>2. sync' \in Syncs
    BY <1>0, <1>15 DEF Register, Syncs
  <2>3. Fingerprint(sync.cur, sync.loaded[sync.cur]) \in (0..MaxEvents) \X (0..MaxEvents)
    <3>1. sync.loaded[sync.cur].rev \in 0..MaxEvents
      BY <1>0, <2>1 DEF Syncs, Rows
    <3>2. authGen \in 0..MaxEvents
      BY PipelineAssumption DEF Types, Happened, Events
    <3> QED
      BY <3>1, <3>2, PipelineAssumption DEF Fingerprint
  <2>4. worker' \in [WorkerIds -> Workers]
    BY <1>0, <1>15, <2>1, <2>3 DEF Register, Types, Workers, Syncs
  <2>5. registered' \in [Sources -> WorkerIds \cup {NoWorker}]
    BY <1>15, <2>1 DEF Register, Types
  <2> QED
    BY <1>15, <2>2, <2>4, <2>5 DEF Register, Types, dbVars, engVars, Happened
<1>16. CASE Finish
  BY <1>0, <1>16 DEF Finish, Types, dbVars, engVars, Happened, Running
<1> QED
  BY <1>1, <1>2, <1>3, <1>4, <1>5, <1>6, <1>7, <1>8, <1>9, <1>10, <1>11, <1>12, <1>13,
     <1>14, <1>15, <1>16 DEF Manage, GiveUp

\* The fields of any worker after a step of worker w.
LEMMA FallbackFields ==
  ASSUME Types, NEW w \in WorkerIds, Fallback(w), NEW v \in WorkerIds
  PROVE  /\ worker'[v] \in Workers
         /\ worker'[v].phase = IF v = w THEN "starting" ELSE worker[v].phase
         /\ worker'[v].src = worker[v].src /\ worker'[v].fp = worker[v].fp
         /\ worker'[v].usingHW = (v # registered[worker[w].src] /\ worker[v].usingHW)
         /\ worker'[v].onHW = worker[v].onHW /\ worker'[v].cancelled = worker[v].cancelled
<1> DEFINE r == registered[worker[w].src]
<1>1. worker[v] \in Workers
  BY DEF Types
<1>2. worker'[v] = [worker[v] EXCEPT !.phase = IF v = w THEN "starting" ELSE @,
                                     !.usingHW = IF v = r THEN FALSE ELSE @]
  BY DEF Fallback
<1> HIDE DEF r
<1>3. CASE v = w
  BY <1>1, <1>2, <1>3 DEF Workers, r
<1>4. CASE v # w
  BY <1>1, <1>2, <1>4 DEF Workers, r
<1> QED
  BY <1>3, <1>4

SessionStep(w) == Connect(w) \/ FirstFrame(w) \/ SessionEnds(w) \/ HWUnusable(w)

LEMMA StepFields ==
  ASSUME Types, NEW w \in WorkerIds, SessionStep(w), NEW v \in WorkerIds
  PROVE  /\ worker'[v] \in Workers
         /\ worker'[v].src = worker[v].src /\ worker'[v].fp = worker[v].fp
         /\ worker'[v].usingHW = worker[v].usingHW /\ worker'[v].cancelled = worker[v].cancelled
         /\ v # w => worker'[v] = worker[v]
         /\ Connect(w) => worker'[w].phase = "connecting" /\ worker'[w].onHW = worker[w].usingHW
         /\ FirstFrame(w) => worker'[w].phase = "live" /\ worker'[w].onHW = worker[w].onHW
         /\ SessionEnds(w) => worker'[w].phase = "connecting" /\ worker'[w].onHW = worker[w].onHW
         /\ HWUnusable(w) => worker'[w].phase = "falling" /\ worker'[w].onHW = FALSE
<1>1. worker[w] \in Workers /\ worker[w].onHW \in BOOLEAN /\ worker[w].usingHW \in BOOLEAN
  BY DEF Types, Workers
<1>2. ASSUME NEW p \in {"starting", "connecting", "live", "falling"}, NEW on \in BOOLEAN,
             worker' = [worker EXCEPT ![w] = [worker[w] EXCEPT !.phase = p, !.onHW = on]]
      PROVE  /\ worker'[v] \in Workers
             /\ worker'[v].src = worker[v].src /\ worker'[v].fp = worker[v].fp
             /\ worker'[v].usingHW = worker[v].usingHW
             /\ worker'[v].cancelled = worker[v].cancelled
             /\ v # w => worker'[v] = worker[v]
             /\ worker'[w].phase = p /\ worker'[w].onHW = on
  <2>1. worker'[w] = [worker[w] EXCEPT !.phase = p, !.onHW = on]
    BY <1>2 DEF Types
  <2>2. v # w => worker'[v] = worker[v] /\ worker[v] \in Workers
    BY <1>2 DEF Types
  <2>3. /\ worker'[w] \in Workers /\ worker'[w].phase = p /\ worker'[w].onHW = on
        /\ worker'[w].src = worker[w].src /\ worker'[w].fp = worker[w].fp
        /\ worker'[w].usingHW = worker[w].usingHW
        /\ worker'[w].cancelled = worker[w].cancelled
    <3>1. CASE on = TRUE
      BY <1>1, <2>1, <3>1 DEF Workers
    <3>2. CASE on = FALSE
      BY <1>1, <2>1, <3>2 DEF Workers
    <3> QED
      BY <3>1, <3>2
  <2>4. CASE v = w
    BY <2>3, <2>4
  <2>5. CASE v # w
    BY <2>2, <2>3, <2>5, Zenon
  <2> QED
    BY <2>4, <2>5
<1>3. CASE Connect(w)
  <2>1. worker' = [worker EXCEPT ![w] = [worker[w] EXCEPT !.phase = "connecting",
                                                          !.onHW = worker[w].usingHW]]
    BY <1>3 DEF Connect, Types, Workers
  <2>2. ~FirstFrame(w) /\ ~SessionEnds(w) /\ ~HWUnusable(w)
    BY <1>3 DEF Connect, FirstFrame, SessionEnds, HWUnusable
  <2> QED
    BY <1>1, <1>2, <2>1, <2>2
<1>4. CASE FirstFrame(w)
  <2>1. worker' = [worker EXCEPT ![w] = [worker[w] EXCEPT !.phase = "live",
                                                          !.onHW = worker[w].onHW]]
    BY <1>1, <1>4 DEF FirstFrame, Types, Workers
  <2>2. ~Connect(w) /\ worker'[w].phase = "live"
    BY <1>1, <1>2, <1>4, <2>1 DEF Connect, FirstFrame
  <2>3. ~HWUnusable(w) /\ ~SessionEnds(w)
    BY <1>1, <2>2 DEF HWUnusable, SessionEnds, Types, Workers
  <2> QED
    BY <1>1, <1>2, <2>1, <2>2, <2>3
<1>5. CASE SessionEnds(w)
  <2>1. worker' = [worker EXCEPT ![w] = [worker[w] EXCEPT !.phase = "connecting",
                                                          !.onHW = worker[w].onHW]]
    BY <1>1, <1>5 DEF SessionEnds, Types, Workers
  <2>2. ~Connect(w) /\ worker'[w].phase = "connecting"
    BY <1>1, <1>2, <1>5, <2>1 DEF Connect, SessionEnds
  <2>3. ~FirstFrame(w) /\ ~HWUnusable(w)
    BY <1>1, <2>2 DEF FirstFrame, HWUnusable, Types, Workers
  <2> QED
    BY <1>1, <1>2, <2>1, <2>2, <2>3
<1>6. CASE HWUnusable(w)
  <2>1. worker' = [worker EXCEPT ![w] = [worker[w] EXCEPT !.phase = "falling", !.onHW = FALSE]]
    BY <1>6 DEF HWUnusable, Types, Workers
  <2>2. ~Connect(w) /\ worker'[w].phase = "falling"
    BY <1>1, <1>2, <1>6, <2>1 DEF Connect, HWUnusable
  <2>3. ~FirstFrame(w) /\ ~SessionEnds(w)
    BY <1>1, <2>2 DEF FirstFrame, SessionEnds, Types, Workers
  <2> QED
    BY <1>1, <1>2, <2>1, <2>2, <2>3
<1> QED
  BY <1>3, <1>4, <1>5, <1>6 DEF SessionStep

LEMMA WorkersKeepTypes ==
  ASSUME Types, Roles, NEW w \in WorkerIds, Decode(w)
  PROVE  Types'
<1>0. /\ worker[w] \in Workers /\ worker[w].phase # "gone" /\ worker[w].src \in Sources
  BY DEF Types, Roles, WorkersKnown, Decode, Progress, Connect, FirstFrame, Fallback, Exit,
         SessionEnds, HWUnusable
<1>1. /\ UNCHANGED <<dbVars, request, dirty, applied, registered, sync, engVars>>
      /\ events' \in [Events -> Nat] /\ Happened' <= MaxEvents
      /\ events'["edit"] = events["edit"]
  <2>1. UNCHANGED <<dbVars, request, dirty, applied, registered, sync, engVars>>
    BY DEF Decode, Progress, Connect, FirstFrame, Fallback, Exit, SessionEnds, HWUnusable,
           WorkerOnly
  <2>2. UNCHANGED events \/ Happens("stuck")
    BY DEF Decode, Progress, Connect, FirstFrame, Fallback, Exit, SessionEnds, HWUnusable, Close
  <2>3. CASE UNCHANGED events
    BY <2>1, <2>3 DEF Types, Happened
  <2>4. CASE Happens("stuck")
    BY <2>1, <2>4, HappensCounts DEF Events
  <2> QED
    BY <2>1, <2>2, <2>3, <2>4
<1>2. hwInUse' \in Nat
  <2>1. hwInUse' = hwInUse \/ (hwInUse > 0 /\ hwInUse' = hwInUse - 1)
    BY DEF Decode, Progress, Connect, FirstFrame, Fallback, Exit, SessionEnds, HWUnusable
  <2> QED
    BY <2>1 DEF Types
<1>3. health' \in [Sources -> Statuses]
  BY <1>0 DEF Types, Statuses, Report, Decode, Progress, Connect, FirstFrame, Fallback, Exit,
              SessionEnds, HWUnusable
<1>4. worker' \in [WorkerIds -> Workers]
  <2>1. CASE SessionStep(w)
    <3>1. \A v \in WorkerIds : worker'[v] \in Workers
      BY <2>1, StepFields
    <3>2. worker' = [v \in WorkerIds |-> worker'[v]]
      BY <2>1 DEF SessionStep, Connect, FirstFrame, SessionEnds, HWUnusable, Types
    <3> QED
      BY <3>1, <3>2
  <2>2. CASE Exit(w)
    BY <2>2, PipelineAssumption DEF Exit, Gone, Types, Workers
  <2>3. CASE Fallback(w)
    <3>1. \A v \in WorkerIds : worker'[v] \in Workers
      BY <2>3, FallbackFields
    <3>2. worker' = [v \in WorkerIds |-> worker'[v]]
      BY <2>3 DEF Fallback
    <3> QED
      BY <3>1, <3>2
  <2> QED
    BY <2>1, <2>2, <2>3 DEF Decode, Progress, SessionStep
<1> QED
  BY <1>1, <1>2, <1>3, <1>4 DEF Types, dbVars, engVars

-----------------------------------------------------------------------------
(* Roles.                                                                  *)

LEMMA InitRoles == Init => Roles
<1> SUFFICES ASSUME Init PROVE Roles
  OBVIOUS
<1>1. Running = {}
  BY DEF Init, Running
<1>2. \A w \in WorkerIds : worker[w] = Gone
  BY DEF Init
<1>3. sync.at = "idle" /\ sync.hw = FALSE
  BY DEF Init, AtRest
<1>4. RegisteredRuns /\ WorkersKnown /\ FallingKnown
  BY <1>1, <1>2 DEF RegisteredRuns, WorkersKnown, FallingKnown, Gone
<1>5. SyncKnows
  BY <1>3 DEF SyncKnows, Passing, Ending, Starting
<1> QED
  BY <1>4, <1>5 DEF Roles

\* Who is registered and what the workers do is not changed by most steps.
LEMMA SameWorkers ==
  ASSUME Roles, UNCHANGED <<registered, worker>>,
         UNCHANGED sync \/ (sync.at = "joining" => worker[sync.w].phase # "falling")
  PROVE  RegisteredRuns' /\ WorkersKnown' /\ FallingKnown' /\ Running' = Running
<1>1. Running' = Running
  BY DEF Running
<1>2. RegisteredRuns'
  BY <1>1 DEF Roles, RegisteredRuns
<1>3. WorkersKnown'
  BY DEF Roles, WorkersKnown
<1>4. FallingKnown'
  BY DEF Roles, FallingKnown
<1> QED
  BY <1>1, <1>2, <1>3, <1>4

LEMMA OutsideKeepsRoles ==
  ASSUME Roles, UNCHANGED <<registered, worker, sync>>
  PROVE  Roles'
<1>1. RegisteredRuns' /\ WorkersKnown' /\ FallingKnown' /\ Running' = Running
  BY SameWorkers
<1>2. SyncKnows'
  BY <1>1 DEF Roles, SyncKnows, ToStop
<1> QED
  BY <1>1, <1>2 DEF Roles

LEMMA ManagerKeepsRoles ==
  ASSUME Types, Roles, Manage \/ GiveUp, ~Deregister, ~Register
  PROVE  Roles'
<1>0. /\ sync \in Syncs /\ SyncKnows
      /\ Running \subseteq Sources /\ UNCHANGED <<registered, worker>>
  BY DEF Types, Roles, Running, Manage, GiveUp, Receive, ClearDirty, Load, Diff, PickStop,
         SendUnbind, UnbindDone, Joined, Stopped, Reserve, SendBind, Finish, LoadFails,
         UnbindTimesOut, JoinTimesOut, BindTimesOut
<1>1. UNCHANGED sync \/ (sync.at = "joining" => worker[sync.w].phase # "falling")
  BY DEF Manage, GiveUp, Receive, ClearDirty, Load, Diff, PickStop, SendUnbind, UnbindDone,
         Joined, Reserve, SendBind, Finish, LoadFails, UnbindTimesOut, JoinTimesOut,
         BindTimesOut, Stopping
<1>2. RegisteredRuns' /\ WorkersKnown' /\ FallingKnown' /\ Running' = Running
  BY <1>0, <1>1, SameWorkers
<1>3. CASE Receive \/ ClearDirty \/ Load \/ LoadFails \/ Finish
  <2>1. sync.hw = FALSE /\ AtRest.hw = FALSE /\ AtRest.at = "idle"
    <3>1. sync.at \notin Starting
      BY <1>3 DEF Receive, ClearDirty, Load, LoadFails, Finish, Starting, Stopping
    <3> QED
      BY <1>0, <3>1 DEF SyncKnows, AtRest, Syncs
  <2>2. UNCHANGED sync \/ (sync'.hw = FALSE /\ sync'.at \in {"idle", "clear", "load", "diff"})
    <3>1. CASE Receive
      <4>1. UNCHANGED sync \/ \E ids : sync' = [AtRest EXCEPT !.at = "clear", !.ids = ids]
        BY <3>1 DEF Receive
      <4> QED
        BY <4>1 DEF AtRest
    <3>2. CASE ClearDirty \/ Load
      BY <1>0, <2>1, <3>2 DEF ClearDirty, Load, Go, Syncs
    <3>3. CASE LoadFails \/ Finish
      BY <2>1, <3>3 DEF LoadFails, Finish
    <3> QED
      BY <1>3, <3>1, <3>2, <3>3
  <2>3. CASE UNCHANGED sync
    BY <1>0, <2>3, OutsideKeepsRoles
  <2>4. CASE sync'.hw = FALSE /\ sync'.at \in {"idle", "clear", "load", "diff"}
    <3>1. SyncKnows'
      BY <2>4 DEF SyncKnows, Passing, Ending, Starting
    <3> QED
      BY <1>2, <3>1 DEF Roles
  <2> QED
    BY <2>2, <2>3, <2>4
<1>4. CASE Diff
  <2>1. /\ sync'.at = "stop" /\ sync'.hw = sync.hw /\ sync'.extra = (Running \ Want) \cup Stale
        /\ sync'.missing = (Want \ Running) \cup Stale
    BY <1>0, <1>4 DEF Diff, Syncs
  <2>2. sync.at = "diff" /\ Stale \subseteq Running
    BY <1>4 DEF Diff, Stale, Want, Running
  <2>3. SyncKnows'
    BY <1>0, <1>2, <2>1, <2>2 DEF SyncKnows, Passing, Ending, Starting, ToStop
  <2> QED
    BY <1>2, <2>3 DEF Roles
<1>5. CASE PickStop
  <2>1. PICK s \in sync.extra : sync' = [sync EXCEPT !.at = "unbind", !.cur = s, !.extra = @ \ {s}]
    BY <1>5 DEF PickStop
  <2>2. /\ sync'.at = "unbind" /\ sync'.cur = s /\ sync'.extra = sync.extra \ {s}
        /\ sync'.hw = sync.hw /\ sync'.missing = sync.missing
    BY <1>0, <2>1 DEF Syncs
  <2>3. SyncKnows'
    BY <1>0, <1>2, <1>5, <2>2 DEF PickStop, Stopping, SyncKnows, Passing, Ending, Starting, ToStop
  <2> QED
    BY <1>2, <2>3 DEF Roles
<1>6. CASE SendUnbind \/ UnbindDone \/ UnbindTimesOut
  <2>1. /\ sync'.at \in {"unbinding", "deregister"} /\ sync.at \in Ending
        /\ sync'.cur = sync.cur /\ sync'.extra = sync.extra
        /\ sync'.hw = sync.hw /\ sync'.missing = sync.missing
    BY <1>0, <1>6 DEF SendUnbind, UnbindDone, UnbindTimesOut, Go, Syncs, Ending
  <2>2. SyncKnows'
    BY <1>0, <1>2, <2>1 DEF SyncKnows, Passing, Ending, Starting, ToStop
  <2> QED
    BY <1>2, <2>2 DEF Roles
<1>7. CASE Joined \/ JoinTimesOut
  <2>1. /\ sync.at = "joining" /\ sync'.at = "stop" /\ sync'.extra = sync.extra
        /\ sync'.hw = sync.hw /\ sync'.missing = sync.missing
    BY <1>0, <1>7 DEF Joined, JoinTimesOut, Stopped, Syncs
  <2>2. SyncKnows'
    BY <1>0, <1>2, <2>1 DEF SyncKnows, Passing, Ending, Starting, ToStop
  <2> QED
    BY <1>2, <2>2 DEF Roles
<1>8. CASE Reserve
  <2>0. PICK w \in WorkerIds : Idle(w)
    BY <1>8 DEF Reserve
  <2>1. NextId \in WorkerIds /\ worker[NextId].phase = "gone"
    BY <2>0, NextIdIsIdle DEF Idle
  <2> DEFINE s == CHOOSE s \in sync.missing : \A t \in sync.missing : s <= t
  <2>2. s \in sync.missing
    BY <1>0, <1>8, FirstMissing DEF Reserve, Syncs
  <2>3. /\ sync'.at = "bind" /\ sync'.cur = s /\ sync'.extra = sync.extra
        /\ sync'.missing = sync.missing \ {s} /\ sync'.w = NextId
    BY <1>0, <1>8 DEF Reserve, Syncs
  <2>4. sync.at = "stop" /\ sync.extra = {}
    BY <1>8 DEF Reserve, Stopping
  <2> HIDE DEF s
  <2>5. s \in Sources \ Running
    BY <1>0, <2>2, <2>4 DEF SyncKnows, Passing, ToStop, Ending, Syncs
  <2>6. SyncKnows'
    BY <1>0, <1>2, <2>1, <2>2, <2>3, <2>4, <2>5 DEF SyncKnows, Passing, Ending, Starting, ToStop
  <2> QED
    BY <1>2, <2>6 DEF Roles
<1>9. CASE SendBind
  <2>1. /\ sync'.at = "register" /\ sync.at = "bind" /\ sync'.cur = sync.cur
        /\ sync'.extra = sync.extra /\ sync'.hw = sync.hw /\ sync'.missing = sync.missing
        /\ sync'.w = sync.w
    BY <1>0, <1>9 DEF SendBind, Go, Syncs
  <2>2. SyncKnows'
    BY <1>0, <1>2, <2>1 DEF SyncKnows, Passing, Ending, Starting, ToStop
  <2> QED
    BY <1>2, <2>2 DEF Roles
<1>10. CASE BindTimesOut
  <2>1. /\ sync'.at = "stop" /\ sync.at = "bind" /\ sync'.hw = FALSE
        /\ sync'.extra = sync.extra /\ sync'.missing = sync.missing
    BY <1>0, <1>10 DEF BindTimesOut, Syncs
  <2>2. SyncKnows'
    BY <1>0, <1>2, <2>1 DEF SyncKnows, Passing, Ending, Starting, ToStop
  <2> QED
    BY <1>2, <2>2 DEF Roles
<1> QED
  BY <1>3, <1>4, <1>5, <1>6, <1>7, <1>8, <1>9, <1>10 DEF Manage, GiveUp

\* Two sources never have the same worker.
LEMMA OwnWorker ==
  ASSUME Types, RegisteredRuns, NEW s \in Running, NEW t \in Running,
         registered[s] = registered[t]
  PROVE  s = t
  BY DEF RegisteredRuns

\* Deregister cancels one worker, which is registered no more.
LEMMA DeregisterFields ==
  ASSUME Types, Roles, Deregister
  PROVE  /\ sync.cur \in Running /\ registered[sync.cur] \in WorkerIds
         /\ Running' = Running \ {sync.cur}
         /\ \A s \in Sources : registered'[s] =
              IF s = sync.cur THEN NoWorker ELSE registered[s]
         /\ \A v \in WorkerIds :
              /\ worker'[v].phase = worker[v].phase /\ worker'[v].src = worker[v].src
              /\ worker'[v].fp = worker[v].fp /\ worker'[v].onHW = worker[v].onHW
              /\ IF v = registered[sync.cur]
                   THEN worker'[v].cancelled /\ ~worker'[v].usingHW
                   ELSE worker'[v] = worker[v]
         /\ sync'.at = "joining" /\ sync'.w = registered[sync.cur] /\ sync'.cur = sync.cur
         /\ sync'.hw = sync.hw /\ sync'.extra = sync.extra /\ sync'.missing = sync.missing
         /\ sync'.loaded = sync.loaded
<1> DEFINE w == registered[sync.cur]
<1>1. sync.cur \in Running /\ sync.cur \in Sources /\ w \in WorkerIds
  BY DEF Deregister, Roles, SyncKnows, RegisteredRuns, Ending, Running
<1>2. \A s \in Sources : registered'[s] = IF s = sync.cur THEN NoWorker ELSE registered[s]
  BY DEF Deregister, Types
<1>3. Running' = Running \ {sync.cur}
  BY <1>2 DEF Running
<1>4. ASSUME NEW v \in WorkerIds, v # w
      PROVE  worker'[v] = worker[v]
  BY <1>4 DEF Deregister, Types
<1>5. worker[w] \in Workers
  BY <1>1 DEF Types
<1>6. worker'[w] = [worker[w] EXCEPT !.cancelled = TRUE, !.usingHW = FALSE]
  BY <1>1, <1>5 DEF Deregister, Types, Workers
<1>7. /\ worker'[w].phase = worker[w].phase /\ worker'[w].src = worker[w].src
      /\ worker'[w].fp = worker[w].fp /\ worker'[w].onHW = worker[w].onHW
      /\ worker'[w].cancelled /\ ~worker'[w].usingHW
  BY <1>5, <1>6 DEF Workers
<1>8. /\ sync'.at = "joining" /\ sync'.w = w /\ sync'.cur = sync.cur
      /\ sync'.hw = sync.hw /\ sync'.extra = sync.extra /\ sync'.missing = sync.missing
      /\ sync'.loaded = sync.loaded
  BY DEF Deregister, Types, Syncs
<1> HIDE DEF w
<1>9. ASSUME NEW v \in WorkerIds
      PROVE  /\ worker'[v].phase = worker[v].phase /\ worker'[v].src = worker[v].src
             /\ worker'[v].fp = worker[v].fp /\ worker'[v].onHW = worker[v].onHW
             /\ IF v = w THEN worker'[v].cancelled /\ ~worker'[v].usingHW
                ELSE worker'[v] = worker[v]
  <2>1. CASE v = w
    BY <1>7, <2>1, Zenon
  <2>2. CASE v # w
    BY <1>4, <2>2, Zenon
  <2> QED
    BY <2>1, <2>2
<1> QED
  BY <1>1, <1>2, <1>3, <1>8, <1>9 DEF w

\* Register makes one worker, which nobody had, the worker of its source.
LEMMA RegisterFields ==
  ASSUME Types, Roles, Register
  PROVE  /\ sync.cur \in Sources \ Running /\ sync.w \in WorkerIds
         /\ sync.extra = {} /\ sync.cur \notin sync.missing
         /\ worker[sync.w].phase = "gone"
         /\ Running' = Running \cup {sync.cur}
         /\ \A s \in Sources : registered'[s] = IF s = sync.cur THEN sync.w ELSE registered[s]
         /\ \A s \in Running : registered[s] # sync.w
         /\ \A v \in WorkerIds : v # sync.w => worker'[v] = worker[v]
         /\ worker'[sync.w].phase = "starting" /\ worker'[sync.w].src = sync.cur
         /\ worker'[sync.w].fp = Fingerprint(sync.cur, sync.loaded[sync.cur])
         /\ (worker'[sync.w].usingHW <=> sync.hw)
         /\ ~worker'[sync.w].onHW /\ ~worker'[sync.w].cancelled
         /\ sync'.at = "stop" /\ ~sync'.hw /\ sync'.cur = sync.cur
         /\ sync'.extra = sync.extra /\ sync'.missing = sync.missing
         /\ sync'.loaded = sync.loaded
<1>1. /\ sync.cur \in Sources \ Running /\ sync.w \in WorkerIds
      /\ sync.extra = {} /\ sync.cur \notin sync.missing /\ worker[sync.w].phase = "gone"
  BY DEF Register, Roles, SyncKnows, Starting
<1>2. \A s \in Sources : registered'[s] = IF s = sync.cur THEN sync.w ELSE registered[s]
  BY DEF Register, Types
<1>3. sync.w # NoWorker
  BY <1>1, PipelineAssumption DEF NoWorker
<1>4. Running' = Running \cup {sync.cur}
  BY <1>1, <1>2, <1>3 DEF Running
<1>5. \A s \in Running : registered[s] # sync.w
  BY <1>1 DEF Roles, RegisteredRuns
<1>6. \A v \in WorkerIds : v # sync.w => worker'[v] = worker[v]
  BY DEF Register, Types
<1>7. worker'[sync.w] =
         [phase |-> "starting", src |-> sync.cur,
          fp |-> Fingerprint(sync.cur, sync.loaded[sync.cur]),
          usingHW |-> sync.hw, onHW |-> FALSE, cancelled |-> FALSE]
  BY <1>1 DEF Register, Types
<1>8. /\ worker'[sync.w].phase = "starting" /\ worker'[sync.w].src = sync.cur
      /\ worker'[sync.w].fp = Fingerprint(sync.cur, sync.loaded[sync.cur])
      /\ (worker'[sync.w].usingHW <=> sync.hw)
      /\ ~worker'[sync.w].onHW /\ ~worker'[sync.w].cancelled
  <2>1. sync.hw \in BOOLEAN
    BY DEF Types, Syncs
  <2>2. CASE sync.hw = TRUE
    BY <1>7, <2>2
  <2>3. CASE sync.hw = FALSE
    BY <1>7, <2>3
  <2> QED
    BY <2>1, <2>2, <2>3
<1>9. /\ sync'.at = "stop" /\ ~sync'.hw /\ sync'.cur = sync.cur
      /\ sync'.extra = sync.extra /\ sync'.missing = sync.missing
      /\ sync'.loaded = sync.loaded
  BY DEF Register, Types, Syncs
<1> QED
  BY <1>1, <1>2, <1>4, <1>5, <1>6, <1>8, <1>9

LEMMA DeregisterKeepsRoles ==
  ASSUME Types, Roles, Deregister
  PROVE  Roles'
<1> DEFINE w == registered[sync.cur]
<1> USE DeregisterFields
<1>1. sync.at = "deregister" /\ sync.cur \in Sources
  BY DEF Deregister, Running
<1>2. RegisteredRuns /\ WorkersKnown /\ FallingKnown /\ SyncKnows
  BY DEF Roles
<1>3. RegisteredRuns'
  <2> SUFFICES ASSUME NEW s \in Running'
               PROVE  /\ registered'[s] \in WorkerIds /\ worker'[registered'[s]].src = s
                      /\ worker'[registered'[s]].phase # "gone"
                      /\ ~worker'[registered'[s]].cancelled
    BY Zenon DEF RegisteredRuns
  <2>1. s \in Running /\ s # sync.cur /\ s \in Sources /\ registered'[s] = registered[s]
    BY DEF Running
  <2>2. registered[s] # w
    BY <1>2, <2>1, OwnWorker
  <2> QED
    BY <1>2, <2>1, <2>2 DEF RegisteredRuns
<1>4. WorkersKnown'
  <2> SUFFICES ASSUME NEW v \in WorkerIds
      PROVE  IF worker'[v].phase = "gone"
               THEN ~worker'[v].usingHW /\ ~worker'[v].onHW /\ ~worker'[v].cancelled
               ELSE /\ worker'[v].src \in Sources
                    /\ IF worker'[v].cancelled THEN ~worker'[v].usingHW
                       ELSE /\ registered'[worker'[v].src] = v
                            /\ worker'[v].onHW => worker'[v].usingHW
                    /\ worker'[v].onHW => worker'[v].phase \in {"connecting", "live"}
    BY Zenon DEF WorkersKnown
  <2>1. CASE v = w
    <3>1. worker[v].phase # "gone" /\ worker[v].src \in Sources
      BY <1>1, <1>2, <2>1 DEF RegisteredRuns
    <3>2. worker[v].onHW => worker[v].phase \in {"connecting", "live"}
      BY <1>2, <3>1 DEF WorkersKnown
    <3> QED
      BY <2>1, <3>1, <3>2
  <2>2. CASE v # w
    <3>1. worker'[v] = worker[v]
      BY <2>2
    <3>2. worker[v].src # sync.cur \/ worker[v].phase = "gone" \/ worker[v].cancelled
      BY <1>2, <2>2 DEF WorkersKnown
    <3> QED
      BY <1>2, <3>1, <3>2 DEF WorkersKnown
  <2> QED
    BY <2>1, <2>2
<1>5. FallingKnown'
  <2> SUFFICES ASSUME NEW v \in WorkerIds, worker'[v].phase = "falling"
               PROVE  registered'[worker'[v].src] = v \/ (sync'.at = "joining" /\ sync'.w = v)
    BY DEF FallingKnown
  <2>1. registered[worker[v].src] = v /\ worker[v].src \in Sources
    BY <1>1, <1>2 DEF FallingKnown, WorkersKnown
  <2> QED
    BY <2>1
<1>6. SyncKnows'
  <2>1. ~sync'.hw
    BY <1>1, <1>2 DEF SyncKnows, Starting
  <2>2. /\ sync.extra \subseteq Running /\ sync.cur \notin sync.extra
        /\ sync.missing \cap Running \subseteq sync.extra \cup {sync.cur}
    BY <1>1, <1>2 DEF SyncKnows, Passing, Ending, ToStop
  <2>3. worker'[w].src = sync.cur /\ worker'[w].cancelled
    BY <1>2 DEF RegisteredRuns
  <2> QED
    BY <1>1, <2>1, <2>2, <2>3 DEF SyncKnows, Passing, Ending, Starting, ToStop
<1> QED
  BY <1>3, <1>4, <1>5, <1>6 DEF Roles

LEMMA RegisterKeepsRoles ==
  ASSUME Types, Roles, Register
  PROVE  Roles'
<1> USE RegisterFields
<1>2. RegisteredRuns /\ WorkersKnown /\ FallingKnown /\ SyncKnows /\ sync.at = "register"
  BY DEF Roles, Register
<1>3. RegisteredRuns'
  <2> SUFFICES ASSUME NEW s \in Running'
               PROVE  /\ registered'[s] \in WorkerIds /\ worker'[registered'[s]].src = s
                      /\ worker'[registered'[s]].phase # "gone"
                      /\ ~worker'[registered'[s]].cancelled
    BY Zenon DEF RegisteredRuns
  <2>1. CASE s = sync.cur
    BY <2>1
  <2>2. CASE s # sync.cur
    <3>1. s \in Running /\ s \in Sources /\ registered'[s] = registered[s]
      BY <2>2 DEF Running
    <3> QED
      BY <1>2, <3>1 DEF RegisteredRuns
  <2> QED
    BY <2>1, <2>2
<1>4. WorkersKnown'
  <2> SUFFICES ASSUME NEW v \in WorkerIds
      PROVE  IF worker'[v].phase = "gone"
               THEN ~worker'[v].usingHW /\ ~worker'[v].onHW /\ ~worker'[v].cancelled
               ELSE /\ worker'[v].src \in Sources
                    /\ IF worker'[v].cancelled THEN ~worker'[v].usingHW
                       ELSE /\ registered'[worker'[v].src] = v
                            /\ worker'[v].onHW => worker'[v].usingHW
                    /\ worker'[v].onHW => worker'[v].phase \in {"connecting", "live"}
    BY Zenon DEF WorkersKnown
  <2>1. CASE v = sync.w
    BY <2>1
  <2>2. CASE v # sync.w
    <3>1. worker'[v] = worker[v]
      BY <2>2
    <3>2. worker[v].src # sync.cur \/ worker[v].phase = "gone" \/ worker[v].cancelled
      BY <1>2, PipelineAssumption DEF WorkersKnown, Running, NoWorker
    <3> QED
      BY <1>2, <3>1, <3>2 DEF WorkersKnown
  <2> QED
    BY <2>1, <2>2
<1>5. FallingKnown'
  <2> SUFFICES ASSUME NEW v \in WorkerIds, worker'[v].phase = "falling"
               PROVE  registered'[worker'[v].src] = v \/ (sync'.at = "joining" /\ sync'.w = v)
    BY DEF FallingKnown
  <2>0. v # sync.w /\ worker'[v] = worker[v]
    OBVIOUS
  <2>1. registered[worker[v].src] = v /\ worker[v].src \in Sources
    BY <1>2, <2>0 DEF FallingKnown, WorkersKnown
  <2>2. worker[v].src # sync.cur
    BY <2>1, PipelineAssumption DEF Running, NoWorker
  <2> QED
    BY <2>0, <2>1, <2>2
<1>6. SyncKnows'
  <2>1. sync.missing \cap Running \subseteq {}
    BY <1>2 DEF SyncKnows, Passing, Ending, Starting, ToStop
  <2> QED
    BY <1>2, <2>1 DEF SyncKnows, Passing, Ending, Starting, ToStop
<1> QED
  BY <1>3, <1>4, <1>5, <1>6 DEF Roles

\* A worker's steps leave it where it is registered; only Exit makes it gone.
LEMMA StaysRegistered ==
  ASSUME Types, Roles, UNCHANGED <<registered, sync>>,
         \A v \in WorkerIds : /\ worker'[v].src = worker[v].src
                              /\ worker'[v].cancelled = worker[v].cancelled
                              /\ worker'[v].phase = "gone" <=> worker[v].phase = "gone"
  PROVE  RegisteredRuns' /\ SyncKnows' /\ Running' = Running
<1>1. Running' = Running
  BY DEF Running
<1>2. RegisteredRuns'
  <2> SUFFICES ASSUME NEW s \in Running
               PROVE  /\ registered[s] \in WorkerIds /\ worker'[registered[s]].src = s
                      /\ worker'[registered[s]].phase # "gone"
                      /\ ~worker'[registered[s]].cancelled
    BY <1>1 DEF RegisteredRuns
  <2>1. /\ registered[s] \in WorkerIds /\ worker[registered[s]].src = s
        /\ worker[registered[s]].phase # "gone" /\ ~worker[registered[s]].cancelled
    BY DEF Roles, RegisteredRuns
  <2> QED
    BY <2>1
<1>3. SyncKnows'
  <2>1. ASSUME sync.w \in WorkerIds
        PROVE  /\ worker'[sync.w].src = worker[sync.w].src
               /\ worker'[sync.w].cancelled = worker[sync.w].cancelled
               /\ worker'[sync.w].phase = "gone" <=> worker[sync.w].phase = "gone"
    BY <2>1
  <2> QED
    BY <1>1, <2>1 DEF Roles, SyncKnows, ToStop
<1> QED
  BY <1>1, <1>2, <1>3

LEMMA WorkersKeepRoles ==
  ASSUME Types, Roles, NEW w \in WorkerIds, Decode(w)
  PROVE  Roles'
<1>0. /\ UNCHANGED <<registered, sync>>
      /\ RegisteredRuns /\ WorkersKnown /\ FallingKnown /\ SyncKnows
  BY DEF Decode, Progress, Connect, FirstFrame, Fallback, Exit, SessionEnds, HWUnusable,
         WorkerOnly, Roles
<1>1. CASE SessionStep(w)
  <2>0. /\ worker[w].phase \in {"starting", "connecting", "live"}
        /\ worker[w].src \in Sources
        /\ worker[w].cancelled => FirstFrame(w)
    BY <1>0, <1>1 DEF SessionStep, Connect, FirstFrame, SessionEnds, HWUnusable, WorkersKnown
  <2>1. worker'[w].phase \in {"connecting", "live", "falling"}
    BY <1>1, StepFields DEF SessionStep
  <2>2. \A v \in WorkerIds :
          /\ worker'[v].src = worker[v].src /\ worker'[v].cancelled = worker[v].cancelled
          /\ worker'[v].usingHW = worker[v].usingHW
          /\ v # w => worker'[v] = worker[v]
    BY <1>1, StepFields
  <2>3. \A v \in WorkerIds : worker'[v].phase = "gone" <=> worker[v].phase = "gone"
    BY <2>0, <2>1, <2>2
  <2>4. RegisteredRuns' /\ SyncKnows'
    BY <1>0, <2>2, <2>3, StaysRegistered
  <2>5. worker'[w].onHW => /\ worker'[w].phase \in {"connecting", "live"}
                           /\ ~worker[w].cancelled => worker[w].usingHW
    BY <1>0, <1>1, <2>0, StepFields DEF SessionStep, WorkersKnown
  <2>6. WorkersKnown'
    <3> SUFFICES ASSUME NEW v \in WorkerIds
        PROVE  IF worker'[v].phase = "gone"
                 THEN ~worker'[v].usingHW /\ ~worker'[v].onHW /\ ~worker'[v].cancelled
                 ELSE /\ worker'[v].src \in Sources
                      /\ IF worker'[v].cancelled THEN ~worker'[v].usingHW
                         ELSE /\ registered'[worker'[v].src] = v
                              /\ worker'[v].onHW => worker'[v].usingHW
                      /\ worker'[v].onHW => worker'[v].phase \in {"connecting", "live"}
      BY Zenon DEF WorkersKnown
    <3>1. CASE v = w
      <4>1. IF worker[w].cancelled THEN ~worker[w].usingHW ELSE registered[worker[w].src] = w
        BY <1>0, <2>0 DEF WorkersKnown
      <4>2. worker'[w].phase # "gone" /\ worker'[w].src \in Sources
        BY <2>0, <2>1, <2>2
      <4>3. /\ worker'[w].cancelled = worker[w].cancelled
            /\ worker'[w].usingHW = worker[w].usingHW /\ registered' = registered
            /\ worker'[w].src = worker[w].src
        BY <1>0, <2>2
      <4> QED
        BY <2>5, <3>1, <4>1, <4>2, <4>3, Zenon
    <3>2. CASE v # w
      BY <1>0, <2>2, <3>2 DEF WorkersKnown
    <3> QED
      BY <3>1, <3>2
  <2>7. FallingKnown'
    <3>1. worker'[w].phase = "falling" => registered[worker[w].src] = w
      BY <1>0, <1>1, <2>0, StepFields DEF SessionStep, HWUnusable, WorkersKnown
    <3> QED
      BY <1>0, <2>2, <3>1 DEF FallingKnown
  <2> QED
    BY <2>4, <2>6, <2>7 DEF Roles
<1>2. CASE Exit(w)
  <2>0. worker[w].cancelled /\ worker[w].phase # "falling" /\ worker[w].phase # "gone"
    BY <1>2 DEF Exit
  <2>1. \A v \in WorkerIds : worker'[v] = IF v = w THEN Gone ELSE worker[v]
    BY <1>2 DEF Exit, Types
  <2>2. Running' = Running
    BY <1>0 DEF Running
  <2>3. RegisteredRuns'
    BY <1>0, <2>0, <2>1, <2>2 DEF RegisteredRuns
  <2>4. WorkersKnown'
    BY <1>0, <2>1 DEF WorkersKnown, Gone
  <2>5. FallingKnown'
    BY <1>0, <2>1 DEF FallingKnown, Gone
  <2>6. SyncKnows'
    BY <1>0, <2>0, <2>1, <2>2 DEF SyncKnows, ToStop, Gone
  <2> QED
    BY <2>3, <2>4, <2>5, <2>6 DEF Roles
<1>3. CASE Fallback(w)
  <2>0. worker[w].phase = "falling"
    BY <1>3 DEF Fallback
  <2>2. \A v \in WorkerIds :
          /\ worker'[v].src = worker[v].src /\ worker'[v].cancelled = worker[v].cancelled
          /\ worker'[v].phase = IF v = w THEN "starting" ELSE worker[v].phase
          /\ worker'[v].onHW = worker[v].onHW
    BY <1>3, FallbackFields
  <2>3. \A v \in WorkerIds : worker'[v].usingHW =
          (v # registered[worker[w].src] /\ worker[v].usingHW)
    BY <1>3, FallbackFields
  <2>4. \A v \in WorkerIds : worker'[v].phase = "gone" <=> worker[v].phase = "gone"
    BY <2>0, <2>2
  <2>5. RegisteredRuns' /\ SyncKnows'
    BY <1>0, <2>2, <2>4, StaysRegistered
  <2>6. FallingKnown'
    BY <1>0, <2>2 DEF FallingKnown
  <2>7. WorkersKnown'
    <3> SUFFICES ASSUME NEW v \in WorkerIds
        PROVE  IF worker'[v].phase = "gone"
                 THEN ~worker'[v].usingHW /\ ~worker'[v].onHW /\ ~worker'[v].cancelled
                 ELSE /\ worker'[v].src \in Sources
                      /\ IF worker'[v].cancelled THEN ~worker'[v].usingHW
                         ELSE /\ registered'[worker'[v].src] = v
                              /\ worker'[v].onHW => worker'[v].usingHW
                      /\ worker'[v].onHW => worker'[v].phase \in {"connecting", "live"}
      BY Zenon DEF WorkersKnown
    <3>1. ~worker[w].onHW /\ worker[w].src \in Sources
      BY <1>0, <2>0 DEF WorkersKnown
    <3>2. registered[worker[w].src] \in {w, NoWorker}
      BY <1>0, <2>0, <3>1 DEF FallingKnown, SyncKnows, Running
    <3>3. CASE v = w
      <4>1. IF worker[w].cancelled THEN ~worker[w].usingHW ELSE registered[worker[w].src] = w
        BY <1>0, <2>0 DEF WorkersKnown
      <4>2. /\ worker'[w].phase = "starting" /\ worker'[w].src = worker[w].src
            /\ worker'[w].cancelled = worker[w].cancelled /\ worker'[w].onHW = worker[w].onHW
            /\ worker'[w].usingHW => worker[w].usingHW
        BY <2>2, <2>3
      <4> QED
        BY <1>0, <3>1, <3>3, <4>1, <4>2
    <3>4. CASE v # w
      <4>1. v # registered[worker[w].src]
        BY <3>2, <3>4, PipelineAssumption DEF NoWorker
      <4>2. /\ worker'[v].phase = worker[v].phase /\ worker'[v].src = worker[v].src
            /\ worker'[v].cancelled = worker[v].cancelled /\ worker'[v].onHW = worker[v].onHW
            /\ worker'[v].usingHW <=> worker[v].usingHW
        BY <2>2, <2>3, <3>4, <4>1
      <4> QED
        BY <1>0, <4>2 DEF WorkersKnown
    <3> QED
      BY <3>3, <3>4
  <2> QED
    BY <2>5, <2>6, <2>7 DEF Roles
<1> QED
  BY <1>1, <1>2, <1>3 DEF Decode, Progress, SessionStep

Inv0 == Types /\ Roles

\* Every reachable state is typed, and the manager knows its workers.
LEMMA SpecRoles == Spec => []Inv0
<1>1. Init => Inv0
  BY InitTypes, InitRoles DEF Inv0
<1>2. Inv0 /\ [Next]_vars => Inv0'
  <2> SUFFICES ASSUME Types, Roles, [Next]_vars
               PROVE  Types' /\ Roles'
    BY DEF Inv0
  <2>1. CASE Environment \/ Handler \/ FrameRequest \/ ApplyCommand
    <3>1. UNCHANGED <<registered, worker, sync>>
      BY <2>1 DEF Environment, Handler, FrameRequest, ApplyCommand, ChangeView, EditRow, Resync,
                  ResyncRequest, mgrVars
    <3> QED
      BY <2>1, <3>1, OutsideKeepsTypes, OutsideKeepsRoles
  <2>2. CASE Manage \/ GiveUp
    BY <2>2, ManagerKeepsTypes, ManagerKeepsRoles, DeregisterKeepsRoles, RegisterKeepsRoles
  <2>3. ASSUME NEW w \in WorkerIds, Decode(w)
        PROVE  Types' /\ Roles'
    BY <2>3, WorkersKeepTypes, WorkersKeepRoles
  <2>4. CASE CodecFreed \/ UNCHANGED vars
    <3>1. UNCHANGED <<dbVars, dirty, request, mgrVars, worker, engVars, health, events>>
      BY <2>4 DEF CodecFreed, WorkerOnly, vars, mgrVars
    <3>2. Roles'
      BY <3>1, OutsideKeepsRoles DEF mgrVars
    <3> QED
      BY <3>1, <3>2 DEF dbVars, mgrVars, engVars, Types, Happened
  <2> QED
    BY <2>1, <2>2, <2>3, <2>4 DEF Next
<1> QED
  BY <1>1, <1>2, PTL DEF Spec

LEMMA SomethingHappens ==
  ASSUME [Next]_vars
  PROVE  UNCHANGED events \/ \E e \in Events : Happens(e)
  BY DEF Next, Environment, Handler, FrameRequest, ApplyCommand, ChangeView, EditRow, Resync,
         ResyncRequest, Manage, GiveUp, Receive, ClearDirty, Load, Diff, PickStop, SendUnbind,
         UnbindDone, Deregister, Joined, Stopped, Reserve, SendBind, Register, Finish, LoadFails,
         UnbindTimesOut, JoinTimesOut, BindTimesOut, Decode, Progress, Connect, FirstFrame,
         Fallback, Exit, SessionEnds, HWUnusable, Close, CodecFreed, WorkerOnly, vars, Events

\* No step takes back an event that happened.
LEMMA NothingUnhappens ==
  ASSUME Types, [Next]_vars
  PROVE  \A e \in Events : events[e] \in Nat /\ events'[e] >= events[e]
  BY SomethingHappens, HappensCounts DEF Types

\* A codec that is still being freed was given up once.
LeftBehind == abandoned \in Nat /\ abandoned <= events["stuck"]

LEMMA SpecLeftBehind == Spec => []LeftBehind
<1>1. Init => LeftBehind
  BY DEF Init, LeftBehind, Events
<1>2. LeftBehind /\ Inv0 /\ [Next]_vars => LeftBehind'
  <2> SUFFICES ASSUME LeftBehind, Types, [Next]_vars PROVE LeftBehind'
    BY DEF Inv0
  <2>1. events["stuck"] \in Nat /\ events'["stuck"] \in Nat /\ events'["stuck"] >= events["stuck"]
    <3>1. events["stuck"] \in Nat /\ events'["stuck"] >= events["stuck"]
      BY NothingUnhappens DEF Events
    <3>2. UNCHANGED events \/ \E e \in Events : Happens(e)
      BY SomethingHappens
    <3>3. events' \in [Events -> Nat]
      BY <3>2, HappensCounts DEF Types
    <3> QED
      BY <3>1, <3>3 DEF Events
  <2>2. \/ UNCHANGED abandoned
        \/ Happens("stuck") /\ abandoned' = abandoned + 1
        \/ abandoned > 0 /\ abandoned' = abandoned - 1
    BY DEF Next, Environment, Handler, FrameRequest, ApplyCommand, ChangeView, EditRow, Resync,
           ResyncRequest, Manage, GiveUp, Receive, ClearDirty, Load, Diff, PickStop, SendUnbind,
           UnbindDone, Deregister, Joined, Stopped, Reserve, SendBind, Register, Finish, LoadFails,
           UnbindTimesOut, JoinTimesOut, BindTimesOut, Decode, Progress, Connect, FirstFrame,
           Fallback, Exit, SessionEnds, HWUnusable, Close, CodecFreed, vars
  <2>3. CASE Happens("stuck") /\ abandoned' = abandoned + 1
    <3>1. events'["stuck"] = events["stuck"] + 1
      BY <2>3, HappensCounts DEF Events
    <3> QED
      BY <2>1, <2>3, <3>1 DEF LeftBehind
  <2> QED
    BY <2>1, <2>2, <2>3 DEF LeftBehind
<1> QED
  BY <1>1, <1>2, SpecRoles, PTL DEF Spec

-----------------------------------------------------------------------------
(* The hardware budget.                                                    *)

LEMMA RunningFinite ==
  \A S \in SUBSET Sources : IsFiniteSet(S) /\ Cardinality(S) \in Nat
                            /\ Cardinality(S) <= Cardinality(Sources)
  BY FS_Subset, FS_CardinalityType, PipelineAssumption

LEMMA InitBudget == Init => HwBudgetBalances
<1> SUFFICES ASSUME Init PROVE HwBudgetBalances
  OBVIOUS
<1>1. HwUsers = {}
  BY DEF Init, HwUsers, Running
<1>2. Cardinality(HwUsers) = 0
  BY <1>1, FS_EmptySet, Zenon
<1>3. hwInUse = 0 /\ sync.hw = FALSE
  BY DEF Init, AtRest
<1> QED
  BY <1>2, <1>3 DEF HwBudgetBalances, HwUsers

\* Steps that change neither who is registered nor a registered worker's reservation.
LEMMA SameUsers ==
  ASSUME HwBudgetBalances, UNCHANGED registered,
         \A s \in Running : worker'[registered[s]].usingHW <=> worker[registered[s]].usingHW,
         hwInUse \in Nat, hwInUse' \in Nat, Cardinality(HwUsers) \in Nat,
         hwInUse' - (IF sync'.hw THEN 1 ELSE 0) = hwInUse - (IF sync.hw THEN 1 ELSE 0)
  PROVE  HwBudgetBalances'
<1>1. HwUsers' = HwUsers
  BY DEF HwUsers, Running
<1>2. Cardinality(HwUsers') = Cardinality(HwUsers)
  BY <1>1, Zenon
<1> QED
  BY <1>2 DEF HwBudgetBalances, HwUsers

LEMMA BudgetStep ==
  ASSUME Inv0, HwBudgetBalances, [Next]_vars, Inv0'
  PROVE  HwBudgetBalances'
<1>0. /\ Types /\ Roles /\ sync \in Syncs /\ hwInUse \in Nat /\ hwInUse' \in Nat
      /\ HwUsers \subseteq Sources /\ Running \subseteq Sources
      /\ IsFiniteSet(HwUsers) /\ Cardinality(HwUsers) \in Nat
      /\ hwInUse = Cardinality(HwUsers) + (IF sync.hw THEN 1 ELSE 0)
  BY RunningFinite DEF Inv0, Types, HwUsers, Running, HwBudgetBalances
<1>1. CASE UNCHANGED <<registered, worker, sync, hwInUse>>
  BY <1>0, <1>1, SameUsers
<1>2. CASE Receive \/ ClearDirty \/ Load \/ LoadFails \/ Finish
  <2>1. sync.hw = FALSE /\ AtRest.hw = FALSE
    <3>1. sync.at \notin Starting
      BY <1>2 DEF Receive, ClearDirty, Load, LoadFails, Finish, Starting, Stopping
    <3> QED
      BY <1>0, <3>1 DEF Roles, SyncKnows, AtRest, Syncs
  <2>2. sync'.hw = FALSE
    <3>1. CASE Receive
      <4>1. UNCHANGED sync \/ \E ids : sync' = [AtRest EXCEPT !.at = "clear", !.ids = ids]
        BY <3>1 DEF Receive
      <4> QED
        BY <2>1, <4>1 DEF AtRest
    <3>2. CASE ClearDirty \/ Load
      BY <1>0, <2>1, <3>2 DEF ClearDirty, Load, Go, Syncs
    <3>3. CASE LoadFails \/ Finish
      BY <2>1, <3>3 DEF LoadFails, Finish
    <3> QED
      BY <1>2, <3>1, <3>2, <3>3
  <2>3. UNCHANGED <<registered, worker, hwInUse>>
    BY <1>2 DEF Receive, ClearDirty, Load, LoadFails, Finish
  <2> QED
    BY <1>0, <2>1, <2>2, <2>3, SameUsers
<1>3. CASE Diff \/ PickStop \/ SendUnbind \/ UnbindDone \/ UnbindTimesOut \/ Joined \/ JoinTimesOut
           \/ SendBind
  <2>1. UNCHANGED <<registered, worker, hwInUse>>
    BY <1>3 DEF Diff, PickStop, SendUnbind, UnbindDone, UnbindTimesOut, Joined, JoinTimesOut,
                SendBind, Stopped
  <2>2. sync'.hw = sync.hw
    BY <1>0, <1>3 DEF Diff, PickStop, SendUnbind, UnbindDone, UnbindTimesOut, Joined,
                      JoinTimesOut, SendBind, Stopped, Go, Syncs
  <2> QED
    BY <1>0, <2>1, <2>2, SameUsers
<1>4. CASE Reserve
  <2>1. sync.hw = FALSE
    BY <1>0, <1>4 DEF Reserve, Stopping, Roles, SyncKnows, Starting, Syncs
  <2>2. hwInUse' = IF sync'.hw THEN hwInUse + 1 ELSE hwInUse
    BY <1>0, <1>4 DEF Reserve, Syncs
  <2>3. UNCHANGED <<registered, worker>>
    BY <1>4 DEF Reserve
  <2> QED
    BY <1>0, <2>1, <2>2, <2>3, SameUsers
<1>5. CASE BindTimesOut
  <2>1. sync'.hw = FALSE /\ UNCHANGED <<registered, worker>>
    BY <1>0, <1>5 DEF BindTimesOut, Syncs
  <2>2. hwInUse' = IF sync.hw THEN hwInUse - 1 ELSE hwInUse
    BY <1>0, <1>5 DEF BindTimesOut
  <2> QED
    BY <1>0, <2>1, <2>2, SameUsers
<1>6. CASE Deregister
  <2> DEFINE s == sync.cur
             w == registered[s]
  <2>1. HwUsers' = HwUsers \ {s}
    <3>1. /\ Running' = Running \ {s} /\ s \in Running
          /\ \A t \in Running \ {s} : registered'[t] = registered[t]
          /\ \A v \in WorkerIds : v # w => worker'[v] = worker[v]
      BY <1>0, <1>6, DeregisterFields
    <3>2. \A t \in Running \ {s} : registered[t] # w /\ registered[t] \in WorkerIds
      BY <1>0, <3>1, OwnWorker DEF Roles, RegisteredRuns
    <3> HIDE DEF s, w
    <3> QED
      BY <3>1, <3>2 DEF HwUsers
  <2>2. s \in HwUsers <=> worker[w].usingHW
    BY <1>0, <1>6, DeregisterFields DEF HwUsers
  <2>3. sync'.hw = sync.hw
    BY <1>0, <1>6, DeregisterFields
  <2>4. hwInUse' = IF worker[w].usingHW /\ hwInUse > 0 THEN hwInUse - 1 ELSE hwInUse
    BY <1>6 DEF Deregister
  <2> HIDE DEF s, w
  <2>5. CASE s \in HwUsers
    <3>1. Cardinality(HwUsers') = Cardinality(HwUsers) - 1
      BY <1>0, <2>1, <2>5, FS_RemoveElement, Zenon
    <3>2. hwInUse' = hwInUse - 1
      <4>1. Cardinality(HwUsers) # 0
        BY <1>0, <2>5, FS_EmptySet
      <4> QED
        BY <1>0, <2>2, <2>4, <2>5, <4>1
    <3> QED
      BY <1>0, <2>3, <3>1, <3>2 DEF HwBudgetBalances, HwUsers
  <2>6. CASE s \notin HwUsers
    <3>1. Cardinality(HwUsers') = Cardinality(HwUsers)
      <4>1. HwUsers' = HwUsers
        BY <2>1, <2>6
      <4> QED
        BY <4>1, Zenon
    <3> QED
      BY <1>0, <2>2, <2>3, <2>4, <2>6, <3>1 DEF HwBudgetBalances, HwUsers
  <2> QED
    BY <2>5, <2>6
<1>7. CASE Register
  <2>1. HwUsers' = IF sync.hw THEN HwUsers \cup {sync.cur} ELSE HwUsers
    <3>1. \A t \in Running : /\ registered'[t] = registered[t]
                             /\ worker'[registered[t]] = worker[registered[t]]
      BY <1>0, <1>7, RegisterFields DEF Roles, RegisteredRuns
    <3>2. /\ Running' = Running \cup {sync.cur} /\ registered'[sync.cur] = sync.w
          /\ worker'[sync.w].usingHW <=> sync.hw
      BY <1>0, <1>7, RegisterFields
    <3>3. CASE sync.hw
      BY <3>1, <3>2, <3>3 DEF HwUsers
    <3>4. CASE ~sync.hw
      BY <3>1, <3>2, <3>4 DEF HwUsers
    <3> QED
      BY <3>3, <3>4
  <2>2. sync.cur \notin HwUsers
    BY <1>0, <1>7, RegisterFields DEF HwUsers
  <2>3. ~sync'.hw /\ hwInUse' = hwInUse
    BY <1>0, <1>7, RegisterFields DEF Register
  <2>4. CASE sync.hw
    <3>1. Cardinality(HwUsers') = Cardinality(HwUsers) + 1
      BY <1>0, <2>1, <2>2, <2>4, FS_AddElement, Zenon
    <3> QED
      BY <1>0, <2>3, <2>4, <3>1 DEF HwBudgetBalances, HwUsers
  <2>5. CASE ~sync.hw
    <3>1. Cardinality(HwUsers') = Cardinality(HwUsers)
      BY <2>1, <2>5, Zenon
    <3> QED
      BY <1>0, <2>3, <2>5, <3>1 DEF HwBudgetBalances, HwUsers
  <2> QED
    BY <2>4, <2>5
<1>8. ASSUME NEW w \in WorkerIds, Decode(w)
      PROVE  HwBudgetBalances'
  <2>0. UNCHANGED <<registered, sync>>
    BY <1>8 DEF Decode, Progress, Connect, FirstFrame, Fallback, Exit, SessionEnds, HWUnusable,
                WorkerOnly
  <2>1. CASE SessionStep(w)
    <3>1. \A s \in Running : worker'[registered[s]].usingHW <=> worker[registered[s]].usingHW
      BY <1>0, <2>1, StepFields DEF Roles, RegisteredRuns
    <3>2. UNCHANGED hwInUse
      BY <2>1 DEF SessionStep, Connect, FirstFrame, SessionEnds, HWUnusable
    <3> QED
      BY <1>0, <2>0, <3>1, <3>2, SameUsers
  <2>2. CASE Exit(w)
    <3>1. \A s \in Running : worker'[registered[s]].usingHW <=> worker[registered[s]].usingHW
      BY <1>0, <2>2 DEF Roles, RegisteredRuns, Exit, Types
    <3>2. UNCHANGED hwInUse
      BY <2>2 DEF Exit
    <3> QED
      BY <1>0, <2>0, <3>1, <3>2, SameUsers
  <2>3. CASE Fallback(w)
    <3> DEFINE s == worker[w].src
               r == registered[s]
    <3>0. \A v \in WorkerIds : worker'[v].usingHW <=> (v # r /\ worker[v].usingHW)
      BY <1>0, <2>3, FallbackFields
    <3>1. s \in Sources
      BY <1>0, <2>3 DEF Roles, WorkersKnown, Fallback
    <3>2. hwInUse' = IF (r # NoWorker /\ worker[r].usingHW) /\ hwInUse > 0 THEN hwInUse - 1
                     ELSE hwInUse
      BY <2>3 DEF Fallback
    <3>3. CASE s \in HwUsers
      <4>1. HwUsers' = HwUsers \ {s}
        <5>1. \A t \in Running : registered[t] \in WorkerIds /\ (registered[t] = r <=> t = s)
          BY <1>0, <3>1, <3>3, OwnWorker DEF Roles, RegisteredRuns, HwUsers
        <5> QED
          BY <2>0, <3>0, <3>3, <5>1 DEF HwUsers, Running
      <4>2. Cardinality(HwUsers') = Cardinality(HwUsers) - 1
        BY <1>0, <3>3, <4>1, FS_RemoveElement, Zenon
      <4>3. Cardinality(HwUsers) # 0
        BY <1>0, <3>3, FS_EmptySet
      <4>4. hwInUse' = hwInUse - 1
        BY <1>0, <3>2, <3>3, <4>3 DEF HwUsers, Running
      <4> QED
        BY <1>0, <2>0, <4>2, <4>4 DEF HwBudgetBalances, HwUsers
    <3>4. CASE s \notin HwUsers
      <4>1. hwInUse' = hwInUse
        BY <3>1, <3>2, <3>4 DEF HwUsers, Running
      <4>2. \A t \in Running : worker'[registered[t]].usingHW <=> worker[registered[t]].usingHW
        <5>1. \A t \in Running : registered[t] \in WorkerIds
          BY <1>0 DEF Roles, RegisteredRuns
        <5>2. ASSUME NEW t \in Running, registered[t] = r
              PROVE  ~worker[registered[t]].usingHW
          BY <1>0, <3>1, <3>4, <5>2 DEF HwUsers, Running
        <5> QED
          BY <3>0, <5>1, <5>2
      <4> QED
        BY <1>0, <2>0, <4>1, <4>2, SameUsers
    <3> QED
      BY <3>3, <3>4
  <2> QED
    BY <1>8, <2>1, <2>2, <2>3 DEF Decode, Progress, SessionStep
<1>9. CASE Environment \/ Handler \/ FrameRequest \/ ApplyCommand \/ CodecFreed \/ UNCHANGED vars
  <2>1. UNCHANGED <<registered, worker, sync, hwInUse>>
    BY <1>9 DEF Environment, Handler, FrameRequest, ApplyCommand, ChangeView, EditRow, Resync,
                ResyncRequest, mgrVars, CodecFreed, WorkerOnly, vars
  <2> QED
    BY <1>1, <2>1
<1> QED
  BY <1>2, <1>3, <1>4, <1>5, <1>6, <1>7, <1>8, <1>9 DEF Next, Manage, GiveUp

\* HwBudgetBalances, for any number of sources and workers, however often a stop
\* is given up, a bind does not get through or a decoder falls back: what the
\* manager counts is what its workers hold.
THEOREM BudgetBalances == Spec => []HwBudgetBalances
<1>1. Init => HwBudgetBalances
  BY InitBudget
<1>2. HwBudgetBalances /\ Inv0 /\ Inv0' /\ [Next]_vars => HwBudgetBalances'
  BY BudgetStep
<1> QED
  BY <1>1, <1>2, SpecRoles, PTL DEF Spec

\* The type invariant of the pipeline.
THEOREM PipelineTypeOK == Spec => []TypeOK
<1>1. Inv0 /\ HwBudgetBalances /\ LeftBehind => TypeOK
  <2> SUFFICES ASSUME Types, Roles, HwBudgetBalances, LeftBehind PROVE TypeOK
    BY DEF Inv0
  <2>1. hwInUse \in 0..Cardinality(Sources)
    <3>1. /\ HwUsers \subseteq Sources /\ IsFiniteSet(HwUsers) /\ Cardinality(HwUsers) \in Nat
          /\ Cardinality(HwUsers) <= Cardinality(Sources) /\ Cardinality(Sources) \in Nat
          /\ hwInUse = Cardinality(HwUsers) + (IF sync.hw THEN 1 ELSE 0)
      BY RunningFinite DEF HwUsers, Running, HwBudgetBalances
    <3>2. CASE sync.hw
      <4>1. sync.cur \in Sources \ Running
        BY <3>2 DEF Roles, SyncKnows
      <4>2. HwUsers \cup {sync.cur} \in SUBSET Sources /\ sync.cur \notin HwUsers
        BY <3>1, <4>1 DEF HwUsers
      <4>3. Cardinality(HwUsers \cup {sync.cur}) = Cardinality(HwUsers) + 1
        BY <3>1, <4>2, FS_AddElement, Zenon
      <4>4. Cardinality(HwUsers \cup {sync.cur}) <= Cardinality(Sources)
        BY <4>2, RunningFinite
      <4> QED
        BY <3>1, <3>2, <4>3, <4>4 DEF Types
    <3> QED
      BY <3>1, <3>2 DEF Types
  <2>2. authGen \in 0..MaxEvents
    BY PipelineAssumption DEF Types, Happened, Events
  <2> QED
    BY <2>1, <2>2 DEF Types, TypeOK, LeftBehind
<1> QED
  BY <1>1, SpecRoles, BudgetBalances, SpecLeftBehind, PTL

-----------------------------------------------------------------------------
(* The hardware limit.                                                     *)

\* What the steps of the manager do to the locals of sync that Sound reads.
LEMMA ManagerMoves ==
  ASSUME Types, Roles, Manage \/ GiveUp, ~Deregister, ~Register
  PROVE  /\ UNCHANGED <<registered, worker>>
         /\ sync.at # "joining" => sync'.at # "joining"
         /\ sync.at = "joining" => \/ UNCHANGED <<sync, hwInUse, events>>
                                   \/ Joined \/ JoinTimesOut
         /\ Reserve \/ hwInUse' <= hwInUse
<1>0. sync \in Syncs /\ hwInUse \in Nat
  BY DEF Types
<1>1. CASE Receive
  <2>1. UNCHANGED sync \/ \E ids : sync' = [AtRest EXCEPT !.at = "clear", !.ids = ids]
    BY <1>1 DEF Receive
  <2>2. sync.at = "idle" /\ (UNCHANGED sync \/ sync'.at = "clear")
    BY <1>1, <2>1 DEF Receive, AtRest
  <2>3. UNCHANGED <<registered, worker, hwInUse>>
    BY <1>1 DEF Receive
  <2> QED
    BY <1>0, <2>2, <2>3
<1>2. CASE Joined \/ JoinTimesOut
  BY <1>0, <1>2 DEF Joined, JoinTimesOut, Stopped
<1>3. CASE PickStop
  BY <1>0, <1>3 DEF PickStop, Stopping, Syncs
<1>4. CASE Reserve
  BY <1>0, <1>4 DEF Reserve, Stopping, Syncs
<1>5. CASE LoadFails \/ Finish
  BY <1>0, <1>5 DEF LoadFails, Finish, Stopping, AtRest
<1>6. CASE ClearDirty \/ Load \/ Diff
  <2>1. sync.at # "joining" /\ sync'.at # "joining"
    BY <1>0, <1>6 DEF ClearDirty, Load, Diff, Go, Syncs
  <2>2. UNCHANGED <<registered, worker, hwInUse>>
    BY <1>6 DEF ClearDirty, Load, Diff
  <2> QED
    BY <1>0, <2>1, <2>2
<1>7. CASE SendUnbind \/ UnbindDone \/ UnbindTimesOut
  BY <1>0, <1>7 DEF SendUnbind, UnbindDone, UnbindTimesOut, Go, Syncs
<1>8. CASE SendBind \/ BindTimesOut
  <2>1. sync.at # "joining" /\ sync'.at # "joining"
    BY <1>0, <1>8 DEF SendBind, BindTimesOut, Go, Syncs
  <2>2. UNCHANGED <<registered, worker>> /\ (hwInUse' = hwInUse \/ hwInUse' = hwInUse - 1)
    BY <1>8 DEF SendBind, BindTimesOut
  <2> QED
    BY <1>0, <2>1, <2>2
<1> QED
  BY <1>1, <1>2, <1>3, <1>4, <1>5, <1>6, <1>7, <1>8 DEF Manage, GiveUp

LEMMA InitSound == Init => Sound
<1> SUFFICES ASSUME Init PROVE Sound
  OBVIOUS
<1>1. \A w \in WorkerIds : worker[w].phase = "gone"
  BY DEF Init, Gone
<1>2. sync.at = "idle" /\ hwInUse = 0
  BY DEF Init, AtRest
<1> QED
  BY <1>1, <1>2, PipelineAssumption DEF Sound

LEMMA SoundStep ==
  ASSUME Inv0, HwBudgetBalances, Sound, [Next]_vars, Inv0'
  PROVE  Sound'
<1>0. /\ Types /\ Roles /\ sync \in Syncs /\ hwInUse \in Nat /\ hwInUse' \in Nat /\ HWCap \in Nat
      /\ events["wedge"] \in Nat /\ (events'["wedge"] = 0 => events["wedge"] = 0)
  <2>1. Types /\ Roles /\ sync \in Syncs /\ hwInUse \in Nat /\ hwInUse' \in Nat /\ HWCap \in Nat
    BY PipelineAssumption DEF Inv0, Types
  <2>2. events["wedge"] \in Nat /\ events'["wedge"] >= events["wedge"]
    BY <2>1, NothingUnhappens DEF Events
  <2>3. events'["wedge"] \in Nat
    BY DEF Inv0, Types, Events
  <2> QED
    BY <2>1, <2>2, <2>3
<1> DEFINE Known(w) == registered[worker[w].src] = w \/ (sync.at = "joining" /\ sync.w = w)
           AllKnown == \A w \in WorkerIds : worker[w].phase # "gone" => Known(w)
           Room == (HWCap > 0 /\ sync.at = "joining" /\ worker[sync.w].onHW) => hwInUse < HWCap
<1>a. Sound <=> /\ HWCap > 0 => hwInUse <= HWCap
                /\ events["wedge"] = 0 => AllKnown /\ Room
  BY DEF Sound
<1>b. Sound' <=> /\ HWCap > 0 => hwInUse' <= HWCap
                 /\ events'["wedge"] = 0 => AllKnown' /\ Room'
  BY DEF Sound
<1>1. CASE UNCHANGED <<registered, worker, sync, hwInUse>>
  BY <1>0, <1>1, <1>a, <1>b
<1>2. CASE Deregister
  <2> DEFINE w == registered[sync.cur]
  <2>1. hwInUse' = IF worker[w].usingHW /\ hwInUse > 0 THEN hwInUse - 1 ELSE hwInUse
    BY <1>2 DEF Deregister
  <2>2. sync.at # "joining" /\ sync.cur \in Running /\ w \in WorkerIds
    BY <1>0, <1>2, DeregisterFields DEF Deregister
  <2>3. AllKnown => AllKnown'
    <3> SUFFICES ASSUME AllKnown, NEW v \in WorkerIds, worker'[v].phase # "gone"
                 PROVE  Known(v)'
      OBVIOUS
    <3>1. registered[worker[v].src] = v /\ worker[v].src \in Sources /\ worker'[v].src = worker[v].src
      BY <1>0, <1>2, <2>2, DeregisterFields DEF Roles, WorkersKnown
    <3>2. registered'[worker[v].src] = IF worker[v].src = sync.cur THEN NoWorker ELSE v
      BY <1>0, <1>2, <3>1, DeregisterFields
    <3> QED
      BY <1>0, <1>2, <3>1, <3>2, DeregisterFields
  <2>4. worker'[w].onHW => worker[w].usingHW
    BY <1>0, <1>2, <2>2, DeregisterFields DEF Roles, RegisteredRuns, WorkersKnown
  <2>5. worker[w].usingHW => hwInUse > 0
    <3>1. HwUsers \subseteq Sources /\ (worker[w].usingHW => sync.cur \in HwUsers)
      BY <2>2 DEF HwUsers, Running
    <3>2. IsFiniteSet(HwUsers) /\ Cardinality(HwUsers) \in Nat
      BY <3>1, RunningFinite
    <3>3. worker[w].usingHW => Cardinality(HwUsers) # 0
      BY <3>1, <3>2, FS_EmptySet
    <3> QED
      BY <1>0, <3>2, <3>3 DEF HwBudgetBalances, HwUsers
  <2>6. sync'.w = w
    BY <1>0, <1>2, DeregisterFields
  <2> HIDE DEF w
  <2>7. (HWCap > 0 /\ hwInUse <= HWCap) => Room'
    BY <1>0, <2>1, <2>4, <2>5, <2>6
  <2>8. hwInUse' <= hwInUse
    BY <1>0, <2>1
  <2> QED
    BY <1>0, <1>a, <1>b, <2>3, <2>7, <2>8
<1>3. CASE Register
  <2>1. hwInUse' = hwInUse /\ sync'.at # "joining" /\ sync.at # "joining"
    BY <1>0, <1>3, RegisterFields DEF Register
  <2>2. AllKnown => AllKnown'
    <3> SUFFICES ASSUME AllKnown, NEW v \in WorkerIds, worker'[v].phase # "gone"
                 PROVE  registered'[worker'[v].src] = v
      OBVIOUS
    <3>1. CASE v = sync.w
      BY <1>0, <1>3, <3>1, RegisterFields
    <3>2. CASE v # sync.w
      <4>1. worker'[v] = worker[v] /\ registered[worker[v].src] = v /\ worker[v].src \in Sources
        BY <1>0, <1>3, <2>1, <3>2, RegisterFields DEF Roles, WorkersKnown
      <4>2. worker[v].src # sync.cur
        BY <1>0, <1>3, <4>1, RegisterFields, PipelineAssumption DEF Running, NoWorker
      <4> QED
        BY <1>0, <1>3, <4>1, <4>2, RegisterFields
    <3> QED
      BY <3>1, <3>2
  <2> QED
    BY <1>0, <1>a, <1>b, <2>1, <2>2
<1>4. CASE (Manage \/ GiveUp) /\ ~Deregister /\ ~Register
  <2>0. /\ UNCHANGED <<registered, worker>>
        /\ sync.at # "joining" => sync'.at # "joining"
        /\ sync.at = "joining" => UNCHANGED <<sync, hwInUse, events>> \/ Joined \/ JoinTimesOut
        /\ Reserve \/ hwInUse' <= hwInUse
    BY <1>0, <1>4, ManagerMoves
  <2>1. HWCap > 0 /\ hwInUse <= HWCap => hwInUse' <= HWCap
    <3>1. Reserve => hwInUse' = hwInUse \/ (hwInUse' = hwInUse + 1 /\ (HWCap = 0 \/ hwInUse < HWCap))
      BY DEF Reserve
    <3> QED
      BY <1>0, <2>0, <3>1
  <2>2. CASE sync.at # "joining"
    BY <1>0, <1>a, <1>b, <2>0, <2>1, <2>2
  <2>3. CASE UNCHANGED <<sync, hwInUse>>
    BY <1>1, <2>0, <2>3
  <2>4. CASE JoinTimesOut
    <3>1. events'["wedge"] # 0
      BY <1>0, <2>4, HappensCounts DEF JoinTimesOut, Events
    <3> QED
      BY <1>0, <1>a, <1>b, <2>1, <3>1
  <2>5. CASE Joined
    <3>1. worker[sync.w].phase = "gone" /\ sync'.at # "joining"
      BY <1>0, <2>5 DEF Joined, Stopped, Syncs
    <3> QED
      BY <1>0, <1>a, <1>b, <2>0, <2>1, <3>1
  <2> QED
    BY <2>0, <2>2, <2>3, <2>4, <2>5
<1>5. ASSUME NEW w \in WorkerIds, Decode(w)
      PROVE  Sound'
  <2>0. UNCHANGED <<registered, sync>> /\ hwInUse' <= hwInUse
    <3>1. UNCHANGED <<registered, sync>> /\ (hwInUse' = hwInUse \/ hwInUse' = hwInUse - 1)
      BY <1>5 DEF Decode, Progress, Connect, FirstFrame, Fallback, Exit, SessionEnds,
                  HWUnusable, WorkerOnly
    <3> QED
      BY <1>0, <3>1
  <2>1. /\ \A v \in WorkerIds : worker'[v].phase # "gone" =>
             worker[v].phase # "gone" /\ worker'[v].src = worker[v].src
        /\ (sync.at = "joining" /\ worker'[sync.w].onHW) => worker[sync.w].onHW
    <3>0. sync.at = "joining" =>
            /\ sync.w \in WorkerIds
            /\ worker[sync.w].phase # "gone" => worker[sync.w].cancelled
      BY <1>0 DEF Roles, SyncKnows
    <3>1. CASE SessionStep(w)
      <4>1. worker[w].phase # "gone" /\ \A v \in WorkerIds :
              worker'[v].src = worker[v].src /\ (v # w => worker'[v] = worker[v])
        BY <1>0, <3>1, StepFields DEF SessionStep, Connect, FirstFrame, SessionEnds, HWUnusable
      <4>2. (sync.at = "joining" /\ sync.w = w) => FirstFrame(w)
        BY <3>0, <3>1, <4>1 DEF SessionStep, Connect, SessionEnds, HWUnusable
      <4>3. (sync.at = "joining" /\ sync.w = w) => worker'[w].onHW = worker[w].onHW
        BY <1>0, <3>1, <4>2, StepFields
      <4>4. CASE sync.w = w
        BY <4>1, <4>3, <4>4
      <4>5. CASE sync.w # w
        BY <3>0, <4>1, <4>5
      <4> QED
        BY <4>4, <4>5
    <3>2. CASE Exit(w)
      BY <1>0, <3>0, <3>2 DEF Exit, Types, Gone
    <3>3. CASE Fallback(w)
      <4>1. \A v \in WorkerIds :
              /\ worker'[v].phase = IF v = w THEN "starting" ELSE worker[v].phase
              /\ worker'[v].src = worker[v].src /\ worker'[v].onHW = worker[v].onHW
        BY <1>0, <3>3, FallbackFields
      <4>2. worker[w].phase = "falling"
        BY <3>3 DEF Fallback
      <4> QED
        BY <3>0, <4>1, <4>2
    <3> QED
      BY <1>5, <3>1, <3>2, <3>3 DEF Decode, Progress, SessionStep
  <2> QED
    BY <1>0, <1>a, <1>b, <2>0, <2>1
<1>6. CASE Environment \/ Handler \/ FrameRequest \/ ApplyCommand \/ CodecFreed \/ UNCHANGED vars
  <2>1. UNCHANGED <<registered, worker, sync, hwInUse>>
    BY <1>6 DEF Environment, Handler, FrameRequest, ApplyCommand, ChangeView, EditRow, Resync,
                ResyncRequest, mgrVars, CodecFreed, WorkerOnly, vars
  <2> QED
    BY <1>1, <2>1
<1> QED
  BY <1>2, <1>3, <1>4, <1>5, <1>6 DEF Next

LEMMA SpecSound == Spec => []Sound
<1>1. Init => Sound
  BY InitSound
<1>2. Sound /\ HwBudgetBalances /\ Inv0 /\ Inv0' /\ [Next]_vars => Sound'
  BY SoundStep
<1> QED
  BY <1>1, <1>2, SpecRoles, BudgetBalances, PTL DEF Spec

LEMMA SoundMeansCap ==
  ASSUME Inv0, HwBudgetBalances, Sound
  PROVE  (HWCap > 0 /\ events["wedge"] = 0) =>
           Cardinality(OnHardware) \in Nat /\ Cardinality(OnHardware) <= HWCap
<1> SUFFICES ASSUME events["wedge"] = 0, HWCap > 0
             PROVE  Cardinality(OnHardware) \in Nat /\ Cardinality(OnHardware) <= HWCap
  OBVIOUS
<1> DEFINE Late == {w \in OnHardware : sync.at = "joining" /\ sync.w = w}
           Users == OnHardware \ Late
           f == [w \in Users |-> worker[w].src]
<1>0. Types /\ Roles /\ hwInUse \in Nat /\ HWCap \in Nat /\ hwInUse <= HWCap
  BY PipelineAssumption DEF Inv0, Types, Sound
<1>1. \A w \in WorkerIds : worker[w].phase # "gone" =>
        registered[worker[w].src] = w \/ (sync.at = "joining" /\ sync.w = w)
  BY DEF Sound
<1>2. \A w \in Users : w \in WorkerIds /\ worker[w].src \in HwUsers
                       /\ registered[worker[w].src] = w
  <2> SUFFICES ASSUME NEW w \in Users
               PROVE  w \in WorkerIds /\ worker[w].src \in HwUsers
                      /\ registered[worker[w].src] = w
    OBVIOUS
  <2>1. w \in WorkerIds /\ worker[w].onHW /\ ~(sync.at = "joining" /\ sync.w = w)
    BY DEF OnHardware
  <2>2. worker[w].phase # "gone" /\ worker[w].src \in Sources
    BY <1>0, <2>1 DEF Roles, WorkersKnown
  <2>3. registered[worker[w].src] = w
    BY <1>1, <2>1, <2>2
  <2>4. worker[w].src \in Running
    BY <2>1, <2>2, <2>3, PipelineAssumption DEF Running, NoWorker
  <2>5. worker[w].usingHW
    BY <1>0, <2>1, <2>2, <2>3, <2>4 DEF Roles, RegisteredRuns, WorkersKnown
  <2> QED
    BY <2>1, <2>3, <2>4, <2>5 DEF HwUsers
<1>3. /\ IsFiniteSet(HwUsers) /\ Cardinality(HwUsers) \in Nat /\ Cardinality(HwUsers) <= hwInUse
  BY <1>0, RunningFinite DEF HwUsers, Running, HwBudgetBalances
<1>4. f \in Injection(Users, HwUsers)
  BY <1>2 DEF Injection, IsInjective
<1>5. /\ IsFiniteSet(Users) /\ Cardinality(Users) <= Cardinality(HwUsers)
      /\ Cardinality(Users) \in Nat
  BY <1>3, <1>4, FS_Injection, FS_CardinalityType
<1>6. CASE Late = {}
  <2>1. OnHardware = Users
    BY <1>6
  <2>2. Cardinality(OnHardware) = Cardinality(Users)
    BY <2>1
  <2> QED
    BY <1>0, <1>3, <1>5, <2>2
<1>7. CASE Late # {}
  <2>1. /\ sync.w \in OnHardware /\ OnHardware = Users \cup {sync.w} /\ sync.w \notin Users
        /\ sync.at = "joining" /\ worker[sync.w].onHW
    BY <1>7 DEF OnHardware
  <2> HIDE DEF Users, Late
  <2>2. Cardinality(Users \cup {sync.w}) = Cardinality(Users) + 1
    BY <1>5, <2>1, FS_AddElement, Zenon
  <2>3. Cardinality(OnHardware) = Cardinality(Users) + 1
    BY <2>1, <2>2
  <2>4. hwInUse < HWCap
    BY <2>1 DEF Sound
  <2> QED
    BY <1>0, <1>3, <1>5, <2>3, <2>4
<1> QED
  BY <1>6, <1>7

\* HwCapButForAbandoned: as long as no worker outlives workerStopWait, the
\* decoders open on hardware outnumber HWCap by at most one for every codec that
\* Session.Close gave up on, whatever the number of sources, workers and
\* fallbacks (effectiveMaxHW, OnHWFallback, stopOne and Session.Close).
THEOREM CapButForAbandoned == Spec => []HwCapButForAbandoned
<1>1. Inv0 /\ HwBudgetBalances /\ Sound /\ LeftBehind => HwCapButForAbandoned
  <2> SUFFICES ASSUME Inv0, HwBudgetBalances, Sound, LeftBehind, HWCap > 0, events["wedge"] = 0
               PROVE  HwDecoders <= HWCap + events["stuck"]
    BY DEF HwCapButForAbandoned
  <2> DEFINE c == Cardinality(OnHardware)
             k == events["stuck"]
  <2>1. c \in Nat /\ c <= HWCap
    BY SoundMeansCap
  <2>2. k \in Nat
    BY DEF Inv0, Types, Events
  <2>3. abandoned \in Nat /\ abandoned <= k /\ HWCap \in Nat
    BY PipelineAssumption DEF LeftBehind
  <2>4. HwDecoders = c + abandoned
    BY DEF HwDecoders
  <2> HIDE DEF c, k
  <2>5. HwDecoders <= HWCap + k
    BY <2>1, <2>2, <2>3, <2>4
  <2> QED
    BY <2>5 DEF k
<1> QED
  BY <1>1, SpecRoles, BudgetBalances, SpecSound, SpecLeftBehind, PTL

-----------------------------------------------------------------------------
(* What waits in the command channel.                                      *)

LEMMA Queued ==
  ASSUME Types, NEW c, c \in Commands, cmds' = Append(cmds, c)
  PROVE  /\ Len(cmds) \in Nat /\ Len(cmds') = Len(cmds) + 1 /\ cmds'[Len(cmds')] = c
         /\ \A k \in 1..Len(cmds) : cmds'[k] = cmds[k]
  BY DEF Types

LEMMA Dequeued ==
  ASSUME Types, ApplyCommand
  PROVE  /\ Len(cmds) \in Nat \ {0} /\ Len(cmds') = Len(cmds) - 1
         /\ \A k \in 1..Len(cmds') : cmds'[k] = cmds[k + 1]
         /\ cmds[1] \in Commands /\ cmds[1].id \in Sources
         /\ \A s \in Sources :
              slots'[s] = IF s = cmds[1].id THEN cmds[1].slot ELSE slots[s]
<1>1. cmds \in Seq(Commands) /\ cmds # << >> /\ cmds' = Tail(cmds) /\ Head(cmds) = cmds[1]
  BY DEF ApplyCommand, Types
<1>2. Len(cmds) \in Nat \ {0}
  BY <1>1
<1>3. Len(cmds') = Len(cmds) - 1 /\ \A k \in 1..Len(cmds') : cmds'[k] = cmds[k + 1]
  BY <1>1
<1>4. cmds[1] \in Commands
  BY <1>1, <1>2
<1>5. cmds[1].id \in Sources
  BY <1>4, CommandShape
<1>6. \A s \in Sources : slots'[s] = IF s = cmds[1].id THEN cmds[1].slot ELSE slots[s]
  BY <1>1 DEF ApplyCommand, Types
<1> QED
  BY <1>2, <1>3, <1>4, <1>5, <1>6

\* The steps of the manager that send nothing and neither stop nor start anybody.
QuietStep ==
  \/ Receive \/ ClearDirty \/ Load \/ LoadFails \/ Finish \/ Diff \/ PickStop
  \/ Joined \/ JoinTimesOut \/ Reserve \/ BindTimesOut

LEMMA QuietMoves ==
  ASSUME Types, QuietStep
  PROVE  /\ UNCHANGED <<registered, worker, cmds, slots>>
         /\ sync.at \notin {"register", "unbinding", "deregister"}
         /\ sync'.at \notin {"register", "unbinding", "deregister"}
<1>0. sync \in Syncs
  BY DEF Types
<1>1. UNCHANGED <<registered, worker, cmds, slots>>
  BY DEF QuietStep, Receive, ClearDirty, Load, LoadFails, Finish, Diff, PickStop, Joined,
         JoinTimesOut, Stopped, Reserve, BindTimesOut, engVars
<1>2. CASE Receive
  <2>1. UNCHANGED sync \/ \E ids : sync' = [AtRest EXCEPT !.at = "clear", !.ids = ids]
    BY <1>2 DEF Receive
  <2>2. sync.at = "idle" /\ (UNCHANGED sync \/ sync'.at = "clear")
    BY <1>2, <2>1 DEF Receive, AtRest
  <2> QED
    BY <1>1, <2>2
<1>3. CASE ClearDirty \/ Load \/ Diff
  <2>1. sync.at \in {"clear", "load", "diff"} /\ sync'.at \in {"load", "diff", "stop"}
    BY <1>0, <1>3 DEF ClearDirty, Load, Diff, Go, Syncs
  <2> QED
    BY <1>1, <2>1
<1>4. CASE LoadFails \/ Finish
  <2>1. sync.at \in {"load", "stop"} /\ sync'.at = "idle"
    BY <1>4 DEF LoadFails, Finish, Stopping, AtRest
  <2> QED
    BY <1>1, <2>1
<1>5. CASE PickStop \/ Joined \/ JoinTimesOut
  <2>1. sync.at \in {"stop", "joining"} /\ sync'.at \in {"unbind", "stop"}
    BY <1>0, <1>5 DEF PickStop, Joined, JoinTimesOut, Stopped, Stopping, Syncs
  <2> QED
    BY <1>1, <2>1
<1>6. CASE Reserve \/ BindTimesOut
  <2>1. sync.at \in {"stop", "bind"} /\ sync'.at \in {"bind", "stop"}
    BY <1>0, <1>6 DEF Reserve, BindTimesOut, Stopping, Syncs
  <2> QED
    BY <1>1, <2>1
<1> QED
  BY <1>2, <1>3, <1>4, <1>5, <1>6 DEF QuietStep

LEMMA InitBound == Init => Bound
<1> SUFFICES ASSUME Init PROVE Bound
  OBVIOUS
<1>1. Len(cmds) = 0 /\ sync.at = "idle" /\ \A s \in Sources : slots[s] = NoWorker
  BY DEF Init, AtRest
<1> QED
  BY <1>1 DEF Bound

LEMMA BoundStep ==
  ASSUME Inv0, Bound, [Next]_vars, Inv0'
  PROVE  Bound'
<1> SUFFICES ASSUME events'["stall"] = 0
             PROVE  Bound'
  BY DEF Bound
<1> DEFINE SlotsKnown == \A s \in Sources : slots[s] # NoWorker => MayDraw(s, slots[s])
           BindsKnown == \A k \in 1..Len(cmds) :
                           cmds[k].slot # NoWorker => MayDraw(cmds[k].id, cmds[k].slot)
           BeingCut == sync.at = "unbinding" =>
                         /\ slots[sync.cur] # NoWorker => CutFrom(1)
                         /\ \A k \in 1..Len(cmds) :
                              cmds[k].id = sync.cur /\ cmds[k].slot # NoWorker => CutFrom(k)
           IsCut == sync.at = "deregister" =>
                      /\ slots[sync.cur] = NoWorker
                      /\ \A k \in 1..Len(cmds) :
                           cmds[k].id = sync.cur => cmds[k].slot = NoWorker
<1>0. /\ Types /\ Roles /\ sync \in Syncs /\ Len(cmds) \in Nat
      /\ \A k \in 1..Len(cmds) : cmds[k] \in Commands /\ cmds[k].id \in Sources
                                 /\ cmds[k].slot \in WorkerIds \cup {NoWorker}
  BY CommandShape DEF Inv0, Types
<1>a. SlotsKnown /\ BindsKnown /\ BeingCut /\ IsCut
  <2>1. events["stall"] = 0
    BY <1>0, NothingUnhappens DEF Events
  <2> QED
    BY <2>1, Zenon DEF Bound
<1>b. SlotsKnown' /\ BindsKnown' /\ BeingCut' /\ IsCut' => Bound'
  BY Zenon DEF Bound
<1>1. CASE UNCHANGED <<registered, sync, slots, cmds>>
  <2>1. SlotsKnown' /\ BindsKnown' /\ BeingCut' /\ IsCut'
    BY <1>1, <1>a DEF MayDraw, CutFrom, UnbindCmd
  <2> QED
    BY <1>b, <2>1
<1>2. CASE QuietStep
  <2>1. /\ UNCHANGED <<registered, cmds, slots>>
        /\ sync.at \notin {"register", "unbinding", "deregister"}
        /\ sync'.at \notin {"register", "unbinding", "deregister"}
    BY <1>0, <1>2, QuietMoves
  <2>2. SlotsKnown' /\ BindsKnown' /\ BeingCut' /\ IsCut'
    BY <1>a, <2>1 DEF MayDraw
  <2> QED
    BY <1>b, <2>2
<1>3. CASE SendUnbind
  <2>1. UnbindCmd(sync.cur) \in Commands /\ UnbindCmd(sync.cur).slot = NoWorker
    BY <1>0, <1>3, CommandShape DEF SendUnbind, Roles, SyncKnows, Ending, Running, UnbindCmd
  <2>2. /\ Len(cmds') = Len(cmds) + 1 /\ cmds'[Len(cmds')] = UnbindCmd(sync.cur)
        /\ \A k \in 1..Len(cmds) : cmds'[k] = cmds[k]
    BY <1>0, <1>3, <2>1, Queued DEF SendUnbind
  <2>3. /\ sync.at = "unbind" /\ sync'.at = "unbinding" /\ sync'.cur = sync.cur
        /\ registered' = registered /\ slots' = slots
    BY <1>0, <1>3 DEF SendUnbind, Go, Syncs
  <2>4. \A k \in 1..Len(cmds') : k \in 1..Len(cmds) \/ k = Len(cmds')
    BY <1>0, <2>2
  <2>5. SlotsKnown' /\ IsCut'
    BY <1>a, <2>3 DEF MayDraw
  <2>6. BindsKnown'
    BY <1>a, <2>1, <2>2, <2>3, <2>4 DEF MayDraw
  <2>7. \A k \in 1..Len(cmds') : CutFrom(k)'
    BY <1>0, <2>2, <2>3 DEF CutFrom, UnbindCmd
  <2>8. BeingCut'
    BY <1>0, <2>2, <2>7
  <2> QED
    BY <1>b, <2>5, <2>6, <2>8
<1>4. CASE UnbindDone
  <2>1. /\ sync.at = "unbinding" /\ sync'.at = "deregister" /\ sync'.cur = sync.cur
        /\ registered' = registered /\ slots' = slots /\ cmds' = cmds
    BY <1>0, <1>4 DEF UnbindDone, Go, Syncs, engVars
  <2>2. \A k \in Nat \ {0} : ~CutFrom(k)
    BY <1>0, <1>4 DEF UnbindDone, UnbindPending, CutFrom
  <2>3. SlotsKnown' /\ BindsKnown' /\ BeingCut'
    BY <1>a, <2>1 DEF MayDraw
  <2>4. IsCut'
    BY <1>0, <1>a, <2>1, <2>2
  <2> QED
    BY <1>b, <2>3, <2>4
<1>5. CASE UnbindTimesOut
  BY <1>0, <1>5, HappensCounts DEF UnbindTimesOut, Events, Types
<1>6. CASE Deregister
  <2>1. /\ sync.at = "deregister" /\ sync'.at = "joining"
        /\ slots' = slots /\ cmds' = cmds
    BY <1>0, <1>6, DeregisterFields DEF Deregister, engVars
  <2>2. \A s \in Sources : registered'[s] = IF s = sync.cur THEN NoWorker ELSE registered[s]
    BY <1>0, <1>6, DeregisterFields
  <2>3. SlotsKnown' /\ BeingCut' /\ IsCut'
    BY <1>a, <2>1, <2>2 DEF MayDraw
  <2>4. BindsKnown'
    BY <1>0, <1>a, <2>1, <2>2 DEF MayDraw
  <2> QED
    BY <1>b, <2>3, <2>4
<1>7. CASE SendBind
  <2>0. sync.cur \in Sources /\ sync.w \in WorkerIds
    BY <1>0, <1>7 DEF SendBind, Roles, SyncKnows, Starting
  <2> DEFINE c == [kind |-> "bind", id |-> sync.cur, slot |-> sync.w]
  <2>1. c \in Commands /\ c.id = sync.cur /\ c.slot = sync.w
    BY <2>0, CommandShape
  <2>2. /\ Len(cmds') = Len(cmds) + 1 /\ cmds'[Len(cmds')] = c
        /\ \A k \in 1..Len(cmds) : cmds'[k] = cmds[k]
    BY <1>0, <1>7, <2>1, Queued DEF SendBind
  <2> HIDE DEF c
  <2>3. /\ sync.at = "bind" /\ sync'.at = "register" /\ sync'.cur = sync.cur
        /\ sync'.w = sync.w /\ registered' = registered /\ slots' = slots
    BY <1>0, <1>7 DEF SendBind, Go, Syncs
  <2>4. \A k \in 1..Len(cmds') : k \in 1..Len(cmds) \/ k = Len(cmds')
    BY <1>0, <2>2
  <2>5. SlotsKnown' /\ BeingCut' /\ IsCut'
    BY <1>a, <2>3 DEF MayDraw
  <2>6. BindsKnown'
    BY <1>a, <2>1, <2>2, <2>3, <2>4 DEF MayDraw
  <2> QED
    BY <1>b, <2>5, <2>6
<1>8. CASE Register
  <2>1. /\ sync.at = "register" /\ sync'.at = "stop" /\ slots' = slots /\ cmds' = cmds
        /\ sync.cur \in Sources \ Running
    BY <1>0, <1>8, RegisterFields DEF Register, engVars
  <2>2. \A s \in Sources : registered'[s] = IF s = sync.cur THEN sync.w ELSE registered[s]
    BY <1>0, <1>8, RegisterFields
  <2>3. \A s \in Sources, w \in WorkerIds : MayDraw(s, w) => registered'[s] = w
    BY <2>1, <2>2, PipelineAssumption DEF MayDraw, Running, NoWorker
  <2>4. \A s \in Sources : slots[s] \in WorkerIds \cup {NoWorker}
    BY <1>0 DEF Types
  <2>5. SlotsKnown' /\ BeingCut' /\ IsCut'
    BY <1>a, <2>1, <2>3, <2>4 DEF MayDraw
  <2>6. BindsKnown'
    BY <1>0, <1>a, <2>1, <2>3 DEF MayDraw
  <2> QED
    BY <1>b, <2>5, <2>6
<1>9. CASE ApplyCommand
  <2>0. registered' = registered /\ sync' = sync
    BY <1>9 DEF ApplyCommand, mgrVars
  <2>1. /\ Len(cmds') = Len(cmds) - 1 /\ 1 \in 1..Len(cmds)
        /\ \A k \in 1..Len(cmds') : cmds'[k] = cmds[k + 1] /\ k + 1 \in 1..Len(cmds)
        /\ \A s \in Sources : slots'[s] = IF s = cmds[1].id THEN cmds[1].slot ELSE slots[s]
    <3>1. /\ Len(cmds) \in Nat \ {0} /\ Len(cmds') = Len(cmds) - 1
          /\ \A k \in 1..Len(cmds') : cmds'[k] = cmds[k + 1]
          /\ \A s \in Sources : slots'[s] = IF s = cmds[1].id THEN cmds[1].slot ELSE slots[s]
      BY <1>0, <1>9, Dequeued
    <3> QED
      BY <3>1
  <2>2. SlotsKnown'
    BY <1>a, <2>0, <2>1 DEF MayDraw
  <2>3. BindsKnown'
    BY <1>a, <2>0, <2>1 DEF MayDraw
  <2>4. \A k \in 1..Len(cmds') : CutFrom(k + 1) => CutFrom(k)'
    <3> SUFFICES ASSUME NEW k \in 1..Len(cmds'), NEW j \in (k + 1)..Len(cmds),
                        cmds[j] = UnbindCmd(sync.cur)
                 PROVE  \E i \in k..Len(cmds') : cmds'[i] = UnbindCmd(sync'.cur)
      BY DEF CutFrom, UnbindCmd
    <3>1. j - 1 \in k..Len(cmds') /\ j - 1 \in 1..Len(cmds') /\ (j - 1) + 1 = j
      BY <1>0, <2>1
    <3>2. cmds'[j - 1] = cmds[j]
      BY <2>1, <3>1
    <3> QED
      BY <2>0, <3>1, <3>2
  <2>5. BeingCut'
    <3> SUFFICES ASSUME sync.at = "unbinding"
                 PROVE  /\ slots'[sync.cur] # NoWorker => CutFrom(1)'
                        /\ \A k \in 1..Len(cmds') :
                             cmds'[k].id = sync.cur /\ cmds'[k].slot # NoWorker => CutFrom(k)'
      BY <2>0
    <3>1. sync.cur \in Sources
      BY <1>0 DEF Roles, SyncKnows, Ending, Running
    <3>2. ASSUME slots'[sync.cur] # NoWorker
          PROVE  CutFrom(1)'
      <4>1. CutFrom(1) /\ cmds[1] # UnbindCmd(sync.cur)
        <5>1. CASE cmds[1].id = sync.cur
          BY <1>a, <2>1, <3>1, <3>2, <5>1 DEF UnbindCmd
        <5>2. CASE cmds[1].id # sync.cur
          BY <1>a, <2>1, <3>1, <3>2, <5>2 DEF UnbindCmd
        <5> QED
          BY <5>1, <5>2
      <4>2. CutFrom(1 + 1) /\ 1 \in 1..Len(cmds')
        BY <1>0, <2>1, <4>1 DEF CutFrom
      <4> QED
        BY <2>4, <4>2
    <3>3. ASSUME NEW k \in 1..Len(cmds'), cmds'[k].id = sync.cur, cmds'[k].slot # NoWorker
          PROVE  CutFrom(k)'
      BY <1>a, <2>1, <2>4, <3>3
    <3> QED
      BY <3>2, <3>3
  <2>6. IsCut'
    <3>1. sync.at = "deregister" => sync.cur \in Sources
      BY <1>0 DEF Roles, SyncKnows, Ending, Running
    <3> QED
      BY <1>a, <2>0, <2>1, <3>1
  <2> QED
    BY <1>b, <2>2, <2>3, <2>5, <2>6
<1>10. ASSUME NEW w \in WorkerIds, Decode(w)
       PROVE  Bound'
  <2>1. UNCHANGED <<registered, sync, slots, cmds>>
    BY <1>10 DEF Decode, Progress, Connect, FirstFrame, Fallback, Exit, SessionEnds, HWUnusable,
                 WorkerOnly, engVars
  <2> QED
    BY <1>1, <2>1
<1>11. CASE Environment \/ Handler \/ FrameRequest \/ CodecFreed \/ UNCHANGED vars
  <2>1. UNCHANGED <<registered, sync, slots, cmds>>
    BY <1>11 DEF Environment, Handler, FrameRequest, ChangeView, EditRow, Resync,
                 ResyncRequest, mgrVars, engVars, CodecFreed, WorkerOnly, vars
  <2> QED
    BY <1>1, <2>1
<1> QED
  BY <1>2, <1>3, <1>4, <1>5, <1>6, <1>7, <1>8, <1>9, <1>10, <1>11
     DEF Next, Manage, GiveUp, QuietStep

LEMMA SpecBound == Spec => []Bound
<1>1. Init => Bound
  BY InitBound
<1>2. Bound /\ Inv0 /\ Inv0' /\ [Next]_vars => Bound'
  BY BoundStep
<1> QED
  BY <1>1, <1>2, SpecRoles, PTL DEF Spec

\* UnboundBeforeStopped, for a channel of any capacity: as long as the render
\* thread answers within two seconds, it never draws from a slot whose worker was
\* stopped (stopOne, Engine.send, Engine.apply).
THEOREM UnboundFirst == Spec => []UnboundBeforeStopped
<1>1. Bound => UnboundBeforeStopped
  BY DEF Bound, MayDraw, UnboundBeforeStopped
<1> QED
  BY <1>1, SpecBound, PTL

\* A command for one source leaves it to the others what they will be drawn from.
LEMMA SendingOneKeepsOthers ==
  ASSUME Types, NEW c, c \in Commands, cmds' = Append(cmds, c), slots' = slots,
         NEW s \in Sources, s # c.id, NEW w, WillBeDrawn(s, w)
  PROVE  WillBeDrawn(s, w)'
<1>1. /\ Len(cmds) \in Nat /\ Len(cmds') = Len(cmds) + 1 /\ cmds'[Len(cmds')] = c
      /\ \A k \in 1..Len(cmds) : cmds'[k] = cmds[k]
  BY Queued
<1>2. \A k \in 1..Len(cmds') : k \in 1..Len(cmds) \/ k = Len(cmds')
  BY <1>1
<1>3. CASE slots[s] = w /\ \A k \in 1..Len(cmds) : cmds[k].id # s
  BY <1>1, <1>2, <1>3 DEF WillBeDrawn
<1>4. ASSUME NEW k \in 1..Len(cmds), cmds[k].id = s, cmds[k].slot = w,
             \A j \in (k + 1)..Len(cmds) : cmds[j].id # s
      PROVE  WillBeDrawn(s, w)'
  <2>1. k \in 1..Len(cmds') /\ cmds'[k].id = s /\ cmds'[k].slot = w
    BY <1>1, <1>4
  <2>2. \A j \in (k + 1)..Len(cmds') : cmds'[j].id # s
    BY <1>1, <1>2, <1>4
  <2> QED
    BY <2>1, <2>2 DEF WillBeDrawn
<1> QED
  BY <1>3, <1>4 DEF WillBeDrawn

LEMMA ApplyingKeepsDrawn ==
  ASSUME Types, ApplyCommand, NEW s \in Sources, NEW w, WillBeDrawn(s, w)
  PROVE  WillBeDrawn(s, w)'
<1>1. /\ Len(cmds) \in Nat \ {0} /\ Len(cmds') = Len(cmds) - 1
      /\ \A k \in 1..Len(cmds') : cmds'[k] = cmds[k + 1]
      /\ slots'[s] = IF s = cmds[1].id THEN cmds[1].slot ELSE slots[s]
  BY Dequeued
<1>2. CASE slots[s] = w /\ \A k \in 1..Len(cmds) : cmds[k].id # s
  BY <1>1, <1>2 DEF WillBeDrawn
<1>3. ASSUME NEW k \in 1..Len(cmds), cmds[k].id = s, cmds[k].slot = w,
             \A j \in (k + 1)..Len(cmds) : cmds[j].id # s
      PROVE  WillBeDrawn(s, w)'
  <2>1. CASE k = 1
    <3>1. slots'[s] = w
      BY <1>1, <1>3, <2>1
    <3>2. \A j \in 1..Len(cmds') : cmds'[j].id # s
      BY <1>1, <1>3, <2>1
    <3> QED
      BY <3>1, <3>2 DEF WillBeDrawn
  <2>2. CASE k # 1
    <3>1. k - 1 \in 1..Len(cmds') /\ (k - 1) + 1 = k
      BY <1>1, <2>2
    <3>2. cmds'[k - 1].id = s /\ cmds'[k - 1].slot = w
      BY <1>1, <1>3, <3>1
    <3>3. \A j \in ((k - 1) + 1)..Len(cmds') : cmds'[j].id # s
      BY <1>1, <1>3, <3>1
    <3> QED
      BY <3>1, <3>2, <3>3 DEF WillBeDrawn
  <2> QED
    BY <2>1, <2>2
<1> QED
  BY <1>2, <1>3 DEF WillBeDrawn

LEMMA DrawnStep ==
  ASSUME Inv0, Drawn, [Next]_vars
  PROVE  Drawn'
<1> DEFINE Excused(s) == sync.cur = s /\ sync.at \in {"unbinding", "deregister"}
           AllDrawn == \A s \in Running : WillBeDrawn(s, registered[s]) \/ Excused(s)
           NewDrawn == sync.at = "register" => WillBeDrawn(sync.cur, sync.w)
<1>0. Types /\ Roles /\ sync \in Syncs /\ Running \subseteq Sources
  BY DEF Inv0, Types, Running
<1>a. AllDrawn /\ NewDrawn
  BY Zenon DEF Drawn
<1>b. AllDrawn' /\ NewDrawn' => Drawn'
  BY Zenon DEF Drawn
<1>1. CASE UNCHANGED <<registered, sync, slots, cmds>>
  BY <1>1, <1>a, <1>b DEF WillBeDrawn, Running
<1>2. CASE QuietStep
  <2>1. /\ UNCHANGED <<registered, cmds, slots>>
        /\ sync.at \notin {"register", "unbinding", "deregister"}
        /\ sync'.at \notin {"register", "unbinding", "deregister"}
    BY <1>0, <1>2, QuietMoves
  <2> QED
    BY <1>a, <1>b, <2>1 DEF WillBeDrawn, Running
<1>3. CASE SendUnbind
  <2>1. UnbindCmd(sync.cur) \in Commands /\ UnbindCmd(sync.cur).id = sync.cur
    BY <1>0, <1>3, CommandShape DEF SendUnbind, Roles, SyncKnows, Ending, Running, UnbindCmd
  <2>2. /\ sync.at = "unbind" /\ sync'.at = "unbinding" /\ sync'.cur = sync.cur
        /\ registered' = registered /\ slots' = slots
        /\ cmds' = Append(cmds, UnbindCmd(sync.cur))
    BY <1>0, <1>3 DEF SendUnbind, Go, Syncs
  <2>3. Running' = Running
    BY <2>2 DEF Running
  <2>4. ASSUME NEW s \in Running, s # sync.cur
        PROVE  WillBeDrawn(s, registered[s])'
    <3>1. WillBeDrawn(s, registered[s]) /\ s \in Sources
      BY <1>0, <1>a, <2>2, <2>4
    <3>2. ASSUME NEW w, WillBeDrawn(s, w)
          PROVE  WillBeDrawn(s, w)'
      BY <1>0, <2>1, <2>2, <2>4, <3>1, <3>2, SendingOneKeepsOthers
    <3> QED
      BY <2>2, <3>1, <3>2
  <2> QED
    BY <1>b, <2>2, <2>3, <2>4
<1>4. CASE UnbindDone \/ UnbindTimesOut
  <2>1. /\ UNCHANGED <<registered, cmds, slots>> /\ sync'.cur = sync.cur
        /\ sync'.at = "deregister" /\ sync.at # "register"
    BY <1>0, <1>4 DEF UnbindDone, UnbindTimesOut, Go, Syncs, engVars
  <2> QED
    BY <1>a, <1>b, <2>1 DEF WillBeDrawn, Running
<1>5. CASE Deregister
  <2>1. /\ Running' = Running \ {sync.cur} /\ sync'.at = "joining" /\ cmds' = cmds
        /\ slots' = slots
        /\ \A s \in Sources : registered'[s] = IF s = sync.cur THEN NoWorker ELSE registered[s]
    BY <1>0, <1>5, DeregisterFields DEF Deregister, engVars
  <2> QED
    BY <1>0, <1>a, <1>b, <2>1 DEF WillBeDrawn
<1>6. CASE SendBind
  <2>0. sync.cur \in Sources \ Running /\ sync.w \in WorkerIds
    BY <1>0, <1>6 DEF SendBind, Roles, SyncKnows, Starting
  <2> DEFINE c == [kind |-> "bind", id |-> sync.cur, slot |-> sync.w]
  <2>1. c \in Commands /\ c.id = sync.cur /\ c.slot = sync.w
    BY <2>0, CommandShape
  <2>2. /\ sync.at = "bind" /\ sync'.at = "register" /\ sync'.cur = sync.cur
        /\ sync'.w = sync.w /\ registered' = registered /\ slots' = slots
        /\ cmds' = Append(cmds, c)
    BY <1>0, <1>6 DEF SendBind, Go, Syncs
  <2> HIDE DEF c
  <2>3. Running' = Running
    BY <2>2 DEF Running
  <2>4. ASSUME NEW s \in Running
        PROVE  WillBeDrawn(s, registered[s])'
    <3>1. WillBeDrawn(s, registered[s]) /\ s \in Sources /\ s # c.id
      BY <1>0, <1>a, <2>0, <2>1, <2>2
    <3>2. ASSUME NEW w, WillBeDrawn(s, w)
          PROVE  WillBeDrawn(s, w)'
      BY <1>0, <2>1, <2>2, <3>1, <3>2, SendingOneKeepsOthers
    <3> QED
      BY <2>2, <3>1, <3>2
  <2>5. NewDrawn'
    <3>1. Len(cmds) \in Nat /\ Len(cmds') = Len(cmds) + 1 /\ cmds'[Len(cmds')] = c
      BY <1>0, <2>1, <2>2, Queued
    <3>2. Len(cmds') \in 1..Len(cmds') /\ \A j \in (Len(cmds') + 1)..Len(cmds') : FALSE
      BY <3>1
    <3> QED
      BY <2>1, <2>2, <3>1, <3>2 DEF WillBeDrawn
  <2> QED
    BY <1>b, <2>3, <2>4, <2>5
<1>7. CASE Register
  <2>1. /\ Running' = Running \cup {sync.cur} /\ sync'.at = "stop" /\ slots' = slots
        /\ cmds' = cmds /\ sync.cur \in Sources \ Running /\ sync.at = "register"
        /\ \A s \in Sources : registered'[s] = IF s = sync.cur THEN sync.w ELSE registered[s]
    BY <1>0, <1>7, RegisterFields DEF Register, engVars
  <2> QED
    BY <1>0, <1>a, <1>b, <2>1 DEF WillBeDrawn
<1>8. CASE ApplyCommand
  <2>1. registered' = registered /\ sync' = sync /\ Running' = Running
    BY <1>8 DEF ApplyCommand, mgrVars, Running
  <2>2. ASSUME NEW s \in Sources, NEW w, WillBeDrawn(s, w)
        PROVE  WillBeDrawn(s, w)'
    BY <1>0, <1>8, <2>2, ApplyingKeepsDrawn
  <2>3. AllDrawn'
    BY <1>0, <1>a, <2>1, <2>2
  <2>4. sync.at = "register" => sync.cur \in Sources
    BY <1>0 DEF Roles, SyncKnows, Starting
  <2>5. NewDrawn'
    BY <1>a, <2>1, <2>2, <2>4
  <2> QED
    BY <1>b, <2>3, <2>5
<1>9. ASSUME NEW w \in WorkerIds, Decode(w)
      PROVE  Drawn'
  <2>1. UNCHANGED <<registered, sync, slots, cmds>>
    BY <1>9 DEF Decode, Progress, Connect, FirstFrame, Fallback, Exit, SessionEnds, HWUnusable,
                WorkerOnly, engVars
  <2> QED
    BY <1>1, <2>1
<1>10. CASE Environment \/ Handler \/ FrameRequest \/ CodecFreed \/ UNCHANGED vars
  <2>1. UNCHANGED <<registered, sync, slots, cmds>>
    BY <1>10 DEF Environment, Handler, FrameRequest, ChangeView, EditRow, Resync,
                 ResyncRequest, mgrVars, engVars, CodecFreed, WorkerOnly, vars
  <2> QED
    BY <1>1, <2>1
<1> QED
  BY <1>2, <1>3, <1>4, <1>5, <1>6, <1>7, <1>8, <1>9, <1>10
     DEF Next, Manage, GiveUp, QuietStep

LEMMA SpecDrawn == Spec => []Drawn
<1>1. Init => Drawn
  BY DEF Init, Drawn, Running, AtRest
<1>2. Drawn /\ Inv0 /\ [Next]_vars => Drawn'
  BY DrawnStep
<1> QED
  BY <1>1, <1>2, SpecRoles, PTL DEF Spec

\* RegisteredIsDrawn: the worker that is registered for a source is the one the
\* render thread draws, or will draw when it has emptied its channel; a worker is
\* never started when its bind was refused (startOne, Engine.send).
THEOREM RegisteredDrawn == Spec => []RegisteredIsDrawn
<1>1. Drawn => RegisteredIsDrawn
  BY DEF Drawn, WillBeDrawn, RegisteredIsDrawn
<1> QED
  BY <1>1, SpecDrawn, PTL

-----------------------------------------------------------------------------
(* What the rows said when they were read.                                 *)

AsAsked(s) == worker[registered[s]].fp = Fingerprint(s, rows[s])
AsRead(s) == worker[registered[s]].fp = Fingerprint(s, sync.loaded[s])

\* Steps outside the manager: an edit makes the state unclean before anything else.
LEMMA OutsideKeepsCurrent ==
  ASSUME Current, UNCHANGED <<registered, sync, applied>>,
         \A s \in Running : worker'[registered[s]].fp = worker[registered[s]].fp,
         Clean' => Clean /\ UNCHANGED <<rows, authGen>>
  PROVE  Current'
<1>1. Running' = Running /\ Want' = Want /\ ToStop' = ToStop
  BY DEF Running, Want, ToStop
<1>2. CASE Clean'
  <2>1. Clean /\ UNCHANGED <<rows, authGen>>
    BY <1>2
  <2>2. \A s \in Running : (AsAsked(s) => AsAsked(s)') /\ (AsRead(s) => AsRead(s)')
    BY <2>1 DEF AsAsked, AsRead, Fingerprint
  <2> QED
    BY <1>1, <2>1, <2>2 DEF Current, AsAsked, AsRead
<1>3. CASE ~Clean'
  BY <1>1, <1>3 DEF Current
<1> QED
  BY <1>2, <1>3

\* Steps of a pass that stop and start nobody.
LEMMA PassKeepsCurrent ==
  ASSUME Current, UNCHANGED <<registered, worker, rows, authGen>>,
         sync.at \in Passing, sync'.at \in Passing, sync'.loaded = sync.loaded,
         Clean' => Clean, ToStop' = ToStop, sync'.missing \subseteq sync.missing,
         sync'.at \in Starting => sync'.cur \in Want
  PROVE  Current'
<1>1. Running' = Running /\ Want' = Want
  BY DEF Running, Want
<1>2. \A s \in Running : AsRead(s) => AsRead(s)'
  BY DEF AsRead, Fingerprint
<1>3. sync'.at # "idle"
  BY DEF Passing, Ending, Starting
<1> QED
  BY <1>1, <1>2, <1>3 DEF Current, AsRead

LEMMA CurrentStep ==
  ASSUME Inv0, Current, [Next]_vars
  PROVE  Current'
<1>0. Types /\ Roles /\ sync \in Syncs /\ Running \subseteq Sources
  BY DEF Inv0, Types, Running
<1>1. CASE Environment \/ Handler \/ FrameRequest \/ ApplyCommand \/ CodecFreed \/ UNCHANGED vars
  <2>1. UNCHANGED <<registered, sync, applied, worker>>
    BY <1>1 DEF Environment, Handler, FrameRequest, ApplyCommand, ChangeView, EditRow, Resync,
                ResyncRequest, mgrVars, CodecFreed, WorkerOnly, vars
  <2>2. Clean' => Clean /\ UNCHANGED <<rows, authGen>>
    <3>1. CASE ChangeView
      BY <3>1 DEF ChangeView, Clean
    <3>2. CASE EditRow
      BY <3>2 DEF EditRow, Clean
    <3>3. CASE Resync
      BY <3>3 DEF Resync, Clean
    <3>4. CASE ResyncRequest
      BY <3>4 DEF ResyncRequest, Clean
    <3>5. CASE FrameRequest \/ ApplyCommand \/ CodecFreed \/ UNCHANGED vars
      BY <3>5 DEF FrameRequest, ApplyCommand, Clean, dbVars, CodecFreed, WorkerOnly, vars
    <3> QED
      BY <1>1, <3>1, <3>2, <3>3, <3>4, <3>5 DEF Environment, Handler
  <2> QED
    BY <2>1, <2>2, OutsideKeepsCurrent
<1>2. ASSUME NEW w \in WorkerIds, Decode(w)
      PROVE  Current'
  <2>1. UNCHANGED <<registered, sync, applied, rows, authGen, dirty, editor>>
    BY <1>2 DEF Decode, Progress, Connect, FirstFrame, Fallback, Exit, SessionEnds, HWUnusable,
                WorkerOnly, dbVars
  <2>2. \A s \in Running : worker'[registered[s]].fp = worker[registered[s]].fp
    <3>0. \A s \in Running : registered[s] \in WorkerIds /\ ~worker[registered[s]].cancelled
      BY <1>0 DEF Roles, RegisteredRuns
    <3>1. CASE SessionStep(w)
      BY <1>0, <3>0, <3>1, StepFields
    <3>2. CASE Exit(w)
      BY <1>0, <3>0, <3>2 DEF Exit, Types
    <3>3. CASE Fallback(w)
      BY <1>0, <3>0, <3>3, FallbackFields
    <3> QED
      BY <1>2, <3>1, <3>2, <3>3 DEF Decode, Progress, SessionStep
  <2> QED
    BY <2>1, <2>2, OutsideKeepsCurrent DEF Clean
<1>3. CASE Receive \/ ClearDirty \/ LoadFails
  <2>1. CASE Receive
    <3>1. UNCHANGED sync \/ \E ids : sync' = [AtRest EXCEPT !.at = "clear", !.ids = ids]
      BY <2>1 DEF Receive
    <3>2. UNCHANGED sync \/ sync'.at = "clear"
      BY <3>1 DEF AtRest
    <3>3. UNCHANGED <<registered, worker, applied, rows, authGen, dirty, editor>>
      BY <2>1 DEF Receive, dbVars
    <3>4. CASE UNCHANGED sync
      BY <3>3, <3>4, OutsideKeepsCurrent DEF Clean
    <3>5. CASE sync'.at = "clear"
      BY <3>5 DEF Current, Passing, Ending, Starting
    <3> QED
      BY <3>2, <3>4, <3>5
  <2>2. CASE ClearDirty
    <3>1. sync'.at = "load"
      BY <1>0, <2>2 DEF ClearDirty, Go, Syncs
    <3> QED
      BY <3>1 DEF Current, Passing, Ending, Starting
  <2>3. CASE LoadFails
    <3>1. sync'.at = "idle" /\ ~Clean'
      BY <2>3 DEF LoadFails, AtRest, Clean
    <3> QED
      BY <3>1 DEF Current, Passing, Ending, Starting
  <2> QED
    BY <1>3, <2>1, <2>2, <2>3
<1>4. CASE Load
  <2>1. /\ sync'.at = "diff" /\ rows' = rows
        /\ sync'.loaded = [s \in Sources |-> IF s \in sync.ids THEN rows[s] ELSE Absent]
    BY <1>0, <1>4 DEF Load, Syncs, dbVars
  <2>2. \A s \in Want' : sync'.loaded[s] = rows[s]
    BY <2>1 DEF Want, Absent
  <2> QED
    BY <2>1, <2>2 DEF Current, Passing, Ending, Starting
<1>5. CASE Diff
  <2>1. /\ sync.at = "diff" /\ sync'.at = "stop" /\ sync'.loaded = sync.loaded
        /\ sync'.extra = (Running \ Want) \cup Stale
        /\ sync'.missing = (Want \ Running) \cup Stale
        /\ UNCHANGED <<registered, worker, rows, authGen, dirty, editor>>
    BY <1>0, <1>5 DEF Diff, Syncs, dbVars
  <2>2. Running' = Running /\ Want' = Want /\ Stale \subseteq Want /\ (Clean' => Clean)
    BY <2>1 DEF Running, Want, Stale, Clean
  <2>3. ToStop' = (Running \ Want) \cup Stale
    BY <2>1 DEF ToStop, Ending
  <2>4. \A s \in (Running \cap Want) \ Stale : AsRead(s)
    BY DEF Stale, Running, AsRead
  <2>5. \A s \in Running : AsRead(s) => AsRead(s)'
    BY <2>1 DEF AsRead, Fingerprint
  <2>6. (sync'.at \in Passing \cup {"diff"} /\ Clean') => \A s \in Want' : sync'.loaded[s] = rows'[s]
    BY <2>1, <2>2 DEF Current
  <2> QED
    BY <2>1, <2>2, <2>3, <2>4, <2>5, <2>6 DEF Current, Passing, Ending, Starting, AsRead
<1>6. CASE PickStop \/ SendUnbind \/ UnbindDone \/ UnbindTimesOut \/ Joined \/ JoinTimesOut
  <2>1. UNCHANGED <<registered, worker, rows, authGen, dirty, editor>>
    BY <1>6 DEF PickStop, SendUnbind, UnbindDone, UnbindTimesOut, Joined, JoinTimesOut, Stopped,
                dbVars
  <2>2. /\ sync.at \in {"stop", "joining"} \cup Ending
        /\ sync'.at \in {"stop"} \cup Ending
        /\ sync'.loaded = sync.loaded /\ sync'.missing = sync.missing
    BY <1>0, <1>6 DEF PickStop, SendUnbind, UnbindDone, UnbindTimesOut, Joined, JoinTimesOut,
                      Stopped, Stopping, Go, Syncs, Ending
  <2>3. ToStop' = ToStop
    <3>1. CASE PickStop
      <4>1. PICK s \in sync.extra :
              sync' = [sync EXCEPT !.at = "unbind", !.cur = s, !.extra = @ \ {s}]
        BY <3>1 DEF PickStop
      <4>2. /\ sync'.at = "unbind" /\ sync'.cur = s /\ sync'.extra = sync.extra \ {s}
            /\ sync.at = "stop"
        BY <1>0, <3>1, <4>1 DEF PickStop, Stopping, Syncs
      <4> QED
        BY <4>1, <4>2 DEF ToStop, Ending
    <3>2. CASE SendUnbind \/ UnbindDone \/ UnbindTimesOut
      <4>1. /\ sync.at \in Ending /\ sync'.at \in Ending /\ sync'.cur = sync.cur
            /\ sync'.extra = sync.extra
        BY <1>0, <3>2 DEF SendUnbind, UnbindDone, UnbindTimesOut, Go, Syncs, Ending
      <4> QED
        BY <4>1 DEF ToStop
    <3>3. CASE Joined \/ JoinTimesOut
      <4>1. sync.at = "joining" /\ sync'.at = "stop" /\ sync'.extra = sync.extra
        BY <1>0, <3>3 DEF Joined, JoinTimesOut, Stopped, Syncs
      <4> QED
        BY <4>1 DEF ToStop, Ending
    <3> QED
      BY <1>6, <3>1, <3>2, <3>3
  <2> QED
    BY <2>1, <2>2, <2>3, PassKeepsCurrent DEF Passing, Ending, Starting, Clean
<1>7. CASE Deregister
  <2>1. /\ sync.at = "deregister" /\ sync'.at = "joining" /\ sync'.cur = sync.cur
        /\ sync'.extra = sync.extra /\ sync'.missing = sync.missing
        /\ sync'.loaded = sync.loaded /\ sync.cur \in Running
        /\ Running' = Running \ {sync.cur}
        /\ UNCHANGED <<rows, authGen, dirty, editor>>
    BY <1>0, <1>7, DeregisterFields DEF Deregister, dbVars
  <2>2. Want' = Want /\ (Clean' => Clean)
    BY <2>1 DEF Want, Clean
  <2>3. ToStop' = sync.extra /\ ToStop = sync.extra \cup {sync.cur}
    BY <2>1 DEF ToStop, Ending
  <2>4. ASSUME NEW s \in Running', AsRead(s)
        PROVE  AsRead(s)'
    <3>1. registered'[s] = registered[s] /\ registered[s] \in WorkerIds
      BY <1>0, <1>7, <2>1, DeregisterFields DEF Roles, RegisteredRuns
    <3>2. worker'[registered[s]].fp = worker[registered[s]].fp
      BY <1>0, <1>7, <3>1, DeregisterFields
    <3> QED
      BY <2>1, <2>4, <3>1, <3>2 DEF AsRead, Fingerprint
  <2> QED
    BY <2>1, <2>2, <2>3, <2>4 DEF Current, Passing, Ending, Starting, AsRead
<1>8. CASE Reserve
  <2> DEFINE s == CHOOSE s \in sync.missing : \A t \in sync.missing : s <= t
  <2>1. s \in sync.missing
    BY <1>0, <1>8, FirstMissing DEF Reserve, Syncs
  <2>2. /\ sync'.at = "bind" /\ sync'.cur = s /\ sync'.extra = sync.extra
        /\ sync'.missing = sync.missing \ {s} /\ sync'.loaded = sync.loaded
    BY <1>0, <1>8 DEF Reserve, Syncs
  <2>3. /\ sync.at = "stop" /\ UNCHANGED <<registered, worker, rows, authGen, dirty, editor>>
    BY <1>8 DEF Reserve, Stopping, dbVars
  <2> HIDE DEF s
  <2>4. ToStop' = ToStop /\ s \in Want
    BY <2>1, <2>2, <2>3 DEF ToStop, Ending, Current, Passing
  <2>5. sync'.at \in Starting /\ sync'.at \in Passing /\ sync.at \in Passing
    BY <2>2, <2>3 DEF Starting, Passing
  <2> QED
    BY <2>2, <2>3, <2>4, <2>5, PassKeepsCurrent DEF Clean
<1>9. CASE SendBind \/ BindTimesOut
  <2>1. /\ sync.at = "bind" /\ sync'.at \in {"register", "stop"} /\ sync'.cur = sync.cur
        /\ sync'.extra = sync.extra /\ sync'.missing = sync.missing
        /\ sync'.loaded = sync.loaded
    BY <1>0, <1>9 DEF SendBind, BindTimesOut, Go, Syncs
  <2>2. UNCHANGED <<registered, worker, rows, authGen, editor>> /\ (Clean' => Clean)
    BY <1>9 DEF SendBind, BindTimesOut, dbVars, Clean
  <2>3. ToStop' = ToStop /\ sync.cur \in Want
    BY <2>1 DEF ToStop, Ending, Current, Passing, Starting
  <2>4. sync'.at \in Passing /\ sync.at \in Passing
    BY <2>1 DEF Starting, Passing
  <2> QED
    BY <2>1, <2>2, <2>3, <2>4, PassKeepsCurrent
<1>10. CASE Register
  <2>1. /\ sync.at = "register" /\ sync'.at = "stop" /\ sync'.cur = sync.cur
        /\ sync'.extra = sync.extra /\ sync'.missing = sync.missing
        /\ sync'.loaded = sync.loaded /\ sync.cur \in Sources \ Running
        /\ Running' = Running \cup {sync.cur}
        /\ UNCHANGED <<rows, authGen, dirty, editor>>
    BY <1>0, <1>10, RegisterFields DEF Register, dbVars
  <2>2. Want' = Want /\ (Clean' => Clean)
    BY <2>1 DEF Want, Clean
  <2>3. ToStop' = sync.extra /\ ToStop = sync.extra
    BY <2>1 DEF ToStop, Ending
  <2>4. ASSUME NEW s \in Running, AsRead(s)
        PROVE  AsRead(s)'
    <3>1. registered'[s] = registered[s] /\ registered[s] \in WorkerIds /\ registered[s] # sync.w
      BY <1>0, <1>10, <2>1, RegisterFields DEF Roles, RegisteredRuns
    <3>2. worker'[registered[s]] = worker[registered[s]]
      BY <1>0, <1>10, <3>1, RegisterFields
    <3> QED
      BY <2>1, <2>4, <3>1, <3>2 DEF AsRead, Fingerprint
  <2>5. AsRead(sync.cur)'
    <3>1. registered'[sync.cur] = sync.w /\
          worker'[sync.w].fp = Fingerprint(sync.cur, sync.loaded[sync.cur])
      BY <1>0, <1>10, RegisterFields
    <3> QED
      BY <2>1, <3>1 DEF AsRead, Fingerprint
  <2>6. sync.cur \in Want
    BY <2>1 DEF Current, Passing, Starting
  <2> QED
    BY <2>1, <2>2, <2>3, <2>4, <2>5, <2>6 DEF Current, Passing, Ending, Starting, AsRead
<1>11. CASE Finish
  <2>1. /\ sync.at = "stop" /\ sync'.at = "idle" /\ applied' = Running /\ sync.extra = {}
        /\ UNCHANGED <<registered, worker, rows, authGen, dirty, editor>>
    BY <1>11 DEF Finish, Stopping, AtRest, dbVars
  <2>2. Running' = Running /\ ToStop = {} /\ (Clean' => Clean)
    BY <2>1 DEF Running, ToStop, Ending, Clean
  <2>3. Clean => \A s \in Running : s \in Want /\ sync.loaded[s] = rows[s] /\ AsRead(s)
    BY <2>1, <2>2 DEF Current, Passing, AsRead
  <2>4. Clean => \A s \in Running : rows[s].there /\ rows[s].enabled /\ AsAsked(s)'
    BY <2>1, <2>3 DEF Want, AsRead, AsAsked, Fingerprint
  <2> QED
    BY <2>1, <2>2, <2>4 DEF Current, Passing, Ending, Starting, AsAsked
<1> QED
  BY <1>1, <1>2, <1>3, <1>4, <1>5, <1>6, <1>7, <1>8, <1>9, <1>10, <1>11
     DEF Next, Manage, GiveUp

LEMMA SpecCurrent == Spec => []Current
<1>1. Init => Current
  BY DEF Init, Current, Running, AtRest, Passing, Ending, Starting
<1>2. Current /\ Inv0 /\ [Next]_vars => Current'
  BY CurrentStep
<1> QED
  BY <1>1, <1>2, SpecRoles, PTL DEF Spec

\* SettledIsCurrent: wherever edits fall between clearing dirty, reading the rows
\* and marking dirty again, a manager that ignores requests as settled runs what
\* the rows ask for, with their last contents (Resync, sync, RequestSync).
THEOREM SettledCurrent == Spec => []SettledIsCurrent
<1>1. Current => SettledIsCurrent
  <2> SUFFICES ASSUME Current, sync.at = "idle", editor.at = "idle", ~dirty, applied = view,
                      NEW s \in Sources
               PROVE  /\ s \in Running <=> (s \in view /\ rows[s].there /\ rows[s].enabled)
                      /\ s \in Running => worker[registered[s]].fp = Fingerprint(s, rows[s])
    BY DEF SettledIsCurrent, Settled
  <2>1. Clean
    BY DEF Clean
  <2> QED
    BY <2>1 DEF Current
<1> QED
  BY <1>1, SpecCurrent, PTL

-----------------------------------------------------------------------------
(* What was reported.                                                      *)

\* What Told says of one source.
Reported(s) ==
  health[s] = IF worker[registered[s]].onHW THEN "hardware" ELSE "software"
Passed(s) == sync.at \in Passing \cup {"diff"} /\ s \notin Want
Waited(s) == sync.at = "joining" /\ sync.cur = s
ToldOf(s) ==
  IF s \in Running
    THEN worker[registered[s]].phase = "live" => Reported(s) \/ Passed(s)
    ELSE health[s] \in {"offline", "disabled"} \/ Waited(s)

LEMMA ToldOfEach == Told <=> (events["wedge"] = 0 => \A s \in Sources : ToldOf(s))
  BY DEF Told, ToldOf, Reported, Passed, Waited

\* A source whose worker and record a step leaves alone is told of as before.
LEMMA SameTold ==
  ASSUME NEW s \in Sources, ToldOf(s), registered'[s] = registered[s],
         s \in Running => /\ worker'[registered[s]].phase = worker[registered[s]].phase
                          /\ worker'[registered[s]].onHW = worker[registered[s]].onHW,
         health'[s] = health[s], s \in Running /\ Passed(s) => Passed(s)',
         s \notin Running /\ Waited(s) => Waited(s)'
  PROVE  ToldOf(s)'
<1>1. s \in Running' <=> s \in Running
  BY DEF Running
<1>2. CASE s \in Running
  BY <1>1, <1>2 DEF ToldOf, Reported
<1>3. CASE s \notin Running
  BY <1>1, <1>3 DEF ToldOf
<1> QED
  BY <1>2, <1>3

LEMMA ToldStep ==
  ASSUME Inv0, Sound, Current, Told, [Next]_vars
  PROVE  Told'
<1>0. /\ Types /\ Roles /\ sync \in Syncs /\ Running \subseteq Sources
      /\ health \in [Sources -> Statuses]
      /\ \A s \in Running : registered[s] \in WorkerIds
  BY DEF Inv0, Types, Running, Roles, RegisteredRuns
<1> SUFFICES ASSUME events'["wedge"] = 0, NEW s \in Sources
             PROVE  ToldOf(s)'
  BY ToldOfEach DEF Told, ToldOf, Reported, Passed, Waited
<1>a. events["wedge"] = 0 /\ ToldOf(s)
  <2>1. events["wedge"] = 0
    BY <1>0, NothingUnhappens DEF Events
  <2> QED
    BY <2>1, ToldOfEach
<1>1. CASE Environment \/ Handler \/ FrameRequest \/ ApplyCommand \/ CodecFreed \/ UNCHANGED vars
  <2>1. UNCHANGED <<registered, sync, worker, health>>
    BY <1>1 DEF Environment, Handler, FrameRequest, ApplyCommand, ChangeView, EditRow, Resync,
                ResyncRequest, mgrVars, CodecFreed, WorkerOnly, vars
  <2> QED
    BY <1>a, <2>1, SameTold DEF Passed, Waited, Want
<1>2. CASE Receive \/ ClearDirty \/ LoadFails
  <2>1. sync.at \in {"idle", "clear", "load"} /\ UNCHANGED <<registered, worker, health>>
    BY <1>2 DEF Receive, ClearDirty, LoadFails
  <2>2. ~Passed(s) /\ ~Waited(s)
    BY <2>1 DEF Passed, Waited, Passing, Ending, Starting
  <2> QED
    BY <1>a, <2>1, <2>2, SameTold
<1>3. CASE Load
  <2>1. /\ sync.at = "load" /\ sync'.at = "diff"
        /\ sync'.loaded = [t \in Sources |-> IF t \in sync.ids THEN rows[t] ELSE Absent]
        /\ UNCHANGED <<registered, worker>>
        /\ health'[s] = IF s \in sync.ids /\ rows[s].there /\ ~rows[s].enabled
                          THEN "disabled" ELSE health[s]
    BY <1>0, <1>3 DEF Load, Syncs
  <2>2. ~Passed(s) /\ ~Waited(s)
    BY <2>1 DEF Passed, Waited, Passing, Ending, Starting
  <2>3. CASE s \in sync.ids /\ rows[s].there /\ ~rows[s].enabled
    <3>1. Passed(s)' /\ health'[s] = "disabled"
      BY <2>1, <2>3 DEF Passed, Want
    <3> QED
      BY <3>1 DEF ToldOf
  <2>4. CASE ~(s \in sync.ids /\ rows[s].there /\ ~rows[s].enabled)
    <3>1. health'[s] = health[s]
      BY <2>1, <2>4
    <3> QED
      BY <1>a, <2>1, <2>2, <3>1, SameTold
  <2> QED
    BY <2>3, <2>4
<1>4. CASE \/ Diff \/ PickStop \/ SendUnbind \/ UnbindDone \/ UnbindTimesOut \/ Reserve
           \/ SendBind \/ BindTimesOut
  <2>1. /\ sync.at # "joining" /\ sync'.at \in Passing /\ sync'.loaded = sync.loaded
        /\ UNCHANGED <<registered, worker, health>>
    <3>1. UNCHANGED <<registered, worker, health>>
      BY <1>4 DEF Diff, PickStop, SendUnbind, UnbindDone, UnbindTimesOut, Reserve, SendBind,
                  BindTimesOut
    <3>2. CASE Diff
      BY <1>0, <3>1, <3>2 DEF Diff, Syncs, Passing
    <3>3. CASE PickStop
      BY <1>0, <3>1, <3>3 DEF PickStop, Stopping, Syncs, Passing, Ending
    <3>4. CASE SendUnbind \/ UnbindDone \/ UnbindTimesOut
      BY <1>0, <3>1, <3>4 DEF SendUnbind, UnbindDone, UnbindTimesOut, Go, Syncs, Passing, Ending
    <3>5. CASE Reserve
      BY <1>0, <3>1, <3>5 DEF Reserve, Stopping, Syncs, Passing, Starting
    <3>6. CASE SendBind
      BY <1>0, <3>1, <3>6 DEF SendBind, Go, Syncs, Passing, Starting
    <3>7. CASE BindTimesOut
      BY <1>0, <3>1, <3>7 DEF BindTimesOut, Syncs, Passing, Starting
    <3> QED
      BY <1>4, <3>2, <3>3, <3>4, <3>5, <3>6, <3>7
  <2>2. (Passed(s) => Passed(s)') /\ ~Waited(s)
    BY <2>1 DEF Passed, Waited, Want
  <2> QED
    BY <1>a, <2>1, <2>2, SameTold
<1>5. CASE Joined
  <2>1. /\ sync.at = "joining" /\ sync'.at = "stop" /\ sync'.loaded = sync.loaded
        /\ UNCHANGED <<registered, worker>> /\ sync.cur \in Sources \ Running
        /\ health' = [health EXCEPT ![sync.cur] = "offline"]
    BY <1>0, <1>5 DEF Joined, Stopped, Syncs, Roles, SyncKnows
  <2>2. Passed(s) => Passed(s)'
    BY <2>1 DEF Passed, Want, Passing
  <2>3. CASE s = sync.cur
    BY <1>0, <2>1, <2>3 DEF ToldOf, Running
  <2>4. CASE s # sync.cur
    <3>1. ~Waited(s) /\ health'[s] = health[s]
      BY <1>0, <2>1, <2>4 DEF Waited
    <3> QED
      BY <1>a, <2>1, <2>2, <3>1, SameTold
  <2> QED
    BY <2>3, <2>4
<1>6. CASE JoinTimesOut
  <2>1. events'["wedge"] # 0
    BY <1>0, <1>a, <1>6, HappensCounts DEF JoinTimesOut, Events
  <2> QED
    BY <2>1
<1>7. CASE Deregister
  <2>1. /\ sync.at = "deregister" /\ sync'.at = "joining" /\ sync'.cur = sync.cur
        /\ sync'.loaded = sync.loaded /\ Running' = Running \ {sync.cur}
        /\ registered'[s] = IF s = sync.cur THEN NoWorker ELSE registered[s]
        /\ health' = health
    BY <1>0, <1>7, DeregisterFields DEF Deregister
  <2>2. (Passed(s) => Passed(s)') /\ ~Waited(s)
    BY <2>1 DEF Passed, Waited, Want, Passing
  <2>3. CASE s = sync.cur
    BY <2>1, <2>3 DEF ToldOf, Waited
  <2>4. CASE s # sync.cur
    <3>1. s \in Running => /\ worker'[registered[s]].phase = worker[registered[s]].phase
                           /\ worker'[registered[s]].onHW = worker[registered[s]].onHW
      BY <1>0, <1>7, DeregisterFields
    <3> QED
      BY <1>a, <2>1, <2>2, <2>4, <3>1, SameTold
  <2> QED
    BY <2>3, <2>4
<1>8. CASE Register
  <2>1. /\ sync.at = "register" /\ sync'.at = "stop" /\ sync'.loaded = sync.loaded
        /\ registered'[s] = IF s = sync.cur THEN sync.w ELSE registered[s]
        /\ Running' = Running \cup {sync.cur} /\ health' = health
        /\ worker'[sync.w].phase = "starting"
        /\ \A t \in Running : registered[t] # sync.w
        /\ \A v \in WorkerIds : v # sync.w => worker'[v] = worker[v]
    BY <1>0, <1>8, RegisterFields DEF Register
  <2>2. (Passed(s) => Passed(s)') /\ ~Waited(s)
    BY <2>1 DEF Passed, Waited, Want, Passing
  <2>3. CASE s = sync.cur
    BY <2>1, <2>3 DEF ToldOf
  <2>4. CASE s # sync.cur
    BY <1>0, <1>a, <2>1, <2>2, <2>4, SameTold
  <2> QED
    BY <2>3, <2>4
<1>9. CASE Finish
  <2>1. /\ sync.at = "stop" /\ sync.extra = {} /\ UNCHANGED <<registered, worker, health>>
    BY <1>9 DEF Finish, Stopping
  <2>2. Running \subseteq Want /\ ~Waited(s)
    BY <2>1 DEF Current, Passing, ToStop, Ending, Waited
  <2> QED
    BY <1>a, <2>1, <2>2, SameTold DEF Passed
<1>10. ASSUME NEW w \in WorkerIds, Decode(w)
       PROVE  ToldOf(s)'
  <2> DEFINE src == worker[w].src
  <2>0. /\ UNCHANGED <<registered, sync>> /\ worker[w].phase # "gone" /\ src \in Sources
        /\ (Passed(s) => Passed(s)') /\ (Waited(s) => Waited(s)')
    <3>1. UNCHANGED <<registered, sync>> /\ worker[w].phase # "gone"
      BY <1>10 DEF Decode, Progress, Connect, FirstFrame, Fallback, Exit, SessionEnds, HWUnusable,
                   WorkerOnly
    <3> QED
      BY <1>0, <3>1 DEF Roles, WorkersKnown, Passed, Waited, Want
  <2>1. registered[src] = w \/ (sync.at = "joining" /\ sync.w = w /\ sync.cur = src)
    <3>1. registered[src] = w \/ (sync.at = "joining" /\ sync.w = w)
      BY <1>a, <2>0 DEF Sound
    <3> QED
      BY <1>0, <2>0, <3>1 DEF Roles, SyncKnows
  <2>2. \A t \in Sources : t # src => health'[t] = health[t]
    <3>1. health' = health \/ \E x : health' = [health EXCEPT ![src] = x]
      BY <1>10 DEF Decode, Progress, Connect, FirstFrame, Fallback, Exit, SessionEnds, HWUnusable,
                   Report
    <3> QED
      BY <1>0, <3>1
  <2>3. \A v \in WorkerIds : v # w => worker'[v].phase = worker[v].phase
                                      /\ worker'[v].onHW = worker[v].onHW
    <3>1. CASE SessionStep(w)
      BY <1>0, <3>1, StepFields
    <3>2. CASE Exit(w)
      BY <1>0, <3>2 DEF Exit, Types
    <3>3. CASE Fallback(w)
      BY <1>0, <3>3, FallbackFields
    <3> QED
      BY <1>10, <3>1, <3>2, <3>3 DEF Decode, Progress, SessionStep
  <2>4. CASE s # src
    <3>1. s \in Running => registered[s] # w
      BY <1>0, <2>4 DEF Roles, RegisteredRuns
    <3> QED
      BY <1>0, <1>a, <2>0, <2>2, <2>3, <2>4, <3>1, SameTold
  <2>5. CASE s = src /\ registered[s] = w
    <3>1. s \in Running /\ s \in Running' /\ registered'[s] = w /\ ~worker[w].cancelled
      BY <1>0, <2>0, <2>5, PipelineAssumption DEF Running, NoWorker, Roles, RegisteredRuns
    <3>2. CASE FirstFrame(w)
      <4>1. worker'[w].onHW = worker[w].onHW
        BY <1>0, <3>2, StepFields DEF SessionStep
      <4>2. health'[s] = IF worker[w].onHW THEN "hardware" ELSE "software"
        BY <1>0, <2>5, <3>2 DEF FirstFrame, Report
      <4> QED
        BY <3>1, <4>1, <4>2 DEF ToldOf, Reported
    <3>3. CASE Connect(w) \/ SessionEnds(w) \/ HWUnusable(w)
      <4>1. worker'[w].phase # "live"
        BY <1>0, <3>3, StepFields DEF SessionStep
      <4> QED
        BY <3>1, <4>1 DEF ToldOf
    <3>4. CASE Fallback(w)
      <4>1. worker'[w].phase = "starting"
        BY <1>0, <3>4, FallbackFields
      <4> QED
        BY <3>1, <4>1 DEF ToldOf
    <3>5. ~Exit(w)
      BY <3>1 DEF Exit
    <3> QED
      BY <1>10, <3>2, <3>3, <3>4, <3>5 DEF Decode, Progress
  <2>6. CASE s = src /\ registered[s] # w
    <3>1. Waited(s)' /\ s \notin Running'
      BY <1>0, <2>0, <2>1, <2>6 DEF Waited, Roles, SyncKnows, Running
    <3> QED
      BY <3>1 DEF ToldOf
  <2> QED
    BY <2>4, <2>5, <2>6
<1> QED
  BY <1>1, <1>2, <1>3, <1>4, <1>5, <1>6, <1>7, <1>8, <1>9, <1>10 DEF Next, Manage, GiveUp

LEMMA SpecTold == Spec => []Told
<1>1. Init => Told
  BY DEF Init, Told, Running
<1>2. Told /\ Inv0 /\ Sound /\ Current /\ [Next]_vars => Told'
  BY ToldStep
<1> QED
  BY <1>1, <1>2, SpecRoles, SpecSound, SpecCurrent, PTL DEF Spec

\* HealthIsTrue: however reports of old and new workers interleave, what the
\* scheduler says of a decoder when the manager rests is what it does, as long as
\* no worker outlives workerStopWait (OnHealth, stopOne).
THEOREM HealthTrue == Spec => []HealthIsTrue
<1>1. Told => HealthIsTrue
  BY DEF Told, HealthIsTrue, Passing, Ending, Starting
<1> QED
  BY <1>1, SpecTold, PTL
=============================================================================
