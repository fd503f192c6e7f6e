---------------------------- MODULE ControlPlane ----------------------------
(***************************************************************************)
(* The handlers that edit the wall -- handler/sources.go, screens.go,      *)
(* tour.go, uploads.go, handlers.go -- the rows they edit, and the         *)
(* strategy snapshot they build and hand to the scheduler                  *)
(* (display/strategy/snapshot.go).                                         *)
(*                                                                         *)
(* net/http runs every request on a goroutine of its own.  SQLite has one  *)
(* connection (database.go, tune), so a query or a transaction is one      *)
(* step, but a handler is several: it reads a row, checks what the row     *)
(* names or who names it, commits, and rebuilds the snapshot with a query  *)
(* per table.  Nothing but the transaction of one step holds other         *)
(* handlers off.                                                           *)
(*                                                                         *)
(* A source may name an upload, a screen names sources, the tour names     *)
(* screens.  Foreign keys tie tiles and items to their screen only: none   *)
(* guards a source, an upload, or the screen of a tour entry.  A row may   *)
(* also hold names its kind has no use for, and keep them: the items of a  *)
(* grid, the tiles of a transition screen, the upload_id of a source that  *)
(* is not a file.  They are its spare names.  Everything else a row says   *)
(* is the set of edits made to it; a request that one table refuses for    *)
(* its own sake (validation of a name, a layout, a dwell) changes nothing  *)
(* and is left out.  So are database errors and the associations that gorm *)
(* loads with a query of their own.                                        *)
(***************************************************************************)
EXTENDS Naturals, FiniteSets

CONSTANTS Uploads, Sources, Screens,  \* ids, used once each (autoincrement)
          Handlers                    \* requests, each made at most once

Config == "config"      \* the one row of RuntimeConfig
Tour == "tour"          \* the one row of Tour, with its entries

ASSUME PlaneAssumption ==
  /\ \A S \in {Uploads, Sources, Screens, Handlers} : IsFiniteSet(S)
  /\ Uploads \cap Sources = {} /\ Uploads \cap Screens = {} /\ Sources \cap Screens = {}
  /\ {Config, Tour} \cap (Uploads \cup Sources \cup Screens) = {}

Objects == Uploads \cup Sources \cup Screens \cup {Config}

VARIABLES
  live,     \* rows there are
  whole,    \* uploads that have their file, sources the path of their upload,
            \* screens their tiles
  refs,     \* what each row names for its kind
  spare,    \* what it names for another kind
  edits,    \* the requests whose edits each row holds
  entries,  \* the tour's entries, as positions and screens
  enabled,  \* Tour.Enabled
  applied,  \* the snapshot the scheduler runs
  request,  \* the handlers
  made,     \* history: the edits that were committed
  crossed,  \* history: what two requests in flight both read or named
  outrun    \* history: a snapshot was applied after one that was begun later

db == <<live, whole, refs, spare, edits, entries, enabled>>
history == <<made, crossed, outrun>>
vars == <<db, applied, request, history>>

InTour == {e[2] : e \in entries}

\* strategy.Build, query by query: the config, the tour, the screens, the sources.
TourQuery == [enabled |-> enabled, entries |-> entries]
ScreensQuery == [c \in live \cap Screens |-> [names |-> refs[c], edits |-> edits[c]]]
SourcesQuery == [s \in live \cap Sources |-> edits[s]]
BuildNow == [config |-> edits[Config], tour |-> TourQuery, screens |-> ScreensQuery,
             sources |-> SourcesQuery]

NoSnapshot == [config |-> {}, tour |-> {}, screens |-> {}, sources |-> {}]
Idle == [at |-> "idle", op |-> "none", on |-> Tour, names |-> {}, spare |-> {}, order |-> <<>>,
         enable |-> FALSE, row |-> {}, path |-> TRUE, snap |-> NoSnapshot,
         older |-> {}, late |-> FALSE]
Done == [Idle EXCEPT !.at = "done"]

NamesOf(o) == CASE o \in Sources -> Uploads [] o \in Screens -> Sources [] OTHER -> {}

\* A database at rest: every name is of use and that of a row, and the scheduler
\* runs it.
Init ==
  /\ live \in {L \in SUBSET Objects : Config \in L}
  /\ whole = live
  /\ refs \in {f \in [Objects -> SUBSET (Uploads \cup Sources)] :
                \A o \in Objects : f[o] \subseteq IF o \in live THEN NamesOf(o) \cap live ELSE {}}
  /\ spare = [o \in Objects |-> {}]
  /\ edits = [o \in Objects |-> {}]
  /\ entries \in {{}} \cup {{<<0, c>>} : c \in live \cap Screens}
  /\ enabled \in IF entries = {} THEN {FALSE} ELSE BOOLEAN
  /\ applied = BuildNow
  /\ request = [h \in Handlers |-> Idle]
  /\ made = [o \in Objects |-> {}] /\ crossed = {} /\ outrun = FALSE

-----------------------------------------------------------------------------
(* Requests.                                                               *)

InFlight(h) == request[h].at \notin {"idle", "done"}
Footprint(r) == {r.on} \cup r.names \cup IF r.op = "create" /\ r.on \in Screens THEN {Tour} ELSE {}

Begin(h, r) ==
  /\ request[h].at = "idle"
  /\ request' = [request EXCEPT ![h] = r]
  /\ crossed' = crossed \cup UNION {Footprint(r) \cap Footprint(request[g]) :
                                      g \in {g \in Handlers : InFlight(g)}}
  /\ UNCHANGED <<db, applied, made, outrun>>

To(h, place) ==
  request' = [request EXCEPT ![h] = IF place = "done" THEN Done ELSE [@ EXCEPT !.at = place]]
Refuse(h) == To(h, "done") /\ UNCHANGED <<db, applied, history>>

Request(op, on, names, extra) ==
  [Idle EXCEPT !.op = op, !.on = on, !.names = names, !.spare = extra, !.at = "check"]

\* A request says what kind its row is to be, and gives names for either; a source
\* has one upload_id, and uses it or not.
Given(o) == {n \in (SUBSET NamesOf(o)) \X (SUBSET NamesOf(o)) :
               o \in Sources => n[1] = {} \/ n[2] = {}}

\* CreateUpload, CreateSource, CreateScreen: the row does not exist yet.
StartCreate(h) ==
  \E o \in Objects \ live : \E n \in Given(o) :
    /\ made[o] = {} /\ \A g \in Handlers : request[g].on # o
    /\ Begin(h, Request("create", o, n[1], n[2]))

\* PatchSource, PatchScreen, PatchConfig: the row is read, its kind and what it
\* names kept or replaced.
StartPatch(h) ==
  \E o \in live \ Uploads : \E n \in Given(o) :
    Begin(h, [Request("patch", o, n[1], n[2]) EXCEPT !.row = edits[o]])

\* ProbeSource: the row is read before the probe and saved after it.
StartProbe(h) ==
  \E s \in Sources \cap live :
    Begin(h, [Request("probe", s, refs[s], spare[s]) EXCEPT
                !.row = edits[s], !.path = (s \in whole), !.at = "commit"])

StartDelete(h) == \E o \in live \ {Config} : Begin(h, Request("delete", o, {}, {}))

\* PutTour: the entries are given, in an order; enabled is given or read.
Orders(S) == {q \in [1..Cardinality(S) -> S] : \A c \in S : \E i \in DOMAIN q : q[i] = c}

StartTour(h) ==
  \E names \in SUBSET Screens, enable \in BOOLEAN : \E order \in Orders(names) :
    Begin(h, [Request("tour", Tour, names, {}) EXCEPT !.order = order, !.enable = enable])

-----------------------------------------------------------------------------
(* Checks.                                                                 *)

Checked(h, ok) ==
  /\ request[h].at = "check"
  /\ IF ok THEN To(h, "commit") /\ UNCHANGED <<db, applied, history>> ELSE Refuse(h)

\* Mutant: what a row names is taken on trust.
CheckNothing(h) ==
  /\ request[h].at = "check" /\ request[h].op \in {"create", "patch"}
  /\ To(h, "commit") /\ UNCHANGED <<db, applied, history>>

\* ValidateScreen, applyUploadToSource: the names its kind uses are rows.  A source
\* takes the path of its upload, which is empty while the upload is being stored.
CheckNames(h) ==
  LET r == request[h] IN
  /\ r.at = "check" /\ r.op \in {"create", "patch"}
  /\ IF r.names \subseteq live
       THEN /\ request' = [request EXCEPT ![h] = [r EXCEPT
                 !.at = "commit", !.path = r.on \in Sources => r.names \subseteq whole]]
            /\ UNCHANGED <<db, applied, history>>
       ELSE Refuse(h)

\* Mutant: an enabled tour may be left without entries.
CheckScreensOnly(h) ==
  /\ request[h].op = "tour"
  /\ Checked(h, request[h].names \subseteq live)

\* ValidateTour.
CheckTour(h) ==
  /\ request[h].op = "tour"
  /\ Checked(h, /\ request[h].names \subseteq live
                /\ request[h].enable => request[h].names # {})

\* SourcesUsingUpload looks at file sources only, ReferencingScreens at tiles and
\* items of screens of either kind; TourEntriesForScreen.
Referrers(o) ==
  {x \in live : o \in refs[x] \/ (x \in Screens /\ o \in spare[x])}
  \cup IF o \in InTour THEN {Tour} ELSE {}

CheckUnused(h) ==
  /\ request[h].op = "delete"
  /\ Checked(h, Referrers(request[h].on) = {})

-----------------------------------------------------------------------------
(* Commits.                                                                *)

After(r) == CASE r.on \in Uploads -> "store"
              [] r.on \in Screens -> IF r.op = "create" THEN "seed" ELSE "reread"
              [] OTHER -> "reload"

\* Save writes the whole row the handler read.  A source that is gone by then is
\* inserted again; a screen is not, for its tiles need the row to be there.
CommitSave(h) ==
  LET r == request[h]
      mark == IF r.op = "probe" THEN {} ELSE {h}
  IN
  /\ r.at = "commit" /\ r.op \in {"create", "patch", "probe"}
  /\ IF r.op = "patch" /\ r.on \in Screens \ live THEN Refuse(h)
     ELSE /\ live' = live \cup {r.on}
          /\ whole' = IF r.path /\ r.on \notin Uploads
                        THEN whole \cup {r.on} ELSE whole \ {r.on}
          /\ refs' = [refs EXCEPT ![r.on] = r.names]
          /\ spare' = [spare EXCEPT ![r.on] = r.spare]
          /\ edits' = [edits EXCEPT ![r.on] = r.row \cup mark]
          /\ made' = [made EXCEPT ![r.on] = @ \cup mark]
          /\ To(h, After(r))
          /\ UNCHANGED <<entries, enabled, applied, crossed, outrun>>

\* The file of an upload is copied once its row is there.  It fails and the row
\* is deleted, or it succeeds and the row is saved, whether or not it is there.
StoreFile(h) ==
  LET u == request[h].on IN
  /\ request[h].at = "store"
  /\ \/ live' = live \ {u} /\ UNCHANGED <<whole, edits>>
     \/ live' = live \cup {u} /\ whole' = whole \cup {u} /\ edits' = [edits EXCEPT ![u] = {h}]
  /\ To(h, "done")
  /\ UNCHANGED <<refs, spare, entries, enabled, applied, history>>

\* The transaction of PutTour: the flag and the entries together, renumbered.
CommitTour(h) ==
  LET order == request[h].order IN
  /\ request[h].at = "commit" /\ request[h].op = "tour"
  /\ entries' = {<<i - 1, order[i]>> : i \in DOMAIN order}
  /\ enabled' = request[h].enable
  /\ To(h, "reload")
  /\ UNCHANGED <<live, whole, refs, spare, edits, applied, history>>

Erase(h, o) ==
  /\ live' = live \ {o}
  /\ edits' = [edits EXCEPT ![o] = @ \cup {h}] /\ made' = [made EXCEPT ![o] = @ \cup {h}]
  /\ UNCHANGED <<entries, enabled, applied, crossed, outrun>>

\* replaceScreen empties a screen before its row goes; a source and an upload go
\* at once.
CommitDelete(h) ==
  LET o == request[h].on IN
  /\ request[h].at = "commit" /\ request[h].op = "delete"
  /\ refs' = [refs EXCEPT ![o] = {}] /\ spare' = [spare EXCEPT ![o] = {}]
  /\ whole' = whole \ {o}
  /\ IF o \in Screens
       THEN To(h, "drop") /\ UNCHANGED <<live, edits, entries, enabled, applied, history>>
       ELSE Erase(h, o) /\ To(h, IF o \in Uploads THEN "done" ELSE "reload")

\* Mutant: the row of a screen goes whatever was saved since it was emptied.
DropAnyway(h) ==
  /\ request[h].at = "drop"
  /\ Erase(h, request[h].on) /\ To(h, "reload")
  /\ UNCHANGED <<refs, spare, whole>>

\* The row of the screen; tiles saved since keep it, and the request fails.
DropScreen(h) ==
  /\ request[h].at = "drop"
  /\ IF request[h].on \in whole THEN Refuse(h)
     ELSE Erase(h, request[h].on) /\ To(h, "reload") /\ UNCHANGED <<refs, spare, whole>>

\* seedTourIfEmpty: a look at the tour, ...
SeedLook(h) ==
  /\ request[h].at = "seed"
  /\ To(h, IF entries = {} THEN "insert" ELSE "reread")
  /\ UNCHANGED <<db, applied, history>>

\* ... and an entry at position 0.
SeedInsert(h) ==
  /\ request[h].at = "insert"
  /\ entries' = entries \cup {<<0, request[h].on>>}
  /\ To(h, "reread")
  /\ UNCHANGED <<live, whole, refs, spare, edits, enabled, applied, history>>

\* Mutant: a saved screen is answered with and not handed over.
RereadOnly(h) ==
  /\ request[h].at = "reread"
  /\ To(h, "done") /\ UNCHANGED <<db, applied, history>>

\* A screen that is gone again ends the request, without a reload.
Reread(h) ==
  /\ request[h].at = "reread"
  /\ To(h, IF request[h].on \in live THEN "reload" ELSE "done")
  /\ UNCHANGED <<db, applied, history>>

-----------------------------------------------------------------------------
(* reloadStrategy.                                                         *)

Building(h) == request[h].at \in {"tour", "screens", "sources", "apply"}

Query(h, from, to, snap, older) ==
  /\ request[h].at = from
  /\ request' = [request EXCEPT ![h].at = to, ![h].snap = snap, ![h].older = older]
  /\ UNCHANGED <<db, applied, history>>

Snap(h) == request[h].snap
Older(h) == request[h].older    \* the builds that were under way when this one began
QueryConfig(h) == Query(h, "reload", "tour", [Snap(h) EXCEPT !.config = edits[Config]],
                        {g \in Handlers : Building(g)})
QueryTour(h) == Query(h, "tour", "screens", [Snap(h) EXCEPT !.tour = TourQuery], Older(h))
QueryScreens(h) ==
  Query(h, "screens", "sources", [Snap(h) EXCEPT !.screens = ScreensQuery], Older(h))
QuerySources(h) ==
  Query(h, "sources", "apply", [Snap(h) EXCEPT !.sources = SourcesQuery], Older(h))

\* ApplyStrategy takes what it is given: whoever comes last wins, whatever the
\* Rev of its snapshot, and the Rev is drawn after the queries anyway.
Apply(h) ==
  /\ request[h].at = "apply"
  /\ applied' = request[h].snap
  /\ request' = [g \in Handlers |->
       IF g = h THEN Done
       ELSE [request[g] EXCEPT !.late = @ \/ (Building(g) /\ g \in Older(h))]]
  /\ outrun' = (outrun \/ request[h].late)
  /\ UNCHANGED <<db, made, crossed>>

-----------------------------------------------------------------------------

Start(h) ==
  StartCreate(h) \/ StartPatch(h) \/ StartProbe(h) \/ StartDelete(h) \/ StartTour(h)
Check(h) == CheckNames(h) \/ CheckTour(h) \/ CheckUnused(h)
Commit(h) ==
  CommitSave(h) \/ StoreFile(h) \/ CommitTour(h) \/ CommitDelete(h) \/ DropScreen(h)
  \/ SeedLook(h) \/ SeedInsert(h) \/ Reread(h)
Reload(h) == QueryConfig(h) \/ QueryTour(h) \/ QueryScreens(h) \/ QuerySources(h) \/ Apply(h)

Next == \E h \in Handlers : Start(h) \/ Check(h) \/ Commit(h) \/ Reload(h)

Spec == Init /\ [][Next]_vars

-----------------------------------------------------------------------------
(* Properties.                                                             *)

\* Every variable holds a value of its type, and a row names only what it may.
TypeOK ==
  /\ live \subseteq Objects /\ whole \subseteq live
  /\ edits \in [Objects -> SUBSET Handlers] /\ made \in [Objects -> SUBSET Handlers]
  /\ entries \subseteq (0..Cardinality(Screens)) \X Screens /\ enabled \in BOOLEAN
  /\ crossed \subseteq Objects \cup {Tour} /\ outrun \in BOOLEAN
  /\ \A o \in Objects : refs[o] \cup spare[o] \subseteq IF o \in live THEN NamesOf(o) ELSE {}
  /\ \A h \in Handlers : request[h].at \in
       {"idle", "check", "commit", "store", "drop", "seed", "insert", "reread", "reload",
        "tour", "screens", "sources", "apply", "done"}

\* "An enabled tour needs at least one entry": however requests interleave, the
\* tour in the database is never enabled and empty.
EnabledTourHasEntries == enabled => entries # {}

\* A name that is in use outlives its row, a row is left without its file, path or
\* tiles, a committed edit or deletion is undone, a tour has two entries at one
\* position, only where two requests in flight had the row in common: no sequence
\* of requests does it, whatever kinds its sources and screens go through.
HarmNeedsARace ==
  LET alone == {o \in live : ({o} \cup refs[o]) \cap crossed = {}}
      busy == {request[h].on : h \in {h \in Handlers : InFlight(h)}}
  IN
  /\ InTour \subseteq live \cup crossed
  /\ \A o \in alone : refs[o] \subseteq live /\ made[o] \subseteq edits[o]
  /\ alone \subseteq whole \cup busy
  /\ Tour \in crossed \/ \A e, f \in entries : e[1] = f[1] => e = f

\* With no request in flight the scheduler runs what the database says, however
\* the queries of the builds fell among the commits, unless a snapshot was applied
\* after one that was begun later.  Entries of screens that are gone do not count:
\* the creator of such a screen never hands them over.
AppliedIsCurrent ==
  LET standing(snap) ==
        [snap EXCEPT !.tour.entries = {e \in @ : e[2] \in DOMAIN snap.screens}]
  IN (\A h \in Handlers : ~InFlight(h))
       => outrun \/ standing(applied) = standing(BuildNow)

\* "A source referenced by any tile, sequence, or playlist item must exist", which
\* the API enforces: here of a wall that was edited by one request at a time.
ReferencedSourceExists ==
  crossed = {} => \A c \in live \cap Screens : refs[c] \cup spare[c] \subseteq live

\* "Deleting a source that is referenced is refused": none goes that a screen names.
ReferencedSourceStays ==
  [][\A s \in live \cap Sources :
       s \notin live' => \A c \in live : s \notin refs[c] \cup spare[c]]_vars
=============================================================================
