------------------------- MODULE ControlPlaneProofs -------------------------
(***************************************************************************)
(* The safety of the handlers for any rows and any number of requests, in  *)
(* flight at once and interleaved in any way.  There are four parts.       *)
(*                                                                         *)
(* An enabled tour has entries: what a handler checked of its own request  *)
(* still holds when it commits, for the flag and the entries are written   *)
(* by one transaction and out of that request alone.  The other writer of  *)
(* entries only adds one.                                                  *)
(*                                                                         *)
(* Types: a request in flight is at a place its operation leads to and     *)
(* names what its row may name.                                            *)
(*                                                                         *)
(* Harm needs a race: what a handler has read or checked is undone only by *)
(* a request that reads or names the same row, and that one is crossed.    *)
(* Every step is one of a few kinds (Quiet, Begins, Writes), and RaceInv   *)
(* is kept kind by kind.                                                   *)
(*                                                                         *)
(* What is applied is current: whoever changes what a snapshot shows has   *)
(* the whole reload before it, so every part of the snapshot in force is   *)
(* current, or is going to be handed over.  A build that missed the change *)
(* comes in before that one, or comes in late, and then one was overtaken. *)
(***************************************************************************)
EXTENDS ControlPlane, FiniteSetTheorems, TLAPS

\* Until it is committed, a request for the tour lists every screen it names;
\* once it is checked, it enables the tour only if it names one.
Listed(r) == \A c \in r.names : \E i \in DOMAIN r.order : r.order[i] = c
RequestOk(r) ==
  /\ DOMAIN r = DOMAIN Idle
  /\ r.op = "tour" /\ r.at \in {"check", "commit"} => Listed(r)
  /\ r.op = "tour" /\ r.at = "commit" /\ r.enable => r.names # {}

RequestsOk == DOMAIN request = Handlers /\ \A h \in Handlers : RequestOk(request[h])
TourInv == RequestsOk /\ EnabledTourHasEntries

-----------------------------------------------------------------------------

\* Most steps set one request and leave the tour.
LEMMA SetRequest ==
  ASSUME TourInv, NEW h, NEW r, RequestOk(r),
         request' = [request EXCEPT ![h] = r], UNCHANGED <<entries, enabled>>
  PROVE  TourInv'
  BY DEF TourInv, RequestsOk, EnabledTourHasEntries

LEMMA IdleOk == RequestOk(Idle) /\ RequestOk(Done)
  BY DEF RequestOk, Idle, Done

\* Going on to a place keeps a request in order if it is not for the tour, or is
\* past its commit there.
LEMMA GoesOn ==
  ASSUME TourInv, NEW h \in Handlers, NEW place, To(h, place),
         \/ request[h].op # "tour"
         \/ place \notin {"check", "commit"}
  PROVE  RequestsOk'
<1>1. CASE place = "done"
  BY <1>1, IdleOk DEF To, TourInv, RequestsOk
<1>2. CASE place # "done"
  <2> DEFINE r == [request[h] EXCEPT !.at = place]
  <2>1. RequestOk(request[h])
    BY DEF TourInv, RequestsOk
  <2>2. DOMAIN r = DOMAIN Idle /\ r.op = request[h].op /\ r.at = place
    BY <2>1 DEF RequestOk, Idle
  <2>3. RequestOk(r)
    BY <2>2 DEF RequestOk
  <2>4. request' = [request EXCEPT ![h] = r]
    BY <1>2 DEF To
  <2> QED
    BY <2>3, <2>4 DEF TourInv, RequestsOk
<1> QED
  BY <1>1, <1>2

-----------------------------------------------------------------------------
(* One lemma for each kind of step.                                        *)

LEMMA InitOk == Init => TourInv
  BY IdleOk DEF Init, TourInv, RequestsOk, EnabledTourHasEntries

LEMMA RequestBegins ==
  ASSUME TourInv, NEW op, NEW on, NEW names, NEW extra, op # "tour"
  PROVE  RequestOk(Request(op, on, names, extra))
  BY DEF RequestOk, Request, Idle

LEMMA StartOk ==
  ASSUME TourInv, NEW h \in Handlers, Start(h)
  PROVE  TourInv'
<1>1. CASE StartCreate(h)
  <2>1. PICK o, n : Begin(h, Request("create", o, n[1], n[2]))
    BY <1>1 DEF StartCreate
  <2>2. RequestOk(Request("create", o, n[1], n[2]))
    BY RequestBegins
  <2> QED
    BY <2>1, <2>2, SetRequest DEF Begin, db
<1>2. CASE StartPatch(h)
  <2>1. PICK o \in live \ Uploads :
          \E n \in Given(o) :
            Begin(h, [Request("patch", o, n[1], n[2]) EXCEPT !.row = edits[o]])
    BY <1>2 DEF StartPatch
  <2>2. PICK n : Begin(h, [Request("patch", o, n[1], n[2]) EXCEPT !.row = edits[o]])
    BY <2>1
  <2>3. RequestOk([Request("patch", o, n[1], n[2]) EXCEPT !.row = edits[o]])
    BY DEF RequestOk, Request, Idle
  <2> QED
    BY <2>2, <2>3, SetRequest DEF Begin, db
<1>3. CASE StartProbe(h)
  <2>1. PICK s \in Sources \cap live :
          Begin(h, [Request("probe", s, refs[s], spare[s]) EXCEPT
                      !.row = edits[s], !.path = (s \in whole), !.at = "commit"])
    BY <1>3 DEF StartProbe
  <2>2. RequestOk([Request("probe", s, refs[s], spare[s]) EXCEPT
                     !.row = edits[s], !.path = (s \in whole), !.at = "commit"])
    BY DEF RequestOk, Request, Idle
  <2> QED
    BY <2>1, <2>2, SetRequest DEF Begin, db
<1>4. CASE StartDelete(h)
  BY <1>4, RequestBegins, SetRequest DEF StartDelete, Begin, db
<1>5. CASE StartTour(h)
  <2>1. PICK names, enable, order :
          /\ order \in Orders(names)
          /\ Begin(h, [Request("tour", Tour, names, {}) EXCEPT !.order = order, !.enable = enable])
    BY <1>5 DEF StartTour
  <2> DEFINE r == [Request("tour", Tour, names, {}) EXCEPT !.order = order, !.enable = enable]
  <2>2. r.names = names /\ r.order = order /\ r.at = "check" /\ DOMAIN r = DOMAIN Idle
    BY DEF Request, Idle
  <2>3. RequestOk(r)
    BY <2>1, <2>2 DEF RequestOk, Listed, Orders
  <2> QED
    BY <2>1, <2>3, SetRequest DEF Begin, db
<1> QED
  BY <1>1, <1>2, <1>3, <1>4, <1>5 DEF Start

LEMMA RefuseOk ==
  ASSUME TourInv, NEW h \in Handlers, Refuse(h)
  PROVE  TourInv'
  BY GoesOn DEF Refuse, db, TourInv, EnabledTourHasEntries

LEMMA CheckOk ==
  ASSUME TourInv, NEW h \in Handlers, Check(h)
  PROVE  TourInv'
<1> DEFINE r == request[h]
<1>0. RequestOk(r)
  BY DEF TourInv, RequestsOk
<1>1. CASE CheckNames(h)
  <2>1. CASE r.names \subseteq live
    <3> DEFINE q == [r EXCEPT !.at = "commit",
                              !.path = r.on \in Sources => r.names \subseteq whole]
    <3>1. q.op = r.op /\ DOMAIN q = DOMAIN Idle
      BY <1>0 DEF RequestOk, Idle
    <3>2. RequestOk(q)
      BY <1>1, <3>1 DEF CheckNames, RequestOk
    <3> QED
      BY <1>1, <2>1, <3>2, SetRequest DEF CheckNames, db
  <2> QED
    BY <1>1, <2>1, RefuseOk DEF CheckNames
<1>2. CASE CheckTour(h)
  <2>1. CASE r.names \subseteq live /\ (r.enable => r.names # {})
    <3> DEFINE q == [r EXCEPT !.at = "commit"]
    <3>1. /\ q.names = r.names /\ q.order = r.order /\ q.enable = r.enable
          /\ DOMAIN q = DOMAIN Idle
      BY <1>0 DEF RequestOk, Idle
    <3>2. Listed(r)
      BY <1>0, <1>2 DEF CheckTour, Checked, RequestOk
    <3>3. RequestOk(q)
      BY <2>1, <3>1, <3>2 DEF RequestOk, Listed
    <3> QED
      BY <1>2, <2>1, <3>3, SetRequest DEF CheckTour, Checked, To, db
  <2> QED
    BY <1>2, <2>1, RefuseOk DEF CheckTour, Checked
<1>3. CASE CheckUnused(h)
  <2>1. r.op # "tour"
    BY <1>3 DEF CheckUnused
  <2>2. CASE Refuse(h)
    BY <2>2, RefuseOk
  <2>3. CASE To(h, "commit") /\ UNCHANGED <<db, applied, history>>
    BY <2>1, <2>3, GoesOn DEF db, TourInv, EnabledTourHasEntries
  <2> QED
    BY <1>3, <2>2, <2>3 DEF CheckUnused, Checked
<1> QED
  BY <1>1, <1>2, <1>3 DEF Check

LEMMA CommitOk ==
  ASSUME TourInv, NEW h \in Handlers, Commit(h)
  PROVE  TourInv'
<1> DEFINE r == request[h]
           TourStays == UNCHANGED <<entries, enabled>>
<1>0. RequestOk(r)
  BY DEF TourInv, RequestsOk
<1>. SUFFICES ASSUME ~Refuse(h)
              PROVE  TourInv'
  BY RefuseOk
<1>1. ASSUME NEW place, To(h, place), TourStays,
             r.op # "tour" \/ place \notin {"check", "commit"}
      PROVE  TourInv'
  BY <1>1, GoesOn DEF TourInv, EnabledTourHasEntries
<1>2. CASE CommitSave(h)
  <2>1. r.op # "tour" /\ To(h, After(r)) /\ TourStays
    BY <1>2 DEF CommitSave
  <2> QED
    BY <1>1, <2>1
<1>3. CASE StoreFile(h)
  BY <1>1, <1>3 DEF StoreFile
<1>4. CASE CommitTour(h)
  <2>1. RequestsOk'
    BY <1>4, GoesOn DEF CommitTour
  <2>2. ASSUME r.enable
        PROVE  \E i : i \in DOMAIN r.order
    <3>1. PICK c : c \in r.names
      BY <1>0, <1>4, <2>2 DEF CommitTour, RequestOk
    <3> QED
      BY <1>0, <1>4, <3>1 DEF CommitTour, RequestOk, Listed
  <2>3. r.enable => {<<i - 1, r.order[i]>> : i \in DOMAIN r.order} # {}
    BY <2>2
  <2>4. EnabledTourHasEntries'
    BY <1>4, <2>3 DEF CommitTour, EnabledTourHasEntries
  <2> QED
    BY <2>1, <2>4 DEF TourInv
<1>5. CASE CommitDelete(h)
  <2>1. PICK place : To(h, place)
    BY <1>5 DEF CommitDelete
  <2>2. r.op # "tour" /\ TourStays
    BY <1>5 DEF CommitDelete, Erase
  <2> QED
    BY <1>1, <2>1, <2>2
<1>6. CASE DropScreen(h)
  BY <1>1, <1>6 DEF DropScreen, Erase
<1>7. CASE SeedLook(h)
  <2>1. PICK place \in {"insert", "reread"} : To(h, place)
    BY <1>7 DEF SeedLook
  <2> QED
    BY <1>1, <1>7, <2>1 DEF SeedLook, db
<1>8. CASE SeedInsert(h)
  <2>1. RequestsOk'
    BY <1>8, GoesOn DEF SeedInsert
  <2>2. entries' # {}
    BY <1>8 DEF SeedInsert
  <2> QED
    BY <2>1, <2>2 DEF TourInv, EnabledTourHasEntries
<1>9. CASE Reread(h)
  <2>1. PICK place \in {"reload", "done"} : To(h, place)
    BY <1>9 DEF Reread
  <2> QED
    BY <1>1, <1>9, <2>1 DEF Reread, db
<1> QED
  BY <1>2, <1>3, <1>4, <1>5, <1>6, <1>7, <1>8, <1>9 DEF Commit

LEMMA ReloadOk ==
  ASSUME TourInv, NEW h \in Handlers, Reload(h)
  PROVE  TourInv'
<1>1. ASSUME NEW from, NEW to \in {"tour", "screens", "sources", "apply"}, NEW snap, NEW older,
             Query(h, from, to, snap, older)
      PROVE  TourInv'
  <2> DEFINE r == [request[h] EXCEPT !.at = to, !.snap = snap, !.older = older]
  <2>1. RequestOk(request[h])
    BY DEF TourInv, RequestsOk
  <2>2. DOMAIN r = DOMAIN Idle /\ r.at = to
    BY <2>1 DEF RequestOk, Idle
  <2>3. RequestOk(r)
    BY <2>2 DEF RequestOk
  <2>4. request' = [request EXCEPT ![h] = r]
    BY <1>1 DEF Query, TourInv, RequestsOk
  <2> QED
    BY <1>1, <2>3, <2>4, SetRequest DEF Query, db
<1>2. CASE Apply(h)
  <2>1. ASSUME NEW g \in Handlers
        PROVE  RequestOk(request'[g])
    <3>1. CASE g = h
      BY <1>2, <3>1, IdleOk DEF Apply
    <3>2. CASE g # h
      <4> DEFINE q == [request[g] EXCEPT !.late = @ \/ (Building(g) /\ g \in Older(h))]
      <4>1. RequestOk(request[g])
        BY DEF TourInv, RequestsOk
      <4>2. /\ DOMAIN q = DOMAIN Idle /\ q.op = request[g].op /\ q.at = request[g].at
            /\ q.names = request[g].names /\ q.order = request[g].order
            /\ q.enable = request[g].enable
        BY <4>1 DEF RequestOk, Idle
      <4>3. RequestOk(q)
        BY <4>1, <4>2 DEF RequestOk, Listed
      <4> QED
        BY <1>2, <3>2, <4>3 DEF Apply
    <3> QED
      BY <3>1, <3>2
  <2>2. DOMAIN request' = Handlers /\ UNCHANGED <<entries, enabled>>
    BY <1>2 DEF Apply, db
  <2> QED
    BY <2>1, <2>2 DEF TourInv, RequestsOk, EnabledTourHasEntries
<1> QED
  BY <1>1, <1>2 DEF Reload, QueryConfig, QueryTour, QueryScreens, QuerySources

-----------------------------------------------------------------------------

LEMMA TourInvHolds == Spec => []TourInv
<1>1. TourInv /\ [Next]_vars => TourInv'
  <2> SUFFICES ASSUME TourInv, [Next]_vars
               PROVE  TourInv'
    OBVIOUS
  <2>1. CASE Next
    BY <2>1, StartOk, CheckOk, CommitOk, ReloadOk DEF Next
  <2>2. CASE UNCHANGED vars
    BY <2>2 DEF vars, db, TourInv, RequestsOk, EnabledTourHasEntries
  <2> QED
    BY <2>1, <2>2
<1> QED
  BY InitOk, <1>1, PTL DEF Spec

\* ValidateTour refuses an enabled tour without entries, and neither the seeding
\* of an empty tour nor a second PutTour can bring one about.
THEOREM EnabledTourAlwaysHasEntries == Spec => []EnabledTourHasEntries
  BY TourInvHolds, PTL DEF TourInv

-----------------------------------------------------------------------------
(* Types.                                                                  *)

Parts == {"config", "tour", "screens", "sources"}
Places ==
  {"idle", "check", "commit", "store", "drop", "seed", "insert", "reread", "reload", "tour",
   "screens", "sources", "apply", "done"}

\* A request in flight names what a row of its kind may name, and is at a place
\* that its operation leads to.
Fits(r) ==
  /\ r.op \in {"create", "patch", "probe", "delete", "tour"}
  /\ r.op = "create" => r.on \in Objects \ {Config} /\ r.names \subseteq NamesOf(r.on)
  /\ r.op = "patch" => r.on \in Objects \ Uploads /\ r.names \subseteq NamesOf(r.on)
  /\ r.op = "probe" => r.on \in Sources /\ r.names \subseteq NamesOf(r.on)
  /\ r.op = "delete" => r.on \in Objects \ {Config} /\ r.names = {}
  /\ r.op = "tour" => r.on = Tour /\ r.names \subseteq Screens
                      /\ r.order \in [1..Cardinality(r.names) -> r.names]
  /\ r.at = "store" => r.op = "create" /\ r.on \in Uploads
  /\ r.at = "drop" => r.op = "delete" /\ r.on \in Screens
  /\ r.at \in {"seed", "insert"} => r.op = "create" /\ r.on \in Screens
  /\ r.at = "reread" => r.op \in {"create", "patch"} /\ r.on \in Screens
  /\ r.at = "check" => r.op # "probe"
  /\ r.at = "commit" /\ r.op \in {"create", "patch"} /\ r.on \notin Sources => r.path

Going(r) == r.at \notin {"idle", "done"}

Typed(r) ==
  /\ DOMAIN r = DOMAIN Idle /\ r.at \in Places
  /\ r.row \in SUBSET Handlers /\ r.path \in BOOLEAN /\ r.enable \in BOOLEAN
  /\ Going(r) => Fits(r)

RequestTypes == DOMAIN request = Handlers /\ \A h \in Handlers : Typed(request[h])

\* A screen without tiles shows nothing.
RowTypes ==
  /\ live \subseteq Objects /\ whole \subseteq live /\ Config \in live
  /\ edits \in [Objects -> SUBSET Handlers] /\ made \in [Objects -> SUBSET Handlers]
  /\ entries \subseteq (0..Cardinality(Screens)) \X Screens /\ enabled \in BOOLEAN
  /\ crossed \subseteq Objects \cup {Tour}
  /\ DOMAIN refs = Objects
  /\ \A o \in Objects : refs[o] \subseteq IF o \in live THEN NamesOf(o) ELSE {}
  /\ \A c \in Screens \ whole : refs[c] = {}
  /\ \A h \in Handlers : request[h].at = "store" => request[h].on \notin whole

\* Two requests never create the same row.
CreatedOnce ==
  \A g, h \in Handlers :
    /\ g # h /\ InFlight(g) /\ InFlight(h)
    /\ request[g].op = "create" /\ request[h].op = "create"
    => request[g].on # request[h].on

-----------------------------------------------------------------------------
(* What requests in flight rely on.                                        *)

\* Rows there are or have been.
Known == live \cup {o \in Objects : made[o] # {}}
Checks(r) == r.op \in {"create", "patch", "tour"} /\ r.at = "check"
Creating(r) == r.op = "create" /\ r.at \in {"check", "commit"}

OnlyKnown ==
  /\ \A o \in Objects : refs[o] \subseteq Known
  /\ InTour \subseteq Known
  /\ \A h \in Handlers : InFlight(h) =>
       /\ ~Checks(request[h]) => request[h].names \subseteq Known
       /\ request[h].op # "tour" => (request[h].on \in Known <=> ~Creating(request[h]))
       /\ request[h].at = "store" => made[request[h].on] # {}

\* What two requests in flight have in common is crossed.
Exclusive ==
  \A g, h \in Handlers :
    g # h /\ InFlight(g) /\ InFlight(h)
      => Footprint(request[g]) \cap Footprint(request[h]) \subseteq crossed

Uncrossed(S) == S \cap crossed = {}

\* What is about to go is named by nobody.
Leaving(r) == (r.op = "delete" /\ r.at \in {"commit", "drop"}) \/ r.at = "store"
Unused ==
  \A h \in Handlers : Leaving(request[h]) /\ request[h].on \notin crossed =>
    request[h].on \notin InTour /\ \A o \in live : request[h].on \notin refs[o]

\* What a checked request names is still there, and a source has its path.
Saving(r) == r.op \in {"create", "patch", "probe"} /\ r.at = "commit"
StillThere ==
  \A h \in Handlers : LET r == request[h] IN
    /\ Saving(r) /\ Uncrossed({r.on} \cup r.names)
         => r.names \subseteq live /\ (r.on \notin Uploads => r.path)
    /\ r.op = "tour" /\ r.at = "commit" => r.names \subseteq live \cup crossed
    /\ r.at \in {"seed", "insert"} => r.on \in live \cup crossed

\* Whoever saves a row has read every edit of it.
ReadAll ==
  /\ \A o \in live \ crossed : made[o] \subseteq edits[o]
  /\ \A h \in Handlers : LET r == request[h] IN
       /\ r.op \in {"create", "patch", "probe"} /\ r.at \in {"check", "commit"} /\ r.on \notin crossed
            => made[r.on] \subseteq r.row
       /\ r.at = "store" /\ r.on \notin crossed => made[r.on] \subseteq {h}

\* A row that is there, and neither it nor what it names was shared.
Alone(o) == o \in live /\ Uncrossed({o} \cup refs[o])
NamesStand == \A o \in Objects : Alone(o) => refs[o] \subseteq live

\* A row without its file, path or tiles is in somebody's hands.
IsWhole ==
  \A o \in Objects : Alone(o) =>
    o \in whole \/ \E h \in Handlers : request[h].on = o /\ request[h].at \in {"store", "drop"}

\* Entries are of screens there are, at positions of their own; whoever found the
\* tour empty still does.
TourStands ==
  /\ InTour \subseteq live \cup crossed
  /\ Tour \in crossed \/ \A e, f \in entries : e[1] = f[1] => e = f
  /\ \A h \in Handlers : request[h].at = "insert" /\ Tour \notin crossed => entries = {}


-----------------------------------------------------------------------------
(* How requests move.                                                      *)

LEMMA WhoNamesWhat ==
  /\ \A o \in Sources : NamesOf(o) = Uploads /\ o \notin Uploads /\ o \notin Screens
  /\ \A o \in Screens : NamesOf(o) = Sources /\ o \notin Uploads /\ o \notin Sources
  /\ \A o \in Uploads \cup {Config} : NamesOf(o) = {} /\ o \notin Sources /\ o \notin Screens
  /\ Config \notin Uploads /\ Tour \notin Objects
  /\ \A o \in Objects : NamesOf(o) \subseteq Objects \ {Config}
  BY PlaneAssumption DEF NamesOf, Objects, Config, Tour

\* The fields a request keeps from its start to its end.
Alike(q, r) ==
  /\ DOMAIN q = DOMAIN Idle
  /\ q.op = r.op /\ q.on = r.on /\ q.names = r.names /\ q.order = r.order
  /\ q.enable = r.enable /\ q.row = r.row

\* One request moves, to the end or to another place; the others stay.
Others(h) ==
  /\ DOMAIN request' = Handlers
  /\ \A g \in Handlers \ {h} :
       /\ Alike(request'[g], request[g])
       /\ request'[g].at = request[g].at /\ request'[g].path = request[g].path
MovesTo(h, place) ==
  /\ Others(h) /\ request'[h].at = place
  /\ IF place = "done" THEN request'[h] = Done ELSE Alike(request'[h], request[h])
Keeps(h) == request'[h].at # "done" => request'[h].path = request[h].path

LEMMA ToMoves ==
  ASSUME RequestTypes, NEW h \in Handlers, NEW place, To(h, place)
  PROVE  MovesTo(h, place) /\ Keeps(h)
<1> DEFINE r == IF place = "done" THEN Done ELSE [request[h] EXCEPT !.at = place]
<1>1. /\ DOMAIN request' = Handlers /\ request'[h] = r
      /\ \A g \in Handlers \ {h} : request'[g] = request[g]
  BY DEF To, RequestTypes
<1>2. \A g \in Handlers : DOMAIN request[g] = DOMAIN Idle
  BY DEF RequestTypes, Typed
<1>3. r.at = place /\ (place # "done" => Alike(r, request[h]) /\ r.path = request[h].path)
  BY <1>2 DEF Alike, Done, Idle
<1> HIDE DEF r
<1>4. \A g \in Handlers \ {h} : Alike(request'[g], request[g])
  BY <1>1, <1>2 DEF Alike
<1>5. place = "done" => r = Done
  BY DEF r
<1> QED BY <1>1, <1>3, <1>4, <1>5 DEF MovesTo, Others, Keeps

\* What a check has found out.
Approved(h) == LET r == request[h] IN
  \/ /\ r.op \in {"create", "patch"} /\ r.names \subseteq live
     /\ request'[h].path = (r.on \in Sources => r.names \subseteq whole)
  \/ r.op = "tour" /\ r.names \subseteq live /\ Keeps(h)
  \/ r.op = "delete" /\ Referrers(r.on) = {} /\ Keeps(h)

\* A step that touches no row: a check, a query, a look at a row, a refusal, and
\* the hand-over itself.
Ends(h) == request'[h] = Done /\ request'[h].at = "done"
Proceeds(h, from, to) == request[h].at = from /\ request'[h].at = to /\ Alike(request'[h], request[h])
Quiet(h) ==
  /\ UNCHANGED <<db, made, crossed>> /\ Others(h)
  /\ \/ /\ Ends(h) /\ InFlight(h) /\ request[h].at # "store"
        /\ request[h].at = "drop" => request[h].on \in whole
     \/ Proceeds(h, "check", "commit") /\ Approved(h)
     \/ Proceeds(h, "seed", "insert") /\ entries = {} /\ Keeps(h)
     \/ Proceeds(h, "seed", "reread") /\ Keeps(h)
     \/ Proceeds(h, "reread", "reload") /\ Keeps(h)
     \/ Proceeds(h, "reload", "tour") /\ Keeps(h)
     \/ Proceeds(h, "tour", "screens") /\ Keeps(h)
     \/ Proceeds(h, "screens", "sources") /\ Keeps(h)
     \/ Proceeds(h, "sources", "apply") /\ Keeps(h)

LEMMA RefusesQuietly ==
  ASSUME RequestTypes, NEW h \in Handlers, Refuse(h), InFlight(h), request[h].at # "store",
         request[h].at = "drop" => request[h].on \in whole
  PROVE  Quiet(h)
  BY ToMoves DEF Refuse, history, MovesTo, Quiet, Ends

LEMMA ChecksQuietly ==
  ASSUME RequestTypes, NEW h \in Handlers, Check(h)
  PROVE  Quiet(h)
<1>0. request[h].at = "check" /\ InFlight(h)
  BY DEF Check, CheckNames, CheckTour, CheckUnused, Checked, InFlight
<1>1. CASE Refuse(h)
  BY <1>0, <1>1, RefusesQuietly
<1>2. CASE CheckNames(h) /\ ~Refuse(h)
  <2> DEFINE r == request[h]
             q == [r EXCEPT !.at = "commit", !.path = r.on \in Sources => r.names \subseteq whole]
  <2>1. /\ r.op \in {"create", "patch"} /\ r.names \subseteq live
        /\ request' = [request EXCEPT ![h] = q] /\ UNCHANGED <<db, applied, history>>
    BY <1>2 DEF CheckNames
  <2>2. \A g \in Handlers : DOMAIN request[g] = DOMAIN Idle
    BY DEF RequestTypes, Typed
  <2>3. /\ Alike(q, r) /\ q.at = "commit"
        /\ q.path = (r.on \in Sources => r.names \subseteq whole)
    BY <2>2 DEF Alike, Idle
  <2> HIDE DEF q
  <2>4. /\ DOMAIN request' = Handlers /\ request'[h] = q
        /\ \A g \in Handlers \ {h} : request'[g] = request[g]
    BY <2>1 DEF RequestTypes
  <2>5. Others(h)
    BY <2>2, <2>4 DEF Others, Alike
  <2> QED BY <1>0, <2>1, <2>3, <2>4, <2>5 DEF Quiet, Proceeds, Approved, history
<1>3. CASE (CheckTour(h) \/ CheckUnused(h)) /\ ~Refuse(h)
  <2>1. /\ To(h, "commit") /\ UNCHANGED <<db, applied, history>>
        /\ \/ request[h].op = "tour" /\ request[h].names \subseteq live
           \/ request[h].op = "delete" /\ Referrers(request[h].on) = {}
    BY <1>3 DEF CheckTour, CheckUnused, Checked
  <2>2. MovesTo(h, "commit") /\ Keeps(h)
    BY <2>1, ToMoves
  <2> QED BY <1>0, <2>1, <2>2 DEF Quiet, Proceeds, Approved, MovesTo, history
<1> QED BY <1>1, <1>2, <1>3 DEF Check

LEMMA ReloadsQuietly ==
  ASSUME RequestTypes, NEW h \in Handlers, Reload(h)
  PROVE  Quiet(h)
<1>0. \A g \in Handlers : DOMAIN request[g] = DOMAIN Idle
  BY DEF RequestTypes, Typed
<1>1. ASSUME NEW from \in Places \ {"idle", "done"}, NEW to \in Places \ {"done"}, NEW snap,
             NEW older, Query(h, from, to, snap, older)
      PROVE  Proceeds(h, from, to) /\ Keeps(h) /\ Others(h) /\ UNCHANGED <<db, made, crossed>>
  <2> DEFINE q == [request[h] EXCEPT !.at = to, !.snap = snap, !.older = older]
  <2>1. /\ DOMAIN request' = Handlers /\ request'[h] = q
        /\ \A g \in Handlers \ {h} : request'[g] = request[g]
        /\ request[h].at = from /\ UNCHANGED <<db, made, crossed>>
    BY <1>1 DEF Query, RequestTypes, history
  <2>2. Alike(q, request[h]) /\ q.at = to /\ q.path = request[h].path
    BY <1>0 DEF Alike, Idle
  <2> HIDE DEF q
  <2>3. Others(h)
    BY <1>0, <2>1 DEF Others, Alike
  <2> QED BY <2>1, <2>2, <2>3 DEF Proceeds, Keeps
<1>2. CASE QueryConfig(h)
  BY <1>1, <1>2 DEF QueryConfig, Quiet, Places
<1>3. CASE QueryTour(h)
  BY <1>1, <1>3 DEF QueryTour, Quiet, Places
<1>4. CASE QueryScreens(h)
  BY <1>1, <1>4 DEF QueryScreens, Quiet, Places
<1>5. CASE QuerySources(h)
  BY <1>1, <1>5 DEF QuerySources, Quiet, Places
<1>6. CASE Apply(h)
  <2>1. /\ DOMAIN request' = Handlers /\ request'[h] = Done /\ UNCHANGED <<db, made, crossed>>
        /\ InFlight(h) /\ request[h].at = "apply"
        /\ \A g \in Handlers \ {h} :
             request'[g] = [request[g] EXCEPT !.late = @ \/ (Building(g) /\ g \in Older(h))]
    BY <1>6 DEF Apply, InFlight
  <2>2. ASSUME NEW g \in Handlers \ {h}
        PROVE  /\ Alike(request'[g], request[g])
               /\ request'[g].at = request[g].at /\ request'[g].path = request[g].path
    BY <1>0, <2>1 DEF Alike, Idle
  <2> QED BY <2>1, <2>2 DEF Quiet, Others, Ends, Done, Idle
<1> QED BY <1>2, <1>3, <1>4, <1>5, <1>6 DEF Reload

LEMMA LooksQuietly ==
  ASSUME RequestTypes, NEW h \in Handlers,
         \/ SeedLook(h) \/ Reread(h)
         \/ Refuse(h) /\ CommitSave(h)
         \/ Refuse(h) /\ DropScreen(h) /\ request[h].on \in whole
  PROVE  Quiet(h)
<1>1. CASE SeedLook(h)
  <2>1. PICK place : To(h, place) /\ place = IF entries = {} THEN "insert" ELSE "reread"
    BY <1>1 DEF SeedLook
  <2> QED BY <1>1, <2>1, ToMoves DEF SeedLook, MovesTo, Quiet, Proceeds, history
<1>2. CASE Reread(h)
  <2>1. PICK place : To(h, place) /\ place = IF request[h].on \in live THEN "reload" ELSE "done"
    BY <1>2 DEF Reread
  <2>2. MovesTo(h, place) /\ Keeps(h)
    BY <2>1, ToMoves
  <2> QED BY <1>2, <2>1, <2>2 DEF Reread, MovesTo, Quiet, Proceeds, Ends, InFlight, history
<1>3. CASE Refuse(h) /\ CommitSave(h)
  BY <1>3, RefusesQuietly DEF CommitSave, InFlight
<1>4. CASE Refuse(h) /\ DropScreen(h) /\ request[h].on \in whole
  BY <1>4, RefusesQuietly DEF DropScreen, InFlight
<1> QED BY <1>1, <1>2, <1>3, <1>4

\* A request begins: it crosses those it has something in common with.
Begins(h) == LET q == request'[h] IN
  /\ UNCHANGED <<db, made>> /\ Others(h) /\ ~InFlight(h)
  /\ crossed' = crossed \cup UNION {Footprint(q) \cap Footprint(request[g]) :
                                      g \in {g \in Handlers : InFlight(g)}}
  /\ Typed(q) /\ Fits(q)
  /\ \/ /\ q.op = "create" /\ q.at = "check" /\ q.on \notin live /\ made[q.on] = {}
        /\ \A g \in Handlers : request[g].on # q.on
     \/ q.op = "patch" /\ q.at = "check" /\ q.on \in live /\ q.row = edits[q.on]
     \/ /\ q.op = "probe" /\ q.at = "commit" /\ q.on \in live /\ q.row = edits[q.on]
        /\ q.names = refs[q.on] /\ q.path = (q.on \in whole)
     \/ q.op = "delete" /\ q.at = "check" /\ q.on \in live
     \/ q.op = "tour" /\ q.at = "check"

LEMMA BeginSets ==
  ASSUME RequestTypes, NEW h \in Handlers, NEW r, Begin(h, r)
  PROVE  /\ UNCHANGED <<db, made, applied, outrun>> /\ Others(h) /\ ~InFlight(h) /\ request'[h] = r
         /\ \A g \in Handlers \ {h} : request'[g] = request[g]
         /\ crossed' = crossed \cup UNION {Footprint(r) \cap Footprint(request[g]) :
                                             g \in {g \in Handlers : InFlight(g)}}
<1>1. /\ DOMAIN request' = Handlers /\ request'[h] = r
      /\ \A g \in Handlers \ {h} : request'[g] = request[g] /\ DOMAIN request[g] = DOMAIN Idle
  BY DEF Begin, RequestTypes, Typed
<1>2. Others(h)
  BY <1>1 DEF Others, Alike
<1> QED BY <1>1, <1>2 DEF Begin, InFlight

LEMMA StartBegins ==
  ASSUME RequestTypes, RowTypes, NEW h \in Handlers, Start(h)
  PROVE  Begins(h)
<1>0. /\ \A o \in Objects : edits[o] \in SUBSET Handlers
      /\ \A o \in live : o \in Objects /\ refs[o] \subseteq NamesOf(o)
  BY DEF RowTypes
<1>1. CASE StartCreate(h)
  <2>1. PICK o \in Objects \ live : \E n \in Given(o) :
          /\ made[o] = {} /\ \A g \in Handlers : request[g].on # o
          /\ Begin(h, Request("create", o, n[1], n[2]))
    BY <1>1 DEF StartCreate
  <2>2. PICK n \in Given(o) :
          /\ made[o] = {} /\ \A g \in Handlers : request[g].on # o
          /\ Begin(h, Request("create", o, n[1], n[2]))
    BY <2>1
  <2> DEFINE q == Request("create", o, n[1], n[2])
  <2>3. /\ DOMAIN q = DOMAIN Idle /\ q.op = "create" /\ q.at = "check" /\ q.on = o
        /\ q.names = n[1] /\ q.row = {} /\ q.path = TRUE /\ q.enable = FALSE
    BY DEF Request, Idle
  <2> HIDE DEF q
  <2>4. Config \in live /\ n[1] \subseteq NamesOf(o)
    BY DEF RowTypes, Given
  <2>5. Fits(q) /\ Typed(q)
    BY <2>3, <2>4 DEF Fits, Typed, Going, Places
  <2>6. request'[h] = q
    BY <2>2, BeginSets DEF q
  <2> QED BY <2>2, <2>3, <2>5, <2>6, BeginSets DEF q, Begins
<1>2. CASE StartPatch(h)
  <2>1. PICK o \in live \ Uploads : \E n \in Given(o) :
          Begin(h, [Request("patch", o, n[1], n[2]) EXCEPT !.row = edits[o]])
    BY <1>2 DEF StartPatch
  <2>2. PICK n \in Given(o) :
          Begin(h, [Request("patch", o, n[1], n[2]) EXCEPT !.row = edits[o]])
    BY <2>1
  <2> DEFINE q == [Request("patch", o, n[1], n[2]) EXCEPT !.row = edits[o]]
  <2>3. /\ DOMAIN q = DOMAIN Idle /\ q.op = "patch" /\ q.at = "check" /\ q.on = o
        /\ q.names = n[1] /\ n[1] \subseteq NamesOf(o)
        /\ q.row = edits[o] /\ q.path = TRUE /\ q.enable = FALSE
    BY DEF Request, Idle, Given
  <2> HIDE DEF q
  <2>4. Fits(q) /\ Typed(q)
    BY <1>0, <2>3 DEF Fits, Typed, Going, Places
  <2>5. request'[h] = q
    BY <2>2, BeginSets DEF q
  <2> QED BY <2>2, <2>3, <2>4, <2>5, BeginSets DEF q, Begins
<1>3. CASE StartProbe(h)
  <2>1. PICK s \in Sources \cap live :
          Begin(h, [Request("probe", s, refs[s], spare[s]) EXCEPT
                      !.row = edits[s], !.path = (s \in whole), !.at = "commit"])
    BY <1>3 DEF StartProbe
  <2> DEFINE q == [Request("probe", s, refs[s], spare[s]) EXCEPT
                      !.row = edits[s], !.path = (s \in whole), !.at = "commit"]
  <2>2. /\ DOMAIN q = DOMAIN Idle /\ q.op = "probe" /\ q.at = "commit" /\ q.on = s
        /\ q.names = refs[s] /\ q.row = edits[s] /\ q.path = (s \in whole)
        /\ q.enable = FALSE
    BY DEF Request, Idle
  <2> HIDE DEF q
  <2>3. Fits(q)
    BY <1>0, <2>2 DEF Fits
  <2>4. request'[h] = q
    BY <2>1, BeginSets DEF q
  <2>5. q.path \in BOOLEAN
    BY <2>2
  <2>6. Typed(q)
    BY <1>0, <2>2, <2>3, <2>5 DEF Typed, Places
  <2> QED BY <2>1, <2>2, <2>3, <2>4, <2>6, BeginSets DEF q, Begins
<1>4. CASE StartDelete(h)
  <2>1. PICK o \in live \ {Config} : Begin(h, Request("delete", o, {}, {}))
    BY <1>4 DEF StartDelete
  <2> DEFINE q == Request("delete", o, {}, {})
  <2>2. /\ DOMAIN q = DOMAIN Idle /\ q.op = "delete" /\ q.at = "check" /\ q.on = o
        /\ q.names = {} /\ q.row = {} /\ q.path = TRUE /\ q.enable = FALSE
    BY DEF Request, Idle
  <2> HIDE DEF q
  <2>3. Fits(q) /\ Typed(q)
    BY <1>0, <2>2 DEF Fits, Typed, Going, Places
  <2>4. request'[h] = q
    BY <2>1, BeginSets DEF q
  <2> QED BY <2>1, <2>2, <2>3, <2>4, BeginSets DEF q, Begins
<1>5. CASE StartTour(h)
  <2>1. PICK names \in SUBSET Screens, enable \in BOOLEAN : \E order \in Orders(names) :
          Begin(h, [Request("tour", Tour, names, {}) EXCEPT !.order = order, !.enable = enable])
    BY <1>5 DEF StartTour
  <2>2. PICK order \in Orders(names) :
          Begin(h, [Request("tour", Tour, names, {}) EXCEPT !.order = order, !.enable = enable])
    BY <2>1
  <2> DEFINE q == [Request("tour", Tour, names, {}) EXCEPT !.order = order, !.enable = enable]
  <2>3. /\ DOMAIN q = DOMAIN Idle /\ q.op = "tour" /\ q.at = "check" /\ q.on = Tour
        /\ q.names = names /\ q.row = {} /\ q.path = TRUE /\ q.order = order
        /\ q.enable = enable
    BY DEF Request, Idle
  <2> HIDE DEF q
  <2>4. order \in [1..Cardinality(names) -> names]
    BY DEF Orders
  <2>5. Fits(q) /\ Typed(q)
    BY <2>3, <2>4 DEF Fits, Typed, Going, Places
  <2>6. request'[h] = q
    BY <2>2, BeginSets DEF q
  <2> QED BY <2>2, <2>3, <2>5, <2>6, BeginSets DEF q, Begins
<1> QED BY <1>1, <1>2, <1>3, <1>4, <1>5 DEF Start

\* The steps that write rows, and where the request stands after them.
LEMMA WritesMove ==
  ASSUME RequestTypes, NEW h \in Handlers
  PROVE  /\ CommitSave(h) /\ ~Refuse(h) => MovesTo(h, After(request[h])) /\ Keeps(h)
         /\ StoreFile(h) => MovesTo(h, "done")
         /\ CommitTour(h) => MovesTo(h, "reload") /\ Keeps(h)
         /\ CommitDelete(h) => /\ MovesTo(h, IF request[h].on \in Screens THEN "drop"
                                             ELSE IF request[h].on \in Uploads THEN "done" ELSE "reload")
                               /\ Keeps(h)
         /\ DropScreen(h) /\ request[h].on \notin whole => MovesTo(h, "reload") /\ Keeps(h)
         /\ SeedInsert(h) => MovesTo(h, "reread") /\ Keeps(h)
<1>1. CommitSave(h) /\ ~Refuse(h) => To(h, After(request[h]))
  BY DEF CommitSave
<1>2. StoreFile(h) => To(h, "done")
  BY DEF StoreFile
<1>3. CommitTour(h) => To(h, "reload")
  BY DEF CommitTour
<1>4. CommitDelete(h) => To(h, IF request[h].on \in Screens THEN "drop"
                               ELSE IF request[h].on \in Uploads THEN "done" ELSE "reload")
  BY DEF CommitDelete
<1>5. DropScreen(h) /\ request[h].on \notin whole => To(h, "reload")
  BY DEF DropScreen
<1>6. SeedInsert(h) => To(h, "reread")
  BY DEF SeedInsert
<1> QED BY <1>1, <1>2, <1>3, <1>4, <1>5, <1>6, ToMoves

-----------------------------------------------------------------------------
(* Types are kept.                                                         *)

LEMMA OneMoves ==
  ASSUME RequestTypes, NEW h \in Handlers, Others(h), Typed(request'[h])
  PROVE  RequestTypes'
<1>1. ASSUME NEW g \in Handlers \ {h}
      PROVE  Typed(request'[g])
  BY DEF RequestTypes, Others, Typed, Alike, Going, Fits
<1> QED BY <1>1 DEF RequestTypes, Others

LEMMA EndTyped == Typed(Done) /\ Done.at = "done"
  BY DEF Typed, Done, Idle, Places, Going

LEMMA QuietTypes ==
  ASSUME RequestTypes, NEW h \in Handlers, Quiet(h)
  PROVE  RequestTypes'
<1> DEFINE r == request[h]
           q == request'[h]
<1>0. Typed(r) /\ Others(h)
  BY DEF RequestTypes, Quiet
<1>1. CASE Ends(h)
  BY <1>0, <1>1, EndTyped, OneMoves DEF Ends
<1>2. ASSUME ~Ends(h)
      PROVE  /\ Alike(q, r) /\ Going(r) /\ r.at \in Places /\ q.path \in BOOLEAN
             /\ q.at \in {"commit", "insert", "reread", "reload", "tour", "screens", "sources", "apply"}
             /\ q.at = "commit" => /\ r.at = "check"
                                   /\ q.op \in {"create", "patch"} /\ q.on \notin Sources => q.path
             /\ q.at \in {"insert", "reread"} => r.at = "seed"
  BY <1>0, <1>2 DEF Quiet, Proceeds, Approved, Keeps, Going, Alike, Typed
<1>3. CASE ~Ends(h)
  <2>1. Fits(q)
    BY <1>0, <1>2, <1>3 DEF Typed, Fits, Alike
  <2>2. Typed(q)
    BY <1>0, <1>2, <1>3, <2>1 DEF Typed, Alike, Places
  <2> QED BY <1>0, <2>2, OneMoves
<1> QED BY <1>1, <1>3

LEMMA WriteTypes ==
  ASSUME RequestTypes, NEW h \in Handlers, NEW place \in Places, MovesTo(h, place),
         place # "done" => Keeps(h) /\ Fits(request'[h])
  PROVE  RequestTypes'
<1>1. CASE place = "done"
  BY <1>1, EndTyped, OneMoves DEF MovesTo
<1>2. CASE place # "done"
  <2>1. Typed(request[h])
    BY DEF RequestTypes
  <2>2. Typed(request'[h])
    BY <1>2, <2>1, EndTyped DEF MovesTo, Typed, Alike, Keeps
  <2> QED BY <2>2, OneMoves DEF MovesTo
<1> QED BY <1>1, <1>2

TypeInv == RequestTypes /\ RowTypes /\ CreatedOnce

LEMMA FootprintTyped ==
  ASSUME NEW r, Fits(r)
  PROVE  Footprint(r) \subseteq Objects \cup {Tour} /\ r.names \subseteq Objects
  BY WhoNamesWhat DEF Fits, Footprint, Objects

LEMMA QuietTypeInv ==
  ASSUME TypeInv, NEW h \in Handlers, Quiet(h)
  PROVE  TypeInv'
<1>1. RequestTypes'
  BY QuietTypes DEF TypeInv
<1>2. request'[h].at # "store" /\ (request'[h].at # "done" => InFlight(h) /\ Alike(request'[h], request[h]))
  BY DEF Quiet, Ends, Proceeds, InFlight
<1>3. RowTypes'
  <2>1. \A g \in Handlers : request'[g].at = "store" => request'[g].on \notin whole
    BY <1>2 DEF TypeInv, RowTypes, Quiet, Others, Alike
  <2> QED BY <2>1 DEF TypeInv, RowTypes, Quiet, db
<1>4. CreatedOnce'
  BY <1>2 DEF TypeInv, CreatedOnce, InFlight, Quiet, Others, Alike
<1> QED BY <1>1, <1>3, <1>4 DEF TypeInv

LEMMA BeginTypeInv ==
  ASSUME TypeInv, NEW h \in Handlers, Begins(h)
  PROVE  TypeInv'
<1>0. Others(h) /\ Typed(request'[h]) /\ Fits(request'[h]) /\ UNCHANGED <<db, made>>
      /\ request'[h].at \in {"check", "commit"}
  BY DEF Begins
<1>1. RequestTypes'
  BY <1>0, OneMoves DEF TypeInv
<1>2. RowTypes'
  <2>1. \A g \in Handlers : request'[g].at = "store" => request'[g].on \notin whole
    BY <1>0 DEF TypeInv, RowTypes, Others, Alike
  <2>2. crossed' \subseteq crossed \cup Footprint(request'[h])
    BY DEF Begins
  <2>3. crossed' \subseteq Objects \cup {Tour}
    BY <1>0, <2>2, FootprintTyped DEF TypeInv, RowTypes
  <2> QED BY <1>0, <2>1, <2>3 DEF TypeInv, RowTypes, db
<1>3. CreatedOnce'
  <2>1. request'[h].op = "create" => \A g \in Handlers : request[g].on # request'[h].on
    BY DEF Begins
  <2> QED BY <1>0, <2>1 DEF TypeInv, CreatedOnce, InFlight, Others, Alike
<1> QED BY <1>1, <1>2, <1>3 DEF TypeInv

\* A step that writes rows leaves the other requests as they are.
LEMMA WriteCreatedOnce ==
  ASSUME CreatedOnce, NEW h \in Handlers, NEW place, MovesTo(h, place), InFlight(h)
  PROVE  CreatedOnce'
  BY DEF CreatedOnce, InFlight, MovesTo, Others, Alike

LEMMA SaveTypeInv ==
  ASSUME TypeInv, NEW h \in Handlers, CommitSave(h), ~Refuse(h)
  PROVE  TypeInv'
<1> DEFINE r == request[h]
           mark == IF r.op = "probe" THEN {} ELSE {h}
<1>0. /\ MovesTo(h, After(r)) /\ Keeps(h) /\ Typed(r) /\ Fits(r) /\ InFlight(h)
      /\ r.at = "commit" /\ r.op \in {"create", "patch", "probe"}
  BY WritesMove DEF TypeInv, RequestTypes, CommitSave, Typed, Going, InFlight
<1>1. After(r) = IF r.on \in Uploads THEN "store"
                 ELSE IF r.on \in Screens THEN (IF r.op = "create" THEN "seed" ELSE "reread")
                 ELSE "reload"
  BY WhoNamesWhat DEF After
<1>2. After(r) \in Places \ {"idle", "done"} /\ Fits(request'[h])
  <2>1. After(r) \in Places \ {"idle", "done"}
    BY <1>1 DEF Places
  <2>2. Alike(request'[h], r) /\ request'[h].at = After(r)
    BY <1>0, <2>1 DEF MovesTo
  <2>3. r.op = "probe" => r.on \notin Uploads /\ r.on \notin Screens
    BY <1>0, WhoNamesWhat DEF Fits
  <2> QED BY <1>0, <1>1, <2>1, <2>2, <2>3 DEF Fits, Alike
<1>3. RequestTypes'
  BY <1>0, <1>2, WriteTypes DEF TypeInv
<1>4. CreatedOnce'
  BY <1>0, WriteCreatedOnce DEF TypeInv
<1>5. /\ live' = live \cup {r.on}
      /\ whole' = IF r.path /\ r.on \notin Uploads THEN whole \cup {r.on} ELSE whole \ {r.on}
      /\ refs' = [refs EXCEPT ![r.on] = r.names]
      /\ edits' = [edits EXCEPT ![r.on] = r.row \cup mark]
      /\ made' = [made EXCEPT ![r.on] = @ \cup mark]
      /\ UNCHANGED <<entries, enabled, crossed>>
  BY DEF CommitSave
<1>6. RowTypes'
  <2>1. r.on \in Objects /\ r.names \subseteq NamesOf(r.on) /\ r.row \in SUBSET Handlers /\ r.path \in BOOLEAN
        /\ (r.on \in Screens => r.path)
    BY <1>0, WhoNamesWhat DEF Fits, Typed, Objects
  <2>2. live' \subseteq Objects /\ whole' \subseteq live' /\ Config \in live'
    BY <1>5, <2>1 DEF TypeInv, RowTypes
  <2>3. edits' \in [Objects -> SUBSET Handlers] /\ made' \in [Objects -> SUBSET Handlers]
    BY <1>5, <2>1 DEF TypeInv, RowTypes
  <2>4. /\ DOMAIN refs' = Objects
        /\ \A o \in Objects : refs'[o] \subseteq IF o \in live' THEN NamesOf(o) ELSE {}
    BY <1>5, <2>1 DEF TypeInv, RowTypes
  <2>5. \A c \in Screens \ whole' : refs'[c] = {}
    BY <1>5, <2>1, WhoNamesWhat DEF TypeInv, RowTypes, Objects
  <2>6. \A g \in Handlers : request'[g].at = "store" => request'[g].on \notin whole'
    <3>1. ASSUME NEW g \in Handlers \ {h}, request'[g].at = "store"
          PROVE  request'[g].on \notin whole'
      <4>1. request[g].at = "store" /\ request'[g].on = request[g].on /\ request[g].on \in Uploads
        BY <1>0, <3>1 DEF MovesTo, Others, Alike, TypeInv, RequestTypes, Typed, Going, Fits
      <4> QED BY <1>5, <4>1 DEF TypeInv, RowTypes
    <3>2. request'[h].at = "store" => request'[h].on \notin whole'
      BY <1>0, <1>1, <1>2, <1>5 DEF MovesTo, Alike
    <3> QED BY <3>1, <3>2
  <2> QED BY <1>5, <2>2, <2>3, <2>4, <2>5, <2>6 DEF TypeInv, RowTypes
<1> QED BY <1>3, <1>4, <1>6 DEF TypeInv

LEMMA StoreTypeInv ==
  ASSUME TypeInv, NEW h \in Handlers, StoreFile(h)
  PROVE  TypeInv'
<1> DEFINE u == request[h].on
<1>0. MovesTo(h, "done") /\ InFlight(h) /\ request[h].op = "create" /\ u \in Uploads /\ u \notin whole
  BY WritesMove DEF TypeInv, RequestTypes, RowTypes, StoreFile, Typed, Going, Fits, InFlight
<1>1. RequestTypes'
  BY <1>0, WriteTypes DEF TypeInv, Places
<1>2. CreatedOnce'
  BY <1>0, WriteCreatedOnce DEF TypeInv
<1>3. RowTypes'
  <2>1. u \in Objects /\ NamesOf(u) = {} /\ u \notin Screens /\ u # Config
    BY <1>0, WhoNamesWhat DEF Objects
  <2>2. /\ live' \subseteq Objects /\ whole' \subseteq live' /\ Config \in live'
        /\ edits' \in [Objects -> SUBSET Handlers]
        /\ UNCHANGED <<refs, entries, enabled, made, crossed>>
        /\ whole' \ {u} = whole
    BY <1>0, <2>1 DEF TypeInv, RowTypes, StoreFile, history
  <2>3. \A o \in Objects : refs[o] \subseteq IF o \in live' THEN NamesOf(o) ELSE {}
    BY <2>1 DEF TypeInv, RowTypes, StoreFile
  <2>4. \A g \in Handlers : request'[g].at = "store" => request'[g].on \notin whole'
    <3>1. ASSUME NEW g \in Handlers \ {h}, request'[g].at = "store"
          PROVE  request'[g].on \notin whole'
      <4>1. /\ request[g].at = "store" /\ request'[g].on = request[g].on
            /\ request[g].op = "create" /\ InFlight(g)
        BY <1>0, <3>1 DEF MovesTo, Others, Alike, TypeInv, RequestTypes, Typed, Going, Fits, InFlight
      <4>2. request[g].on # u
        BY <1>0, <4>1 DEF TypeInv, CreatedOnce
      <4> QED BY <2>2, <4>1, <4>2 DEF TypeInv, RowTypes
    <3> QED BY <1>0, <3>1 DEF MovesTo
  <2> QED BY <2>1, <2>2, <2>3, <2>4 DEF TypeInv, RowTypes
<1> QED BY <1>1, <1>2, <1>3 DEF TypeInv

\* Steps that only touch the tour.
LEMMA EntriesTypeInv ==
  ASSUME TypeInv, NEW h \in Handlers, NEW place \in Places \ {"done", "store"}, MovesTo(h, place),
         Keeps(h), Fits(request'[h]), InFlight(h),
         UNCHANGED <<live, whole, refs, edits, made, crossed>>, enabled' \in BOOLEAN,
         entries' \subseteq (0..Cardinality(Screens)) \X Screens
  PROVE  TypeInv'
<1>1. RequestTypes'
  BY WriteTypes DEF TypeInv
<1>2. CreatedOnce'
  BY WriteCreatedOnce DEF TypeInv
<1>3. \A g \in Handlers : request'[g].at = "store" => request'[g].on \notin whole'
  BY DEF MovesTo, Others, Alike, TypeInv, RowTypes
<1> QED BY <1>1, <1>2, <1>3 DEF TypeInv, RowTypes

LEMMA TourTypeInv ==
  ASSUME TypeInv, NEW h \in Handlers, CommitTour(h)
  PROVE  TypeInv'
<1> DEFINE r == request[h]
<1>0. /\ MovesTo(h, "reload") /\ Keeps(h) /\ Fits(r) /\ InFlight(h) /\ r.op = "tour"
      /\ Alike(request'[h], r) /\ request'[h].at = "reload"
  BY WritesMove DEF TypeInv, RequestTypes, CommitTour, Typed, Going, InFlight, MovesTo
<1>1. Fits(request'[h])
  BY <1>0 DEF Fits, Alike
<1>2. Cardinality(r.names) \in Nat /\ Cardinality(Screens) \in Nat
      /\ Cardinality(r.names) <= Cardinality(Screens)
  BY <1>0, FS_Subset, FS_CardinalityType, PlaneAssumption DEF Fits
<1>3. entries' \subseteq (0..Cardinality(Screens)) \X Screens
  <2>1. r.order \in [1..Cardinality(r.names) -> r.names] /\ r.names \subseteq Screens
    BY <1>0 DEF Fits
  <2>2. ASSUME NEW i \in DOMAIN r.order
        PROVE  i - 1 \in 0..Cardinality(Screens) /\ r.order[i] \in Screens
    BY <1>2, <2>1
  <2> QED BY <2>2 DEF CommitTour
<1>4. UNCHANGED <<live, whole, refs, edits, made, crossed>>
  BY DEF CommitTour, history
<1>5. enabled' \in BOOLEAN
  BY DEF CommitTour, TypeInv, RequestTypes, Typed
<1> QED BY <1>0, <1>1, <1>3, <1>4, <1>5, EntriesTypeInv DEF Places

LEMMA SeedTypeInv ==
  ASSUME TypeInv, NEW h \in Handlers, SeedInsert(h)
  PROVE  TypeInv'
<1> DEFINE r == request[h]
<1>0. /\ MovesTo(h, "reread") /\ Keeps(h) /\ Fits(r) /\ InFlight(h) /\ r.at = "insert"
      /\ Alike(request'[h], r) /\ request'[h].at = "reread"
  BY WritesMove DEF TypeInv, RequestTypes, SeedInsert, Typed, Going, InFlight, MovesTo
<1>1. Fits(request'[h])
  BY <1>0 DEF Fits, Alike
<1>2. 0 \in 0..Cardinality(Screens)
  BY FS_CardinalityType, PlaneAssumption
<1>3. entries' \subseteq (0..Cardinality(Screens)) \X Screens
  BY <1>0, <1>2 DEF SeedInsert, Fits, TypeInv, RowTypes
<1> QED BY <1>0, <1>1, <1>3, EntriesTypeInv DEF Places, SeedInsert, history, TypeInv, RowTypes

\* A row is emptied, or goes.
LEMMA ErasedTypeInv ==
  ASSUME TypeInv, NEW h \in Handlers, NEW place \in Places \ {"store"}, MovesTo(h, place),
         place # "done" => Keeps(h) /\ Fits(request'[h]), InFlight(h),
         NEW o \in Objects \ {Config}, whole' = whole \ {o},
         DOMAIN refs' = Objects, refs'[o] = {}, \A x \in Objects \ {o} : refs'[x] = refs[x],
         live' \in {live, live \ {o}}, UNCHANGED <<entries, enabled, crossed>>,
         \/ UNCHANGED <<edits, made>>
         \/ /\ edits' = [edits EXCEPT ![o] = @ \cup {h}]
            /\ made' = [made EXCEPT ![o] = @ \cup {h}]
  PROVE  TypeInv'
<1>1. RequestTypes'
  BY WriteTypes DEF TypeInv
<1>2. CreatedOnce'
  BY WriteCreatedOnce DEF TypeInv
<1>3. \A g \in Handlers : request'[g].at = "store" => request'[g].on \notin whole'
  BY DEF MovesTo, Others, Alike, TypeInv, RowTypes
<1>4. edits' \in [Objects -> SUBSET Handlers] /\ made' \in [Objects -> SUBSET Handlers]
  BY DEF TypeInv, RowTypes
<1>5. /\ live' \subseteq Objects /\ Config \in live'
      /\ \A x \in Objects : refs'[x] \subseteq IF x \in live' THEN NamesOf(x) ELSE {}
      /\ \A c \in Screens \ whole' : refs'[c] = {}
  BY DEF TypeInv, RowTypes, Objects
<1>6. whole' \subseteq live'
  BY DEF TypeInv, RowTypes
<1> QED BY <1>1, <1>2, <1>3, <1>4, <1>5, <1>6 DEF TypeInv, RowTypes

LEMMA DeleteTypeInv ==
  ASSUME TypeInv, NEW h \in Handlers, CommitDelete(h)
  PROVE  TypeInv'
<1> DEFINE r == request[h]
           place == IF r.on \in Screens THEN "drop" ELSE IF r.on \in Uploads THEN "done" ELSE "reload"
<1>0. /\ MovesTo(h, place) /\ Keeps(h) /\ Fits(r) /\ InFlight(h) /\ r.op = "delete"
  BY WritesMove DEF TypeInv, RequestTypes, CommitDelete, Typed, Going, InFlight
<1>1. r.on \in Objects \ {Config} /\ place \in Places \ {"store"}
  BY <1>0 DEF Fits, Places
<1>2. place # "done" => Fits(request'[h])
  BY <1>0 DEF Fits, Alike, MovesTo
<1>3. /\ whole' = whole \ {r.on} /\ refs' = [refs EXCEPT ![r.on] = {}]
      /\ live' \in {live, live \ {r.on}} /\ UNCHANGED <<entries, enabled, crossed>>
      /\ \/ UNCHANGED <<edits, made>>
         \/ /\ edits' = [edits EXCEPT ![r.on] = @ \cup {h}]
            /\ made' = [made EXCEPT ![r.on] = @ \cup {h}]
  BY DEF CommitDelete, Erase, history
<1>4. DOMAIN refs' = Objects /\ refs'[r.on] = {} /\ \A x \in Objects \ {r.on} : refs'[x] = refs[x]
  BY <1>1, <1>3 DEF TypeInv, RowTypes
<1> HIDE DEF place
<1> QED BY <1>0, <1>1, <1>2, <1>3, <1>4, ErasedTypeInv

LEMMA DropTypeInv ==
  ASSUME TypeInv, NEW h \in Handlers, DropScreen(h), request[h].on \notin whole
  PROVE  TypeInv'
<1> DEFINE r == request[h]
<1>0. /\ MovesTo(h, "reload") /\ Keeps(h) /\ Fits(r) /\ InFlight(h) /\ r.at = "drop"
  BY WritesMove DEF TypeInv, RequestTypes, DropScreen, Typed, Going, InFlight
<1>1. r.on \in Objects \ {Config} /\ r.on \in Screens
  BY <1>0 DEF Fits
<1>2. Fits(request'[h])
  BY <1>0 DEF Fits, Alike, MovesTo
<1>3. /\ UNCHANGED <<whole, refs>> /\ whole \ {r.on} = whole
      /\ live' = live \ {r.on} /\ UNCHANGED <<entries, enabled, crossed>>
      /\ edits' = [edits EXCEPT ![r.on] = @ \cup {h}]
      /\ made' = [made EXCEPT ![r.on] = @ \cup {h}]
  BY DEF DropScreen, Erase
<1>4. DOMAIN refs' = Objects /\ refs'[r.on] = {} /\ \A x \in Objects \ {r.on} : refs'[x] = refs[x]
  BY <1>1, <1>3 DEF TypeInv, RowTypes
<1> QED BY <1>0, <1>1, <1>2, <1>3, <1>4, ErasedTypeInv DEF Places

\* Every step is one of these.
Writes(h) ==
  \/ CommitSave(h) /\ ~Refuse(h)
  \/ StoreFile(h) \/ CommitTour(h) \/ CommitDelete(h) \/ SeedInsert(h)
  \/ DropScreen(h) /\ request[h].on \notin whole

LEMMA StepKinds ==
  ASSUME RequestTypes, RowTypes, NEW h \in Handlers, Start(h) \/ Check(h) \/ Commit(h) \/ Reload(h)
  PROVE  Quiet(h) \/ Begins(h) \/ Writes(h)
<1>1. CASE Commit(h)
  <2>1. CASE CommitSave(h)
    <3>1. Refuse(h) => Quiet(h)
      BY <2>1, LooksQuietly, Zenon
    <3> QED BY <2>1, <3>1 DEF Writes
  <2>3. CASE SeedLook(h) \/ Reread(h)
    BY <2>3, LooksQuietly
  <2>2. CASE DropScreen(h)
    <3>1. CASE request[h].on \in whole
      BY <2>2, <3>1, LooksQuietly DEF DropScreen
    <3> QED BY <2>2, <3>1 DEF Writes
  <2> QED BY <1>1, <2>1, <2>2, <2>3 DEF Commit, Writes
<1> QED BY <1>1, StartBegins, ChecksQuietly, ReloadsQuietly

LEMMA TypeInvStarts == Init => TypeInv
<1> SUFFICES ASSUME Init
             PROVE  TypeInv
  OBVIOUS
<1>1. Typed(Idle) /\ Idle.at = "idle"
  BY DEF Typed, Idle, Places, Going
<1>2. RequestTypes /\ CreatedOnce
  BY <1>1 DEF Init, RequestTypes, CreatedOnce, InFlight
<1>3. /\ live \subseteq Objects /\ Config \in live /\ whole = live
      /\ DOMAIN refs = Objects
      /\ \A o \in Objects : refs[o] \subseteq IF o \in live THEN NamesOf(o) ELSE {}
  BY DEF Init
<1>4. \A c \in Screens \ whole : refs[c] = {}
  BY <1>3 DEF Objects
<1>5. entries \subseteq (0..Cardinality(Screens)) \X Screens /\ enabled \in BOOLEAN
  <2>1. 0 \in 0..Cardinality(Screens)
    BY FS_CardinalityType, PlaneAssumption
  <2>2. \A c \in Screens : <<0, c>> \in (0..Cardinality(Screens)) \X Screens
    BY <2>1
  <2>3. entries \in {{}} \cup {{<<0, c>>} : c \in live \cap Screens}
    BY DEF Init
  <2>4. enabled \in BOOLEAN
    BY DEF Init
  <2>5. ASSUME NEW e \in entries
        PROVE  e \in (0..Cardinality(Screens)) \X Screens
    <3>1. PICK c \in Screens : e = <<0, c>>
      BY <2>3, <2>5
    <3> QED BY <2>2, <3>1
  <2> QED BY <2>4, <2>5
<1>6. /\ edits \in [Objects -> SUBSET Handlers] /\ made \in [Objects -> SUBSET Handlers]
      /\ crossed = {}
  BY DEF Init
<1>7. \A h \in Handlers : request[h].at # "store"
  BY <1>1 DEF Init
<1> QED BY <1>2, <1>3, <1>4, <1>5, <1>6, <1>7 DEF TypeInv, RowTypes

LEMMA TypeInvStep ==
  ASSUME TypeInv, [Next]_vars
  PROVE  TypeInv'
<1>1. CASE Next
  <2>1. PICK h \in Handlers : Start(h) \/ Check(h) \/ Commit(h) \/ Reload(h)
    BY <1>1 DEF Next
  <2>2. Quiet(h) \/ Begins(h) \/ Writes(h)
    BY <2>1, StepKinds DEF TypeInv
  <2> QED
    BY <2>2, QuietTypeInv, BeginTypeInv, SaveTypeInv, StoreTypeInv, TourTypeInv, DeleteTypeInv,
       DropTypeInv, SeedTypeInv DEF Writes
<1>2. CASE UNCHANGED vars
  BY <1>2 DEF vars, db, history, TypeInv, RequestTypes, RowTypes, CreatedOnce, InFlight
<1> QED BY <1>1, <1>2

LEMMA TypeInvHolds == Spec => []TypeInv
  BY TypeInvStarts, TypeInvStep, PTL DEF Spec

\* What rows and requests name for another kind is of the right table as well; a
\* deleted row keeps none of it.
SpareRequests == \A h \in Handlers : request[h].spare \subseteq NamesOf(request[h].on)
SpareRows ==
  /\ DOMAIN spare = Objects
  /\ \A o \in Objects : spare[o] \subseteq IF o \in live THEN NamesOf(o) ELSE {}
  /\ \A c \in Screens \ whole : spare[c] = {}

LEMMA SpareRequestsStay ==
  ASSUME SpareRequests, TypeInv, SpareRows, [Next]_vars
  PROVE  SpareRequests'
<1>0. /\ DOMAIN request = Handlers /\ \A h \in Handlers : DOMAIN request[h] = DOMAIN Idle
      /\ \A o \in live : spare[o] \subseteq NamesOf(o)
      /\ Idle.spare = {} /\ Done.spare = {}
  BY DEF TypeInv, RequestTypes, RowTypes, SpareRows, Typed, Done, Idle
<1>1. ASSUME NEW h \in Handlers, NEW r, request' = [request EXCEPT ![h] = r],
             r.spare \subseteq NamesOf(r.on)
      PROVE  SpareRequests'
  BY <1>0, <1>1 DEF SpareRequests
<1>2. ASSUME NEW h \in Handlers, NEW place, To(h, place)
      PROVE  SpareRequests'
  <2>1. CASE place = "done"
    BY <1>0, <1>1, <1>2, <2>1 DEF To
  <2>2. CASE place # "done"
    <3> DEFINE r == [request[h] EXCEPT !.at = place]
    <3>1. r.spare = request[h].spare /\ r.on = request[h].on
      BY <1>0 DEF Idle
    <3>2. request' = [request EXCEPT ![h] = r]
      BY <1>2, <2>2 DEF To
    <3> QED BY <1>1, <3>1, <3>2 DEF SpareRequests
  <2> QED BY <2>1, <2>2
<1>3. ASSUME NEW h \in Handlers, Start(h)
      PROVE  SpareRequests'
  <2>1. CASE StartCreate(h)
    <3>1. PICK o \in Objects : \E n \in Given(o) : Begin(h, Request("create", o, n[1], n[2]))
      BY <2>1 DEF StartCreate
    <3>2. PICK n \in Given(o) : Begin(h, Request("create", o, n[1], n[2]))
      BY <3>1
    <3> DEFINE r == Request("create", o, n[1], n[2])
    <3>3. r.spare = n[2] /\ r.on = o /\ n[2] \subseteq NamesOf(o)
      BY DEF Request, Idle, Given
    <3> QED BY <1>1, <3>2, <3>3 DEF Begin
  <2>2. CASE StartPatch(h)
    <3>1. PICK o \in live : \E n \in Given(o) :
            Begin(h, [Request("patch", o, n[1], n[2]) EXCEPT !.row = edits[o]])
      BY <2>2 DEF StartPatch
    <3>2. PICK n \in Given(o) :
            Begin(h, [Request("patch", o, n[1], n[2]) EXCEPT !.row = edits[o]])
      BY <3>1
    <3> DEFINE r == [Request("patch", o, n[1], n[2]) EXCEPT !.row = edits[o]]
    <3>3. r.spare = n[2] /\ r.on = o /\ n[2] \subseteq NamesOf(o)
      BY DEF Request, Idle, Given
    <3> QED BY <1>1, <3>2, <3>3 DEF Begin
  <2>3. CASE StartProbe(h)
    <3>1. PICK s \in live :
            Begin(h, [Request("probe", s, refs[s], spare[s]) EXCEPT
                        !.row = edits[s], !.path = (s \in whole), !.at = "commit"])
      BY <2>3 DEF StartProbe
    <3> DEFINE r == [Request("probe", s, refs[s], spare[s]) EXCEPT
                       !.row = edits[s], !.path = (s \in whole), !.at = "commit"]
    <3>2. r.spare = spare[s] /\ r.on = s
      BY DEF Request, Idle
    <3> QED BY <1>0, <1>1, <3>1, <3>2 DEF Begin
  <2>4. CASE StartDelete(h)
    <3>1. PICK o : Begin(h, Request("delete", o, {}, {}))
      BY <2>4 DEF StartDelete
    <3>2. Request("delete", o, {}, {}).spare = {}
      BY DEF Request, Idle
    <3> QED BY <1>1, <3>1, <3>2 DEF Begin
  <2>5. CASE StartTour(h)
    <3>1. PICK names, enable, order :
            Begin(h, [Request("tour", Tour, names, {}) EXCEPT !.order = order, !.enable = enable])
      BY <2>5 DEF StartTour
    <3> DEFINE r == [Request("tour", Tour, names, {}) EXCEPT !.order = order, !.enable = enable]
    <3>2. r.spare = {}
      BY DEF Request, Idle
    <3> QED BY <1>1, <3>1, <3>2 DEF Begin
  <2> QED BY <1>3, <2>1, <2>2, <2>3, <2>4, <2>5 DEF Start
<1>4. ASSUME NEW h \in Handlers, Check(h)
      PROVE  SpareRequests'
  <2>1. CASE CheckNames(h) /\ ~Refuse(h)
    <3> DEFINE r == [request[h] EXCEPT !.at = "commit",
                       !.path = request[h].on \in Sources => request[h].names \subseteq whole]
    <3>1. r.spare = request[h].spare /\ r.on = request[h].on
      BY <1>0 DEF Idle
    <3>2. request' = [request EXCEPT ![h] = r]
      BY <2>1 DEF CheckNames
    <3> QED BY <1>1, <3>1, <3>2 DEF SpareRequests
  <2>2. CASE (CheckTour(h) \/ CheckUnused(h)) \/ Refuse(h)
    <3>1. PICK place : To(h, place)
      BY <2>2 DEF CheckTour, CheckUnused, Checked, Refuse
    <3> QED BY <1>2, <3>1
  <2> QED BY <1>4, <2>1, <2>2 DEF Check
<1>5. ASSUME NEW h \in Handlers, Commit(h)
      PROVE  SpareRequests'
  <2>1. PICK place : To(h, place)
    BY <1>5 DEF Commit, CommitSave, StoreFile, CommitTour, CommitDelete, DropScreen, SeedLook,
       SeedInsert, Reread, Refuse
  <2> QED BY <1>2, <2>1
<1>6. ASSUME NEW h \in Handlers, Reload(h)
      PROVE  SpareRequests'
  <2>1. ASSUME NEW from, NEW to, NEW snap, NEW older, Query(h, from, to, snap, older)
        PROVE  SpareRequests'
    <3> DEFINE r == [request[h] EXCEPT !.at = to, !.snap = snap, !.older = older]
    <3>1. r.spare = request[h].spare /\ r.on = request[h].on
      BY <1>0 DEF Idle
    <3>2. request' = [request EXCEPT ![h] = r]
      BY <1>0, <2>1 DEF Query
    <3> QED BY <1>1, <3>1, <3>2 DEF SpareRequests
  <2>2. CASE Apply(h)
    <3>1. ASSUME NEW g \in Handlers \ {h}
          PROVE  request'[g].spare \subseteq NamesOf(request'[g].on)
      <4> DEFINE r == [request[g] EXCEPT !.late = @ \/ (Building(g) /\ g \in Older(h))]
      <4>1. r.spare = request[g].spare /\ r.on = request[g].on
        BY <1>0 DEF Idle
      <4>2. request'[g] = r
        BY <2>2 DEF Apply
      <4> QED BY <4>1, <4>2 DEF SpareRequests
    <3>2. request'[h] = Done
      BY <2>2 DEF Apply
    <3> QED BY <1>0, <3>1, <3>2 DEF SpareRequests
  <2> QED BY <1>6, <2>1, <2>2 DEF Reload, QueryConfig, QueryTour, QueryScreens, QuerySources
<1>7. CASE UNCHANGED vars
  BY <1>7 DEF vars, SpareRequests
<1> QED BY <1>3, <1>4, <1>5, <1>6, <1>7 DEF Next

LEMMA SpareRowsStay ==
  ASSUME SpareRequests, TypeInv, SpareRows, [Next]_vars
  PROVE  SpareRows'
<1>1. ASSUME UNCHANGED db
      PROVE  SpareRows'
  BY <1>1 DEF db, SpareRows
<1>2. ASSUME NEW h \in Handlers, Start(h) \/ Check(h) \/ Reload(h)
      PROVE  SpareRows'
  <2>1. Start(h) => UNCHANGED db
    BY DEF Start, StartCreate, StartPatch, StartProbe, StartDelete, StartTour, Begin
  <2>2. Check(h) => UNCHANGED db
    BY DEF Check, CheckNames, CheckTour, CheckUnused, Checked, Refuse
  <2>3. Reload(h) => UNCHANGED db
    BY DEF Reload, QueryConfig, QueryTour, QueryScreens, QuerySources, Query, Apply
  <2> QED BY <1>1, <1>2, <2>1, <2>2, <2>3
<1>3. ASSUME NEW h \in Handlers, Commit(h), ~Refuse(h)
      PROVE  SpareRows'
  <2> DEFINE r == request[h]
             x == r.on
  <2>0. /\ \A u \in Uploads : u \in Objects /\ u \notin Screens /\ NamesOf(u) = {}
        /\ Going(r) => Fits(r)
        /\ r.spare \subseteq NamesOf(x)
    BY WhoNamesWhat DEF TypeInv, RequestTypes, Typed, SpareRequests, Objects
  <2>1. CASE CommitSave(h)
    <3>1. /\ r.at = "commit" /\ live' = live \cup {x} /\ spare' = [spare EXCEPT ![x] = r.spare]
          /\ whole' = IF r.path /\ x \notin Uploads THEN whole \cup {x} ELSE whole \ {x}
          /\ r.op \in {"create", "patch", "probe"}
      BY <1>3, <2>1 DEF CommitSave
    <3>2. x \in Objects /\ (x \in Screens => r.path /\ x \notin Uploads)
      BY <2>0, <3>1, PlaneAssumption DEF Going, Fits, Objects
    <3> QED BY <2>0, <3>1, <3>2 DEF SpareRows
  <2>2. CASE StoreFile(h)
    <3>1. r.at = "store" /\ x \in Uploads /\ spare' = spare
      BY <2>0, <2>2 DEF StoreFile, Going, Fits
    <3>2. /\ live' = live \ {x} \/ live' = live \cup {x}
          /\ whole' = whole \/ whole' = whole \cup {x}
      BY <2>2 DEF StoreFile
    <3>3. spare[x] = {}
      BY <2>0, <3>1 DEF SpareRows
    <3> QED BY <2>0, <3>1, <3>2, <3>3 DEF SpareRows
  <2>3. CASE CommitTour(h) \/ SeedLook(h) \/ SeedInsert(h) \/ Reread(h)
    BY <2>3 DEF CommitTour, SeedLook, SeedInsert, Reread, SpareRows, db
  <2>4. CASE CommitDelete(h)
    <3>1. /\ spare' = [spare EXCEPT ![x] = {}] /\ whole' = whole \ {x}
          /\ live' = live \/ live' = live \ {x}
      BY <2>4 DEF CommitDelete, Erase
    <3>2. x \in Objects
      BY <2>0, <2>4 DEF CommitDelete, Going, Fits
    <3>3. spare'[x] = {} /\ \A o \in Objects \ {x} : spare'[o] = spare[o]
      BY <3>1, <3>2 DEF SpareRows
    <3>4. \A o \in Objects : spare'[o] \subseteq IF o \in live' THEN NamesOf(o) ELSE {}
      BY <3>1, <3>3 DEF SpareRows
    <3>5. \A c \in Screens \ whole' : spare'[c] = {}
      BY <3>1, <3>3 DEF SpareRows, Objects
    <3> QED BY <3>1, <3>4, <3>5 DEF SpareRows
  <2>5. CASE DropScreen(h)
    <3>1. /\ r.at = "drop" /\ x \notin whole /\ live' = live \ {x}
          /\ UNCHANGED <<spare, whole>>
      BY <1>3, <2>5 DEF DropScreen, Erase
    <3>2. x \in Screens
      BY <2>0, <3>1 DEF Going, Fits
    <3> QED BY <3>1, <3>2 DEF SpareRows
  <2> QED BY <1>3, <2>1, <2>2, <2>3, <2>4, <2>5 DEF Commit
<1>4. ASSUME NEW h \in Handlers, Refuse(h)
      PROVE  SpareRows'
  BY <1>1, <1>4 DEF Refuse
<1>5. CASE UNCHANGED vars
  BY <1>1, <1>5 DEF vars, db
<1> QED BY <1>2, <1>3, <1>4, <1>5 DEF Next

LEMMA SpareHolds == Spec => [](SpareRequests /\ SpareRows)
<1>1. Init => SpareRequests /\ SpareRows
  <2> SUFFICES ASSUME Init
               PROVE  SpareRequests /\ SpareRows
    OBVIOUS
  <2>1. Idle.spare = {} /\ \A h \in Handlers : request[h] = Idle
    BY DEF Init, Idle
  <2> QED BY <2>1 DEF Init, SpareRequests, SpareRows, Objects
<1> QED BY <1>1, SpareRequestsStay, SpareRowsStay, TypeInvHolds, PTL DEF Spec

\* The rows, what they name, the tour's entries and the requests keep their types,
\* for any rows and any number of requests: no row names one of the wrong table,
\* and no position of an entry exceeds the number of screens.
THEOREM RowsKeepTheirTypes == Spec => []TypeOK
<1>1. Init => outrun \in BOOLEAN
  BY DEF Init
<1>2. ASSUME outrun \in BOOLEAN, [Next]_vars
      PROVE  (outrun \in BOOLEAN)'
  <2>1. ASSUME NEW h \in Handlers, Start(h)
        PROVE  outrun' = outrun
    BY <2>1 DEF Start, StartCreate, StartPatch, StartProbe, StartDelete, StartTour, Begin
  <2>2. ASSUME NEW h \in Handlers, Check(h)
        PROVE  outrun' = outrun
    BY <2>2 DEF Check, CheckNames, CheckTour, CheckUnused, Checked, Refuse, history
  <2>3. ASSUME NEW h \in Handlers, Commit(h)
        PROVE  outrun' = outrun
    BY <2>3 DEF Commit, CommitSave, StoreFile, CommitTour, CommitDelete, DropScreen, SeedLook,
       SeedInsert, Reread, Erase, Refuse, history
  <2>4. ASSUME NEW h \in Handlers, Reload(h)
        PROVE  outrun' \in {outrun, TRUE, FALSE}
    BY <2>4 DEF Reload, QueryConfig, QueryTour, QueryScreens, QuerySources, Query, Apply, history
  <2> QED BY <1>2, <2>1, <2>2, <2>3, <2>4 DEF Next, vars, history
<1>3. TypeInv /\ SpareRows /\ outrun \in BOOLEAN => TypeOK
  <2> SUFFICES ASSUME TypeInv, SpareRows, outrun \in BOOLEAN
               PROVE  TypeOK
    OBVIOUS
  <2>1. \A o \in Objects : refs[o] \cup spare[o] \subseteq IF o \in live THEN NamesOf(o) ELSE {}
    BY DEF TypeInv, RowTypes, SpareRows
  <2> QED BY <2>1 DEF TypeInv, RowTypes, RequestTypes, Typed, Places, TypeOK
<1>4. Spec => [](outrun \in BOOLEAN)
  BY <1>1, <1>2, PTL DEF Spec
<1> QED BY <1>3, <1>4, TypeInvHolds, SpareHolds, PTL

-----------------------------------------------------------------------------
(* What two requests share.                                                *)

LEMMA Footprints ==
  ASSUME NEW r
  PROVE  /\ r.on \in Footprint(r) /\ r.names \subseteq Footprint(r)
         /\ r.op = "create" /\ r.on \in Screens => Tour \in Footprint(r)
  BY DEF Footprint

LEMMA SameFootprint ==
  ASSUME NEW q, NEW r, Alike(q, r)
  PROVE  Footprint(q) = Footprint(r)
  BY DEF Footprint, Alike

LEMMA Meet ==
  ASSUME Exclusive, NEW g \in Handlers, NEW h \in Handlers, g # h, InFlight(g), InFlight(h)
  PROVE  LET q == request[g]
             r == request[h] IN
         /\ q.on = r.on => r.on \in crossed
         /\ r.on \in q.names => r.on \in crossed
         /\ q.op = "create" /\ q.on \in Screens
            /\ (r.on = Tour \/ (r.op = "create" /\ r.on \in Screens)) => Tour \in crossed
  BY Footprints DEF Exclusive

\* A request in flight that goes on, and those that stay, have in common what they had.
LEMMA StaysExclusive ==
  ASSUME Exclusive, NEW h \in Handlers, Others(h), InFlight(h), crossed' = crossed,
         request'[h].at # "done" => Alike(request'[h], request[h])
  PROVE  Exclusive'
<1> SUFFICES ASSUME NEW f \in Handlers, NEW g \in Handlers, f # g, InFlight(f)', InFlight(g)'
             PROVE  Footprint(request'[f]) \cap Footprint(request'[g]) \subseteq crossed
  BY DEF Exclusive
<1>1. ASSUME NEW k \in Handlers, InFlight(k)'
      PROVE  InFlight(k) /\ Footprint(request'[k]) = Footprint(request[k])
  BY <1>1, SameFootprint DEF Others, InFlight
<1> QED BY <1>1 DEF Exclusive

\* Everything together: what is about to go is unused because names are known,
\* names are there because what goes is unused, and all of it up to crossings.
RaceInv ==
  /\ TypeInv /\ OnlyKnown /\ Exclusive /\ Unused /\ StillThere /\ ReadAll
  /\ NamesStand /\ IsWhole /\ TourStands

\* What a step leaves of the requests it does not move.
LEMMA OthersStay ==
  ASSUME NEW h, Others(h), NEW k \in Handlers \ {h}
  PROVE  /\ request'[k].at = request[k].at /\ request'[k].op = request[k].op
         /\ request'[k].on = request[k].on /\ request'[k].names = request[k].names
         /\ request'[k].row = request[k].row /\ request'[k].path = request[k].path
         /\ (InFlight(k)' <=> InFlight(k))
         /\ (Leaving(request'[k]) <=> Leaving(request[k]))
         /\ (Saving(request'[k]) <=> Saving(request[k]))
         /\ (Checks(request'[k]) <=> Checks(request[k]))
         /\ (Creating(request'[k]) <=> Creating(request[k]))
  BY DEF Others, Alike, InFlight, Leaving, Saving, Checks, Creating

LEMMA QuietRaceInv ==
  ASSUME RaceInv, NEW h \in Handlers, Quiet(h)
  PROVE  RaceInv'
<1> DEFINE r == request[h]
           q == request'[h]
<1>0. /\ Others(h) /\ UNCHANGED <<live, whole, refs, edits, entries, enabled, made, crossed>>
      /\ UNCHANGED <<InTour, Known>>
  BY DEF Quiet, db, InTour, Known
<1>1. /\ InFlight(h) /\ (q.at # "done" => Alike(q, r)) /\ q.at \notin {"store", "drop", "seed", "check"}
      /\ q.at = "commit" => r.at = "check" /\ Approved(h)
      /\ q.at = "insert" => r.at = "seed" /\ entries = {}
      /\ r.at # "store" /\ (r.at = "drop" => r.on \in whole)
  BY DEF Quiet, Ends, Proceeds, InFlight
<1>2. Typed(r) /\ Fits(r)
  BY <1>1 DEF RaceInv, TypeInv, RequestTypes, Typed, Going, InFlight
<1>3. TypeInv'
  BY QuietTypeInv DEF RaceInv
<1>4. Exclusive'
  BY <1>0, <1>1, StaysExclusive DEF RaceInv
<1>5. OnlyKnown'
  <2>1. ASSUME InFlight(h)'
        PROVE  /\ ~Checks(q) => q.names \subseteq Known
               /\ q.op # "tour" => (q.on \in Known <=> ~Creating(q))
               /\ q.at # "store"
    <3>1. Alike(q, r) /\ (r.op # "tour" => (r.on \in Known <=> ~Creating(r)))
          /\ (~Checks(r) => r.names \subseteq Known)
      BY <1>1, <2>1 DEF InFlight, RaceInv, OnlyKnown
    <3>2. Checks(r) => q.at = "done" \/ r.names \subseteq Known
      BY <1>1, <3>1 DEF Checks, Quiet, Ends, Proceeds, Approved, Known
    <3>3. q.names \subseteq Known
      BY <2>1, <3>1, <3>2 DEF InFlight, Alike
    <3>4. Creating(q) <=> Creating(r)
      BY <1>1, <2>1, <3>1 DEF Creating, Alike, InFlight, Quiet, Ends, Proceeds
    <3> QED BY <1>1, <3>1, <3>3, <3>4 DEF Alike
  <2>2. ASSUME NEW k \in Handlers \ {h}, InFlight(k)'
        PROVE  /\ ~Checks(request'[k]) => request'[k].names \subseteq Known
               /\ request'[k].op # "tour" => (request'[k].on \in Known <=> ~Creating(request'[k]))
               /\ request'[k].at = "store" => made[request'[k].on] # {}
    BY <1>0, <2>2, OthersStay DEF RaceInv, OnlyKnown
  <2> QED BY <1>0, <2>1, <2>2 DEF RaceInv, OnlyKnown
<1>6. Unused'
  <2>1. Leaving(q) => r.on \notin InTour /\ \A o \in live : r.on \notin refs[o]
    BY <1>1, <1>2 DEF Leaving, Approved, Referrers, Alike, Fits
  <2>2. Leaving(q) => q.on = r.on
    BY <1>1 DEF Leaving, Alike
  <2> QED BY <1>0, <2>1, <2>2, OthersStay DEF RaceInv, Unused
<1>7. StillThere'
  <2>1. ASSUME Saving(q), Uncrossed({q.on} \cup q.names)
        PROVE  q.names \subseteq live /\ (q.on \notin Uploads => q.path)
    <3>1. Alike(q, r) /\ r.names \subseteq live /\ q.path = (r.on \in Sources => r.names \subseteq whole)
      BY <1>1, <2>1 DEF Saving, Approved, Alike, Fits
    <3>2. ASSUME r.on \in Sources, NEW u \in r.names
          PROVE  u \in whole
      <4>1. u \in Uploads /\ u \in live /\ u \in Objects
        BY <1>1, <1>2, <2>1, <3>1, <3>2, WhoNamesWhat DEF Fits, Saving, Alike, Objects
      <4>2. Alone(u)
        BY <2>1, <3>1, <4>1, WhoNamesWhat DEF Alone, Alike, Uncrossed, RaceInv, TypeInv, RowTypes
      <4>3. ASSUME NEW g \in Handlers, request[g].on = u, request[g].at \in {"store", "drop"}
            PROVE  FALSE
        <5>1. g # h /\ InFlight(g)
          BY <1>1, <2>1, <4>3 DEF InFlight, Saving
        <5>2. u \in crossed
          BY <1>1, <3>2, <4>3, <5>1, Meet DEF RaceInv
        <5> QED BY <2>1, <3>1, <3>2, <5>2 DEF Uncrossed, Alike
      <4> QED BY <4>1, <4>2, <4>3 DEF RaceInv, IsWhole
    <3> QED BY <3>1, <3>2 DEF Alike
  <2>2. q.op = "tour" /\ q.at = "commit" => q.names \subseteq live \cup crossed
    BY <1>1 DEF Approved, Alike
  <2>3. q.at \in {"seed", "insert"} => q.on \in live \cup crossed
    BY <1>1 DEF Alike, RaceInv, StillThere
  <2>4. \A k \in Handlers \ {h} :
          /\ Saving(request'[k]) /\ Uncrossed({request'[k].on} \cup request'[k].names)
               => request'[k].names \subseteq live /\ (request'[k].on \notin Uploads => request'[k].path)
          /\ request'[k].op = "tour" /\ request'[k].at = "commit"
               => request'[k].names \subseteq live \cup crossed
          /\ request'[k].at \in {"seed", "insert"} => request'[k].on \in live \cup crossed
    BY <1>0, OthersStay DEF RaceInv, StillThere
  <2> QED BY <1>0, <2>1, <2>2, <2>3, <2>4 DEF StillThere, Uncrossed
<1>8. ReadAll'
  <2>1. \A k \in Handlers : request'[k].at \in {"check", "commit", "store"} =>
          /\ request'[k].on = request[k].on /\ request'[k].row = request[k].row
          /\ request'[k].op = request[k].op
          /\ request'[k].at = "store" => request[k].at = "store"
          /\ request'[k].at \in {"check", "commit"} => request[k].at \in {"check", "commit"}
    BY <1>0, <1>1, OthersStay DEF Alike
  <2> QED BY <1>0, <2>1 DEF RaceInv, ReadAll
<1>9. NamesStand'
  BY <1>0 DEF RaceInv, NamesStand, Alone, Uncrossed
<1>10. IsWhole'
  BY <1>0, <1>1, OthersStay DEF RaceInv, IsWhole, Alone, Uncrossed
<1>11. TourStands'
  BY <1>0, <1>1, OthersStay DEF RaceInv, TourStands
<1> QED BY <1>3, <1>4, <1>5, <1>6, <1>7, <1>8, <1>9, <1>10, <1>11 DEF RaceInv

LEMMA BeginRaceInv ==
  ASSUME RaceInv, NEW h \in Handlers, Begins(h)
  PROVE  RaceInv'
<1> DEFINE q == request'[h]
<1>0. /\ Others(h) /\ UNCHANGED <<live, whole, refs, edits, entries, enabled, made>>
      /\ UNCHANGED <<InTour, Known>> /\ crossed \subseteq crossed'
      /\ ~InFlight(h) /\ Fits(q) /\ Typed(q)
  BY DEF Begins, db, InTour, Known
<1>1. \/ /\ q.op = "create" /\ q.at = "check" /\ q.on \notin live /\ made[q.on] = {}
      \/ q.op = "patch" /\ q.at = "check" /\ q.on \in live /\ q.row = edits[q.on]
      \/ /\ q.op = "probe" /\ q.at = "commit" /\ q.on \in live /\ q.row = edits[q.on]
         /\ q.names = refs[q.on] /\ q.path = (q.on \in whole)
      \/ q.op = "delete" /\ q.at = "check" /\ q.on \in live
      \/ q.op = "tour" /\ q.at = "check"
  BY DEF Begins
<1>2. TypeInv'
  BY BeginTypeInv DEF RaceInv
<1>3. ASSUME NEW g \in Handlers \ {h}, InFlight(g)
      PROVE  Footprint(q) \cap Footprint(request[g]) \subseteq crossed'
  BY <1>3 DEF Begins
<1>4. Exclusive'
  <2> SUFFICES ASSUME NEW f \in Handlers, NEW g \in Handlers, f # g, InFlight(f)', InFlight(g)'
               PROVE  Footprint(request'[f]) \cap Footprint(request'[g]) \subseteq crossed'
    BY DEF Exclusive
  <2>1. ASSUME NEW k \in Handlers \ {h}, InFlight(k)'
        PROVE  InFlight(k) /\ Footprint(request'[k]) = Footprint(request[k])
    BY <1>0, <2>1, SameFootprint DEF Others, InFlight
  <2>2. CASE f # h /\ g # h
    BY <1>0, <2>1, <2>2 DEF RaceInv, Exclusive
  <2> QED BY <1>3, <2>1, <2>2
<1>5. OnlyKnown'
  <2>1. /\ ~Checks(q) => q.names \subseteq Known
        /\ q.op # "tour" => (q.on \in Known <=> ~Creating(q))
        /\ q.at # "store"
    <3>1. q.op # "tour" => q.on \in Objects
      BY <1>0 DEF Fits, Objects
    <3>2. q.op = "delete" => q.names = {}
      BY <1>0 DEF Fits
    <3> QED BY <1>1, <3>1, <3>2 DEF Checks, Creating, Known, RaceInv, OnlyKnown
  <2>2. ASSUME NEW k \in Handlers \ {h}, InFlight(k)'
        PROVE  /\ ~Checks(request'[k]) => request'[k].names \subseteq Known
               /\ request'[k].op # "tour" => (request'[k].on \in Known <=> ~Creating(request'[k]))
               /\ request'[k].at = "store" => made[request'[k].on] # {}
    BY <1>0, <2>2, OthersStay DEF RaceInv, OnlyKnown
  <2> QED BY <1>0, <2>1, <2>2 DEF RaceInv, OnlyKnown
<1>6. Unused'
  <2>1. ~Leaving(q)
    BY <1>1 DEF Leaving
  <2> QED BY <1>0, <2>1, OthersStay DEF RaceInv, Unused
<1>7. StillThere'
  <2>1. ASSUME Saving(q), q.on \notin crossed', q.names \cap crossed' = {}
        PROVE  q.names \subseteq live /\ (q.on \notin Uploads => q.path)
    <3>1. q.op = "probe" /\ q.names = refs[q.on] /\ q.path = (q.on \in whole) /\ q.on \in live
      BY <1>1, <2>1 DEF Saving
    <3>2. Alone(q.on) /\ q.on \in Objects
      BY <1>0, <2>1, <3>1 DEF Alone, Uncrossed, Fits, Objects
    <3>3. ASSUME NEW g \in Handlers, request[g].on = q.on, request[g].at \in {"store", "drop"}
          PROVE  FALSE
      <4>1. g # h /\ InFlight(g)
        BY <1>0, <3>3 DEF InFlight
      <4> QED BY <1>3, <2>1, <3>3, <4>1, Footprints
    <3> QED BY <3>1, <3>2, <3>3 DEF RaceInv, IsWhole, NamesStand
  <2>2. q.at \notin {"seed", "insert"} /\ (q.op = "tour" => q.at # "commit")
    BY <1>1
  <2>3. ASSUME NEW k \in Handlers \ {h}
        PROVE  /\ Saving(request'[k]) /\ request'[k].on \notin crossed' /\ request'[k].names \cap crossed' = {}
                    => request'[k].names \subseteq live /\ (request'[k].on \notin Uploads => request'[k].path)
               /\ request'[k].op = "tour" /\ request'[k].at = "commit"
                    => request'[k].names \subseteq live \cup crossed
               /\ request'[k].at \in {"seed", "insert"} => request'[k].on \in live \cup crossed
    BY <1>0, OthersStay DEF RaceInv, StillThere, Uncrossed
  <2> QED BY <1>0, <2>1, <2>2, <2>3 DEF StillThere, Uncrossed
<1>8. ReadAll'
  <2>1. q.op \in {"create", "patch", "probe"} /\ q.on \notin crossed' => made[q.on] \subseteq q.row
    BY <1>0, <1>1 DEF RaceInv, ReadAll
  <2>2. q.at # "store"
    BY <1>1
  <2> QED BY <1>0, <2>1, <2>2, OthersStay DEF RaceInv, ReadAll
<1>9. NamesStand'
  BY <1>0 DEF RaceInv, NamesStand, Alone, Uncrossed
<1>10. IsWhole'
  <2>1. request[h].at \notin {"store", "drop"}
    BY <1>0 DEF InFlight
  <2> QED BY <1>0, <2>1, OthersStay DEF RaceInv, IsWhole, Alone, Uncrossed
<1>11. TourStands'
  <2>1. q.at # "insert"
    BY <1>1
  <2> QED BY <1>0, <2>1, OthersStay DEF RaceInv, TourStands
<1> QED BY <1>2, <1>4, <1>5, <1>6, <1>7, <1>8, <1>9, <1>10, <1>11 DEF RaceInv

LEMMA SaveRaceInv ==
  ASSUME RaceInv, NEW h \in Handlers, CommitSave(h), ~Refuse(h)
  PROVE  RaceInv'
<1> DEFINE r == request[h]
           q == request'[h]
           x == r.on
           mark == IF r.op = "probe" THEN {} ELSE {h}
<1>0. /\ MovesTo(h, After(r)) /\ Keeps(h) /\ Typed(r) /\ Fits(r) /\ InFlight(h)
      /\ r.at = "commit" /\ r.op \in {"create", "patch", "probe"}
      /\ x \in Objects /\ r.names \subseteq NamesOf(x)
  BY WritesMove, WhoNamesWhat
     DEF RaceInv, TypeInv, RequestTypes, CommitSave, Typed, Going, InFlight, Fits, Objects
<1>1. /\ Others(h) /\ Alike(q, r) /\ Saving(r) /\ q.at \in {"store", "seed", "reread", "reload"}
      /\ q.at = "store" <=> x \in Uploads
      /\ q.at = "seed" => x \in Screens
      /\ x \in Uploads => r.names = {} /\ r.op = "create"
  BY <1>0, WhoNamesWhat DEF After, MovesTo, Saving, Fits
<1>2. /\ live' = live \cup {x}
      /\ whole' = IF r.path /\ x \notin Uploads THEN whole \cup {x} ELSE whole \ {x}
      /\ refs' = [refs EXCEPT ![x] = r.names]
      /\ edits' = [edits EXCEPT ![x] = r.row \cup mark]
      /\ made' = [made EXCEPT ![x] = @ \cup mark]
      /\ UNCHANGED <<entries, enabled, crossed, InTour>>
  BY DEF CommitSave, InTour
<1>3. /\ refs'[x] = r.names /\ edits'[x] = r.row \cup mark /\ made'[x] = made[x] \cup mark
      /\ \A o \in Objects \ {x} : refs'[o] = refs[o] /\ edits'[o] = edits[o] /\ made'[o] = made[o]
  BY <1>0, <1>2 DEF RaceInv, TypeInv, RowTypes
<1>4. TypeInv'
  BY SaveTypeInv DEF RaceInv
<1>5. Exclusive'
  BY <1>0, <1>1, <1>2, StaysExclusive DEF RaceInv
<1>6. /\ Known' = Known \cup {x} /\ r.names \subseteq Known
      /\ x \notin Known <=> Creating(r)
      /\ Creating(r) <=> r.op = "create"
  <2>1. Known' = Known \cup {x}
    BY <1>0, <1>2, <1>3 DEF Known
  <2> QED BY <1>0, <2>1 DEF RaceInv, OnlyKnown, Checks, Creating
<1>7. OnlyKnown'
  <2>1. /\ q.names \subseteq Known' /\ q.on \in Known' /\ ~Creating(q)
        /\ q.at = "store" => made'[q.on] # {}
    BY <1>1, <1>3, <1>6 DEF Alike, Creating
  <2>2. ASSUME NEW k \in Handlers \ {h}, InFlight(k)'
        PROVE  /\ ~Checks(request'[k]) => request'[k].names \subseteq Known'
               /\ request'[k].op # "tour" => (request'[k].on \in Known' <=> ~Creating(request'[k]))
               /\ request'[k].at = "store" => made'[request'[k].on] # {}
    <3>1. InFlight(k) /\ Typed(request[k]) /\ Fits(request[k])
      BY <1>1, <2>2, OthersStay DEF RaceInv, TypeInv, RequestTypes, Typed, Going, InFlight
    <3>2. Creating(request[k]) => request[k].on # x \/ x \in Known
      BY <1>0, <1>6, <3>1 DEF RaceInv, TypeInv, CreatedOnce, Creating
    <3>3. made[request[k].on] # {} /\ request[k].at = "store" => made'[request[k].on] # {}
      BY <1>3, <3>1 DEF Fits, Objects
    <3>4. /\ ~Checks(request[k]) => request[k].names \subseteq Known
          /\ request[k].op # "tour" => (request[k].on \in Known <=> ~Creating(request[k]))
          /\ request[k].at = "store" => made[request[k].on] # {}
      BY <3>1 DEF RaceInv, OnlyKnown
    <3> QED BY <1>1, <1>6, <3>2, <3>3, <3>4, OthersStay
  <2>3. (\A o \in Objects : refs'[o] \subseteq Known') /\ InTour' \subseteq Known'
    BY <1>2, <1>3, <1>6 DEF RaceInv, OnlyKnown
  <2> QED BY <2>1, <2>2, <2>3 DEF OnlyKnown
<1>8. \A k \in Handlers \ {h} : InFlight(k) =>
        /\ request[k].on = x => x \in crossed
        /\ request[k].on \in r.names => request[k].on \in crossed
  BY <1>0, Meet DEF RaceInv
<1>9. Unused'
  <2>1. ASSUME q.at = "store"
        PROVE  x \notin InTour /\ \A o \in live' : x \notin refs'[o]
    <3>1. x \notin Known
      BY <1>1, <1>6, <2>1
    <3> QED BY <1>1, <1>2, <1>3, <2>1, <3>1 DEF RaceInv, OnlyKnown, TypeInv, RowTypes
  <2>2. Leaving(q) => q.at = "store" /\ q.on = x
    BY <1>0, <1>1 DEF Leaving, Alike
  <2>3. ASSUME NEW k \in Handlers \ {h}, Leaving(request[k]), request[k].on \notin crossed
        PROVE  request[k].on \notin InTour /\ \A o \in live' : request[k].on \notin refs'[o]
    <3>1. InFlight(k)
      BY <2>3 DEF Leaving, InFlight
    <3>2. request[k].on \notin r.names
      BY <1>8, <2>3, <3>1
    <3> QED BY <1>2, <1>3, <2>3, <3>2 DEF RaceInv, Unused, TypeInv, RowTypes
  <2> QED BY <1>1, <1>2, <2>1, <2>2, <2>3, OthersStay DEF Unused
<1>10. StillThere'
  <2>1. ~Saving(q) /\ q.at # "commit" /\ q.on \in live'
    BY <1>1, <1>2 DEF Saving, Alike
  <2> QED BY <1>1, <1>2, <2>1, OthersStay DEF RaceInv, StillThere, Uncrossed
<1>11. ReadAll'
  <2>1. x \notin crossed => made[x] \subseteq r.row
    BY <1>0 DEF RaceInv, ReadAll
  <2>2. \A o \in live' \ crossed' : made'[o] \subseteq edits'[o]
    BY <1>2, <1>3, <2>1 DEF RaceInv, ReadAll, TypeInv, RowTypes
  <2>3. q.at = "store" => made'[q.on] \subseteq {h}
    <3>1. ASSUME q.at = "store"
          PROVE  made[x] = {} /\ q.on = x
      BY <1>0, <1>1, <1>6, <3>1 DEF Known, Alike
    <3> QED BY <1>3, <3>1
  <2>4. q.at \notin {"check", "commit"}
    BY <1>1
  <2>5. ASSUME NEW k \in Handlers \ {h}, request[k].on \notin crossed, InFlight(k),
               request[k].op \in {"create", "patch", "probe"}
        PROVE  made'[request[k].on] = made[request[k].on]
    <3>1. Fits(request[k])
      BY <2>5 DEF RaceInv, TypeInv, RequestTypes, Typed, Going, InFlight
    <3>2. request[k].on \in Objects
      BY <2>5, <3>1, WhoNamesWhat DEF Fits, Objects
    <3> QED BY <1>3, <1>8, <2>5, <3>2
  <2>6. \A k \in Handlers : request[k].at \in {"check", "commit", "store"} => InFlight(k)
    BY DEF InFlight
  <2>7. \A k \in Handlers : request[k].at = "store" => request[k].op = "create"
    BY <2>6 DEF RaceInv, TypeInv, RequestTypes, Typed, Going, InFlight, Fits
  <2>8. ASSUME NEW k \in Handlers \ {h}
        PROVE  /\ request'[k].op \in {"create", "patch", "probe"} /\ request'[k].at \in {"check", "commit"}
                     /\ request'[k].on \notin crossed'
                  => made'[request'[k].on] \subseteq request'[k].row
               /\ request'[k].at = "store" /\ request'[k].on \notin crossed'
                  => made'[request'[k].on] \subseteq {k}
    <3>1. /\ request'[k].at = request[k].at /\ request'[k].op = request[k].op
          /\ request'[k].on = request[k].on /\ request'[k].row = request[k].row
      BY <1>1, OthersStay
    <3>2. /\ request[k].op \in {"create", "patch", "probe"} /\ request[k].at \in {"check", "commit"}
               /\ request[k].on \notin crossed
            => made[request[k].on] \subseteq request[k].row
          /\ request[k].at = "store" /\ request[k].on \notin crossed
            => made[request[k].on] \subseteq {k}
      BY DEF RaceInv, ReadAll
    <3> QED BY <1>2, <2>5, <2>6, <2>7, <3>1, <3>2
  <2> QED BY <2>2, <2>3, <2>4, <2>8 DEF ReadAll
<1>12. x \notin crossed /\ r.names \cap crossed = {} => r.names \subseteq live /\ (x \notin Uploads => r.path)
  BY <1>0, <1>1 DEF Uncrossed, RaceInv, StillThere
<1>13. \A o \in Objects : Alone(o)' =>
         IF o = x THEN x \notin crossed /\ r.names \cap crossed = {} ELSE Alone(o)
  BY <1>2, <1>3 DEF Alone, Uncrossed
<1>14. NamesStand'
  BY <1>2, <1>3, <1>12, <1>13 DEF RaceInv, NamesStand
<1>15. IsWhole'
  <2>1. ASSUME NEW o \in Objects, o = x, Alone(o)'
        PROVE  o \in whole' \/ (q.on = o /\ q.at = "store")
    BY <1>1, <1>2, <1>12, <1>13, <2>1 DEF Alike
  <2>2. ASSUME NEW o \in Objects \ {x}, Alone(o)'
        PROVE  o \in whole' \/ \E k \in Handlers : request'[k].on = o /\ request'[k].at \in {"store", "drop"}
    BY <1>0, <1>1, <1>2, <1>13, <2>2, OthersStay DEF RaceInv, IsWhole
  <2> QED BY <2>1, <2>2 DEF IsWhole
<1>16. TourStands'
  BY <1>1, <1>2, OthersStay DEF RaceInv, TourStands
<1> QED
  BY <1>4, <1>5, <1>7, <1>9, <1>10, <1>11, <1>14, <1>15, <1>16 DEF RaceInv

\* What becomes of a row nobody may have named meanwhile: an upload gets its file
\* or goes for want of it, a deleted row goes, a deleted screen is emptied first.
Resolves(h) == LET x == request[h].on IN
  /\ Others(h) /\ InFlight(h) /\ Leaving(request[h]) /\ x \in Objects \ {Config}
  /\ request'[h].at \in {"done", "drop", "reload"}
  /\ request'[h].at # "done" => Alike(request'[h], request[h]) /\ request[h].op = "delete"
  /\ \/ live' = live \ {x}
     \/ live' = live /\ x \in Screens /\ request'[h].at = "drop"
     \/ live' = live \cup {x} /\ x \in Uploads /\ request[h].at = "store"
  /\ whole' = IF x \in Uploads /\ x \in live' THEN whole \cup {x} ELSE whole \ {x}
  /\ DOMAIN refs' = Objects /\ refs'[x] = {} /\ \A o \in Objects \ {x} : refs'[o] = refs[o]
  /\ made'[x] = made[x] \/ made'[x] = made[x] \cup {h}
  /\ x \notin live' => made'[x] # {}
  /\ x \in live' /\ request[h].at = "store" => edits'[x] = {h} /\ made'[x] = made[x]
  /\ x \in live' /\ request[h].at # "store" => edits'[x] = edits[x] /\ made'[x] = made[x]
  /\ \A o \in Objects \ {x} : edits'[o] = edits[o] /\ made'[o] = made[o]
  /\ UNCHANGED <<entries, enabled, crossed, InTour>>

LEMMA ResolveRaceInv ==
  ASSUME RaceInv, TypeInv', NEW h \in Handlers, Resolves(h)
  PROVE  RaceInv'
<1> DEFINE r == request[h]
           q == request'[h]
           x == r.on
<1>0. /\ Others(h) /\ InFlight(h) /\ Leaving(r) /\ x \in Objects
      /\ q.at \in {"done", "drop", "reload"}
      /\ q.at # "done" => q.on = x /\ q.names = r.names /\ q.op = "delete" /\ r.op = "delete"
      /\ r.at \notin {"check", "seed", "insert"}
      /\ r.at = "store" => r.op = "create" /\ x \in Uploads
      /\ Fits(r)
  BY DEF Resolves, Alike, Leaving, RaceInv, TypeInv, RequestTypes, Typed, Going, InFlight, Fits
<1>1. /\ live \ {x} \subseteq live' /\ live' \subseteq live \cup {x}
      /\ whole' \ {x} = whole \ {x}
      /\ refs'[x] = {} /\ \A o \in Objects \ {x} : refs'[o] = refs[o]
      /\ \A o \in Objects \ {x} : edits'[o] = edits[o] /\ made'[o] = made[o]
      /\ made[x] \subseteq made'[x] /\ (x \notin live' => made'[x] # {})
      /\ UNCHANGED <<entries, enabled, crossed, InTour>>
  BY DEF Resolves
<1>2. \A k \in Handlers \ {h} : InFlight(k) =>
        /\ request[k].on = x => x \in crossed
        /\ x \in request[k].names => x \in crossed
  BY <1>0, Meet DEF RaceInv
<1>3. Exclusive'
  BY <1>0, StaysExclusive DEF RaceInv, Resolves
<1>4. Known' = Known
  <2>1. x \in Known
    BY <1>0 DEF RaceInv, OnlyKnown, Creating, Leaving
  <2>2. \A o \in Objects \ {x} : o \in Known' <=> o \in Known
    BY <1>1 DEF Known
  <2>3. x \in Known'
    BY <1>0, <1>1 DEF Known
  <2>4. Known \subseteq Objects /\ Known' \subseteq Objects
    BY DEF Known, RaceInv, TypeInv, RowTypes
  <2> QED BY <2>1, <2>2, <2>3, <2>4
<1>5. OnlyKnown'
  <2>1. InFlight(h)' =>
          /\ q.names \subseteq Known /\ (q.on \in Known <=> ~Creating(q)) /\ q.at # "store"
    BY <1>0 DEF InFlight, RaceInv, OnlyKnown, Creating, Checks, Leaving
  <2>2. ASSUME NEW k \in Handlers \ {h}, InFlight(k)'
        PROVE  /\ ~Checks(request'[k]) => request'[k].names \subseteq Known
               /\ request'[k].op # "tour" => (request'[k].on \in Known <=> ~Creating(request'[k]))
               /\ request'[k].at = "store" => made'[request'[k].on] # {}
    <3>1. InFlight(k) /\ Fits(request[k])
      BY <1>0, <2>2, OthersStay DEF RaceInv, TypeInv, RequestTypes, Typed, Going, InFlight
    <3>2. request[k].at = "store" => request[k].on \in Objects /\ made[request[k].on] # {}
      BY <3>1 DEF Fits, Objects, RaceInv, OnlyKnown
    <3>3. request[k].at = "store" => made'[request[k].on] # {}
      BY <1>1, <3>2
    <3> QED BY <1>0, <3>1, <3>3, OthersStay DEF RaceInv, OnlyKnown
  <2>3. (\A o \in Objects : refs'[o] \subseteq Known) /\ InTour' \subseteq Known
    BY <1>1 DEF RaceInv, OnlyKnown
  <2> QED BY <1>4, <2>1, <2>2, <2>3 DEF OnlyKnown
<1>6. Unused'
  <2>1. ASSUME NEW k \in Handlers, Leaving(request[k]), request[k].on \notin crossed
        PROVE  request[k].on \notin InTour /\ \A o \in live' : request[k].on \notin refs'[o]
    BY <1>1, <2>1 DEF RaceInv, Unused, TypeInv, RowTypes
  <2>2. Leaving(q) => q.on = x
    BY <1>0 DEF Leaving
  <2> QED BY <1>0, <1>1, <2>1, <2>2, OthersStay DEF Unused
<1>7. StillThere'
  <2>1. ~Saving(q) /\ q.at \notin {"commit", "seed", "insert"}
    BY <1>0 DEF Saving
  <2>2. ASSUME NEW k \in Handlers \ {h}, InFlight(k)
        PROVE  /\ request[k].names \cap live \subseteq live' \cup crossed
               /\ request[k].on \in live \cup crossed => request[k].on \in live' \cup crossed
    BY <1>1, <1>2, <2>2
  <2>3. ASSUME NEW k \in Handlers \ {h}
        PROVE  /\ Saving(request'[k]) /\ Uncrossed({request'[k].on} \cup request'[k].names)
                    => request'[k].names \subseteq live' /\ (request'[k].on \notin Uploads => request'[k].path)
               /\ request'[k].op = "tour" /\ request'[k].at = "commit"
                    => request'[k].names \subseteq live' \cup crossed
               /\ request'[k].at \in {"seed", "insert"} => request'[k].on \in live' \cup crossed
    <3>1. request[k].at \in {"commit", "seed", "insert"} => InFlight(k)
      BY DEF InFlight
    <3> QED BY <1>0, <2>2, <3>1, OthersStay DEF RaceInv, StillThere, Uncrossed, Saving
  <2> QED BY <1>1, <2>1, <2>3 DEF StillThere, Uncrossed
<1>8. ReadAll'
  <2>1. x \in live' /\ x \notin crossed => made'[x] \subseteq edits'[x]
    <3>1. r.at = "store" /\ x \notin crossed => made[x] \subseteq {h}
      BY DEF RaceInv, ReadAll
    <3>2. x \in live' => made'[x] = made[x] /\ edits'[x] = IF r.at = "store" THEN {h} ELSE edits[x]
      BY DEF Resolves
    <3>3. x \in live' => x \in live \/ r.at = "store"
      BY DEF Resolves
    <3> QED BY <3>1, <3>2, <3>3 DEF RaceInv, ReadAll
  <2>2. \A o \in live' \ crossed' : made'[o] \subseteq edits'[o]
    BY <1>1, <2>1 DEF RaceInv, ReadAll, TypeInv, RowTypes
  <2>3. ASSUME NEW k \in Handlers \ {h}, request[k].on \notin crossed, InFlight(k),
               request[k].op \in {"create", "patch", "probe"}
        PROVE  made'[request[k].on] = made[request[k].on]
    <3>1. Fits(request[k])
      BY <2>3 DEF RaceInv, TypeInv, RequestTypes, Typed, Going, InFlight
    <3>2. request[k].on \in Objects
      BY <2>3, <3>1, WhoNamesWhat DEF Fits, Objects
    <3> QED BY <1>1, <1>2, <2>3, <3>2
  <2>4. \A k \in Handlers : request[k].at \in {"check", "commit", "store"} => InFlight(k)
    BY DEF InFlight
  <2>5. \A k \in Handlers : request[k].at = "store" => request[k].op = "create"
    BY <2>4 DEF RaceInv, TypeInv, RequestTypes, Typed, Going, InFlight, Fits
  <2>6. ASSUME NEW k \in Handlers \ {h}
        PROVE  /\ request'[k].op \in {"create", "patch", "probe"} /\ request'[k].at \in {"check", "commit"}
                     /\ request'[k].on \notin crossed'
                  => made'[request'[k].on] \subseteq request'[k].row
               /\ request'[k].at = "store" /\ request'[k].on \notin crossed'
                  => made'[request'[k].on] \subseteq {k}
    <3>1. /\ request'[k].at = request[k].at /\ request'[k].op = request[k].op
          /\ request'[k].on = request[k].on /\ request'[k].row = request[k].row
      BY <1>0, OthersStay
    <3>2. /\ request[k].op \in {"create", "patch", "probe"} /\ request[k].at \in {"check", "commit"}
               /\ request[k].on \notin crossed
            => made[request[k].on] \subseteq request[k].row
          /\ request[k].at = "store" /\ request[k].on \notin crossed
            => made[request[k].on] \subseteq {k}
      BY DEF RaceInv, ReadAll
    <3> QED BY <1>1, <2>3, <2>4, <2>5, <3>1, <3>2
  <2> QED BY <1>0, <2>2, <2>6 DEF ReadAll
<1>9. \A o \in Objects : Alone(o)' => o = x \/ Alone(o)
  BY <1>1 DEF Alone, Uncrossed
<1>10. NamesStand'
  <2>1. ASSUME NEW o \in Objects \ {x}, Alone(o)'
        PROVE  refs[o] \subseteq live'
    <3>1. Alone(o) /\ refs[o] \subseteq live
      BY <1>9, <2>1 DEF RaceInv, NamesStand
    <3>2. x \notin refs[o]
      BY <1>0, <3>1 DEF RaceInv, Unused, Alone, Uncrossed
    <3> QED BY <1>1, <3>1, <3>2
  <2> QED BY <1>1, <2>1 DEF NamesStand
<1>11. IsWhole'
  <2>1. x \in live' => x \in whole' \/ (q.on = x /\ q.at = "drop")
    BY <1>0 DEF Resolves
  <2>2. ASSUME NEW o \in Objects \ {x}, Alone(o)'
        PROVE  o \in whole' \/ \E k \in Handlers : request'[k].on = o /\ request'[k].at \in {"store", "drop"}
    BY <1>0, <1>1, <1>9, <2>2, OthersStay DEF RaceInv, IsWhole
  <2> QED BY <2>1, <2>2 DEF IsWhole, Alone
<1>12. TourStands'
  <2>1. x \in InTour => x \in crossed
    BY <1>0 DEF RaceInv, Unused
  <2>2. InTour' \subseteq live' \cup crossed'
    BY <1>1, <2>1 DEF RaceInv, TourStands
  <2> QED BY <1>0, <1>1, <2>2, OthersStay DEF RaceInv, TourStands
<1> QED
  BY <1>3, <1>5, <1>6, <1>7, <1>8, <1>10, <1>11, <1>12 DEF RaceInv

LEMMA StoreResolves ==
  ASSUME TypeInv, OnlyKnown, NEW h \in Handlers, StoreFile(h)
  PROVE  Resolves(h)
<1> DEFINE u == request[h].on
<1>0. /\ MovesTo(h, "done") /\ InFlight(h) /\ request[h].at = "store"
      /\ u \in Uploads /\ u \notin whole /\ made[u] # {}
  BY WritesMove DEF TypeInv, RequestTypes, RowTypes, OnlyKnown, StoreFile, Typed, Going, Fits, InFlight
<1>1. u \in Objects \ {Config} /\ NamesOf(u) = {} /\ u \notin Screens
  BY <1>0, WhoNamesWhat DEF Objects
<1>2. /\ UNCHANGED <<refs, entries, enabled, made, crossed, InTour>>
      /\ \/ live' = live \ {u} /\ UNCHANGED <<whole, edits>>
         \/ live' = live \cup {u} /\ whole' = whole \cup {u} /\ edits' = [edits EXCEPT ![u] = {h}]
  BY DEF StoreFile, history, InTour
<1>3. refs[u] = {} /\ DOMAIN refs = Objects
  BY <1>1 DEF TypeInv, RowTypes
<1>4. /\ \A o \in Objects \ {u} : edits'[o] = edits[o]
      /\ u \in live' => edits'[u] = {h} /\ whole' = whole \cup {u}
      /\ u \notin live' => whole' = whole
      /\ whole = whole \ {u}
  BY <1>0, <1>1, <1>2 DEF TypeInv, RowTypes
<1>5. Others(h) /\ request'[h].at = "done" /\ Leaving(request[h])
  BY <1>0 DEF MovesTo, Leaving
<1>6. live' = live \ {u} \/ live' = live \cup {u}
  BY <1>2
<1> QED BY <1>0, <1>1, <1>2, <1>3, <1>4, <1>5, <1>6 DEF Resolves

LEMMA DeleteResolves ==
  ASSUME TypeInv, OnlyKnown, NEW h \in Handlers, CommitDelete(h)
  PROVE  Resolves(h)
<1> DEFINE r == request[h]
           x == r.on
<1>0. /\ MovesTo(h, IF x \in Screens THEN "drop" ELSE IF x \in Uploads THEN "done" ELSE "reload")
      /\ Fits(r) /\ InFlight(h) /\ r.op = "delete" /\ r.at = "commit" /\ x \in Objects \ {Config}
  BY WritesMove DEF TypeInv, RequestTypes, CommitDelete, Typed, Going, Fits, InFlight
<1>1. /\ whole' = whole \ {x} /\ refs' = [refs EXCEPT ![x] = {}]
      /\ UNCHANGED <<entries, enabled, crossed, InTour>>
      /\ IF x \in Screens THEN UNCHANGED <<live, edits, made>>
         ELSE /\ live' = live \ {x}
              /\ edits' = [edits EXCEPT ![x] = @ \cup {h}] /\ made' = [made EXCEPT ![x] = @ \cup {h}]
  BY DEF CommitDelete, Erase, history, InTour
<1>2. DOMAIN refs' = Objects /\ refs'[x] = {} /\ \A o \in Objects \ {x} : refs'[o] = refs[o]
  BY <1>0, <1>1 DEF TypeInv, RowTypes
<1>3. /\ \A o \in Objects \ {x} : edits'[o] = edits[o] /\ made'[o] = made[o]
      /\ IF x \in Screens THEN live' = live /\ edits'[x] = edits[x] /\ made'[x] = made[x]
         ELSE live' = live \ {x} /\ made'[x] = made[x] \cup {h}
  BY <1>0, <1>1 DEF TypeInv, RowTypes
<1>4. /\ Others(h) /\ request'[h].at \in {"done", "drop", "reload"} /\ Leaving(r)
      /\ request'[h].at # "done" => Alike(request'[h], r)
      /\ x \in Screens => request'[h].at = "drop"
  BY <1>0 DEF MovesTo, Leaving
<1>5. x \in Uploads => x \notin live' /\ x \notin Screens
  BY <1>0, <1>3, WhoNamesWhat
<1>6. x \notin live' => made'[x] # {}
  <2>1. x \in Known
    BY <1>0 DEF OnlyKnown, Creating
  <2> QED BY <1>0, <1>3, <2>1 DEF Known
<1> QED BY <1>0, <1>1, <1>2, <1>3, <1>4, <1>5, <1>6 DEF Resolves

LEMMA DropResolves ==
  ASSUME TypeInv, NEW h \in Handlers, DropScreen(h), request[h].on \notin whole
  PROVE  Resolves(h)
<1> DEFINE r == request[h]
           x == r.on
<1>0. /\ MovesTo(h, "reload") /\ Fits(r) /\ InFlight(h) /\ r.op = "delete" /\ r.at = "drop"
      /\ x \in Screens /\ x \in Objects \ {Config} /\ x \notin Uploads
  BY WritesMove, WhoNamesWhat
     DEF TypeInv, RequestTypes, DropScreen, Typed, Going, Fits, InFlight, Objects
<1>1. /\ UNCHANGED <<whole, refs, entries, enabled, crossed, InTour>> /\ live' = live \ {x}
      /\ edits' = [edits EXCEPT ![x] = @ \cup {h}] /\ made' = [made EXCEPT ![x] = @ \cup {h}]
  BY DEF DropScreen, Erase, InTour
<1>2. /\ refs[x] = {} /\ DOMAIN refs = Objects /\ whole \ {x} = whole
  BY <1>0 DEF TypeInv, RowTypes
<1>3. /\ \A o \in Objects \ {x} : edits'[o] = edits[o] /\ made'[o] = made[o]
      /\ made'[x] = made[x] \cup {h}
  BY <1>0, <1>1 DEF TypeInv, RowTypes
<1>4. /\ Others(h) /\ request'[h].at = "reload" /\ Leaving(r) /\ Alike(request'[h], r)
  BY <1>0 DEF MovesTo, Leaving
<1> QED BY <1>0, <1>1, <1>2, <1>3, <1>4 DEF Resolves

\* Steps that write the tour's entries.
LEMMA EntriesRaceInv ==
  ASSUME RaceInv, TypeInv', NEW h \in Handlers, InFlight(h), Others(h), Alike(request'[h], request[h]),
         request[h].at \in {"commit", "insert"}, request'[h].at \in {"reread", "reload"},
         \/ request[h].op = "tour"
         \/ request[h].op = "create" /\ request[h].on \in Screens /\ request[h].at = "insert",
         UNCHANGED <<live, whole, refs, edits, made, crossed>>,
         NEW added, added \subseteq Footprint(request[h]), InTour' \subseteq InTour \cup added,
         added \subseteq Known, added \subseteq live \cup crossed,
         Tour \in crossed \/ \A e, f \in entries' : e[1] = f[1] => e = f
  PROVE  RaceInv'
<1> DEFINE r == request[h]
           q == request'[h]
<1>0. UNCHANGED Known /\ Tour \in Footprint(r)
  <2>1. r.op = "tour" => r.on = Tour
    BY DEF RaceInv, TypeInv, RequestTypes, Typed, Going, Fits, InFlight
  <2> QED BY <2>1, Footprints DEF Known
<1>1. Exclusive'
  BY StaysExclusive DEF RaceInv
<1>2. OnlyKnown'
  <2>1. q.names \subseteq Known /\ (q.op # "tour" => (q.on \in Known <=> ~Creating(q))) /\ q.at # "store"
    BY DEF RaceInv, OnlyKnown, Alike, Checks, Creating
  <2>2. ASSUME NEW k \in Handlers \ {h}, InFlight(k)'
        PROVE  /\ ~Checks(request'[k]) => request'[k].names \subseteq Known
               /\ request'[k].op # "tour" => (request'[k].on \in Known <=> ~Creating(request'[k]))
               /\ request'[k].at = "store" => made[request'[k].on] # {}
    BY <2>2, OthersStay DEF RaceInv, OnlyKnown
  <2>3. InTour' \subseteq Known
    BY DEF RaceInv, OnlyKnown
  <2> QED BY <1>0, <2>1, <2>2, <2>3 DEF RaceInv, OnlyKnown
<1>3. Unused'
  <2>1. ASSUME NEW k \in Handlers \ {h}, Leaving(request[k]), request[k].on \notin crossed
        PROVE  request[k].on \notin added
    BY <2>1, Footprints DEF RaceInv, Exclusive, Leaving, InFlight
  <2>2. ~Leaving(q)
    BY DEF Leaving
  <2> QED BY <2>1, <2>2, OthersStay DEF RaceInv, Unused
<1>4. StillThere'
  <2>1. ~Saving(q) /\ q.at \notin {"commit", "seed", "insert"}
    BY DEF Saving
  <2> QED BY <2>1, OthersStay DEF RaceInv, StillThere, Uncrossed
<1>5. ReadAll'
  BY OthersStay DEF RaceInv, ReadAll
<1>6. NamesStand'
  BY DEF RaceInv, NamesStand, Alone, Uncrossed
<1>7. IsWhole'
  BY OthersStay DEF RaceInv, IsWhole, Alone, Uncrossed
<1>8. TourStands'
  <2>1. ASSUME NEW k \in Handlers \ {h}, request[k].at = "insert"
        PROVE  Tour \in crossed
    <3>1. InFlight(k) /\ request[k].op = "create" /\ request[k].on \in Screens
      BY <2>1 DEF RaceInv, TypeInv, RequestTypes, Typed, Going, Fits, InFlight
    <3> QED BY <1>0, <3>1, Footprints DEF RaceInv, Exclusive
  <2>2. InTour' \subseteq live \cup crossed
    BY DEF RaceInv, TourStands
  <2> QED BY <2>1, <2>2, OthersStay DEF TourStands
<1> QED BY <1>1, <1>2, <1>3, <1>4, <1>5, <1>6, <1>7, <1>8 DEF RaceInv

LEMMA TourRaceInv ==
  ASSUME RaceInv, NEW h \in Handlers, CommitTour(h)
  PROVE  RaceInv'
<1> DEFINE r == request[h]
<1>0. /\ MovesTo(h, "reload") /\ Fits(r) /\ InFlight(h) /\ r.op = "tour" /\ r.at = "commit"
  BY WritesMove DEF RaceInv, TypeInv, RequestTypes, CommitTour, Typed, Going, InFlight
<1>1. Others(h) /\ Alike(request'[h], r) /\ request'[h].at = "reload"
  BY <1>0 DEF MovesTo
<1>2. r.order \in [1..Cardinality(r.names) -> r.names] /\ Cardinality(r.names) \in Nat
  BY <1>0, FS_Subset, FS_CardinalityType, PlaneAssumption DEF Fits
<1>3. \A e \in entries' : \E i \in 1..Cardinality(r.names) : e = <<i - 1, r.order[i]>>
  BY <1>2 DEF CommitTour
<1>4. InTour' \subseteq r.names
  BY <1>2, <1>3 DEF InTour
<1>5. \A e, f \in entries' : e[1] = f[1] => e = f
  BY <1>2, <1>3
<1>6. r.names \subseteq Known /\ r.names \subseteq live \cup crossed
  BY <1>0 DEF RaceInv, OnlyKnown, StillThere, Checks
<1>7. UNCHANGED <<live, whole, refs, edits, made, crossed>>
  BY DEF CommitTour, history
<1>8. TypeInv'
  BY TourTypeInv DEF RaceInv
<1> QED
  BY <1>0, <1>1, <1>4, <1>5, <1>6, <1>7, <1>8, Footprints, EntriesRaceInv

LEMMA SeedRaceInv ==
  ASSUME RaceInv, NEW h \in Handlers, SeedInsert(h)
  PROVE  RaceInv'
<1> DEFINE r == request[h]
<1>0. /\ MovesTo(h, "reread") /\ Fits(r) /\ InFlight(h) /\ r.op = "create" /\ r.at = "insert" /\ r.on \in Screens
  BY WritesMove DEF RaceInv, TypeInv, RequestTypes, SeedInsert, Typed, Going, Fits, InFlight
<1>1. Others(h) /\ Alike(request'[h], r) /\ request'[h].at = "reread"
  BY <1>0 DEF MovesTo
<1>2. entries' = entries \cup {<<0, r.on>>}
  BY DEF SeedInsert
<1>3. InTour' \subseteq InTour \cup {r.on}
  BY <1>2 DEF InTour
<1>4. Tour \in crossed \/ \A e, f \in entries' : e[1] = f[1] => e = f
  BY <1>0, <1>2 DEF RaceInv, TourStands
<1>5. {r.on} \subseteq Known /\ {r.on} \subseteq live \cup crossed
  BY <1>0 DEF RaceInv, OnlyKnown, StillThere, Creating
<1>6. UNCHANGED <<live, whole, refs, edits, made, crossed>>
  BY DEF SeedInsert, history
<1>7. TypeInv'
  BY SeedTypeInv DEF RaceInv
<1> DEFINE added == {r.on}
<1>8. added \subseteq Footprint(r) /\ InTour' \subseteq InTour \cup added
      /\ added \subseteq Known /\ added \subseteq live \cup crossed
  BY <1>3, <1>5, Footprints
<1> HIDE DEF added
<1> QED
  BY <1>0, <1>1, <1>4, <1>6, <1>7, <1>8, EntriesRaceInv

LEMMA RaceInvStarts == Init => RaceInv
<1> SUFFICES ASSUME Init
             PROVE  RaceInv
  OBVIOUS
<1>0. /\ \A h \in Handlers : request[h].at = "idle" /\ ~InFlight(h)
      /\ whole = live /\ crossed = {} /\ Known = live
      /\ \A o \in Objects : made[o] = {} /\ edits[o] = {}
      /\ \A o \in Objects : refs[o] \subseteq live /\ (o \notin live => refs[o] = {})
      /\ live \subseteq Objects
  BY DEF Init, Idle, InFlight, Known
<1>1. TypeInv
  BY TypeInvStarts
<1>2. InTour \subseteq live /\ \A e, f \in entries : e = f
  <2>1. entries \in {{}} \cup {{<<0, c>>} : c \in live \cap Screens}
    BY DEF Init
  <2>2. CASE entries = {}
    BY <2>2 DEF InTour
  <2>3. ASSUME NEW c \in live \cap Screens, entries = {<<0, c>>}
        PROVE  InTour \subseteq live /\ \A e, f \in entries : e = f
    BY <2>3 DEF InTour
  <2> QED BY <2>1, <2>2, <2>3
<1>3. OnlyKnown /\ Exclusive /\ Unused /\ StillThere
  BY <1>0, <1>2 DEF OnlyKnown, Exclusive, Unused, StillThere, Leaving, Saving
<1>4. ReadAll /\ NamesStand /\ IsWhole /\ TourStands
  BY <1>0, <1>2 DEF ReadAll, NamesStand, IsWhole, TourStands, Alone
<1> QED BY <1>1, <1>3, <1>4 DEF RaceInv

LEMMA RaceInvStep ==
  ASSUME RaceInv, [Next]_vars
  PROVE  RaceInv'
<1>1. CASE Next
  <2>1. PICK h \in Handlers : Start(h) \/ Check(h) \/ Commit(h) \/ Reload(h)
    BY <1>1 DEF Next
  <2>2. Quiet(h) \/ Begins(h) \/ Writes(h)
    BY <2>1, StepKinds DEF RaceInv, TypeInv
  <2>3. TypeInv'
    BY <1>1, TypeInvStep DEF RaceInv
  <2>4. StoreFile(h) \/ CommitDelete(h) \/ (DropScreen(h) /\ request[h].on \notin whole) => Resolves(h)
    BY StoreResolves, DeleteResolves, DropResolves DEF RaceInv
  <2> QED
    BY <2>2, <2>3, <2>4, QuietRaceInv, BeginRaceInv, SaveRaceInv, ResolveRaceInv, TourRaceInv,
       SeedRaceInv DEF Writes
<1>2. CASE UNCHANGED vars
  <2>1. UNCHANGED <<live, whole, refs, edits, entries, enabled, request, made, crossed, Known, InTour>>
    BY <1>2 DEF vars, db, history, Known, InTour
  <2>2. TypeInv'
    BY <1>2, TypeInvStep DEF RaceInv
  <2>3. OnlyKnown' /\ Exclusive' /\ Unused' /\ StillThere'
    BY <2>1 DEF RaceInv, OnlyKnown, Exclusive, Unused, StillThere, InFlight, Uncrossed
  <2>4. ReadAll' /\ NamesStand' /\ IsWhole' /\ TourStands'
    BY <2>1 DEF RaceInv, ReadAll, NamesStand, IsWhole, TourStands, Alone, Uncrossed
  <2> QED BY <2>2, <2>3, <2>4 DEF RaceInv
<1> QED BY <1>1, <1>2

LEMMA RaceInvHolds == Spec => []RaceInv
  BY RaceInvStarts, RaceInvStep, PTL DEF Spec

\* Requests that have nothing in common, in flight at once in any number and order,
\* leave no name that is in use without its row, no row without its file, path or
\* tiles, undo no edit that was committed, and give no two entries of the tour one
\* position; nor do requests one after the other, whatever kinds their rows become.
THEOREM HarmAlwaysNeedsARace == Spec => []HarmNeedsARace
<1>1. RaceInv => HarmNeedsARace
  <2> SUFFICES ASSUME RaceInv
               PROVE  HarmNeedsARace
    OBVIOUS
  <2> DEFINE alone == {o \in live : ({o} \cup refs[o]) \cap crossed = {}}
             busy == {request[h].on : h \in {h \in Handlers : InFlight(h)}}
  <2>1. ASSUME NEW o \in alone
        PROVE  o \in Objects /\ o \in live \ crossed /\ Alone(o)
    BY DEF Alone, Uncrossed, RaceInv, TypeInv, RowTypes
  <2>2. \A o \in alone : refs[o] \subseteq live /\ made[o] \subseteq edits[o]
    BY <2>1 DEF RaceInv, NamesStand, ReadAll
  <2>3. alone \subseteq whole \cup busy
    BY <2>1 DEF RaceInv, IsWhole, InFlight
  <2>4. /\ InTour \subseteq live \cup crossed
        /\ Tour \in crossed \/ \A e, f \in entries : e[1] = f[1] => e = f
    BY DEF RaceInv, TourStands
  <2> QED BY <2>2, <2>3, <2>4 DEF HarmNeedsARace
<1> QED BY <1>1, RaceInvHolds, PTL

-----------------------------------------------------------------------------
(* Who is going to hand the rows over.                                     *)

\* What a snapshot of the rows as they are would show the scheduler.
Now ==
  [config |-> edits[Config],
   tour |-> [enabled |-> enabled, entries |-> {e \in entries : e[2] \in live \cap Screens}],
   screens |-> ScreensQuery, sources |-> SourcesQuery]

\* A snapshot agrees with that in one part.
Same(p, snap, now) ==
  CASE p = "tour" -> /\ DOMAIN snap.tour = DOMAIN now.tour /\ snap.tour.enabled = now.tour.enabled
                     /\ {e \in snap.tour.entries : e[2] \in DOMAIN now.screens} = now.tour.entries
    [] OTHER -> snap[p] = now[p]

\* The queries a reload has made, and those that a request whose reload is certain
\* still has to make.
InReload == {"tour", "screens", "sources", "apply"}
Queried(r) == CASE r.at = "tour" -> {"config"}
                [] r.at = "screens" -> {"config", "tour"}
                [] r.at = "sources" -> {"config", "tour", "screens"}
                [] r.at = "apply" -> Parts
                [] OTHER -> {}
Reloads(r, rows, full) ==
  \/ r.at \in InReload \cup {"reload"}
  \/ r.at \in {"seed", "insert", "reread"} /\ r.on \in rows
  \/ r.at = "drop" /\ r.on \notin full
ToQuery(r, rows, full) == IF Reloads(r, rows, full) THEN Parts \ Queried(r) ELSE {}

Covers(r, p, rows, full, now) ==
  \/ p \in ToQuery(r, rows, full)
  \/ p \in Queried(r) /\ Same(p, r.snap, now)
Covered(p) == \E g \in Handlers : Covers(request[g], p, live, whole, Now)

\* Somebody is going to hand over part p as it is, and is either yet to begin its
\* build or began it when h was building: h comes in before it, or late.
Heeded(h, p) ==
  \E g \in Handlers :
    /\ Covers(request[g], p, live, whole, Now)
    /\ request[g].at \in InReload => h \in request[g].older

\* What the scheduler runs is out of date in some part only if a request is going
\* to hand a later one over, or a later one has been overtaken.  What a build has
\* read is out of date only if somebody began, or will begin, after it.
HandedOver ==
  /\ DOMAIN applied = Parts
  /\ \A h \in Handlers : DOMAIN request[h].snap = Parts
  /\ \A p \in Parts :
       /\ outrun \/ Same(p, applied, Now) \/ Covered(p)
       /\ \A h \in Handlers : p \in Queried(request[h]) /\ ~request[h].late
            => Same(p, request[h].snap, Now) \/ Heeded(h, p)

LEMMA NoSnapshotParts == DOMAIN NoSnapshot = Parts /\ DOMAIN Now = Parts /\ DOMAIN BuildNow = Parts
  BY DEF NoSnapshot, Now, BuildNow, Parts

\* Screens that others are on stay covered if no screen comes or goes.
LEMMA CoverStays ==
  ASSUME NEW r, Going(r) => Fits(r), NEW p \in Parts, NEW rows, NEW full, NEW rows2, NEW full2, NEW now,
         rows2 \cap Screens = rows \cap Screens, full2 \cap Screens = full \cap Screens
  PROVE  Covers(r, p, rows2, full2, now) <=> Covers(r, p, rows, full, now)
<1>1. r.at \in {"seed", "insert", "reread", "drop"} => r.on \in Screens
  BY DEF Going, Fits
<1> QED BY <1>1 DEF Covers, ToQuery, Reloads

\* A step that is no part of a reload.
Elsewhere(h) ==
  /\ UNCHANGED <<applied, outrun>>
  /\ \A g \in Handlers \ {h} : request'[g] = request[g]
  /\ DOMAIN request'[h].snap = Parts /\ Queried(request'[h]) = {}

\* Whoever has changed what a snapshot shows has the whole reload before it.
LEMMA PromiseHandsOver ==
  ASSUME HandedOver, NEW h \in Handlers, Elsewhere(h), Reloads(request[h], live, whole)'
  PROVE  HandedOver'
<1>1. request'[h].at \notin InReload
  BY DEF Elsewhere, Queried, InReload, Parts
<1>2. \A p \in Parts : Covers(request'[h], p, live', whole', Now')
  BY DEF Covers, ToQuery, Elsewhere
<1>3. \A p \in Parts : Covered(p)' /\ \A k \in Handlers : Heeded(k, p)'
  BY <1>1, <1>2 DEF Covered, Heeded
<1> QED BY <1>3 DEF HandedOver, Elsewhere

\* Whoever has not changed it was not going to hand it over either.
LEMMA UnseenHandsOver ==
  ASSUME HandedOver, RequestTypes, NEW h \in Handlers, Elsewhere(h),
         UNCHANGED <<Now, live \cap Screens, whole \cap Screens>>,
         ~Reloads(request[h], live, whole)
  PROVE  HandedOver'
<1>1. Queried(request[h]) = {} /\ \A p \in Parts : ~Covers(request[h], p, live, whole, Now)
  BY DEF Reloads, Queried, Covers, ToQuery, InReload
<1>2. ASSUME NEW p \in Parts, NEW g \in Handlers, Covers(request[g], p, live, whole, Now)
      PROVE  request'[g] = request[g] /\ Covers(request'[g], p, live', whole', Now')
  <2>1. g # h /\ request'[g] = request[g] /\ (Going(request[g]) => Fits(request[g]))
    BY <1>1, <1>2 DEF Elsewhere, RequestTypes, Typed
  <2>2. Covers(request[g], p, live', whole', Now')
    BY <1>2, <2>1, CoverStays
  <2> QED BY <2>1, <2>2
<1>3. ASSUME NEW p \in Parts
      PROVE  outrun' \/ Same(p, applied', Now') \/ Covered(p)'
  BY <1>2 DEF HandedOver, Elsewhere, Covered
<1>4. ASSUME NEW p \in Parts, NEW k \in Handlers, p \in Queried(request'[k]), ~request'[k].late
      PROVE  Same(p, request'[k].snap, Now') \/ Heeded(k, p)'
  <2>1. k # h /\ request'[k] = request[k]
    BY <1>4 DEF Elsewhere
  <2> QED BY <1>2, <1>4, <2>1 DEF HandedOver, Heeded
<1> QED BY <1>3, <1>4 DEF HandedOver, Elsewhere

LEMMA ToElsewhere ==
  ASSUME HandedOver, RequestTypes, NEW h \in Handlers, NEW place \in Places \ InReload, To(h, place),
         UNCHANGED <<applied, outrun>>
  PROVE  /\ Elsewhere(h) /\ request'[h].at = place
         /\ place # "done" => request'[h].on = request[h].on
<1> DEFINE q == IF place = "done" THEN Done ELSE [request[h] EXCEPT !.at = place]
<1>1. request'[h] = q /\ \A g \in Handlers \ {h} : request'[g] = request[g]
  BY DEF To, RequestTypes
<1>2. DOMAIN request[h] = DOMAIN Idle /\ DOMAIN request[h].snap = Parts
  BY DEF RequestTypes, Typed, HandedOver
<1>3. /\ q.at = place /\ DOMAIN q.snap = Parts
      /\ place # "done" => q.on = request[h].on
  BY <1>2, NoSnapshotParts DEF Done, Idle
<1> HIDE DEF q
<1>4. Queried(q) = {}
  BY <1>3 DEF Queried, InReload
<1> QED BY <1>1, <1>3, <1>4 DEF Elsewhere

LEMMA StartHandsOver ==
  ASSUME HandedOver, RequestTypes, NEW h \in Handlers, Start(h)
  PROVE  HandedOver'
<1>1. PICK r : Begin(h, r) /\ r.at \in {"check", "commit"} /\ r.snap = NoSnapshot
  <2>1. ASSUME NEW op, NEW on, NEW names, NEW extra
        PROVE  Request(op, on, names, extra).at = "check" /\ Request(op, on, names, extra).snap = NoSnapshot
    BY DEF Request, Idle
  <2>2. CASE StartCreate(h)
    BY <2>1, <2>2 DEF StartCreate
  <2>3. CASE StartPatch(h)
    <3>1. PICK o, n : Begin(h, [Request("patch", o, n[1], n[2]) EXCEPT !.row = edits[o]])
      BY <2>3 DEF StartPatch
    <3> DEFINE q == [Request("patch", o, n[1], n[2]) EXCEPT !.row = edits[o]]
    <3>2. q.at = "check" /\ q.snap = NoSnapshot
      BY DEF Request, Idle
    <3> QED BY <3>1, <3>2
  <2>4. CASE StartProbe(h)
    <3>1. PICK s : Begin(h, [Request("probe", s, refs[s], spare[s]) EXCEPT
                               !.row = edits[s], !.path = (s \in whole), !.at = "commit"])
      BY <2>4 DEF StartProbe
    <3> DEFINE q == [Request("probe", s, refs[s], spare[s]) EXCEPT
                       !.row = edits[s], !.path = (s \in whole), !.at = "commit"]
    <3>2. q.at = "commit" /\ q.snap = NoSnapshot
      BY DEF Request, Idle
    <3> QED BY <3>1, <3>2
  <2>5. CASE StartDelete(h)
    BY <2>1, <2>5 DEF StartDelete
  <2>6. CASE StartTour(h)
    <3>1. PICK names, enable, order :
            Begin(h, [Request("tour", Tour, names, {}) EXCEPT !.order = order, !.enable = enable])
      BY <2>6 DEF StartTour
    <3> DEFINE q == [Request("tour", Tour, names, {}) EXCEPT !.order = order, !.enable = enable]
    <3>2. q.at = "check" /\ q.snap = NoSnapshot
      BY DEF Request, Idle
    <3> QED BY <3>1, <3>2
  <2> QED BY <2>2, <2>3, <2>4, <2>5, <2>6 DEF Start
<1>2. /\ UNCHANGED <<db, applied, outrun>> /\ ~InFlight(h) /\ request'[h] = r
      /\ \A g \in Handlers \ {h} : request'[g] = request[g]
  BY <1>1, BeginSets
<1>3. Queried(r) = {}
  BY <1>1 DEF Queried
<1>4. Elsewhere(h)
  BY <1>1, <1>2, <1>3, NoSnapshotParts DEF Elsewhere
<1>5. ~Reloads(request[h], live, whole)
  BY <1>2 DEF InFlight, Reloads, InReload
<1> QED
  BY <1>2, <1>4, <1>5, UnseenHandsOver DEF db, Now, ScreensQuery, SourcesQuery

LEMMA CheckHandsOver ==
  ASSUME HandedOver, RequestTypes, NEW h \in Handlers, Check(h)
  PROVE  HandedOver'
<1>0. request[h].at = "check" /\ UNCHANGED <<db, applied, outrun>>
  BY DEF Check, CheckNames, CheckTour, CheckUnused, Checked, Refuse, history
<1>1. Elsewhere(h)
  <2>1. CASE To(h, "commit") \/ To(h, "done")
    BY <1>0, <2>1, ToElsewhere DEF Places, InReload
  <2>2. CASE CheckNames(h) /\ ~To(h, "done")
    <3> DEFINE r == request[h]
               q == [r EXCEPT !.at = "commit", !.path = r.on \in Sources => r.names \subseteq whole]
    <3>1. request'[h] = q /\ \A g \in Handlers \ {h} : request'[g] = request[g]
      BY <2>2 DEF CheckNames, Refuse, RequestTypes
    <3>2. DOMAIN r = DOMAIN Idle /\ DOMAIN r.snap = Parts
      BY DEF RequestTypes, Typed, HandedOver
    <3>3. q.at = "commit" /\ DOMAIN q.snap = Parts
      BY <3>2 DEF Idle
    <3> HIDE DEF q
    <3>4. Queried(q) = {}
      BY <3>3 DEF Queried
    <3> QED BY <1>0, <3>1, <3>3, <3>4 DEF Elsewhere
  <2> QED BY <2>1, <2>2 DEF Check, CheckTour, CheckUnused, Checked, Refuse
<1>2. ~Reloads(request[h], live, whole)
  BY <1>0 DEF Reloads, InReload
<1> QED
  BY <1>0, <1>1, <1>2, UnseenHandsOver DEF db, Now, ScreensQuery, SourcesQuery

\* What a snapshot does not show: uploads, and entries of screens that are gone.
LEMMA ShownStays ==
  ASSUME TypeInv, live' \cap Screens = live \cap Screens, live' \cap Sources = live \cap Sources,
         \A o \in Screens \cup Sources \cup {Config} : refs'[o] = refs[o] /\ edits'[o] = edits[o],
         \A e : e[2] \in live \cap Screens => (e \in entries' <=> e \in entries),
         enabled' = enabled
  PROVE  Now' = Now
<1>1. ScreensQuery' = ScreensQuery
  BY DEF ScreensQuery
<1>2. SourcesQuery' = SourcesQuery
  BY DEF SourcesQuery
<1>3. {e \in entries' : e[2] \in live' \cap Screens} = {e \in entries : e[2] \in live \cap Screens}
  OBVIOUS
<1> QED BY <1>1, <1>2, <1>3 DEF Now

LEMMA CommitHandsOver ==
  ASSUME HandedOver, TypeInv, NEW h \in Handlers, Commit(h)
  PROVE  HandedOver'
<1> DEFINE r == request[h]
           x == r.on
<1>0. RequestTypes /\ RowTypes /\ (Going(r) => Fits(r))
  BY DEF TypeInv, RequestTypes, Typed
<1>1. ASSUME NEW place \in {"reload", "seed", "insert", "reread", "drop"}, To(h, place),
             UNCHANGED <<applied, outrun>>,
             place \in {"seed", "insert", "reread"} => x \in live',
             place = "drop" => x \notin whole'
      PROVE  HandedOver'
  <2>1. Elsewhere(h) /\ request'[h].at = place /\ request'[h].on = x
    BY <1>0, <1>1, ToElsewhere DEF Places, InReload
  <2> QED BY <1>1, <2>1, PromiseHandsOver DEF Reloads, InReload
<1>2. ASSUME NEW place \in {"store", "insert", "reread", "done"}, To(h, place),
             UNCHANGED <<applied, outrun, Now, live \cap Screens, whole \cap Screens>>,
             r.at \in {"commit", "store"} \/ (r.at = "drop" /\ x \in whole)
               \/ (r.at \in {"seed", "insert", "reread"} /\ x \notin live)
      PROVE  HandedOver'
  <2>1. Elsewhere(h)
    BY <1>0, <1>2, ToElsewhere DEF Places, InReload
  <2>2. ~Reloads(r, live, whole)
    BY <1>2 DEF Reloads, InReload
  <2> QED BY <1>0, <1>2, <2>1, <2>2, UnseenHandsOver
<1>3. UNCHANGED <<db, applied, history>> =>
        UNCHANGED <<applied, outrun, Now, live \cap Screens, whole \cap Screens>>
  BY DEF db, history, Now, ScreensQuery, SourcesQuery
<1>4. \A o \in Uploads : o \notin Screens /\ o \notin Sources /\ o # Config
  BY WhoNamesWhat
<1>5. CASE CommitSave(h)
  <2>1. CASE Refuse(h)
    BY <1>2, <1>3, <1>5, <2>1 DEF CommitSave, Refuse
  <2>2. CASE ~Refuse(h)
    <3>1. /\ To(h, After(r)) /\ UNCHANGED <<applied, outrun, entries, enabled>>
          /\ r.at = "commit" /\ live' = live \cup {x}
          /\ whole' = whole \cup {x} \/ whole' = whole \ {x}
          /\ refs' = [refs EXCEPT ![x] = r.names]
          /\ \E e : edits' = [edits EXCEPT ![x] = e]
      BY <1>5, <2>2 DEF CommitSave
    <3>2. CASE x \in Uploads
      <4>1. After(r) = "store"
        BY <1>4, <3>2 DEF After
      <4>2. \A o \in Screens \cup Sources \cup {Config} : refs'[o] = refs[o] /\ edits'[o] = edits[o]
        BY <1>0, <1>4, <3>1, <3>2 DEF RowTypes, Objects
      <4>3. /\ live' \cap Screens = live \cap Screens /\ live' \cap Sources = live \cap Sources
            /\ whole' \cap Screens = whole \cap Screens
        BY <1>4, <3>1, <3>2
      <4>4. Now' = Now
        BY <3>1, <4>2, <4>3, ShownStays
      <4> QED BY <1>2, <3>1, <4>1, <4>3, <4>4
    <3>3. CASE x \notin Uploads
      <4>1. After(r) \in {"seed", "reread", "reload"}
        BY <3>3 DEF After
      <4> QED BY <1>1, <3>1, <4>1
    <3> QED BY <3>2, <3>3
  <2> QED BY <2>1, <2>2
<1>6. CASE StoreFile(h)
  <2>1. /\ r.at = "store" /\ To(h, "done") /\ UNCHANGED <<refs, entries, enabled, applied, outrun>>
        /\ x \in Uploads
    BY <1>0, <1>6 DEF StoreFile, history, Going, Fits
  <2>2. /\ live' \cap Screens = live \cap Screens /\ live' \cap Sources = live \cap Sources
        /\ whole' \cap Screens = whole \cap Screens
        /\ \A o \in Screens \cup Sources \cup {Config} : edits'[o] = edits[o]
    BY <1>0, <1>4, <1>6, <2>1 DEF StoreFile, RowTypes, Objects
  <2>3. Now' = Now
    BY <2>1, <2>2, ShownStays
  <2> QED BY <1>2, <2>1, <2>2, <2>3
<1>7. CASE CommitTour(h)
  BY <1>1, <1>7 DEF CommitTour, history
<1>8. CASE CommitDelete(h)
  <2>1. r.at = "commit" /\ whole' = whole \ {x} /\ refs' = [refs EXCEPT ![x] = {}]
        /\ UNCHANGED <<applied, outrun, entries, enabled>>
    BY <1>8 DEF CommitDelete, Erase, history
  <2>2. CASE x \in Uploads /\ x \notin Screens
    <3>1. /\ To(h, "done") /\ live' = live \ {x} /\ edits' = [edits EXCEPT ![x] = @ \cup {h}]
      BY <1>8, <2>2 DEF CommitDelete, Erase
    <3>2. \A o \in Screens \cup Sources \cup {Config} : refs'[o] = refs[o] /\ edits'[o] = edits[o]
      BY <1>0, <1>4, <2>1, <2>2, <3>1 DEF RowTypes, Objects
    <3>3. /\ live' \cap Screens = live \cap Screens /\ live' \cap Sources = live \cap Sources
          /\ whole' \cap Screens = whole \cap Screens
      BY <1>4, <2>1, <2>2, <3>1
    <3>4. Now' = Now
      BY <2>1, <3>2, <3>3, ShownStays
    <3> QED BY <1>2, <2>1, <3>1, <3>3, <3>4
  <2>3. CASE x \in Screens
    BY <1>1, <1>8, <2>1, <2>3 DEF CommitDelete
  <2>4. CASE x \notin Uploads /\ x \notin Screens
    BY <1>1, <1>8, <2>1, <2>4 DEF CommitDelete
  <2> QED BY <2>2, <2>3, <2>4
<1>9. CASE DropScreen(h)
  <2>1. CASE x \in whole
    BY <1>2, <1>3, <1>9, <2>1 DEF DropScreen, Refuse
  <2>2. CASE x \notin whole
    BY <1>1, <1>9, <2>2 DEF DropScreen, Erase
  <2> QED BY <2>1, <2>2
<1>10. CASE SeedLook(h)
  <2>1. PICK place \in {"insert", "reread"} : To(h, place)
    BY <1>10 DEF SeedLook
  <2>2. r.at = "seed" /\ UNCHANGED <<db, applied, history>>
    BY <1>10 DEF SeedLook
  <2>3. CASE x \in live
    BY <1>1, <2>1, <2>2, <2>3 DEF db, history
  <2> QED BY <1>2, <1>3, <2>1, <2>2, <2>3
<1>11. CASE SeedInsert(h)
  <2>1. /\ r.at = "insert" /\ To(h, "reread") /\ entries' = entries \cup {<<0, x>>}
        /\ UNCHANGED <<live, whole, refs, edits, enabled, applied, outrun>>
    BY <1>11 DEF SeedInsert, history
  <2>2. CASE x \in live
    BY <1>1, <2>1, <2>2
  <2>3. CASE x \notin live
    <3>1. \A e : e[2] \in live \cap Screens => (e \in entries' <=> e \in entries)
      BY <2>1, <2>3
    <3>2. Now' = Now
      BY <2>1, <3>1, ShownStays
    <3> QED BY <1>2, <2>1, <2>3, <3>2
  <2> QED BY <2>2, <2>3
<1>12. CASE Reread(h)
  <2>1. r.at = "reread" /\ UNCHANGED <<db, applied, history>>
        /\ To(h, IF x \in live THEN "reload" ELSE "done")
    BY <1>12 DEF Reread
  <2>2. CASE x \in live
    BY <1>1, <2>1, <2>2 DEF history
  <2> QED BY <1>2, <1>3, <2>1, <2>2
<1> QED
  BY <1>5, <1>6, <1>7, <1>8, <1>9, <1>10, <1>11, <1>12 DEF Commit

\* A query makes one more part of the snapshot what the rows are.
LEMMA QueryHandsOver ==
  ASSUME HandedOver, RequestTypes, NEW h \in Handlers, NEW part \in Parts,
         NEW from \in InReload \cup {"reload"}, NEW to \in InReload, NEW value, NEW older,
         Query(h, from, to, [Snap(h) EXCEPT ![part] = value], older),
         IF from = "reload" THEN older = {g \in Handlers : Building(g)} ELSE older = Older(h),
         \A r : r.at = to =>
           \A s : s.at = from => Queried(r) = Queried(s) \cup {part},
         \A snap : snap[part] = value => Same(part, snap, Now)
  PROVE  HandedOver'
<1> DEFINE snap == [Snap(h) EXCEPT ![part] = value]
           q == [request[h] EXCEPT !.at = to, !.snap = snap, !.older = older]
<1>0. DOMAIN request[h] = DOMAIN Idle /\ DOMAIN Snap(h) = Parts /\ Snap(h) = request[h].snap
  BY DEF RequestTypes, Typed, HandedOver, Snap
<1>1. DOMAIN snap = Parts /\ snap[part] = value /\ \A p \in Parts \ {part} : snap[p] = Snap(h)[p]
  BY <1>0
<1> HIDE DEF snap
<1>2. /\ q.at = to /\ q.snap = snap /\ q.late = request[h].late /\ q.older = older
  BY <1>0 DEF Idle
<1>3. /\ request[h].at = from /\ request'[h] = q
      /\ \A g \in Handlers \ {h} : request'[g] = request[g]
      /\ UNCHANGED <<live, whole, applied, outrun>> /\ Now' = Now
  BY DEF Query, RequestTypes, db, history, Now, ScreensQuery, SourcesQuery, snap
<1> HIDE DEF q
<1>4. Queried(q) = Queried(request[h]) \cup {part}
  BY <1>2, <1>3
<1>5. Same(part, snap, Now)
  BY <1>1
<1>6. \A p \in Parts \ {part} : Same(p, snap, Now) <=> Same(p, request[h].snap, Now)
  BY <1>0, <1>1 DEF Same, Parts
<1>7. ASSUME NEW p \in Parts, Covers(request[h], p, live, whole, Now)
      PROVE  Covers(q, p, live, whole, Now)
  BY <1>2, <1>4, <1>5, <1>6, <1>7 DEF Covers, ToQuery, Reloads
<1>8. ASSUME NEW p \in Parts, Covered(p)
      PROVE  Covered(p)'
  <2>1. PICK g \in Handlers : Covers(request[g], p, live, whole, Now)
    BY <1>8 DEF Covered
  <2>2. Covers(request'[g], p, live, whole, Now)
    BY <1>3, <1>7, <2>1
  <2> QED BY <1>3, <2>2 DEF Covered
<1>9. ASSUME NEW p \in Parts
      PROVE  outrun' \/ Same(p, applied', Now') \/ Covered(p)'
  BY <1>3, <1>8 DEF HandedOver
<1>10. ASSUME NEW p \in Parts, NEW k \in Handlers, p \in Queried(request'[k]), ~request'[k].late
       PROVE  Same(p, request'[k].snap, Now') \/ Heeded(k, p)'
  <2>1. ASSUME p \in Queried(request[k]), Heeded(k, p)
        PROVE  Heeded(k, p)'
    <3>1. PICK g \in Handlers : /\ Covers(request[g], p, live, whole, Now)
                                /\ request[g].at \in InReload => k \in request[g].older
      BY <2>1 DEF Heeded
    <3>2. Covers(request'[g], p, live', whole', Now')
      BY <1>3, <1>7, <3>1
    <3>3. CASE g = h
      <4>1. Building(k)
        BY <2>1 DEF Queried, Building
      <4>2. k \in older
        BY <1>3, <3>1, <3>3, <4>1 DEF Older
      <4> QED BY <1>2, <1>3, <3>2, <3>3, <4>2 DEF Heeded
    <3>4. CASE g # h
      BY <1>3, <3>1, <3>2, <3>4 DEF Heeded
    <3> QED BY <3>3, <3>4
  <2>2. CASE k # h
    BY <1>3, <1>10, <2>1, <2>2 DEF HandedOver
  <2>3. CASE k = h
    <3>1. (p \in Queried(request[h]) /\ ~request[h].late) \/ p = part
      BY <1>2, <1>3, <1>4, <1>10, <2>3
    <3> QED BY <1>2, <1>3, <1>5, <1>6, <2>1, <2>3, <3>1 DEF HandedOver
  <2> QED BY <2>2, <2>3
<1>11. DOMAIN applied' = Parts /\ \A k \in Handlers : DOMAIN request'[k].snap = Parts
  BY <1>1, <1>2, <1>3 DEF HandedOver
<1> QED BY <1>9, <1>10, <1>11 DEF HandedOver

LEMMA ApplyHandsOver ==
  ASSUME HandedOver, RequestTypes, NEW h \in Handlers, Apply(h)
  PROVE  HandedOver'
<1>1. /\ request[h].at = "apply" /\ applied' = request[h].snap /\ request'[h] = Done
      /\ \A g \in Handlers \ {h} :
           request'[g] = [request[g] EXCEPT !.late = @ \/ (Building(g) /\ g \in Older(h))]
      /\ outrun' = (outrun \/ request[h].late)
      /\ UNCHANGED <<live, whole>> /\ Now' = Now
  BY DEF Apply, db, Now, ScreensQuery, SourcesQuery
<1>2. ASSUME NEW g \in Handlers \ {h}
      PROVE  /\ request'[g].at = request[g].at /\ request'[g].on = request[g].on
             /\ request'[g].snap = request[g].snap /\ request'[g].older = request[g].older
             /\ request'[g].late <=> request[g].late \/ (Building(g) /\ g \in Older(h))
             /\ Queried(request'[g]) = Queried(request[g])
             /\ \A p : Covers(request'[g], p, live, whole, Now) <=> Covers(request[g], p, live, whole, Now)
  <2>1. DOMAIN request[g] = DOMAIN Idle
    BY DEF RequestTypes, Typed
  <2>2. /\ request'[g].at = request[g].at /\ request'[g].on = request[g].on
        /\ request'[g].snap = request[g].snap /\ request'[g].older = request[g].older
        /\ request'[g].late <=> request[g].late \/ (Building(g) /\ g \in Older(h))
    <3> DEFINE q == [request[g] EXCEPT !.late = @ \/ (Building(g) /\ g \in Older(h))]
    <3>1. /\ q.at = request[g].at /\ q.on = request[g].on /\ q.snap = request[g].snap
          /\ q.older = request[g].older
      BY <2>1 DEF Idle
    <3>2. q.late <=> request[g].late \/ (Building(g) /\ g \in Older(h))
      BY <2>1, Zenon DEF Idle
    <3>3. request'[g] = q
      BY <1>1
    <3> HIDE DEF q
    <3> QED BY <3>1, <3>2, <3>3
  <2>3. Queried(request'[g]) = Queried(request[g])
    BY <2>2 DEF Queried
  <2> QED BY <2>2, <2>3 DEF Covers, ToQuery, Reloads
<1>3. Queried(request[h]) = Parts /\ Queried(Done) = {} /\ DOMAIN Done.snap = Parts
  BY <1>1, NoSnapshotParts DEF Queried, Done, Idle
<1>4. ASSUME NEW p \in Parts
      PROVE  outrun' \/ Same(p, applied', Now') \/ Covered(p)'
  <2>1. CASE ~request[h].late /\ ~Same(p, request[h].snap, Now)
    <3>1. Covered(p)
      BY <1>3, <2>1 DEF HandedOver, Heeded, Covered
    <3>2. ~Covers(request[h], p, live, whole, Now)
      BY <1>3, <2>1 DEF Covers, ToQuery
    <3>3. PICK g \in Handlers \ {h} : Covers(request[g], p, live, whole, Now)
      BY <3>1, <3>2 DEF Covered
    <3>4. Covers(request'[g], p, live', whole', Now')
      BY <1>1, <1>2, <3>3
    <3> QED BY <3>4 DEF Covered
  <2> QED BY <1>1, <2>1
<1>5. ASSUME NEW p \in Parts, NEW k \in Handlers, p \in Queried(request'[k]), ~request'[k].late
      PROVE  Same(p, request'[k].snap, Now') \/ Heeded(k, p)'
  <2>1. k # h /\ p \in Queried(request[k])
    BY <1>1, <1>2, <1>3, <1>5
  <2>2. Building(k)
    BY <2>1 DEF Queried, Building
  <2>3. ~request[k].late /\ k \notin Older(h)
    BY <1>2, <1>5, <2>1, <2>2
  <2>4. CASE Same(p, request[k].snap, Now)
    BY <1>1, <1>2, <2>1, <2>4
  <2>5. CASE Heeded(k, p)
    <3>1. PICK g \in Handlers : /\ Covers(request[g], p, live, whole, Now)
                                /\ request[g].at \in InReload => k \in request[g].older
      BY <2>5 DEF Heeded
    <3>2. g # h
      BY <1>1, <2>3, <3>1 DEF InReload, Older
    <3>3. Covers(request'[g], p, live', whole', Now')
      BY <1>1, <1>2, <3>1, <3>2
    <3> QED BY <1>2, <3>1, <3>2, <3>3 DEF Heeded
  <2> QED BY <2>1, <2>3, <2>4, <2>5 DEF HandedOver
<1>6. DOMAIN applied' = Parts /\ \A k \in Handlers : DOMAIN request'[k].snap = Parts
  BY <1>1, <1>2, <1>3 DEF HandedOver
<1> QED BY <1>4, <1>5, <1>6 DEF HandedOver

LEMMA ReloadHandsOver ==
  ASSUME HandedOver, RequestTypes, NEW h \in Handlers, Reload(h)
  PROVE  HandedOver'
<1>0. DOMAIN Snap(h) = Parts
  BY DEF HandedOver, Snap
<1>1. CASE QueryConfig(h)
  <2>1. Query(h, "reload", "tour", [Snap(h) EXCEPT !["config"] = edits[Config]],
              {g \in Handlers : Building(g)})
    BY <1>1 DEF QueryConfig
  <2>2. \A r, s : r.at = "tour" /\ s.at = "reload" => Queried(r) = Queried(s) \cup {"config"}
    BY DEF Queried, Parts
  <2>3. ASSUME NEW snap, snap["config"] = edits[Config]
        PROVE  Same("config", snap, Now)
    BY <2>3 DEF Same, Now
  <2>4. "config" \in Parts /\ "reload" \in InReload \cup {"reload"} /\ "tour" \in InReload
    BY DEF Parts, InReload
  <2> QED BY <2>1, <2>2, <2>3, <2>4, QueryHandsOver
<1>2. CASE QueryTour(h)
  <2>1. Query(h, "tour", "screens", [Snap(h) EXCEPT !["tour"] = TourQuery], Older(h))
    BY <1>2 DEF QueryTour
  <2>2. ASSUME NEW snap, snap["tour"] = TourQuery
        PROVE  Same("tour", snap, Now)
    BY <2>2 DEF Same, Now, TourQuery, ScreensQuery
  <2>3. \A r, s : r.at = "screens" /\ s.at = "tour" => Queried(r) = Queried(s) \cup {"tour"}
    BY DEF Queried
  <2>4. "tour" \in Parts /\ "tour" \in InReload \cup {"reload"} /\ "screens" \in InReload
    BY DEF Parts, InReload
  <2> QED BY <2>1, <2>2, <2>3, <2>4, QueryHandsOver
<1>3. CASE QueryScreens(h)
  <2>1. Query(h, "screens", "sources", [Snap(h) EXCEPT !["screens"] = ScreensQuery],
              Older(h))
    BY <1>3 DEF QueryScreens
  <2>2. \A r, s : r.at = "sources" /\ s.at = "screens" => Queried(r) = Queried(s) \cup {"screens"}
    BY DEF Queried, Parts
  <2>3. ASSUME NEW snap, snap["screens"] = ScreensQuery
        PROVE  Same("screens", snap, Now)
    BY <2>3 DEF Same, Now
  <2>4. "screens" \in Parts /\ "screens" \in InReload \cup {"reload"} /\ "sources" \in InReload
    BY DEF Parts, InReload
  <2> QED BY <2>1, <2>2, <2>3, <2>4, QueryHandsOver
<1>4. CASE QuerySources(h)
  <2>1. Query(h, "sources", "apply", [Snap(h) EXCEPT !["sources"] = SourcesQuery],
              Older(h))
    BY <1>4 DEF QuerySources
  <2>2. \A r, s : r.at = "apply" /\ s.at = "sources" => Queried(r) = Queried(s) \cup {"sources"}
    BY DEF Queried, Parts
  <2>3. ASSUME NEW snap, snap["sources"] = SourcesQuery
        PROVE  Same("sources", snap, Now)
    BY <2>3 DEF Same, Now
  <2>4. "sources" \in Parts /\ "sources" \in InReload \cup {"reload"} /\ "apply" \in InReload
    BY DEF Parts, InReload
  <2> QED BY <2>1, <2>2, <2>3, <2>4, QueryHandsOver
<1> QED BY <1>1, <1>2, <1>3, <1>4, ApplyHandsOver DEF Reload

LEMMA HandedOverStarts == Init => HandedOver
<1> SUFFICES ASSUME Init
             PROVE  HandedOver
  OBVIOUS
<1>1. applied = BuildNow /\ \A h \in Handlers : request[h] = Idle
  BY DEF Init
<1>2. Queried(Idle) = {} /\ Idle.snap = NoSnapshot
  BY DEF Queried, Idle
<1>3. ASSUME NEW p \in Parts
      PROVE  Same(p, applied, Now)
  BY <1>1, <1>3 DEF Same, BuildNow, Now, TourQuery, ScreensQuery, Parts
<1> QED BY <1>1, <1>2, <1>3, NoSnapshotParts DEF HandedOver

LEMMA HandedOverStep ==
  ASSUME HandedOver, TypeInv, [Next]_vars
  PROVE  HandedOver'
<1>1. CASE Next
  BY <1>1, StartHandsOver, CheckHandsOver, CommitHandsOver, ReloadHandsOver DEF Next, TypeInv
<1>2. CASE UNCHANGED vars
  <2>1. UNCHANGED <<Now, live, whole, request, applied, outrun>>
    BY <1>2 DEF vars, db, history, Now, ScreensQuery, SourcesQuery
  <2> QED BY <2>1 DEF HandedOver, Covered, Heeded
<1> QED BY <1>1, <1>2

LEMMA HandedOverHolds == Spec => []HandedOver
<1>1. HandedOver /\ TypeInv /\ [Next]_vars => HandedOver'
  BY HandedOverStep
<1> QED BY <1>1, HandedOverStarts, TypeInvHolds, PTL DEF Spec

\* Once no request is in flight, the scheduler runs what the database says of every
\* table, whichever of the queries of the reloads saw which of the commits, and
\* however many builds overlapped, unless a snapshot was applied after one whose
\* build began later.
THEOREM AppliedIsAlwaysCurrent == Spec => []AppliedIsCurrent
<1>1. HandedOver /\ TypeInv => AppliedIsCurrent
  <2> SUFFICES ASSUME HandedOver, TypeInv, \A h \in Handlers : ~InFlight(h), ~outrun
               PROVE  [applied EXCEPT !.tour.entries = {e \in @ : e[2] \in DOMAIN applied.screens}]
                        = [BuildNow EXCEPT !.tour.entries = {e \in @ : e[2] \in DOMAIN BuildNow.screens}]
    BY DEF AppliedIsCurrent
  <2>1. \A p \in Parts : Same(p, applied, Now)
    <3>1. ASSUME NEW p \in Parts
          PROVE  ~Covered(p)
      BY DEF InFlight, Covered, Covers, ToQuery, Reloads, Queried, InReload
    <3> QED BY <3>1 DEF HandedOver
  <2>2. /\ applied.config = Now.config /\ applied.screens = Now.screens
        /\ applied.sources = Now.sources
        /\ DOMAIN applied.tour = {"enabled", "entries"} /\ applied.tour.enabled = enabled
        /\ {e \in applied.tour.entries : e[2] \in DOMAIN Now.screens} = Now.tour.entries
    BY <2>1 DEF Same, Parts, Now
  <2>3. /\ Now.config = edits[Config] /\ Now.screens = ScreensQuery /\ Now.sources = SourcesQuery
        /\ DOMAIN Now.screens = live \cap Screens
        /\ Now.tour.entries = {e \in entries : e[2] \in live \cap Screens}
    BY DEF Now, ScreensQuery
  <2> DEFINE mine == [applied EXCEPT !.tour.entries = {e \in @ : e[2] \in DOMAIN applied.screens}]
             theirs == [BuildNow EXCEPT !.tour.entries = {e \in @ : e[2] \in DOMAIN BuildNow.screens}]
  <2>4. /\ DOMAIN mine = Parts /\ mine.config = edits[Config] /\ mine.screens = ScreensQuery
        /\ mine.sources = SourcesQuery
        /\ mine.tour = [applied.tour EXCEPT !.entries = Now.tour.entries]
    BY <2>2, <2>3 DEF HandedOver, Parts
  <2>5. mine.tour = [enabled |-> enabled, entries |-> Now.tour.entries]
    BY <2>2, <2>4
  <2>6. /\ DOMAIN theirs = Parts /\ theirs.config = edits[Config] /\ theirs.screens = ScreensQuery
        /\ theirs.sources = SourcesQuery
        /\ theirs.tour = [enabled |-> enabled, entries |-> Now.tour.entries]
    BY <2>3 DEF BuildNow, TourQuery, Parts
  <2>7. mine = [p \in Parts |-> mine[p]] /\ theirs = [p \in Parts |-> theirs[p]]
    BY <2>4, <2>6
  <2>8. ASSUME NEW p \in Parts
        PROVE  mine[p] = theirs[p]
    BY <2>4, <2>5, <2>6 DEF Parts
  <2> HIDE DEF mine, theirs
  <2>9. mine = theirs
    BY <2>7, <2>8
  <2> QED BY <2>9 DEF mine, theirs
<1> QED BY <1>1, TypeInvHolds, HandedOverHolds, PTL
=============================================================================
