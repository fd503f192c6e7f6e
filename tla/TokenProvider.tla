--------------------------- MODULE TokenProvider ---------------------------
(***************************************************************************)
(* The supervisor of the PO token server: source/youtube/pot/provider.go.  *)
(*                                                                         *)
(* Two goroutines share the flag running.  One polls the server every   *)
(* pingInterval and marks the provider up or down; the other, in managed   *)
(* mode, runs the server process, marks the provider down when it exits    *)
(* and starts it again after a backoff.  Marking the provider up when it   *)
(* was down calls onReady, on the polling goroutine and outside the lock.  *)
(*                                                                         *)
(* Ports, directories, versions and the text of the last error are left    *)
(* out.  A ping is two steps, the answer and what poll makes of it, so the *)
(* server may die in between.                                              *)
(***************************************************************************)
EXTENDS Naturals

VARIABLES
  mode,      \* Resolved.Mode; "stuck" is managed with an Err: polled, not run
  answering, \* the server would answer a ping
  process,   \* runManagedLoop
  poll,      \* runHealth
  running    \* Provider.running

potVars == <<mode, answering, process, poll, running>>

\* Resolve: auto becomes managed when deno and the server directory are there,
\* and external -- never off -- when they are not.
ResolveMode(requested, ready) ==
  CASE requested \in {"managed", "auto"} /\ ready -> "managed"
    [] requested = "managed" /\ ~ready -> "stuck"
    [] requested = "auto" /\ ~ready -> "external"
    [] requested = "external" -> "external"
    [] OTHER -> "off"

PotInit(requested) ==
  /\ \E ready \in BOOLEAN : mode = ResolveMode(requested, ready)
  /\ answering \in IF mode \in {"managed", "off"} THEN {FALSE} ELSE BOOLEAN
  /\ process = IF mode = "managed" THEN "backoff" ELSE "none"
  /\ poll = IF mode = "off" THEN "stopped" ELSE "idle"
  /\ running = FALSE

-----------------------------------------------------------------------------
(* runManagedLoop.                                                         *)

Process(to) == process' = to /\ UNCHANGED <<mode, poll>>

\* A backoff is over; the first start has none.
Launch ==
  /\ process = "backoff"
  /\ Process("running") /\ UNCHANGED <<answering, running>>

\* The server begins to answer: the managed one, or one started by someone else.
ServerAnswers ==
  /\ ~answering /\ mode # "off" /\ process \in {"none", "running"}
  /\ answering' = TRUE
  /\ UNCHANGED <<mode, process, poll, running>>

\* It hangs, or is not there any more; a managed process may exit with it.
ServerStops(exits) ==
  /\ answering
  /\ answering' = FALSE
  /\ exits => process = "running"
  /\ Process(IF exits THEN "exited" ELSE process)
  /\ UNCHANGED running

Exited ==
  /\ process = "exited"
  /\ Process("backoff") /\ running' = FALSE /\ UNCHANGED answering

-----------------------------------------------------------------------------
(* runHealth.                                                              *)

Poll(to) == poll' = to /\ UNCHANGED <<mode, answering, process>>

Ping ==
  /\ poll = "idle"
  /\ Poll(IF answering THEN "answered" ELSE "unanswered")
  /\ UNCHANGED running

\* Mutant: a failed poll sets the error and nothing else.
PollErrorOnly == poll = "unanswered" /\ Poll("idle") /\ UNCHANGED running

PollMarkDown == poll = "unanswered" /\ Poll("idle") /\ running' = FALSE

\* Mutant: nobody is told.
MarkUpQuietly == poll = "answered" /\ Poll("idle") /\ running' = TRUE

\* Only a provider that was down is news: "ready" is where onReady is called.
MarkUp ==
  /\ poll = "answered"
  /\ Poll(IF running THEN "idle" ELSE "ready")
  /\ running' = TRUE

ReadyDelivered == poll = "ready" /\ Poll("idle") /\ UNCHANGED running

ProviderStep == Launch \/ Exited \/ Ping \/ PollMarkDown \/ MarkUp

PotTypeOK ==
  /\ mode \in {"off", "managed", "stuck", "external"}
  /\ answering \in BOOLEAN /\ running \in BOOLEAN
  /\ process \in {"none", "running", "exited", "backoff"}
  /\ poll \in {"idle", "answered", "unanswered", "ready", "stopped"}

=============================================================================
