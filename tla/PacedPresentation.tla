-------------------------- MODULE PacedPresentation --------------------------
(***************************************************************************)
(* Presentation of an undisturbed stream: frames arrive exactly at the     *)
(* stream's cadence (what ingest/pace.go delivers) and every refresh comes *)
(* on time, so nothing here can be blamed on jitter or on a stall.         *)
(***************************************************************************)
EXTENDS Presentation

\* Frame n + 1 arrives n cadences after the first one.
ArrivalOfNext == LET c == CHOOSE c \in Cadences : TRUE IN offered * c

\* The loop runs one refresh before the moment its frame appears: when Refresh
\* is taken the wall clock reads the old value of now.
PacedNext ==
  \/ step = "rest" /\ Decode /\ ArrivalOfNext <= now /\ media'[offered'] = ArrivalOfNext
  \/ Refresh /\ ArrivalOfNext > now
  \/ Sample /\ step # "rest"

PacedSpec == Init /\ [][PacedNext]_vars

\* present.go on presentLead: "stays inside QueueDepth for any frame rate up to
\* 120fps" -- the lead a clock is anchored with never overflows the queue.
LeadStaysInsideQueue == drops = 0
=============================================================================
