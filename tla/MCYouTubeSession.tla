-------------------------- MODULE MCYouTubeSession --------------------------
(***************************************************************************)
(* The sources, hosts and events YouTubeSession is checked with.  Faults of *)
(* a worker, credentials and the provider are taken one or two at a time.  *)
(***************************************************************************)
EXTENDS YouTubeSession

Policy(kind, allowSW, hardware) ==
  [kind |-> kind, useHW |-> TRUE, allowSW |-> allowSW, hardware |-> hardware,
   software |-> TRUE]

\* A codec only the hardware of the host knows.
Exotic == [Policy("camera", TRUE, "refuses") EXCEPT !.software = FALSE]

Budget(cookies, server, panic, wedge) ==
  [e \in Kinds |-> CASE e = "cookies" -> cookies [] e = "server" -> server
                     [] e = "panic" -> panic [] e = "wedge" -> wedge]

Scenario(p, requested, events) ==
  [policy |-> p, requested |-> requested, events |-> events]

MCScenarios ==
  {Scenario(Policy("youtube", TRUE, "mute"), "off", Budget(1, 0, 0, 1)),
   Scenario(Policy("youtube", TRUE, "mute"), "off", Budget(0, 0, 1, 1)),
   Scenario(Policy("camera", TRUE, "refuses"), "off", Budget(0, 0, 1, 1)),
   Scenario(Exotic, "off", Budget(0, 0, 1, 0)),
   Scenario(Policy("file", FALSE, "works"), "off", Budget(1, 0, 1, 1)),
   Scenario(Policy("youtube", TRUE, "works"), "off", Budget(2, 0, 0, 0)),
   Scenario(Policy("youtube", TRUE, "absent"), "auto", Budget(0, 2, 0, 0)),
   Scenario(Policy("youtube", TRUE, "absent"), "managed", Budget(1, 0, 0, 0)),
   Scenario(Policy("youtube", FALSE, "absent"), "managed", Budget(0, 1, 0, 0))}

\* A YouTube source whose network comes and goes, and nothing else.
MCFlaky == {Scenario(Policy("youtube", TRUE, "absent"), "off", Budget(0, 0, 0, 0))}
=============================================================================
