---------------------------- MODULE DecodeWorker ----------------------------
(***************************************************************************)
(* One decode worker: RunWorker and decodeSession of ingest/worker.go, and *)
(* OpenVideo and Close of ingest/media.go.                                 *)
(*                                                                         *)
(* A worker retries for as long as it is not cancelled: it resolves a URL, *)
(* opens it with a hardware or a software decoder, decodes until something *)
(* ends the session, closes it, and waits.  The frames themselves, their   *)
(* pacing and their conversion are not here; a session remembers whether   *)
(* it has published one, how often the decoder refused to give one, and    *)
(* whether its time is up.  Outcomes of yt-dlp, of the network and of the  *)
(* drivers are chosen freely, within what the policy says of the hardware. *)
(*                                                                         *)
(* The module has no specification of its own: module YouTubeSession says  *)
(* who cancels a worker, who starts the next one, and what it resolves.    *)
(***************************************************************************)
EXTENDS Naturals

CONSTANTS
  MaxResolveFailures,  \* 5 in the code
  MaxAttempt           \* bound of the model: attempts are counted up to here

ASSUME WorkerAssumption ==
  /\ MaxResolveFailures \in Nat \ {0} /\ MaxAttempt \in Nat \ {0}

\* WorkerConfig: what the source and its host are like.  hardware is what becomes
\* of a session that wants it: no path for the codec, a decoder that will not
\* open, one that opens and never gives a frame, or one that works.  software says
\* whether libav has a decoder of its own for the codec.
AllPolicies == [kind : {"youtube", "file", "camera"}, useHW : BOOLEAN, allowSW : BOOLEAN,
                hardware : {"absent", "refuses", "mute", "works"}, software : BOOLEAN]

VARIABLES
  policy,        \* the worker's policy
  cancelled,     \* its context is done
  at,            \* where RunWorker stands
  useHW,         \* the next session asks for hardware
  attempt,       \* the argument of Backoff
  resolveFails,  \* consecutive resolution failures
  delay,         \* Backoff's argument for the wait it is in
  status,        \* the last status it reported (OnHealth)
  session,       \* decodeSession's locals
  err,           \* what the last session returned
  held,          \* what the session has taken from libav and not freed
  lost,          \* what nobody will free any more
  streak         \* history: resolutions that failed in a row

loopVars == <<useHW, attempt, resolveFails, delay>>
workerVars == <<policy, cancelled, at, loopVars, status, session, err, held, lost, streak>>

\* spent: a silent session has had 8 receive errors, or 8 packets and hwGiveUp;
\* or a session that shows frames has outlived resolvedURLTTL.
Fresh == [usingHW |-> FALSE, published |-> FALSE, spent |-> FALSE]
Ceiling == 2 * MaxResolveFailures

\* What a worker starts with; what was not freed before it stays so.
NewWorker ==
  /\ cancelled' = FALSE /\ at' = "delay" /\ useHW' = policy.useHW
  /\ attempt' = 0 /\ resolveFails' = 0 /\ delay' = 0
  /\ session' = Fresh /\ err' = "nil" /\ streak' = 0
  /\ UNCHANGED <<policy, status, held, lost>>

WorkerInit(p) ==
  /\ policy = p
  /\ cancelled = FALSE /\ at = "delay" /\ useHW = policy.useHW
  /\ attempt = 0 /\ resolveFails = 0 /\ delay = 0 /\ status = "offline"
  /\ session = Fresh /\ err = "nil" /\ held = {} /\ lost = {} /\ streak = 0

Leave ==
  /\ at' = "done" /\ status' = "offline"
  /\ UNCHANGED <<policy, cancelled, loopVars, session, err, held, lost, streak>>

-----------------------------------------------------------------------------
(* The retry loop.                                                         *)

Between == {"delay", "again", "wait"}

\* The wait before the first session or the next is over, or there is none.
Announce ==
  /\ at \in Between /\ ~cancelled
  /\ at' = "resolve"
  /\ status' = CASE resolveFails >= MaxResolveFailures -> "failed"
                 [] resolveFails < MaxResolveFailures /\ attempt = 0 -> "connecting"
                 [] OTHER -> "reconnecting"
  /\ delay' = 0
  /\ UNCHANGED <<policy, cancelled, useHW, attempt, resolveFails, session, err, held, lost,
                 streak>>

\* The context ends a wait, and is looked at before and after every session.
CancelledInLoop == at \in Between \cup {"after"} /\ cancelled /\ Leave

\* Mutant: a success takes one failure back instead of all.
FailuresOneByOne ==
  CASE err = "resolve" -> resolveFails + 1
    [] err = "nil" \/ session.published -> resolveFails - 1
    [] OTHER -> resolveFails

\* Mutant: tripping the circuit breaker starts the count again.
FailuresTripped ==
  CASE err = "resolve" -> (resolveFails + 1) % MaxResolveFailures
    [] err = "nil" \/ session.published -> 0
    [] OTHER -> resolveFails

\* A session that resolves but shows nothing leaves the count as it was.
Failures ==
  CASE err = "resolve" -> resolveFails + 1
    [] err = "nil" \/ session.published -> 0
    [] OTHER -> resolveFails

AtMost(n, max) == IF n > max THEN max ELSE n

FallsBack == err = "hw" /\ policy.allowSW /\ useHW

\* Mutant: the worker goes on asking for hardware.
FallBackToNothing == FallsBack /\ at' = "again" /\ UNCHANGED <<useHW, delay>>

\* Hardware is given up for good, and the next session starts at once.
FallBack == FallsBack /\ useHW' = FALSE /\ at' = "again" /\ UNCHANGED delay

\* What follows a session: fall back, or wait as long as the failures call for.
AfterSession ==
  /\ at = "after" /\ ~cancelled
  /\ LET n == IF session.published THEN 0 ELSE attempt
     IN /\ resolveFails' = AtMost(Failures, MaxResolveFailures)
        /\ \/ FallBack /\ attempt' = n
           \/ /\ ~FallsBack
              /\ at' = "wait"
              /\ delay' = IF Failures >= MaxResolveFailures THEN Ceiling ELSE n
              /\ attempt' = AtMost(n + 1, MaxAttempt)
              /\ UNCHANGED useHW
  /\ session' = Fresh /\ err' = "nil"
  /\ UNCHANGED <<policy, cancelled, status, held, lost, streak>>

\* A panic of the retry loop itself: the source stays down.
Backstop ==
  /\ at = "after"
  /\ at' = "done" /\ status' = "failed"
  /\ UNCHANGED <<policy, cancelled, loopVars, session, err, held, lost, streak>>

-----------------------------------------------------------------------------
(* Opening a session.                                                      *)

Enter(to) ==
  /\ at' = to
  /\ UNCHANGED <<policy, cancelled, loopVars, status, err, lost>>

Resolved ==
  /\ at = "resolve"
  /\ Enter("open") /\ streak' = 0
  /\ UNCHANGED <<session, held>>

\* An exit of OpenVideo: whatever it has taken and does not free is nobody's.
Refuse(why, freed) ==
  /\ at' = "after" /\ err' = why /\ held' = held \ freed
  /\ UNCHANGED <<policy, cancelled, loopVars, status, session, lost>>

ResolveFails ==
  /\ at = "resolve" /\ policy.kind = "youtube"
  /\ Refuse("resolve", {})
  /\ streak' = IF streak < MaxResolveFailures THEN streak + 1 ELSE streak

\* OpenVideo takes one thing after the other, ...
Takes(from, to, taken) ==
  /\ at = from
  /\ Enter(to) /\ held' = held \cup taken
  /\ UNCHANGED streak

\* ... a context, its interrupter, a hook that interrupts it when the worker is
\* cancelled, and the options, ...
AllocFormat ==
  /\ Takes("open", "input", {"format", "interrupter", "hook", "options"})
  /\ UNCHANGED session

\* ... the input itself, whose opening ends the options' life, ...
OpenInput ==
  /\ at = "input"
  /\ Enter("probe") /\ held' = (held \cup {"input"}) \ {"options"}
  /\ UNCHANGED <<session, streak>>

\* ... a video stream and a decoder for it: a hardware one if the worker asks for
\* it and the host has a path for the codec, ...
FindDecoder ==
  /\ Takes("probe", "codec", {})
  /\ session' = [session EXCEPT !.usingHW = useHW /\ policy.hardware # "absent"]
  /\ session'.usingHW \/ policy.software

\* ... a context for it, with the stream's parameters, ...
AllocCodec == Takes("codec", "device", {"codec"}) /\ UNCHANGED session

\* ... a device and options for hardware; V4L2 has no device ...
AttachDevice ==
  /\ \E device \in SUBSET {"device"} :
       Takes("device", "opening", IF session.usingHW THEN device \cup {"options"} ELSE {})
  /\ UNCHANGED session

\* ... and opens it.  decodeSession adds its packet, frames and scaler.
OpenCodec ==
  /\ at = "opening"
  /\ session.usingHW => policy.hardware # "refuses"
  /\ Enter("decode") /\ held' = (held \cup {"frames"}) \ {"options"}
  /\ UNCHANGED <<session, streak>>

Demuxer == {"hook", "input", "format", "interrupter"}

\* The exits before there is a decoder: no context; the URL does not answer; no
\* streams, no video or no decoder, which free the same.
OpenFails ==
  /\ \/ at = "open" /\ Refuse("open", {})
     \/ at = "input" /\ Refuse("open", {"options", "hook", "interrupter", "format"})
     \/ at = "probe" /\ Refuse("open", Demuxer)
  /\ UNCHANGED streak

\* openCodec frees what is its own, and OpenVideo tries a software decoder on the
\* spot, or gives up if that was one or there is none.
SoftwareNext == session.usingHW /\ policy.allowSW /\ policy.software

CodecFails(freed) ==
  /\ \/ /\ SoftwareNext
        /\ Enter("codec") /\ held' = held \ freed
        /\ session' = [session EXCEPT !.usingHW = FALSE]
     \/ ~SoftwareNext /\ Refuse("open", freed \cup Demuxer)
  /\ UNCHANGED streak

\* Mutant: the device outlives a decoder that does not open.
OpenCodecFailsKeeping ==
  \/ at = "codec" /\ CodecFails({})
  \/ at = "device" /\ CodecFails({"codec"})
  \/ at = "opening" /\ CodecFails({"codec", "options"})

\* The exits of openCodec: no context; no parameters or no device; a decoder that
\* does not open.
OpenCodecFails ==
  \/ at = "codec" /\ CodecFails({})
  \/ at = "device" /\ CodecFails({"codec"})
  \/ at = "opening" /\ CodecFails({"codec", "device", "options"})

-----------------------------------------------------------------------------
(* decodeSession's loop.                                                   *)

Silent == session.usingHW /\ ~session.published

GivesUp == Silent /\ session.spent

Recycles == policy.kind = "youtube" /\ session.published /\ session.spent

EndSession(why) ==
  /\ at' = "close" /\ err' = why
  /\ UNCHANGED <<policy, cancelled, loopVars, status, session, held, lost, streak>>

\* The head of the loop: the context, the silent decoder, the expiring URL.
LoopEnds ==
  /\ at = "decode"
  /\ \/ cancelled /\ EndSession("cancelled")
     \/ ~cancelled /\ GivesUp /\ EndSession("hw")
     \/ ~cancelled /\ Recycles /\ EndSession("nil")

Reading == at = "decode" /\ ~cancelled /\ ~GivesUp /\ ~Recycles

InSession(s) ==
  /\ session' = s
  /\ UNCHANGED <<policy, cancelled, at, loopVars, err, held, lost, streak>>

\* Packets arrive, and the decoder refuses them, swallows them or gives errors.
TimePasses ==
  /\ at = "decode" /\ ~session.spent
  /\ InSession([session EXCEPT !.spent = TRUE]) /\ UNCHANGED status

\* The stream breaks (a file that loops is rewound instead), the decoder refuses
\* a packet or a frame cannot be published.  Before the first frame of a
\* hardware session a broken stream is blamed on the hardware, whatever broke it.
StreamBreaks ==
  /\ Reading
  /\ EndSession(IF Silent THEN "hw" ELSE "stream")

PublishFrame ==
  /\ Reading
  /\ session.usingHW => policy.hardware = "works"
  /\ InSession([session EXCEPT !.published = TRUE])
  /\ status' = IF session.published THEN status
               ELSE IF session.usingHW THEN "hardware" ELSE "software"

\* Close waits 2 s for a wedged driver to free its codec; everything else is
\* freed whether it does or not.
Close(stuck) ==
  /\ at = "close"
  /\ stuck => session.usingHW
  /\ at' = "after"
  /\ lost' = IF stuck THEN lost \cup {"codec"} ELSE lost
  /\ held' = held \ (Demuxer \cup {"frames", "codec", "device"})
  /\ UNCHANGED <<policy, cancelled, loopVars, status, session, err, streak>>

\* runSession turns a panic into an error and forgets what was published.  An
\* open session is closed as usual; one that was being opened is not freed.
Opening == {"open", "input", "probe", "codec", "device", "opening"}
Panic ==
  \/ /\ at \in {"resolve"} \cup Opening
     /\ at' = "after" /\ err' = "panic"
     /\ lost' = lost \cup held /\ held' = {}
     /\ UNCHANGED <<policy, cancelled, loopVars, status, session, streak>>
  \/ /\ at = "decode"
     /\ at' = "close" /\ err' = "panic"
     /\ session' = [session EXCEPT !.published = FALSE]
     /\ UNCHANGED <<policy, cancelled, loopVars, status, held, lost, streak>>

-----------------------------------------------------------------------------

Resources == Demuxer \cup {"options", "codec", "device", "frames"}

WorkerTypeOK ==
  /\ policy \in AllPolicies /\ cancelled \in BOOLEAN /\ useHW \in BOOLEAN
  /\ at \in {"delay", "again", "resolve", "decode", "close", "after", "wait", "done"}
            \cup Opening
  /\ attempt \in 0..MaxAttempt /\ resolveFails \in 0..MaxResolveFailures
  /\ delay \in 0..MaxAttempt \cup {Ceiling}
  /\ status \in {"offline", "connecting", "reconnecting", "failed", "hardware", "software"}
  /\ session \in [usingHW : BOOLEAN, published : BOOLEAN, spent : BOOLEAN]
  /\ err \in {"nil", "resolve", "open", "hw", "stream", "panic", "cancelled"}
  /\ held \subseteq Resources /\ lost \subseteq Resources
  /\ streak \in 0..MaxResolveFailures

=============================================================================
