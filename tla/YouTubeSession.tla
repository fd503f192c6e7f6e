--------------------------- MODULE YouTubeSession ---------------------------
(***************************************************************************)
(* What a YouTube source needs to stay on the wall: its decode worker      *)
(* (DecodeWorker), the PO token provider (TokenProvider), the cookie jar   *)
(* (source/youtube/store.go) and whatever makes a change of one of them    *)
(* reach the worker: reloadYouTubeWorkers of handler/youtube.go, which the *)
(* upload handlers call and SetPOT registers as the provider's onReady.    *)
(*                                                                         *)
(* A reload raises the manager's credential generation and asks it to      *)
(* resync; the manager cancels a worker of another generation, waits for   *)
(* it, and starts its successor.  How the manager does that is module      *)
(* IngestPipeline; here a reload leaves the worker "due" for replacement.  *)
(***************************************************************************)
EXTENDS DecodeWorker, TokenProvider, FiniteSets

CONSTANTS
  Uploaders,   \* handlers that upload a jar, each at most once
  Scenarios    \* bound of the model: a policy, a configured provider mode, and
               \*   how many events of each kind there may be

Kinds == {"cookies", "server", "panic", "wedge"}

ASSUME SessionAssumption ==
  /\ IsFiniteSet(Uploaders) /\ Uploaders \subseteq Nat \ {0}
  /\ Scenarios \subseteq [policy : AllPolicies, events : [Kinds -> Nat],
                          requested : {"off", "managed", "external", "auto"}]

VARIABLES
  upload,   \* each upload handler's position
  fd,       \* the file each handler opened
  tmp, jar, \* the files named youtube.cookies.tmp and youtube.cookies
  content,  \* whose bytes each file holds: nobody's, one upload's, a mixture
  due,      \* the running worker has another generation than Manager.authGen
  used,     \* what the current session was resolved with
  raced,    \* history: two uploads overlapped
  unseen,   \* history: the server was away and back, and running stayed true
  panicked, \* history: a session or the worker panicked
  wedged,   \* history: a driver did not free its codec
  left      \* how many events of each kind there may still be

jarVars == <<upload, fd, tmp, jar, content, raced>>
sources == <<potVars, jarVars, due, unseen>>
history == <<panicked, wedged, left>>
vars == <<workerVars, sources, used, history>>

NoFile == 0
Files == {NoFile} \cup Uploaders        \* a file is named after who created it
\* An empty jar is not passed to yt-dlp (CookiesConfigured).
Installed == IF jar = NoFile THEN {} ELSE content[jar]
Nothing == [jar |-> {}, token |-> FALSE]

Happens(e) == left[e] > 0 /\ left' = [left EXCEPT ![e] = @ - 1]
Occurs(e) == Happens(e) /\ UNCHANGED <<panicked, wedged>>

Init ==
  /\ \E s \in Scenarios :
       WorkerInit(s.policy) /\ PotInit(s.requested) /\ left = s.events
  /\ upload = [u \in Uploaders |-> "idle"] /\ fd = [u \in Uploaders |-> NoFile]
  /\ tmp = NoFile /\ jar = NoFile /\ content = [f \in Files |-> {}]
  /\ due = FALSE /\ used = Nothing
  /\ raced = FALSE /\ unseen = FALSE /\ panicked = FALSE /\ wedged = FALSE

-----------------------------------------------------------------------------
(* The cookie jar: writeSecret under PutYouTubeCookies, DeleteYouTubeCookies. *)

Store(u, to) ==
  /\ upload' = [upload EXCEPT ![u] = to]
  /\ UNCHANGED <<workerVars, potVars, used, unseen>>

Writing(u) == upload[u] \in {"opened", "written"}

\* os.WriteFile opens and truncates the one temporary file all uploads share.
OpenTmp(u) ==
  LET f == IF tmp = NoFile THEN u ELSE tmp
  IN fd' = [fd EXCEPT ![u] = f] /\ content' = [content EXCEPT ![f] = {}]
     /\ tmp' = f /\ UNCHANGED jar

StartUpload(u) ==
  /\ upload[u] = "idle"
  /\ Occurs("cookies")
  /\ OpenTmp(u)
  /\ raced' = (raced \/ \E v \in Uploaders : Writing(v))
  /\ Store(u, "opened") /\ UNCHANGED due

\* Over another upload's bytes the result is this one or a mixture of both.
WriteTmp(u) ==
  /\ upload[u] = "opened"
  /\ \E rest \in {{}, content[fd[u]]} :
       content' = [content EXCEPT ![fd[u]] = {u} \cup rest]
  /\ Store(u, "written") /\ UNCHANGED <<fd, tmp, jar, raced, due, history>>

\* The rename takes whatever file has the name by now; without one the upload is
\* refused, and nothing is reloaded.
RenameTmp(u) ==
  /\ upload[u] = "written"
  /\ IF tmp = NoFile THEN Store(u, "done") /\ UNCHANGED <<jar, tmp>>
     ELSE jar' = tmp /\ tmp' = NoFile /\ Store(u, "reload")
  /\ UNCHANGED <<fd, content, raced, due, history>>

DeleteCookies(u) ==
  /\ upload[u] = "idle" /\ jar # NoFile
  /\ Occurs("cookies")
  /\ jar' = NoFile
  /\ Store(u, "reload") /\ UNCHANGED <<fd, tmp, content, raced, due>>

\* reloadYouTubeWorkers: only YouTube sources have the generation in their
\* fingerprint.
Reload == due' = (due \/ policy.kind = "youtube")

UploadReload(u) ==
  /\ upload[u] = "reload"
  /\ Reload
  /\ Store(u, "done") /\ UNCHANGED <<fd, tmp, jar, content, raced, history>>

UploadStep(u) == WriteTmp(u) \/ RenameTmp(u) \/ UploadReload(u)

-----------------------------------------------------------------------------
(* The provider.                                                           *)

ProviderOnly == UNCHANGED <<workerVars, jarVars, used>>

OnReady == ReadyDelivered /\ Reload /\ ProviderOnly /\ UNCHANGED <<unseen, history>>

Provide ==
  /\ ProviderStep
  /\ ProviderOnly /\ UNCHANGED <<due, unseen, history>>

\* The managed server starts to answer on its own; any other is someone's doing.
Answer ==
  /\ ServerAnswers
  /\ unseen' = (unseen \/ running)
  /\ IF mode = "managed" THEN UNCHANGED history ELSE Occurs("server")
  /\ ProviderOnly /\ UNCHANGED due

Fail ==
  /\ Occurs("server")
  /\ \E exits \in BOOLEAN : ServerStops(exits)
  /\ ProviderOnly /\ UNCHANGED <<due, unseen>>

-----------------------------------------------------------------------------
(* The worker and the manager.                                             *)

WorkerOnly == UNCHANGED sources
Keeping == WorkerOnly /\ UNCHANGED <<used, history>>

\* yt-dlp is started with the jar of that moment and has asked the provider for
\* a token by the time it answers.
ResolveStarts ==
  /\ Announce
  /\ used' = [jar |-> Installed, token |-> FALSE]
  /\ WorkerOnly /\ UNCHANGED history

ResolveEnds ==
  /\ Resolved
  /\ used' = [used EXCEPT !.token = answering]
  /\ WorkerOnly /\ UNCHANGED history

Retry ==
  /\ AfterSession \/ CancelledInLoop
  /\ used' = Nothing /\ WorkerOnly /\ UNCHANGED history
Refused == (ResolveFails \/ StreamBreaks) /\ Keeping
NotOpened == (OpenFails \/ OpenCodecFails) /\ Keeping
Open ==
  /\ AllocFormat \/ OpenInput \/ FindDecoder \/ AllocCodec \/ AttachDevice \/ OpenCodec
  /\ Keeping
Decode == (LoopEnds \/ TimePasses \/ Close(FALSE)) /\ Keeping
Publish == PublishFrame /\ Keeping
Wedge ==
  /\ Happens("wedge") /\ wedged' = TRUE /\ UNCHANGED panicked
  /\ Close(TRUE) /\ WorkerOnly /\ UNCHANGED used
Panics ==
  /\ Happens("panic") /\ panicked' = TRUE /\ UNCHANGED wedged
  /\ (Panic \/ Backstop) /\ WorkerOnly /\ UNCHANGED used

\* The manager stops a worker whose fingerprint is out of date, ...
Cancel ==
  /\ due /\ ~cancelled
  /\ cancelled' = TRUE
  /\ UNCHANGED <<policy, at, loopVars, status, session, err, held, lost, streak>> /\ Keeping

\* ... and starts another one, with the fingerprint of now.
Restart ==
  /\ cancelled /\ at = "done"
  /\ NewWorker
  /\ due' = FALSE /\ used' = Nothing
  /\ UNCHANGED <<potVars, jarVars, unseen, history>>

Next ==
  \/ \E u \in Uploaders : StartUpload(u) \/ DeleteCookies(u) \/ UploadStep(u)
  \/ OnReady \/ Provide \/ Answer \/ Fail
  \/ ResolveStarts \/ ResolveEnds \/ Retry \/ Refused \/ NotOpened \/ Open \/ Decode \/ Publish
  \/ Wedge \/ Panics \/ Cancel \/ Restart

Spec == Init /\ [][Next]_vars

\* Whether libav can decode the source with what its policy and its host allow.
Decodable ==
  /\ policy.software
  /\ policy.hardware \in {"absent", "works"} \/ policy.allowSW \/ ~policy.useHW

\* Every goroutine runs, every timer fires and a driver that refuses says so.  A
\* source that is tried for ever resolves, opens if it can, and gives a frame at
\* some of the tries: that is what the endless retry is for, and nothing less would
\* bring a source back.
Fairness ==
  /\ \A u \in Uploaders : WF_vars(UploadStep(u))
  /\ WF_vars(OnReady) /\ WF_vars(Provide)
  /\ WF_vars(ResolveStarts) /\ WF_vars(Retry) /\ WF_vars(Decode)
  /\ WF_vars(Cancel) /\ WF_vars(Restart)
  /\ WF_vars(Open \/ NotOpened)
  /\ SF_vars(ResolveEnds) /\ SF_vars(Publish)
  /\ Decodable => ([]<>(at = "open") => []<>(at = "decode"))

FairSpec == Spec /\ Fairness

-----------------------------------------------------------------------------
(* Properties.                                                             *)

\* Every variable holds a value of its type.
TypeOK ==
  /\ WorkerTypeOK /\ PotTypeOK
  /\ upload \in [Uploaders -> {"idle", "opened", "written", "reload", "done"}]
  /\ fd \in [Uploaders -> Files] /\ tmp \in Files /\ jar \in Files
  /\ content \in [Files -> SUBSET Uploaders]
  /\ due \in BOOLEAN /\ raced \in BOOLEAN /\ unseen \in BOOLEAN
  /\ used \in [jar : SUBSET Uploaders, token : BOOLEAN]
  /\ panicked \in BOOLEAN /\ wedged \in BOOLEAN /\ left \in [Kinds -> Nat]

\* worker.go on maxResolveFailures: when so many resolutions failed in a row, the
\* next wait is at the ceiling, "instead of hammering yt-dlp", and the source is
\* reported failed; nothing that happened before them lets the breaker miss it.
BreakerTrips ==
  streak >= MaxResolveFailures =>
    /\ at = "wait" => delay = Ceiling
    /\ at = "resolve" => status = "failed"

\* "How many consecutive resolution failures trip the circuit breaker": a source
\* is reported failed only after so many in a row.
FailedOnlyInARow ==
  (at = "resolve" /\ status = "failed") => streak >= MaxResolveFailures

\* Whichever of its exits OpenVideo takes, with or without a second try in
\* software, and whatever ends an open session, the next one starts with nothing
\* of it left: only a wedged driver keeps a codec, and only a panic while a
\* decoder is opened keeps more.
SessionsLeakNothing ==
  /\ at \notin Opening \cup {"decode", "close"} => held = {}
  /\ ~panicked => lost \subseteq IF wedged THEN {"codec"} ELSE {}

InSessionNow == at \in Opening \cup {"decode"}
Rest == ~due /\ ~cancelled /\ poll # "ready"
        /\ \A u \in Uploaders : upload[u] \in {"idle", "done"}

\* A YouTube session that nobody is about to replace was resolved with the whole
\* jar that is installed, unless two uploads overlapped; and with a token when
\* the provider is known to run, unless its server was away and back unseen.
SessionIsCurrent ==
  (Rest /\ policy.kind = "youtube" /\ InSessionNow) =>
    /\ ~raced => used.jar = Installed /\ Cardinality(used.jar) <= 1
    /\ (running /\ answering /\ ~unseen) => used.token

\* A source that libav can decode is decoded again and again, whatever ended its
\* sessions and however often it was replaced, unless a panic kills its worker.
ComesBack ==
  Decodable => []<>(status \in {"hardware", "software"} \/ panicked)

\* A provider marked up by an answer older than its server's death is marked
\* down again, or the server is back.
StaleUpIsCorrected == (running /\ ~answering) ~> (~running \/ answering)
=============================================================================
