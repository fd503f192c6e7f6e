------------------------ MODULE YouTubeSessionProofs ------------------------
(***************************************************************************)
(* The safety of a YouTube source for any number of uploads of a cookie    *)
(* jar, any limits of the worker and any number of faults.                 *)
(*                                                                         *)
(* Five invariants carry the proofs.  Showing says where a session that    *)
(* has published can be.  Counted ties the failures in a row to those the  *)
(* worker counts, and Owned what a session holds to where it stands.       *)
(* OwnFile says which file an upload writes as long as no two overlapped.  *)
(* Accounted says how a change of the jar or of the provider is on its way *)
(* to the worker until the worker is due.                                  *)
(***************************************************************************)
EXTENDS YouTubeSession, FiniteSetTheorems, TLAPS

-----------------------------------------------------------------------------
(* The invariants.                                                         *)

\* A session that published a frame reported so and is not over; one that ended
\* without an error had published.
Showing ==
  /\ session.published /\ at # "done" =>
       at \in {"decode", "close", "after"} /\ status \in {"hardware", "software"}
  /\ (at \in {"close", "after"} /\ err = "nil") => session.published

\* Without overlapping uploads, the one that writes has the temporary file for
\* itself, and the jar is the whole file of an upload that has renamed it.
OwnFile ==
  ~raced =>
    /\ \A u \in Uploaders : Writing(u) =>
         /\ fd[u] = u /\ tmp = u
         /\ content[u] = IF upload[u] = "opened" THEN {} ELSE {u}
    /\ tmp # NoFile => \E u \in Uploaders : Writing(u)
    /\ jar # NoFile => upload[jar] \in {"reload", "done"} /\ content[jar] = {jar}

\* A YouTube session that nobody has marked for replacement.
Kept == policy.kind = "youtube" /\ ~due /\ ~cancelled

Working == Opening \cup {"decode"}

\* Until an upload reloads, the session was started with the jar there is; until
\* the provider's callback runs, with a token if the provider can give one.
NoneToReload == \A u \in Uploaders : upload[u] # "reload"
JarAccounted ==
  (Kept /\ ~raced /\ at \in {"resolve"} \cup Working /\ NoneToReload) => used.jar = Installed
TokenAccounted ==
  (Kept /\ ~unseen /\ at \in Working /\ running /\ answering) =>
    used.token \/ poll = "ready"
Accounted == JarAccounted /\ TokenAccounted

-----------------------------------------------------------------------------
(* Types.                                                                  *)

\* The steps of a worker and of the manager that replaces it.
Opens == Open \/ NotOpened
WorkerStep ==
  \/ ResolveStarts \/ ResolveEnds \/ Retry \/ Refused \/ Opens \/ Decode \/ Publish
  \/ Wedge \/ Panics \/ Cancel \/ Restart

LEMMA LoopTypes ==
  ASSUME WorkerTypeOK, Announce \/ CancelledInLoop \/ AfterSession \/ Backstop \/ NewWorker
  PROVE  WorkerTypeOK'
<1> USE WorkerAssumption
<1>1. CASE Announce
  BY <1>1 DEF Announce, WorkerTypeOK, Ceiling
<1>2. CASE CancelledInLoop \/ Backstop
  BY <1>2 DEF CancelledInLoop, Leave, Backstop, WorkerTypeOK, loopVars
<1>3. CASE AfterSession
  <2>1. Failures \in Nat
    BY DEF Failures, WorkerTypeOK
  <2>2. resolveFails' \in 0..MaxResolveFailures
    BY <1>3, <2>1 DEF AfterSession, AtMost
  <2> DEFINE n == IF session.published THEN 0 ELSE attempt
  <2>3. n \in 0..MaxAttempt
    BY DEF WorkerTypeOK
  <2>4. /\ at' \in {"again", "wait"} /\ useHW' \in BOOLEAN
        /\ attempt' \in 0..MaxAttempt /\ delay' \in 0..MaxAttempt \cup {Ceiling}
    <3>1. CASE FallBack /\ attempt' = n
      BY <2>3, <3>1 DEF FallBack, WorkerTypeOK
    <3>2. CASE /\ at' = "wait" /\ UNCHANGED useHW
               /\ delay' = IF Failures >= MaxResolveFailures THEN Ceiling ELSE n
               /\ attempt' = AtMost(n + 1, MaxAttempt)
      BY <2>3, <3>2 DEF AtMost, WorkerTypeOK
    <3> QED
      BY <1>3, <3>1, <3>2 DEF AfterSession
  <2>5. session' \in [usingHW : BOOLEAN, published : BOOLEAN, spent : BOOLEAN]
    BY <1>3 DEF AfterSession, Fresh
  <2> QED
    BY <1>3, <2>2, <2>4, <2>5 DEF AfterSession, WorkerTypeOK
<1>4. CASE NewWorker
  <2>1. useHW' \in BOOLEAN
    BY <1>4 DEF NewWorker, WorkerTypeOK, AllPolicies
  <2>2. session' \in [usingHW : BOOLEAN, published : BOOLEAN, spent : BOOLEAN]
    BY <1>4 DEF NewWorker, Fresh
  <2>3. /\ attempt' \in 0..MaxAttempt /\ resolveFails' \in 0..MaxResolveFailures
        /\ delay' \in 0..MaxAttempt /\ streak' \in 0..MaxResolveFailures
    BY <1>4 DEF NewWorker
  <2>4. /\ cancelled' = FALSE /\ at' = "delay" /\ err' = "nil" /\ held' = held
        /\ policy' = policy /\ status' = status /\ lost' = lost
    BY <1>4 DEF NewWorker
  <2> QED
    BY <2>1, <2>2, <2>3, <2>4 DEF WorkerTypeOK
<1> QED
  BY <1>1, <1>2, <1>3, <1>4

\* What every step of opening a decoder leaves alone, whether it goes on or not.
LEMMA OpeningStep ==
  ASSUME WorkerTypeOK,
         \/ AllocFormat \/ OpenInput \/ FindDecoder \/ AllocCodec \/ AttachDevice \/ OpenCodec
         \/ OpenFails \/ OpenCodecFails
  PROVE  /\ at \in Opening /\ at' \in Opening \cup {"decode", "after"}
         /\ at' = "after" => err' = "open"
         /\ at' # "after" => err' = err
         /\ UNCHANGED <<policy, cancelled, loopVars, status, lost, streak>>
         /\ held' \subseteq Resources
         /\ session'.published = session.published
         /\ session' \in [usingHW : BOOLEAN, published : BOOLEAN, spent : BOOLEAN]
<1>0. /\ session \in [usingHW : BOOLEAN, published : BOOLEAN, spent : BOOLEAN]
      /\ useHW \in BOOLEAN /\ held \subseteq Resources
  BY DEF WorkerTypeOK
<1>1. CASE AllocFormat
  BY <1>0, <1>1 DEF AllocFormat, Takes, Enter, Opening, Resources, Demuxer
<1>2. CASE OpenInput \/ OpenCodec
  BY <1>0, <1>2 DEF OpenInput, OpenCodec, Enter, Opening, Resources, Demuxer
<1>3. CASE FindDecoder
  BY <1>0, <1>3 DEF FindDecoder, Takes, Enter, Opening, Resources
<1>4. CASE AllocCodec
  BY <1>0, <1>4 DEF AllocCodec, Takes, Enter, Opening, Resources
<1>5. CASE AttachDevice
  <2>1. PICK device \in SUBSET {"device"} :
          Takes("device", "opening", IF session.usingHW THEN device \cup {"options"} ELSE {})
    BY <1>5 DEF AttachDevice
  <2> QED
    BY <1>0, <1>5, <2>1 DEF AttachDevice, Takes, Enter, Opening, Resources, Demuxer
<1>6. CASE OpenFails
  BY <1>0, <1>6 DEF OpenFails, Refuse, Opening, Resources
<1>7. ASSUME NEW freed, CodecFails(freed), at \in {"codec", "device", "opening"}
      PROVE  /\ at' \in {"codec", "after"} /\ (at' = "after" => err' = "open")
             /\ at' # "after" => err' = err
             /\ UNCHANGED <<policy, cancelled, loopVars, status, lost, streak>>
             /\ held' \subseteq Resources
             /\ session'.published = session.published
             /\ session' \in [usingHW : BOOLEAN, published : BOOLEAN, spent : BOOLEAN]
  <2>1. CASE Refuse("open", freed \cup Demuxer)
    BY <1>0, <1>7, <2>1 DEF CodecFails, Refuse
  <2>2. CASE Enter("codec") /\ held' = held \ freed /\ session' = [session EXCEPT !.usingHW = FALSE]
    BY <1>0, <1>7, <2>2 DEF CodecFails, Enter
  <2> QED
    BY <1>7, <2>1, <2>2 DEF CodecFails
<1>8. CASE OpenCodecFails
  BY <1>7, <1>8 DEF OpenCodecFails, Opening
<1> QED
  BY <1>1, <1>2, <1>3, <1>4, <1>5, <1>6, <1>8

LEMMA SessionTypes ==
  ASSUME WorkerTypeOK,
         \/ Resolved \/ ResolveFails \/ StreamBreaks \/ LoopEnds \/ TimePasses
         \/ PublishFrame \/ Panic \/ \E b \in BOOLEAN : Close(b)
  PROVE  WorkerTypeOK'
<1>0. MaxResolveFailures \in Nat \ {0}
  BY WorkerAssumption
<1>1. CASE Resolved
  BY <1>0, <1>1 DEF Resolved, Enter, Opening, WorkerTypeOK, loopVars
<1>2. CASE ResolveFails
  BY <1>0, <1>2 DEF ResolveFails, Refuse, WorkerTypeOK, loopVars
<1>3. CASE StreamBreaks \/ LoopEnds
  BY <1>3 DEF StreamBreaks, LoopEnds, EndSession, WorkerTypeOK, loopVars
<1>4. CASE TimePasses \/ PublishFrame
  <2>1. session' \in [usingHW : BOOLEAN, published : BOOLEAN, spent : BOOLEAN]
    BY <1>4 DEF TimePasses, PublishFrame, InSession, WorkerTypeOK
  <2>2. status' \in {"offline", "connecting", "reconnecting", "failed", "hardware", "software"}
    BY <1>4 DEF TimePasses, PublishFrame, InSession, WorkerTypeOK
  <2> QED
    BY <1>4, <2>1, <2>2 DEF TimePasses, PublishFrame, InSession, WorkerTypeOK, loopVars
<1>5. CASE Panic
  <2>1. session' \in [usingHW : BOOLEAN, published : BOOLEAN, spent : BOOLEAN]
    BY <1>5 DEF Panic, WorkerTypeOK
  <2>2. held' \subseteq Resources /\ lost' \subseteq Resources
    BY <1>5 DEF Panic, WorkerTypeOK
  <2> QED
    BY <1>5, <2>1, <2>2 DEF Panic, WorkerTypeOK, loopVars
<1>6. ASSUME NEW b \in BOOLEAN, Close(b)
      PROVE  WorkerTypeOK'
  BY <1>6 DEF Close, WorkerTypeOK, Resources, loopVars
<1> QED
  BY <1>1, <1>2, <1>3, <1>4, <1>5, <1>6

LEMMA HappensTypes ==
  ASSUME NEW e \in Kinds, left \in [Kinds -> Nat], Happens(e)
  PROVE  left' \in [Kinds -> Nat]
  BY DEF Happens

LEMMA WorkerStepTypes ==
  ASSUME TypeOK, WorkerStep
  PROVE  TypeOK'
<1>1. UNCHANGED <<potVars, jarVars, unseen>>
  BY DEF WorkerStep, ResolveStarts, ResolveEnds, Retry, Refused, Opens, Open, NotOpened, Decode, Publish, Wedge,
         Panics, Cancel, Restart, Keeping, WorkerOnly, sources
<1>2. WorkerTypeOK'
  <2>0. WorkerTypeOK
    BY DEF TypeOK
  <2>1. CASE Cancel
    BY <2>0, <2>1 DEF Cancel, WorkerTypeOK, loopVars
  <2>2. CASE ~Cancel /\ ~Opens
    <3>1. \/ Announce \/ CancelledInLoop \/ AfterSession \/ Backstop \/ NewWorker
          \/ Resolved \/ ResolveFails \/ StreamBreaks \/ LoopEnds \/ TimePasses
          \/ PublishFrame \/ Panic \/ \E b \in BOOLEAN : Close(b)
      BY <2>2 DEF WorkerStep, ResolveStarts, ResolveEnds, Retry, Refused, Decode, Publish,
                  Wedge, Panics, Restart
    <3> QED
      BY <2>0, <3>1, LoopTypes, SessionTypes
  <2>3. CASE Opens
    <3>1. /\ at' \in Opening \cup {"decode", "after"}
          /\ err' \in {"open", err}
          /\ UNCHANGED <<policy, cancelled, loopVars, status, lost, streak>>
          /\ held' \subseteq Resources
          /\ session' \in [usingHW : BOOLEAN, published : BOOLEAN, spent : BOOLEAN]
      BY <2>0, <2>3, OpeningStep DEF Opens, Open, NotOpened
    <3> QED
      BY <2>0, <3>1 DEF WorkerTypeOK, loopVars
  <2> QED
    BY <2>1, <2>2, <2>3
<1>3. PotTypeOK'
  BY <1>1 DEF TypeOK, PotTypeOK, potVars
<1>4. due' \in BOOLEAN
  BY DEF TypeOK, WorkerStep, ResolveStarts, ResolveEnds, Retry, Refused, Opens, Open, NotOpened, Decode, Publish,
         Wedge, Panics, Cancel, Restart, Keeping, WorkerOnly, sources
<1>5. used' \in [jar : SUBSET Uploaders, token : BOOLEAN]
  <2>1. CASE ResolveStarts
    <3>1. Installed \in SUBSET Uploaders
      BY DEF TypeOK, Installed
    <3> QED
      BY <2>1, <3>1 DEF ResolveStarts
  <2>2. CASE ResolveEnds
    BY <2>2 DEF ResolveEnds, TypeOK, PotTypeOK
  <2>3. CASE Retry \/ Restart
    <3>1. used' = Nothing
      BY <2>3 DEF Retry, Restart
    <3>2. Nothing \in [jar : SUBSET Uploaders, token : BOOLEAN]
      BY DEF Nothing
    <3> QED
      BY <3>1, <3>2
  <2>4. CASE ~ResolveStarts /\ ~ResolveEnds /\ ~Retry /\ ~Restart
    BY <2>4 DEF TypeOK, WorkerStep, Refused, Opens, Open, NotOpened, Decode, Publish, Wedge, Panics, Cancel, Keeping
  <2> QED
    BY <2>1, <2>2, <2>3, <2>4
<1>6. panicked' \in BOOLEAN /\ wedged' \in BOOLEAN /\ left' \in [Kinds -> Nat]
  <2>1. CASE Wedge \/ Panics
    BY <2>1, HappensTypes DEF Wedge, Panics, TypeOK, Kinds
  <2>2. CASE ~Wedge /\ ~Panics
    BY <2>2 DEF TypeOK, WorkerStep, ResolveStarts, ResolveEnds, Retry, Refused, Opens, Open, NotOpened, Decode,
                Publish, Cancel, Restart, Keeping, history
  <2> QED
    BY <2>1, <2>2
<1> QED
  BY <1>1, <1>2, <1>3, <1>4, <1>5, <1>6 DEF TypeOK, jarVars

\* The steps of the upload handlers.
JarStep == \E u \in Uploaders : StartUpload(u) \/ DeleteCookies(u) \/ UploadStep(u)

LEMMA JarStepTypes ==
  ASSUME TypeOK, NEW u \in Uploaders, StartUpload(u) \/ DeleteCookies(u) \/ UploadStep(u)
  PROVE  TypeOK'
<1>1. UNCHANGED <<workerVars, potVars, used, unseen>> /\ panicked' = panicked /\ wedged' = wedged
  BY DEF StartUpload, DeleteCookies, UploadStep, WriteTmp, RenameTmp, UploadReload, Store, Occurs,
         history
<1>2. WorkerTypeOK' /\ PotTypeOK'
  BY <1>1 DEF TypeOK, WorkerTypeOK, PotTypeOK, workerVars, loopVars, potVars
<1>3. left' \in [Kinds -> Nat]
  <2>1. CASE Happens("cookies")
    BY <2>1, HappensTypes DEF TypeOK, Kinds
  <2>2. CASE UNCHANGED left
    BY <2>2 DEF TypeOK
  <2> QED
    BY <2>1, <2>2 DEF StartUpload, DeleteCookies, UploadStep, WriteTmp, RenameTmp, UploadReload,
                      Occurs, history
<1>4. upload' \in [Uploaders -> {"idle", "opened", "written", "reload", "done"}]
  BY DEF TypeOK, StartUpload, DeleteCookies, UploadStep, WriteTmp, RenameTmp, UploadReload, Store
<1>5. fd' \in [Uploaders -> Files] /\ tmp' \in Files /\ jar' \in Files
  BY DEF TypeOK, StartUpload, DeleteCookies, UploadStep, WriteTmp, RenameTmp, UploadReload, Store,
         OpenTmp, Files
<1>6. content' \in [Files -> SUBSET Uploaders]
  <2>1. CASE StartUpload(u)
    BY <2>1 DEF TypeOK, StartUpload, OpenTmp, Files
  <2>2. CASE WriteTmp(u)
    <3>1. fd[u] \in Files
      BY DEF TypeOK
    <3>2. content[fd[u]] \in SUBSET Uploaders
      BY <3>1 DEF TypeOK
    <3>3. PICK rest \in {{}, content[fd[u]]} : content' = [content EXCEPT ![fd[u]] = {u} \cup rest]
      BY <2>2 DEF WriteTmp
    <3> QED
      BY <3>1, <3>2, <3>3 DEF TypeOK
  <2>3. CASE UNCHANGED content
    BY <2>3 DEF TypeOK
  <2> QED
    BY <2>1, <2>2, <2>3 DEF DeleteCookies, UploadStep, RenameTmp, UploadReload
<1>7. due' \in BOOLEAN /\ raced' \in BOOLEAN
  BY DEF TypeOK, StartUpload, DeleteCookies, UploadStep, WriteTmp, RenameTmp, UploadReload, Reload
<1> QED
  BY <1>1, <1>2, <1>3, <1>4, <1>5, <1>6, <1>7 DEF TypeOK

LEMMA ProviderStepTypes ==
  ASSUME TypeOK, OnReady \/ Provide \/ Answer \/ Fail
  PROVE  TypeOK'
<1>1. UNCHANGED <<workerVars, jarVars, used>> /\ panicked' = panicked /\ wedged' = wedged
  BY DEF OnReady, Provide, Answer, Fail, ProviderOnly, Occurs, history
<1>2. WorkerTypeOK'
  BY <1>1 DEF TypeOK, WorkerTypeOK, workerVars, loopVars
<1>3. PotTypeOK'
  <2>1. CASE OnReady \/ Provide
    BY <2>1 DEF OnReady, Provide, ReadyDelivered, ProviderStep, Launch, Exited, Ping, PollMarkDown,
                MarkUp, Process, Poll, TypeOK, PotTypeOK
  <2>2. CASE Answer \/ Fail
    BY <2>2 DEF Answer, Fail, ServerAnswers, ServerStops, Process, TypeOK, PotTypeOK
  <2> QED
    BY <2>1, <2>2
<1>4. left' \in [Kinds -> Nat]
  <2>1. CASE Happens("server")
    BY <2>1, HappensTypes DEF TypeOK, Kinds
  <2>2. CASE UNCHANGED left
    BY <2>2 DEF TypeOK
  <2> QED
    BY <2>1, <2>2 DEF OnReady, Provide, Answer, Fail, Occurs, history
<1>5. due' \in BOOLEAN /\ unseen' \in BOOLEAN
  BY DEF TypeOK, PotTypeOK, OnReady, Provide, Answer, Fail, Reload
<1> QED
  BY <1>1, <1>2, <1>3, <1>4, <1>5 DEF TypeOK, jarVars

LEMMA TypesStep ==
  ASSUME TypeOK, [Next]_vars
  PROVE  TypeOK'
<1>1. CASE UNCHANGED vars
  BY <1>1 DEF vars, sources, history, workerVars, loopVars, potVars, jarVars, TypeOK, WorkerTypeOK,
              PotTypeOK
<1>2. CASE Next
  BY <1>2, WorkerStepTypes, JarStepTypes, ProviderStepTypes DEF Next, WorkerStep, Opens
<1> QED
  BY <1>1, <1>2

LEMMA InitTypes == Init => TypeOK
<1> SUFFICES ASSUME Init PROVE TypeOK
  OBVIOUS
<1>1. PICK s \in Scenarios : WorkerInit(s.policy) /\ PotInit(s.requested) /\ left = s.events
  BY DEF Init
<1>2. s.policy \in AllPolicies /\ s.events \in [Kinds -> Nat]
  BY SessionAssumption
<1>3. WorkerTypeOK
  <2>1. useHW \in BOOLEAN
    BY <1>1, <1>2 DEF WorkerInit, AllPolicies
  <2>2. session \in [usingHW : BOOLEAN, published : BOOLEAN, spent : BOOLEAN]
    BY <1>1 DEF WorkerInit, Fresh
  <2>3. /\ attempt \in 0..MaxAttempt /\ resolveFails \in 0..MaxResolveFailures
        /\ delay \in 0..MaxAttempt /\ streak \in 0..MaxResolveFailures
    BY <1>1, WorkerAssumption DEF WorkerInit
  <2>4. /\ cancelled = FALSE /\ at = "delay" /\ err = "nil" /\ held = {}
        /\ policy \in AllPolicies /\ status = "offline" /\ lost = {}
    BY <1>1, <1>2 DEF WorkerInit
  <2> QED
    BY <2>1, <2>2, <2>3, <2>4 DEF WorkerTypeOK
<1>4. PotTypeOK
  BY <1>1 DEF PotInit, PotTypeOK, ResolveMode
<1> QED
  BY <1>1, <1>2, <1>3, <1>4 DEF Init, TypeOK, Files, Nothing

\* The type invariant of the session, its provider and its worker.
THEOREM SessionTypeOK == Spec => []TypeOK
  BY InitTypes, TypesStep, PTL DEF Spec

-----------------------------------------------------------------------------
(* The worker.                                                             *)

\* The last failures of resolution in a row are among those the worker counts,
\* but for the one it is about to count; none of them is left once a session has
\* opened, and a wait or a try shows what the count calls for.
Counted ==
  /\ at # "done" => streak <= resolveFails + (IF at = "after" /\ err = "resolve" THEN 1 ELSE 0)
  /\ at \in Opening \cup {"decode", "close"} => streak = 0
  /\ (at = "after" /\ err # "resolve" /\ (err = "nil" \/ session.published)) => streak = 0
  /\ (at = "after" /\ err = "resolve") => ~session.published
  /\ at = "close" => err # "resolve"
  /\ BreakerTrips

\* What a session may hold where it stands.
Owned(p) ==
  CASE p = "input" -> {"format", "interrupter", "hook", "options"}
    [] p \in {"probe", "codec"} -> Demuxer
    [] p = "device" -> Demuxer \cup {"codec"}
    [] p = "opening" -> Demuxer \cup {"codec", "device", "options"}
    [] p \in {"decode", "close"} -> Demuxer \cup {"codec", "device", "frames"}
    [] OTHER -> {}

LostAtMost == ~panicked => lost \subseteq IF wedged THEN {"codec"} ELSE {}

\* What only a worker's own steps can change.
Worker == Counted /\ held \subseteq Owned(at) /\ LostAtMost /\ Showing

LEMMA OthersKeepWorker ==
  ASSUME Worker, UNCHANGED <<workerVars, panicked, wedged>>
  PROVE  Worker'
<1>1. Counted'
  BY DEF Worker, Counted, BreakerTrips, workerVars, loopVars
<1>2. LostAtMost' /\ held' \subseteq Owned(at)'
  BY DEF Worker, LostAtMost, workerVars, Owned
<1>3. Showing'
  BY DEF Worker, Showing, workerVars, loopVars
<1> QED
  BY <1>1, <1>2, <1>3 DEF Worker

LEMMA ShowingStep ==
  ASSUME TypeOK, Showing, WorkerStep
  PROVE  Showing'
<1>0. session \in [usingHW : BOOLEAN, published : BOOLEAN, spent : BOOLEAN]
  BY DEF TypeOK, WorkerTypeOK
<1>1. CASE ResolveStarts
  BY <1>1 DEF ResolveStarts, Announce, Between, Showing
<1>2. CASE ResolveEnds \/ Refused
  <2>1. CASE Resolved
    BY <2>1 DEF Resolved, Enter, Showing
  <2>2. CASE ResolveFails
    BY <2>2 DEF ResolveFails, Refuse, Showing
  <2>3. CASE StreamBreaks
    BY <2>3 DEF StreamBreaks, Reading, EndSession, Showing
  <2> QED
    BY <1>2, <2>1, <2>2, <2>3 DEF ResolveEnds, Refused
<1>3. CASE Retry
  <2>1. CASE AfterSession
    <3>1. ~session'.published /\ at' \in {"again", "wait"}
      BY <2>1 DEF AfterSession, FallBack, Fresh
    <3> QED
      BY <3>1 DEF Showing
  <2>2. CASE CancelledInLoop
    BY <2>2 DEF CancelledInLoop, Leave, Showing
  <2> QED
    BY <1>3, <2>1, <2>2 DEF Retry
<1>4. CASE Opens
  <2>1. /\ at \in Opening /\ at' \in Opening \cup {"decode", "after"}
        /\ at' = "after" => err' = "open"
        /\ session'.published = session.published
    BY <1>4, OpeningStep DEF Opens, Open, NotOpened, TypeOK
  <2> QED
    BY <2>1 DEF Showing, Opening
<1>5. CASE Decode
  <2>1. CASE LoopEnds
    BY <2>1 DEF LoopEnds, EndSession, Recycles, Showing
  <2>2. CASE TimePasses
    <3>1. /\ at = "decode" /\ at' = at /\ status' = status
          /\ session'.published = session.published
      BY <1>0, <2>2 DEF TimePasses, InSession
    <3> QED
      BY <3>1 DEF Showing
  <2>3. CASE Close(FALSE)
    BY <2>3 DEF Close, Showing
  <2> QED
    BY <1>5, <2>1, <2>2, <2>3 DEF Decode
<1>6. CASE Publish
  <2>1. /\ at = "decode" /\ at' = at
        /\ status' = IF session.published THEN status
                     ELSE IF session.usingHW THEN "hardware" ELSE "software"
    BY <1>6 DEF Publish, PublishFrame, Reading, InSession
  <2> QED
    BY <2>1 DEF Showing
<1>7. CASE Wedge
  BY <1>7 DEF Wedge, Close, Showing
<1>8. CASE Panics
  <2>1. CASE Panic /\ at # "decode"
    BY <2>1 DEF Panic, Opening, Showing
  <2>2. CASE Panic /\ at = "decode"
    <3>1. at' = "close" /\ err' = "panic" /\ ~session'.published
      BY <1>0, <2>2 DEF Panic, Opening
    <3> QED
      BY <3>1 DEF Showing
  <2>3. CASE Backstop
    BY <2>3 DEF Backstop, Showing
  <2> QED
    BY <1>8, <2>1, <2>2, <2>3 DEF Panics
<1>9. CASE Cancel
  BY <1>9 DEF Cancel, Showing
<1>10. CASE Restart
  <2>1. at' = "delay" /\ ~session'.published
    BY <1>10 DEF Restart, NewWorker, Fresh
  <2> QED
    BY <2>1 DEF Showing
<1> QED
  BY <1>1, <1>2, <1>3, <1>4, <1>5, <1>6, <1>7, <1>8, <1>9, <1>10 DEF WorkerStep

LEMMA CountedStep ==
  ASSUME TypeOK, Showing, Counted, WorkerStep
  PROVE  Counted'
<1>0. /\ resolveFails \in 0..MaxResolveFailures /\ MaxResolveFailures \in Nat \ {0}
      /\ streak \in 0..MaxResolveFailures
      /\ session \in [usingHW : BOOLEAN, published : BOOLEAN, spent : BOOLEAN]
  BY WorkerAssumption DEF TypeOK, WorkerTypeOK
<1>1. CASE ResolveStarts
  <2>1. /\ at \in {"delay", "again", "wait"} /\ at' = "resolve" /\ UNCHANGED <<streak, resolveFails>>
        /\ resolveFails >= MaxResolveFailures => status' = "failed"
    BY <1>0, <1>1 DEF ResolveStarts, Announce, Between
  <2> QED
    BY <1>0, <2>1 DEF Counted, BreakerTrips, Opening
<1>2. CASE ResolveEnds
  BY <1>0, <1>2 DEF ResolveEnds, Resolved, Enter, loopVars, Counted, BreakerTrips, Opening
<1>3. CASE Refused
  <2>1. CASE ResolveFails
    <3>1. /\ at = "resolve" /\ at' = "after" /\ err' = "resolve" /\ resolveFails' = resolveFails
          /\ session' = session /\ streak' \in Nat /\ streak' <= streak + 1
      BY <1>0, <2>1 DEF ResolveFails, Refuse, loopVars
    <3>2. ~session.published
      BY <3>1 DEF Showing
    <3>3. streak <= resolveFails
      BY <1>0, <3>1 DEF Counted
    <3> QED
      BY <1>0, <3>1, <3>2, <3>3 DEF Counted, BreakerTrips, Opening
  <2>2. CASE StreamBreaks
    BY <1>0, <2>2 DEF StreamBreaks, Reading, EndSession, loopVars, Counted, BreakerTrips, Opening
  <2> QED
    BY <1>3, <2>1, <2>2 DEF Refused
<1>4. CASE Retry
  <2>1. CASE CancelledInLoop
    BY <1>0, <2>1 DEF CancelledInLoop, Between, Leave, loopVars, Counted, BreakerTrips, Opening
  <2>2. CASE AfterSession
    <3>1. /\ at = "after" /\ at' \in {"again", "wait"} /\ streak' = streak
          /\ resolveFails' = AtMost(Failures, MaxResolveFailures)
      BY <2>2 DEF AfterSession, FallBack
    <3>2. Failures \in Nat /\ streak <= Failures
      <4>1. CASE err = "resolve"
        <5>1. ~session.published
          BY <3>1, <4>1 DEF Counted
        <5> QED
          BY <1>0, <3>1, <4>1, <5>1 DEF Failures, Counted
      <4>2. CASE err # "resolve" /\ (err = "nil" \/ session.published)
        BY <1>0, <3>1, <4>2 DEF Failures, Counted
      <4>3. CASE err # "resolve" /\ err # "nil" /\ ~session.published
        BY <1>0, <3>1, <4>3 DEF Failures, Counted
      <4> QED
        BY <4>1, <4>2, <4>3
    <3>3. streak <= resolveFails' /\ resolveFails' \in Nat
      BY <1>0, <3>1, <3>2 DEF AtMost
    <3>4. (at' = "wait" /\ streak >= MaxResolveFailures) => delay' = Ceiling
      BY <1>0, <2>2, <3>2 DEF AfterSession, FallBack
    <3> QED
      BY <1>0, <3>1, <3>3, <3>4 DEF Counted, BreakerTrips, Opening
  <2> QED
    BY <1>4, <2>1, <2>2 DEF Retry
<1>5. CASE Opens
  <2>1. /\ at \in Opening /\ at' \in Opening \cup {"decode", "after"}
        /\ at' = "after" => err' = "open"
        /\ UNCHANGED <<loopVars, streak>>
    BY <1>5, OpeningStep DEF Opens, Open, NotOpened, TypeOK
  <2> QED
    BY <1>0, <2>1 DEF Counted, BreakerTrips, Opening, loopVars
<1>6. CASE Decode \/ Wedge \/ Publish
  <2>1. /\ at \in {"decode", "close"} /\ at' \in {"decode", "close", "after"}
        /\ UNCHANGED <<resolveFails, streak>> /\ (at' = "after" => err' = err)
        /\ at' = "after" => session' = session /\ at = "close"
        /\ at' = "close" => err' # "resolve"
    BY <1>6 DEF Decode, LoopEnds, TimePasses, InSession, EndSession, Close, Wedge, Publish,
                PublishFrame, Reading, loopVars
  <2>2. at' = "after" => err' # "resolve"
    BY <2>1 DEF Counted
  <2> QED
    BY <1>0, <2>1, <2>2 DEF Counted, BreakerTrips, Opening
<1>7. CASE Panics
  <2>1. CASE Panic
    <3>1. /\ at \in {"resolve", "decode"} \cup Opening /\ at' \in {"after", "close"}
          /\ err' = "panic" /\ UNCHANGED <<resolveFails, streak>>
          /\ at' = "close" => at = "decode"
          /\ at' = "after" => session' = session
      BY <2>1 DEF Panic, Opening, loopVars
    <3>2. at' = "after" => ~session'.published
      BY <2>1, <3>1 DEF Showing, Opening, Panic
    <3> QED
      BY <1>0, <3>1, <3>2 DEF Counted, BreakerTrips, Opening
  <2>2. CASE Backstop
    BY <1>0, <2>2 DEF Backstop, Counted, BreakerTrips, Opening, loopVars
  <2> QED
    BY <1>7, <2>1, <2>2 DEF Panics
<1>8. CASE Cancel
  BY <1>0, <1>8 DEF Cancel, loopVars, Counted, BreakerTrips, Opening
<1>9. CASE Restart
  <2>1. at' = "delay" /\ streak' = 0 /\ resolveFails' = 0
    BY <1>9 DEF Restart, NewWorker
  <2> QED
    BY <1>0, <2>1 DEF Counted, BreakerTrips, Opening
<1> QED
  BY <1>1, <1>2, <1>3, <1>4, <1>5, <1>6, <1>7, <1>8, <1>9 DEF WorkerStep

LEMMA OwnedStep ==
  ASSUME TypeOK, held \subseteq Owned(at), WorkerStep
  PROVE  held' \subseteq Owned(at)'
<1>1. CASE ResolveStarts
  BY <1>1 DEF ResolveStarts, Announce, Between, Owned, Opening
<1>2. CASE ResolveEnds
  BY <1>2 DEF ResolveEnds, Resolved, Enter, Owned
<1>3. CASE Refused
  BY <1>3 DEF Refused, ResolveFails, Refuse, StreamBreaks, Reading, EndSession, Owned
<1>4. CASE Retry
  BY <1>4 DEF Retry, AfterSession, FallBack, CancelledInLoop, Between, Leave, Owned
<1>5. CASE Open
  <2>1. CASE AllocFormat \/ OpenInput
    BY <2>1 DEF AllocFormat, OpenInput, Takes, Enter, Owned, Demuxer
  <2>2. CASE FindDecoder \/ AllocCodec
    BY <2>2 DEF FindDecoder, AllocCodec, Takes, Enter, Owned
  <2>3. CASE AttachDevice
    <3>1. PICK device \in SUBSET {"device"} :
            Takes("device", "opening", IF session.usingHW THEN device \cup {"options"} ELSE {})
      BY <2>3 DEF AttachDevice
    <3> QED
      BY <3>1 DEF Takes, Enter, Owned
  <2>4. CASE OpenCodec
    BY <2>4 DEF OpenCodec, Enter, Owned, Demuxer
  <2> QED
    BY <1>5, <2>1, <2>2, <2>3, <2>4 DEF Open
<1>6. CASE NotOpened
  <2>1. CASE OpenFails
    BY <2>1 DEF OpenFails, Refuse, Owned, Demuxer
  <2>2. ASSUME NEW freed, CodecFails(freed), held \subseteq Demuxer \cup freed
        PROVE  held' \subseteq Owned(at)'
    <3>1. CASE at' = "codec" /\ held' = held \ freed
      BY <2>2, <3>1 DEF Owned
    <3>2. CASE at' = "after" /\ held' = held \ (freed \cup Demuxer)
      BY <2>2, <3>2 DEF Owned
    <3> QED
      BY <2>2, <3>1, <3>2 DEF CodecFails, Enter, Refuse
  <2>3. CASE at = "codec" /\ CodecFails({})
    BY <2>2, <2>3 DEF Owned
  <2>4. CASE at = "device" /\ CodecFails({"codec"})
    BY <2>2, <2>4 DEF Owned
  <2>5. CASE at = "opening" /\ CodecFails({"codec", "device", "options"})
    BY <2>2, <2>5 DEF Owned
  <2> QED
    BY <1>6, <2>1, <2>3, <2>4, <2>5 DEF NotOpened, OpenCodecFails
<1>7. CASE Decode
  BY <1>7 DEF Decode, LoopEnds, EndSession, TimePasses, InSession, Close, Owned
<1>8. CASE Publish \/ Cancel
  BY <1>8 DEF Publish, PublishFrame, InSession, Cancel, Owned
<1>9. CASE Wedge
  BY <1>9 DEF Wedge, Close, Owned
<1>10. CASE Panics
  BY <1>10 DEF Panics, Panic, Backstop, Owned
<1>11. CASE Restart
  BY <1>11 DEF Restart, NewWorker, Owned
<1> QED
  BY <1>1, <1>2, <1>3, <1>4, <1>5, <1>6, <1>7, <1>8, <1>9, <1>10, <1>11 DEF WorkerStep, Opens

LEMMA LostStep ==
  ASSUME TypeOK, LostAtMost, WorkerStep
  PROVE  LostAtMost'
<1>1. CASE Wedge
  BY <1>1 DEF Wedge, Close, LostAtMost
<1>2. CASE Panics
  BY <1>2 DEF Panics, LostAtMost
<1>3. CASE Opens
  <2>1. lost' = lost
    BY <1>3, OpeningStep DEF Opens, Open, NotOpened, TypeOK
  <2>2. UNCHANGED <<panicked, wedged>>
    BY <1>3 DEF Opens, Open, NotOpened, Keeping, history
  <2> QED
    BY <2>1, <2>2 DEF LostAtMost
<1>4. CASE ~Wedge /\ ~Panics /\ ~Opens
  <2>1. UNCHANGED <<lost, panicked, wedged>>
    BY <1>4 DEF WorkerStep, ResolveStarts, Announce, ResolveEnds, Resolved, Enter, Retry,
                AfterSession, CancelledInLoop, Leave, Refused, ResolveFails, Refuse, StreamBreaks,
                EndSession, Decode, LoopEnds, TimePasses, InSession, Close, Publish, PublishFrame,
                Cancel, Restart, NewWorker, Keeping, history
  <2> QED
    BY <2>1 DEF LostAtMost
<1> QED
  BY <1>1, <1>2, <1>3, <1>4

LEMMA SpecWorker == Spec => []Worker
<1>1. Init => Worker
  <2> SUFFICES ASSUME Init PROVE Worker
    OBVIOUS
  <2>1. /\ at = "delay" /\ status = "offline" /\ held = {} /\ lost = {} /\ session = Fresh
        /\ streak = 0 /\ resolveFails = 0
    BY DEF Init, WorkerInit
  <2>2. MaxResolveFailures \in Nat \ {0}
    BY WorkerAssumption
  <2> QED
    BY <2>1, <2>2 DEF Worker, Counted, BreakerTrips, LostAtMost, Owned, Showing, Fresh, Opening
<1>2. TypeOK /\ Worker /\ [Next]_vars => Worker'
  <2> SUFFICES ASSUME TypeOK, Worker, [Next]_vars PROVE Worker'
    OBVIOUS
  <2>1. CASE WorkerStep
    BY <2>1, ShowingStep, CountedStep, OwnedStep, LostStep DEF Worker
  <2>2. CASE ~WorkerStep
    <3>1. UNCHANGED <<workerVars, panicked, wedged>>
      BY <2>2 DEF Next, WorkerStep, Opens, StartUpload, DeleteCookies, UploadStep, WriteTmp,
                  RenameTmp, UploadReload, Store, OnReady, Provide, Answer, Fail, ProviderOnly,
                  Occurs, history, vars
    <3> QED
      BY <3>1, OthersKeepWorker
  <2> QED
    BY <2>1, <2>2
<1> QED
  BY <1>1, <1>2, SessionTypeOK, PTL DEF Spec

\* BreakerTrips, for any number of failures the circuit breaker waits for: so many
\* failed resolutions in a row always bring the wait to the ceiling and the source
\* to failed, whatever fallbacks, sessions and panics came before them (RunWorker,
\* worker.go).
THEOREM BreakerAlwaysTrips == Spec => []BreakerTrips
  BY SpecWorker, PTL DEF Worker, Counted

\* SessionsLeakNothing: at each exit of OpenVideo and openCodec, the software try
\* included, the list of what is freed there holds all that was taken until then,
\* and Close's list all that an open session has; but for a wedged codec and a
\* panic in the middle of opening (media.go).
THEOREM NothingIsLeaked == Spec => []SessionsLeakNothing
<1>1. Worker => SessionsLeakNothing
  BY DEF Worker, LostAtMost, Owned, Opening, SessionsLeakNothing
<1> QED
  BY <1>1, SpecWorker, PTL

-----------------------------------------------------------------------------
(* The jar.                                                                *)

LEMMA NobodyIsNoFile == NoFile \notin Uploaders
  BY SessionAssumption DEF NoFile

LEMMA OwnFileStep ==
  ASSUME TypeOK, OwnFile, NEW u \in Uploaders,
         StartUpload(u) \/ DeleteCookies(u) \/ UploadStep(u)
  PROVE  OwnFile'
<1> USE NobodyIsNoFile
<1>0. /\ upload \in [Uploaders -> {"idle", "opened", "written", "reload", "done"}]
      /\ fd \in [Uploaders -> Files] /\ tmp \in Files /\ jar \in Files
      /\ content \in [Files -> SUBSET Uploaders] /\ Uploaders \subseteq Files
      /\ \A f \in Files : f # NoFile => f \in Uploaders
  BY DEF TypeOK, Files
<1> SUFFICES ASSUME ~raced'
             PROVE  OwnFile'
  BY DEF OwnFile
<1>1. CASE StartUpload(u)
  <2>1. ~raced /\ \A v \in Uploaders : ~Writing(v)
    BY <1>1 DEF StartUpload
  <2>2. tmp = NoFile /\ (jar # NoFile => jar # u /\ content[jar] = {jar} /\ upload[jar] \in {"reload", "done"})
    BY <1>1, <2>1 DEF OwnFile, StartUpload
  <2>3. /\ fd' = [fd EXCEPT ![u] = u] /\ content' = [content EXCEPT ![u] = {}]
        /\ tmp' = u /\ jar' = jar /\ upload' = [upload EXCEPT ![u] = "opened"]
    BY <1>1, <2>2 DEF StartUpload, OpenTmp, Store
  <2> QED
    BY <1>0, <2>1, <2>2, <2>3 DEF OwnFile, Writing
<1>2. CASE WriteTmp(u)
  <2>1. ~raced /\ upload[u] = "opened"
    BY <1>2 DEF WriteTmp
  <2>2. fd[u] = u /\ tmp = u /\ content[u] = {}
    BY <2>1 DEF OwnFile, Writing
  <2>3. \A v \in Uploaders : Writing(v) => v = u
    BY <2>1, <2>2 DEF OwnFile
  <2>4. /\ content' = [content EXCEPT ![u] = {u}] /\ fd' = fd /\ tmp' = tmp /\ jar' = jar
        /\ upload' = [upload EXCEPT ![u] = "written"]
    BY <1>2, <2>2 DEF WriteTmp, Store
  <2>5. jar # u
    BY <2>1 DEF OwnFile
  <2> QED
    BY <1>0, <2>1, <2>2, <2>3, <2>4, <2>5 DEF OwnFile, Writing
<1>3. CASE RenameTmp(u)
  <2>1. ~raced /\ upload[u] = "written"
    BY <1>3 DEF RenameTmp
  <2>2. fd[u] = u /\ tmp = u /\ content[u] = {u}
    BY <2>1 DEF OwnFile, Writing
  <2>3. \A v \in Uploaders : Writing(v) => v = u
    BY <2>1, <2>2 DEF OwnFile
  <2>4. /\ content' = content /\ fd' = fd /\ tmp' = NoFile /\ jar' = u
        /\ upload' = [upload EXCEPT ![u] = "reload"]
    BY <1>3, <2>2 DEF RenameTmp, Store
  <2> QED
    BY <1>0, <2>1, <2>2, <2>3, <2>4 DEF OwnFile, Writing
<1>4. CASE DeleteCookies(u)
  <2>1. /\ ~raced /\ upload[u] = "idle" /\ content' = content /\ fd' = fd /\ tmp' = tmp
        /\ jar' = NoFile /\ upload' = [upload EXCEPT ![u] = "reload"]
    BY <1>4 DEF DeleteCookies, Store
  <2> QED
    BY <1>0, <2>1 DEF OwnFile, Writing
<1>5. CASE UploadReload(u)
  <2>1. /\ ~raced /\ upload[u] = "reload" /\ content' = content /\ fd' = fd /\ tmp' = tmp
        /\ jar' = jar /\ upload' = [upload EXCEPT ![u] = "done"]
    BY <1>5 DEF UploadReload, Store
  <2> QED
    BY <1>0, <2>1 DEF OwnFile, Writing
<1> QED
  BY <1>1, <1>2, <1>3, <1>4, <1>5 DEF UploadStep

LEMMA SpecOwnFile == Spec => []OwnFile
<1>1. Init => OwnFile
  BY DEF Init, OwnFile, Writing
<1>2. TypeOK /\ OwnFile /\ [Next]_vars => OwnFile'
  <2> SUFFICES ASSUME TypeOK, OwnFile, [Next]_vars PROVE OwnFile'
    OBVIOUS
  <2>1. CASE JarStep
    BY <2>1, OwnFileStep DEF JarStep
  <2>2. CASE ~JarStep
    <3>1. UNCHANGED jarVars
      BY <2>2 DEF Next, JarStep, OnReady, Provide, Answer, Fail, ProviderOnly, ResolveStarts,
                  ResolveEnds, Retry, Refused, Opens, Open, NotOpened, Decode, Publish, Wedge, Panics,
                  Cancel, Restart, Keeping, WorkerOnly, sources, vars
    <3> QED
      BY <3>1 DEF jarVars, OwnFile, Writing
  <2> QED
    BY <2>1, <2>2
<1> QED
  BY <1>1, <1>2, SessionTypeOK, PTL DEF Spec

-----------------------------------------------------------------------------
(* What a session was resolved with.                                       *)

\* A step of a handler leaves the jar as it is, or leaves a reload to be done.
LEMMA JarStepAccounted ==
  ASSUME TypeOK, OwnFile, Accounted, NEW u \in Uploaders,
         StartUpload(u) \/ DeleteCookies(u) \/ UploadStep(u)
  PROVE  Accounted'
<1> USE NobodyIsNoFile
<1>0. /\ upload \in [Uploaders -> {"idle", "opened", "written", "reload", "done"}]
      /\ tmp \in Files /\ jar \in Files
      /\ content \in [Files -> SUBSET Uploaders] /\ Uploaders \subseteq Files
      /\ \A f \in Files : f # NoFile => f \in Uploaders
  BY DEF TypeOK, Files
<1>1. /\ UNCHANGED <<policy, cancelled, at, used, unseen, running, answering, poll>>
      /\ due' = due \/ Reload
  BY DEF StartUpload, DeleteCookies, UploadStep, WriteTmp, RenameTmp, UploadReload, Store,
         workerVars, potVars
<1>2. Kept' => Kept
  BY <1>1 DEF Kept, Reload
<1>3. TokenAccounted'
  BY <1>1, <1>2 DEF Accounted, TokenAccounted
<1>4. JarAccounted'
  <2> SUFFICES ASSUME Kept', ~raced', at \in {"resolve"} \cup Working, NoneToReload'
               PROVE  used.jar = Installed'
    BY <1>1 DEF JarAccounted
  <2>1. ~DeleteCookies(u) /\ ~UploadReload(u)
    BY <1>0, <1>1 DEF DeleteCookies, UploadReload, Store, NoneToReload, Kept, Reload
  <2>2. CASE StartUpload(u)
    <3>1. ~raced /\ (\A v \in Uploaders : ~Writing(v)) /\ upload[u] = "idle"
      BY <2>2 DEF StartUpload
    <3>2. tmp = NoFile /\ jar # u
      BY <3>1 DEF OwnFile
    <3>3. /\ content' = [content EXCEPT ![u] = {}] /\ jar' = jar
          /\ upload' = [upload EXCEPT ![u] = "opened"]
      BY <2>2, <3>2 DEF StartUpload, OpenTmp, Store
    <3>4. NoneToReload
      BY <1>0, <3>1, <3>3 DEF NoneToReload
    <3>5. Installed' = Installed
      BY <1>0, <3>2, <3>3 DEF Installed
    <3> QED
      BY <1>2, <3>1, <3>4, <3>5 DEF Accounted, JarAccounted
  <2>3. CASE WriteTmp(u)
    <3>1. ~raced /\ upload[u] = "opened"
      BY <2>3 DEF WriteTmp
    <3>2. fd[u] = u /\ jar # u
      BY <3>1 DEF OwnFile, Writing
    <3>3. /\ \E c : content' = [content EXCEPT ![u] = c]
          /\ jar' = jar /\ upload' = [upload EXCEPT ![u] = "written"]
      BY <2>3, <3>2 DEF WriteTmp, Store
    <3>4. NoneToReload
      BY <1>0, <3>1, <3>3 DEF NoneToReload
    <3>5. Installed' = Installed
      BY <1>0, <3>2, <3>3 DEF Installed
    <3> QED
      BY <1>2, <3>1, <3>4, <3>5 DEF Accounted, JarAccounted
  <2>4. ~RenameTmp(u)
    <3> SUFFICES ASSUME RenameTmp(u) PROVE FALSE
      OBVIOUS
    <3>1. ~raced /\ upload[u] = "written"
      BY DEF RenameTmp
    <3>2. tmp = u
      BY <3>1 DEF OwnFile, Writing
    <3>3. upload' = [upload EXCEPT ![u] = "reload"]
      BY <3>2 DEF RenameTmp, Store
    <3> QED
      BY <1>0, <3>3 DEF NoneToReload
  <2> QED
    BY <2>1, <2>2, <2>3, <2>4 DEF UploadStep
<1> QED
  BY <1>3, <1>4 DEF Accounted

\* A provider that is marked up tells the handler; one that comes back behind the
\* flag's back is unseen.
LEMMA ProviderAccounted ==
  ASSUME TypeOK, Accounted, OnReady \/ Provide \/ Answer \/ Fail
  PROVE  Accounted'
<1>1. UNCHANGED <<workerVars, jarVars, used>> /\ (due' = due \/ Reload)
  BY DEF OnReady, Provide, Answer, Fail, ProviderOnly
<1>2. (Kept' => Kept) /\ ~(OnReady /\ Kept')
  <2>1. UNCHANGED <<policy, cancelled>>
    BY <1>1 DEF workerVars
  <2>2. Kept' => Kept
    BY <1>1, <2>1 DEF Kept, Reload
  <2>3. OnReady => Reload
    BY DEF OnReady
  <2>4. (Kept' /\ Reload) => FALSE
    BY <2>1 DEF Kept, Reload
  <2> QED
    BY <2>2, <2>3, <2>4
<1>3. JarAccounted'
  <2>1. Installed' = Installed /\ (NoneToReload' <=> NoneToReload)
    BY <1>1 DEF Installed, NoneToReload, jarVars
  <2> QED
    BY <1>1, <1>2, <2>1 DEF Accounted, JarAccounted, workerVars, jarVars
<1>4. TokenAccounted'
  <2> SUFFICES ASSUME Kept, Kept', ~unseen', at \in Working, running', answering'
               PROVE  used.token \/ poll' = "ready"
    BY <1>1, <1>2 DEF TokenAccounted, workerVars
  <2>0. (~unseen /\ running /\ answering) => used.token \/ poll = "ready"
    BY DEF Accounted, TokenAccounted
  <2>1. CASE Provide
    <3>1. CASE Launch \/ Ping
      BY <2>0, <2>1, <3>1 DEF Provide, Launch, Ping, Process, Poll
    <3>2. ~Exited /\ ~PollMarkDown
      BY DEF Exited, PollMarkDown
    <3>3. CASE MarkUp
      BY <2>0, <2>1, <3>3 DEF Provide, MarkUp, Poll
    <3> QED
      BY <2>1, <3>1, <3>2, <3>3 DEF Provide, ProviderStep
  <2>2. ~Answer
    BY DEF Answer, ServerAnswers
  <2>3. ~Fail
    BY DEF Fail, ServerStops
  <2> QED
    BY <1>2, <2>1, <2>2, <2>3
<1> QED
  BY <1>3, <1>4 DEF Accounted

LEMMA WorkerAccounted ==
  ASSUME TypeOK, Accounted, WorkerStep
  PROVE  Accounted'
<1>0. /\ UNCHANGED <<potVars, jarVars, unseen>> /\ policy' = policy
  <2>1. UNCHANGED <<potVars, jarVars, unseen>>
    BY DEF WorkerStep, ResolveStarts, ResolveEnds, Retry, Refused, Opens, Open, NotOpened, Decode,
           Publish, Wedge, Panics, Cancel, Restart, Keeping, WorkerOnly, sources
  <2>2. CASE Opens
    BY <2>1, <2>2, OpeningStep DEF Opens, Open, NotOpened, TypeOK
  <2>3. CASE ~Opens
    BY <2>1, <2>3
       DEF WorkerStep, ResolveStarts, ResolveEnds, Retry, Refused, Decode, Publish, Wedge, Panics,
           Cancel, Restart, Announce, Resolved, Enter, AfterSession, CancelledInLoop, Leave,
           ResolveFails, Refuse, StreamBreaks, EndSession, LoopEnds, TimePasses, InSession, Close,
           PublishFrame, Panic, Backstop, NewWorker
  <2> QED
    BY <2>2, <2>3
<1>1. Installed' = Installed /\ (NoneToReload' <=> NoneToReload)
  BY <1>0 DEF Installed, NoneToReload, jarVars
<1>2. CASE ResolveStarts
  <2>1. at' = "resolve" /\ used'.jar = Installed
    BY <1>2 DEF ResolveStarts, Announce
  <2> QED
    BY <1>1, <2>1 DEF Accounted, JarAccounted, TokenAccounted, Working, Opening
<1>3. CASE ResolveEnds
  <2>1. /\ at = "resolve" /\ used' = [used EXCEPT !.token = answering] /\ due' = due
        /\ cancelled' = cancelled
    BY <1>3 DEF ResolveEnds, Resolved, Enter, WorkerOnly, sources
  <2>2. used \in [jar : SUBSET Uploaders, token : BOOLEAN] /\ answering \in BOOLEAN
    BY DEF TypeOK, PotTypeOK
  <2>3. used'.jar = used.jar /\ (answering => used'.token)
    BY <2>1, <2>2
  <2>4. JarAccounted'
    BY <1>0, <1>1, <2>1, <2>3 DEF Accounted, JarAccounted, Kept, jarVars
  <2>5. TokenAccounted'
    BY <1>0, <2>3 DEF TokenAccounted, potVars
  <2> QED
    BY <2>4, <2>5 DEF Accounted
<1>4. CASE Retry \/ Restart
  <2>1. at' \notin {"resolve"} \cup Working
    BY <1>4 DEF Working, Opening, Retry, AfterSession, FallBack, CancelledInLoop, Leave, Restart, NewWorker
  <2> QED
    BY <2>1 DEF Accounted, JarAccounted, TokenAccounted
<1>5. CASE Refused \/ Opens \/ Decode \/ Publish \/ Wedge \/ Panics \/ Cancel
  <2>1. /\ used' = used /\ due' = due /\ (~cancelled' => ~cancelled)
        /\ at' \in {"resolve"} \cup Working => at' = at \/ at \in Working
    <3>1. CASE Opens
      <4>1. at \in Opening /\ cancelled' = cancelled
        BY <3>1, OpeningStep DEF Opens, Open, NotOpened, TypeOK
      <4> QED
        BY <3>1, <4>1 DEF Opens, Open, NotOpened, Keeping, WorkerOnly, sources, Working
    <3>2. CASE ~Opens
      BY <1>5, <3>2
         DEF Refused, Decode, Publish, Wedge, Panics, Cancel, Keeping, WorkerOnly, sources,
             ResolveFails, Refuse, StreamBreaks, EndSession, LoopEnds, TimePasses, InSession, Close,
             PublishFrame, Panic, Backstop, Reading, Working, Opening
    <3> QED
      BY <3>1, <3>2
  <2>2. at' \in {"resolve"} \cup Working =>
          /\ at \in {"resolve"} \cup Working
          /\ at' \in Working => at \in Working
    BY <2>1
  <2>3. Kept' => Kept
    BY <1>0, <2>1 DEF Kept
  <2>4. JarAccounted'
    BY <1>0, <1>1, <2>1, <2>2, <2>3 DEF Accounted, JarAccounted, jarVars
  <2>5. TokenAccounted'
    BY <1>0, <2>1, <2>2, <2>3 DEF Accounted, TokenAccounted, potVars
  <2> QED
    BY <2>4, <2>5 DEF Accounted
<1> QED
  BY <1>2, <1>3, <1>4, <1>5 DEF WorkerStep

LEMMA SpecAccounted == Spec => []Accounted
<1>1. Init => Accounted
  BY DEF Init, WorkerInit, Accounted, JarAccounted, TokenAccounted, Working, Opening
<1>2. TypeOK /\ OwnFile /\ Accounted /\ [Next]_vars => Accounted'
  <2> SUFFICES ASSUME TypeOK, OwnFile, Accounted, [Next]_vars PROVE Accounted'
    OBVIOUS
  <2>1. CASE Next
    BY <2>1, JarStepAccounted, ProviderAccounted, WorkerAccounted DEF Next, WorkerStep, Opens
  <2>2. CASE UNCHANGED vars
    BY <2>2 DEF vars, sources, workerVars, potVars, jarVars, history, loopVars, Accounted, Kept,
                JarAccounted, TokenAccounted, NoneToReload, Installed
  <2> QED
    BY <2>1, <2>2
<1> QED
  BY <1>1, <1>2, SessionTypeOK, SpecOwnFile, PTL DEF Spec

\* SessionIsCurrent, for any number of uploads: a YouTube session that nobody is
\* about to replace uses the installed jar, which is one upload's whole file, and
\* a token when the provider is known to run (writeSecret, reloadYouTubeWorkers,
\* markUp and onReady), unless uploads overlapped or the server was away unseen.
THEOREM SessionStaysCurrent == Spec => []SessionIsCurrent
<1>1. TypeOK /\ OwnFile /\ Accounted => SessionIsCurrent
  <2> SUFFICES ASSUME TypeOK, OwnFile, Accounted, Rest, policy.kind = "youtube", InSessionNow
               PROVE  /\ ~raced => used.jar = Installed /\ Cardinality(used.jar) <= 1
                      /\ (running /\ answering /\ ~unseen) => used.token
    BY DEF SessionIsCurrent
  <2>1. Kept /\ poll # "ready" /\ at \in Working /\ NoneToReload
    BY DEF Rest, InSessionNow, Working, Kept, NoneToReload
  <2>2. ASSUME ~raced
        PROVE  used.jar = Installed /\ Cardinality(used.jar) <= 1
    <3>1. used.jar = Installed
      BY <2>1, <2>2 DEF Accounted, JarAccounted
    <3>2. Installed = {} \/ Installed = {jar}
      BY <2>2 DEF OwnFile, Installed
    <3>3. Cardinality({}) = 0 /\ Cardinality({jar}) = 1
      BY FS_EmptySet, FS_Singleton
    <3>4. Cardinality(Installed) = 0 \/ Cardinality(Installed) = 1
      BY <3>2, <3>3, Zenon
    <3> QED
      BY <3>1, <3>4
  <2>3. (running /\ answering /\ ~unseen) => used.token
    BY <2>1 DEF Accounted, TokenAccounted
  <2> QED
    BY <2>2, <2>3
<1> QED
  BY <1>1, SessionTypeOK, SpecOwnFile, SpecAccounted, PTL
=============================================================================
