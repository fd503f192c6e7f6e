----------------------------- MODULE Scheduler ------------------------------
(***************************************************************************)
(* The headless scheduler: internal/schedule/runtime.go.                   *)
(*                                                                         *)
(* One mutex guards the state.  HTTP handlers send commands and new        *)
(* strategies, a ticker calls Tick every 100 ms, and the clock runs on by  *)
(* itself between them.  Three timers run side by side: the tour steps     *)
(* from screen to screen, the playlist of a transition screen from item to *)
(* item, and a tile's sequence from source to source.                      *)
(*                                                                         *)
(* A timer is kept as its age, now minus its start, and no age is counted  *)
(* beyond Horizon: the code only ever asks whether a duration has passed.  *)
(* Decoder health and display metrics, which the scheduler stores and      *)
(* publishes but never acts upon, are not part of this module.             *)
(***************************************************************************)
EXTENDS Integers, Sequences

CONSTANTS
  ScreenIds,   \* ids of screens
  Strategies,  \* the snapshots strategy.Build may return
  Horizon      \* bound of the model: at least every dwell and transition

NoScreen == "none"

\* A screen is a playlist (items, loop, trans) or tiles, each with the dwells of
\* its sequence.  A transition is its duration, 0 for a cut.
Durations == 1..Horizon
ScreenSnap ==
  [items : Seq(Durations), loop : BOOLEAN, trans : 0..Horizon, tiles : Seq(Seq(Durations))]
TourEntry == [screen : ScreenIds, dwell : Durations, trans : 0..Horizon]

\* Nothing says that a tour's screens exist: Build reads the tour and the screens
\* in two queries, and a screen may be deleted between them.
ASSUME SchedulerAssumption ==
  /\ Horizon \in Nat \ {0}
  /\ NoScreen \notin ScreenIds
  /\ \A st \in Strategies :
       /\ st.enabled \in BOOLEAN /\ st.loop \in BOOLEAN
       /\ st.entries \in Seq(TourEntry)
       /\ DOMAIN st.screens \subseteq ScreenIds
       /\ \A s \in DOMAIN st.screens : st.screens[s] \in ScreenSnap

\* Before the first snapshot arrives there is nothing to show and no tour.
Nothing == [enabled |-> FALSE, loop |-> FALSE, entries |-> << >>, screens |-> << >>]

VARIABLES
  snap,          \* the strategy being served
  paused, pinned,
  tourIndex,     \* from 0, as in the code
  overrideScreen,
  phase, phaseAge,
  playlistIndex, playlistPhase, playlistAge,
  seq            \* position of each sequence that runs, by screen and tile

tourVars == <<tourIndex, phase, phaseAge>>
pinVars == <<pinned, overrideScreen>>
playlistVars == <<playlistIndex, playlistPhase, playlistAge>>
vars == <<snap, paused, pinVars, tourVars, playlistVars, seq>>

Init ==
  /\ snap = Nothing
  /\ paused = TRUE /\ pinned = FALSE /\ overrideScreen = NoScreen
  /\ tourIndex = 0 /\ phase = "dwell" /\ phaseAge = 0
  /\ playlistIndex = 0 /\ playlistPhase = "dwell" /\ playlistAge = 0
  /\ seq = << >>

-----------------------------------------------------------------------------
(* What is on, and what comes next.                                        *)

\* activeScreenIDLocked for a strategy, a pin and a tour index.  That it drops
\* the pin of a screen that is gone never happens: ApplyStrategy did so already.
ScreenAt(st, pin, i) ==
  IF pin # NoScreen THEN pin
  ELSE IF i < Len(st.entries) THEN st.entries[i + 1].screen
  ELSE NoScreen

ActiveScreen == ScreenAt(snap, overrideScreen, tourIndex)

\* Mutant: the last entry of a tour that does not loop is followed by the first.
PeekNextWrapping ==
  IF tourIndex + 1 < Len(snap.entries) THEN {snap.entries[tourIndex + 2]}
  ELSE IF snap.entries # << >> THEN {snap.entries[1]} ELSE {}

\* peekNextTourEntryLocked: the entry after this one, if there is one.
PeekNext ==
  IF tourIndex + 1 < Len(snap.entries) THEN {snap.entries[tourIndex + 2]}
  ELSE IF snap.loop /\ snap.entries # << >> THEN {snap.entries[1]} ELSE {}

\* nextScreenIDLocked: what the published state announces.
NextScreen ==
  IF Len(snap.entries) < 2 \/ paused \/ pinned \/ ~snap.enabled THEN NoScreen
  ELSE IF tourIndex + 1 < Len(snap.entries) THEN snap.entries[tourIndex + 2].screen
  ELSE IF snap.loop THEN snap.entries[1].screen
  ELSE NoScreen

-----------------------------------------------------------------------------
(* Starting over.                                                          *)

StartDwell == phase' = "dwell" /\ phaseAge' = 0
StartPlaylist == playlistIndex' = 0 /\ playlistPhase' = "dwell" /\ playlistAge' = 0

\* Screens of a strategy, the tiles of a screen that run a sequence.
Tiles(st, s) ==
  IF s \in DOMAIN st.screens
    THEN {k \in 1..Len(st.screens[s].tiles) : st.screens[s].tiles[k] # << >>}
    ELSE {}

\* resetSequencesLocked: only the screen that comes on keeps positions.
Rewind(st, s) == seq' = [key \in {s} \X Tiles(st, s) |-> [item |-> 0, age |-> 0]]

ShowFromStart(st, s) == StartDwell /\ StartPlaylist /\ Rewind(st, s)

-----------------------------------------------------------------------------
(* Commands.                                                               *)

FirstEntry(st, s) ==
  CHOOSE k \in 1..Len(st.entries) : /\ st.entries[k].screen = s
                                    /\ \A j \in 1..(k - 1) : st.entries[j].screen # s
InTour(st, s) == \E k \in 1..Len(st.entries) : st.entries[k].screen = s

\* Mutant: the tour stays where it was, although the entries are others now.
TourIndexAfterKept(st) == tourIndex

\* Where the tour stands after an edit: at the first entry of the screen that
\* is on, or at the start.
TourIndexAfter(st) ==
  IF InTour(st, ActiveScreen) THEN FirstEntry(st, ActiveScreen) - 1 ELSE 0

\* Mutant: the pin of a screen that was deleted is kept.
PinAfterKept(st) == overrideScreen

PinAfter(st) == IF overrideScreen \in DOMAIN st.screens THEN overrideScreen ELSE NoScreen

\* applyLocked with nothing to show: playlist timers and sequences stay as they are.
ApplyNothing(st) ==
  /\ st.entries = << >> /\ PinAfter(st) = NoScreen
  /\ pinned' = (pinned /\ overrideScreen = PinAfter(st)) /\ overrideScreen' = PinAfter(st)
  /\ tourIndex' = 0 /\ playlistIndex' = 0
  /\ StartDwell
  /\ paused' = TRUE
  /\ UNCHANGED <<playlistPhase, playlistAge, seq>>

\* applyLocked otherwise.  A tour that has just been enabled starts and drops the
\* pin -- after the sequences of the pinned screen were rewound.
ApplySomething(st) ==
  /\ st.entries # << >> \/ PinAfter(st) # NoScreen
  /\ tourIndex' = TourIndexAfter(st)
  /\ ShowFromStart(st, ScreenAt(st, PinAfter(st), TourIndexAfter(st)))
  /\ IF st.enabled /\ ~snap.enabled
       THEN paused' = FALSE /\ pinned' = FALSE /\ overrideScreen' = NoScreen
       ELSE /\ paused' = (paused \/ ~st.enabled)
            /\ pinned' = (pinned /\ overrideScreen = PinAfter(st))
            /\ overrideScreen' = PinAfter(st)

ApplyStrategy(st) == snap' = st /\ (ApplyNothing(st) \/ ApplySomething(st))

\* Mutant: Next and Previous leave the screen pinned.
StepTourPinned(delta) ==
  /\ snap.entries # << >>
  /\ LET i == (tourIndex + delta) % Len(snap.entries) IN
       /\ tourIndex' = i
       /\ ShowFromStart(snap, ScreenAt(snap, NoScreen, i))
  /\ overrideScreen' = NoScreen
  /\ UNCHANGED <<snap, paused, pinned>>

\* stepTourLocked: the pin goes, the hold stays.
StepTour(delta) ==
  /\ snap.entries # << >>
  /\ LET i == (tourIndex + delta) % Len(snap.entries) IN
       /\ tourIndex' = i
       /\ ShowFromStart(snap, ScreenAt(snap, NoScreen, i))
  /\ overrideScreen' = NoScreen /\ pinned' = FALSE
  /\ UNCHANGED <<snap, paused>>

\* Mutant: a transition under way goes on behind the pinned screen.
GotoMidTransition(s) ==
  /\ s \in DOMAIN snap.screens
  /\ overrideScreen' = s /\ pinned' = TRUE /\ paused' = TRUE
  /\ tourIndex' = IF InTour(snap, s) THEN FirstEntry(snap, s) - 1 ELSE tourIndex
  /\ StartPlaylist /\ Rewind(snap, s)
  /\ UNCHANGED <<snap, phase, phaseAge>>

Goto(s) ==
  /\ s \in DOMAIN snap.screens
  /\ overrideScreen' = s /\ pinned' = TRUE /\ paused' = TRUE
  /\ tourIndex' = IF InTour(snap, s) THEN FirstEntry(snap, s) - 1 ELSE tourIndex
  /\ ShowFromStart(snap, s)
  /\ UNCHANGED snap

Pause ==
  /\ paused' = TRUE
  /\ UNCHANGED <<snap, pinVars, tourVars, playlistVars, seq>>

\* Resume drops the pin but rewinds neither playlist nor sequences.
Resume ==
  /\ pinned' = FALSE /\ paused' = FALSE /\ overrideScreen' = NoScreen
  /\ StartDwell
  /\ UNCHANGED <<snap, tourIndex, playlistVars, seq>>

Command ==
  \/ \E st \in Strategies : ApplyStrategy(st)
  \/ \E delta \in {1, -1} : StepTour(delta)
  \/ \E s \in ScreenIds : Goto(s)
  \/ Pause \/ Resume

-----------------------------------------------------------------------------
(* Tick.                                                                   *)

\* advanceSequencesLocked: the sequences of the active screen move on, whether
\* the tour is held or not; one that never ran starts now.
Turn(dwells, pos) ==
  IF pos.age >= dwells[(pos.item % Len(dwells)) + 1]
    THEN [item |-> (pos.item + 1) % Len(dwells), age |-> 0]
    ELSE pos

Rotated ==
  LET on == {ActiveScreen} \X Tiles(snap, ActiveScreen) IN
  [key \in DOMAIN seq \cup on |->
     IF key \notin on THEN seq[key]
     ELSE Turn(snap.screens[key[1]].tiles[key[2]],
               IF key \in DOMAIN seq THEN seq[key] ELSE [item |-> 0, age |-> 0])]

\* Mutant: only the first sequence of a screen moves on.
RotateFirst ==
  seq' = [key \in DOMAIN Rotated |->
            IF key \in DOMAIN seq /\ \E k \in Tiles(snap, key[1]) : k < key[2]
              THEN seq[key] ELSE Rotated[key]]

RotateSequences == seq' = Rotated

\* advancePlaylistLocked.  The last item of a playlist that does not loop stays
\* on, though its phases go on alternating.
Playlist(sc) ==
  LET item == sc.items[(playlistIndex % Len(sc.items)) + 1]
      last == playlistIndex + 1 >= Len(sc.items)
      due == playlistAge >= (IF playlistPhase = "dwell" THEN item ELSE sc.trans)
  IN IF ~due THEN UNCHANGED playlistVars
     ELSE IF playlistPhase = "dwell" /\ sc.trans > 0
       THEN /\ playlistPhase' = "transition" /\ playlistAge' = 0
            /\ UNCHANGED playlistIndex
     ELSE IF last /\ ~sc.loop
       THEN playlistPhase' = "dwell" /\ UNCHANGED <<playlistIndex, playlistAge>>
       ELSE /\ playlistIndex' = IF last THEN 0 ELSE playlistIndex + 1
            /\ playlistPhase' = "dwell" /\ playlistAge' = 0

AdvancePlaylist ==
  IF ActiveScreen \in DOMAIN snap.screens /\ snap.screens[ActiveScreen].items # << >>
    THEN Playlist(snap.screens[ActiveScreen])
    ELSE UNCHANGED playlistVars

AdvanceScreen == RotateSequences /\ AdvancePlaylist

Touring == ~paused /\ ~pinned /\ snap.enabled /\ snap.entries # << >>
Entry == snap.entries[tourIndex + 1]
DwellOver == phase = "dwell" /\ phaseAge >= Entry.dwell
TransitionOver(next) == phase = "transition" /\ phaseAge >= next.trans

\* advanceTourIndexLocked wraps; mutant: the tour stays on its last entry.
NextIndexStaying == IF tourIndex + 1 < Len(snap.entries) THEN tourIndex + 1 ELSE tourIndex
NextIndex == IF tourIndex + 1 < Len(snap.entries) THEN tourIndex + 1 ELSE 0

\* The tour lands on the next entry when its transition is over, or at once when
\* that is a cut ...
Land ==
  /\ Touring
  /\ \E next \in PeekNext : (DwellOver /\ next.trans = 0) \/ TransitionOver(next)
  /\ tourIndex' = NextIndex
  /\ ShowFromStart(snap, ScreenAt(snap, overrideScreen, NextIndex))
  /\ UNCHANGED <<snap, paused, pinVars>>

\* ... begins that transition when the dwell is over ...
BeginTransition ==
  /\ Touring /\ DwellOver
  /\ \E next \in PeekNext : next.trans > 0
  /\ phase' = "transition" /\ phaseAge' = 0
  /\ AdvanceScreen
  /\ UNCHANGED <<snap, paused, pinVars, tourIndex>>

\* ... stops on the last entry of a tour that does not loop ...
EndTour ==
  /\ Touring /\ PeekNext = {} /\ (phase = "transition" \/ DwellOver)
  /\ paused' = TRUE /\ StartDwell
  /\ AdvanceScreen
  /\ UNCHANGED <<snap, pinVars, tourIndex>>

\* ... and waits otherwise.
Hold ==
  /\ Touring => /\ phase = "dwell" => ~DwellOver
                /\ phase = "transition" =>
                     PeekNext # {} /\ \A next \in PeekNext : ~TransitionOver(next)
  /\ AdvanceScreen
  /\ UNCHANGED <<snap, paused, pinVars, tourVars>>

Tick == Land \/ BeginTransition \/ EndTour \/ Hold

-----------------------------------------------------------------------------
\* The clock.
Older(age) == IF age < Horizon THEN age + 1 ELSE age
Elapse ==
  /\ phaseAge' = Older(phaseAge) /\ playlistAge' = Older(playlistAge)
  /\ seq' = [key \in DOMAIN seq |-> [seq[key] EXCEPT !.age = Older(@)]]
  /\ UNCHANGED <<snap, paused, pinVars, tourIndex, phase, playlistIndex, playlistPhase>>

Next == Command \/ Tick \/ Elapse

Spec == Init /\ [][Next]_vars

\* The ticker never stops and time passes.
FairSpec == Spec /\ WF_vars(Tick) /\ WF_vars(Elapse)

-----------------------------------------------------------------------------
(* Properties.                                                             *)

Phases == {"dwell", "transition"}
Ages == 0..Horizon
Positions == [item : Nat, age : Ages]

\* Every variable holds a value of its type; a pin is a screen that exists.
TypeOK ==
  /\ snap \in Strategies \cup {Nothing}
  /\ paused \in BOOLEAN /\ pinned \in BOOLEAN
  /\ overrideScreen \in DOMAIN snap.screens \cup {NoScreen}
  /\ tourIndex \in Nat /\ phase \in Phases /\ phaseAge \in Ages
  /\ playlistIndex \in Nat /\ playlistPhase \in Phases /\ playlistAge \in Ages
  /\ DOMAIN seq \subseteq (ScreenIds \cup {NoScreen}) \X Nat
  /\ \A key \in DOMAIN seq : seq[key] \in Positions

\* However strategies, steps and pins follow each other, the tour index points
\* at an entry: advanceLocked indexes the entries unchecked, in the ticker's
\* goroutine, and would take the whole program down.
TourIndexInRange == snap.entries # << >> => tourIndex < Len(snap.entries)

\* pinned and overrideScreen, two fields written in six places, never disagree,
\* and a pinned screen holds the tour.
PinHoldsTour == (pinned <=> overrideScreen # NoScreen) /\ (pinned => paused)

\* A transition under way has an entry to land on, one that is not a cut, and no
\* pin hides it: ComposeView draws that entry's screen without asking.
TransitionHasTarget ==
  phase = "transition" => /\ overrideScreen = NoScreen
                          /\ \E next \in PeekNext : next.trans > 0

\* The tour lands on the screen that was announced as the next one, and does not
\* move on when none was.
LandsAsAnnounced ==
  [][(Tick /\ tourIndex' # tourIndex) => ActiveScreen' = NextScreen]_vars

\* An edit of the strategy leaves the screen that is on, when the new tour holds
\* it, and when it is pinned, still exists and no tour is enabled by the edit.
KeepsScreen(st) ==
  \/ InTour(st, ActiveScreen)
  \/ pinned /\ overrideScreen \in DOMAIN st.screens /\ (st.enabled => snap.enabled)
EditKeepsScreen ==
  [][(snap' # snap /\ KeepsScreen(snap')) => ActiveScreen' = ActiveScreen]_vars

\* Nobody sends a command or a strategy any more.
Quiet == <>[][Tick \/ Elapse]_vars

\* "A tour can loop indefinitely": left alone, it shows each of its screens again
\* and again.
TourGoesRound ==
  \A s \in ScreenIds :
    (Quiet /\ <>[](Touring /\ snap.loop /\ InTour(snap, s))) => []<>(ActiveScreen = s)

\* Sequences rotate on their own timers: while a screen is pinned, or on with the
\* tour held, over or switched off, every tile shows every item of its sequence
\* again and again, whatever the other tiles do.
Shows(s, k, i) == <<s, k>> \in DOMAIN seq /\ seq[<<s, k>>].item = i
Items(st, s, k) == 0..(Len(st.screens[s].tiles[k]) - 1)
SequencesRotate ==
  \A st \in Strategies : \A s \in DOMAIN st.screens :
    \A k \in Tiles(st, s) : \A i \in Items(st, s, k) :
      (Quiet /\ <>[](snap = st /\ ActiveScreen = s /\ ~Touring)) => []<>Shows(s, k, i)

\* "They are not synchronised with each other or with the tour": the same while
\* the tour runs, as long as the screen is the one on.
SequencesIgnoreTour ==
  \A st \in Strategies : \A s \in DOMAIN st.screens :
    \A k \in Tiles(st, s) : \A i \in Items(st, s, k) :
      (Quiet /\ <>[](snap = st /\ ActiveScreen = s)) => []<>Shows(s, k, i)

\* "Pause -- Hold the current state": the tour's screen on the wall is that of
\* the current entry, or of the next one once its transition is over.
OnTheWall ==
  IF \E next \in PeekNext : TransitionOver(next)
    THEN (CHOOSE next \in PeekNext : TRUE).screen ELSE ActiveScreen
PauseHoldsTheWall == [][(paused /\ (Tick \/ Elapse)) => OnTheWall' = OnTheWall]_vars
=============================================================================
