--------------------------- MODULE SchedulerProofs ---------------------------
(***************************************************************************)
(* Proofs about the scheduler, for every set of strategies: any number of  *)
(* screens, tours of any length, any dwells and transitions.               *)
(*                                                                         *)
(* The invariant joins four facts that need each other.  A tour that is    *)
(* landed on or stepped keeps its index inside the entries; a transition   *)
(* has an entry to land on because everything that changes the entries,    *)
(* the index or the pin starts a new dwell; the two fields of a pin are    *)
(* written together; and a pin is a screen of the strategy being served.   *)
(***************************************************************************)
EXTENDS Scheduler, NumberFacts, SequenceTheorems, TLAPS

PinExists == overrideScreen \in DOMAIN snap.screens \cup {NoScreen}
ControlTypes ==
  /\ snap \in Strategies \cup {Nothing}
  /\ paused \in BOOLEAN /\ pinned \in BOOLEAN
  /\ tourIndex \in Nat /\ phase \in Phases

SchedulerInv ==
  /\ ControlTypes /\ PinExists
  /\ TourIndexInRange /\ PinHoldsTour /\ TransitionHasTarget

-----------------------------------------------------------------------------
(* Strategies.                                                             *)

LEMMA StrategyShape ==
  ASSUME NEW st \in Strategies \cup {Nothing}
  PROVE  /\ st.enabled \in BOOLEAN /\ st.loop \in BOOLEAN
         /\ st.entries \in Seq(TourEntry) /\ Len(st.entries) \in Nat
         /\ st.entries = << >> <=> Len(st.entries) = 0
         /\ NoScreen \notin DOMAIN st.screens
         /\ \A k \in 1..Len(st.entries) : st.entries[k] \in TourEntry
<1>1. CASE st = Nothing
  <2>1. st.entries = << >> /\ st.screens = << >> /\ st.enabled = FALSE /\ st.loop = FALSE
    BY <1>1 DEF Nothing
  <2>2. << >> \in Seq(TourEntry) /\ Len(<< >>) = 0 /\ 1..0 = {}
    BY EmptySeq
  <2>3. DOMAIN << >> = {}
    OBVIOUS
  <2> QED BY <2>1, <2>2, <2>3
<1>2. CASE st \in Strategies
  <2>1. /\ st.enabled \in BOOLEAN /\ st.loop \in BOOLEAN /\ st.entries \in Seq(TourEntry)
        /\ DOMAIN st.screens \subseteq ScreenIds /\ NoScreen \notin ScreenIds
    BY <1>2, SchedulerAssumption
  <2>2. Len(st.entries) \in Nat /\ \A k \in 1..Len(st.entries) : st.entries[k] \in TourEntry
    BY <2>1, LenProperties, ElementOfSeq
  <2>3. st.entries = << >> <=> Len(st.entries) = 0
    BY <2>1, EmptySeq
  <2> QED BY <2>1, <2>2, <2>3
<1> QED BY <1>1, <1>2

\* The first entry of a screen in the tour is an entry.
LEMMA FirstEntryExists ==
  ASSUME NEW st \in Strategies \cup {Nothing}, NEW s, InTour(st, s)
  PROVE  FirstEntry(st, s) \in 1..Len(st.entries) /\ st.entries[FirstEntry(st, s)].screen = s
<1> DEFINE T == {k \in 1..Len(st.entries) : st.entries[k].screen = s}
<1>1. Len(st.entries) \in Nat
  BY StrategyShape
<1>2. T \in SUBSET Nat /\ T # {}
  BY <1>1 DEF InTour
<1>3. PICK k \in T : \A j \in T : k <= j
  <2> HIDE DEF T
  <2> QED BY <1>2, LeastElement
<1>4. /\ k \in 1..Len(st.entries) /\ st.entries[k].screen = s
      /\ \A j \in 1..(k - 1) : st.entries[j].screen # s
  <2>1. k \in 1..Len(st.entries) /\ st.entries[k].screen = s
    BY <1>3
  <2>2. ASSUME NEW j \in 1..(k - 1) PROVE st.entries[j].screen # s
    <3>1. j \in 1..Len(st.entries) /\ ~ (k <= j)
      BY <1>1, <2>1, <2>2
    <3> QED BY <1>3, <3>1
  <2> QED BY <2>1, <2>2
<1> QED BY <1>4 DEF FirstEntry

LEMMA TourIndexAfterInRange ==
  ASSUME NEW st \in Strategies \cup {Nothing}
  PROVE  /\ TourIndexAfter(st) \in Nat
         /\ st.entries # << >> => TourIndexAfter(st) < Len(st.entries)
<1>1. Len(st.entries) \in Nat /\ (st.entries = << >> <=> Len(st.entries) = 0)
  BY StrategyShape
<1>2. CASE InTour(st, ActiveScreen)
  <2>1. FirstEntry(st, ActiveScreen) \in 1..Len(st.entries)
    BY <1>2, FirstEntryExists
  <2> QED BY <1>1, <1>2, <2>1 DEF TourIndexAfter
<1>3. CASE ~InTour(st, ActiveScreen)
  BY <1>1, <1>3 DEF TourIndexAfter
<1> QED BY <1>2, <1>3

-----------------------------------------------------------------------------
(* The invariant.                                                          *)

LEMMA InitSchedulerInv == Init => SchedulerInv
<1> SUFFICES ASSUME Init PROVE SchedulerInv
  OBVIOUS
<1>1. snap.entries = << >>
  BY DEF Init, Nothing
<1> QED
  BY <1>1 DEF Init, SchedulerInv, ControlTypes, PinExists, TourIndexInRange, PinHoldsTour,
              TransitionHasTarget, Phases

\* Whatever starts a new dwell owes nothing to a transition.
LEMMA DwellHasNoTarget == ASSUME StartDwell PROVE phase' \in Phases /\ TransitionHasTarget'
BY DEF StartDwell, Phases, TransitionHasTarget

LEMMA ApplyNothingKeepsInv ==
  ASSUME SchedulerInv, NEW st \in Strategies, snap' = st, ApplyNothing(st)
  PROVE  SchedulerInv'
<1>1. phase' \in Phases /\ TransitionHasTarget'
  BY DwellHasNoTarget DEF ApplyNothing
<1>2. PinAfter(st) = NoScreen /\ st.entries = << >>
  BY DEF ApplyNothing
<1>3. ControlTypes' /\ PinExists' /\ TourIndexInRange'
  BY <1>1, <1>2 DEF ApplyNothing, ControlTypes, PinExists, TourIndexInRange, SchedulerInv
<1>4. PinHoldsTour'
  BY <1>2 DEF ApplyNothing, PinHoldsTour, SchedulerInv
<1> QED BY <1>1, <1>3, <1>4 DEF SchedulerInv

LEMMA ApplySomethingKeepsInv ==
  ASSUME SchedulerInv, NEW st \in Strategies, snap' = st, ApplySomething(st)
  PROVE  SchedulerInv'
<1>1. phase' \in Phases /\ TransitionHasTarget'
  BY DwellHasNoTarget DEF ApplySomething, ShowFromStart
<1>2. /\ tourIndex' \in Nat
      /\ TourIndexInRange'
  BY TourIndexAfterInRange DEF ApplySomething, TourIndexInRange
<1>3. /\ st.enabled \in BOOLEAN /\ snap.enabled \in BOOLEAN
      /\ NoScreen \notin DOMAIN st.screens
  BY StrategyShape DEF SchedulerInv, ControlTypes
<1>4. PinAfter(st) \in DOMAIN st.screens \cup {NoScreen}
  BY DEF PinAfter
<1>5. PinExists' /\ PinHoldsTour' /\ paused' \in BOOLEAN /\ pinned' \in BOOLEAN
  <2>1. CASE st.enabled /\ ~snap.enabled
    BY <2>1 DEF ApplySomething, PinExists, PinHoldsTour
  <2>2. CASE ~(st.enabled /\ ~snap.enabled)
    <3>1. /\ paused' = (paused \/ ~st.enabled)
          /\ pinned' = (pinned /\ overrideScreen = PinAfter(st))
          /\ overrideScreen' = PinAfter(st)
      BY <2>2 DEF ApplySomething
    <3>2. PinAfter(st) # NoScreen => PinAfter(st) = overrideScreen
      BY DEF PinAfter
    <3>3. PinHoldsTour /\ paused \in BOOLEAN /\ pinned \in BOOLEAN
      BY DEF SchedulerInv, ControlTypes
    <3>4. PinExists'
      BY <3>1, <1>4 DEF PinExists
    <3>5. PinHoldsTour'
      <4>1. pinned' => pinned /\ overrideScreen' # NoScreen
        BY <3>1, <3>3, Zenon DEF PinHoldsTour
      <4>2. overrideScreen' # NoScreen => pinned'
        BY <3>1, <3>2, <3>3, Zenon DEF PinHoldsTour
      <4>3. pinned => paused'
        BY <3>1, <3>3, Zenon DEF PinHoldsTour
      <4> QED BY <4>1, <4>2, <4>3, Zenon DEF PinHoldsTour
    <3>6. paused' \in BOOLEAN /\ pinned' \in BOOLEAN
      BY <3>1, <3>3, Zenon
    <3> QED BY <3>4, <3>5, <3>6
  <2> QED BY <2>1, <2>2
<1> QED BY <1>1, <1>2, <1>5 DEF SchedulerInv, ControlTypes

LEMMA StepTourKeepsInv ==
  ASSUME SchedulerInv, NEW delta \in {1, -1}, StepTour(delta)
  PROVE  SchedulerInv'
<1>1. phase' \in Phases /\ TransitionHasTarget'
  BY DwellHasNoTarget DEF StepTour, ShowFromStart
<1>2. Len(snap.entries) \in Nat /\ Len(snap.entries) > 0
  BY StrategyShape DEF StepTour, SchedulerInv, ControlTypes
<1>3. tourIndex' \in Nat /\ tourIndex' < Len(snap.entries)
  <2>1. tourIndex + delta \in Int
    BY DEF SchedulerInv, ControlTypes
  <2>2. \A a \in Int : \A n \in Nat : n > 0 => a % n \in 0..(n - 1)
    OBVIOUS
  <2>3. tourIndex' = (tourIndex + delta) % Len(snap.entries)
    BY DEF StepTour
  <2> QED BY <1>2, <2>1, <2>2, <2>3
<1> QED
  BY <1>1, <1>3 DEF StepTour, SchedulerInv, ControlTypes, PinExists, TourIndexInRange,
                    PinHoldsTour

LEMMA GotoKeepsInv ==
  ASSUME SchedulerInv, NEW s \in ScreenIds, Goto(s)
  PROVE  SchedulerInv'
<1>1. phase' \in Phases /\ TransitionHasTarget'
  BY DwellHasNoTarget DEF Goto, ShowFromStart
<1>2. snap \in Strategies \cup {Nothing} /\ Len(snap.entries) \in Nat
  BY StrategyShape DEF SchedulerInv, ControlTypes
<1>3. tourIndex' \in Nat /\ TourIndexInRange'
  <2>1. CASE InTour(snap, s)
    BY <1>2, <2>1, FirstEntryExists DEF Goto, TourIndexInRange
  <2>2. CASE ~InTour(snap, s)
    BY <2>2 DEF Goto, TourIndexInRange, SchedulerInv, ControlTypes
  <2> QED BY <2>1, <2>2
<1>4. s # NoScreen
  BY SchedulerAssumption
<1> QED
  BY <1>1, <1>3, <1>4 DEF Goto, SchedulerInv, ControlTypes, PinExists, PinHoldsTour

LEMMA ResumeKeepsInv == ASSUME SchedulerInv, Resume PROVE SchedulerInv'
<1>1. phase' \in Phases /\ TransitionHasTarget'
  BY DwellHasNoTarget DEF Resume
<1> QED
  BY <1>1 DEF Resume, SchedulerInv, ControlTypes, PinExists, TourIndexInRange, PinHoldsTour

LEMMA LandKeepsInv == ASSUME SchedulerInv, Land PROVE SchedulerInv'
<1>1. phase' \in Phases /\ TransitionHasTarget'
  BY DwellHasNoTarget DEF Land, ShowFromStart
<1>2. Len(snap.entries) \in Nat /\ Len(snap.entries) > 0
  BY StrategyShape DEF Land, Touring, SchedulerInv, ControlTypes
<1>3. tourIndex' \in Nat /\ tourIndex' < Len(snap.entries)
  BY <1>2 DEF Land, NextIndex, SchedulerInv, ControlTypes
<1> QED
  BY <1>1, <1>3 DEF Land, SchedulerInv, ControlTypes, PinExists, TourIndexInRange,
                    PinHoldsTour, pinVars

LEMMA BeginTransitionKeepsInv == ASSUME SchedulerInv, BeginTransition PROVE SchedulerInv'
<1>1. phase' = "transition" /\ PeekNext' = PeekNext
  BY DEF BeginTransition, PeekNext
<1>2. overrideScreen = NoScreen
  BY DEF BeginTransition, Touring, SchedulerInv, PinHoldsTour
<1>3. TransitionHasTarget'
  BY <1>1, <1>2 DEF BeginTransition, TransitionHasTarget, pinVars
<1> QED
  BY <1>1, <1>3 DEF BeginTransition, SchedulerInv, ControlTypes, PinExists,
                    TourIndexInRange, PinHoldsTour, Phases, pinVars

LEMMA EndTourKeepsInv == ASSUME SchedulerInv, EndTour PROVE SchedulerInv'
<1>1. phase' \in Phases /\ TransitionHasTarget'
  BY DwellHasNoTarget DEF EndTour
<1> QED
  BY <1>1 DEF EndTour, SchedulerInv, ControlTypes, PinExists, TourIndexInRange,
              PinHoldsTour, pinVars

\* Pause, a tick that only turns playlist and sequences, the clock: the tour, the
\* pin and the strategy stay, and a hold can only be added.
LEMMA QuietStepKeepsInv ==
  ASSUME SchedulerInv, UNCHANGED <<snap, pinVars, tourIndex, phase>>,
         paused' = paused \/ paused' = TRUE
  PROVE  SchedulerInv'
<1>1. PeekNext' = PeekNext
  BY DEF PeekNext
<1>2. TransitionHasTarget'
  BY <1>1 DEF SchedulerInv, TransitionHasTarget, pinVars
<1> QED
  BY <1>2 DEF SchedulerInv, ControlTypes, PinExists, TourIndexInRange, PinHoldsTour, pinVars

LEMMA NextSchedulerInv == SchedulerInv /\ [Next]_vars => SchedulerInv'
<1> SUFFICES ASSUME SchedulerInv, [Next]_vars PROVE SchedulerInv'
  OBVIOUS
<1>1. ASSUME NEW st \in Strategies, ApplyStrategy(st) PROVE SchedulerInv'
  BY <1>1, ApplyNothingKeepsInv, ApplySomethingKeepsInv DEF ApplyStrategy
<1>2. ASSUME NEW delta \in {1, -1}, StepTour(delta) PROVE SchedulerInv'
  BY <1>2, StepTourKeepsInv
<1>3. ASSUME NEW s \in ScreenIds, Goto(s) PROVE SchedulerInv'
  BY <1>3, GotoKeepsInv
<1>4. CASE Pause
  BY <1>4, QuietStepKeepsInv DEF Pause, tourVars
<1>5. CASE Resume
  BY <1>5, ResumeKeepsInv
<1>6. CASE Land
  BY <1>6, LandKeepsInv
<1>7. CASE BeginTransition
  BY <1>7, BeginTransitionKeepsInv
<1>8. CASE EndTour
  BY <1>8, EndTourKeepsInv
<1>9. CASE Hold
  BY <1>9, QuietStepKeepsInv DEF Hold, tourVars
<1>10. CASE Elapse
  BY <1>10, QuietStepKeepsInv DEF Elapse
<1>11. CASE UNCHANGED vars
  BY <1>11, QuietStepKeepsInv DEF vars, tourVars
<1> QED
  BY <1>1, <1>2, <1>3, <1>4, <1>5, <1>6, <1>7, <1>8, <1>9, <1>10, <1>11
     DEF Next, Command, Tick

LEMMA SchedulerInvHolds == Spec => []SchedulerInv
BY InitSchedulerInv, NextSchedulerInv, PTL DEF Spec

-----------------------------------------------------------------------------
(* The theorems.                                                           *)

\* advanceLocked and ComposeView never index the tour outside its entries, under
\* any strategies and any order of edits, steps, pins and ticks.
THEOREM TourIndexStaysInRange == Spec => []TourIndexInRange
<1>1. SchedulerInv => TourIndexInRange
  BY DEF SchedulerInv
<1> QED BY <1>1, SchedulerInvHolds, PTL

\* The two fields of a pin agree and a pin always holds the tour.
THEOREM PinAlwaysHoldsTour == Spec => []PinHoldsTour
<1>1. SchedulerInv => PinHoldsTour
  BY DEF SchedulerInv
<1> QED BY <1>1, SchedulerInvHolds, PTL

\* A transition under way always has an entry to land on and no pin above it.
THEOREM TransitionAlwaysHasTarget == Spec => []TransitionHasTarget
<1>1. SchedulerInv => TransitionHasTarget
  BY DEF SchedulerInv
<1> QED BY <1>1, SchedulerInvHolds, PTL

-----------------------------------------------------------------------------
(* Where the tour goes.                                                    *)

\* Only Land moves the index of a tour in a tick.
LEMMA LandGoesToNextScreen ==
  ASSUME SchedulerInv, Land, tourIndex' # tourIndex
  PROVE  ActiveScreen' = NextScreen
<1>1. /\ Touring /\ PeekNext # {} /\ tourIndex' = NextIndex
      /\ snap' = snap /\ overrideScreen' = overrideScreen
  BY DEF Land, pinVars
<1>2. ~paused /\ ~pinned /\ snap.enabled /\ overrideScreen = NoScreen
  BY <1>1 DEF Touring, SchedulerInv, PinHoldsTour
<1>3. /\ Len(snap.entries) \in Nat /\ tourIndex \in Nat
      /\ tourIndex < Len(snap.entries)
  BY <1>1, StrategyShape DEF Touring, SchedulerInv, ControlTypes, TourIndexInRange
<1>4. CASE tourIndex + 1 < Len(snap.entries)
  <2>1. NextIndex = tourIndex + 1 /\ Len(snap.entries) >= 2
    BY <1>3, <1>4 DEF NextIndex
  <2>2. ActiveScreen' = snap.entries[tourIndex + 2].screen
    BY <1>1, <1>2, <1>3, <1>4, <2>1 DEF ActiveScreen, ScreenAt
  <2> QED BY <1>2, <1>3, <1>4, <2>1, <2>2 DEF NextScreen
<1>5. CASE ~(tourIndex + 1 < Len(snap.entries))
  <2>1. NextIndex = 0 /\ Len(snap.entries) >= 2
    BY <1>1, <1>3, <1>5 DEF NextIndex
  <2>2. snap.loop
    BY <1>1, <1>5 DEF PeekNext
  <2>3. ActiveScreen' = snap.entries[1].screen
    BY <1>1, <1>2, <1>3, <2>1 DEF ActiveScreen, ScreenAt
  <2> QED BY <1>2, <1>3, <1>5, <2>1, <2>2, <2>3 DEF NextScreen
<1> QED BY <1>4, <1>5

\* The published next screen is the one the tour lands on.
THEOREM TourLandsAsAnnounced == Spec => LandsAsAnnounced
<1>1. SchedulerInv /\ [Next]_vars
        => [(Tick /\ tourIndex' # tourIndex) => ActiveScreen' = NextScreen]_vars
  <2> SUFFICES ASSUME SchedulerInv, Tick, tourIndex' # tourIndex
               PROVE  ActiveScreen' = NextScreen
    OBVIOUS
  <2>1. Land
    BY DEF Tick, BeginTransition, EndTour, Hold, tourVars
  <2> QED BY <2>1, LandGoesToNextScreen
<1> QED BY <1>1, SchedulerInvHolds, PTL DEF Spec, LandsAsAnnounced

-----------------------------------------------------------------------------
(* Edits.                                                                  *)

LEMMA ApplyKeepsScreen ==
  ASSUME SchedulerInv, NEW st \in Strategies, snap' = st, ApplySomething(st), KeepsScreen(st)
  PROVE  ActiveScreen' = ActiveScreen
<1>1. /\ NoScreen \notin DOMAIN st.screens
      /\ Len(st.entries) \in Nat
      /\ st.enabled \in BOOLEAN /\ snap.enabled \in BOOLEAN
  BY StrategyShape DEF SchedulerInv, ControlTypes
<1>2. tourIndex' = TourIndexAfter(st)
  BY DEF ApplySomething
<1>3. CASE InTour(st, ActiveScreen)
  <2>1. /\ FirstEntry(st, ActiveScreen) \in 1..Len(st.entries)
        /\ st.entries[FirstEntry(st, ActiveScreen)].screen = ActiveScreen
    BY <1>3, FirstEntryExists
  <2>2. TourIndexAfter(st) + 1 = FirstEntry(st, ActiveScreen)
        /\ TourIndexAfter(st) < Len(st.entries)
    BY <1>1, <1>3, <2>1 DEF TourIndexAfter
  <2>3. overrideScreen' = NoScreen \/ overrideScreen' = overrideScreen
    BY DEF ApplySomething, PinAfter
  <2>4. CASE overrideScreen' = NoScreen
    BY <1>2, <2>1, <2>2, <2>4 DEF ActiveScreen, ScreenAt
  <2>5. CASE overrideScreen' # NoScreen
    BY <2>3, <2>5 DEF ActiveScreen, ScreenAt
  <2> QED BY <2>4, <2>5
<1>4. CASE pinned /\ overrideScreen \in DOMAIN st.screens /\ (st.enabled => snap.enabled)
  <2>1. overrideScreen' = overrideScreen /\ overrideScreen # NoScreen
    BY <1>1, <1>4 DEF ApplySomething, PinAfter
  <2> QED BY <2>1 DEF ActiveScreen, ScreenAt
<1> QED BY <1>3, <1>4 DEF KeepsScreen

\* An edit leaves the screen that is on wherever the new strategy allows it.
THEOREM EditsKeepScreen == Spec => EditKeepsScreen
<1>1. SchedulerInv /\ [Next]_vars
        => [(snap' # snap /\ KeepsScreen(snap')) => ActiveScreen' = ActiveScreen]_vars
  <2> SUFFICES ASSUME SchedulerInv, Next, snap' # snap, KeepsScreen(snap')
               PROVE  ActiveScreen' = ActiveScreen
    OBVIOUS
  <2>1. PICK st \in Strategies : ApplyStrategy(st)
    BY DEF Next, Command, StepTour, Goto, Pause, Resume, Tick, Land, BeginTransition,
           EndTour, Hold, Elapse
  <2>2. CASE ApplySomething(st)
    BY <2>1, <2>2, ApplyKeepsScreen DEF ApplyStrategy
  <2>3. CASE ApplyNothing(st)
    <3>1. ~InTour(st, ActiveScreen)
      <4>1. Len(st.entries) = 0
        BY <2>3, StrategyShape DEF ApplyNothing
      <4> QED BY <4>1 DEF InTour
    <3>2. ~(pinned /\ overrideScreen \in DOMAIN st.screens)
      <4>1. NoScreen \notin DOMAIN st.screens
        BY StrategyShape
      <4> QED BY <2>3, <4>1 DEF ApplyNothing, PinAfter
    <3> QED BY <2>1, <3>1, <3>2 DEF ApplyStrategy, KeepsScreen
  <2> QED BY <2>1, <2>2, <2>3 DEF ApplyStrategy
<1> QED BY <1>1, SchedulerInvHolds, PTL DEF Spec, EditKeepsScreen

-----------------------------------------------------------------------------
(* Type correctness.                                                       *)

TimerTypes ==
  /\ phaseAge \in Ages
  /\ playlistIndex \in Nat /\ playlistPhase \in Phases /\ playlistAge \in Ages
SeqTypes ==
  /\ DOMAIN seq \subseteq (ScreenIds \cup {NoScreen}) \X Nat
  /\ \A key \in DOMAIN seq : seq[key] \in Positions

LEMMA AgesGrow == /\ 0 \in Ages
                  /\ \A age \in Ages : Older(age) \in Ages
BY SchedulerAssumption DEF Ages, Older

\* The screen that is on is a screen, or none.
LEMMA ScreenAtIsScreen ==
  ASSUME NEW st \in Strategies \cup {Nothing}, NEW pin \in ScreenIds \cup {NoScreen},
         NEW i \in Nat
  PROVE  ScreenAt(st, pin, i) \in ScreenIds \cup {NoScreen}
<1>1. Len(st.entries) \in Nat
      /\ \A k \in 1..Len(st.entries) : st.entries[k] \in TourEntry
  BY StrategyShape
<1>2. i < Len(st.entries) => st.entries[i + 1].screen \in ScreenIds
  <2> SUFFICES ASSUME i < Len(st.entries) PROVE st.entries[i + 1].screen \in ScreenIds
    OBVIOUS
  <2>1. st.entries[i + 1] \in TourEntry
    BY <1>1
  <2> QED BY <2>1 DEF TourEntry
<1> QED BY <1>2 DEF ScreenAt

LEMMA PinIsScreen ==
  ASSUME NEW st \in Strategies \cup {Nothing}
  PROVE  DOMAIN st.screens \subseteq ScreenIds
<1>1. CASE st = Nothing
  <2>1. st.screens = << >> /\ DOMAIN << >> = {}
    BY <1>1 DEF Nothing
  <2> QED BY <2>1
<1>2. CASE st \in Strategies
  BY <1>2, SchedulerAssumption
<1> QED BY <1>1, <1>2

LEMMA RewindTypes ==
  ASSUME NEW st, NEW s \in ScreenIds \cup {NoScreen}, Rewind(st, s),
         Tiles(st, s) \subseteq Nat
  PROVE  SeqTypes'
<1>1. /\ DOMAIN seq' = {s} \X Tiles(st, s)
      /\ \A key \in DOMAIN seq' : seq'[key] = [item |-> 0, age |-> 0]
  BY DEF Rewind
<1>2. [item |-> 0, age |-> 0] \in Positions
  BY AgesGrow DEF Positions
<1> QED BY <1>1, <1>2 DEF SeqTypes

\* The tiles of a screen and their sequences.
LEMMA TilesShape ==
  ASSUME NEW st \in Strategies \cup {Nothing}, NEW s
  PROVE  /\ Tiles(st, s) \subseteq Nat
         /\ \A k \in Tiles(st, s) : Len(st.screens[s].tiles[k]) \in Nat \ {0}
<1>1. CASE s \notin DOMAIN st.screens
  BY <1>1 DEF Tiles
<1>2. CASE s \in DOMAIN st.screens
  <2>1. st \in Strategies
    <3>1. ASSUME st = Nothing PROVE FALSE
      <4>1. st.screens = << >> /\ DOMAIN << >> = {}
        BY <3>1 DEF Nothing
      <4> QED BY <4>1, <1>2
    <3> QED BY <3>1
  <2>2. st.screens[s].tiles \in Seq(Seq(Durations))
    BY <1>2, <2>1, SchedulerAssumption DEF ScreenSnap
  <2>3. Len(st.screens[s].tiles) \in Nat
        /\ \A k \in 1..Len(st.screens[s].tiles) : st.screens[s].tiles[k] \in Seq(Durations)
    BY <2>2, LenProperties, ElementOfSeq
  <2>4. ASSUME NEW k \in Tiles(st, s)
        PROVE  k \in Nat /\ Len(st.screens[s].tiles[k]) \in Nat \ {0}
    <3>1. k \in 1..Len(st.screens[s].tiles) /\ st.screens[s].tiles[k] # << >>
      BY <1>2 DEF Tiles
    <3>2. st.screens[s].tiles[k] \in Seq(Durations)
      BY <2>3, <3>1
    <3> QED BY <2>3, <3>1, <3>2, EmptySeq, LenProperties
  <2> QED BY <2>4
<1> QED BY <1>1, <1>2

LEMMA TurnTypes ==
  ASSUME NEW dwells, Len(dwells) \in Nat \ {0}, NEW pos \in Positions
  PROVE  Turn(dwells, pos) \in Positions
<1>1. pos.item \in Nat /\ (pos.item + 1) % Len(dwells) \in Nat
  <2>1. pos.item \in Nat
    BY DEF Positions
  <2>2. \A a \in Int : \A n \in Nat : n > 0 => a % n \in 0..(n - 1)
    OBVIOUS
  <2> QED BY <2>1, <2>2
<1> QED BY <1>1, AgesGrow DEF Turn, Positions

LEMMA ActiveIsScreen ==
  ASSUME SchedulerInv
  PROVE  /\ snap \in Strategies \cup {Nothing}
         /\ ActiveScreen \in ScreenIds \cup {NoScreen}
<1>1. snap \in Strategies \cup {Nothing} /\ tourIndex \in Nat
      /\ overrideScreen \in DOMAIN snap.screens \cup {NoScreen}
  BY DEF SchedulerInv, ControlTypes, PinExists
<1>2. overrideScreen \in ScreenIds \cup {NoScreen}
  BY <1>1, PinIsScreen
<1> QED BY <1>1, <1>2, ScreenAtIsScreen DEF ActiveScreen

LEMMA RotateTypes == ASSUME SchedulerInv, SeqTypes, RotateSequences PROVE SeqTypes'
<1> DEFINE on == {ActiveScreen} \X Tiles(snap, ActiveScreen)
<1> DEFINE start == [item |-> 0, age |-> 0]
<1>1. snap \in Strategies \cup {Nothing} /\ ActiveScreen \in ScreenIds \cup {NoScreen}
  BY ActiveIsScreen
<1>2. on \subseteq (ScreenIds \cup {NoScreen}) \X Nat
  BY <1>1, TilesShape
<1>3. DOMAIN seq' = DOMAIN seq \cup on
  BY DEF RotateSequences, Rotated
<1>4. ASSUME NEW key \in DOMAIN seq' PROVE seq'[key] \in Positions
  <2>1. CASE key \notin on
    BY <1>3, <2>1 DEF RotateSequences, Rotated, SeqTypes
  <2>2. CASE key \in on
    <3> DEFINE pos == IF key \in DOMAIN seq THEN seq[key] ELSE start
    <3>1. pos \in Positions
      BY AgesGrow DEF SeqTypes, Positions
    <3>2. seq'[key] = Turn(snap.screens[key[1]].tiles[key[2]], pos)
      BY <1>3, <2>2 DEF RotateSequences, Rotated
    <3>3. key[1] = ActiveScreen /\ key[2] \in Tiles(snap, ActiveScreen)
      BY <2>2
    <3>4. Len(snap.screens[key[1]].tiles[key[2]]) \in Nat \ {0}
      BY <1>1, <3>3, TilesShape
    <3> HIDE DEF pos
    <3> QED BY <3>1, <3>2, <3>4, TurnTypes
  <2> QED BY <2>1, <2>2
<1> QED BY <1>2, <1>3, <1>4 DEF SeqTypes

LEMMA PlaylistTypes ==
  ASSUME TimerTypes, AdvancePlaylist
  PROVE  playlistIndex' \in Nat /\ playlistPhase' \in Phases /\ playlistAge' \in Ages
BY AgesGrow DEF TimerTypes, AdvancePlaylist, Playlist, playlistVars, Phases

LEMMA FromStartTypes ==
  ASSUME NEW st \in Strategies \cup {Nothing}, NEW s \in ScreenIds \cup {NoScreen},
         ShowFromStart(st, s)
  PROVE  TimerTypes' /\ SeqTypes'
<1>1. SeqTypes'
  BY TilesShape, RewindTypes DEF ShowFromStart
<1> QED
  BY <1>1, AgesGrow DEF ShowFromStart, StartDwell, StartPlaylist, TimerTypes, Phases

LEMMA TimersKeepTypes ==
  ASSUME SchedulerInv, SchedulerInv', TimerTypes, SeqTypes, [Next]_vars
  PROVE  TimerTypes' /\ SeqTypes'
<1>1. /\ snap \in Strategies \cup {Nothing} /\ tourIndex \in Nat /\ tourIndex' \in Nat
      /\ overrideScreen \in ScreenIds \cup {NoScreen}
  BY PinIsScreen DEF SchedulerInv, ControlTypes, PinExists
<1>2. ASSUME NEW st \in Strategies, ApplyStrategy(st) PROVE TimerTypes' /\ SeqTypes'
  <2>1. CASE ApplyNothing(st)
    BY <2>1, AgesGrow DEF ApplyNothing, StartDwell, TimerTypes, SeqTypes
  <2>2. CASE ApplySomething(st)
    <3>1. PinAfter(st) \in ScreenIds \cup {NoScreen}
      BY <1>1 DEF PinAfter
    <3>2. TourIndexAfter(st) \in Nat
      BY TourIndexAfterInRange
    <3>3. ScreenAt(st, PinAfter(st), TourIndexAfter(st)) \in ScreenIds \cup {NoScreen}
      BY <3>1, <3>2, ScreenAtIsScreen
    <3> QED BY <2>2, <3>3, FromStartTypes DEF ApplySomething
  <2> QED BY <1>2, <2>1, <2>2 DEF ApplyStrategy
<1>3. ASSUME NEW delta \in {1, -1}, StepTour(delta) PROVE TimerTypes' /\ SeqTypes'
  <2>1. ScreenAt(snap, NoScreen, tourIndex') \in ScreenIds \cup {NoScreen}
    BY <1>1, ScreenAtIsScreen
  <2>2. ShowFromStart(snap, ScreenAt(snap, NoScreen, tourIndex'))
    BY <1>3 DEF StepTour
  <2> QED BY <1>1, <2>1, <2>2, FromStartTypes
<1>4. ASSUME NEW s \in ScreenIds, Goto(s) PROVE TimerTypes' /\ SeqTypes'
  BY <1>1, <1>4, FromStartTypes DEF Goto
<1>5. CASE Pause
  BY <1>5 DEF Pause, TimerTypes, SeqTypes, tourVars, playlistVars
<1>6. CASE Resume
  BY <1>6, AgesGrow DEF Resume, StartDwell, TimerTypes, SeqTypes, playlistVars
<1>7. CASE Land
  <2>1. ScreenAt(snap, overrideScreen, NextIndex) \in ScreenIds \cup {NoScreen}
    BY <1>1, ScreenAtIsScreen DEF NextIndex
  <2> QED BY <1>1, <1>7, <2>1, FromStartTypes DEF Land
<1>8. CASE BeginTransition
  BY <1>8, AgesGrow, RotateTypes, PlaylistTypes DEF BeginTransition, AdvanceScreen, TimerTypes
<1>9. CASE EndTour
  BY <1>9, AgesGrow, RotateTypes, PlaylistTypes
     DEF EndTour, AdvanceScreen, StartDwell, TimerTypes
<1>10. CASE Hold
  BY <1>10, RotateTypes, PlaylistTypes DEF Hold, AdvanceScreen, TimerTypes, tourVars
<1>11. CASE Elapse
  <2>1. TimerTypes'
    BY <1>11, AgesGrow DEF Elapse, TimerTypes
  <2>2. DOMAIN seq' = DOMAIN seq
    BY <1>11 DEF Elapse
  <2>3. ASSUME NEW key \in DOMAIN seq' PROVE seq'[key] \in Positions
    <3>1. seq[key] \in Positions
      BY <2>2 DEF SeqTypes
    <3>2. seq'[key] = [seq[key] EXCEPT !.age = Older(seq[key].age)]
      BY <1>11, <2>2 DEF Elapse
    <3>3. Older(seq[key].age) \in Ages
      BY <3>1, AgesGrow DEF Positions
    <3> QED BY <3>1, <3>2, <3>3 DEF Positions
  <2> QED BY <2>1, <2>2, <2>3 DEF SeqTypes
<1>12. CASE UNCHANGED vars
  BY <1>12 DEF vars, TimerTypes, SeqTypes, tourVars, playlistVars
<1> QED
  BY <1>2, <1>3, <1>4, <1>5, <1>6, <1>7, <1>8, <1>9, <1>10, <1>11, <1>12
     DEF Next, Command, Tick

\* Every variable keeps its type, the unbounded positions of sequences included.
THEOREM SchedulerTypeCorrect == Spec => []TypeOK
<1>1. Init => TimerTypes /\ SeqTypes
  <2>1. DOMAIN << >> = {}
    OBVIOUS
  <2> QED BY <2>1, AgesGrow DEF Init, TimerTypes, SeqTypes, Phases
<1>2. SchedulerInv /\ SchedulerInv' /\ TimerTypes /\ SeqTypes /\ [Next]_vars
        => TimerTypes' /\ SeqTypes'
  BY TimersKeepTypes
<1>3. SchedulerInv /\ TimerTypes /\ SeqTypes => TypeOK
  BY DEF SchedulerInv, ControlTypes, PinExists, TimerTypes, SeqTypes, TypeOK
<1> QED BY <1>1, <1>2, <1>3, SchedulerInvHolds, PTL DEF Spec
=============================================================================
