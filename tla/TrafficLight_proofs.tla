------------------------ MODULE TrafficLight_proofs -------------------------
(***************************************************************************)
(* Proofs about TrafficLight, for every value of its constants: its type   *)
(* and safety invariants, and that it implements Intersection.  Each       *)
(* helper of the node gets a lemma that says what it keeps and where it    *)
(* may lead; each callback then follows from the lemmas of its helpers.    *)
(***************************************************************************)
EXTENDS TrafficLight, TLAPS

-----------------------------------------------------------------------------
(* Types of the parts of the driving record.                               *)

LEMMA BumpRange ==
    ASSUME NEW limit \in Nat, NEW n \in 0..limit
    PROVE  Bump(n, limit) \in 0..limit
BY DEF Bump

LEMMA ConstantTypes ==
    /\ NoPending \in PendingType
    /\ OnSignal \in TurnType
    /\ WithoutSignal \in TurnType
    /\ NoLanes \in LanesType
    /\ NoTimers \in TimerType
BY FrameParameters
   DEF NoPending, PendingType, OnSignal, WithoutSignal, TurnType, NoLanes,
       LanesType, NoTimers, TimerType, Timer

LEMMA TimersOnEntryType ==
    ASSUME NEW state \in States
    PROVE  TimersOnEntry(state) \in TimerType
BY TimeParameters DEF TimersOnEntry, TimerType, Timer

\* One part of the record may be replaced by another value of its type.
LEMMA ReplacePart ==
    ASSUME NEW d \in DrivingType
    PROVE  /\ \A p \in PendingType : [d EXCEPT !.pending = p] \in DrivingType
           /\ \A t \in TurnType : [d EXCEPT !.turn = t] \in DrivingType
           /\ \A n \in LanesType : [d EXCEPT !.lanes = n] \in DrivingType
           /\ \A t \in TimerType : [d EXCEPT !.timer = t] \in DrivingType
BY DEF DrivingType

LEMMA SetDrivingStateType ==
    ASSUME NEW d \in DrivingType, NEW state \in States
    PROVE  SetDrivingState(d, state) \in DrivingType
<1>1. [d.turn EXCEPT !.no_signal = FALSE] \in TurnType
  BY Zenon DEF DrivingType, TurnType
<1> QED
  BY <1>1, ConstantTypes, TimersOnEntryType DEF SetDrivingState, DrivingType

-----------------------------------------------------------------------------
(* What each helper keeps, and the phases it may lead to.                  *)

\* A driving record with the invariants that concern it alone.
Sound(d) == d \in DrivingType /\ TurnIsBounded(d) /\ TimersMatch(d)

LEMMA SetDrivingStateSound ==
    ASSUME NEW d \in DrivingType, NEW state \in States
    PROVE  /\ Sound(SetDrivingState(d, state))
           /\ PhaseOf(SetDrivingState(d, state)) =
                  IF state = "LEFT_TURN" THEN "SIGNAL_TURN" ELSE state
<1> DEFINE e == SetDrivingState(d, state)
<1>1. e.driving_state = state /\ ~e.turn.no_signal
  BY Zenon DEF SetDrivingState, OnSignal, DrivingType, TurnType
<1>2. TurnIsBounded(e)
  BY FrameParameters
     DEF TurnIsBounded, IsSignalTurn, SetDrivingState, OnSignal, NoLanes
<1>3. TimersMatch(e)
  BY <1>1
     DEF TimersMatch, IsSignalTurn, IsNoSignalTurn, SetDrivingState,
         TimersOnEntry, Off
<1>4. PhaseOf(e) = IF state = "LEFT_TURN" THEN "SIGNAL_TURN" ELSE state
  BY <1>1 DEF PhaseOf, IsSignalTurn, IsNoSignalTurn
<1> QED
  BY <1>2, <1>3, <1>4, SetDrivingStateType DEF Sound

\* What is pending plays no part in the invariants of a driving record.
LEMMA ReplacePendingSound ==
    ASSUME NEW d, Sound(d), NEW p \in PendingType
    PROVE  /\ Sound([d EXCEPT !.pending = p])
           /\ PhaseOf([d EXCEPT !.pending = p]) = PhaseOf(d)
<1> DEFINE e == [d EXCEPT !.pending = p]
<1>1. d \in DrivingType /\ e \in DrivingType
  BY ReplacePart DEF Sound
<1>2. /\ e.driving_state = d.driving_state /\ e.turn = d.turn
      /\ e.lanes = d.lanes /\ e.timer = d.timer
  BY <1>1 DEF DrivingType
<1> HIDE DEF e
<1>3. Sound(e) /\ PhaseOf(e) = PhaseOf(d)
  BY <1>1, <1>2
     DEF Sound, TurnIsBounded, TimersMatch, IsSignalTurn, IsNoSignalTurn, PhaseOf
<1> QED
  BY <1>3 DEF e

LEMMA StartLeftTurnIfSignalTimedOutSound ==
    ASSUME NEW d, Sound(d)
    PROVE  LET e == StartLeftTurnIfSignalTimedOut(d)
           IN  /\ Sound(e)
               /\ \/ e = d
                  \/ PhaseOf(d) = "SIGNAL_WAIT" /\ PhaseOf(e) = "NO_SIGNAL_TURN"
<1> DEFINE t == SetDrivingState(d, "LEFT_TURN")
           u == [t EXCEPT !.turn = WithoutSignal]
           e == [u EXCEPT !.timer = NoTimers]
<1>1. CASE ~SignalTimedOut(d)
  BY <1>1 DEF StartLeftTurnIfSignalTimedOut
<1>2. CASE SignalTimedOut(d)
  <2>1. t \in DrivingType /\ t.driving_state = "LEFT_TURN"
    BY SetDrivingStateType DEF Sound, States, SetDrivingState
  <2>2. u \in DrivingType
    BY <2>1, ReplacePart, ConstantTypes
  <2>3. e \in DrivingType
    BY <2>2, ReplacePart, ConstantTypes
  <2>4. /\ e.driving_state = "LEFT_TURN"
        /\ e.turn = WithoutSignal
        /\ e.timer = NoTimers
    BY <2>1, <2>2 DEF DrivingType
  <2>5. StartLeftTurnIfSignalTimedOut(d) = e
    BY <1>2 DEF StartLeftTurnIfSignalTimedOut
  <2>6. PhaseOf(d) = "SIGNAL_WAIT"
    BY <1>2 DEF SignalTimedOut, PhaseOf, IsNoSignalTurn, IsSignalTurn
  <2> HIDE DEF e
  <2>7. IsNoSignalTurn(e) /\ ~IsSignalTurn(e)
    BY <2>4 DEF IsNoSignalTurn, IsSignalTurn, WithoutSignal
  <2>8. PhaseOf(e) = "NO_SIGNAL_TURN"
    BY <2>4, <2>7 DEF PhaseOf
  <2>9. Sound(e)
    BY <2>3, <2>4, <2>7
       DEF Sound, TurnIsBounded, TimersMatch, NoTimers, Off
  <2> QED BY <2>5, <2>6, <2>8, <2>9
<1> QED BY <1>1, <1>2

Meanings == {NoSignal, "STOP", "DRIVE", "LEFT_TURN"}

LEMMA DebounceSound ==
    ASSUME NEW d, Sound(d), d.driving_state \in {"SIGNAL_WAIT", "STOP"},
           NEW seen \in Meanings \ {NoSignal}
    PROVE  /\ Sound(Debounce(d, seen))
           /\ PhaseOf(Debounce(d, seen)) \in
                  {PhaseOf(d), IF seen = "LEFT_TURN" THEN "SIGNAL_TURN" ELSE seen}
<1> DEFINE frames == IF seen = d.pending.signal
                     THEN Bump(d.pending.frames, ConfirmationFrames)
                     ELSE 1
           p == [signal |-> seen, frames |-> frames]
           counted == [d EXCEPT !.pending = p]
<1>1. frames \in 0..ConfirmationFrames
  <2>1. d.pending.frames \in 0..ConfirmationFrames
    BY DEF Sound, DrivingType, PendingType
  <2> QED BY <2>1, BumpRange, FrameParameters
<1>2. p \in PendingType
  BY <1>1 DEF PendingType, Meanings
<1>3. Sound(counted) /\ PhaseOf(counted) = PhaseOf(d)
  BY <1>2, ReplacePendingSound
<1>4. counted \in DrivingType /\ seen \in States
  BY <1>3 DEF Sound, Meanings, States
<1>5. Debounce(d, seen) \in {counted, SetDrivingState(counted, seen)}
  BY DEF Debounce
<1> HIDE DEF counted
<1> QED
  BY <1>3, <1>4, <1>5, SetDrivingStateSound

LEMMA UpdateDrivingStateSound ==
    ASSUME NEW d, Sound(d), NEW seen \in Meanings, NEW policeSeen \in BOOLEAN,
           seen = "LEFT_TURN" => ~policeSeen
    PROVE  /\ Sound(UpdateDrivingState(d, seen))
           /\ PhaseOf(UpdateDrivingState(d, seen))
                  \in Abstract!After(PhaseOf(d), policeSeen)
<1>0. d.driving_state \in States
  BY DEF Sound, DrivingType
<1> DEFINE c == ClearPending(d)
<1>c. Sound(c) /\ PhaseOf(c) = PhaseOf(d)
  BY ConstantTypes, ReplacePendingSound DEF ClearPending
<1>1. CASE d.driving_state = "LEFT_TURN"
  <2>1. UpdateDrivingState(d, seen) = d
    BY <1>1 DEF UpdateDrivingState
  <2>2. PhaseOf(d) \in {"SIGNAL_TURN", "NO_SIGNAL_TURN"}
    BY <1>1 DEF PhaseOf, IsSignalTurn, IsNoSignalTurn
  <2> QED BY <2>1, <2>2 DEF Abstract!After
<1>2. CASE d.driving_state = "DRIVE"
  <2>1. UpdateDrivingState(d, seen) = c
    BY <1>2 DEF UpdateDrivingState
  <2>2. PhaseOf(d) = "DRIVE"
    BY <1>2 DEF PhaseOf, IsSignalTurn, IsNoSignalTurn
  <2> QED BY <2>1, <2>2, <1>c DEF Abstract!After
<1>3. CASE d.driving_state \in {"SIGNAL_WAIT", "STOP"}
  <2>0. PhaseOf(d) = d.driving_state
    BY <1>3 DEF PhaseOf, IsSignalTurn, IsNoSignalTurn
  <2>1. CASE seen = NoSignal
    <3> DEFINE e == StartLeftTurnIfSignalTimedOut(c)
    <3>1. UpdateDrivingState(d, seen) = e
      BY <1>3, <2>1 DEF UpdateDrivingState
    <3>2. /\ Sound(e)
          /\ \/ e = c
             \/ PhaseOf(c) = "SIGNAL_WAIT" /\ PhaseOf(e) = "NO_SIGNAL_TURN"
      BY <1>c, StartLeftTurnIfSignalTimedOutSound
    <3> HIDE DEF e, c
    <3>3. PhaseOf(e) \in Abstract!After(PhaseOf(d), policeSeen)
      BY <1>3, <2>0, <3>2, <1>c DEF Abstract!After
    <3> QED BY <3>1, <3>2, <3>3
  <2>2. CASE seen # NoSignal
    <3> DEFINE e == Debounce(d, seen)
    <3>1. UpdateDrivingState(d, seen) = e
      BY <1>3, <2>2 DEF UpdateDrivingState
    <3>2. /\ Sound(e)
          /\ PhaseOf(e) \in {PhaseOf(d), IF seen = "LEFT_TURN"
                                         THEN "SIGNAL_TURN" ELSE seen}
      BY <1>3, <2>2, DebounceSound
    <3> HIDE DEF e
    <3>3. PhaseOf(e) \in Abstract!After(PhaseOf(d), policeSeen)
      BY <1>3, <2>0, <2>2, <3>2 DEF Abstract!After, Meanings, NoSignal
    <3> QED BY <3>1, <3>2, <3>3
  <2> QED BY <2>1, <2>2
<1> QED BY <1>0, <1>1, <1>2, <1>3 DEF States

LEMMA UpdatePoliceDetectionType ==
    ASSUME NEW p \in PoliceType, p.clear_frame_count < PoliceClearFrames,
           NEW candidate \in BOOLEAN
    PROVE  LET q == UpdatePoliceDetection(p, candidate)
           IN  q \in PoliceType /\ q.clear_frame_count < PoliceClearFrames
<1> DEFINE frames == Bump(p.detection_frames, PoliceConfirmationFrames)
           q == UpdatePoliceDetection(p, candidate)
<1>1. /\ p.detected \in BOOLEAN
      /\ p.detection_frames \in 0..PoliceConfirmationFrames
      /\ p.clear_frame_count \in 0..PoliceClearFrames
  BY DEF PoliceType
<1>2. frames \in 0..PoliceConfirmationFrames
  BY <1>1, BumpRange, FrameParameters
<1>3. CASE candidate
  <2>1. q = [detected |-> p.detected \/ frames >= PoliceConfirmationFrames,
             detection_frames |-> frames, clear_frame_count |-> 0]
    BY <1>3 DEF UpdatePoliceDetection
  <2> HIDE DEF frames
  <2>2. /\ [detected |-> p.detected \/ frames >= PoliceConfirmationFrames,
            detection_frames |-> frames, clear_frame_count |-> 0] \in PoliceType
        /\ 0 < PoliceClearFrames
    BY <1>1, <1>2, FrameParameters DEF PoliceType
  <2> QED BY <2>1, <2>2
<1>4. CASE ~candidate /\ ~p.detected
  <2>1. q = [p EXCEPT !.detection_frames = 0]
    BY <1>4 DEF UpdatePoliceDetection
  <2>2. [p EXCEPT !.detection_frames = 0] \in PoliceType
    BY FrameParameters DEF PoliceType
  <2>3. [p EXCEPT !.detection_frames = 0].clear_frame_count
            = p.clear_frame_count
    BY DEF PoliceType
  <2> QED BY <2>1, <2>2, <2>3
<1>5. CASE ~candidate /\ p.detected
  <2>1. CASE p.clear_frame_count + 1 < PoliceClearFrames
    <3>1. q = [detected |-> TRUE, detection_frames |-> 0,
               clear_frame_count |-> p.clear_frame_count + 1]
      BY <1>1, <1>5, <2>1, FrameParameters DEF UpdatePoliceDetection
    <3> QED BY <1>1, <2>1, <3>1, FrameParameters DEF PoliceType
  <2>2. CASE p.clear_frame_count + 1 >= PoliceClearFrames
    <3>1. q = [detected |-> FALSE, detection_frames |-> 0,
               clear_frame_count |-> 0]
      BY <1>1, <1>5, <2>2, FrameParameters DEF UpdatePoliceDetection
    <3> QED BY <3>1, FrameParameters DEF PoliceType
  <2> QED BY <1>1, <2>1, <2>2, FrameParameters
<1> QED BY <1>3, <1>4, <1>5

LEMMA YieldToPoliceSound ==
    ASSUME NEW d, Sound(d), NEW appeared \in BOOLEAN
    PROVE  /\ Sound(YieldToPolice(d, appeared))
           /\ PhaseOf(YieldToPolice(d, appeared))
                  = IF appeared /\ IsSignalTurn(d) THEN "STOP" ELSE PhaseOf(d)
BY SetDrivingStateSound DEF YieldToPolice, IsSignalTurn, States, Sound

LEMMA EndApproachIfElapsedSound ==
    ASSUME NEW d, Sound(d)
    PROVE  LET e == EndApproachIfElapsed(d)
           IN  /\ Sound(e)
               /\ PhaseOf(e) = PhaseOf(d)
               /\ e.driving_state = d.driving_state
               /\ e.turn = d.turn
<1>1. CASE ~(OnApproach(d) /\ ~ApproachIsActive(d))
  BY <1>1 DEF EndApproachIfElapsed
<1>2. CASE OnApproach(d) /\ ~ApproachIsActive(d)
  <2> DEFINE t == [d.timer EXCEPT !.approach = Off]
             u == [d EXCEPT !.timer = t]
             e == [u EXCEPT !.lanes = NoLanes]
  <2>1. d \in DrivingType /\ t \in TimerType
    BY DEF Sound, DrivingType, TimerType, Timer
  <2>2. u \in DrivingType
    BY <2>1, ReplacePart
  <2>3. e \in DrivingType
    BY <2>2, ReplacePart, ConstantTypes
  <2>4. t.approach = Off /\ t.wait = d.timer.wait /\ t.hold = d.timer.hold
    BY <2>1 DEF DrivingType, TimerType
  <2>5. /\ e.driving_state = d.driving_state /\ e.turn = d.turn
        /\ e.lanes = NoLanes /\ e.timer = t
    BY <2>1, <2>2 DEF DrivingType
  <2>6. EndApproachIfElapsed(d) = e
    BY <1>2 DEF EndApproachIfElapsed
  <2> HIDE DEF e, t
  <2>7. PhaseOf(e) = PhaseOf(d)
    BY <2>5 DEF PhaseOf, IsSignalTurn, IsNoSignalTurn
  <2>8. TurnIsBounded(e)
    BY <2>5, FrameParameters DEF Sound, TurnIsBounded, IsSignalTurn, NoLanes
  <2>9. TimersMatch(e)
    BY <2>4, <2>5 DEF Sound, TimersMatch, IsSignalTurn, IsNoSignalTurn, Off
  <2> QED BY <2>3, <2>5, <2>6, <2>7, <2>8, <2>9 DEF Sound
<1> QED BY <1>1, <1>2

LEMMA FinishHoldIfElapsedSound ==
    ASSUME NEW d, Sound(d)
    PROVE  LET e == FinishHoldIfElapsed(d)
           IN  /\ Sound(e)
               /\ \/ PhaseOf(e) = PhaseOf(d)
                  \/ PhaseOf(d) = "NO_SIGNAL_TURN" /\ PhaseOf(e) = "DRIVE"
<1>1. CASE ~HoldElapsed(d)
  BY <1>1 DEF FinishHoldIfElapsed
<1>2. CASE HoldElapsed(d)
  <2>1. PhaseOf(d) = "NO_SIGNAL_TURN"
    BY <1>2 DEF HoldElapsed, PhaseOf, IsNoSignalTurn, IsSignalTurn
  <2>2. FinishHoldIfElapsed(d) = SetDrivingState(d, "DRIVE")
    BY <1>2 DEF FinishHoldIfElapsed
  <2>3. d \in DrivingType /\ "DRIVE" \in States
    BY DEF Sound, States
  <2>4. /\ Sound(SetDrivingState(d, "DRIVE"))
        /\ PhaseOf(SetDrivingState(d, "DRIVE")) = "DRIVE"
    BY <2>3, SetDrivingStateSound
  <2> QED BY <2>1, <2>2, <2>4
<1> QED BY <1>1, <1>2

\* Time changes no phase and no invariant.
LEMMA ElapseRange ==
    ASSUME NEW limit \in Nat, NEW t \in Timer(limit)
    PROVE  /\ Elapse(t, limit) \in Timer(limit)
           /\ Elapse(t, limit) = Off <=> t = Off
BY DEF Elapse, Timer, Off, Bump

-----------------------------------------------------------------------------
(* Lane messages.                                                          *)

\* A turn made on a signal while its lane message is being counted: the frame
\* counter may have reached the limit that is about to stop the car.
Counting(d) ==
    /\ d \in DrivingType
    /\ IsSignalTurn(d)
    /\ d.turn = OnSignal
    /\ TimersMatch(d)
    /\ d.lanes.reacquired < LaneReacquireFrames

LEMMA ReplaceLanesCounting ==
    ASSUME NEW d, Counting(d),
           NEW n \in LanesType, n.reacquired < LaneReacquireFrames
    PROVE  Counting([d EXCEPT !.lanes = n])
<1> DEFINE e == [d EXCEPT !.lanes = n]
<1>1. d \in DrivingType /\ e \in DrivingType
  BY ReplacePart DEF Counting
<1>2. /\ e.driving_state = d.driving_state /\ e.turn = d.turn
      /\ e.timer = d.timer /\ e.lanes = n
  BY <1>1 DEF DrivingType
<1> HIDE DEF e
<1>3. Counting(e)
  BY <1>1, <1>2 DEF Counting, IsSignalTurn, IsNoSignalTurn, TimersMatch
<1> QED BY <1>3 DEF e

LEMMA StopIfTurnTimedOutSound ==
    ASSUME NEW d, Counting(d)
    PROVE  /\ Sound(StopIfTurnTimedOut(d))
           /\ PhaseOf(StopIfTurnTimedOut(d)) \in {"SIGNAL_TURN", "STOP"}
<1>1. d \in DrivingType /\ d.lanes.frame_count \in 0..LeftTurnTimeoutFrames
  BY DEF Counting, DrivingType, LanesType
<1>2. d.turn.timeout_enabled
  BY DEF Counting, OnSignal
<1>3. CASE d.lanes.frame_count >= LeftTurnTimeoutFrames
  <2>1. StopIfTurnTimedOut(d) = SetDrivingState(d, "STOP")
    BY <1>2, <1>3 DEF StopIfTurnTimedOut
  <2> QED BY <1>1, <2>1, SetDrivingStateSound DEF States
<1>4. CASE ~(d.lanes.frame_count >= LeftTurnTimeoutFrames)
  <2>1. StopIfTurnTimedOut(d) = d
    BY <1>4 DEF StopIfTurnTimedOut
  <2>2. Sound(d)
    BY <1>1, <1>4, FrameParameters DEF Sound, Counting, TurnIsBounded
  <2>3. PhaseOf(d) = "SIGNAL_TURN"
    BY DEF Counting, PhaseOf, IsSignalTurn, IsNoSignalTurn
  <2> QED BY <2>1, <2>2, <2>3
<1> QED BY <1>3, <1>4

LEMMA SignalLaneUpdateSound ==
    ASSUME NEW d, Counting(d), NEW left \in BOOLEAN, NEW right \in BOOLEAN
    PROVE  LET e == SignalLaneUpdate(d, left, right)
           IN  Sound(e) /\ PhaseOf(e) \in {"SIGNAL_TURN", "STOP", "DRIVE"}
<1> DEFINE lane_reacquired == left /\ (right \/ ~d.turn.require_lane_loss)
           armed == ~d.turn.require_lane_loss \/ d.lanes.was_lost
           frames == Bump(d.lanes.reacquired, LaneReacquireFrames)
           lost == [was_lost |-> TRUE, reacquired |-> 0,
                    frame_count |-> d.lanes.frame_count]
           found == [d.lanes EXCEPT !.reacquired = frames]
           e == SignalLaneUpdate(d, left, right)
<1>1. d \in DrivingType /\ d.lanes \in LanesType
  BY DEF Counting, DrivingType
<1>2. frames \in 0..LaneReacquireFrames
  <2>1. d.lanes.reacquired \in 0..LaneReacquireFrames
    BY <1>1 DEF LanesType
  <2> QED BY <2>1, BumpRange, FrameParameters
<1>3. lost \in LanesType /\ lost.reacquired < LaneReacquireFrames
  BY <1>1, FrameParameters DEF LanesType
<1>4. found \in LanesType /\ found.reacquired = frames
  <2> HIDE DEF frames
  <2> QED BY <1>1, <1>2 DEF LanesType
<1>5. CASE ~lane_reacquired
  <2>1. e = StopIfTurnTimedOut([d EXCEPT !.lanes = lost])
    BY <1>5 DEF SignalLaneUpdate
  <2>2. Counting([d EXCEPT !.lanes = lost])
    BY <1>3, ReplaceLanesCounting
  <2> QED BY <2>1, <2>2, StopIfTurnTimedOutSound
<1>6. CASE lane_reacquired /\ ~armed
  <2>1. e = StopIfTurnTimedOut(d)
    BY <1>6 DEF SignalLaneUpdate
  <2> QED BY <2>1, StopIfTurnTimedOutSound
<1>7. CASE lane_reacquired /\ armed /\ frames < LaneReacquireFrames
  <2>0. ~(frames >= LaneReacquireFrames)
    <3> HIDE DEF frames
    <3> QED BY <1>2, <1>7, FrameParameters
  <2>1. e = StopIfTurnTimedOut([d EXCEPT !.lanes = found])
    BY <1>7, <2>0 DEF SignalLaneUpdate
  <2> HIDE DEF found, frames, armed, lane_reacquired
  <2>2. found \in LanesType /\ found.reacquired < LaneReacquireFrames
    BY <1>4, <1>7
  <2>3. Counting([d EXCEPT !.lanes = found])
    BY <2>2, ReplaceLanesCounting
  <2> QED BY <2>1, <2>3, StopIfTurnTimedOutSound
<1>8. CASE lane_reacquired /\ armed /\ ~(frames < LaneReacquireFrames)
  <2>1. frames >= LaneReacquireFrames
    <3> HIDE DEF frames
    <3> QED BY <1>2, <1>8, FrameParameters
  <2>2. e = SetDrivingState([d EXCEPT !.lanes = found], "DRIVE")
    BY <1>8, <2>1 DEF SignalLaneUpdate
  <2>3. [d EXCEPT !.lanes = found] \in DrivingType
    BY <1>1, <1>4, ReplacePart
  <2> QED BY <2>2, <2>3, SetDrivingStateSound DEF States
<1> QED BY <1>5, <1>6, <1>7, <1>8

LEMMA NoSignalLaneUpdateSound ==
    ASSUME NEW d, Sound(d), IsNoSignalTurn(d), NEW left \in BOOLEAN
    PROVE  LET e == NoSignalLaneUpdate(d, left)
           IN  Sound(e) /\ PhaseOf(e) = "NO_SIGNAL_TURN"
<1> DEFINE frames == IF left
                     THEN Bump(d.lanes.reacquired, LaneReacquireFrames)
                     ELSE 0
           n == [d.lanes EXCEPT !.reacquired = frames]
           t == [d.timer EXCEPT !.hold = 0]
           counted == [d EXCEPT !.lanes = n]
           held == [counted EXCEPT !.timer = t]
           e == NoSignalLaneUpdate(d, left)
<1>1. /\ d \in DrivingType /\ d.lanes \in LanesType /\ d.timer \in TimerType
      /\ d.lanes.reacquired \in 0..LaneReacquireFrames
  BY DEF Sound, DrivingType, LanesType
<1>2. frames \in 0..LaneReacquireFrames
  BY <1>1, BumpRange, FrameParameters
<1>3. n \in LanesType
  <2> HIDE DEF frames
  <2> QED BY <1>1, <1>2 DEF LanesType
<1>4. /\ t \in TimerType /\ t.hold = 0
      /\ t.wait = d.timer.wait /\ t.approach = d.timer.approach
  BY <1>1, TimeParameters DEF TimerType, Timer
<1>5. counted \in DrivingType
  BY <1>1, <1>3, ReplacePart
<1>6. held \in DrivingType
  BY <1>4, <1>5, ReplacePart
<1>7. /\ counted.driving_state = d.driving_state /\ counted.turn = d.turn
      /\ counted.timer = d.timer
      /\ held.driving_state = d.driving_state /\ held.turn = d.turn
      /\ held.timer = t
  <2> HIDE DEF n, t
  <2> QED BY <1>1, <1>5 DEF DrivingType
<1>8. e \in {d, counted, held}
  <2>1. CASE d.timer.hold # Off
    BY <2>1 DEF NoSignalLaneUpdate
  <2>2. CASE d.timer.hold = Off /\ frames < LaneReacquireFrames
    BY <2>2 DEF NoSignalLaneUpdate
  <2>3. CASE d.timer.hold = Off /\ ~(frames < LaneReacquireFrames)
    <3>1. frames >= LaneReacquireFrames
      BY <1>2, <2>3, FrameParameters
    <3> QED BY <2>3, <3>1 DEF NoSignalLaneUpdate
  <2> QED BY <2>1, <2>2, <2>3
<1> HIDE DEF counted, held, t
<1>9. \A x \in {d, counted, held} : Sound(x) /\ PhaseOf(x) = "NO_SIGNAL_TURN"
  BY <1>1, <1>4, <1>5, <1>6, <1>7
     DEF Sound, IsSignalTurn, IsNoSignalTurn, TurnIsBounded, TimersMatch, PhaseOf
<1> QED BY <1>8, <1>9

LEMMA CountFrameParts ==
    ASSUME NEW d \in DrivingType
    PROVE  LET e == CountFrame(d)
           IN  /\ e \in DrivingType
               /\ e.driving_state = d.driving_state
               /\ e.turn = d.turn /\ e.timer = d.timer
               /\ e.lanes.reacquired = d.lanes.reacquired
               /\ e.lanes.was_lost = d.lanes.was_lost
               /\ e.lanes.frame_count
                    = Bump(d.lanes.frame_count, LeftTurnTimeoutFrames)
<1> DEFINE count == Bump(d.lanes.frame_count, LeftTurnTimeoutFrames)
           n == [d.lanes EXCEPT !.frame_count = count]
<1>1. d.lanes \in LanesType
  BY DEF DrivingType
<1>2. count \in 0..LeftTurnTimeoutFrames
  <2>1. d.lanes.frame_count \in 0..LeftTurnTimeoutFrames
    BY <1>1 DEF LanesType
  <2> QED BY <2>1, BumpRange, FrameParameters
<1>3. CountFrame(d) = [d EXCEPT !.lanes = n]
  BY DEF CountFrame
<1> HIDE DEF count
<1>4. n \in LanesType /\ n.reacquired = d.lanes.reacquired
  BY <1>1, <1>2 DEF LanesType
<1>7. n.was_lost = d.lanes.was_lost /\ n.frame_count = count
  BY <1>1, Zenon DEF LanesType
<1> HIDE DEF n
<1>5. [d EXCEPT !.lanes = n] \in DrivingType
  BY <1>4, ReplacePart
<1>6. /\ [d EXCEPT !.lanes = n].driving_state = d.driving_state
      /\ [d EXCEPT !.lanes = n].turn = d.turn
      /\ [d EXCEPT !.lanes = n].timer = d.timer
      /\ [d EXCEPT !.lanes = n].lanes = n
  BY DEF DrivingType
<1> QED BY <1>3, <1>4, <1>5, <1>6, <1>7 DEF count

\* A lane message ends a turn made on a signal, in driving or in a stop, or
\* leaves the phase as it is.
LEMMA UpdateLaneReacquisitionSound ==
    ASSUME NEW d, Sound(d), NEW left \in BOOLEAN, NEW right \in BOOLEAN
    PROVE  LET e == UpdateLaneReacquisition(d, left, right)
           IN  /\ Sound(e)
               /\ \/ PhaseOf(e) = PhaseOf(d)
                  \/ PhaseOf(d) = "SIGNAL_TURN" /\ PhaseOf(e) \in {"DRIVE", "STOP"}
<1> DEFINE q == EndApproachIfElapsed(d)
           c == CountFrame(q)
           e == UpdateLaneReacquisition(d, left, right)
<1>1. /\ Sound(q) /\ PhaseOf(q) = PhaseOf(d)
      /\ q.driving_state = d.driving_state /\ q.turn = d.turn
  BY EndApproachIfElapsedSound
<1> HIDE DEF q
<1>2. /\ c \in DrivingType
      /\ c.driving_state = d.driving_state /\ c.turn = d.turn
      /\ c.timer = q.timer
      /\ c.lanes.reacquired = q.lanes.reacquired
  BY <1>1, CountFrameParts DEF Sound
<1>3. TimersMatch(c)
  BY <1>1, <1>2 DEF Sound, TimersMatch, IsSignalTurn, IsNoSignalTurn
<1>4. CASE d.driving_state # "LEFT_TURN" \/ ApproachIsActive(d)
  <2>1. e = d
    BY <1>4 DEF UpdateLaneReacquisition
  <2> QED BY <2>1
<1>5. CASE d.driving_state = "LEFT_TURN" /\ ~ApproachIsActive(d)
           /\ d.turn.no_signal
  <2>1. e = NoSignalLaneUpdate(c, left)
    BY <1>5 DEF UpdateLaneReacquisition, q
  <2>2. Sound(c) /\ IsNoSignalTurn(c)
    BY <1>2, <1>3, <1>5 DEF Sound, TurnIsBounded, IsSignalTurn, IsNoSignalTurn
  <2>3. PhaseOf(d) = "NO_SIGNAL_TURN"
    BY <1>5 DEF PhaseOf, IsSignalTurn, IsNoSignalTurn
  <2> HIDE DEF c
  <2> QED BY <2>1, <2>2, <2>3, NoSignalLaneUpdateSound
<1>6. CASE d.driving_state = "LEFT_TURN" /\ ~ApproachIsActive(d)
           /\ ~d.turn.no_signal
  <2>1. e = SignalLaneUpdate(c, left, right)
    BY <1>6 DEF UpdateLaneReacquisition, q
  <2>2. Counting(c)
    BY <1>1, <1>2, <1>3, <1>6
       DEF Counting, Sound, TurnIsBounded, IsSignalTurn
  <2>3. PhaseOf(d) = "SIGNAL_TURN"
    BY <1>6 DEF PhaseOf, IsSignalTurn, IsNoSignalTurn
  <2> HIDE DEF c
  <2>4. Sound(e) /\ PhaseOf(e) \in {"SIGNAL_TURN", "STOP", "DRIVE"}
    BY <2>1, <2>2, SignalLaneUpdateSound
  <2> QED BY <2>3, <2>4
<1> QED BY <1>4, <1>5, <1>6

-----------------------------------------------------------------------------
(* The callbacks.                                                          *)

LEMMA InitSafety == Init => SafetyInv
<1> SUFFICES ASSUME Init PROVE SafetyInv
  OBVIOUS
<1>1. driving \in DrivingType
  BY ConstantTypes DEF Init, DrivingType, States
<1>2. police \in PoliceType /\ police.clear_frame_count < PoliceClearFrames
  BY FrameParameters DEF Init, PoliceType
<1>3. motor \in MotorType
  BY DEF Init, Unpublished, MotorType
<1>4. ~SignalTurn /\ ~NoSignalTurn
  BY DEF Init, SignalTurn, NoSignalTurn, IsSignalTurn, IsNoSignalTurn
<1>5. TimersMatchState
  BY DEF Init, TimersMatchState, TimersMatch, NoTimers, OnSignal, Off
<1> QED
  BY <1>1, <1>2, <1>3, <1>4, <1>5
     DEF Init, SafetyInv, TypeOK, PoliceBlocksSignalTurn, SignalTurnIsBounded,
         TurnIsBounded, SignalTurn

\* The safety invariant, with the part about the driving record folded.
Folded ==
    /\ Sound(driving)
    /\ police \in PoliceType
    /\ police.clear_frame_count < PoliceClearFrames
    /\ stop_line_detected \in BOOLEAN
    /\ motor \in MotorType
    /\ police.detected => PhaseOf(driving) # "SIGNAL_TURN"

LEMMA PhaseOfType ==
    ASSUME NEW d \in DrivingType
    PROVE  /\ PhaseOf(d) \in Abstract!Phases
           /\ PhaseOf(d) = "SIGNAL_TURN" <=> IsSignalTurn(d)
           /\ PhaseOf(d) = "NO_SIGNAL_TURN" <=> IsNoSignalTurn(d)
           /\ PhaseOf(d) = "DRIVE" <=> d.driving_state = "DRIVE"
BY DEF DrivingType, States, PhaseOf, IsSignalTurn, IsNoSignalTurn,
       Abstract!Phases

LEMMA SafetyFolds == SafetyInv <=> Folded
<1>1. driving \in DrivingType
        => (SignalTurn <=> PhaseOf(driving) = "SIGNAL_TURN")
  BY PhaseOfType DEF SignalTurn
<1> QED
  BY <1>1
     DEF Folded, SafetyInv, TypeOK, Sound, SignalTurnIsBounded,
         TimersMatchState, PoliceBlocksSignalTurn

LEMMA SafetyFoldsNext == SafetyInv' <=> Folded'
BY SafetyFolds, PTL

\* One camera frame: the abstract frame that sees what the detector reports.
LEMMA CameraStep ==
    ASSUME SafetyInv, NEW red \in BOOLEAN, NEW green \in BOOLEAN,
           NEW policeSeen \in BOOLEAN,
           CameraCallback(red, green, policeSeen)
    PROVE  /\ SafetyInv'
           /\ police'.detected \in BOOLEAN
           /\ PhaseOf(driving') \in Abstract!After(
                  Abstract!Yield(PhaseOf(driving), police'.detected),
                  police'.detected)
<1> DEFINE p == UpdatePoliceDetection(police, policeSeen)
           y == YieldToPolice(driving, p.detected /\ ~police.detected)
           c == Candidate(red, green, p.detected)
<1>1. /\ Sound(driving)
      /\ police \in PoliceType
      /\ police.clear_frame_count < PoliceClearFrames
      /\ police.detected => PhaseOf(driving) # "SIGNAL_TURN"
  BY SafetyFolds DEF Folded
<1>2. /\ police' = p /\ driving' = UpdateDrivingState(y, c)
      /\ stop_line_detected' = stop_line_detected /\ motor' = motor
  BY DEF CameraCallback
<1>3. p \in PoliceType /\ p.clear_frame_count < PoliceClearFrames
  BY <1>1, UpdatePoliceDetectionType
<1>4. p.detected \in BOOLEAN /\ police.detected \in BOOLEAN
  BY <1>1, <1>3 DEF PoliceType
<1>5. /\ Sound(y)
      /\ PhaseOf(y) = IF p.detected /\ ~police.detected /\ IsSignalTurn(driving)
                      THEN "STOP" ELSE PhaseOf(driving)
  <2>1. (p.detected /\ ~police.detected) \in BOOLEAN
    BY <1>4
  <2> QED BY <1>1, <2>1, YieldToPoliceSound
<1>6. c \in Meanings /\ (c = "LEFT_TURN" => ~p.detected)
  BY <1>4 DEF Candidate, Meanings, NoSignal
<1> HIDE DEF p, y, c
<1>7. PhaseOf(y) = Abstract!Yield(PhaseOf(driving), p.detected)
  <2>1. IsSignalTurn(driving) <=> PhaseOf(driving) = "SIGNAL_TURN"
    BY <1>1, PhaseOfType DEF Sound
  <2> QED BY <1>1, <1>4, <1>5, <2>1 DEF Abstract!Yield
<1>8. /\ Sound(driving')
      /\ PhaseOf(driving') \in Abstract!After(PhaseOf(y), p.detected)
  BY <1>2, <1>4, <1>5, <1>6, UpdateDrivingStateSound
<1>9. p.detected => PhaseOf(driving') # "SIGNAL_TURN"
  <2>1. PhaseOf(driving) \in Abstract!Phases
    BY <1>1, PhaseOfType DEF Sound
  <2> QED
    BY <1>4, <1>7, <1>8, <2>1 DEF Abstract!Yield, Abstract!After, Abstract!Phases
<1>10. SafetyInv'
  <2>1. stop_line_detected \in BOOLEAN /\ motor \in MotorType
    BY SafetyFolds DEF Folded
  <2> QED BY <1>2, <1>3, <1>8, <1>9, <2>1, SafetyFoldsNext DEF Folded
<1> QED BY <1>2, <1>4, <1>7, <1>8, <1>10

LEMMA StopLineStep ==
    ASSUME SafetyInv, NEW visible \in BOOLEAN, StopLineCallback(visible)
    PROVE  /\ SafetyInv'
           /\ police' = police
           /\ \/ PhaseOf(driving') = PhaseOf(driving)
              \/ PhaseOf(driving) = "DRIVE" /\ PhaseOf(driving') = "SIGNAL_WAIT"
<1>1. Folded
  BY SafetyFolds
<1>2. CASE driving' = driving
  BY <1>1, <1>2, SafetyFoldsNext DEF StopLineCallback, Folded
<1>3. CASE /\ driving' = SetDrivingState(driving, "SIGNAL_WAIT")
           /\ driving.driving_state = "DRIVE"
  <2>1. Sound(driving') /\ PhaseOf(driving') = "SIGNAL_WAIT"
    BY <1>1, <1>3, SetDrivingStateSound DEF Folded, Sound, States
  <2>2. PhaseOf(driving) = "DRIVE"
    BY <1>1, <1>3, PhaseOfType DEF Folded, Sound
  <2> QED
    BY <1>1, <2>1, <2>2, SafetyFoldsNext DEF StopLineCallback, Folded
<1> QED BY <1>2, <1>3 DEF StopLineCallback

LEMMA LaneStep ==
    ASSUME SafetyInv, NEW left \in BOOLEAN, NEW right \in BOOLEAN,
           LaneDetectionCallback(left, right)
    PROVE  /\ SafetyInv'
           /\ police' = police
           /\ \/ PhaseOf(driving') = PhaseOf(driving)
              \/ /\ PhaseOf(driving) = "SIGNAL_TURN"
                 /\ PhaseOf(driving') \in {"DRIVE", "STOP"}
<1>1. Folded
  BY SafetyFolds
<1>2. /\ Sound(driving')
      /\ \/ PhaseOf(driving') = PhaseOf(driving)
         \/ /\ PhaseOf(driving) = "SIGNAL_TURN"
            /\ PhaseOf(driving') \in {"DRIVE", "STOP"}
  BY <1>1, UpdateLaneReacquisitionSound DEF Folded, LaneDetectionCallback
<1> QED
  BY <1>1, <1>2, SafetyFoldsNext DEF LaneDetectionCallback, Folded

LEMMA MotorStep ==
    ASSUME SafetyInv, MotorCallback
    PROVE  /\ SafetyInv'
           /\ police' = police
           /\ \/ PhaseOf(driving') = PhaseOf(driving)
              \/ /\ PhaseOf(driving) = "NO_SIGNAL_TURN"
                 /\ PhaseOf(driving') = "DRIVE"
<1> DEFINE held == FinishHoldIfElapsed(driving)
<1>1. Folded
  BY SafetyFolds
<1>2. /\ Sound(held)
      /\ \/ PhaseOf(held) = PhaseOf(driving)
         \/ PhaseOf(driving) = "NO_SIGNAL_TURN" /\ PhaseOf(held) = "DRIVE"
  BY <1>1, FinishHoldIfElapsedSound DEF Folded
<1>3. Command(held) \in MotorType
  <2>1. held.driving_state \in States
    BY <1>2 DEF Sound, DrivingType
  <2> HIDE DEF held
  <2> QED BY <2>1 DEF Command, MotorType, States
<1>4. motor' = Command(held) /\ driving' = EndApproachIfElapsed(held)
  BY DEF MotorCallback
<1>5. Sound(driving') /\ PhaseOf(driving') = PhaseOf(held)
  <2> HIDE DEF held
  <2> QED BY <1>2, <1>4, EndApproachIfElapsedSound
<1> HIDE DEF held
<1> QED
  BY <1>1, <1>2, <1>3, <1>4, <1>5, SafetyFoldsNext DEF MotorCallback, Folded

LEMMA TickStep ==
    ASSUME SafetyInv, Tick
    PROVE  SafetyInv' /\ police' = police /\ PhaseOf(driving') = PhaseOf(driving)
<1> DEFINE t == [wait |-> Elapse(driving.timer.wait, WaitTimeoutSec),
                 approach |-> Elapse(driving.timer.approach, ApproachSec),
                 hold |-> Elapse(driving.timer.hold, HoldSec)]
<1>1. Folded
  BY SafetyFolds
<1>2. driving' = [driving EXCEPT !.timer = t]
  BY DEF Tick
<1>3. /\ driving \in DrivingType
      /\ driving.timer.wait \in Timer(WaitTimeoutSec)
      /\ driving.timer.approach \in Timer(ApproachSec)
      /\ driving.timer.hold \in Timer(HoldSec)
  BY <1>1 DEF Folded, Sound, DrivingType, TimerType
<1>4. /\ t \in TimerType
      /\ t.wait = Off <=> driving.timer.wait = Off
      /\ t.approach = Off <=> driving.timer.approach = Off
      /\ t.hold = Off <=> driving.timer.hold = Off
  BY <1>3, ElapseRange, TimeParameters DEF TimerType
<1> HIDE DEF t
<1>5. /\ driving' \in DrivingType
      /\ driving'.driving_state = driving.driving_state
      /\ driving'.turn = driving.turn
      /\ driving'.lanes = driving.lanes
      /\ driving'.timer = t
  BY <1>2, <1>3, <1>4, ReplacePart DEF DrivingType
<1>6. Sound(driving') /\ PhaseOf(driving') = PhaseOf(driving)
  BY <1>1, <1>4, <1>5
     DEF Folded, Sound, TurnIsBounded, TimersMatch, IsSignalTurn,
         IsNoSignalTurn, PhaseOf
<1> QED
  BY <1>1, <1>6, SafetyFoldsNext DEF Tick, Folded

-----------------------------------------------------------------------------
(* What brings a turn nearer to its end: only a lane message that reports  *)
(* the left lane.  CameraSection_proofs builds on these.                   *)

\* From d to e the new lane was counted no further, and no turn made on a
\* signal has ended in driving.
NoProgress(d, e) ==
    /\ e.lanes.reacquired <= d.lanes.reacquired
    /\ ~(IsSignalTurn(d) /\ e.driving_state = "DRIVE")

LEMMA CountIsNatural ==
    ASSUME NEW d \in DrivingType
    PROVE  d.lanes.reacquired \in Nat /\ NoLanes.reacquired <= d.lanes.reacquired
<1>1. d.lanes.reacquired \in 0..LaneReacquireFrames
  BY DEF DrivingType, LanesType
<1> QED BY <1>1, FrameParameters DEF NoLanes

LEMMA EndApproachKeepsCount ==
    ASSUME NEW d \in DrivingType
    PROVE  LET e == EndApproachIfElapsed(d)
           IN  e.lanes \in {d.lanes, NoLanes} /\ e.driving_state = d.driving_state
BY DEF EndApproachIfElapsed, DrivingType

LEMMA SetDrivingStateKeepsCount ==
    ASSUME NEW d, NEW state
    PROVE  SetDrivingState(d, state).lanes \in {d.lanes, NoLanes}
BY DEF SetDrivingState

LEMMA NoLeftLaneNoProgress ==
    ASSUME SafetyInv, NEW right \in BOOLEAN, LaneDetectionCallback(FALSE, right)
    PROVE  NoProgress(driving, driving')
<1> DEFINE d == driving
           q == EndApproachIfElapsed(d)
           c == CountFrame(q)
           n == [c.lanes EXCEPT !.reacquired = 0]
           lost == [was_lost |-> TRUE, reacquired |-> 0,
                    frame_count |-> c.lanes.frame_count]
<1>1. /\ d \in DrivingType /\ q \in DrivingType
      /\ q.lanes \in {d.lanes, NoLanes}
      /\ q.driving_state = d.driving_state /\ q.turn = d.turn
  BY SafetyFolds, EndApproachIfElapsedSound, EndApproachKeepsCount
     DEF Folded, Sound
<1>2. driving' = UpdateLaneReacquisition(d, FALSE, right)
  BY DEF LaneDetectionCallback
<1> HIDE DEF q
<1>3. /\ c \in DrivingType
      /\ c.driving_state = d.driving_state /\ c.turn = d.turn
      /\ c.lanes.reacquired = q.lanes.reacquired
  BY <1>1, CountFrameParts
<1>4. c.lanes.reacquired <= d.lanes.reacquired
  BY <1>1, <1>3, CountIsNatural
<1>5. n.reacquired = 0 /\ lost.reacquired = 0
  BY <1>3 DEF DrivingType, LanesType
<1>6. /\ [c EXCEPT !.lanes = n].lanes = n
      /\ [c EXCEPT !.lanes = lost].lanes = lost
      /\ [c EXCEPT !.lanes = lost].driving_state = d.driving_state
  BY <1>3 DEF DrivingType
<1>7. CASE d.driving_state # "LEFT_TURN" \/ ApproachIsActive(d)
  <2>1. driving' = d
    BY <1>2, <1>7 DEF UpdateLaneReacquisition
  <2> QED BY <1>1, <2>1, CountIsNatural DEF NoProgress, IsSignalTurn
<1>8. CASE d.driving_state = "LEFT_TURN" /\ ~ApproachIsActive(d)
           /\ d.turn.no_signal
  <2>1. driving' = NoSignalLaneUpdate(c, FALSE)
    BY <1>2, <1>8 DEF UpdateLaneReacquisition, q
  <2> HIDE DEF c
  <2>2. driving' \in {c, [c EXCEPT !.lanes = n]}
    BY <2>1, FrameParameters DEF NoSignalLaneUpdate
  <2> HIDE DEF n
  <2>3. driving'.lanes \in {c.lanes, n}
    BY <1>6, <2>2
  <2>4. d.lanes.reacquired \in Nat
    BY <1>1, CountIsNatural
  <2> HIDE DEF d
  <2>5. driving'.lanes.reacquired <= d.lanes.reacquired
    BY <1>4, <1>5, <2>3, <2>4
  <2> QED BY <1>8, <2>5 DEF NoProgress, IsSignalTurn, d
<1>9. CASE d.driving_state = "LEFT_TURN" /\ ~ApproachIsActive(d)
           /\ ~d.turn.no_signal
  <2> DEFINE e == [c EXCEPT !.lanes = lost]
  <2>1. driving' = SignalLaneUpdate(c, FALSE, right)
    BY <1>2, <1>9 DEF UpdateLaneReacquisition, q
  <2> HIDE DEF c
  <2>2. driving' = StopIfTurnTimedOut(e)
    BY <2>1 DEF SignalLaneUpdate
  <2> HIDE DEF lost
  <2>3. e.lanes = lost /\ e.driving_state = "LEFT_TURN"
    BY <1>6, <1>9
  <2> HIDE DEF e
  <2>4. driving' \in {e, SetDrivingState(e, "STOP")}
    BY <2>2 DEF StopIfTurnTimedOut
  <2>5. SetDrivingState(e, "STOP").driving_state = "STOP"
    BY DEF SetDrivingState
  <2>6. driving'.lanes \in {lost, NoLanes} /\ driving'.driving_state # "DRIVE"
    BY <2>3, <2>4, <2>5, SetDrivingStateKeepsCount
  <2>7. d.lanes.reacquired \in Nat /\ NoLanes.reacquired = 0
    BY <1>1, CountIsNatural DEF NoLanes
  <2>8. driving'.lanes.reacquired <= d.lanes.reacquired
    BY <1>5, <2>6, <2>7
  <2> QED BY <2>6, <2>8 DEF NoProgress
<1> QED BY <1>7, <1>8, <1>9

-----------------------------------------------------------------------------
(* The theorems.                                                           *)

LEMMA NextSafety == SafetyInv /\ [Next]_vars => SafetyInv'
<1> SUFFICES ASSUME SafetyInv, [Next]_vars PROVE SafetyInv'
  OBVIOUS
<1>1. ASSUME NEW red \in BOOLEAN, NEW green \in BOOLEAN,
             NEW policeSeen \in BOOLEAN, CameraCallback(red, green, policeSeen)
      PROVE  SafetyInv'
  BY <1>1, CameraStep
<1>2. ASSUME NEW visible \in BOOLEAN, StopLineCallback(visible)
      PROVE  SafetyInv'
  BY <1>2, StopLineStep
<1>3. ASSUME NEW left \in BOOLEAN, NEW right \in BOOLEAN,
             LaneDetectionCallback(left, right)
      PROVE  SafetyInv'
  BY <1>3, LaneStep
<1>4. CASE MotorCallback
  BY <1>4, MotorStep
<1>5. CASE Tick
  BY <1>5, TickStep
<1>6. CASE UNCHANGED vars
  BY <1>6, SafetyFolds, SafetyFoldsNext DEF vars, Folded
<1> QED
  BY <1>1, <1>2, <1>3, <1>4, <1>5, <1>6 DEF Next

\* The inductive invariant: types, timers, the bound on a turn made on a
\* signal, and that a police car excludes such a turn.
THEOREM Safety == Spec => []SafetyInv
BY InitSafety, NextSafety, PTL DEF Spec

\* Every field of the node keeps its type.
THEOREM TypeCorrectness == Spec => []TypeOK
<1>1. SafetyInv => TypeOK
  BY DEF SafetyInv
<1> QED BY <1>1, Safety, PTL

\* No left turn on a signal while a police car is in its path.
THEOREM PoliceSafety == Spec => []PoliceBlocksSignalTurn
<1>1. SafetyInv => PoliceBlocksSignalTurn
  BY DEF SafetyInv
<1> QED BY <1>1, Safety, PTL

\* Every left turn on a signal is covered by the lane-loss timeout.
THEOREM TurnBound == Spec => []SignalTurnIsBounded
<1>1. SafetyInv => SignalTurnIsBounded
  BY DEF SafetyInv
<1> QED BY <1>1, Safety, PTL

\* No timer outlives the driving state it belongs to.
THEOREM TimersScoped == Spec => []TimersMatchState
<1>1. SafetyInv => TimersMatchState
  BY DEF SafetyInv
<1> QED BY <1>1, Safety, PTL

LEMMA InitRefines == Init => Abstract!Init
BY DEF Init, Abstract!Init, PhaseOf, IsSignalTurn, IsNoSignalTurn

LEMMA NextRefines ==
    SafetyInv /\ [Next]_vars => [Abstract!Next]_(Abstract!vars)
<1> SUFFICES ASSUME SafetyInv, [Next]_vars
             PROVE  [Abstract!Next]_(Abstract!vars)
  OBVIOUS
<1>1. ASSUME NEW red \in BOOLEAN, NEW green \in BOOLEAN,
             NEW policeSeen \in BOOLEAN, CameraCallback(red, green, policeSeen)
      PROVE  Abstract!CameraFrame
  BY <1>1, CameraStep DEF Abstract!CameraFrame
<1>2. ASSUME NEW visible \in BOOLEAN, StopLineCallback(visible)
      PROVE  Abstract!StopLine \/ UNCHANGED Abstract!vars
  BY <1>2, StopLineStep DEF Abstract!StopLine, Abstract!vars
<1>3. ASSUME NEW left \in BOOLEAN, NEW right \in BOOLEAN,
             LaneDetectionCallback(left, right)
      PROVE  Abstract!EndSignalTurn \/ UNCHANGED Abstract!vars
  BY <1>3, LaneStep DEF Abstract!EndSignalTurn, Abstract!vars
<1>4. ASSUME MotorCallback
      PROVE  Abstract!EndNoSignalTurn \/ UNCHANGED Abstract!vars
  BY <1>4, MotorStep DEF Abstract!EndNoSignalTurn, Abstract!vars
<1>5. ASSUME Tick
      PROVE  UNCHANGED Abstract!vars
  BY <1>5, TickStep DEF Abstract!vars
<1>6. ASSUME UNCHANGED vars
      PROVE  UNCHANGED Abstract!vars
  BY <1>6 DEF vars, Abstract!vars
<1> QED
  BY <1>1, <1>2, <1>3, <1>4, <1>5, <1>6 DEF Next, Abstract!Next

\* The node implements the abstract crossing: every callback is one of its
\* steps or leaves its phase alone.
THEOREM Refinement == Spec => ImplementsIntersection
BY InitRefines, NextRefines, Safety, PTL
   DEF Spec, ImplementsIntersection, Abstract!Spec
=============================================================================
