---------------------------- MODULE TrafficLight ----------------------------
(***************************************************************************)
(* The TrafficDetection node of track_drive/traffic_Light.py.  It stands   *)
(* between the lane follower and the motor: every lane command goes        *)
(* through MotorCallback, which passes it on, replaces it by a stop, or    *)
(* replaces it by a left turn, according to a driving state that camera    *)
(* frames, stop-line messages and lane messages move.                      *)
(*                                                                         *)
(* rclpy.spin runs one callback at a time, so each callback is one atomic  *)
(* action.  Callbacks interleave in any order, and Tick lets time pass     *)
(* between any two of them.                                                *)
(*                                                                         *)
(* Representation.  A timestamp field *_started_at holds the time elapsed  *)
(* since it was taken (the code only ever subtracts it from now), stops    *)
(* counting when it reaches the limit it is compared with, and is Off when *)
(* the code holds None.  A frame counter that is only compared with >=     *)
(* stops at its threshold in the same way.  A camera frame is what the     *)
(* detectors make of it: red seen, green seen, police lights seen.         *)
(***************************************************************************)
EXTENDS Integers

CONSTANTS
    ConfirmationFrames,       \* confirmation_frames
    PoliceConfirmationFrames, \* police_confirmation_frames
    PoliceClearFrames,        \* police_clear_frames
    LaneReacquireFrames,      \* lane_reacquire_frames
    LeftTurnTimeoutFrames,    \* left_turn_timeout_frames
    ApproachSec,              \* signal_left_turn_approach_sec
    WaitTimeoutSec,           \* signal_wait_timeout_sec
    HoldSec                   \* no_signal_left_turn_hold_sec

\* The parameter clamps of the constructor: max(1, ...) and max(0.0, ...).
ASSUME FrameParameters ==
    /\ ConfirmationFrames \in Nat \ {0}
    /\ PoliceConfirmationFrames \in Nat \ {0}
    /\ PoliceClearFrames \in Nat \ {0}
    /\ LaneReacquireFrames \in Nat \ {0}
    /\ LeftTurnTimeoutFrames \in Nat \ {0}

ASSUME TimeParameters ==
    /\ ApproachSec \in Nat
    /\ WaitTimeoutSec \in Nat
    /\ HoldSec \in Nat

VARIABLES
    driving,            \* what the car is doing: see DrivingType
    police,             \* the debounced police-car detector
    stop_line_detected, \* the last stop-line message
    motor               \* the last command published on /xycar_motor

vars == <<driving, police, stop_line_detected, motor>>

States == {"DRIVE", "SIGNAL_WAIT", "STOP", "LEFT_TURN"}

NoSignal == "NONE"      \* candidate_state or pending_signal_state is None
Off == -1               \* a *_started_at field that is None

Timer(limit) == {Off} \cup 0..limit

\* pending_signal_state and pending_signal_frames.
PendingType == [signal : {NoSignal, "STOP", "DRIVE", "LEFT_TURN"},
                frames : 0..ConfirmationFrames]

\* no_signal_left_turn, left_turn_timeout_enabled and
\* require_lane_loss_before_reacquire: which kind of left turn it is.
TurnType == [no_signal : BOOLEAN, timeout_enabled : BOOLEAN,
             require_lane_loss : BOOLEAN]

\* lane_was_lost_during_turn, lane_reacquisition_frames and
\* left_turn_frame_count: how far the turn has come.
LanesType == [was_lost : BOOLEAN, reacquired : 0..LaneReacquireFrames,
              frame_count : 0..LeftTurnTimeoutFrames]

\* signal_wait_started_at, signal_left_turn_approach_started_at and
\* no_signal_lane_hold_started_at.
TimerType == [wait : Timer(WaitTimeoutSec), approach : Timer(ApproachSec),
              hold : Timer(HoldSec)]

DrivingType == [driving_state : States, pending : PendingType, turn : TurnType,
                lanes : LanesType, timer : TimerType]

\* police_car_detected, police_detection_frames and police_clear_frame_count.
PoliceType == [detected : BOOLEAN,
               detection_frames : 0..PoliceConfirmationFrames,
               clear_frame_count : 0..PoliceClearFrames]

MotorType == [angle : {"none", "lane", "straight", "max_left"},
              speed : {"none", "lane", "zero", "turn"}]

NoPending == [signal |-> NoSignal, frames |-> 0]
OnSignal == [no_signal |-> FALSE, timeout_enabled |-> TRUE,
             require_lane_loss |-> TRUE]
WithoutSignal == [no_signal |-> TRUE, timeout_enabled |-> FALSE,
                  require_lane_loss |-> FALSE]
NoLanes == [was_lost |-> FALSE, reacquired |-> 0, frame_count |-> 0]
NoTimers == [wait |-> Off, approach |-> Off, hold |-> Off]

IsSignalTurn(d) == d.driving_state = "LEFT_TURN" /\ ~d.turn.no_signal
IsNoSignalTurn(d) == d.driving_state = "LEFT_TURN" /\ d.turn.no_signal

Bump(n, limit) == IF n < limit THEN n + 1 ELSE n

(* A definition named ..._Fault... is a defect the checks are shown to catch *)
(* (PROJECT.json, "mutants"); no specification uses it.                    *)

-----------------------------------------------------------------------------
(* Helper methods: each maps the driving record to the one it leaves.      *)

TimersOnEntry(state) ==
    [wait |-> IF state = "SIGNAL_WAIT" THEN 0 ELSE Off,
     approach |-> IF state = "LEFT_TURN" THEN 0 ELSE Off,
     hold |-> Off]

SetDrivingState_FaultTimeoutStaysOff(d, state) ==
    [driving_state |-> state,
     pending |-> NoPending,
     turn |-> [no_signal |-> FALSE,
               timeout_enabled |-> d.turn.timeout_enabled,
               require_lane_loss |-> state = "LEFT_TURN"
                                     \/ d.turn.require_lane_loss],
     lanes |-> IF state = "LEFT_TURN" THEN NoLanes ELSE d.lanes,
     timer |-> TimersOnEntry(state)]

SetDrivingState_FaultKeepsPending(d, state) ==
    [driving_state |-> state,
     pending |-> d.pending,
     turn |-> IF state = "LEFT_TURN" THEN OnSignal
              ELSE [d.turn EXCEPT !.no_signal = FALSE],
     lanes |-> IF state = "LEFT_TURN" THEN NoLanes ELSE d.lanes,
     timer |-> TimersOnEntry(state)]

SetDrivingState(d, state) ==
    [driving_state |-> state,
     pending |-> NoPending,
     turn |-> IF state = "LEFT_TURN" THEN OnSignal
              ELSE [d.turn EXCEPT !.no_signal = FALSE],
     lanes |-> IF state = "LEFT_TURN" THEN NoLanes ELSE d.lanes,
     timer |-> TimersOnEntry(state)]

ClearPending(d) == [d EXCEPT !.pending = NoPending]

SignalTimedOut(d) ==
    /\ d.driving_state = "SIGNAL_WAIT"
    /\ d.timer.wait # Off
    /\ d.timer.wait >= WaitTimeoutSec

StartLeftTurnIfSignalTimedOut(d) ==
    IF SignalTimedOut(d)
    THEN [SetDrivingState(d, "LEFT_TURN") EXCEPT !.turn = WithoutSignal,
                                                 !.timer = NoTimers]
    ELSE d

\* The part of _signal_left_turn_approach_is_active both its tests share.
OnApproach(d) ==
    /\ d.driving_state = "LEFT_TURN"
    /\ ~d.turn.no_signal
    /\ d.timer.approach # Off

ApproachIsActive(d) == OnApproach(d) /\ d.timer.approach < ApproachSec

EndApproachIfElapsed_FaultRestartsTimer(d) ==
    IF OnApproach(d) /\ ~ApproachIsActive(d)
    THEN [d EXCEPT !.timer = [@ EXCEPT !.approach = 0]]
    ELSE d

\* What that query changes: it ends an approach whose time is over.
EndApproachIfElapsed(d) ==
    IF OnApproach(d) /\ ~ApproachIsActive(d)
    THEN [d EXCEPT !.timer = [@ EXCEPT !.approach = Off], !.lanes = NoLanes]
    ELSE d

HoldElapsed(d) ==
    /\ d.driving_state = "LEFT_TURN"
    /\ d.turn.no_signal
    /\ d.timer.hold # Off
    /\ d.timer.hold >= HoldSec

FinishHoldIfElapsed(d) ==
    IF HoldElapsed(d) THEN SetDrivingState(d, "DRIVE") ELSE d

-----------------------------------------------------------------------------
(* Camera frames: the police detector, then the traffic light.             *)

Candidate_FaultIgnoresPolice(red, green, policeDetected) ==
    CASE red /\ green -> "LEFT_TURN"
      [] red /\ ~green -> "STOP"
      [] ~red /\ green -> "DRIVE"
      [] ~red /\ ~green -> NoSignal

\* What one frame says: both lamps mean left turn, unless a police car is
\* in the way, in which case they mean stop.
Candidate(red, green, policeDetected) ==
    CASE red /\ green /\ ~policeDetected -> "LEFT_TURN"
      [] red /\ (~green \/ policeDetected) -> "STOP"
      [] ~red /\ green -> "DRIVE"
      [] ~red /\ ~green -> NoSignal

Debounce_FaultFirstFrameUncounted(d, seen) ==
    LET frames == IF seen = d.pending.signal
                  THEN Bump(d.pending.frames, ConfirmationFrames)
                  ELSE 0
        counted == [d EXCEPT !.pending = [signal |-> seen, frames |-> frames]]
    IN  IF frames >= ConfirmationFrames /\ seen # d.driving_state
        THEN SetDrivingState(counted, seen)
        ELSE counted

Debounce(d, seen) ==
    LET frames == IF seen = d.pending.signal
                  THEN Bump(d.pending.frames, ConfirmationFrames)
                  ELSE 1
        counted == [d EXCEPT !.pending = [signal |-> seen, frames |-> frames]]
    IN  IF frames >= ConfirmationFrames /\ seen # d.driving_state
        THEN SetDrivingState(counted, seen)
        ELSE counted

UpdateDrivingState_FaultNeverTimesOut(d, seen) ==
    CASE d.driving_state = "LEFT_TURN" -> d
      [] d.driving_state = "DRIVE" -> ClearPending(d)
      [] d.driving_state \in {"SIGNAL_WAIT", "STOP"} ->
            IF seen = NoSignal THEN ClearPending(d) ELSE Debounce(d, seen)

UpdateDrivingState_FaultTimeoutFirst(d, seen) ==
    CASE d.driving_state = "LEFT_TURN" -> d
      [] d.driving_state = "DRIVE" -> ClearPending(d)
      [] d.driving_state \in {"SIGNAL_WAIT", "STOP"} ->
            IF seen = NoSignal \/ SignalTimedOut(d)
            THEN StartLeftTurnIfSignalTimedOut(ClearPending(d))
            ELSE Debounce(d, seen)

UpdateDrivingState(d, seen) ==
    CASE d.driving_state = "LEFT_TURN" -> d
      [] d.driving_state = "DRIVE" -> ClearPending(d)
      [] d.driving_state \in {"SIGNAL_WAIT", "STOP"} ->
            IF seen = NoSignal
            THEN StartLeftTurnIfSignalTimedOut(ClearPending(d))
            ELSE Debounce(d, seen)

UpdatePoliceDetection_FaultCountKept(p, candidate) ==
    LET frames == Bump(p.detection_frames, PoliceConfirmationFrames)
    IN  IF candidate
        THEN [detected |-> p.detected \/ frames >= PoliceConfirmationFrames,
              detection_frames |-> frames,
              clear_frame_count |-> 0]
        ELSE [detected |-> p.detected
                           /\ p.clear_frame_count + 1 < PoliceClearFrames,
              detection_frames |-> 0,
              clear_frame_count |-> IF p.detected
                                    THEN p.clear_frame_count + 1
                                    ELSE p.clear_frame_count]

UpdatePoliceDetection_FaultNeverClears(p, candidate) ==
    [p EXCEPT
        !.detection_frames = IF candidate
                             THEN Bump(@, PoliceConfirmationFrames) ELSE 0,
        !.detected = \/ @
                     \/ candidate
                        /\ p.detection_frames + 1 >= PoliceConfirmationFrames]

UpdatePoliceDetection_FaultLightsKeepCount(p, candidate) ==
    IF candidate
    THEN [p EXCEPT
             !.detection_frames = Bump(@, PoliceConfirmationFrames),
             !.detected = @ \/ p.detection_frames + 1 >= PoliceConfirmationFrames]
    ELSE [detected |-> p.detected
                       /\ p.clear_frame_count + 1 < PoliceClearFrames,
          detection_frames |-> 0,
          clear_frame_count |->
              IF p.detected /\ p.clear_frame_count + 1 < PoliceClearFrames
              THEN p.clear_frame_count + 1 ELSE 0]

\* _update_police_detection, the detector's own fields.
UpdatePoliceDetection(p, candidate) ==
    LET frames == Bump(p.detection_frames, PoliceConfirmationFrames)
    IN  CASE candidate ->
               [detected |-> p.detected \/ frames >= PoliceConfirmationFrames,
                detection_frames |-> frames,
                clear_frame_count |-> 0]
          [] ~candidate /\ ~p.detected -> [p EXCEPT !.detection_frames = 0]
          [] ~candidate /\ p.detected
             /\ p.clear_frame_count + 1 < PoliceClearFrames ->
               [detected |-> TRUE, detection_frames |-> 0,
                clear_frame_count |-> p.clear_frame_count + 1]
          [] ~candidate /\ p.detected
             /\ p.clear_frame_count + 1 >= PoliceClearFrames ->
               [detected |-> FALSE, detection_frames |-> 0,
                clear_frame_count |-> 0]

YieldToPolice_FaultNoYield(d, appeared) == d

\* ... and its effect on the driving state: a newly seen police car stops a
\* turn made on a signal, not one made because no signal was seen.
YieldToPolice(d, appeared) ==
    IF appeared /\ d.driving_state = "LEFT_TURN" /\ ~d.turn.no_signal
    THEN SetDrivingState(d, "STOP")
    ELSE d

-----------------------------------------------------------------------------
(* Lane messages.                                                          *)

NoSignalLaneUpdate_FaultCountsGaps(d, left) ==
    LET frames == IF left
                  THEN Bump(d.lanes.reacquired, LaneReacquireFrames)
                  ELSE d.lanes.reacquired
    IN  [d EXCEPT
            !.lanes = [@ EXCEPT !.reacquired = frames],
            !.timer = [@ EXCEPT !.hold =
                           IF @ = Off /\ frames >= LaneReacquireFrames
                           THEN 0 ELSE @]]

NoSignalLaneUpdate(d, left) ==
    LET frames == IF left
                  THEN Bump(d.lanes.reacquired, LaneReacquireFrames)
                  ELSE 0
        counted == [d EXCEPT !.lanes = [@ EXCEPT !.reacquired = frames]]
    IN  CASE d.timer.hold # Off -> d
          [] d.timer.hold = Off /\ frames < LaneReacquireFrames -> counted
          [] d.timer.hold = Off /\ frames >= LaneReacquireFrames ->
               [counted EXCEPT !.timer = [@ EXCEPT !.hold = 0]]

StopIfTurnTimedOut_FaultDropped(d) == d

StopIfTurnTimedOut(d) ==
    IF /\ d.turn.timeout_enabled
       /\ d.lanes.frame_count >= LeftTurnTimeoutFrames
    THEN SetDrivingState(d, "STOP")
    ELSE d

SignalLaneUpdate(d, left, right) ==
    LET lane_reacquired == left /\ (right \/ ~d.turn.require_lane_loss)
        armed == ~d.turn.require_lane_loss \/ d.lanes.was_lost
        frames == Bump(d.lanes.reacquired, LaneReacquireFrames)
        lost == [was_lost |-> TRUE, reacquired |-> 0,
                 frame_count |-> d.lanes.frame_count]
        found == [d.lanes EXCEPT !.reacquired = frames]
    IN  CASE ~lane_reacquired -> StopIfTurnTimedOut([d EXCEPT !.lanes = lost])
          [] lane_reacquired /\ ~armed -> StopIfTurnTimedOut(d)
          [] lane_reacquired /\ armed /\ frames < LaneReacquireFrames ->
               StopIfTurnTimedOut([d EXCEPT !.lanes = found])
          [] lane_reacquired /\ armed /\ frames >= LaneReacquireFrames ->
               SetDrivingState([d EXCEPT !.lanes = found], "DRIVE")

\* left_turn_frame_count += 1
CountFrame(d) ==
    LET count == Bump(d.lanes.frame_count, LeftTurnTimeoutFrames)
    IN  [d EXCEPT !.lanes = [@ EXCEPT !.frame_count = count]]

UpdateLaneReacquisition_FaultDuringApproach(d, left, right) ==
    IF d.driving_state # "LEFT_TURN" THEN d
    ELSE IF d.turn.no_signal
         THEN NoSignalLaneUpdate(CountFrame(d), left)
         ELSE SignalLaneUpdate(CountFrame(d), left, right)

UpdateLaneReacquisition(d, left, right) ==
    LET counted == CountFrame(EndApproachIfElapsed(d))
    IN  IF d.driving_state # "LEFT_TURN" \/ ApproachIsActive(d) THEN d
        ELSE IF d.turn.no_signal
             THEN NoSignalLaneUpdate(counted, left)
             ELSE SignalLaneUpdate(counted, left, right)

-----------------------------------------------------------------------------
(* The motor command that answers a lane command.                          *)

Command(d) ==
    CASE d.driving_state \in {"STOP", "SIGNAL_WAIT"} ->
           [angle |-> "lane", speed |-> "zero"]
      [] d.driving_state = "LEFT_TURN" ->
           [angle |-> IF ApproachIsActive(d) THEN "straight" ELSE "max_left",
            speed |-> "turn"]
      [] d.driving_state = "DRIVE" -> [angle |-> "lane", speed |-> "lane"]

Unpublished == [angle |-> "none", speed |-> "none"]

-----------------------------------------------------------------------------
Init ==
    /\ driving = [driving_state |-> "DRIVE", pending |-> NoPending,
                  turn |-> OnSignal, lanes |-> NoLanes, timer |-> NoTimers]
    /\ police = [detected |-> FALSE, detection_frames |-> 0,
                 clear_frame_count |-> 0]
    /\ stop_line_detected = FALSE
    /\ motor = Unpublished

\* camera_callback and detect_traffic_light: police first, then the signal.
CameraCallback(red, green, policeSeen) ==
    LET p == UpdatePoliceDetection(police, policeSeen)
        yielded == YieldToPolice(driving, p.detected /\ ~police.detected)
    IN  /\ police' = p
        /\ driving' = UpdateDrivingState(yielded,
                                         Candidate(red, green, p.detected))
        /\ UNCHANGED <<stop_line_detected, motor>>

StopLineCallback_FaultLevelTriggered(visible) ==
    /\ stop_line_detected' = visible
    /\ driving' = IF visible /\ driving.driving_state = "DRIVE"
                  THEN SetDrivingState(driving, "SIGNAL_WAIT")
                  ELSE driving
    /\ UNCHANGED <<police, motor>>

StopLineCallback_FaultEdgeAfterUpdate(visible) ==
    /\ stop_line_detected' = visible
    /\ driving' = IF /\ visible /\ ~stop_line_detected'
                     /\ driving.driving_state = "DRIVE"
                  THEN SetDrivingState(driving, "SIGNAL_WAIT")
                  ELSE driving
    /\ UNCHANGED <<police, motor>>

StopLineCallback(visible) ==
    /\ stop_line_detected' = visible
    /\ driving' = IF /\ visible /\ ~stop_line_detected
                     /\ driving.driving_state = "DRIVE"
                  THEN SetDrivingState(driving, "SIGNAL_WAIT")
                  ELSE driving
    /\ UNCHANGED <<police, motor>>

LaneDetectionCallback(left, right) ==
    /\ driving' = UpdateLaneReacquisition(driving, left, right)
    /\ UNCHANGED <<police, stop_line_detected, motor>>

MotorCallback_FaultHoldNotEnded ==
    /\ motor' = Command(driving)
    /\ driving' = EndApproachIfElapsed(driving)
    /\ UNCHANGED <<police, stop_line_detected>>

MotorCallback ==
    LET held == FinishHoldIfElapsed(driving)
    IN  /\ motor' = Command(held)
        /\ driving' = EndApproachIfElapsed(held)
        /\ UNCHANGED <<police, stop_line_detected>>

\* One unit of time, on every timer that runs.
Elapse(t, limit) == IF t = Off THEN Off ELSE Bump(t, limit)

Tick ==
    /\ driving' = [driving EXCEPT !.timer =
            [wait |-> Elapse(@.wait, WaitTimeoutSec),
             approach |-> Elapse(@.approach, ApproachSec),
             hold |-> Elapse(@.hold, HoldSec)]]
    /\ UNCHANGED <<police, stop_line_detected, motor>>

Next ==
    \/ \E red, green, policeSeen \in BOOLEAN :
           CameraCallback(red, green, policeSeen)
    \/ \E visible \in BOOLEAN : StopLineCallback(visible)
    \/ \E left, right \in BOOLEAN : LaneDetectionCallback(left, right)
    \/ MotorCallback
    \/ Tick

Spec == Init /\ [][Next]_vars

-----------------------------------------------------------------------------
(* Properties.                                                             *)

\* Every field of the node holds a value its code can handle, and the police
\* detector counts clear frames only below the limit at which it clears.
TypeOK ==
    /\ driving \in DrivingType
    /\ police \in PoliceType
    /\ police.clear_frame_count < PoliceClearFrames
    /\ stop_line_detected \in BOOLEAN
    /\ motor \in MotorType

SignalTurn == IsSignalTurn(driving)
NoSignalTurn == IsNoSignalTurn(driving)

\* While the police detector is on, the car is not in a left turn that it
\* makes on a signal, whether the police car or the signal came first and
\* however the two confirmations overlap ("Police car detected in left-turn
\* path: holding position").
PoliceBlocksSignalTurn == police.detected => ~SignalTurn

TurnIsBounded(d) ==
    IsSignalTurn(d) => /\ d.turn = OnSignal
                       /\ d.lanes.frame_count < LeftTurnTimeoutFrames
                       /\ d.lanes.reacquired < LaneReacquireFrames

\* The lane-loss timeout always covers a turn made on a signal: it is armed,
\* even after a turn that switched it off, and no lane message that reached
\* the limit was ignored.
SignalTurnIsBounded == TurnIsBounded(driving)

TimersMatch(d) ==
    /\ d.timer.wait # Off <=> d.driving_state = "SIGNAL_WAIT"
    /\ d.timer.approach # Off => IsSignalTurn(d)
    /\ d.timer.hold # Off => IsNoSignalTurn(d)
    /\ d.turn.no_signal => d.driving_state = "LEFT_TURN"

\* Each timer belongs to one driving state and never survives it, so a timer
\* left over from an earlier stop or turn cannot end the present one early.
TimersMatchState == TimersMatch(driving)

\* The conjunction the proofs carry from state to state.
SafetyInv ==
    /\ TypeOK
    /\ PoliceBlocksSignalTurn
    /\ SignalTurnIsBounded
    /\ TimersMatchState

\* The phase of the abstract crossing that a driving record stands for.
PhaseOf(d) ==
    CASE d.driving_state # "LEFT_TURN" -> d.driving_state
      [] IsNoSignalTurn(d) -> "NO_SIGNAL_TURN"
      [] IsSignalTurn(d) -> "SIGNAL_TURN"

Abstract == INSTANCE Intersection WITH
    phase <- PhaseOf(driving), policeInPath <- police.detected

\* The node implements the abstract crossing.
ImplementsIntersection == Abstract!Spec
=============================================================================
