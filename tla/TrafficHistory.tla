--------------------------- MODULE TrafficHistory ---------------------------
(***************************************************************************)
(* TrafficLight beside an observer that remembers what the node was told:  *)
(* the camera frames, lane messages, stop-line messages and time since the *)
(* present stop or turn began.  The observer reads no counter, flag or     *)
(* timer of the node, so a property that compares the two says whether the *)
(* node's own bookkeeping gave the right answer.                           *)
(***************************************************************************)
EXTENDS TrafficLight

VARIABLE seen

historyVars == <<vars, seen>>

Stops == {"SIGNAL_WAIT", "STOP"}

SeenNothing == [
    meaning |-> NoSignal, \* what the last camera frame meant ...
    streak |-> 0,         \* ... and how many in a row did, in this stop
    fresh |-> TRUE,       \* no camera frame was decided on in this stop yet
    wait_time |-> 0,      \* time since the car stopped at a line
    dark_time |-> 0,      \* time since a lamp was last seen, in this stop
    police |-> 0,         \* camera frames in a row with police lights ...
    unlit |-> Off,        \* ... and without, from enough of them until enough
    red_confirmed |-> FALSE, \* red was confirmed in this stop
    turn_time |-> 0,      \* time since this left turn began
    messages |-> 0,       \* lane messages since the approach ended ...
    both |-> 0,           \* ... those in a row with both lanes ...
    lost |-> FALSE,       \* ... and whether one lacked a lane
    left |-> 0,           \* lane messages in a row with the left lane
    left_time |-> Off,    \* time since the left lane was seen often enough
    hard_left |-> FALSE,  \* a hard left has been commanded in this turn
    line_gone |-> TRUE]   \* the last line stopped for is out of view

\* What starts over when the driving state changes.
Restart(s, state) ==
    [SeenNothing EXCEPT
        !.meaning = s.meaning, !.streak = s.streak, !.fresh = s.fresh,
        !.police = s.police, !.unlit = s.unlit,
        !.red_confirmed = state \in Stops /\ (s.red_confirmed \/ state = "STOP"),
        !.line_gone = s.line_gone]

StateChanged == driving'.driving_state # driving.driving_state

\* Both: the record after the observed message, restarted if the state changed.
Observe(s) ==
    seen' = IF StateChanged THEN Restart(s, driving'.driving_state) ELSE s

\* Frames without lights count from enough frames with lights on, in a row.
NextUnlit(lights, policeSeen) ==
    CASE policeSeen ->
           IF lights < PoliceConfirmationFrames /\ seen.unlit = Off THEN Off ELSE 0
      [] ~policeSeen ->
           IF seen.unlit = Off \/ seen.unlit + 1 >= PoliceClearFrames
           THEN Off ELSE seen.unlit + 1

\* A frame that itself stops a turn, for a police car, is the first of the stop.
ObservedFrame(red, green, policeSeen) ==
    LET meaning == Candidate(red, green, police'.detected)
        again == /\ driving.driving_state \in Stops
                 /\ ~seen.fresh
                 /\ meaning = seen.meaning
        lights == IF policeSeen
                  THEN Bump(seen.police, PoliceConfirmationFrames) ELSE 0
    IN  [seen EXCEPT
            !.meaning = meaning,
            !.streak = IF again THEN Bump(@, ConfirmationFrames) ELSE 1,
            !.fresh = \/ driving'.driving_state \notin Stops
                      \/ driving.driving_state \in Stops /\ StateChanged,
            !.dark_time = IF red \/ green THEN 0 ELSE @,
            !.police = lights,
            !.unlit = NextUnlit(lights, policeSeen)]

ObservedLanes(left, right) ==
    LET turning == /\ driving.driving_state = "LEFT_TURN"
                   /\ NoSignalTurn \/ seen.turn_time >= ApproachSec
        lefts == IF left THEN Bump(seen.left, LaneReacquireFrames) ELSE 0
    IN  IF ~turning THEN seen
        ELSE [seen EXCEPT
                 !.messages = Bump(@, LeftTurnTimeoutFrames),
                 !.both = IF left /\ right
                          THEN Bump(@, LaneReacquireFrames) ELSE 0,
                 !.lost = @ \/ ~(left /\ right),
                 !.left = lefts,
                 !.left_time = IF @ = Off /\ lefts >= LaneReacquireFrames
                               THEN 0 ELSE @]

ObservedTime ==
    [seen EXCEPT
        !.wait_time = IF driving.driving_state = "SIGNAL_WAIT"
                      THEN Bump(@, WaitTimeoutSec) ELSE @,
        !.dark_time = IF driving.driving_state = "SIGNAL_WAIT"
                      THEN Bump(@, WaitTimeoutSec) ELSE @,
        !.turn_time = IF driving.driving_state = "LEFT_TURN"
                      THEN Bump(@, ApproachSec) ELSE @,
        !.left_time = Elapse(@, HoldSec)]

HInit == Init /\ seen = SeenNothing

HCamera(red, green, policeSeen) ==
    /\ CameraCallback(red, green, policeSeen)
    /\ Observe(ObservedFrame(red, green, policeSeen))

HStopLine(visible) ==
    /\ StopLineCallback(visible)
    /\ Observe([seen EXCEPT !.line_gone = ~visible \/ (@ /\ ~StateChanged)])

HLanes(left, right) ==
    LaneDetectionCallback(left, right) /\ Observe(ObservedLanes(left, right))

HMotor ==
    /\ MotorCallback
    /\ Observe([seen EXCEPT !.hard_left = @ \/ motor'.angle = "max_left"])

HTick == Tick /\ Observe(ObservedTime)

HNext ==
    \/ \E red, green, policeSeen \in BOOLEAN : HCamera(red, green, policeSeen)
    \/ \E visible \in BOOLEAN : HStopLine(visible)
    \/ \E left, right \in BOOLEAN : HLanes(left, right)
    \/ HMotor
    \/ HTick

HSpec == HInit /\ [][HNext]_historyVars

-----------------------------------------------------------------------------
(* Properties.                                                             *)

\* The car leaves a stop, or turns a wait into a stop, only on a signal that
\* the last confirmation_frames camera frames of this very stop all showed,
\* or into the turn it makes without a signal.  Frames from before the stop,
\* or from before another signal was seen, never count.
DeparturesAreConfirmed ==
    [][(driving.driving_state \in Stops /\ StateChanged /\ ~NoSignalTurn')
       => /\ seen'.meaning = driving'.driving_state
          /\ seen'.streak >= ConfirmationFrames]_historyVars

\* And a confirmed signal is obeyed: once that many frames in a row of this stop
\* have shown one signal, the car is doing what it says.  Neither a stop entered
\* in the middle of a frame nor a police car nor a timeout loses a frame.
SignalsAreObeyed ==
    /\ driving.driving_state \in Stops /\ ~seen.fresh
    /\ seen.meaning # NoSignal /\ seen.streak >= ConfirmationFrames
    => driving.driving_state = seen.meaning

\* A turn made on a signal ends on time: the car is no longer turning once
\* police_confirmation_frames frames in a row have shown police lights, nor
\* again before police_clear_frames frames in a row have then shown none, nor
\* once left_turn_timeout_frames lane messages have come since the approach.
TurnEndsOnTime ==
    SignalTurn => /\ seen.police < PoliceConfirmationFrames
                  /\ seen.unlit = Off
                  /\ seen.messages < LeftTurnTimeoutFrames

\* The turn without a signal starts only after a full wait at the line, on a
\* frame that shows no lamp, and never once red has been confirmed there.
BlindTurnIsLastResort ==
    [][(~NoSignalTurn /\ NoSignalTurn')
       => /\ driving.driving_state = "SIGNAL_WAIT"
          /\ seen.wait_time >= WaitTimeoutSec
          /\ seen'.meaning = NoSignal
          /\ ~seen.red_confirmed]_historyVars

\* A turn made on a signal hands the wheel back to the lane follower only
\* after the approach, after the old lane was lost, and after both lanes
\* were then seen in lane_reacquire_frames messages in a row.
SignalTurnEndsOnNewLane ==
    [][(SignalTurn /\ driving'.driving_state = "DRIVE")
       => /\ seen.turn_time >= ApproachSec
          /\ seen.lost
          /\ seen.both + 1 >= LaneReacquireFrames]_historyVars

\* A turn made without a signal ends only after the hold time has passed
\* since the left lane was seen in lane_reacquire_frames messages in a row.
BlindTurnEndsAfterHold ==
    [][(NoSignalTurn /\ StateChanged)
       => /\ driving'.driving_state = "DRIVE"
          /\ seen.left_time >= HoldSec]_historyVars

\* In one turn the car never goes back from the hard left to the straight
\* approach, whichever callback ended the approach.
NeverStraightAfterHardLeft ==
    [][(seen.hard_left /\ motor' # motor) => motor'.angle # "straight"]_historyVars

\* The car stops once for a stop line, however long the line stays in view:
\* between two stops the line was reported gone.
OneStopPerLine ==
    [][(driving.driving_state = "DRIVE" /\ StateChanged)
       => seen.line_gone]_historyVars

\* What the log line "No signal detected for ...s: starting left turn" says:
\* no lamp was seen for signal_wait_timeout_sec before that turn starts.
NoSignalSeenDuringWait ==
    [][(~NoSignalTurn /\ NoSignalTurn')
       => seen.dark_time >= WaitTimeoutSec]_historyVars
=============================================================================
