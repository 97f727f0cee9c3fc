----------------------------- MODULE TrackDrive -----------------------------
(***************************************************************************)
(* The track_drive_2 node of track_drive/track_drive.py: the loop that     *)
(* turns camera images into a lane command for the traffic-light node,     *)
(* with the stop-line and lane messages that node acts on.                 *)
(*                                                                         *)
(* One pass of MainLoop.run is one action.  The pass starts with           *)
(* spin_once, which takes at most one image from the camera topic, and     *)
(* then works on the last image taken, new or not.  NewImage is a pass     *)
(* that took an image, SameImage one whose spin_once timed out.            *)
(*                                                                         *)
(* An image is what the pixel tests make of it: yellow dominates white,    *)
(* the floor is checkered, a wide horizontal line is near, the yellow car  *)
(* is in view.  What the sliding windows find also depends on where they   *)
(* found it on the pass before, so it is chosen anew on every pass.        *)
(***************************************************************************)
EXTENDS Integers

CONSTANTS
    NoImage,              \* image is None: no camera message yet
    SchoolEnterFrames,    \* SCHOOL_ZONE_ENTER_FRAMES
    SchoolExitFrames,     \* SCHOOL_ZONE_EXIT_FRAMES
    CheckeredEnterFrames, \* CHECKERED_ENTER_FRAMES
    CheckeredExitFrames,  \* CHECKERED_EXIT_FRAMES
    StopLineFrames,       \* STOP_LINE_CONFIRM_FRAMES
    OvertakeEnterFrames,  \* CAMERA_OVERTAKE_ENTER_FRAMES
    OvertakeLoseFrames,   \* CAMERA_OVERTAKE_LOSE_FRAMES
    OvertakeReturnFrames  \* CAMERA_OVERTAKE_RETURN_FRAMES

Image == [yellow_dominant : BOOLEAN, checkered : BOOLEAN,
          line : BOOLEAN, car : BOOLEAN]

ASSUME NoImageIsNone == NoImage \notin Image

ASSUME DebounceFrames ==
    /\ SchoolEnterFrames \in Nat \ {0}
    /\ SchoolExitFrames \in Nat \ {0}
    /\ CheckeredEnterFrames \in Nat \ {0}
    /\ CheckeredExitFrames \in Nat \ {0}
    /\ StopLineFrames \in Nat \ {0}
    /\ OvertakeEnterFrames \in Nat \ {0}
    /\ OvertakeLoseFrames \in Nat \ {0}
    /\ OvertakeReturnFrames \in Nat \ {0}

VARIABLES
    image,          \* the last image taken from the topic
    school_zone,    \* SchoolZoneDetector
    checkered_zone, \* CheckeredZoneDetector
    stop_line,      \* StopLineDetector and the /stop_line message
    lane_status,    \* the last /lane_detection_status message
    overtake,       \* CameraOvertakeDecision
    lane_motor_cmd  \* the last /lane_motor_cmd message

vars == <<image, school_zone, checkered_zone, stop_line, lane_status, overtake,
          lane_motor_cmd>>

(* lateral_offset is "center" for 0, "right" for LATERAL_OFFSET and "left" *)
(* for LANE1_OFFSET; a commanded speed is known by its bound: SPEED_MIN,   *)
(* the 15 of the school zone, or SPEED_MAX.                                *)
Offsets == {"center", "right", "left"}
SpeedBounds == {"min", "school", "max"}

SchoolZoneType == [school_zone_mode : BOOLEAN,
                   frames : (-SchoolExitFrames)..SchoolEnterFrames]
CheckeredZoneType == [active : BOOLEAN,
                      frames : (-CheckeredExitFrames)..CheckeredEnterFrames]
StopLineType == [detection_frames : 0..StopLineFrames, detected : BOOLEAN]
LaneStatusType == [left : BOOLEAN, right : BOOLEAN]
OvertakeType == [state : {"DISABLED", "LANE2", "WAITING", "LANE1"},
                 lateral_offset : Offsets,
                 enter_streak : 0..OvertakeEnterFrames,
                 lose_streak : 0..OvertakeLoseFrames,
                 wait_frames : 0..OvertakeReturnFrames]
MotorCmdType == [lateral_offset : Offsets, speed : SpeedBounds]

AtLeast(m, n) == IF m >= n THEN m ELSE n
AtMost(m, n) == IF m <= n THEN m ELSE n

(* A definition named ..._Fault... is a defect the checks are shown to catch *)
(* (PROJECT.json, "mutants"); no specification uses it.                    *)

-----------------------------------------------------------------------------
(* The detectors, each run once per image.                                 *)

SchoolZoneMode(mode, frames) ==
    [school_zone_mode |-> frames >= SchoolEnterFrames
                          \/ (mode /\ frames > -SchoolExitFrames),
     frames |-> frames]

SchoolZoneRun_FaultNetCount(z, yellow_dominant) ==
    SchoolZoneMode(z.school_zone_mode,
        IF yellow_dominant THEN AtMost(z.frames + 1, SchoolEnterFrames)
        ELSE AtLeast(z.frames - 1, -SchoolExitFrames))

SchoolZoneRun_FaultClampedShort(z, yellow_dominant) ==
    SchoolZoneMode(z.school_zone_mode,
        IF yellow_dominant
        THEN AtMost(AtLeast(z.frames, 0) + 1, SchoolEnterFrames)
        ELSE AtLeast(AtMost(z.frames, 0) - 1, 1 - SchoolExitFrames))

\* A run of one kind of image starts from zero whatever came before it.
SchoolZoneRun(z, yellow_dominant) ==
    SchoolZoneMode(z.school_zone_mode,
        IF yellow_dominant
        THEN AtMost(AtLeast(z.frames, 0) + 1, SchoolEnterFrames)
        ELSE AtLeast(AtMost(z.frames, 0) - 1, -SchoolExitFrames))

CheckeredZoneRun_FaultResets(z, is_checkered) ==
    LET frames == IF is_checkered
                  THEN AtMost(AtLeast(z.frames, 0) + 1, CheckeredEnterFrames)
                  ELSE AtLeast(AtMost(z.frames, 0) - 1, -CheckeredExitFrames)
    IN  [active |-> frames >= CheckeredEnterFrames
                    \/ (z.active /\ frames > -CheckeredExitFrames),
         frames |-> frames]

CheckeredZoneRun_FaultKeepsMode(z, is_checkered) ==
    [active |-> z.active \/ is_checkered,
     frames |-> IF is_checkered THEN AtMost(z.frames + 1, CheckeredEnterFrames)
                ELSE AtLeast(z.frames - 1, -CheckeredExitFrames)]

\* A net count: one image moves it by one, and it is never started afresh.
CheckeredZoneRun(z, is_checkered) ==
    LET frames == IF is_checkered THEN AtMost(z.frames + 1, CheckeredEnterFrames)
                  ELSE AtLeast(z.frames - 1, -CheckeredExitFrames)
    IN  [active |-> frames >= CheckeredEnterFrames
                    \/ (z.active /\ frames > -CheckeredExitFrames),
         frames |-> frames]

StopLineRun_FaultKeepsCount(s, candidate) ==
    LET frames == IF candidate THEN AtMost(s.detection_frames + 1, StopLineFrames)
                  ELSE s.detection_frames
    IN  [detection_frames |-> frames, detected |-> frames >= StopLineFrames]

StopLineRun(s, candidate) ==
    LET frames == IF candidate THEN AtMost(s.detection_frames + 1, StopLineFrames)
                  ELSE 0
    IN  [detection_frames |-> frames, detected |-> frames >= StopLineFrames]

\* In a checkered zone the left lane is not looked for.
LaneStatus(left, right, skip_left) ==
    [left |-> left /\ ~skip_left, right |-> right]

-----------------------------------------------------------------------------
(* CameraOvertakeDecision, run on every pass.                              *)

Overtake(state, offset, enter, lose, wait) ==
    [state |-> state, lateral_offset |-> offset, enter_streak |-> enter,
     lose_streak |-> lose, wait_frames |-> wait]

NoOvertake == Overtake("DISABLED", "center", 0, 0, 0)

FromDisabled(o, car) ==
    LET streak == IF car THEN o.enter_streak + 1 ELSE 0
    IN  IF streak >= OvertakeEnterFrames
        THEN Overtake("LANE2", "right", streak, 0, o.wait_frames)
        ELSE Overtake("DISABLED", o.lateral_offset, streak, o.lose_streak,
                      o.wait_frames)

FromLane2_FaultOneFrameLate(o, car) ==
    LET streak == IF car THEN 0 ELSE o.lose_streak + 1
    IN  IF streak > OvertakeLoseFrames
        THEN Overtake("WAITING", o.lateral_offset, o.enter_streak, streak, 0)
        ELSE Overtake("LANE2", o.lateral_offset, o.enter_streak, streak,
                      o.wait_frames)

FromLane2(o, car) ==
    LET streak == IF car THEN 0 ELSE o.lose_streak + 1
    IN  IF streak >= OvertakeLoseFrames
        THEN Overtake("WAITING", o.lateral_offset, o.enter_streak, streak, 0)
        ELSE Overtake("LANE2", o.lateral_offset, o.enter_streak, streak,
                      o.wait_frames)

FromWaiting_FaultKeepsLoseStreak(o, car) ==
    IF car
    THEN Overtake("LANE2", o.lateral_offset, o.enter_streak, o.lose_streak,
                  o.wait_frames)
    ELSE IF o.wait_frames + 1 >= OvertakeReturnFrames
         THEN Overtake("LANE1", "left", o.enter_streak, o.lose_streak,
                       o.wait_frames + 1)
         ELSE Overtake("WAITING", o.lateral_offset, o.enter_streak,
                       o.lose_streak, o.wait_frames + 1)

FromWaiting_FaultForgetsFrame(o, car) ==
    IF car
    THEN Overtake("LANE2", o.lateral_offset, o.enter_streak, 0, o.wait_frames)
    ELSE Overtake("WAITING", o.lateral_offset, o.enter_streak, o.lose_streak, 0)

FromWaiting(o, car) ==
    IF car
    THEN Overtake("LANE2", o.lateral_offset, o.enter_streak, 0, o.wait_frames)
    ELSE IF o.wait_frames + 1 >= OvertakeReturnFrames
         THEN Overtake("LANE1", "left", o.enter_streak, o.lose_streak,
                       o.wait_frames + 1)
         ELSE Overtake("WAITING", o.lateral_offset, o.enter_streak,
                       o.lose_streak, o.wait_frames + 1)

UpdateGate_FaultLane1Rearms(o, car, school_zone_active) ==
    IF school_zone_active THEN NoOvertake
    ELSE IF o.state = "DISABLED" \/ o.state = "LANE1" THEN FromDisabled(o, car)
    ELSE IF o.state = "LANE2" THEN FromLane2(o, car)
    ELSE FromWaiting(o, car)

UpdateGate_FaultSchoolZoneLate(o, car, school_zone_active) ==
    IF school_zone_active /\ o.state # "LANE2" THEN NoOvertake
    ELSE IF o.state = "DISABLED" THEN FromDisabled(o, car)
    ELSE IF o.state = "LANE2" THEN FromLane2(o, car)
    ELSE IF o.state = "WAITING" THEN FromWaiting(o, car)
    ELSE o

UpdateGate(o, car, school_zone_active) ==
    IF school_zone_active THEN NoOvertake
    ELSE IF o.state = "DISABLED" THEN FromDisabled(o, car)
    ELSE IF o.state = "LANE2" THEN FromLane2(o, car)
    ELSE IF o.state = "WAITING" THEN FromWaiting(o, car)
    ELSE o                                   \* LANE1: the car is ignored

-----------------------------------------------------------------------------
(* MainLoop.run.                                                           *)

SpeedBound(school_zone_mode, lane_seen) ==
    IF ~lane_seen THEN "min" ELSE IF school_zone_mode THEN "school" ELSE "max"

\* The end of every pass: overtake decision, controller, lane command.
Drive(frame, school_zone_mode, lane_seen) ==
    /\ overtake' = UpdateGate(overtake, frame.car, school_zone_mode)
    /\ lane_motor_cmd' = [lateral_offset |-> overtake'.lateral_offset,
                          speed |-> SpeedBound(school_zone_mode, lane_seen)]

Init ==
    /\ image = NoImage
    /\ school_zone = [school_zone_mode |-> FALSE, frames |-> 0]
    /\ checkered_zone = [active |-> FALSE, frames |-> 0]
    /\ stop_line = [detection_frames |-> 0, detected |-> FALSE]
    /\ lane_status = [left |-> FALSE, right |-> FALSE]
    /\ overtake = NoOvertake
    /\ lane_motor_cmd = [lateral_offset |-> "center", speed |-> "min"]

\* The lanes are looked for with the zone of the image before.
NewImage_FaultStaleZone(frame, left, right) ==
    LET school == SchoolZoneRun(school_zone, frame.yellow_dominant)
        lanes == LaneStatus(left, right, checkered_zone.active)
    IN  /\ image' = frame
        /\ school_zone' = school
        /\ checkered_zone' = CheckeredZoneRun(checkered_zone, frame.checkered)
        /\ lane_status' = lanes
        /\ stop_line' = StopLineRun(stop_line, frame.line)
        /\ Drive(frame, school.school_zone_mode, lanes.left \/ lanes.right)

NewImage(frame, left, right) ==
    LET school == SchoolZoneRun(school_zone, frame.yellow_dominant)
        checkered == CheckeredZoneRun(checkered_zone, frame.checkered)
        lanes == LaneStatus(left, right, checkered.active)
    IN  /\ image' = frame
        /\ school_zone' = school
        /\ checkered_zone' = checkered
        /\ lane_status' = lanes
        /\ stop_line' = StopLineRun(stop_line, frame.line)
        /\ Drive(frame, school.school_zone_mode, lanes.left \/ lanes.right)

SameImage(left, right) ==
    LET lanes == LaneStatus(left, right, checkered_zone.active)
    IN  /\ image # NoImage
        /\ Drive(image, school_zone.school_zone_mode, lanes.left \/ lanes.right)
        /\ UNCHANGED <<image, school_zone, checkered_zone, stop_line, lane_status>>

Next ==
    \E left, right \in BOOLEAN :
        \/ \E frame \in Image : NewImage(frame, left, right)
        \/ SameImage(left, right)

Spec == Init /\ [][Next]_vars

-----------------------------------------------------------------------------
(* Properties.                                                             *)

\* Type invariant.  It bounds every frame counter of the detectors and of
\* the overtake decision, none of which the code clamps explicitly except
\* the two zone counters.
TypeOK ==
    /\ image \in Image \cup {NoImage}
    /\ school_zone \in SchoolZoneType
    /\ checkered_zone \in CheckeredZoneType
    /\ stop_line \in StopLineType
    /\ lane_status \in LaneStatusType
    /\ overtake \in OvertakeType
    /\ lane_motor_cmd \in MotorCmdType

\* In a school zone no overtaking is under way, and the command on the topic
\* keeps to the lane centre and to the school-zone speed.  The mode changes on
\* new images, the overtake decision on every pass, and the command may come
\* from either kind of pass.
SchoolZoneIsCautious ==
    school_zone.school_zone_mode =>
        /\ overtake = NoOvertake
        /\ lane_motor_cmd.lateral_offset = "center"
        /\ lane_motor_cmd.speed # "max"

\* The table of states in the comment above CameraOvertakeDecision.
PhaseOffset(state) ==
    CASE state = "DISABLED" -> "center"
      [] state = "LANE1" -> "left"
      [] state \in {"LANE2", "WAITING"} -> "right"

\* The offset the car follows is the one of the overtaking phase: it stays
\* right until the car has been out of view long enough, however often it is
\* lost and seen again.
OffsetMatchesPhase ==
    /\ overtake.lateral_offset = PhaseOffset(overtake.state)
    /\ lane_motor_cmd.lateral_offset = overtake.lateral_offset

\* Each zone flag agrees with its counter: neither can be on with the counter
\* at the exit limit, or off with it at the entry limit.
ZonesMatchCounters ==
    /\ IF school_zone.school_zone_mode
       THEN school_zone.frames > -SchoolExitFrames
       ELSE school_zone.frames < SchoolEnterFrames
    /\ IF checkered_zone.active
       THEN checkered_zone.frames > -CheckeredExitFrames
       ELSE checkered_zone.frames < CheckeredEnterFrames

\* Over the checkered floor the left lane is never reported, so nothing that
\* waits for a left lane can be answered by the pattern on the floor.
CheckeredHidesLeft ==
    checkered_zone.active => ~lane_status.left

=============================================================================
