--------------------------- MODULE CameraSection ----------------------------
(***************************************************************************)
(* The two nodes that drive the camera section, joined by their topics:    *)
(* TrackDrive publishes /stop_line and /lane_detection_status once per     *)
(* image, TrafficLight takes them from its subscription queues.  The two   *)
(* queues are served in any order, and a full one drops its oldest         *)
(* message (KEEP_LAST).                                                    *)
(*                                                                         *)
(* A pass of the lane follower without a new image sends neither message.  *)
(* The motor command of a pass is not queued: the traffic-light node       *)
(* answers one from its own state.                                         *)
(***************************************************************************)
EXTENDS Integers, Sequences

CONSTANTS
    Depth,        \* the depth of both subscription queues
    Frames,       \* the images the lane follower may take
    Sights,       \* what the traffic-light node may see in an image
    \* of TrackDrive
    NoImage,
    SchoolEnterFrames, SchoolExitFrames,
    CheckeredEnterFrames, CheckeredExitFrames, StopLineFrames,
    OvertakeEnterFrames, OvertakeLoseFrames, OvertakeReturnFrames,
    \* of TrafficLight
    ConfirmationFrames, PoliceConfirmationFrames, PoliceClearFrames,
    LaneReacquireFrames, LeftTurnTimeoutFrames,
    ApproachSec, WaitTimeoutSec, HoldSec

ASSUME QueueDepth == Depth \in Nat \ {0}

\* FrameParameters and TimeParameters of TrafficLight, for its constants here.
ASSUME LightFrames ==
    /\ ConfirmationFrames \in Nat \ {0}
    /\ PoliceConfirmationFrames \in Nat \ {0}
    /\ PoliceClearFrames \in Nat \ {0}
    /\ LaneReacquireFrames \in Nat \ {0}
    /\ LeftTurnTimeoutFrames \in Nat \ {0}

\* DebounceFrames of TrackDrive.
ASSUME LaneFrames ==
    /\ SchoolEnterFrames \in Nat \ {0}
    /\ SchoolExitFrames \in Nat \ {0}
    /\ CheckeredEnterFrames \in Nat \ {0}
    /\ CheckeredExitFrames \in Nat \ {0}
    /\ StopLineFrames \in Nat \ {0}
    /\ OvertakeEnterFrames \in Nat \ {0}
    /\ OvertakeLoseFrames \in Nat \ {0}
    /\ OvertakeReturnFrames \in Nat \ {0}

ASSUME LightTimes ==
    ApproachSec \in Nat /\ WaitTimeoutSec \in Nat /\ HoldSec \in Nat

VARIABLES
    image, school_zone, checkered_zone, stop_line, lane_status, overtake,
    lane_motor_cmd,                             \* of TrackDrive
    driving, police, stop_line_detected, motor, \* of TrafficLight
    stop_line_topic,                            \* /stop_line
    lane_topic,                                 \* /lane_detection_status
    tiles                                       \* images in a row with a floor

Lane == INSTANCE TrackDrive
Light == INSTANCE TrafficLight

ASSUME NoImageIsNone == NoImage \notin Lane!Image

ASSUME CameraFrames == Frames \subseteq Lane!Image

ASSUME CameraSights ==
    Sights \subseteq [red : BOOLEAN, green : BOOLEAN, police : BOOLEAN]

laneVars == <<image, school_zone, checkered_zone, stop_line, lane_status,
              overtake, lane_motor_cmd>>
lightVars == <<driving, police, stop_line_detected, motor>>
vars == <<laneVars, lightVars, stop_line_topic, lane_topic, tiles>>

\* So many images in a row enter the checkered zone wherever its counter was.
FloorBound == CheckeredEnterFrames + CheckeredExitFrames

\* KEEP_LAST: a message too many replaces the oldest.
Publish(q, msg) ==
    IF Len(q) < Depth THEN Append(q, msg) ELSE Append(Tail(q), msg)

Init ==
    /\ Lane!Init /\ Light!Init
    /\ stop_line_topic = <<>> /\ lane_topic = <<>>
    /\ tiles = 0

(* The two observers are not part of the program, and no action reads      *)
(* them: tiles counts, from the images alone, how many in a row have shown *)
(* a checkered floor, and the field floor of a lane message says whether   *)
(* there were FloorBound of them when it was sent.                         *)
CountTiles == tiles' = IF image'.checkered THEN Lane!AtMost(tiles + 1, FloorBound)
                       ELSE 0

LaneMessage == [left |-> lane_status.left, right |-> lane_status.right,
                floor |-> tiles = FloorBound]

\* Only a line in view is told.
LanePass_FaultTellsNoAbsence ==
    /\ \E frame \in Frames, left, right \in BOOLEAN :
           Lane!NewImage(frame, left, right)
    /\ CountTiles
    /\ stop_line_topic' = IF stop_line'.detected
                          THEN Publish(stop_line_topic, TRUE)
                          ELSE stop_line_topic
    /\ lane_topic' = Publish(lane_topic, LaneMessage')
    /\ UNCHANGED lightVars

LanePass ==
    /\ \E frame \in Frames, left, right \in BOOLEAN :
           Lane!NewImage(frame, left, right)
    /\ CountTiles
    /\ stop_line_topic' = Publish(stop_line_topic, stop_line'.detected)
    /\ lane_topic' = Publish(lane_topic, LaneMessage')
    /\ UNCHANGED lightVars

\* A pass on the image of the pass before.
SamePass ==
    /\ \E left, right \in BOOLEAN : Lane!SameImage(left, right)
    /\ UNCHANGED <<lightVars, stop_line_topic, lane_topic, tiles>>

TakeStopLine ==
    /\ stop_line_topic # <<>>
    /\ Light!StopLineCallback(Head(stop_line_topic))
    /\ stop_line_topic' = Tail(stop_line_topic)
    /\ UNCHANGED <<laneVars, lane_topic, tiles>>

TakeLanes ==
    /\ lane_topic # <<>>
    /\ Light!LaneDetectionCallback(Head(lane_topic).left, Head(lane_topic).right)
    /\ lane_topic' = Tail(lane_topic)
    /\ UNCHANGED <<laneVars, stop_line_topic, tiles>>

Others ==
    /\ \/ \E sight \in Sights :
              Light!CameraCallback(sight.red, sight.green, sight.police)
       \/ Light!MotorCallback
       \/ Light!Tick
    /\ UNCHANGED <<laneVars, stop_line_topic, lane_topic, tiles>>

Next == LanePass \/ SamePass \/ TakeStopLine \/ TakeLanes \/ Others

\* The loop of MainLoop.run goes on and takes images as long as the camera
\* publishes; rclpy.spin serves a subscription that always has a message.
Spec == Init /\ [][Next]_vars /\ WF_vars(LanePass) /\ WF_vars(TakeStopLine)

-----------------------------------------------------------------------------
(* Properties.                                                             *)

\* The end of a turn has been brought nearer, or the turn has ended in driving.
LanesCounted ==
    \/ driving'.lanes.reacquired > driving.lanes.reacquired
    \/ Light!SignalTurn /\ driving'.driving_state = "DRIVE"

\* A lane message sent when the last FloorBound images all showed a checkered
\* floor never counts towards the end of a left turn: by then the zone has been
\* entered, whatever its counter had been, and the left lane it hides is that
\* of the same image, although the zone may have been left again while the
\* message was in the queue.  The first images of a floor may count: the zone
\* is not on yet.
TurnEndsOffFloor ==
    [][TakeLanes /\ LanesCounted => ~Head(lane_topic).floor]_vars

\* Whatever the queues have dropped, what the lane follower last said is never
\* lost: it is the last message of each queue, and of an emptied stop-line
\* queue it is what the traffic-light node goes by.  So that node is wrong about
\* the line only while a message waits.
NewestIsKept ==
    /\ IF stop_line_topic = <<>>
       THEN stop_line_detected = stop_line.detected
       ELSE stop_line_topic[Len(stop_line_topic)] = stop_line.detected
    /\ lane_topic # <<>> => lane_topic[Len(lane_topic)] = LaneMessage

LineInView == image # NoImage /\ image.line

\* A stop line that comes into view and stays there stops a car that drives
\* and has last heard of no line, whatever messages the full queue dropped.
LineStopsCar ==
    <>[]LineInView
        => (driving.driving_state = "DRIVE" /\ ~stop_line_detected
            ~> driving.driving_state = "SIGNAL_WAIT")
=============================================================================
