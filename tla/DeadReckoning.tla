--------------------------- MODULE DeadReckoning ---------------------------
(***************************************************************************)
(* The dead_reckoning node of ad_tf_maker/dead_reckoning.py with the two   *)
(* publishers of motor commands it listens to.  The node integrates the    *)
(* commanded speed over the stamps of the commands and hands the distance  *)
(* to the odometry with each IMU message.                                  *)
(*                                                                         *)
(* motor_translator stamps its commands; the traffic-light node, which     *)
(* takes over from it (module Handoff), leaves the stamp at zero.  Both    *)
(* callbacks are in one mutually exclusive group, so they run one at a     *)
(* time, in any order.                                                     *)
(*                                                                         *)
(* Units are whole: a speed is the distance it makes in one unit of time   *)
(* (the code divides by 2.5).  The heading is left out, and the position   *)
(* is the length of the path, counted negative backwards.                  *)
(***************************************************************************)
EXTENDS Integers, Sequences

CONSTANTS
    MaxSpeed,  \* SPEED_MAX of motor_translator; its SPEED_MIN is -MaxSpeed
    StartTime, \* the clock when the node is constructed
    MaxTime,   \* bound of the model on the clock
    Depth      \* history depth of the subscription

ASSUME SpeedLimit == MaxSpeed \in Nat

ASSUME Clock == StartTime \in Nat \ {0} /\ MaxTime \in Nat /\ StartTime <= MaxTime

ASSUME HistoryDepth == Depth \in Nat \ {0}

VARIABLES
    now,         \* the clock all processes share
    driver,      \* who publishes motor commands
    xycar_motor, \* commands on their way to the node
    odometry     \* the node: see OdometryType

vars == <<now, driver, xycar_motor, odometry>>

NoStamp == 0
Speeds == (-MaxSpeed)..MaxSpeed
Command == [speed : Speeds, stamp : {NoStamp} \cup StartTime..MaxTime]

\* motor_prev_time, dist and the position the node has published.
OdometryType == [motor_prev_time : {NoStamp} \cup StartTime..MaxTime,
                 dist : Int, position : Int]

Estimate(o) == o.position + o.dist

(* A definition named ..._Fault... is a defect the checks are shown to catch *)
(* (PROJECT.json, "mutants"); no specification uses it.                    *)

-----------------------------------------------------------------------------
(* The publishers.                                                         *)

Clamp_FaultUnbounded(target) == target

\* max(min(target_speed, SPEED_MAX), SPEED_MIN)
Clamp(target) ==
    IF target > MaxSpeed THEN MaxSpeed
    ELSE IF target < -MaxSpeed THEN -MaxSpeed
    ELSE target

\* A full history drops its oldest command.
Publish(command) ==
    LET kept == IF Len(xycar_motor) < Depth THEN xycar_motor ELSE Tail(xycar_motor)
    IN  xycar_motor' = Append(kept, command)

\* Nav2 may ask for more than the car can do.
TranslatorCommand(target) ==
    /\ driver = "motor_translator"
    /\ Publish([speed |-> Clamp(target), stamp |-> now])
    /\ UNCHANGED <<now, driver, odometry>>

\* The handoff without a bypass; commands still on their way stay there.
HandOver ==
    /\ driver = "motor_translator"
    /\ driver' = "traffic_light"
    /\ UNCHANGED <<now, xycar_motor, odometry>>

\* The camera section drives forwards, and slower than Nav2 may.
TrafficLightCommand(speed) ==
    /\ driver = "traffic_light"
    /\ Publish([speed |-> speed, stamp |-> NoStamp])
    /\ UNCHANGED <<now, driver, odometry>>

-----------------------------------------------------------------------------
(* The node.                                                               *)

Integrate_FaultOverwrites(o, command) ==
    [motor_prev_time |-> command.stamp,
     dist |-> command.speed * (command.stamp - o.motor_prev_time),
     position |-> o.position]

\* The speed of a command counts for the time before it, back to the stamp of
\* the command before, or to the construction of the node.
Integrate(o, command) ==
    [motor_prev_time |-> command.stamp,
     dist |-> o.dist + command.speed * (command.stamp - o.motor_prev_time),
     position |-> o.position]

PublishOdometry_FaultKeepsDist(o) ==
    [o EXCEPT !.position = @ + o.dist]

PublishOdometry(o) ==
    [motor_prev_time |-> o.motor_prev_time, dist |-> 0,
     position |-> o.position + o.dist]

MotorCallback ==
    /\ xycar_motor # <<>>
    /\ odometry' = Integrate(odometry, Head(xycar_motor))
    /\ xycar_motor' = Tail(xycar_motor)
    /\ UNCHANGED <<now, driver>>

ImuCallback ==
    /\ odometry' = PublishOdometry(odometry)
    /\ UNCHANGED <<now, driver, xycar_motor>>

-----------------------------------------------------------------------------

\* Nav2 sends no speed before goal_sender has slept, long after this node is up.
Init ==
    /\ now = StartTime
    /\ driver = "motor_translator"
    /\ xycar_motor = <<>>
    /\ odometry = [motor_prev_time |-> StartTime, dist |-> 0, position |-> 0]

Tick ==
    /\ now < MaxTime
    /\ now' = now + 1
    /\ UNCHANGED <<driver, xycar_motor, odometry>>

Next ==
    \/ \E target \in (-MaxSpeed - 1)..(MaxSpeed + 1) : TranslatorCommand(target)
    \/ \E speed \in 0..MaxSpeed : TrafficLightCommand(speed)
    \/ HandOver \/ MotorCallback \/ ImuCallback \/ Tick

Spec == Init /\ [][Next]_vars

-----------------------------------------------------------------------------
(* Properties.                                                             *)

\* Type invariant; every command on the topic is one the car can follow.
TypeOK ==
    /\ now \in StartTime..MaxTime
    /\ driver \in {"motor_translator", "traffic_light"}
    /\ xycar_motor \in Seq(Command) /\ Len(xycar_motor) <= Depth
    /\ odometry \in OdometryType

\* While commands carry stamps the estimated path is one the car can have
\* driven in the time the stamps span, whichever commands were dropped and
\* however IMU messages fall between them: nothing is counted twice.
EstimateIsDrivable ==
    LET elapsed == odometry.motor_prev_time - StartTime
    IN  odometry.motor_prev_time # NoStamp =>
            /\ -MaxSpeed * elapsed <= Estimate(odometry)
            /\ Estimate(odometry) <= MaxSpeed * elapsed

\* The first command without a stamp is also the last that moves the estimate:
\* after the handoff the odometry jumps once, by no more than the last stamp
\* allows, and stands still from then on.
OdometryEndsAtHandoff ==
    [][ /\ odometry.motor_prev_time = NoStamp =>
              /\ Estimate(odometry') = Estimate(odometry)
              /\ odometry'.motor_prev_time = NoStamp
        /\ odometry.motor_prev_time # NoStamp /\ odometry'.motor_prev_time = NoStamp
              => \E speed \in Speeds :
                    Estimate(odometry') = Estimate(odometry)
                                          - speed * odometry.motor_prev_time ]_vars

=============================================================================
