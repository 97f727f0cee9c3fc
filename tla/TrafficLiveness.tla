-------------------------- MODULE TrafficLiveness ---------------------------
(***************************************************************************)
(* TrafficLight in front of a world: what the camera, the lane detector    *)
(* and the stop-line detector would report now.  The world changes as it   *)
(* likes; the callbacks report it.                                         *)
(*                                                                         *)
(* Fairness.  The simulator streams images and the lane follower publishes *)
(* a lane status and a motor command in a loop that never waits for this   *)
(* node, and rclpy.spin serves every subscription that has a message, so   *)
(* each callback that would change something is eventually run; time goes  *)
(* on.  Nothing is assumed of the world, nor of stop lines.                *)
(***************************************************************************)
EXTENDS TrafficLight

VARIABLE world

worldVars == <<vars, world>>

\* No lane, the left one, or both (a lone right lane counts as no lane).
Lanes == {{}, {"left"}, {"left", "right"}}

World == [red : BOOLEAN, green : BOOLEAN, police : BOOLEAN, lanes : Lanes]

\* One thing changes at a time: lamps, police car or lanes.
WorldStep(w) ==
    \/ \E red, green \in BOOLEAN : w = [world EXCEPT !.red = red, !.green = green]
    \/ w = [world EXCEPT !.police = ~@]
    \/ \E lanes \in Lanes : w = [world EXCEPT !.lanes = lanes]

LInit == Init /\ world = [red |-> FALSE, green |-> FALSE, police |-> FALSE,
                          lanes |-> {"left", "right"}]

LCamera == CameraCallback(world.red, world.green, world.police) /\ UNCHANGED world
LLanes ==
    /\ LaneDetectionCallback("left" \in world.lanes, "right" \in world.lanes)
    /\ UNCHANGED world
LStopLine ==
    \E visible \in BOOLEAN : StopLineCallback(visible) /\ UNCHANGED world
LMotor == MotorCallback /\ UNCHANGED world
LTick == Tick /\ UNCHANGED world
WorldChanges == \E w \in World : WorldStep(w) /\ world' = w /\ UNCHANGED vars

LNext == LCamera \/ LLanes \/ LStopLine \/ LMotor \/ LTick \/ WorldChanges

LSpec ==
    /\ LInit /\ [][LNext]_worldVars
    /\ WF_worldVars(LCamera) /\ WF_worldVars(LLanes)
    /\ WF_worldVars(LMotor) /\ WF_worldVars(LTick)

Signal == <<world.red, world.green, world.police>>

\* A turn made on a signal ends, whatever the lanes, lamps and police do: the
\* lane-loss timeout catches a car that never finds the new lane.
SignalTurnEnds == SignalTurn ~> ~SignalTurn

\* A car that waits at a line decides, whatever it is that the camera keeps
\* showing: nothing, one lamp or both, with or without a police car.
WaitIsDecided ==
    (\E s \in BOOLEAN \X BOOLEAN \X BOOLEAN : <>[](Signal = s))
        => []<>(driving.driving_state # "SIGNAL_WAIT")

\* A lasting green, and a lasting left-turn signal without a police car, free
\* the car from every stop, in particular one that a police car caused.
GreenFreesTheCar ==
    (\E red \in BOOLEAN : <>[](Signal = <<red, TRUE, FALSE>>))
        => []<>(driving.driving_state \notin {"SIGNAL_WAIT", "STOP"})

\* A turn made without a signal ends if the left lane comes to stay in view.
BlindTurnEnds == <>[]("left" \in world.lanes) => (NoSignalTurn ~> ~NoSignalTurn)
=============================================================================
