---------------------------- MODULE Intersection ----------------------------
(***************************************************************************)
(* What the TrafficDetection node promises at a crossing, without saying   *)
(* how: no frame counts, no debouncing, no timers.  The car is in one of   *)
(* five phases.  It stops only from driving, at a stop line; it leaves a   *)
(* stop only on a camera frame; it turns left on a signal only when no     *)
(* police car is in its path, and yields when one appears; a turn ends     *)
(* only by what the lane detector sees, by waiting, or by yielding.        *)
(***************************************************************************)

VARIABLES
    phase,        \* what the car does
    policeInPath  \* a police car is in the path of the left turn

vars == <<phase, policeInPath>>

Phases == {"DRIVE", "SIGNAL_WAIT", "STOP", "SIGNAL_TURN", "NO_SIGNAL_TURN"}

TypeOK == phase \in Phases /\ policeInPath \in BOOLEAN

Init == phase = "DRIVE" /\ policeInPath = FALSE

\* A signalled turn yields to a police car in its path.
Yield(ph, seen) == IF seen /\ ph = "SIGNAL_TURN" THEN "STOP" ELSE ph

\* The phases one camera frame may lead to.
After(ph, seen) ==
    LET turn == IF seen THEN {} ELSE {"SIGNAL_TURN"}
    IN  CASE ph = "SIGNAL_WAIT" ->
               {"SIGNAL_WAIT", "STOP", "DRIVE", "NO_SIGNAL_TURN"} \cup turn
          [] ph = "STOP" -> {"STOP", "DRIVE"} \cup turn
          [] ph \in {"DRIVE", "SIGNAL_TURN", "NO_SIGNAL_TURN"} -> {ph}

CameraFrame ==
    \E seen \in BOOLEAN :
        /\ policeInPath' = seen
        /\ phase' \in After(Yield(phase, seen), seen)

StopLine ==
    /\ phase = "DRIVE"
    /\ phase' = "SIGNAL_WAIT"
    /\ UNCHANGED policeInPath

EndSignalTurn ==
    /\ phase = "SIGNAL_TURN"
    /\ phase' \in {"DRIVE", "STOP"}
    /\ UNCHANGED policeInPath

EndNoSignalTurn ==
    /\ phase = "NO_SIGNAL_TURN"
    /\ phase' = "DRIVE"
    /\ UNCHANGED policeInPath

Next == CameraFrame \/ StopLine \/ EndSignalTurn \/ EndNoSignalTurn

Spec == Init /\ [][Next]_vars
=============================================================================
