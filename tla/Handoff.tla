------------------------------ MODULE Handoff ------------------------------
(***************************************************************************)
(* The change from lidar driving to camera driving.  Four processes take   *)
(* part and share no lock: motor_translator turns Nav2 commands into motor *)
(* commands, goal_sender gives Nav2 its waypoints and kills                *)
(* motor_translator when Nav2 answers, the traffic-light process waits for *)
(* motor_translator's publisher to come and go before it creates the node  *)
(* that publishes motor commands itself, and Nav2 drives in between.       *)
(*                                                                         *)
(* What the waiter knows of the publisher is a copy that discovery brings  *)
(* up to date some time after the fact.  A message on /nav2_bypass ends    *)
(* the wait at once; it is sent by hand, in launches without Nav2.         *)
(***************************************************************************)
EXTENDS Naturals

VARIABLES
    translator,  \* the motor_translator process
    goal_sender, \* how far GoalSenderNode has come
    goal,        \* the FollowWaypoints goal, as Nav2 holds it
    graph,       \* what discovery last said: a publisher on /xycar_motor exists
    waiter,      \* _wait_for_nav2_completion in the traffic-light process
    bypass_msg,  \* a /nav2_bypass message is waiting for the waiter
    xycar_motor  \* who published the last motor command

vars == <<translator, goal_sender, goal, graph, waiter, bypass_msg, xycar_motor>>

\* motor_translator: "killed" from pkill until the process is gone.
Translator == {"starting", "running", "killed", "gone"}

\* GoalSenderNode: the constructor blocks up to "spinning"; only then are the
\* answers of Nav2 handled, and "following" is waiting for the result.
GoalSender == {"connecting", "sleeping", "goal_sent", "spinning", "following",
               "done", "refused"}

\* The goal at Nav2.  It can end with every waypoint reached or not: with
\* stop_on_failure false (nav2_params.yaml) both end it with a result.
Goal == {"none", "sent", "rejected", "active", "reached", "missed"}
Ended == {"reached", "missed"}

\* The waiter: "starting" until its node exists; "driving" once TrafficDetection
\* does.
Waiter == [state : {"starting", "waiting", "driving"}, nav2_active : BOOLEAN,
           bypass : BOOLEAN]

(* A definition named ..._Fault... is a defect the checks are shown to catch *)
(* (PROJECT.json, "mutants"); no specification uses it.                    *)

Init ==
    /\ translator = "starting"
    /\ goal_sender = "connecting"
    /\ goal = "none"
    /\ graph = FALSE
    /\ waiter = [state |-> "starting", nav2_active |-> FALSE, bypass |-> FALSE]
    /\ bypass_msg = FALSE
    /\ xycar_motor = "nobody"

-----------------------------------------------------------------------------
(* motor_translator, from its first publisher to its end.                  *)

StartTranslator ==
    /\ translator = "starting"
    /\ translator' = "running"
    /\ UNCHANGED <<goal_sender, goal, graph, waiter, bypass_msg, xycar_motor>>

\* Nav2's velocity smoother may still send zeros after the goal has ended.
CmdVelCallback ==
    /\ translator \in {"running", "killed"}
    /\ goal \in {"active"} \cup Ended
    /\ xycar_motor' = "translator"
    /\ UNCHANGED <<translator, goal_sender, goal, graph, waiter, bypass_msg>>

TerminateTranslator ==
    /\ translator = "killed"
    /\ translator' = "gone"
    /\ UNCHANGED <<goal_sender, goal, graph, waiter, bypass_msg, xycar_motor>>

-----------------------------------------------------------------------------
(* goal_sender.                                                            *)

GoalSenderStep(from, to) ==
    /\ goal_sender = from
    /\ goal_sender' = to

WaitForServer ==
    /\ GoalSenderStep("connecting", "sleeping")
    /\ UNCHANGED <<translator, goal, graph, waiter, bypass_msg, xycar_motor>>

\* _wait_for_green is commented out: the goal goes out after the sleep alone.
SendGoal ==
    /\ GoalSenderStep("sleeping", "goal_sent")
    /\ goal' = "sent"
    /\ UNCHANGED <<translator, graph, waiter, bypass_msg, xycar_motor>>

\* The end of the constructor: sleep, _publish_initial_pose, then main spins.
PublishInitialPose ==
    /\ GoalSenderStep("goal_sent", "spinning")
    /\ UNCHANGED <<translator, goal, graph, waiter, bypass_msg, xycar_motor>>

GoalResponseCallback_FaultKillsOnRejection ==
    /\ goal \in {"active", "rejected"} \cup Ended
    /\ GoalSenderStep("spinning",
                      IF goal = "rejected" THEN "refused" ELSE "following")
    /\ translator' = IF goal = "rejected" THEN "killed" ELSE translator
    /\ UNCHANGED <<goal, graph, waiter, bypass_msg, xycar_motor>>

GoalResponseCallback ==
    /\ goal \in {"active", "rejected"} \cup Ended
    /\ GoalSenderStep("spinning",
                      IF goal = "rejected" THEN "refused" ELSE "following")
    /\ UNCHANGED <<translator, goal, graph, waiter, bypass_msg, xycar_motor>>

\* pkill -f finds the process whether or not it has a publisher yet.
ResultCallback ==
    /\ goal \in Ended
    /\ GoalSenderStep("following", "done")
    /\ translator' = IF translator = "gone" THEN "gone" ELSE "killed"
    /\ UNCHANGED <<goal, graph, waiter, bypass_msg, xycar_motor>>

-----------------------------------------------------------------------------
(* Nav2, outside this repository.                                          *)

Nav2Answers ==
    /\ goal = "sent"
    /\ goal' \in {"active", "rejected"}
    /\ UNCHANGED <<translator, goal_sender, graph, waiter, bypass_msg, xycar_motor>>

Nav2Finishes ==
    /\ goal = "active"
    /\ goal' \in Ended
    /\ UNCHANGED <<translator, goal_sender, graph, waiter, bypass_msg, xycar_motor>>

-----------------------------------------------------------------------------
(* The traffic-light process and what reaches it.                          *)

\* Discovery; a killed process keeps its publisher until it is gone.
Discover ==
    /\ graph' = (translator \in {"running", "killed"})
    /\ UNCHANGED <<translator, goal_sender, goal, waiter, bypass_msg, xycar_motor>>

\* The operator; a message sent before the waiter has subscribed is lost.
SendBypass ==
    /\ waiter.state = "waiting" /\ ~waiter.bypass
    /\ bypass_msg' = TRUE
    /\ UNCHANGED <<translator, goal_sender, goal, graph, waiter, xycar_motor>>

StartWaiter ==
    /\ waiter.state = "starting"
    /\ waiter' = [waiter EXCEPT !.state = "waiting"]
    /\ UNCHANGED <<translator, goal_sender, goal, graph, bypass_msg, xycar_motor>>

Waits(active) ==
    [state |-> "waiting", nav2_active |-> active, bypass |-> FALSE]
Drives(active, bypassed) ==
    [state |-> "driving", nav2_active |-> active, bypass |-> bypassed]

AfterPoll_FaultGoesAtOnce(active, bypassed, count) ==
    IF bypassed THEN Drives(active, TRUE)
    ELSE IF ~count THEN Drives(active, FALSE)
    ELSE Waits(TRUE)

AfterPoll_FaultForgets(active, bypassed, count) ==
    IF bypassed THEN Drives(active, TRUE)
    ELSE Waits(count)

AfterPoll_FaultBypassNeedsNav2(active, bypassed, count) ==
    IF bypassed /\ active THEN Drives(active, TRUE)
    ELSE IF active /\ ~count THEN Drives(TRUE, FALSE)
    ELSE Waits(active \/ count)

\* The body of the while loop: the bypass first, then the publisher count.
AfterPoll(active, bypassed, count) ==
    IF bypassed THEN Drives(active, TRUE)
    ELSE IF active /\ ~count THEN Drives(TRUE, FALSE)
    ELSE Waits(active \/ count)

\* One pass: spin_once takes a bypass message if there is one.
Poll ==
    /\ waiter.state = "waiting"
    /\ waiter' = AfterPoll(waiter.nav2_active, bypass_msg, graph)
    /\ bypass_msg' = FALSE
    /\ UNCHANGED <<translator, goal_sender, goal, graph, xycar_motor>>

\* TrafficDetection exists and answers a lane command (module TrafficLight).
LaneCommand ==
    /\ waiter.state = "driving"
    /\ xycar_motor' = "traffic_light"
    /\ UNCHANGED <<translator, goal_sender, goal, graph, waiter, bypass_msg>>

-----------------------------------------------------------------------------

TranslatorNext == StartTranslator \/ CmdVelCallback \/ TerminateTranslator

GoalSenderNext ==
    \/ WaitForServer \/ SendGoal \/ PublishInitialPose
    \/ GoalResponseCallback \/ ResultCallback

WaiterNext == StartWaiter \/ Poll \/ LaneCommand

Next ==
    \/ TranslatorNext \/ GoalSenderNext \/ WaiterNext
    \/ Nav2Answers \/ Nav2Finishes \/ Discover \/ SendBypass

Spec == Init /\ [][Next]_vars

\* Processes and discovery keep going.  The operator never has to send anything,
\* and Nav2 need not finish.
Fairness ==
    /\ WF_vars(StartTranslator) /\ WF_vars(TerminateTranslator)
    /\ WF_vars(GoalSenderNext) /\ WF_vars(Discover)
    /\ WF_vars(StartWaiter) /\ WF_vars(Poll)

LiveSpec == Spec /\ Fairness

-----------------------------------------------------------------------------
(* Properties.                                                             *)

\* Type invariant, for the proofs; what each process can be is the sets above.
TypeOK ==
    /\ translator \in Translator
    /\ goal_sender \in GoalSender
    /\ goal \in Goal
    /\ graph \in BOOLEAN
    /\ waiter \in Waiter
    /\ bypass_msg \in BOOLEAN
    /\ xycar_motor \in {"nobody", "translator", "traffic_light"}

\* Never two drivers: unless the operator said so, the traffic-light node has
\* the motor only when motor_translator is gone, however late discovery is.
OneDriver ==
    waiter.state = "driving" /\ ~waiter.bypass => translator = "gone"

\* The camera does not take over in the middle of the lidar section: without a
\* bypass it drives only when Nav2 has ended the goal, never because a goal was
\* refused or because motor_translator was not up yet.
HandoffAfterGoal ==
    waiter.state = "driving" /\ ~waiter.bypass => goal \in Ended

\* Once the waiter has noticed motor_translator, a goal that ends, in whatever
\* way, is followed by the camera driving.
HandoffHappens ==
    waiter.nav2_active /\ goal \in Ended ~> waiter.state = "driving"

\* A bypass that reaches the waiter ends the wait, in any state of the rest.
BypassEndsWait ==
    bypass_msg ~> waiter.state = "driving"

\* What the run guide says of step (3): motor_translator is ended when Nav2
\* has reached its goal.  _result_callback does not look at the result.
EndedOnlyAtTheGoal ==
    translator = "gone" => goal = "reached"

=============================================================================
