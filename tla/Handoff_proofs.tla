--------------------------- MODULE Handoff_proofs ---------------------------
(***************************************************************************)
(* Why the handoff is safe although the waiter sees motor_translator only  *)
(* through discovery.  What it has seen is out of date, but in one         *)
(* direction only: motor_translator never comes back, so "was there, is    *)
(* not there" can be late and cannot be wrong.  GraphIsLate says that, and *)
(* KilledAfterGoal that only an ended goal gets motor_translator killed.   *)
(***************************************************************************)
EXTENDS Handoff, TLAPS

GraphIsLate ==
    /\ graph \/ waiter.nav2_active => translator # "starting"
    /\ ~graph /\ waiter.nav2_active => translator = "gone"

KilledAfterGoal ==
    /\ translator \in {"killed", "gone"} => goal \in Ended
    /\ goal_sender = "following" => goal \in {"active"} \cup Ended
    /\ goal_sender \in {"connecting", "sleeping"} => goal = "none"

HandoffInv == TypeOK /\ GraphIsLate /\ KilledAfterGoal /\ OneDriver

LEMMA InitEstablishesInv == Init => HandoffInv
<1> SUFFICES ASSUME Init PROVE HandoffInv
  OBVIOUS
<1>1. waiter \in Waiter /\ ~waiter.nav2_active /\ waiter.state = "starting"
  BY DEF Init, Waiter
<1>2. TypeOK
  BY <1>1 DEF Init, TypeOK, Translator, GoalSender, Goal, Ended
<1>3. GraphIsLate /\ KilledAfterGoal /\ OneDriver
  BY <1>1 DEF Init, GraphIsLate, KilledAfterGoal, OneDriver
<1> QED  BY <1>2, <1>3 DEF HandoffInv

LEMMA TranslatorKeepsInv == HandoffInv /\ TranslatorNext => HandoffInv'
<1> SUFFICES ASSUME HandoffInv, TranslatorNext PROVE HandoffInv'
  OBVIOUS
<1> USE DEF HandoffInv, TypeOK, GraphIsLate, KilledAfterGoal, OneDriver,
            Translator, Ended
<1>1. CASE StartTranslator      BY <1>1 DEF StartTranslator
<1>2. CASE CmdVelCallback       BY <1>2 DEF CmdVelCallback
<1>3. CASE TerminateTranslator  BY <1>3 DEF TerminateTranslator
<1> QED  BY <1>1, <1>2, <1>3 DEF TranslatorNext

LEMMA GoalSenderKeepsInv == HandoffInv /\ GoalSenderNext => HandoffInv'
<1> SUFFICES ASSUME HandoffInv, GoalSenderNext PROVE HandoffInv'
  OBVIOUS
<1> USE DEF HandoffInv, TypeOK, GraphIsLate, KilledAfterGoal, OneDriver,
            Translator, GoalSender, Goal, Ended, GoalSenderStep
<1>1. CASE WaitForServer         BY <1>1 DEF WaitForServer
<1>2. CASE SendGoal
  <2>1. translator \in {"starting", "running"}
    BY <1>2 DEF SendGoal
  <2> QED  BY <1>2, <2>1 DEF SendGoal
<1>3. CASE PublishInitialPose    BY <1>3 DEF PublishInitialPose
<1>4. CASE GoalResponseCallback  BY <1>4 DEF GoalResponseCallback
<1>5. CASE ResultCallback        BY <1>5 DEF ResultCallback
<1> QED  BY <1>1, <1>2, <1>3, <1>4, <1>5 DEF GoalSenderNext

LEMMA Nav2KeepsInv == HandoffInv /\ (Nav2Answers \/ Nav2Finishes) => HandoffInv'
  BY DEF HandoffInv, TypeOK, GraphIsLate, KilledAfterGoal, OneDriver, Goal, Ended,
         Nav2Answers, Nav2Finishes

\* Discovery goes from TRUE to FALSE only when the process is gone.
LEMMA DiscoverKeepsInv == HandoffInv /\ Discover => HandoffInv'
  BY DEF HandoffInv, TypeOK, GraphIsLate, KilledAfterGoal, OneDriver, Translator,
         Discover

LEMMA WaiterKeepsInv == HandoffInv /\ (WaiterNext \/ SendBypass) => HandoffInv'
<1> SUFFICES ASSUME HandoffInv, WaiterNext \/ SendBypass PROVE HandoffInv'
  OBVIOUS
<1> USE DEF HandoffInv, TypeOK, GraphIsLate, KilledAfterGoal, OneDriver, Waiter
<1>1. CASE StartWaiter
  <2>1. waiter' = [waiter EXCEPT !.state = "waiting"]  BY <1>1 DEF StartWaiter
  <2>2. /\ waiter' \in Waiter /\ waiter'.state = "waiting"
        /\ waiter'.nav2_active = waiter.nav2_active
    BY <2>1
  <2> QED  BY <1>1, <2>2 DEF StartWaiter
<1>2. CASE Poll
  <2>1. waiter' \in Waiter
    BY <1>2 DEF Poll, AfterPoll, Waits, Drives
  <2>2. waiter'.nav2_active => graph \/ waiter.nav2_active
    BY <1>2 DEF Poll, AfterPoll, Waits, Drives
  <2>3. waiter'.state = "driving" /\ ~waiter'.bypass
            => waiter.nav2_active /\ ~graph
    BY <1>2 DEF Poll, AfterPoll, Waits, Drives
  <2>4. UNCHANGED <<translator, goal_sender, goal, graph, xycar_motor>>
        /\ bypass_msg' = FALSE
    BY <1>2 DEF Poll
  <2> QED  BY <2>1, <2>2, <2>3, <2>4
<1>3. CASE LaneCommand  BY <1>3 DEF LaneCommand
<1>4. CASE SendBypass   BY <1>4 DEF SendBypass
<1> QED  BY <1>1, <1>2, <1>3, <1>4 DEF WaiterNext

LEMMA NextKeepsInv == HandoffInv /\ [Next]_vars => HandoffInv'
<1>1. HandoffInv /\ UNCHANGED vars => HandoffInv'
  BY DEF HandoffInv, TypeOK, GraphIsLate, KilledAfterGoal, OneDriver, vars
<1> QED
  BY <1>1, TranslatorKeepsInv, GoalSenderKeepsInv, Nav2KeepsInv, DiscoverKeepsInv,
     WaiterKeepsInv DEF Next

THEOREM HandoffSafety == Spec => []HandoffInv
  BY InitEstablishesInv, NextKeepsInv, PTL DEF Spec

\* Unless the operator bypassed the wait, the traffic-light node has the motor
\* only when motor_translator is gone.
THEOREM SingleDriver == Spec => []OneDriver
<1>1. HandoffInv => OneDriver  BY DEF HandoffInv
<1> QED  BY <1>1, HandoffSafety, PTL

\* It follows that it drives only after Nav2 has ended the goal.
THEOREM CameraAfterGoal == Spec => []HandoffAfterGoal
<1>1. HandoffInv => HandoffAfterGoal
  BY DEF HandoffInv, KilledAfterGoal, OneDriver, HandoffAfterGoal
<1> QED  BY <1>1, HandoffSafety, PTL

\* What the run guide says of motor_translator holds as long as Nav2 misses no
\* goal: then nothing but a goal it has reached gets motor_translator killed.
THEOREM EndedAtTheGoal == Spec /\ [](goal # "missed") => []EndedOnlyAtTheGoal
<1>1. HandoffInv /\ goal # "missed" => EndedOnlyAtTheGoal
  BY DEF HandoffInv, KilledAfterGoal, Ended, EndedOnlyAtTheGoal
<1> QED  BY <1>1, HandoffSafety, PTL

=============================================================================
