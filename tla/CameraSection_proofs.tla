------------------------ MODULE CameraSection_proofs ------------------------
(***************************************************************************)
(* Proofs that a checkered floor that has been in view long enough ends no *)
(* left turn and that the newest message is never lost, and that each node *)
(* keeps in the composition what is proved of it alone, for every depth of *)
(* the queues, every debounce length, and whatever the two cameras show.   *)
(*                                                                         *)
(* What is known of the traffic-light node is taken from the module of its *)
(* proofs, instantiated as Proved.  Its definitions are those of Light;    *)
(* the lemmas of the first section say so callback by callback, so that a  *)
(* step of the composition is a step of the node the proofs are about.     *)
(***************************************************************************)
EXTENDS CameraSection, SequenceTheorems, TLAPS

Proved == INSTANCE TrafficLight_proofs
LaneProved == INSTANCE TrackDrive_proofs

-----------------------------------------------------------------------------
(* Light and Proved are the same node.                                     *)

LEMMA SameInit == Light!Init <=> Proved!Init
BY DEF Light!Init, Light!NoPending, Light!OnSignal, Light!NoLanes,
       Light!NoTimers, Light!NoSignal, Light!Off, Light!Unpublished,
       Proved!Init, Proved!NoPending, Proved!OnSignal, Proved!NoLanes,
       Proved!NoTimers, Proved!NoSignal, Proved!Off, Proved!Unpublished

LEMMA SameCamera ==
    ASSUME NEW red, NEW green, NEW policeSeen
    PROVE  Light!CameraCallback(red, green, policeSeen)
               <=> Proved!CameraCallback(red, green, policeSeen)
BY DEF Light!CameraCallback, Light!UpdatePoliceDetection, Light!YieldToPolice,
       Light!UpdateDrivingState, Light!Candidate, Light!ClearPending,
       Light!StartLeftTurnIfSignalTimedOut, Light!SignalTimedOut, Light!Debounce,
       Light!SetDrivingState, Light!TimersOnEntry, Light!NoPending,
       Light!OnSignal, Light!WithoutSignal, Light!NoLanes, Light!NoTimers,
       Light!NoSignal, Light!Off, Light!Bump,
       Proved!CameraCallback, Proved!UpdatePoliceDetection,
       Proved!YieldToPolice, Proved!UpdateDrivingState, Proved!Candidate,
       Proved!ClearPending, Proved!StartLeftTurnIfSignalTimedOut,
       Proved!SignalTimedOut, Proved!Debounce, Proved!SetDrivingState,
       Proved!TimersOnEntry, Proved!NoPending, Proved!OnSignal,
       Proved!WithoutSignal, Proved!NoLanes, Proved!NoTimers, Proved!NoSignal,
       Proved!Off, Proved!Bump

LEMMA SameStopLine ==
    ASSUME NEW visible
    PROVE  Light!StopLineCallback(visible) <=> Proved!StopLineCallback(visible)
BY DEF Light!StopLineCallback, Light!SetDrivingState, Light!TimersOnEntry,
       Light!NoPending, Light!OnSignal, Light!NoLanes, Light!NoSignal, Light!Off,
       Proved!StopLineCallback, Proved!SetDrivingState, Proved!TimersOnEntry,
       Proved!NoPending, Proved!OnSignal, Proved!NoLanes, Proved!NoSignal,
       Proved!Off

LEMMA SameLanes ==
    ASSUME NEW left, NEW right
    PROVE  Light!LaneDetectionCallback(left, right)
               <=> Proved!LaneDetectionCallback(left, right)
BY DEF Light!LaneDetectionCallback, Light!UpdateLaneReacquisition,
       Light!CountFrame, Light!EndApproachIfElapsed, Light!OnApproach,
       Light!ApproachIsActive, Light!NoSignalLaneUpdate, Light!SignalLaneUpdate,
       Light!StopIfTurnTimedOut, Light!SetDrivingState, Light!TimersOnEntry,
       Light!NoPending, Light!OnSignal, Light!NoLanes, Light!NoSignal, Light!Off,
       Light!Bump,
       Proved!LaneDetectionCallback, Proved!UpdateLaneReacquisition,
       Proved!CountFrame, Proved!EndApproachIfElapsed, Proved!OnApproach,
       Proved!ApproachIsActive, Proved!NoSignalLaneUpdate,
       Proved!SignalLaneUpdate, Proved!StopIfTurnTimedOut,
       Proved!SetDrivingState, Proved!TimersOnEntry, Proved!NoPending,
       Proved!OnSignal, Proved!NoLanes, Proved!NoSignal, Proved!Off, Proved!Bump

LEMMA SameMotor == Light!MotorCallback <=> Proved!MotorCallback
BY DEF Light!MotorCallback, Light!FinishHoldIfElapsed, Light!HoldElapsed,
       Light!Command, Light!EndApproachIfElapsed, Light!OnApproach,
       Light!ApproachIsActive, Light!SetDrivingState, Light!TimersOnEntry,
       Light!NoPending, Light!OnSignal, Light!NoLanes, Light!NoSignal, Light!Off,
       Proved!MotorCallback, Proved!FinishHoldIfElapsed, Proved!HoldElapsed,
       Proved!Command, Proved!EndApproachIfElapsed, Proved!OnApproach,
       Proved!ApproachIsActive, Proved!SetDrivingState, Proved!TimersOnEntry,
       Proved!NoPending, Proved!OnSignal, Proved!NoLanes, Proved!NoSignal,
       Proved!Off

LEMMA SameTick == Light!Tick <=> Proved!Tick
BY DEF Light!Tick, Light!Elapse, Light!Bump, Light!Off,
       Proved!Tick, Proved!Elapse, Proved!Bump, Proved!Off

-----------------------------------------------------------------------------
(* The invariant.                                                          *)

\* A lane message as it waits in the queue: sent after FloorBound images of
\* floor it reports no left lane.
LaneMessages == {m \in [left : BOOLEAN, right : BOOLEAN, floor : BOOLEAN] :
                    m.floor => ~m.left}

\* The counter of the zone is behind the observer's by no more than the exit
\* count it may have started from, and the zone is on at the entry count.
FloorFollows ==
    /\ checkered_zone.frames \in Int
    /\ tiles \in 0..FloorBound
    /\ tiles - CheckeredExitFrames <= checkered_zone.frames
    /\ checkered_zone.frames >= CheckeredEnterFrames => checkered_zone.active

TopicsInv ==
    /\ stop_line_topic \in Seq(BOOLEAN)
    /\ lane_topic \in Seq(LaneMessages)
    /\ FloorFollows

SectionInv == TopicsInv /\ Proved!SafetyInv

LEMMA PublishType ==
    ASSUME NEW S, NEW q \in Seq(S), NEW msg \in S
    PROVE  Publish(q, msg) \in Seq(S)
<1>1. CASE Len(q) < Depth
  BY <1>1 DEF Publish
<1>2. CASE ~(Len(q) < Depth)
  <2>1. q # <<>>
    BY <1>2, QueueDepth
  <2>2. Tail(q) \in Seq(S)
    BY <2>1
  <2> QED BY <1>2, <2>2 DEF Publish
<1> QED BY <1>1, <1>2

\* One image: observer and counter move together, but where one is clamped.
LEMMA FloorStep ==
    ASSUME FloorFollows, CountTiles, NEW frame \in Frames,
           NEW left, NEW right, Lane!NewImage(frame, left, right)
    PROVE  FloorFollows'
<1> USE LaneFrames DEF FloorFollows, FloorBound
<1>1. checkered_zone' = Lane!CheckeredZoneRun(checkered_zone, frame.checkered)
  BY DEF Lane!NewImage
<1>2. image' = frame /\ frame.checkered \in BOOLEAN
  BY CameraFrames DEF Lane!NewImage, Lane!Image
<1>3. checkered_zone'.frames >= CheckeredEnterFrames => checkered_zone'.active
  BY <1>1 DEF Lane!CheckeredZoneRun
<1>4. CASE frame.checkered
  <2>1. checkered_zone'.frames
            = Lane!AtMost(checkered_zone.frames + 1, CheckeredEnterFrames)
    BY <1>1, <1>4 DEF Lane!CheckeredZoneRun
  <2>2. tiles' = Lane!AtMost(tiles + 1, FloorBound)
    BY <1>2, <1>4 DEF CountTiles
  <2> QED BY <1>3, <2>1, <2>2 DEF Lane!AtMost
<1>5. CASE ~frame.checkered
  <2>1. checkered_zone'.frames
            = Lane!AtLeast(checkered_zone.frames - 1, -CheckeredExitFrames)
    BY <1>1, <1>5 DEF Lane!CheckeredZoneRun
  <2>2. tiles' = 0
    BY <1>2, <1>5 DEF CountTiles
  <2> QED BY <1>3, <2>1, <2>2 DEF Lane!AtLeast
<1> QED BY <1>2, <1>4, <1>5

\* The new flag of the zone hides the left lane of the same image.
LEMMA MessageType ==
    ASSUME FloorFollows', NEW frame, NEW left \in BOOLEAN, NEW right \in BOOLEAN,
           Lane!NewImage(frame, left, right)
    PROVE  LaneMessage' \in LaneMessages
<1>1. /\ lane_status'.left = (left /\ ~checkered_zone'.active)
      /\ lane_status'.right = right
  BY Zenon DEF Lane!NewImage, Lane!LaneStatus
<1>2. tiles' = FloorBound => checkered_zone'.active
  BY LaneFrames DEF FloorFollows, FloorBound
<1>3. lane_status'.left \in BOOLEAN /\ lane_status'.right \in BOOLEAN
  BY <1>1
<1>4. (tiles' = FloorBound) => ~lane_status'.left
  BY <1>1, <1>2
<1> DEFINE floor == tiles' = FloorBound
<1>5. floor \in BOOLEAN /\ (floor => ~lane_status'.left)
  BY <1>4
<1>6. LaneMessage' = [left |-> lane_status'.left, right |-> lane_status'.right,
                      floor |-> floor]
  BY DEF LaneMessage, FloorBound
<1> HIDE DEF floor
<1> QED BY <1>3, <1>5, <1>6, Zenon DEF LaneMessages

LEMMA LanePassKeeps == TopicsInv /\ LanePass => TopicsInv' /\ LaneMessage' \in LaneMessages
<1> SUFFICES ASSUME TopicsInv, LanePass
             PROVE  TopicsInv' /\ LaneMessage' \in LaneMessages
  OBVIOUS
<1>1. PICK frame \in Frames, left \in BOOLEAN, right \in BOOLEAN :
          Lane!NewImage(frame, left, right)
  BY DEF LanePass
<1>2. FloorFollows'
  BY <1>1, FloorStep DEF TopicsInv, LanePass
<1>3. stop_line'.detected \in BOOLEAN
  BY <1>1 DEF Lane!NewImage, Lane!StopLineRun
<1>4. LaneMessage' \in LaneMessages
  BY <1>1, <1>2, MessageType
<1>5. /\ stop_line_topic' = Publish(stop_line_topic, stop_line'.detected)
      /\ lane_topic' = Publish(lane_topic, LaneMessage')
  BY DEF LanePass
<1> QED BY <1>2, <1>3, <1>4, <1>5, PublishType DEF TopicsInv

LEMMA SectionInit == Init => SectionInv
<1> SUFFICES ASSUME Init PROVE SectionInv
  OBVIOUS
<1>1. Proved!SafetyInv
  BY SameInit, LightFrames, LightTimes, Proved!InitSafety DEF Init
<1>2. FloorFollows
  BY LaneFrames DEF Init, Lane!Init, FloorFollows, FloorBound
<1> QED BY <1>1, <1>2 DEF Init, SectionInv, TopicsInv

LEMMA OthersAreSteps ==
    ASSUME Others
    PROVE  \/ \E red, green, policeSeen \in BOOLEAN :
                  Proved!CameraCallback(red, green, policeSeen)
           \/ Proved!MotorCallback
           \/ Proved!Tick
<1>1. CASE \E sight \in Sights :
              Light!CameraCallback(sight.red, sight.green, sight.police)
  <2>1. PICK sight \in Sights :
            Light!CameraCallback(sight.red, sight.green, sight.police)
    BY <1>1
  <2>2. /\ sight.red \in BOOLEAN /\ sight.green \in BOOLEAN
        /\ sight.police \in BOOLEAN
    BY CameraSights
  <2> QED BY <2>1, <2>2, SameCamera
<1>2. CASE Light!MotorCallback \/ Light!Tick
  BY <1>2, SameMotor, SameTick
<1> QED BY <1>1, <1>2 DEF Others

LEMMA SectionNext == SectionInv /\ [Next]_vars => SectionInv'
<1> SUFFICES ASSUME SectionInv, [Next]_vars PROVE SectionInv'
  OBVIOUS
<1>1. TopicsInv /\ Proved!SafetyInv
  BY DEF SectionInv
<1>2. CASE LanePass \/ SamePass \/ UNCHANGED vars
  <2>1. UNCHANGED Proved!vars
    BY <1>2 DEF LanePass, SamePass, vars, lightVars, Proved!vars
  <2>2. Proved!SafetyInv'
    BY <1>1, <2>1, LightFrames, LightTimes, Proved!NextSafety
  <2>3. TopicsInv'
    <3>1. CASE LanePass
      BY <1>1, <3>1, LanePassKeeps
    <3>2. CASE SamePass \/ UNCHANGED vars
      <4>1. UNCHANGED <<stop_line_topic, lane_topic, tiles, checkered_zone>>
        BY <3>2 DEF SamePass, Lane!SameImage, vars, laneVars
      <4> QED BY <1>1, <4>1 DEF TopicsInv, FloorFollows
    <3> QED BY <1>2, <3>1, <3>2
  <2> QED BY <2>2, <2>3 DEF SectionInv
<1>3. CASE TakeStopLine
  <2>1. /\ stop_line_topic' \in Seq(BOOLEAN) /\ Head(stop_line_topic) \in BOOLEAN
        /\ UNCHANGED <<lane_topic, checkered_zone, tiles>>
    BY <1>1, <1>3 DEF TakeStopLine, TopicsInv, laneVars
  <2>2. Proved!Next
    BY <1>3, <2>1, SameStopLine DEF TakeStopLine, Proved!Next
  <2>3. Proved!SafetyInv'
    BY <1>1, <2>2, LightFrames, LightTimes, Proved!NextSafety
  <2> QED BY <1>1, <2>1, <2>3 DEF SectionInv, TopicsInv, FloorFollows
<1>4. CASE TakeLanes
  <2>1. /\ lane_topic' \in Seq(LaneMessages) /\ Head(lane_topic) \in LaneMessages
        /\ UNCHANGED <<stop_line_topic, checkered_zone, tiles>>
    BY <1>1, <1>4 DEF TakeLanes, TopicsInv, laneVars
  <2>2. Head(lane_topic).left \in BOOLEAN /\ Head(lane_topic).right \in BOOLEAN
    BY <2>1 DEF LaneMessages
  <2>3. Proved!Next
    BY <1>4, <2>2, SameLanes DEF TakeLanes, Proved!Next
  <2>4. Proved!SafetyInv'
    BY <1>1, <2>3, LightFrames, LightTimes, Proved!NextSafety
  <2> QED BY <1>1, <2>1, <2>4 DEF SectionInv, TopicsInv, FloorFollows
<1>5. CASE Others
  <2>1. Proved!Next
    BY <1>5, OthersAreSteps DEF Proved!Next
  <2>2. Proved!SafetyInv'
    BY <1>1, <2>1, LightFrames, LightTimes, Proved!NextSafety
  <2>3. UNCHANGED <<stop_line_topic, lane_topic, tiles, checkered_zone>>
    BY <1>5 DEF Others, laneVars
  <2> QED BY <1>1, <2>2, <2>3 DEF SectionInv, TopicsInv, FloorFollows
<1> QED BY <1>2, <1>3, <1>4, <1>5 DEF Next

\* Both queues hold what the nodes can send, and the traffic-light node keeps
\* its own invariant whatever they deliver, drop or delay.
THEOREM SectionSafety == Spec => []SectionInv
BY SectionInit, SectionNext, PTL DEF Spec

\* A message that reports no left lane counts for no turn.
LEMMA StepEndsNoTurn ==
    ASSUME SectionInv, TakeLanes, LanesCounted
    PROVE  ~Head(lane_topic).floor
<1>1. Proved!SafetyInv /\ lane_topic \in Seq(LaneMessages)
  BY DEF SectionInv, TopicsInv
<1>2. driving.lanes.reacquired \in Nat /\ driving'.lanes.reacquired \in Nat
  <2>1. Proved!SafetyInv'
    BY SectionNext DEF SectionInv, Next
  <2>2. driving \in Proved!DrivingType /\ driving' \in Proved!DrivingType
    BY <1>1, <2>1 DEF Proved!SafetyInv, Proved!TypeOK
  <2> QED BY <2>2, LightFrames, LightTimes, Proved!CountIsNatural
<1>3. ~Proved!NoProgress(driving, driving')
  <2>1. CASE driving'.lanes.reacquired > driving.lanes.reacquired
    <3>1. ~(driving'.lanes.reacquired <= driving.lanes.reacquired)
      BY <1>2, <2>1
    <3> QED BY <3>1 DEF Proved!NoProgress
  <2>2. CASE Light!SignalTurn /\ driving'.driving_state = "DRIVE"
    BY <2>2, Zenon
       DEF Proved!NoProgress, Light!SignalTurn, Light!IsSignalTurn,
           Proved!IsSignalTurn
  <2> QED BY <2>1, <2>2 DEF LanesCounted
<1>4. Head(lane_topic) \in LaneMessages
  BY <1>1 DEF TakeLanes
<1>5. SUFFICES ASSUME Head(lane_topic).floor PROVE FALSE
  OBVIOUS
<1>6. Head(lane_topic).left = FALSE /\ Head(lane_topic).right \in BOOLEAN
  BY <1>4, <1>5, Zenon DEF LaneMessages
<1>7. Proved!LaneDetectionCallback(FALSE, Head(lane_topic).right)
  BY <1>6, SameLanes DEF TakeLanes
<1> QED
  BY <1>1, <1>3, <1>6, <1>7, LightFrames, LightTimes,
     Proved!NoLeftLaneNoProgress

\* Once FloorBound images in a row have shown a checkered floor, its pattern
\* brings no left turn nearer to its end, however long the message about it has
\* been waiting.
THEOREM FloorEndsNoTurn == Spec => TurnEndsOffFloor
<1>1. SectionInv /\ [Next]_vars
          => [TakeLanes /\ LanesCounted => ~Head(lane_topic).floor]_vars
  BY StepEndsNoTurn
<1> QED BY <1>1, SectionSafety, PTL DEF Spec, TurnEndsOffFloor

-----------------------------------------------------------------------------
(* The newest message.                                                     *)

LEMMA AppendLast ==
    ASSUME NEW S, NEW q \in Seq(S), NEW msg \in S
    PROVE  Append(q, msg) # <<>> /\ Append(q, msg)[Len(Append(q, msg))] = msg
  BY AppendProperties

LEMMA PublishLast ==
    ASSUME NEW S, NEW q \in Seq(S), NEW msg \in S
    PROVE  /\ Publish(q, msg) # <<>>
           /\ Publish(q, msg)[Len(Publish(q, msg))] = msg
<1>1. CASE Len(q) < Depth
  BY <1>1, AppendLast DEF Publish
<1>2. CASE ~(Len(q) < Depth)
  <2>1. Tail(q) \in Seq(S)
    BY <1>2, QueueDepth
  <2> QED BY <1>2, <2>1, AppendLast DEF Publish
<1> QED BY <1>1, <1>2

\* Taking a message leaves the last one in its place, or was the last.
LEMMA TakeLast ==
    ASSUME NEW S, NEW q \in Seq(S), q # <<>>
    PROVE  IF Tail(q) = <<>> THEN Head(q) = q[Len(q)]
           ELSE Tail(q)[Len(Tail(q))] = q[Len(q)]
<1>1. /\ Len(Tail(q)) = Len(q) - 1 /\ Len(q) \in Nat \ {0}
      /\ \A i \in 1..Len(Tail(q)) : Tail(q)[i] = q[i + 1]
  BY HeadTailProperties, EmptySeq
<1>2. CASE Tail(q) = <<>>
  <2>1. Len(q) = 1
    <3> DEFINE n == Len(q)  t == Tail(q)  m == Len(t)
    <3>1. t = <<>>
      BY <1>2
    <3>2. m = 0
      <4> HIDE DEF t
      <4> QED BY <3>1, EmptySeq
    <3>3. m = n - 1 /\ n \in Nat
      BY <1>1
    <3> HIDE DEF n, m
    <3>4. n = 1
      BY <3>2, <3>3
    <3> QED BY <3>4 DEF n
  <2>2. Head(q) = q[1]
    OBVIOUS
  <2> QED BY <1>2, <2>1, <2>2
<1>3. CASE Tail(q) # <<>>
  <2>1. Len(Tail(q)) \in Nat \ {0}
    BY <1>3, HeadTailProperties, EmptySeq
  <2>2. Tail(q)[Len(Tail(q))] = q[Len(Tail(q)) + 1]
    BY <1>1, <2>1
  <2> QED BY <1>1, <1>3, <2>2
<1> QED BY <1>2, <1>3

LEMMA NewestInit == Init => NewestIsKept
<1> SUFFICES ASSUME Init PROVE NewestIsKept
  OBVIOUS
<1>1. stop_line.detected = FALSE
  BY DEF Init, Lane!Init
<1>2. stop_line_detected = FALSE
  BY DEF Init, Light!Init
<1>3. stop_line_topic = <<>> /\ lane_topic = <<>>
  BY DEF Init
<1> QED BY <1>1, <1>2, <1>3, Zenon DEF NewestIsKept

LEMMA NewestNext ==
    TopicsInv /\ TopicsInv' /\ NewestIsKept /\ [Next]_vars => NewestIsKept'
<1> SUFFICES ASSUME TopicsInv, TopicsInv', NewestIsKept, [Next]_vars
             PROVE  NewestIsKept'
  OBVIOUS
<1>1. CASE LanePass
  <2>1. stop_line'.detected \in BOOLEAN
    BY <1>1 DEF LanePass, Lane!NewImage, Lane!StopLineRun
  <2>2. LaneMessage' \in LaneMessages
    BY <1>1, LanePassKeeps
  <2>3. /\ stop_line_topic' = Publish(stop_line_topic, stop_line'.detected)
        /\ lane_topic' = Publish(lane_topic, LaneMessage')
    BY <1>1 DEF LanePass
  <2>4. /\ stop_line_topic' # <<>>
        /\ stop_line_topic'[Len(stop_line_topic')] = stop_line'.detected
    BY <2>1, <2>3, PublishLast DEF TopicsInv
  <2>5. lane_topic'[Len(lane_topic')] = LaneMessage'
    BY <2>2, <2>3, PublishLast DEF TopicsInv
  <2> QED BY <2>4, <2>5 DEF NewestIsKept
<1>2. CASE TakeStopLine
  <2>1. /\ stop_line_topic # <<>>
        /\ stop_line_topic' = Tail(stop_line_topic)
        /\ stop_line' = stop_line /\ lane_topic' = lane_topic
        /\ lane_status' = lane_status /\ tiles' = tiles
    BY <1>2 DEF TakeStopLine, laneVars
  <2>2. stop_line_detected' = Head(stop_line_topic)
    BY <1>2 DEF TakeStopLine, Light!StopLineCallback
  <2>3. stop_line_topic[Len(stop_line_topic)] = stop_line.detected
    BY <2>1 DEF NewestIsKept
  <2>4. stop_line_topic \in Seq(BOOLEAN)
    BY DEF TopicsInv
  <2>5. IF stop_line_topic' = <<>>
        THEN Head(stop_line_topic) = stop_line.detected
        ELSE stop_line_topic'[Len(stop_line_topic')] = stop_line.detected
    BY <2>1, <2>3, <2>4, TakeLast
  <2> QED BY <2>1, <2>2, <2>5 DEF NewestIsKept, LaneMessage
<1>3. CASE TakeLanes
  <2>1. /\ lane_topic # <<>> /\ lane_topic' = Tail(lane_topic)
        /\ stop_line' = stop_line /\ stop_line_topic' = stop_line_topic
        /\ lane_status' = lane_status /\ tiles' = tiles
    BY <1>3 DEF TakeLanes, laneVars
  <2>2. stop_line_detected' = stop_line_detected
    BY <1>3 DEF TakeLanes, Light!LaneDetectionCallback
  <2>3. lane_topic[Len(lane_topic)] = LaneMessage /\ lane_topic \in Seq(LaneMessages)
    BY <2>1 DEF NewestIsKept, TopicsInv
  <2>4. lane_topic' # <<>> => lane_topic'[Len(lane_topic')] = LaneMessage
    BY <2>1, <2>3, TakeLast
  <2>5. LaneMessage' = LaneMessage
    BY <2>1 DEF LaneMessage
  <2> QED BY <2>1, <2>2, <2>4, <2>5 DEF NewestIsKept
<1>4. CASE SamePass \/ Others \/ UNCHANGED vars
  <2>1. UNCHANGED <<stop_line_detected, stop_line, stop_line_topic, lane_topic,
                    lane_status, tiles>>
    BY <1>4 DEF SamePass, Lane!SameImage, Others, vars, laneVars, lightVars,
                Light!CameraCallback, Light!MotorCallback, Light!Tick
  <2> QED BY <2>1 DEF NewestIsKept, LaneMessage
<1> QED BY <1>1, <1>2, <1>3, <1>4 DEF Next

\* However full the queues, what the lane follower last said of the stop line
\* and of the lanes is on its way or has been taken.
THEOREM NewestStays == Spec => []NewestIsKept
<1>1. SectionInv => TopicsInv
  BY DEF SectionInv
<1>2. SectionInv' => TopicsInv'
  BY DEF SectionInv
<1>3. SectionInv /\ SectionInv' /\ NewestIsKept /\ [Next]_vars => NewestIsKept'
  BY <1>1, <1>2, NewestNext
<1> QED BY <1>3, NewestInit, SectionSafety, PTL DEF Spec

-----------------------------------------------------------------------------
(* What is proved of a node alone holds of it in the composition.          *)

LEMMA LightStep == SectionInv /\ [Next]_vars => [Proved!Next]_(Proved!vars)
<1> SUFFICES ASSUME SectionInv, [Next]_vars PROVE [Proved!Next]_(Proved!vars)
  OBVIOUS
<1>1. CASE LanePass \/ SamePass \/ UNCHANGED vars
  BY <1>1 DEF LanePass, SamePass, vars, lightVars, Proved!vars
<1>2. CASE TakeStopLine
  <2>1. Head(stop_line_topic) \in BOOLEAN
    BY <1>2 DEF TakeStopLine, SectionInv, TopicsInv
  <2> QED BY <1>2, <2>1, SameStopLine DEF TakeStopLine, Proved!Next
<1>3. CASE TakeLanes
  <2>1. Head(lane_topic) \in LaneMessages
    BY <1>3 DEF TakeLanes, SectionInv, TopicsInv
  <2>2. Head(lane_topic).left \in BOOLEAN /\ Head(lane_topic).right \in BOOLEAN
    BY <2>1 DEF LaneMessages
  <2> QED BY <1>3, <2>2, SameLanes DEF TakeLanes, Proved!Next
<1>4. CASE Others
  BY <1>4, OthersAreSteps DEF Proved!Next
<1> QED BY <1>1, <1>2, <1>3, <1>4 DEF Next

\* The traffic-light node fed from the queues of the lane follower behaves as
\* the node alone does, so it implements Intersection there too.
THEOREM SectionRefinement == Spec => Proved!Spec /\ Proved!ImplementsIntersection
<1>1. Init => Proved!Init
  BY SameInit DEF Init
<1>2. Spec => Proved!Spec
  BY <1>1, LightStep, SectionSafety, PTL DEF Spec, Proved!Spec
<1>3. Proved!Spec => Proved!ImplementsIntersection
  BY LightFrames, LightTimes, Proved!Refinement
<1> QED BY <1>2, <1>3, PTL


LEMMA LaneStep == [Next]_vars => [LaneProved!Next]_(LaneProved!vars)
<1>1. ASSUME NEW frame, NEW left, NEW right
      PROVE  Lane!NewImage(frame, left, right)
                 <=> LaneProved!NewImage(frame, left, right)
  BY DEF Lane!NewImage, Lane!Drive, Lane!SchoolZoneRun, Lane!SchoolZoneMode,
       Lane!CheckeredZoneRun, Lane!StopLineRun, Lane!LaneStatus,
       Lane!UpdateGate, Lane!FromDisabled, Lane!FromLane2,
       Lane!FromWaiting, Lane!NoOvertake, Lane!Overtake, Lane!SpeedBound,
       Lane!AtLeast, Lane!AtMost, LaneProved!NewImage, LaneProved!Drive,
       LaneProved!SchoolZoneRun, LaneProved!SchoolZoneMode,
       LaneProved!CheckeredZoneRun, LaneProved!StopLineRun,
       LaneProved!LaneStatus, LaneProved!UpdateGate,
       LaneProved!FromDisabled, LaneProved!FromLane2,
       LaneProved!FromWaiting, LaneProved!NoOvertake, LaneProved!Overtake,
       LaneProved!SpeedBound, LaneProved!AtLeast, LaneProved!AtMost
<1>2. ASSUME NEW left, NEW right
      PROVE  Lane!SameImage(left, right) <=> LaneProved!SameImage(left, right)
  BY DEF Lane!SameImage, Lane!Drive, Lane!LaneStatus, Lane!UpdateGate,
       Lane!FromDisabled, Lane!FromLane2, Lane!FromWaiting, Lane!NoOvertake,
       Lane!Overtake, Lane!SpeedBound, LaneProved!SameImage,
       LaneProved!Drive, LaneProved!LaneStatus, LaneProved!UpdateGate,
       LaneProved!FromDisabled, LaneProved!FromLane2, LaneProved!FromWaiting,
       LaneProved!NoOvertake, LaneProved!Overtake, LaneProved!SpeedBound
<1>3. Frames \subseteq LaneProved!Image
  BY CameraFrames DEF Lane!Image, LaneProved!Image
<1>4. LanePass => LaneProved!Next
  BY <1>1, <1>3, Zenon DEF LanePass, LaneProved!Next
<1>5. SamePass => LaneProved!Next
  BY <1>2, Zenon DEF SamePass, LaneProved!Next
<1>6. TakeStopLine \/ TakeLanes \/ Others \/ UNCHANGED vars
          => UNCHANGED LaneProved!vars
  BY DEF TakeStopLine, TakeLanes, Others, vars, laneVars, LaneProved!vars
<1> QED BY <1>4, <1>5, <1>6 DEF Next

\* The lane follower keeps in the composition what is proved of it alone,
\* whatever images it takes and on every pass: in a school zone the command
\* the traffic-light node is asked to answer keeps to the centre and to the
\* slower speed, and its offset is always that of the overtaking phase.
THEOREM SectionLaneSafety ==
    Spec => [](LaneProved!SchoolZoneIsCautious /\ LaneProved!OffsetMatchesPhase)
<1>1. Init => LaneProved!Init
  BY DEF Init, Lane!Init, Lane!NoOvertake, Lane!Overtake,
         LaneProved!Init, LaneProved!NoOvertake, LaneProved!Overtake
<1>2. Spec => LaneProved!Spec
  BY <1>1, LaneStep, PTL DEF Spec, LaneProved!Spec
<1>3. NoImage \notin LaneProved!Image
  BY NoImageIsNone DEF Lane!Image, LaneProved!Image
<1>4. LaneProved!Spec => []LaneProved!SchoolZoneIsCautious
  BY <1>3, LaneFrames, LaneProved!SchoolZoneCaution
<1>5. LaneProved!Spec => []LaneProved!OffsetMatchesPhase
  BY <1>3, LaneFrames, LaneProved!OffsetSafety
<1> QED BY <1>2, <1>4, <1>5, PTL
=============================================================================
