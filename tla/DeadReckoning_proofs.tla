------------------------ MODULE DeadReckoning_proofs ------------------------
(***************************************************************************)
(* Why the odometry counts nothing twice, for every speed limit, queue     *)
(* depth and clock.  Commands reach the node in the order of their stamps, *)
(* stamped ones before unstamped ones, and the node's last stamp is older  *)
(* than every stamp still on its way.  So each interval it integrates is   *)
(* one that begins where the last one ended.                               *)
(***************************************************************************)
EXTENDS DeadReckoning, TLAPS

\* Stamped commands come first and in order, and are not from the future.
StampsInOrder(q, time) ==
    /\ \A i \in 1..Len(q) : q[i].stamp <= time
    /\ \A i, j \in 1..Len(q) :
          i < j /\ q[j].stamp # NoStamp =>
              q[i].stamp # NoStamp /\ q[i].stamp <= q[j].stamp

\* Every stamp on its way is at least the one the node integrated last.
NodeIsBehind(q, last) ==
    \A i \in 1..Len(q) : q[i].stamp # NoStamp => last # NoStamp /\ last <= q[i].stamp

\* motor_translator stamps everything.
AllStamped(q, last) ==
    last # NoStamp /\ \A i \in 1..Len(q) : q[i].stamp # NoStamp

Inv ==
    /\ TypeOK
    /\ EstimateIsDrivable
    /\ odometry.motor_prev_time <= now
    /\ StampsInOrder(xycar_motor, now)
    /\ NodeIsBehind(xycar_motor, odometry.motor_prev_time)
    /\ driver = "motor_translator" => AllStamped(xycar_motor, odometry.motor_prev_time)

-----------------------------------------------------------------------------

LEMMA Constants == /\ MaxSpeed \in Nat /\ StartTime \in Nat /\ StartTime > 0
                   /\ MaxTime \in Nat /\ StartTime <= MaxTime
                   /\ Depth \in Nat /\ Depth > 0
BY SpeedLimit, Clock, HistoryDepth

\* A speed within the limits, held for a time, stays within the limits.
LEMMA SpeedTimesTime ==
    ASSUME NEW speed \in Int, NEW limit \in Nat, NEW time \in Nat,
           -limit <= speed, speed <= limit
    PROVE  /\ speed * time <= limit * time
           /\ -(limit * time) <= speed * time
BY SMT

\* Publishing keeps the queue typed and bounded.
LEMMA ClampInRange == ASSUME NEW target \in Int PROVE Clamp(target) \in Speeds
BY Constants DEF Clamp, Speeds

LEMMA InitInv == Init => Inv
BY Constants, SMTT(30) DEF Init, Inv, TypeOK, OdometryType, EstimateIsDrivable, Estimate,
   StampsInOrder, NodeIsBehind, AllStamped, NoStamp, Command

-----------------------------------------------------------------------------
(* The queue.                                                              *)

\* Dropping the oldest command keeps the order of the others.
LEMMA TailKeeps ==
    ASSUME NEW q \in Seq(Command), q # <<>>, NEW time \in Nat, StampsInOrder(q, time)
    PROVE  /\ Tail(q) \in Seq(Command) /\ Len(Tail(q)) = Len(q) - 1
           /\ \A i \in 1..Len(Tail(q)) : i + 1 \in 1..Len(q) /\ Tail(q)[i] = q[i + 1]
           /\ StampsInOrder(Tail(q), time)
<1>1. /\ Tail(q) \in Seq(Command) /\ Len(Tail(q)) = Len(q) - 1
      /\ \A i \in 1..Len(Tail(q)) : i + 1 \in 1..Len(q) /\ Tail(q)[i] = q[i + 1]
    OBVIOUS
<1>2. \A i, j \in 1..Len(Tail(q)) : i < j => i + 1 < j + 1
    BY <1>1
<1>3. StampsInOrder(Tail(q), time)
    BY <1>1, <1>2 DEF StampsInOrder
<1>. QED  BY <1>1, <1>3

\* A command may join the queue when it is stamped with the present, behind
\* stamped ones only, or not stamped at all.
LEMMA AppendKeeps ==
    ASSUME NEW q \in Seq(Command), NEW time \in Nat, StampsInOrder(q, time),
           NEW c \in Command, c.stamp <= time,
           c.stamp # NoStamp =>
               c.stamp = time /\ \A i \in 1..Len(q) : q[i].stamp # NoStamp
    PROVE  StampsInOrder(Append(q, c), time)
<1>. DEFINE r == Append(q, c)
<1>1. /\ Len(q) \in Nat /\ Len(r) = Len(q) + 1
      /\ \A i \in 1..Len(q) : r[i] = q[i]
      /\ r[Len(q) + 1] = c
    OBVIOUS
<1>2. \A i \in 1..Len(r) : i \in 1..Len(q) \/ i = Len(q) + 1
    BY <1>1
<1>3. \A i \in 1..Len(r) : r[i].stamp <= time
    BY <1>1, <1>2 DEF StampsInOrder
<1>4. ASSUME NEW i \in 1..Len(r), NEW j \in 1..Len(r), i < j, r[j].stamp # NoStamp
      PROVE  r[i].stamp # NoStamp /\ r[i].stamp <= r[j].stamp
    <2>1. i \in 1..Len(q) /\ r[i] = q[i]
        BY <1>1, <1>2, <1>4
    <2>2. CASE j \in 1..Len(q)
        BY <1>1, <1>4, <2>1, <2>2 DEF StampsInOrder
    <2>3. CASE j = Len(q) + 1
        BY <1>1, <1>4, <2>1, <2>3 DEF StampsInOrder
    <2>. QED  BY <1>2, <2>2, <2>3
<1>. QED  BY <1>3, <1>4 DEF StampsInOrder

\* What publishing does to the queue, whether or not it drops a command.
LEMMA PublishKeeps ==
    ASSUME NEW q \in Seq(Command), Len(q) <= Depth, NEW time \in Nat, NEW last \in Nat,
           StampsInOrder(q, time), NodeIsBehind(q, last), last <= time,
           NEW c \in Command, c.stamp <= time,
           c.stamp # NoStamp => c.stamp = time /\ AllStamped(q, last),
           NEW r, r = Append(IF Len(q) < Depth THEN q ELSE Tail(q), c)
    PROVE  /\ r \in Seq(Command) /\ Len(r) <= Depth
           /\ StampsInOrder(r, time)
           /\ NodeIsBehind(r, last)
           /\ c.stamp # NoStamp => AllStamped(r, last)
<1>. DEFINE kept == IF Len(q) < Depth THEN q ELSE Tail(q)
<1>1. /\ kept \in Seq(Command) /\ Len(kept) < Depth
      /\ \A i \in 1..Len(kept) : \E j \in 1..Len(q) : kept[i] = q[j]
      /\ StampsInOrder(kept, time)
    <2>1. CASE Len(q) < Depth
        <3>1. kept = q
            BY <2>1
        <3>. HIDE DEF kept
        <3>. QED  BY <2>1, <3>1
    <2>2. CASE ~(Len(q) < Depth)
        <3>1. q # <<>> /\ Len(q) \in Nat
            BY <2>2, Constants
        <3>2. /\ kept = Tail(q) /\ Tail(q) \in Seq(Command) /\ Len(Tail(q)) = Len(q) - 1
              /\ \A i \in 1..Len(Tail(q)) : i + 1 \in 1..Len(q) /\ Tail(q)[i] = q[i + 1]
              /\ StampsInOrder(Tail(q), time)
            BY <2>2, <3>1, TailKeeps
        <3>. HIDE DEF kept
        <3>. QED  BY <2>2, <3>1, <3>2, Constants
    <2>. QED  BY <2>1, <2>2
<1>. HIDE DEF kept
<1>2. /\ r \in Seq(Command) /\ Len(r) = Len(kept) + 1 /\ Len(kept) \in Nat
      /\ \A i \in 1..Len(kept) : r[i] = kept[i]
      /\ r[Len(kept) + 1] = c
    BY <1>1 DEF kept
<1>3. \A i \in 1..Len(r) : r[i] = c \/ \E j \in 1..Len(q) : r[i] = q[j]
    <2>1. \A i \in 1..Len(r) : i \in 1..Len(kept) \/ i = Len(kept) + 1
        BY <1>2
    <2>. QED  BY <1>1, <1>2, <2>1
<1>4. c.stamp # NoStamp => \A i \in 1..Len(kept) : kept[i].stamp # NoStamp
    BY <1>1 DEF AllStamped
<1>5. StampsInOrder(r, time)
    BY <1>1, <1>4, AppendKeeps DEF kept
<1>6. NodeIsBehind(r, last)
    BY <1>3 DEF NodeIsBehind, AllStamped
<1>7. c.stamp # NoStamp => AllStamped(r, last)
    BY <1>3 DEF AllStamped
<1>. QED  BY <1>1, <1>2, <1>5, <1>6, <1>7, Constants

-----------------------------------------------------------------------------
(* The steps.                                                              *)

LEMMA TypesOfInv ==
    ASSUME Inv
    PROVE  /\ now \in Nat /\ now > 0 /\ xycar_motor \in Seq(Command)
           /\ Len(xycar_motor) <= Depth
           /\ odometry.motor_prev_time \in Nat
           /\ odometry.dist \in Int /\ odometry.position \in Int
           /\ StampsInOrder(xycar_motor, now)
           /\ NodeIsBehind(xycar_motor, odometry.motor_prev_time)
           /\ odometry.motor_prev_time <= now
BY Constants DEF Inv, TypeOK, OdometryType, NoStamp

LEMMA TranslatorStep ==
    ASSUME Inv, NEW target \in Int, TranslatorCommand(target)
    PROVE  Inv'
<1>. DEFINE c == [speed |-> Clamp(target), stamp |-> now]
<1>1. c \in Command /\ c.stamp = now /\ c.stamp # NoStamp /\ c.stamp <= now
    BY ClampInRange, TypesOfInv DEF Command, NoStamp, Inv, TypeOK
<1>. HIDE DEF c
<1>2. AllStamped(xycar_motor, odometry.motor_prev_time)
    BY DEF Inv, TranslatorCommand
<1>3. xycar_motor' = Append(IF Len(xycar_motor) < Depth THEN xycar_motor
                            ELSE Tail(xycar_motor), c)
    BY DEF TranslatorCommand, Publish, c
<1>4. UNCHANGED <<now, driver, odometry>>
    BY DEF TranslatorCommand
<1>5. /\ xycar_motor' \in Seq(Command) /\ Len(xycar_motor') <= Depth
      /\ StampsInOrder(xycar_motor', now)
      /\ NodeIsBehind(xycar_motor', odometry.motor_prev_time)
      /\ AllStamped(xycar_motor', odometry.motor_prev_time)
    BY <1>1, <1>2, <1>3, TypesOfInv, PublishKeeps
<1>. QED  BY <1>4, <1>5 DEF Inv, TypeOK, EstimateIsDrivable, Estimate

LEMMA TrafficLightStep ==
    ASSUME Inv, NEW speed \in 0..MaxSpeed, TrafficLightCommand(speed)
    PROVE  Inv'
<1>. DEFINE c == [speed |-> speed, stamp |-> NoStamp]
<1>1. c \in Command /\ c.stamp = NoStamp
    BY Constants DEF Command, Speeds
<1>. HIDE DEF c
<1>2. xycar_motor' = Append(IF Len(xycar_motor) < Depth THEN xycar_motor
                            ELSE Tail(xycar_motor), c)
    BY DEF TrafficLightCommand, Publish, c
<1>3. UNCHANGED <<now, driver, odometry>> /\ driver = "traffic_light"
    BY DEF TrafficLightCommand
<1>4. c.stamp <= now
    BY <1>1, TypesOfInv DEF NoStamp
<1>5. /\ xycar_motor' \in Seq(Command) /\ Len(xycar_motor') <= Depth
      /\ StampsInOrder(xycar_motor', now)
      /\ NodeIsBehind(xycar_motor', odometry.motor_prev_time)
    BY <1>1, <1>2, <1>4, TypesOfInv, PublishKeeps
<1>. QED  BY <1>3, <1>5 DEF Inv, TypeOK, EstimateIsDrivable, Estimate

\* Reading the head leaves a queue that is behind the stamp of the head.
LEMMA HeadIsNext ==
    ASSUME Inv, xycar_motor # <<>>, NEW c, c = Head(xycar_motor)
    PROVE  /\ c \in Command
           /\ c.stamp <= now
           /\ c.stamp # NoStamp => /\ odometry.motor_prev_time # NoStamp
                                   /\ odometry.motor_prev_time <= c.stamp
           /\ NodeIsBehind(Tail(xycar_motor), c.stamp)
           /\ AllStamped(xycar_motor, odometry.motor_prev_time)
                  => AllStamped(Tail(xycar_motor), c.stamp)
<1>. DEFINE q == xycar_motor
            r == Tail(xycar_motor)
<1>1. q \in Seq(Command) /\ q # <<>> /\ now \in Nat
      /\ StampsInOrder(q, now) /\ NodeIsBehind(q, odometry.motor_prev_time)
    BY TypesOfInv
<1>2. /\ Len(r) = Len(q) - 1
      /\ \A i \in 1..Len(r) : i + 1 \in 1..Len(q) /\ r[i] = q[i + 1]
    BY <1>1, TailKeeps
<1>3. c \in Command /\ 1 \in 1..Len(q) /\ c = q[1]
    BY <1>1
<1>. HIDE DEF q, r
<1>4. c.stamp <= now
    BY <1>1, <1>3 DEF StampsInOrder
<1>5. c.stamp # NoStamp => /\ odometry.motor_prev_time # NoStamp
                           /\ odometry.motor_prev_time <= c.stamp
    BY <1>1, <1>3 DEF NodeIsBehind
<1>6. ASSUME NEW i \in 1..Len(r), r[i].stamp # NoStamp
      PROVE  c.stamp # NoStamp /\ c.stamp <= r[i].stamp
    <2>1. i + 1 \in 1..Len(q) /\ r[i] = q[i + 1] /\ 1 < i + 1
        BY <1>2, <1>6
    <2>. QED  BY <1>1, <1>3, <1>6, <2>1 DEF StampsInOrder
<1>7. NodeIsBehind(r, c.stamp)
    BY <1>6 DEF NodeIsBehind
<1>8. AllStamped(q, odometry.motor_prev_time) => AllStamped(r, c.stamp)
    BY <1>2, <1>3 DEF AllStamped
<1>. QED  BY <1>3, <1>4, <1>5, <1>7, <1>8 DEF q, r

\* The interval a stamped command adds begins where the estimate ends.
LEMMA IntervalIsDrivable ==
    ASSUME NEW last \in Nat, NEW stamp \in Nat, StartTime <= last, last <= stamp,
           NEW estimate \in Int, NEW speed \in Speeds,
           -MaxSpeed * (last - StartTime) <= estimate,
           estimate <= MaxSpeed * (last - StartTime)
    PROVE  /\ -MaxSpeed * (stamp - StartTime) <= estimate + speed * (stamp - last)
           /\ estimate + speed * (stamp - last) <= MaxSpeed * (stamp - StartTime)
<1>. DEFINE before == last - StartTime
            interval == stamp - last
<1>1. before \in Nat /\ interval \in Nat /\ stamp - StartTime = before + interval
    BY Constants
<1>2. speed \in Int /\ -MaxSpeed <= speed /\ speed <= MaxSpeed
    BY Constants DEF Speeds
<1>. HIDE DEF before, interval
<1>3. /\ speed * interval <= MaxSpeed * interval
      /\ -(MaxSpeed * interval) <= speed * interval
    BY <1>1, <1>2, Constants, SpeedTimesTime
<1>4. /\ MaxSpeed * (before + interval) = MaxSpeed * before + MaxSpeed * interval
      /\ -MaxSpeed * (before + interval) = -(MaxSpeed * before) - MaxSpeed * interval
      /\ -MaxSpeed * before = -(MaxSpeed * before)
      /\ MaxSpeed * before \in Int /\ MaxSpeed * interval \in Int
      /\ speed * interval \in Int
    BY <1>1, <1>2, Constants
<1>5. -(MaxSpeed * before) <= estimate /\ estimate <= MaxSpeed * before
    BY <1>4 DEF before
<1>6. /\ -MaxSpeed * (before + interval) <= estimate + speed * interval
      /\ estimate + speed * interval <= MaxSpeed * (before + interval)
    BY <1>3, <1>4, <1>5
<1>. QED  BY <1>1, <1>6 DEF interval

LEMMA MotorStep == ASSUME Inv, MotorCallback PROVE Inv'
<1>. DEFINE c == Head(xycar_motor)
            last == odometry.motor_prev_time
<1>1. /\ now \in Nat /\ xycar_motor \in Seq(Command) /\ xycar_motor # <<>>
      /\ Len(xycar_motor) <= Depth /\ StampsInOrder(xycar_motor, now)
      /\ last \in Nat /\ odometry.dist \in Int /\ odometry.position \in Int
    BY TypesOfInv DEF MotorCallback
<1>2. /\ c \in Command /\ c.stamp <= now
      /\ c.stamp # NoStamp => last # NoStamp /\ last <= c.stamp
      /\ NodeIsBehind(Tail(xycar_motor), c.stamp)
      /\ AllStamped(xycar_motor, last) => AllStamped(Tail(xycar_motor), c.stamp)
    BY <1>1, HeadIsNext
<1>3. /\ xycar_motor' = Tail(xycar_motor)
      /\ UNCHANGED <<now, driver>>
      /\ odometry'.motor_prev_time = c.stamp
      /\ odometry'.dist = odometry.dist + c.speed * (c.stamp - last)
      /\ odometry'.position = odometry.position
      /\ odometry' = [motor_prev_time |-> odometry'.motor_prev_time,
                      dist |-> odometry'.dist, position |-> odometry'.position]
    BY DEF MotorCallback, Integrate
<1>4. /\ Tail(xycar_motor) \in Seq(Command)
      /\ Len(Tail(xycar_motor)) = Len(xycar_motor) - 1
      /\ StampsInOrder(Tail(xycar_motor), now)
    BY <1>1, TailKeeps
<1>5. /\ c.speed \in Speeds /\ c.speed \in Int
      /\ c.stamp \in {NoStamp} \cup StartTime..MaxTime /\ c.stamp \in Nat
    BY <1>2, Constants DEF Command, Speeds, NoStamp
<1>. HIDE DEF c
<1>6. TypeOK'
    <2>1. odometry' \in OdometryType
        <3>1. c.speed * (c.stamp - last) \in Int
            BY <1>1, <1>5
        <3>2. odometry'.dist \in Int
            BY <1>1, <1>3, <3>1
        <3>. QED  BY <1>1, <1>3, <1>5, <3>2 DEF OdometryType
    <2>2. Len(xycar_motor') <= Depth
        BY <1>1, <1>3, <1>4, Constants
    <2>. QED  BY <1>3, <1>4, <2>1, <2>2 DEF Inv, TypeOK
<1>7. EstimateIsDrivable'
    <2>. SUFFICES ASSUME c.stamp # NoStamp
                  PROVE  /\ -MaxSpeed * (c.stamp - StartTime) <= Estimate(odometry')
                         /\ Estimate(odometry') <= MaxSpeed * (c.stamp - StartTime)
        BY <1>3 DEF EstimateIsDrivable
    <2>1. last # NoStamp /\ last <= c.stamp /\ StartTime <= last
        BY <1>1, <1>2, Constants DEF Inv, TypeOK, OdometryType
    <2>2. /\ Estimate(odometry) \in Int
          /\ -MaxSpeed * (last - StartTime) <= Estimate(odometry)
          /\ Estimate(odometry) <= MaxSpeed * (last - StartTime)
        BY <1>1, <2>1 DEF Inv, EstimateIsDrivable, Estimate
    <2>3. Estimate(odometry') = Estimate(odometry) + c.speed * (c.stamp - last)
        <3>1. c.speed * (c.stamp - last) \in Int
            BY <1>1, <1>5
        <3>. QED  BY <1>1, <1>3, <3>1 DEF Estimate
    <2>. HIDE DEF last
    <2>4. last \in Nat
        BY <1>1
    <2>. QED  BY <1>5, <2>1, <2>2, <2>3, <2>4, IntervalIsDrivable
<1>8. /\ odometry'.motor_prev_time <= now'
      /\ StampsInOrder(xycar_motor', now')
      /\ NodeIsBehind(xycar_motor', odometry'.motor_prev_time)
      /\ driver' = "motor_translator" =>
             AllStamped(xycar_motor', odometry'.motor_prev_time)
    BY <1>2, <1>3, <1>4 DEF Inv
<1>. QED  BY <1>6, <1>7, <1>8 DEF Inv

LEMMA ImuStep == ASSUME Inv, ImuCallback PROVE Inv'
<1>1. /\ UNCHANGED <<now, driver, xycar_motor>>
      /\ odometry' = [motor_prev_time |-> odometry.motor_prev_time, dist |-> 0,
                      position |-> odometry.position + odometry.dist]
    BY DEF ImuCallback, PublishOdometry
<1>2. odometry.dist \in Int /\ odometry.position \in Int
    BY TypesOfInv
<1>3. /\ odometry'.motor_prev_time = odometry.motor_prev_time
      /\ Estimate(odometry') = Estimate(odometry)
    BY <1>1, <1>2 DEF Estimate
<1>4. odometry' \in OdometryType
    BY <1>1, <1>2 DEF Inv, TypeOK, OdometryType
<1>. QED  BY <1>1, <1>3, <1>4 DEF Inv, TypeOK, EstimateIsDrivable

LEMMA TickStep == ASSUME Inv, Tick PROVE Inv'
<1>1. /\ UNCHANGED <<driver, xycar_motor, odometry>>
      /\ now' \in StartTime..MaxTime /\ now <= now' /\ now \in Nat /\ now' \in Nat
    BY TypesOfInv, Constants DEF Tick, Inv, TypeOK
<1>2. \A i \in 1..Len(xycar_motor) : xycar_motor[i].stamp \in Nat
    <2>1. \A command \in Command : command.stamp \in Nat
        BY Constants DEF Command, NoStamp
    <2>2. \A i \in 1..Len(xycar_motor) : xycar_motor[i] \in Command
        BY TypesOfInv
    <2>. QED  BY <2>1, <2>2
<1>3. StampsInOrder(xycar_motor', now')
    BY <1>1, <1>2, TypesOfInv DEF StampsInOrder
<1>. QED  BY <1>1, <1>3, TypesOfInv DEF Inv, TypeOK, EstimateIsDrivable, Estimate

LEMMA NextInv == Inv /\ [Next]_vars => Inv'
<1>. SUFFICES ASSUME Inv, [Next]_vars PROVE Inv'
    OBVIOUS
<1>1. ASSUME NEW target \in (-MaxSpeed - 1)..(MaxSpeed + 1), TranslatorCommand(target)
      PROVE  Inv'
    BY <1>1, TranslatorStep
<1>2. ASSUME NEW speed \in 0..MaxSpeed, TrafficLightCommand(speed)
      PROVE  Inv'
    BY <1>2, TrafficLightStep
<1>3. CASE HandOver
    BY <1>3 DEF HandOver, Inv, TypeOK, EstimateIsDrivable, Estimate
<1>4. CASE MotorCallback
    BY <1>4, MotorStep
<1>5. CASE ImuCallback
    BY <1>5, ImuStep
<1>6. CASE Tick
    BY <1>6, TickStep
<1>7. CASE UNCHANGED vars
    BY <1>7 DEF vars, Inv, TypeOK, EstimateIsDrivable, Estimate
<1>. QED  BY <1>1, <1>2, <1>3, <1>4, <1>5, <1>6, <1>7 DEF Next

LEMMA SpecInv == Spec => []Inv
BY InitInv, NextInv, PTL DEF Spec

-----------------------------------------------------------------------------
(* The results.                                                            *)

\* The types hold: no command on the topic is faster than the limit.
THEOREM OdometryTypes == Spec => []TypeOK
<1>1. Inv => TypeOK
    BY DEF Inv
<1>. QED  BY <1>1, SpecInv, PTL

\* While commands are stamped the odometry is a path the car can have driven:
\* dropped commands and late IMU messages never make it count an interval twice.
THEOREM OdometryIsDrivable == Spec => []EstimateIsDrivable
<1>1. Inv => EstimateIsDrivable
    BY DEF Inv
<1>. QED  BY <1>1, SpecInv, PTL

\* The estimate jumps at most once after the handoff, by what one speed makes
\* since time zero, and no later command moves it.
THEOREM OdometryStops == Spec => OdometryEndsAtHandoff
<1>. DEFINE last == odometry.motor_prev_time
            Ends(old, new) ==
                /\ old.motor_prev_time = NoStamp =>
                       Estimate(new) = Estimate(old) /\ new.motor_prev_time = NoStamp
                /\ old.motor_prev_time # NoStamp /\ new.motor_prev_time = NoStamp
                       => \E speed \in Speeds :
                             Estimate(new) = Estimate(old) - speed * old.motor_prev_time
<1>1. ASSUME Inv, MotorCallback PROVE Ends(odometry, odometry')
    <2>. DEFINE c == Head(xycar_motor)
    <2>1. /\ c \in Command
          /\ c.stamp # NoStamp => last # NoStamp
        BY <1>1, HeadIsNext DEF MotorCallback
    <2>2. /\ odometry'.motor_prev_time = c.stamp
          /\ odometry'.dist = odometry.dist + c.speed * (c.stamp - last)
          /\ odometry'.position = odometry.position
        BY <1>1 DEF MotorCallback, Integrate
    <2>3. /\ last \in Nat /\ odometry.dist \in Int /\ odometry.position \in Int
          /\ c.speed \in Speeds /\ c.speed \in Int /\ c.stamp \in Int
        <3>1. /\ c.speed \in Speeds /\ c.speed \in Int
              /\ c.stamp \in {NoStamp} \cup StartTime..MaxTime /\ c.stamp \in Int
            BY <2>1, Constants DEF Command, Speeds, NoStamp
        <3>2. last \in Nat /\ odometry.dist \in Int /\ odometry.position \in Int
            BY <1>1, TypesOfInv
        <3>. QED  BY <3>1, <3>2
    <2>. HIDE DEF c
    <2>4. /\ c.speed * (c.stamp - last) \in Int
          /\ Estimate(odometry') = Estimate(odometry) + c.speed * (c.stamp - last)
          /\ Estimate(odometry) \in Int
        <3>1. c.speed * (c.stamp - last) \in Int
            BY <2>3
        <3>. QED  BY <2>2, <2>3, <3>1 DEF Estimate
    <2>5. c.stamp = NoStamp => Estimate(odometry') = Estimate(odometry) - c.speed * last
        <3>. SUFFICES ASSUME c.stamp = 0
                      PROVE  Estimate(odometry') = Estimate(odometry) - c.speed * last
            BY DEF NoStamp
        <3>1. c.speed * (0 - last) = -(c.speed * last) /\ c.speed * last \in Int
            BY <2>3
        <3>. QED  BY <2>4, <3>1
    <2>6. last = NoStamp => c.stamp = NoStamp /\ c.speed * last = 0
        <3>. SUFFICES ASSUME last = 0 PROVE c.stamp = 0 /\ c.speed * last = 0
            BY DEF NoStamp
        <3>1. c.stamp = 0
            BY <2>1 DEF NoStamp
        <3>. HIDE DEF last
        <3>. QED  BY <2>3, <3>1
    <2>. QED  BY <2>2, <2>3, <2>4, <2>5, <2>6
<1>2. ASSUME Inv, ImuCallback PROVE Ends(odometry, odometry')
    BY <1>2, TypesOfInv DEF ImuCallback, PublishOdometry, Estimate
<1>3. ASSUME UNCHANGED odometry PROVE Ends(odometry, odometry')
    BY <1>3
<1>. HIDE DEF Ends
<1>4. Inv /\ [Next]_vars => Ends(odometry, odometry')
    BY <1>1, <1>2, <1>3 DEF Next, vars, TranslatorCommand, TrafficLightCommand,
       HandOver, Tick
<1>. USE DEF Ends
<1>. QED  BY <1>4, SpecInv, PTL DEF Spec, OdometryEndsAtHandoff

=============================================================================
