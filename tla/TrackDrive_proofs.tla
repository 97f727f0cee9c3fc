------------------------- MODULE TrackDrive_proofs -------------------------
(***************************************************************************)
(* Proofs about TrackDrive, for every choice of the debounce lengths.      *)
(*                                                                         *)
(* TypeOK is not inductive: the streaks of the overtake decision are not   *)
(* clamped, and what bounds each of them is the phase it is counted in.    *)
(* StreaksMatchPhase says so.  The other invariants follow from the        *)
(* detectors one by one, because a pass of the loop runs the overtake      *)
(* decision after the zone detectors and on their new flags.               *)
(***************************************************************************)
EXTENDS TrackDrive, TLAPS

\* A streak reaches its limit only on the pass that leaves its phase.
StreaksMatchPhase ==
    /\ overtake.state = "DISABLED" => overtake.enter_streak < OvertakeEnterFrames
    /\ overtake.state = "LANE2" => overtake.lose_streak < OvertakeLoseFrames
    /\ overtake.state = "WAITING" => overtake.wait_frames < OvertakeReturnFrames

TrackInv ==
    /\ TypeOK
    /\ StreaksMatchPhase
    /\ SchoolZoneIsCautious
    /\ OffsetMatchesPhase
    /\ ZonesMatchCounters
    /\ CheckeredHidesLeft

\* What the decision keeps between two passes, as a predicate of its record.
GoodOvertake(o) ==
    /\ o \in OvertakeType
    /\ o.state = "DISABLED" => o.enter_streak < OvertakeEnterFrames
    /\ o.state = "LANE2" => o.lose_streak < OvertakeLoseFrames
    /\ o.state = "WAITING" => o.wait_frames < OvertakeReturnFrames
    /\ o.lateral_offset = PhaseOffset(o.state)

GoodSchoolZone(z) ==
    /\ z \in SchoolZoneType
    /\ IF z.school_zone_mode THEN z.frames > -SchoolExitFrames
       ELSE z.frames < SchoolEnterFrames

GoodCheckeredZone(z) ==
    /\ z \in CheckeredZoneType
    /\ IF z.active THEN z.frames > -CheckeredExitFrames
       ELSE z.frames < CheckeredEnterFrames

LEMMA NoOvertakeIsGood == GoodOvertake(NoOvertake)
  BY DebounceFrames
     DEF GoodOvertake, NoOvertake, Overtake, OvertakeType, Offsets, PhaseOffset

\* Whatever the camera shows, one run of the decision keeps it good.
LEMMA GateKeepsGood ==
  ASSUME NEW o, GoodOvertake(o), NEW car \in BOOLEAN, NEW mode \in BOOLEAN
  PROVE  GoodOvertake(UpdateGate(o, car, mode))
<1>1. CASE mode
  BY <1>1, NoOvertakeIsGood DEF UpdateGate
<1>2. CASE ~mode /\ o.state = "DISABLED"
  BY <1>2, DebounceFrames
     DEF UpdateGate, FromDisabled, GoodOvertake, Overtake, OvertakeType, Offsets,
         PhaseOffset
<1>3. CASE ~mode /\ o.state = "LANE2"
  BY <1>3, DebounceFrames
     DEF UpdateGate, FromLane2, GoodOvertake, Overtake, OvertakeType, Offsets,
         PhaseOffset
<1>4. CASE ~mode /\ o.state = "WAITING"
  BY <1>4, DebounceFrames
     DEF UpdateGate, FromWaiting, GoodOvertake, Overtake, OvertakeType, Offsets,
         PhaseOffset
<1>5. CASE ~mode /\ o.state = "LANE1"
  BY <1>5 DEF UpdateGate
<1> QED
  BY <1>1, <1>2, <1>3, <1>4, <1>5 DEF GoodOvertake, OvertakeType

LEMMA SchoolZoneKeepsGood ==
  ASSUME NEW z, GoodSchoolZone(z), NEW yellow \in BOOLEAN
  PROVE  GoodSchoolZone(SchoolZoneRun(z, yellow))
  BY DebounceFrames
     DEF GoodSchoolZone, SchoolZoneRun, SchoolZoneMode, SchoolZoneType, AtLeast,
         AtMost

LEMMA CheckeredZoneKeepsGood ==
  ASSUME NEW z, GoodCheckeredZone(z), NEW floor \in BOOLEAN
  PROVE  GoodCheckeredZone(CheckeredZoneRun(z, floor))
  BY DebounceFrames
     DEF GoodCheckeredZone, CheckeredZoneRun, CheckeredZoneType, AtLeast, AtMost

LEMMA StopLineKeepsType ==
  ASSUME NEW s \in StopLineType, NEW candidate \in BOOLEAN
  PROVE  StopLineRun(s, candidate) \in StopLineType
  BY DebounceFrames DEF StopLineRun, StopLineType, AtMost

\* The invariant, said of the records.
RecordInv ==
    /\ image \in Image \cup {NoImage}
    /\ GoodSchoolZone(school_zone)
    /\ GoodCheckeredZone(checkered_zone)
    /\ stop_line \in StopLineType
    /\ lane_status \in LaneStatusType
    /\ checkered_zone.active => ~lane_status.left
    /\ GoodOvertake(overtake)
    /\ lane_motor_cmd \in MotorCmdType
    /\ lane_motor_cmd.lateral_offset = overtake.lateral_offset
    /\ school_zone.school_zone_mode =>
           overtake = NoOvertake /\ lane_motor_cmd.speed # "max"

LEMMA InvOfRecords == TrackInv <=> RecordInv
<1>1. overtake = NoOvertake =>
          (lane_motor_cmd.lateral_offset = overtake.lateral_offset <=>
           lane_motor_cmd.lateral_offset = "center")
  BY DEF NoOvertake, Overtake
<1> HIDE DEF NoOvertake
<1> QED
  BY <1>1 DEF RecordInv, TrackInv, TypeOK, StreaksMatchPhase, SchoolZoneIsCautious,
       OffsetMatchesPhase, ZonesMatchCounters, CheckeredHidesLeft,
       GoodSchoolZone, GoodCheckeredZone, GoodOvertake

LEMMA InvOfRecordsNext == TrackInv' <=> RecordInv'
  BY InvOfRecords, PTL

\* The end of a pass, common to both kinds: given good records and the flag the
\* zone detector has just left, it leaves a good decision and a command that
\* agrees with both.
LEMMA DriveKeepsGood ==
  ASSUME NEW frame \in Image, NEW mode \in BOOLEAN, NEW lane_seen \in BOOLEAN,
         GoodOvertake(overtake), Drive(frame, mode, lane_seen)
  PROVE  /\ GoodOvertake(overtake')
         /\ lane_motor_cmd' \in MotorCmdType
         /\ lane_motor_cmd'.lateral_offset = overtake'.lateral_offset
         /\ mode => overtake' = NoOvertake /\ lane_motor_cmd'.speed # "max"
<1>1. GoodOvertake(overtake')
  <2>1. frame.car \in BOOLEAN  BY DEF Image
  <2> QED  BY <2>1, GateKeepsGood DEF Drive
<1>2. overtake'.lateral_offset \in Offsets
  BY <1>1 DEF GoodOvertake, OvertakeType
<1>3. lane_motor_cmd' = [lateral_offset |-> overtake'.lateral_offset,
                         speed |-> SpeedBound(mode, lane_seen)]
  BY DEF Drive
<1>4. /\ SpeedBound(mode, lane_seen) \in SpeedBounds
      /\ mode => SpeedBound(mode, lane_seen) # "max"
  BY DEF SpeedBound, SpeedBounds
<1>5. mode => overtake' = NoOvertake
  BY DEF Drive, UpdateGate
<1> QED  BY <1>1, <1>2, <1>3, <1>4, <1>5 DEF MotorCmdType

LEMMA InitEstablishesInv == Init => TrackInv
<1> SUFFICES ASSUME Init PROVE TrackInv
  OBVIOUS
<1>1. GoodSchoolZone(school_zone)
  BY DebounceFrames DEF Init, GoodSchoolZone, SchoolZoneType
<1>2. GoodCheckeredZone(checkered_zone)
  BY DebounceFrames DEF Init, GoodCheckeredZone, CheckeredZoneType
<1>3. stop_line \in StopLineType /\ lane_status \in LaneStatusType
  BY DebounceFrames DEF Init, StopLineType, LaneStatusType
<1>4. GoodOvertake(overtake) /\ overtake.lateral_offset = "center"
  BY NoOvertakeIsGood DEF Init, NoOvertake, Overtake
<1>5. /\ lane_motor_cmd \in MotorCmdType
      /\ lane_motor_cmd.lateral_offset = "center"
  BY DEF Init, MotorCmdType, Offsets, SpeedBounds
<1>6. ~school_zone.school_zone_mode /\ ~checkered_zone.active /\ image = NoImage
  BY DEF Init
<1> QED  BY <1>1, <1>2, <1>3, <1>4, <1>5, <1>6, InvOfRecords DEF RecordInv

LEMMA NextKeepsInv == TrackInv /\ [Next]_vars => TrackInv'
<1> SUFFICES ASSUME TrackInv, [Next]_vars PROVE TrackInv'
  OBVIOUS
<1>0. /\ GoodSchoolZone(school_zone) /\ GoodCheckeredZone(checkered_zone)
      /\ stop_line \in StopLineType /\ lane_status \in LaneStatusType
      /\ image \in Image \cup {NoImage} /\ GoodOvertake(overtake)
      /\ checkered_zone.active => ~lane_status.left
  BY InvOfRecords DEF RecordInv
<1>1. ASSUME NEW left \in BOOLEAN, NEW right \in BOOLEAN, NEW frame \in Image,
             NewImage(frame, left, right)
      PROVE  TrackInv'
  <2>1. frame.yellow_dominant \in BOOLEAN /\ frame.checkered \in BOOLEAN
        /\ frame.line \in BOOLEAN
    BY DEF Image
  <2>2. /\ GoodSchoolZone(school_zone')
        /\ school_zone'.school_zone_mode \in BOOLEAN
    <3>1. GoodSchoolZone(school_zone')
      BY <1>0, <1>1, <2>1, SchoolZoneKeepsGood DEF NewImage
    <3> QED  BY <3>1 DEF GoodSchoolZone, SchoolZoneType
  <2>3. /\ GoodCheckeredZone(checkered_zone')
        /\ checkered_zone'.active \in BOOLEAN
    <3>1. GoodCheckeredZone(checkered_zone')
      BY <1>0, <1>1, <2>1, CheckeredZoneKeepsGood DEF NewImage
    <3> QED  BY <3>1 DEF GoodCheckeredZone, CheckeredZoneType
  <2>4. lane_status' = LaneStatus(left, right, checkered_zone'.active)
    BY <1>1 DEF NewImage
  <2>5. /\ lane_status' \in LaneStatusType
        /\ checkered_zone'.active => ~lane_status'.left
    BY <2>3, <2>4 DEF LaneStatus, LaneStatusType
  <2>6. stop_line' \in StopLineType
    BY <1>0, <1>1, <2>1, StopLineKeepsType DEF NewImage
  <2>7. Drive(frame, school_zone'.school_zone_mode,
              lane_status'.left \/ lane_status'.right)
    BY <1>1 DEF NewImage
  <2>8. /\ GoodOvertake(overtake')
        /\ lane_motor_cmd' \in MotorCmdType
        /\ lane_motor_cmd'.lateral_offset = overtake'.lateral_offset
        /\ school_zone'.school_zone_mode =>
               overtake' = NoOvertake /\ lane_motor_cmd'.speed # "max"
    <3>1. (lane_status'.left \/ lane_status'.right) \in BOOLEAN  OBVIOUS
    <3> QED  BY <1>0, <2>2, <2>7, <3>1, DriveKeepsGood
  <2>9. image' \in Image \cup {NoImage}
    BY <1>1 DEF NewImage
  <2> QED  BY <2>2, <2>3, <2>5, <2>6, <2>8, <2>9, InvOfRecordsNext DEF RecordInv
<1>2. ASSUME NEW left \in BOOLEAN, NEW right \in BOOLEAN, SameImage(left, right)
      PROVE  TrackInv'
  <2>1. UNCHANGED <<image, school_zone, checkered_zone, stop_line, lane_status>>
    BY <1>2 DEF SameImage
  <2>2. image \in Image /\ school_zone.school_zone_mode \in BOOLEAN
    BY <1>0, <1>2 DEF SameImage, GoodSchoolZone, SchoolZoneType
  <2>3. PICK lane_seen \in BOOLEAN :
            Drive(image, school_zone.school_zone_mode, lane_seen)
    BY <1>2 DEF SameImage
  <2>4. /\ GoodOvertake(overtake')
        /\ lane_motor_cmd' \in MotorCmdType
        /\ lane_motor_cmd'.lateral_offset = overtake'.lateral_offset
        /\ school_zone.school_zone_mode =>
               overtake' = NoOvertake /\ lane_motor_cmd'.speed # "max"
    BY <1>0, <2>2, <2>3, DriveKeepsGood
  <2> QED  BY <1>0, <2>1, <2>4, InvOfRecordsNext DEF RecordInv
<1>3. CASE UNCHANGED vars
  BY <1>3, InvOfRecords, InvOfRecordsNext DEF vars, RecordInv
<1> QED  BY <1>1, <1>2, <1>3 DEF Next

\* The invariant of the whole loop: counters in range, zone flags in step with
\* their counters, the overtake decision and the command in step with the zone
\* flags.
THEOREM TrackSafety == Spec => []TrackInv
  BY InitEstablishesInv, NextKeepsInv, PTL DEF Spec

\* In a school zone, whichever pass of the loop spoke last, the car does not
\* overtake and the command keeps the centre and the school-zone speed.
THEOREM SchoolZoneCaution == Spec => []SchoolZoneIsCautious
<1>1. TrackInv => SchoolZoneIsCautious  BY DEF TrackInv
<1> QED  BY <1>1, TrackSafety, PTL

\* The commanded offset is always the one of the overtaking phase.
THEOREM OffsetSafety == Spec => []OffsetMatchesPhase
<1>1. TrackInv => OffsetMatchesPhase  BY DEF TrackInv
<1> QED  BY <1>1, TrackSafety, PTL

\* The zone flags agree with their counters, and no left lane is reported over
\* the checkered floor.
THEOREM ZoneSafety == Spec => [](ZonesMatchCounters /\ CheckeredHidesLeft)
<1>1. TrackInv => ZonesMatchCounters /\ CheckeredHidesLeft  BY DEF TrackInv
<1> QED  BY <1>1, TrackSafety, PTL

\* Every counter of the loop stays within its threshold, although the code
\* clamps only two of them.
THEOREM TrackTypeCorrectness == Spec => []TypeOK
<1>1. TrackInv => TypeOK  BY DEF TrackInv
<1> QED  BY <1>1, TrackSafety, PTL

=============================================================================
