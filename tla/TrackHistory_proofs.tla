------------------------ MODULE TrackHistory_proofs ------------------------
(***************************************************************************)
(* Why the debounces of the lane-following loop agree with the camera, for *)
(* every choice of their lengths.  CountersFollow ties each counter of the *)
(* program to the record of the images: the school-zone counter is the     *)
(* present run of one kind of image, the checkered counter is never further *)
(* down than images without a floor have brought it and never further up   *)
(* than the present run of them allows, and the passes without the car are *)
(* shared out between the streak that loses it and the wait that follows.  *)
(***************************************************************************)
EXTENDS TrackHistory, TrackDrive_proofs

ShownType == [yellow : Nat, plain : Nat, line : Nat, car : Nat, tiles : Nat,
              bare : Nat, floor : Nat, away : Nat, overtaken : BOOLEAN]

\* Where the passes without the car are counted, said of the decision's record.
AwayFollows(o, away) ==
    /\ o.state = "LANE2" => away = o.lose_streak
    /\ o.state = "WAITING" => away = OvertakeLoseFrames + o.wait_frames

CountersFollow ==
    /\ shown \in ShownType
    /\ shown.yellow = AtLeast(school_zone.frames, 0)
    /\ shown.plain + AtMost(school_zone.frames, 0) = 0
    /\ shown.line = stop_line.detection_frames
    /\ stop_line.detected <=> stop_line.detection_frames = StopLineFrames
    /\ shown.floor \in 0..FloorBound
    /\ checkered_zone.active
           => /\ shown.floor >= CheckeredEnterFrames - checkered_zone.frames
              /\ shown.bare + checkered_zone.frames <= CheckeredEnterFrames
    /\ ~checkered_zone.active
           => shown.tiles <= checkered_zone.frames + CheckeredExitFrames
    /\ AwayFollows(overtake, shown.away)

HistoryInv == TrackInv /\ CountersFollow /\ OvertakesOnce

LEMMA HistoryStep == HNext => Next
  BY DEF HNext, HNewImage, HSameImage, Next

LEMMA TypesOfRecords ==
    ASSUME TrackInv
    PROVE  /\ school_zone \in SchoolZoneType
           /\ checkered_zone \in CheckeredZoneType
           /\ stop_line \in StopLineType
           /\ checkered_zone.active => checkered_zone.frames > -CheckeredExitFrames
           /\ ~checkered_zone.active => checkered_zone.frames < CheckeredEnterFrames
           /\ GoodOvertake(overtake)
  BY InvOfRecords DEF TrackInv, TypeOK, ZonesMatchCounters, RecordInv

LEMMA InitHistory == HInit => HistoryInv
<1> SUFFICES ASSUME HInit PROVE HistoryInv
  OBVIOUS
<1>1. TrackInv
  BY InitEstablishesInv DEF HInit
<1>2. CountersFollow
  <2>1. /\ shown.yellow = 0 /\ shown.plain = 0 /\ shown.line = 0 /\ shown.floor = 0
        /\ shown.tiles = 0 /\ shown.bare = 0 /\ shown \in ShownType
    BY DEF HInit, ShownType
  <2>2. /\ school_zone.frames = 0 /\ stop_line.detection_frames = 0
        /\ ~stop_line.detected /\ ~checkered_zone.active
        /\ checkered_zone.frames = 0 /\ overtake.state = "DISABLED"
    BY DEF HInit, Init, NoOvertake, Overtake
  <2>3. StopLineFrames # 0 /\ 0 \in 0..FloorBound
    BY DebounceFrames DEF FloorBound
  <2>4. stop_line.detected <=> stop_line.detection_frames = StopLineFrames
    BY <2>2, <2>3, Zenon
  <2>5. /\ shown.yellow = AtLeast(school_zone.frames, 0)
        /\ shown.plain + AtMost(school_zone.frames, 0) = 0
    BY <2>1, <2>2 DEF AtLeast, AtMost
  <2>6. shown.tiles <= checkered_zone.frames + CheckeredExitFrames
    BY <2>1, <2>2, DebounceFrames
  <2>7. AwayFollows(overtake, shown.away)
    BY <2>2 DEF AwayFollows
  <2> QED
    BY <2>1, <2>2, <2>3, <2>4, <2>5, <2>6, <2>7, Zenon DEF CountersFollow
<1>3. OvertakesOnce
  BY DEF HInit, OvertakesOnce
<1> QED  BY <1>1, <1>2, <1>3 DEF HistoryInv

-----------------------------------------------------------------------------
(* The counters, each on a new image.                                      *)

LEMMA SchoolCounter ==
    ASSUME NEW z \in SchoolZoneType, NEW yellow \in BOOLEAN
    PROVE  LET after == SchoolZoneRun(z, yellow)
           IN  /\ AtLeast(after.frames, 0)
                    = RunOf(yellow, AtLeast(z.frames, 0), SchoolEnterFrames)
               /\ RunOf(~yellow, 0 - AtMost(z.frames, 0), SchoolExitFrames)
                    + AtMost(after.frames, 0) = 0
               /\ ~z.school_zone_mode /\ after.school_zone_mode
                    => AtLeast(after.frames, 0) = SchoolEnterFrames
               /\ z.school_zone_mode /\ ~after.school_zone_mode
                    => SchoolExitFrames + AtMost(after.frames, 0) = 0
  BY DebounceFrames DEF SchoolZoneRun, SchoolZoneMode, SchoolZoneType, RunOf, AtLeast,
     AtMost

LEMMA LineCounter ==
    ASSUME NEW s \in StopLineType, NEW line \in BOOLEAN
    PROVE  LET after == StopLineRun(s, line)
           IN  /\ after.detection_frames
                    = RunOf(line, s.detection_frames, StopLineFrames)
               /\ after.detected <=> after.detection_frames = StopLineFrames
<1> DEFINE n == RunOf(line, s.detection_frames, StopLineFrames)
<1>1. PICK b \in BOOLEAN : /\ b <=> n >= StopLineFrames
                          /\ StopLineRun(s, line)
                               = [detection_frames |-> n, detected |-> b]
  <2>1. StopLineRun(s, line)
          = [detection_frames |-> n, detected |-> n >= StopLineFrames]
    BY DEF StopLineRun, RunOf
  <2>2. (n >= StopLineFrames) \in BOOLEAN
    OBVIOUS
  <2> QED  BY <2>1, <2>2, Zenon
<1>2. n >= StopLineFrames <=> n = StopLineFrames
  BY DebounceFrames DEF StopLineType, RunOf, AtMost
<1>3. /\ StopLineRun(s, line).detection_frames = n
      /\ StopLineRun(s, line).detected = b
  BY <1>1
<1> QED  BY <1>1, <1>2, <1>3, Zenon

LEMMA RunIsCounted ==
    ASSUME NEW seen \in BOOLEAN, NEW count \in Nat, NEW bound \in Nat
    PROVE  RunOf(seen, count, bound) \in Nat
  BY DEF RunOf, AtMost

\* floor is the record's count before the image and floor2 the one after.
LEMMA FloorCounter ==
    ASSUME NEW z \in CheckeredZoneType, NEW checkered \in BOOLEAN,
           NEW floor \in 0..FloorBound,
           z.active => /\ z.frames > -CheckeredExitFrames
                       /\ floor >= CheckeredEnterFrames - z.frames
    PROVE  LET after == CheckeredZoneRun(z, checkered)
               floor2 == IF ~z.active THEN 0
                         ELSE IF checkered THEN floor
                         ELSE AtMost(floor + 1, FloorBound)
           IN  /\ floor2 \in 0..FloorBound
               /\ after.active => floor2 >= CheckeredEnterFrames - after.frames
               /\ z.active /\ ~after.active => floor2 = FloorBound
  BY DebounceFrames DEF CheckeredZoneRun, CheckeredZoneType, FloorBound, AtMost, AtLeast

\* tiles and bare are the record's runs before the image, tiles2 and bare2
\* those after it.
LEMMA TilesCounter ==
    ASSUME NEW z \in CheckeredZoneType, NEW checkered \in BOOLEAN,
           NEW tiles \in Nat, NEW bare \in Nat,
           IF z.active THEN bare + z.frames <= CheckeredEnterFrames
           ELSE /\ tiles <= z.frames + CheckeredExitFrames
                /\ z.frames < CheckeredEnterFrames
    PROVE  LET after == CheckeredZoneRun(z, checkered)
               tiles2 == RunOf(checkered, tiles, FloorBound)
               bare2 == RunOf(~checkered, bare, FloorBound)
           IN  /\ tiles2 \in Nat /\ bare2 \in Nat
               /\ after.active => bare2 + after.frames <= CheckeredEnterFrames
               /\ ~after.active => tiles2 <= after.frames + CheckeredExitFrames
  BY DebounceFrames DEF CheckeredZoneRun, CheckeredZoneType, FloorBound, RunOf, AtMost,
     AtLeast

\* One run of the decision, with the record's count before and after it.
LEMMA AwayCounter ==
    ASSUME NEW o, GoodOvertake(o), NEW car \in BOOLEAN, NEW mode \in BOOLEAN,
           NEW away \in Nat, AwayFollows(o, away)
    PROVE  LET away2 == IF o.state \in {"LANE2", "WAITING"}
                        THEN RunOf(~car, away, AwayBound) ELSE 0
           IN  away2 \in Nat /\ AwayFollows(UpdateGate(o, car, mode), away2)
<1> DEFINE away2 == IF o.state \in {"LANE2", "WAITING"}
                    THEN RunOf(~car, away, AwayBound) ELSE 0
<1>0. away2 \in Nat
  BY DebounceFrames DEF AwayBound, RunOf, AtMost
<1>1. CASE mode
  BY <1>0, <1>1 DEF UpdateGate, NoOvertake, Overtake, AwayFollows
<1>2. CASE ~mode /\ o.state = "DISABLED"
  BY <1>2 DEF UpdateGate, FromDisabled, Overtake, AwayFollows
<1>3. CASE ~mode /\ o.state = "LANE2"
  BY <1>0, <1>3, DebounceFrames
     DEF UpdateGate, FromLane2, Overtake, AwayFollows, GoodOvertake, OvertakeType,
         RunOf, AtMost, AwayBound
<1>4. CASE ~mode /\ o.state = "WAITING"
  BY <1>0, <1>4, DebounceFrames
     DEF UpdateGate, FromWaiting, Overtake, AwayFollows, GoodOvertake, OvertakeType,
         RunOf, AtMost, AwayBound
<1>5. CASE ~mode /\ o.state = "LANE1"
  BY <1>0, <1>5 DEF UpdateGate, AwayFollows
<1> QED
  BY <1>0, <1>1, <1>2, <1>3, <1>4, <1>5 DEF GoodOvertake, OvertakeType

LEMMA NewImageCounters ==
    ASSUME HistoryInv, NEW left \in BOOLEAN, NEW right \in BOOLEAN,
           NEW frame \in Image, HNewImage(frame, left, right)
    PROVE  /\ CountersFollow'
           /\ LET before == school_zone.school_zone_mode
                  after == school_zone'.school_zone_mode
              IN  /\ ~before /\ after => shown'.yellow = SchoolEnterFrames
                  /\ before /\ ~after => shown'.plain = SchoolExitFrames
           /\ checkered_zone.active /\ ~checkered_zone'.active
                  => shown'.floor = FloorBound
<1>1. /\ frame.yellow_dominant \in BOOLEAN /\ frame.checkered \in BOOLEAN
      /\ frame.line \in BOOLEAN /\ frame.car \in BOOLEAN
  BY DEF Image
<1>2. /\ school_zone' = SchoolZoneRun(school_zone, frame.yellow_dominant)
      /\ checkered_zone' = CheckeredZoneRun(checkered_zone, frame.checkered)
      /\ stop_line' = StopLineRun(stop_line, frame.line)
  BY DEF HNewImage, NewImage
<1>3. /\ shown'.yellow = RunOf(frame.yellow_dominant, shown.yellow, SchoolEnterFrames)
      /\ shown'.plain = RunOf(~frame.yellow_dominant, shown.plain, SchoolExitFrames)
      /\ shown'.line = RunOf(frame.line, shown.line, StopLineFrames)
      /\ shown'.floor = IF ~checkered_zone.active THEN 0
                        ELSE IF frame.checkered THEN shown.floor
                        ELSE AtMost(shown.floor + 1, FloorBound)
      /\ shown'.tiles = RunOf(frame.checkered, shown.tiles, FloorBound)
      /\ shown'.bare = RunOf(~frame.checkered, shown.bare, FloorBound)
      /\ shown'.away = PassesAway(frame.car)
  BY DEF HNewImage
<1>4. /\ school_zone \in SchoolZoneType /\ checkered_zone \in CheckeredZoneType
      /\ stop_line \in StopLineType
      /\ checkered_zone.active => checkered_zone.frames > -CheckeredExitFrames
      /\ ~checkered_zone.active => checkered_zone.frames < CheckeredEnterFrames
      /\ GoodOvertake(overtake)
  BY TypesOfRecords DEF HistoryInv
<1>5. CountersFollow
  BY DEF HistoryInv
<1>6. /\ shown'.yellow = AtLeast(school_zone'.frames, 0)
      /\ shown'.plain + AtMost(school_zone'.frames, 0) = 0
      /\ ~school_zone.school_zone_mode /\ school_zone'.school_zone_mode
            => shown'.yellow = SchoolEnterFrames
      /\ school_zone.school_zone_mode /\ ~school_zone'.school_zone_mode
            => shown'.plain = SchoolExitFrames
  <2>1. shown.yellow = AtLeast(school_zone.frames, 0)
        /\ shown.plain = 0 - AtMost(school_zone.frames, 0)
    BY <1>4, <1>5 DEF CountersFollow, ShownType, SchoolZoneType, AtMost
  <2>2. /\ AtLeast(school_zone'.frames, 0)
             = RunOf(frame.yellow_dominant, shown.yellow, SchoolEnterFrames)
        /\ RunOf(~frame.yellow_dominant, shown.plain, SchoolExitFrames)
             + AtMost(school_zone'.frames, 0) = 0
        /\ ~school_zone.school_zone_mode /\ school_zone'.school_zone_mode
             => AtLeast(school_zone'.frames, 0) = SchoolEnterFrames
        /\ school_zone.school_zone_mode /\ ~school_zone'.school_zone_mode
             => SchoolExitFrames + AtMost(school_zone'.frames, 0) = 0
    BY <1>1, <1>2, <1>4, <2>1, SchoolCounter
  <2>3. school_zone'.frames \in Int
    BY <1>1, <1>2, <1>4, DebounceFrames
       DEF SchoolZoneRun, SchoolZoneMode, SchoolZoneType, AtLeast, AtMost
  <2>4. shown'.plain \in Int
    BY <1>1, <1>3, <1>5, DebounceFrames DEF CountersFollow, ShownType, RunOf, AtMost
  <2> QED  BY <1>3, <2>2, <2>3, <2>4, DebounceFrames DEF AtMost
<1>7. /\ shown'.line = stop_line'.detection_frames
      /\ stop_line'.detected <=> stop_line'.detection_frames = StopLineFrames
  BY <1>1, <1>2, <1>3, <1>4, <1>5, LineCounter DEF CountersFollow
<1>8. /\ shown'.floor \in 0..FloorBound
      /\ checkered_zone'.active
            => shown'.floor >= CheckeredEnterFrames - checkered_zone'.frames
      /\ checkered_zone.active /\ ~checkered_zone'.active
            => shown'.floor = FloorBound
  BY <1>1, <1>2, <1>3, <1>4, <1>5, FloorCounter DEF CountersFollow
<1>9. /\ shown'.tiles \in Nat /\ shown'.bare \in Nat
      /\ checkered_zone'.active
            => shown'.bare + checkered_zone'.frames <= CheckeredEnterFrames
      /\ ~checkered_zone'.active
            => shown'.tiles <= checkered_zone'.frames + CheckeredExitFrames
  <2>1. shown.tiles \in Nat /\ shown.bare \in Nat
    BY <1>5 DEF CountersFollow, ShownType
  <2>2. checkered_zone.active \in BOOLEAN
    BY <1>4 DEF CheckeredZoneType
  <2>3. IF checkered_zone.active
        THEN shown.bare + checkered_zone.frames <= CheckeredEnterFrames
        ELSE /\ shown.tiles <= checkered_zone.frames + CheckeredExitFrames
             /\ checkered_zone.frames < CheckeredEnterFrames
    BY <1>4, <1>5, <2>2 DEF CountersFollow
  <2>4. /\ checkered_zone \in CheckeredZoneType /\ frame.checkered \in BOOLEAN
        /\ checkered_zone' = CheckeredZoneRun(checkered_zone, frame.checkered)
        /\ shown'.tiles = RunOf(frame.checkered, shown.tiles, FloorBound)
        /\ shown'.bare = RunOf(~frame.checkered, shown.bare, FloorBound)
    BY <1>1, <1>2, <1>3, <1>4
  <2> QED  BY <2>1, <2>3, <2>4, TilesCounter
<1>10. shown'.away \in Nat /\ AwayFollows(overtake', shown'.away)
  <2>1. overtake' = UpdateGate(overtake, frame.car, school_zone'.school_zone_mode)
    BY DEF HNewImage, NewImage, Drive
  <2>2. school_zone'.school_zone_mode \in BOOLEAN
    BY <1>1, <1>2, <1>4 DEF SchoolZoneRun, SchoolZoneMode, SchoolZoneType
  <2>3. shown.away \in Nat /\ AwayFollows(overtake, shown.away)
    BY <1>5 DEF CountersFollow, ShownType
  <2> QED  BY <1>1, <1>3, <1>4, <2>1, <2>2, <2>3, AwayCounter DEF PassesAway
<1>11. shown' \in ShownType
  <2>1. shown \in ShownType
    BY <1>5 DEF CountersFollow
  <2>2. /\ RunOf(frame.yellow_dominant, shown.yellow, SchoolEnterFrames) \in Nat
        /\ RunOf(~frame.yellow_dominant, shown.plain, SchoolExitFrames) \in Nat
        /\ RunOf(frame.line, shown.line, StopLineFrames) \in Nat
        /\ RunOf(frame.car, shown.car, OvertakeEnterFrames) \in Nat
    BY <1>1, <2>1, DebounceFrames, RunIsCounted DEF ShownType
  <2>3. shown'.floor \in Nat
    BY <1>8, DebounceFrames DEF FloorBound
  <2>4. PICK floor, overtaken :
          /\ shown' = [yellow |-> RunOf(frame.yellow_dominant, shown.yellow,
                                        SchoolEnterFrames),
                       plain |-> RunOf(~frame.yellow_dominant, shown.plain,
                                       SchoolExitFrames),
                       line |-> RunOf(frame.line, shown.line, StopLineFrames),
                       car |-> RunOf(frame.car, shown.car, OvertakeEnterFrames),
                       tiles |-> RunOf(frame.checkered, shown.tiles, FloorBound),
                       bare |-> RunOf(~frame.checkered, shown.bare, FloorBound),
                       floor |-> floor, away |-> PassesAway(frame.car),
                       overtaken |-> overtaken]
          /\ overtaken \in BOOLEAN
    BY DEF HNewImage
  <2> QED  BY <1>9, <1>10, <2>2, <2>3, <2>4 DEF ShownType
<1> QED  BY <1>6, <1>7, <1>8, <1>9, <1>10, <1>11 DEF CountersFollow

LEMMA SameImageCounters ==
    ASSUME HistoryInv, NEW left \in BOOLEAN, NEW right \in BOOLEAN,
           HSameImage(left, right)
    PROVE  /\ CountersFollow' /\ UNCHANGED <<school_zone, checkered_zone>>
           /\ shown'.overtaken => /\ ~school_zone'.school_zone_mode
                                  /\ shown.overtaken \/ overtake'.state = "LANE1"
<1>1. UNCHANGED <<school_zone, checkered_zone, stop_line>>
  BY DEF HSameImage, SameImage
<1> DEFINE b == /\ ~school_zone'.school_zone_mode
                /\ shown.overtaken \/ overtake'.state = "LANE1"
           a == PassesAway(image.car)
<1>2. /\ shown \in ShownType
      /\ shown' = [shown EXCEPT !.away = a, !.overtaken = b]
  BY DEF HSameImage, HistoryInv, CountersFollow
<1>3. b \in BOOLEAN
  OBVIOUS
<1>4. a \in Nat /\ AwayFollows(overtake', a)
  <2>1. /\ overtake' = UpdateGate(overtake, image.car, school_zone.school_zone_mode)
        /\ image # NoImage
    BY DEF HSameImage, SameImage, Drive
  <2>2. GoodOvertake(overtake) /\ school_zone.school_zone_mode \in BOOLEAN
    BY TypesOfRecords DEF HistoryInv, SchoolZoneType
  <2>3. image.car \in BOOLEAN
    BY <2>1 DEF HistoryInv, TrackInv, TypeOK, Image
  <2>4. shown.away \in Nat /\ AwayFollows(overtake, shown.away)
    BY <1>2 DEF HistoryInv, CountersFollow, ShownType
  <2> QED  BY <2>1, <2>2, <2>3, <2>4, AwayCounter DEF PassesAway
<1> HIDE DEF a, b
<1>5. /\ shown'.yellow = shown.yellow /\ shown'.plain = shown.plain
      /\ shown'.line = shown.line /\ shown'.floor = shown.floor
      /\ shown'.tiles = shown.tiles /\ shown'.bare = shown.bare
      /\ shown'.away = a /\ shown'.overtaken = b
  BY <1>2, Zenon DEF ShownType
<1>6. shown' \in ShownType
  BY <1>2, <1>3, <1>4, Zenon DEF ShownType
<1> QED  BY <1>1, <1>4, <1>5, <1>6 DEF HistoryInv, CountersFollow, b

-----------------------------------------------------------------------------
(* Once overtaken, the car keeps to the left lane.                         *)

\* The gate is run with the new mode of the zone, so a pass either ends the
\* record of the overtaking or leaves LANE1 as it is.
LEMMA OvertakenStays ==
    ASSUME OvertakesOnce, NEW frame, NEW mode \in BOOLEAN, NEW lane_seen,
           Drive(frame, mode, lane_seen), TrackInv',
           shown'.overtaken => ~mode /\ (shown.overtaken \/ overtake'.state = "LANE1")
    PROVE  OvertakesOnce'
<1> SUFFICES ASSUME shown'.overtaken
             PROVE  overtake'.state = "LANE1" /\ lane_motor_cmd'.lateral_offset = "left"
  BY DEF OvertakesOnce
<1>1. overtake'.state = "LANE1"
  BY DEF Drive, UpdateGate, OvertakesOnce
<1>2. /\ overtake'.lateral_offset = PhaseOffset(overtake'.state)
      /\ lane_motor_cmd'.lateral_offset = overtake'.lateral_offset
  BY DEF TrackInv, OffsetMatchesPhase
<1> QED  BY <1>1, <1>2 DEF PhaseOffset

LEMMA NextKeepsHistory == HistoryInv /\ [HNext]_hvars => HistoryInv'
<1> SUFFICES ASSUME HistoryInv, [HNext]_hvars PROVE HistoryInv'
  OBVIOUS
<1>1. TrackInv'
  BY HistoryStep, NextKeepsInv DEF HistoryInv, hvars
<1>2. ASSUME NEW left \in BOOLEAN, NEW right \in BOOLEAN, NEW frame \in Image,
             HNewImage(frame, left, right)
      PROVE  HistoryInv'
  <2>1. CountersFollow'
    BY <1>2, NewImageCounters
  <2>2. school_zone'.school_zone_mode \in BOOLEAN
    BY <1>1 DEF TrackInv, TypeOK, SchoolZoneType
  <2>3. Drive(frame, school_zone'.school_zone_mode,
              lane_status'.left \/ lane_status'.right)
    BY <1>2 DEF HNewImage, NewImage
  <2>4. shown'.overtaken => /\ ~school_zone'.school_zone_mode
                            /\ shown.overtaken \/ overtake'.state = "LANE1"
    BY <1>2 DEF HNewImage
  <2>5. OvertakesOnce'
    BY <1>1, <2>2, <2>3, <2>4, OvertakenStays DEF HistoryInv
  <2> QED  BY <1>1, <2>1, <2>5 DEF HistoryInv
<1>3. ASSUME NEW left \in BOOLEAN, NEW right \in BOOLEAN, HSameImage(left, right)
      PROVE  HistoryInv'
  <2>1. CountersFollow' /\ school_zone' = school_zone
    BY <1>3, SameImageCounters
  <2>2. school_zone'.school_zone_mode \in BOOLEAN
    BY <1>1 DEF TrackInv, TypeOK, SchoolZoneType
  <2>3. PICK lane_seen : Drive(image, school_zone'.school_zone_mode, lane_seen)
    BY <1>3, <2>1 DEF HSameImage, SameImage
  <2>4. shown'.overtaken => /\ ~school_zone'.school_zone_mode
                            /\ shown.overtaken \/ overtake'.state = "LANE1"
    BY <1>3, SameImageCounters
  <2>5. OvertakesOnce'
    BY <1>1, <2>2, <2>3, <2>4, OvertakenStays DEF HistoryInv
  <2> QED  BY <1>1, <2>1, <2>5 DEF HistoryInv
<1>4. CASE UNCHANGED hvars
  BY <1>1, <1>4 DEF hvars, vars, HistoryInv, CountersFollow, OvertakesOnce
<1> QED  BY <1>2, <1>3, <1>4 DEF HNext

THEOREM HistorySafety == HSpec => []HistoryInv
  BY InitHistory, NextKeepsHistory, PTL DEF HSpec

\* /stop_line says TRUE exactly while enough images in a row showed a line.
THEOREM StopLineConfirmation == HSpec => []StopLineIsConfirmed
<1>1. HistoryInv => StopLineIsConfirmed
  BY DEF HistoryInv, CountersFollow, StopLineIsConfirmed
<1> QED  BY <1>1, HistorySafety, PTL

\* After overtaking the car keeps to the left lane until a school zone.
THEOREM OvertakingOnce == HSpec => []OvertakesOnce
<1>1. HistoryInv => OvertakesOnce
  BY DEF HistoryInv
<1> QED  BY <1>1, HistorySafety, PTL

\* Enough images of one kind in a row bring each zone flag to what they show:
\* the counters are then at the limit that decides the flag.
THEOREM ZonesInTime == HSpec => []ZonesFollowInTime
<1>1. HistoryInv => ZonesFollowInTime
  <2> SUFFICES ASSUME HistoryInv PROVE ZonesFollowInTime
    OBVIOUS
  <2>1. /\ shown \in ShownType
        /\ shown.yellow = AtLeast(school_zone.frames, 0)
        /\ shown.plain + AtMost(school_zone.frames, 0) = 0
    BY DEF HistoryInv, CountersFollow
  <2>2. /\ school_zone.frames \in Int /\ checkered_zone.frames \in Int
        /\ shown.plain \in Nat /\ shown.bare \in Nat /\ shown.tiles \in Nat
    BY <2>1, TypesOfRecords, DebounceFrames
       DEF HistoryInv, SchoolZoneType, CheckeredZoneType, ShownType
  <2>3. IF school_zone.school_zone_mode THEN school_zone.frames > -SchoolExitFrames
        ELSE school_zone.frames < SchoolEnterFrames
    BY DEF HistoryInv, TrackInv, ZonesMatchCounters
  <2>4. /\ shown.yellow = SchoolEnterFrames => school_zone.school_zone_mode
        /\ shown.plain = SchoolExitFrames => ~school_zone.school_zone_mode
    BY <2>1, <2>2, <2>3, DebounceFrames DEF AtLeast, AtMost
  <2>5. /\ shown.tiles = FloorBound => checkered_zone.active
        /\ shown.bare = FloorBound => ~checkered_zone.active
    BY <2>2, TypesOfRecords, DebounceFrames DEF HistoryInv, CountersFollow, FloorBound
  <2> QED  BY <2>4, <2>5 DEF ZonesFollowInTime
<1> QED  BY <1>1, HistorySafety, PTL

\* An overtaking does not outlast the passes that lose the car and wait: both
\* counters are below their limits in the phase that counts them.
THEOREM OvertakeDeadline == HSpec => []OvertakeEndsOnTime
<1>1. HistoryInv => OvertakeEndsOnTime
  BY TypesOfRecords, DebounceFrames
     DEF HistoryInv, CountersFollow, AwayFollows, GoodOvertake, OvertakeType,
         OvertakeEndsOnTime, AwayBound
<1> QED  BY <1>1, HistorySafety, PTL

LEMMA StepDebounces ==
    HistoryInv /\ [HNext]_hvars
    => /\ LET before == school_zone.school_zone_mode
              after == school_zone'.school_zone_mode
          IN  /\ ~before /\ after => shown'.yellow = SchoolEnterFrames
              /\ before /\ ~after => shown'.plain = SchoolExitFrames
       /\ checkered_zone.active /\ ~checkered_zone'.active
              => shown'.floor = FloorBound
  BY NewImageCounters, SameImageCounters DEF HNext, hvars, vars

\* The school zone changes only on enough images in a row, whatever passes of
\* the loop come between them.
THEOREM SchoolZoneDebounce == HSpec => SchoolZoneIsDebounced
  BY HistorySafety, StepDebounces, PTL DEF HSpec, SchoolZoneIsDebounced

\* The checkered zone ends only after as many images without the floor as the
\* entry and the exit count together.
THEOREM CheckeredZoneOutlasts == HSpec => CheckeredOutlastsFloor
  BY HistorySafety, StepDebounces, PTL DEF HSpec, CheckeredOutlastsFloor

-----------------------------------------------------------------------------
(* What the comment on CAMERA_OVERTAKE_ENTER_FRAMES lacks to be true: that *)
(* the decision run once per image, as the zone detectors do.              *)

OncePerImage ==
    \E left, right \in BOOLEAN, frame \in Image : HNewImage(frame, left, right)

PerImageSpec == HInit /\ [][OncePerImage]_hvars

\* The school zone restarts the streak, so it may be shorter than the run.
StreakWithinRun ==
    /\ shown.car \in 0..OvertakeEnterFrames
    /\ overtake.state = "DISABLED" => overtake.enter_streak <= shown.car

LEMMA StreakCounter ==
    ASSUME NEW o, GoodOvertake(o), NEW car \in BOOLEAN, NEW mode \in BOOLEAN,
           NEW run \in 0..OvertakeEnterFrames,
           o.state = "DISABLED" => o.enter_streak <= run
    PROVE  LET after == UpdateGate(o, car, mode)
               run2 == RunOf(car, run, OvertakeEnterFrames)
           IN  /\ run2 \in 0..OvertakeEnterFrames
               /\ after.state = "DISABLED" => after.enter_streak <= run2
               /\ o.state = "DISABLED" /\ after.state = "LANE2"
                      => run2 = OvertakeEnterFrames
<1> DEFINE after == UpdateGate(o, car, mode)
           run2 == RunOf(car, run, OvertakeEnterFrames)
<1>1. run2 \in 0..OvertakeEnterFrames
  BY DebounceFrames DEF RunOf, AtMost
<1>2. CASE mode
  BY <1>1, <1>2 DEF UpdateGate, NoOvertake, Overtake
<1>3. CASE ~mode /\ o.state = "DISABLED"
  BY <1>1, <1>3, DebounceFrames
     DEF UpdateGate, FromDisabled, Overtake, GoodOvertake, OvertakeType, RunOf, AtMost
<1>4. CASE ~mode /\ o.state # "DISABLED"
  BY <1>1, <1>4
     DEF UpdateGate, FromLane2, FromWaiting, Overtake, GoodOvertake, OvertakeType
<1> QED  BY <1>2, <1>3, <1>4

LEMMA OncePerImageStep ==
    HistoryInv /\ StreakWithinRun /\ [OncePerImage]_hvars
    => /\ StreakWithinRun'
       /\ overtake.state = "DISABLED" /\ overtake'.state = "LANE2"
              => shown'.car = OvertakeEnterFrames
<1> SUFFICES ASSUME HistoryInv, StreakWithinRun, [OncePerImage]_hvars
             PROVE  /\ StreakWithinRun'
                    /\ overtake.state = "DISABLED" /\ overtake'.state = "LANE2"
                           => shown'.car = OvertakeEnterFrames
  OBVIOUS
<1>1. CASE UNCHANGED hvars
  BY <1>1 DEF hvars, vars, StreakWithinRun
<1>2. ASSUME NEW left \in BOOLEAN, NEW right \in BOOLEAN, NEW frame \in Image,
             HNewImage(frame, left, right)
      PROVE  /\ StreakWithinRun'
             /\ overtake.state = "DISABLED" /\ overtake'.state = "LANE2"
                    => shown'.car = OvertakeEnterFrames
  <2>1. /\ overtake' = UpdateGate(overtake, frame.car, school_zone'.school_zone_mode)
        /\ shown'.car = RunOf(frame.car, shown.car, OvertakeEnterFrames)
    BY <1>2 DEF HNewImage, NewImage, Drive
  <2>2. TrackInv'
    BY <1>2, HistoryStep, NextKeepsInv DEF HistoryInv, HNext
  <2>3. /\ school_zone'.school_zone_mode \in BOOLEAN /\ frame.car \in BOOLEAN
        /\ GoodOvertake(overtake)
    BY <2>2, TypesOfRecords DEF TrackInv, TypeOK, SchoolZoneType, Image, HistoryInv
  <2> QED  BY <2>1, <2>3, StreakCounter DEF StreakWithinRun
<1> QED  BY <1>1, <1>2 DEF OncePerImage

\* Were every pass of the loop to take a new image, the car would move over
\* only after the yellow car in that many images in a row.
THEOREM DebouncedOncePerImage == PerImageSpec => OvertakeIsDebounced
<1>1. HInit => StreakWithinRun
  BY DebounceFrames DEF HInit, Init, NoOvertake, Overtake, StreakWithinRun
<1>2. PerImageSpec => HSpec
  <2>1. [OncePerImage]_hvars => [HNext]_hvars
    BY DEF OncePerImage, HNext
  <2> QED  BY <2>1, PTL DEF PerImageSpec, HSpec
<1> QED
  BY <1>1, <1>2, HistorySafety, OncePerImageStep, PTL
     DEF PerImageSpec, OvertakeIsDebounced

=============================================================================
