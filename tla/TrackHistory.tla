---------------------------- MODULE TrackHistory ----------------------------
(***************************************************************************)
(* TrackDrive with a record of the images it was given, kept outside the   *)
(* program: how many images in a row showed each thing, counted once per   *)
(* image however many passes of the loop worked on it.  The program never  *)
(* reads it; it lets the debounces be compared with the camera.            *)
(***************************************************************************)
EXTENDS TrackDrive

VARIABLE shown

hvars == <<vars, shown>>

\* Long enough to tell the thresholds apart (bounds of the counts below).
FloorBound == CheckeredEnterFrames + CheckeredExitFrames
AwayBound == OvertakeLoseFrames + OvertakeReturnFrames

RunOf(seen, count, bound) == IF seen THEN AtMost(count + 1, bound) ELSE 0

HInit ==
    /\ Init
    /\ shown = [yellow |-> 0, plain |-> 0, line |-> 0, car |-> 0, tiles |-> 0,
                bare |-> 0, floor |-> 0, away |-> 0, overtaken |-> FALSE]

\* The passes in a row, of the present overtaking, that worked on an image
\* without the yellow car.
PassesAway(car) ==
    IF overtake.state \in {"LANE2", "WAITING"}
    THEN RunOf(~car, shown.away, AwayBound) ELSE 0

\* floor counts the images without a checkered floor since the zone was
\* last entered, tiles and bare those with one and without one in a row;
\* overtaken says that the car has returned to the left lane and that no
\* school zone has been entered since.
HNewImage(frame, left, right) ==
    /\ NewImage(frame, left, right)
    /\ shown' =
        [yellow |-> RunOf(frame.yellow_dominant, shown.yellow, SchoolEnterFrames),
         plain |-> RunOf(~frame.yellow_dominant, shown.plain, SchoolExitFrames),
         line |-> RunOf(frame.line, shown.line, StopLineFrames),
         car |-> RunOf(frame.car, shown.car, OvertakeEnterFrames),
         tiles |-> RunOf(frame.checkered, shown.tiles, FloorBound),
         bare |-> RunOf(~frame.checkered, shown.bare, FloorBound),
         floor |-> IF ~checkered_zone.active THEN 0
                   ELSE IF frame.checkered THEN shown.floor
                   ELSE AtMost(shown.floor + 1, FloorBound),
         away |-> PassesAway(frame.car),
         overtaken |-> ~school_zone'.school_zone_mode
                       /\ (shown.overtaken \/ overtake'.state = "LANE1")]

HSameImage(left, right) ==
    /\ SameImage(left, right)
    /\ shown' = [shown EXCEPT
                    !.away = PassesAway(image.car),
                    !.overtaken = ~school_zone'.school_zone_mode
                                  /\ (@ \/ overtake'.state = "LANE1")]

HNext ==
    \E left, right \in BOOLEAN :
        \/ \E frame \in Image : HNewImage(frame, left, right)
        \/ HSameImage(left, right)

HSpec == HInit /\ [][HNext]_hvars

-----------------------------------------------------------------------------
(* Properties.                                                             *)

\* The school zone is entered only on enough yellow images in a row and left
\* only on enough others in a row: images, not passes of the loop (the
\* comment in MainLoop.run says why passes must not be counted), and a single
\* stray image in between starts the count again.
SchoolZoneIsDebounced ==
    [][ LET before == school_zone.school_zone_mode
            after == school_zone'.school_zone_mode
        IN  /\ ~before /\ after => shown'.yellow = SchoolEnterFrames
            /\ before /\ ~after => shown'.plain = SchoolExitFrames ]_hvars

\* The zones change in time.  A run of images long enough always brings a zone
\* flag to what the images show, whatever came before it: for the school zone
\* the run that is needed to change it, for the checkered zone, whose net count
\* may stand at the other limit, the length of both limits together.
ZonesFollowInTime ==
    /\ shown.yellow = SchoolEnterFrames => school_zone.school_zone_mode
    /\ shown.plain = SchoolExitFrames => ~school_zone.school_zone_mode
    /\ shown.tiles = FloorBound => checkered_zone.active
    /\ shown.bare = FloorBound => ~checkered_zone.active

\* /stop_line says TRUE exactly while the latest images, enough of them in a
\* row, all showed a line.  The traffic-light node stops the car on it.
StopLineIsConfirmed ==
    stop_line.detected <=> shown.line = StopLineFrames

\* The checkered zone outlasts the floor by the exit count and the entry
\* count together: the counter has to fall from one limit to the other.
CheckeredOutlastsFloor ==
    [][ checkered_zone.active /\ ~checkered_zone'.active
            => shown'.floor = FloorBound ]_hvars

\* Once the car has overtaken and gone back to the left lane it stays there,
\* whatever it sees, until a school zone has been entered.
OvertakesOnce ==
    shown.overtaken => overtake.state = "LANE1"
                       /\ lane_motor_cmd.lateral_offset = "left"

\* An overtaking is over in time: with the car out of view for as many passes
\* as are needed to lose it and to wait, the right lane is left, however often
\* the car was lost and seen again before.
OvertakeEndsOnTime ==
    overtake.state \in {"LANE2", "WAITING"} => shown.away < AwayBound

\* What the comment on CAMERA_OVERTAKE_ENTER_FRAMES says: the car moves over
\* only after that many frames in a row with the yellow car.  The code counts
\* passes of the loop instead.
OvertakeIsDebounced ==
    [][ overtake.state = "DISABLED" /\ overtake'.state = "LANE2"
            => shown'.car = OvertakeEnterFrames ]_hvars

=============================================================================
