--------------------------- MODULE TrackLiveness ---------------------------
(***************************************************************************)
(* TrackDrive under the assumption that the camera keeps publishing: the   *)
(* loop of MainLoop.run never stops by itself, and each spin_once takes an *)
(* image if one is waiting.  Nothing is assumed of what the images show.   *)
(***************************************************************************)
EXTENDS TrackHistory

AnyNewImage ==
    \E frame \in Image, left, right \in BOOLEAN : HNewImage(frame, left, right)

LiveSpec == HSpec /\ WF_hvars(AnyNewImage)

Road(yellow) == image # NoImage /\ image.yellow_dominant = yellow

-----------------------------------------------------------------------------
(* Properties.                                                             *)

\* The zone flags follow the road: once every image is yellow the school zone
\* comes on for good, once none is it goes off for good, from any earlier
\* mixture; and once no image shows the floor any more the checkered zone ends,
\* however high its net count had climbed, and the left lane is looked for again.
ZonesFollowRoad ==
    /\ <>[]Road(TRUE) => <>[](school_zone.school_zone_mode)
    /\ <>[]Road(FALSE) => <>[](~school_zone.school_zone_mode)
    /\ <>[](image # NoImage /\ ~image.checkered) => <>[](~checkered_zone.active)

\* An overtaking manoeuvre ends: once the yellow car stays out of view the car
\* does not stay on the right for ever, neither driving there nor waiting.
OvertakeReturns ==
    <>[](image # NoImage /\ ~image.car)
        => <>[](overtake.state \in {"DISABLED", "LANE1"})

=============================================================================
