--------------------------- MODULE CameraSectionMC ---------------------------
(***************************************************************************)
(* CameraSection for TLC: the images and sights of its run.  The module    *)
(* itself allows any set of either.                                        *)
(***************************************************************************)
EXTENDS CameraSection

AnImage(yellow, floor, stop, yellowCar) ==
    [yellow_dominant |-> yellow, checkered |-> floor, line |-> stop,
     car |-> yellowCar]

\* A plain road, a checkered floor in a school zone, and a yellow car at a line.
RoadImages == {AnImage(FALSE, FALSE, FALSE, FALSE), AnImage(TRUE, TRUE, FALSE, FALSE),
               AnImage(FALSE, FALSE, TRUE, TRUE)}

Lamps == [red : BOOLEAN, green : BOOLEAN, police : {FALSE}]
=============================================================================
