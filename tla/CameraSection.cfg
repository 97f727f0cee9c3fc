SPECIFICATION Spec
CONSTANTS
    Depth = 2
    Frames <- RoadImages
    Sights <- Lamps
    NoImage = NoImage
    SchoolEnterFrames = 1
    SchoolExitFrames = 1
    CheckeredEnterFrames = 2
    CheckeredExitFrames = 1
    StopLineFrames = 1
    OvertakeEnterFrames = 1
    OvertakeLoseFrames = 1
    OvertakeReturnFrames = 1
    ConfirmationFrames = 1
    PoliceConfirmationFrames = 1
    PoliceClearFrames = 1
    LaneReacquireFrames = 1
    LeftTurnTimeoutFrames = 2
    ApproachSec = 0
    WaitTimeoutSec = 0
    HoldSec = 0
INVARIANT NewestIsKept
PROPERTIES
    TurnEndsOffFloor
    LineStopsCar
