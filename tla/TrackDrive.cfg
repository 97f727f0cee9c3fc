SPECIFICATION LiveSpec
CONSTANTS
    NoImage = NoImage
    SchoolEnterFrames = 2
    SchoolExitFrames = 3
    CheckeredEnterFrames = 2
    CheckeredExitFrames = 2
    StopLineFrames = 2
    OvertakeEnterFrames = 2
    OvertakeLoseFrames = 2
    OvertakeReturnFrames = 2
INVARIANTS
    TypeOK
    SchoolZoneIsCautious
    OvertakeEndsOnTime
    ZonesFollowInTime
    StopLineIsConfirmed
    OvertakesOnce
PROPERTIES
    SchoolZoneIsDebounced
    CheckeredOutlastsFloor
    ZonesFollowRoad
    OvertakeReturns
