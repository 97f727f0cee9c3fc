SPECIFICATION HSpec
CONSTANTS
    NoImage = NoImage
    SchoolEnterFrames = 2
    SchoolExitFrames = 3
    CheckeredEnterFrames = 2
    CheckeredExitFrames = 3
    StopLineFrames = 2
    OvertakeEnterFrames = 2
    OvertakeLoseFrames = 2
    OvertakeReturnFrames = 2
PROPERTY
    OvertakeIsDebounced
