SPECIFICATION HSpec
CONSTANTS
    ConfirmationFrames = 2
    PoliceConfirmationFrames = 2
    PoliceClearFrames = 2
    LaneReacquireFrames = 2
    LeftTurnTimeoutFrames = 4
    ApproachSec = 1
    WaitTimeoutSec = 2
    HoldSec = 1
PROPERTY
    NoSignalSeenDuringWait
