SPECIFICATION LSpec
CONSTANTS
    ConfirmationFrames = 2
    PoliceConfirmationFrames = 1
    PoliceClearFrames = 2
    LaneReacquireFrames = 2
    LeftTurnTimeoutFrames = 3
    ApproachSec = 1
    WaitTimeoutSec = 1
    HoldSec = 1
PROPERTIES
    SignalTurnEnds
    WaitIsDecided
    GreenFreesTheCar
    BlindTurnEnds
