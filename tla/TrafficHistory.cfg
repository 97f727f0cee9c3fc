SPECIFICATION HSpec
CONSTANTS
    ConfirmationFrames = 3
    PoliceConfirmationFrames = 2
    PoliceClearFrames = 3
    LaneReacquireFrames = 3
    LeftTurnTimeoutFrames = 5
    ApproachSec = 2
    WaitTimeoutSec = 3
    HoldSec = 2
INVARIANTS
    TypeOK
    PoliceBlocksSignalTurn
    SignalsAreObeyed
    TurnEndsOnTime
PROPERTIES
    ImplementsIntersection
    DeparturesAreConfirmed
    BlindTurnIsLastResort
    SignalTurnEndsOnNewLane
    BlindTurnEndsAfterHold
    NeverStraightAfterHardLeft
    OneStopPerLine
