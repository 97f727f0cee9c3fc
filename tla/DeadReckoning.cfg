SPECIFICATION Spec
CONSTANTS
    MaxSpeed = 2
    StartTime = 1
    MaxTime = 4
    Depth = 2
INVARIANTS
    TypeOK
    EstimateIsDrivable
PROPERTY
    OdometryEndsAtHandoff
