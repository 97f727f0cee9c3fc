SPECIFICATION LiveSpec
INVARIANTS
    OneDriver
    HandoffAfterGoal
PROPERTIES
    HandoffHappens
    BypassEndsWait
