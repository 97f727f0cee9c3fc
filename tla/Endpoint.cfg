SPECIFICATION Spec
CONSTANTS
    Conns = {c1, c2}
    Calls = {k1}
    Messages = {m1}
    Requests = {r1}
    Workers = 1
    None = None
INVARIANTS
    TypeOK
    ThreadsFollow
    CallsAreMatched
PROPERTIES
    LatestKeepsQueue
    ImplementsCalls
SYMMETRY ConnSymmetry
