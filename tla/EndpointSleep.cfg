SPECIFICATION LiveSpec
CONSTANTS
    Conns = {c1}
    Calls = {k1}
    Messages = {m1}
    Requests = {}
    Workers = 1
    None = None
PROPERTY
    SleepBreaksNothing
