SPECIFICATION Spec
CONSTANTS
    Conns = {c1}
    Calls = {}
    Messages = {}
    Requests = {r1, r2}
    Workers = 1
    None = None
INVARIANT
    ResponseIsOwn
