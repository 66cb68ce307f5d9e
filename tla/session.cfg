SPECIFICATION Spec
CHECK_DEADLOCK FALSE
CONSTANTS
    Users = {u1, u2}
    Requests = {r1, r2}
    None = None
    MaxTokens = 3
INVARIANTS
    SessionEndsOnlyOnce
PROPERTIES
    EveryRequestEnds
