SPECIFICATION Spec
CONSTANTS
    Markets = {m1}
    Loops = {l1, l2}
    Requests = {q1}
    Sessions = {l1, l2, q1}
    Targets = {2}
    BallRuns = {1}
    MaxBalls = 2
    MaxWickets = 1
    MaxExtraBalls = 0
    MaxDisturbances = 1
INVARIANTS
    RegisteredRuns
PROPERTIES
    DrivenMatchEnds
