SPECIFICATION SimSpec
CONSTANTS
    Markets = {m1, m2}
    Sessions = {s1}
    Targets = {1, 2}
    BallRuns = {0, 1}
    MaxBalls = 2
    MaxWickets = 2
    MaxExtraBalls = 1
    MaxDisturbances = 2
INVARIANTS
    SuspendedWillReopen
    WinnerByScore
PROPERTIES
    SettledUnlessFault
