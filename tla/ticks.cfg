SPECIFICATION SimSpec
CONSTANTS
    Markets = {m1}
    Sessions = {s1, s2}
    Targets = {2}
    BallRuns = {0, 1}
    MaxBalls = 3
    MaxWickets = 2
    MaxExtraBalls = 0
    MaxDisturbances = 2
INVARIANTS
    FeedReplays
PROPERTIES
    BowledOnlyWhileLive
    SettledMarketIsFinal
