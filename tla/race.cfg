SPECIFICATION Spec
CONSTANTS
    alice = alice
    bob = bob
    carol = carol
    home = home
    away = away
    Users = {bob, carol}
    Sessions = {s1, s2, s3}
    Selections = {home, away}
    Winners = {}
    Keys = {1, 2, 3}
    Requests <- RaceRequests
    Grant = 10
    MaxInserts = 4
    MaxMarketVersion = 0
INVARIANTS
    Inv
    RowsCoherent
    ReleaseExact
    BetsAccountForMatched
    PlacementsDoNotDeadlock
PROPERTIES
    TerminalOrders
SYMMETRY SessionSymmetry
