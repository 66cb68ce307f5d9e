SPECIFICATION Spec
CONSTANTS
    alice = alice
    bob = bob
    carol = carol
    home = home
    away = away
    Users = {alice, bob}
    Sessions = {s1, s2}
    Selections = {home, away}
    Winners = {home, away}
    Keys = {1, 2}
    Requests <- SettleRequests
    Grant = 5
    MaxInserts = 3
    MaxMarketVersion = 1
INVARIANTS
    HeldIffPlaced
    OneOrderPerKey
    PaidIffSettled
    SettledConsistently
    MoneyConserved
    WalletIsLedgerSum
    CoveredButForRounding
PROPERTIES
    ImplementsContract
    StepsOnward
SYMMETRY SessionSymmetry
