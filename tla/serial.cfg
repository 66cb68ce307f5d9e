SPECIFICATION Spec
CONSTANTS
    alice = alice
    bob = bob
    carol = carol
    home = home
    away = away
    Users = {alice, bob, carol}
    Sessions = {s1}
    Selections = {home, away}
    Winners = {home}
    Keys = {1, 2}
    Requests <- BookRequests
    Grant = 10
    MaxInserts = 4
    MaxMarketVersion = 1
INVARIANTS
    UncrossedBook
    SettlementResolvesAll
PROPERTIES
    BestPriceFirst
    ClickTrades
