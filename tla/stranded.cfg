SPECIFICATION Spec
CONSTANTS
    alice = alice
    bob = bob
    carol = carol
    home = home
    away = away
    Users = {alice, bob}
    Sessions = {s1, s2}
    Selections = {home, away}
    Winners = {home}
    Keys = {1, 2}
    Requests <- CrossingRequests
    Grant = 10
    MaxInserts = 2
    MaxMarketVersion = 0
INVARIANTS
    SettlementResolvesAll
