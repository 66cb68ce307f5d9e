SPECIFICATION Spec
CHECK_DEADLOCK FALSE
CONSTANTS
    england = england
    australia = australia
    ravensburg = ravensburg
    next1 = next1
    rugby = rugby
    Sessions = {s1, s2}
    Fixtures <- DemoFixtures
    Depth = 2
    NewEvents = {next1}
    Emails = {"user"}
    NewSports = {rugby}
    NewTypes = {"TOTAL_RUNS"}
    Cricket = "CRICKET"
    MaxRequests = 3
    MaxFaults = 2
SYMMETRY Alike
INVARIANTS
    AccountsWhole
    SeededUnlessCut
    LiveIsDriven
