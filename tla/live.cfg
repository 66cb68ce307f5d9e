SPECIFICATION Spec
CONSTANTS
    Sockets = {w1, w2, w3}
    Components = {k1, k2}
    NoSocket = NoSocket
    MaxChanges = 3
    MaxDrops = 2
SYMMETRY Alike
INVARIANTS
    NoGap
    FreshUnlessMissed
    SharesOneSocket
    NeverSilent
