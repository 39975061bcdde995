SPECIFICATION FairSpec
CONSTANTS
    r1 = r1
    r2 = r2
    r3 = r3
    r4 = r4
    Worker = {w1}
    Row = {r1, r2, r3}
    Exec = {e1, e2}
    Kind <- KindMixedTwo
    LaneCap <- OneSlot
    MaxAttempts = 2
    Faults <- OneCrash
PROPERTIES
    EventuallyFinished
    PeriodicForever
