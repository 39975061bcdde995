SPECIFICATION Spec
CONSTANTS
    r1 = r1
    r2 = r2
    r3 = r3
    r4 = r4
    Worker = {w1, w2}
    Row = {r1, r2, r3, r4}
    Exec = {e1, e2}
    Kind <- KindMixed
    LaneCap <- OneSlot
    MaxAttempts = 1
    Faults <- CrashAndError
SYMMETRY Symmetric
INVARIANTS
    TypeOK
    OnePeriodicRow
    BatchOutcomeKept
    ChainAlive
PROPERTIES
    ServiceSpec
