SPECIFICATION Spec
CONSTANTS
    r1 = r1
    r2 = r2
    r3 = r3
    r4 = r4
    Worker = {w1, w2}
    Row = {r1}
    Exec = {e1, e2}
    Kind <- KindPerm
    LaneCap <- TwoSlots
    MaxAttempts = 2
    Faults <- PermFaults
SYMMETRY Symmetric
INVARIANTS
    LaneWithinCap
PROPERTIES
    HandedBack
