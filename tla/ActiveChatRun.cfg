SPECIFICATION Spec
CONSTANTS
    r1 = r1
    r2 = r2
    Proc = {p1, p2}
    Run = {r1, r2}
    Reader = {q1}
    Source <- TwoStreams
    BatchSize = 2
    Faults = {"error", "crash", "shutdown", "stop", "restore", "delete"}
    MaxFaults = 1
CHECK_DEADLOCK FALSE
SYMMETRY Symmetric
INVARIANTS
    TypeOK
    ReplayWhole
