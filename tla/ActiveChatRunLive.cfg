SPECIFICATION FairSpec
CONSTANTS
    r1 = r1
    r2 = r2
    Proc = {p1, p2}
    Run = {r1}
    Reader = {q1}
    Source <- OneStream
    BatchSize = 2
    Faults = {"error", "crash", "shutdown", "stop", "restore", "delete"}
    MaxFaults = 3
CHECK_DEADLOCK FALSE
INVARIANTS
    LogInOrder
PROPERTIES
    TerminalStays
    ShutdownLeavesNothing
    StopObeyed
    RunsEnd
    ReplayEnds
