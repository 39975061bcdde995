SPECIFICATION Spec
CONSTANTS
    Trigger = {t1}
    Scoped = {t1}
    Exec = {e1, e2}
    Viewer = {v1}
    MaxRuns = 2
    MaxChats = 2
    MaxTime = 2
    MaxAttempts = 2
    MaxTried = 3
    Faults = {"crash", "error", "stall", "edit", "manual"}
    MaxFaults = 2
CHECK_DEADLOCK FALSE
SYMMETRY Symmetric
INVARIANTS
    FiresOnce
    OneConversation
    NoneLeftRunning
