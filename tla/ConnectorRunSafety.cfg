SPECIFICATION Spec
CONSTANTS
    Sync = {s1, s2}
    Job = {j1, j2}
    MaxRuns = 2
    MaxBatch = 3
    SourceLen = 2
    Faults = {"crash", "stall", "error", "item", "cancel", "budget", "permission"}
    MaxFaults = 1
SYMMETRY Symmetric
INVARIANTS
    TypeOK
    CountedOnce
    CompleteMeansDrained
    ErrorsKept
    NoSilentLoss
PROPERTIES
    EndedStaysEnded
