SPECIFICATION FairSpec
CONSTANTS
    Sync = {s1}
    Job = {j1}
    MaxRuns = 2
    MaxBatch = 3
    SourceLen = 1
    Faults = {"crash", "cancel"}
    MaxFaults = 2
PROPERTIES
    RunsEnd
    StatusSettles
    EventuallyEmbedded
