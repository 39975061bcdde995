SPECIFICATION FairSpec
CONSTANTS
    Replica = {p1, p2}
    Call = {c1}
    Nobody = nobody
    Faults <- AnyFault
    MaxFaults = 1
INVARIANTS
    OneFence
PROPERTIES
    NeverUnderCall
    NoOrphan
    CallGetsThrough
    IdleSleeps
