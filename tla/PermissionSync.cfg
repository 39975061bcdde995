SPECIFICATION Spec
CONSTANTS
    Exec = {e1, e2}
    Top = 1
    Doc = {d1}
    Level = {"org"}
    Surface = {"rest", "bulk"}
    Event = {"change", "delete", "update", "crash", "stall", "error"}
    MaxEvents = 2
CHECK_DEADLOCK FALSE
SYMMETRY Symmetric
INVARIANTS
    NewestConfigWins
PROPERTIES
    RevocationSticks
