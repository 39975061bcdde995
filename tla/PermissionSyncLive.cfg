SPECIFICATION FairSpec
CONSTANTS
    Exec = {e1, e2}
    Top = 2
    Doc = {d1}
    Level = {"org"}
    Surface = {"rest", "bulk"}
    Event = {"change", "delete", "update", "crash", "stall", "error"}
    MaxEvents = 1
CHECK_DEADLOCK FALSE
PROPERTIES
    Reconciled
    EventuallySynced
