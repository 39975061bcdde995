SPECIFICATION Spec
CONSTANTS
    Exec = {e1}
    Top = 1
    Doc = {d1}
    Level = {"org"}
    Surface = {"tool"}
    Event = {"update"}
    MaxEvents = 1
CHECK_DEADLOCK FALSE
INVARIANTS
    NewestConfigWins
