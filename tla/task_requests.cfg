SPECIFICATION Spec
CONSTANTS
    Unread = Unread
    Today = 3
    Clients = {"terminal", "page"}
    Terminals = {"terminal"}
    Texts = {"chore", "call"}
    Dates = {0, 3}
    Rules <- MCRules
    Priorities = {1, 3}
    FirstLines <- MCFirstLines
    Sessions <- MCSessions
    MaxBatch = 2
INVARIANT TypeOK
PROPERTIES OnlyAskedTextChanges OnlyShownCancelledGoes BatchIsWhole SeriesGoesOn CommandsEnd
CHECK_DEADLOCK FALSE
