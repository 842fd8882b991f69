SPECIFICATION Spec
CONSTANTS
    Unread = Unread
    Today = 3
    Clients = {"terminal", "page"}
    Terminals = {"terminal"}
    Texts = {"chore", "call"}
    Dates = {0, 3}
    Rules <- EarlyRules
    Priorities = {1, 3}
    FirstLines <- EarlyLines
    MaxBatch = 1
    Sessions <- ToggleSession
PROPERTY SeriesGoesOn
CHECK_DEADLOCK FALSE
