SPECIFICATION Spec
CONSTANTS
    Unread = Unread
    Today = 3
    Clients = {"terminal", "page"}
    Terminals = {"terminal"}
    Texts = {"chore", "call"}
    Dates = {0, 3}
    Rules <- MCRules
    Priorities = {1, 3}
    FirstLines <- MCFirstLines
    MaxBatch = 1
    Sessions <- ToggleSession
PROPERTY RetryFindsTheTask
CHECK_DEADLOCK FALSE
