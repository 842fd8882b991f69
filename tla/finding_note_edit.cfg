CONSTANTS
    Boards <- MCBoards
    CardOrder <- MCCards
    NoteOrder <- MCNotes
    TaskOrder <- MCTasks
    NoteOf <- MCNoteOf
    Recurring = {"t2"}
    Links <- MCLinks
    Themes <- MCThemes
    Presets = 2
    Items <- MCItems
    ItemStates <- MCStates
    DueCards = {"c1"}
    Sessions <- NoteEditSession
SPECIFICATION Spec
INVARIANTS NoteEditIsNotBlind
CHECK_DEADLOCK FALSE
