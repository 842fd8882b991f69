CONSTANTS
    Boards <- MCBoards
    CardOrder <- MCCards
    NoteOrder <- MCNotes
    TaskOrder <- MCTasks
    NoteOf <- MCNoteOf
    Recurring = {"t2"}
    Links <- MCLinks
    Themes <- MCThemes
    Presets = 2
    Items <- MCItems
    ItemStates <- MCStates
    DueCards = {"c1"}
    Sessions <- StuckSession
SPECIFICATION Spec
INVARIANTS NoScreenStuck
CHECK_DEADLOCK FALSE
