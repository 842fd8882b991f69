------------------------------- MODULE MCTui -------------------------------
(***************************************************************************)
(* Sessions for the terminal UI: a screen to start from, the keys that     *)
(* matter there, and how much may happen.                                  *)
(***************************************************************************)
EXTENDS Tui

MCBoards == {"A", "B"}
MCCards == <<"c1", "c2">>
MCNotes == <<"n1", "n2">>
MCTasks == <<"t1", "t2">>
MCNoteOf == [t1 |-> "n1", t2 |-> "n2"]
MCLinks == [n1 |-> "n2", n2 |-> "missing"]
MCThemes == <<"dark", "light">>
MCItems == <<"i1", "i2">>
MCStates == <<"new", "closed">>

Session(start, pressed, most, failing, others) ==
    [prompt |-> FALSE, start |-> start, keys |-> pressed, maxKeys |-> most, maxFailures |-> failing, maxOutside |-> others]
\* A card is opened from the focus view, below the tasks, and changed there.
FocusS == Session("today", {"down", "enter", "m", "d", "space", "x", "esc"}, 6, 0, 0)
Prompt(s) == [s EXCEPT !.prompt = TRUE, !.maxFailures = 0, !.maxOutside = 0]

Moves == {"up", "down"}
Sideways == {"left", "right"}

TodayS == Session("today", {"space", "x", "D", "y", "e", "enter", "esc"} \cup Moves, 4, 1, 0)
TasksS == Session("tasks", {"space", "p", "D", "H", "y", "e", "enter"} \cup Moves, 5, 1, 0)
BoardS == Session("board", {"d", "m", "enter", "D", "y", "down", "right"}, 5, 0, 0)
CardS == Session("card", {"enter", "space", "e", "d", "m", "esc"}, 3, 0, 0)
AskS == Session("card", {"enter", "c", "D", "y", "m", "a"}, 4, 0, 0)
BoardsS == Session("boards", {"enter", "r", "+", "esc", "T"} \cup Moves, 5, 0, 0)
NotesS == Session("notes", {"tab", "enter", "slash", "p", "s", "esc", "text"} \cup Moves, 4, 0, 0)
NoteS == Session("note", {"p", "e", "enter", "esc", "t", "space", "tab", "a", "D", "y"} \cup Moves, 4, 1, 1)
BasesS == Session("bases", {"enter", "e", "r", "6"} \cup Moves, 4, 1, 1)
AZS == Session("azBoard", {"enter", "m", "c", "f", "r", "esc"} \cup Moves \cup Sideways, 4, 1, 0)
SourceS == Session("source", {"p", "enter", "c", "0", "r", "esc", "a"} \cup Moves, 5, 1, 0)
AddS == Session("tasks", {"+", "enter", "slash", "esc", "T", "q"} \cup Moves, 6, 0, 0)

\* Every screen, and the lists once more with answers that are handled in time.
MCSessions ==
    {TodayS, TasksS, BoardS, CardS, AskS, BoardsS, NotesS, NoteS, BasesS, AZS, SourceS, AddS}
    \cup {Prompt(s) : s \in {TodayS, FocusS, TasksS, BoardS, CardS, AskS, AddS}}

\* One session for each finding.
FocusSession == {Prompt(Session("today", {"down", "enter", "m"}, 5, 0, 0))}
CardEditSession == {Session("card", {"e", "space"}, 2, 0, 0)}
NoteEditSession == {Session("note", {"e", "t", "space"}, 3, 0, 0)}
StuckSession == {Session("note", {"a", "e", "t", "space"}, 3, 1, 0)}
=============================================================================
