------------------------------ MODULE TuiBase ------------------------------
(***************************************************************************)
(* What the screens of the terminal UI share (internal/tui).  A screen is  *)
(* a record; a handler takes the screen and a message or a key and gives   *)
(* back the screen that replaces it with the commands it starts, as the    *)
(* Update methods of the code do.  A command is a request to the server, a *)
(* message to the program itself, or the start of an editor.               *)
(*                                                                         *)
(* Left out: rendering, status line texts, the "/" search prompts (they    *)
(* move a cursor, which the cursor keys do as well), mouse and window      *)
(* size.                                                                   *)
(***************************************************************************)
EXTENDS Naturals, Sequences, FiniteSets, SequencesExt

CONSTANTS
    Boards,       \* names of the kanban boards
    CardOrder,    \* the cards, in the order a board lists them
    NoteOrder,    \* slugs of the notes, in the order a search lists them
    TaskOrder,    \* the tasks (a slug and a text), in the order of a listing
    NoteOf,       \* the note that holds a task
    Recurring,    \* the tasks that have a recurrence rule
    Links,        \* where the wikilinks of a note lead: a note, or no note
    Themes        \* names of the color themes, in the order of the picker

ThemeNames == ToSet(Themes)

ASSUME TuiConstants ==
    /\ NoteOf \in [Range(TaskOrder) -> Range(NoteOrder)]
    /\ Recurring \subseteq Range(TaskOrder)
    /\ DOMAIN Links = Range(NoteOrder)
    /\ Themes \in Seq(ThemeNames) /\ Len(Themes) > 0
    /\ IsFiniteSet(Boards)
    /\ Boards \cap {"none", "source", "card", "gone"} = {}     \* they stand for no board
    /\ CardOrder \in Seq(Range(CardOrder)) /\ TaskOrder \in Seq(Range(TaskOrder))

Cards == Range(CardOrder)
Notes == Range(NoteOrder)
Tasks == Range(TaskOrder)

\* The lanes of a board, in the order of the screen; the last is the archive.
Columns == <<"triage", "ready", "done">>
DoneColumn == Len(Columns)

\* The members of a set in a given order.  It is SelectSeq in a form that can be
\* reasoned about.
Chosen(order, S) ==
    LET upTo[i \in 0..Len(order)] ==
            IF i = 0 THEN <<>>
            ELSE IF order[i] \in S THEN Append(upTo[i - 1], order[i]) ELSE upTo[i - 1]
    IN  upTo[Len(order)]

\* What a handler returns: the screen and the commands it starts.
Res(v, out) == [view |-> v, out |-> out]
Stay(v) == Res(v, {})

Request(op, about) == [to |-> "server", op |-> op, about |-> about]
Message(op, about) == [to |-> "views", op |-> op, about |-> about]
Push(v) == [to |-> "app", op |-> "push", view |-> v]
Pop == [to |-> "app", op |-> "pop"]
Failed == [to |-> "app", op |-> "error"]
\* ExecProcess: the editor gets the text it was given when the key was hit.
Edit(kind, id, text) == [to |-> "app", op |-> "exec", kind |-> kind, id |-> id, text |-> text]

\* The element of a list under the cursor, as a set of at most one.
Current(rows, cursor) == IF cursor \in DOMAIN rows THEN {rows[cursor]} ELSE {}

\* A list got shorter: the cursor stays where it was, or goes to the last row.
Clamp(cursor, rows) == IF cursor <= Len(rows) THEN cursor ELSE IF rows = <<>> THEN 1 ELSE Len(rows)

Down(cursor, rows) == IF cursor < Len(rows) THEN cursor + 1 ELSE cursor
Up(cursor) == IF cursor > 1 THEN cursor - 1 ELSE cursor

\* A screen that waits for the answer to a command.
Asking(v, out) == Res([v EXCEPT !.busy = TRUE], out)

\* The picker of an agent, opened for what the screen shows: a card, a note or
\* an item of a source.  The answers name it, because every screen gets them.
ListAgents(v, id) == Asking(v, {Request("listAgents", [id |-> id])})
AgentsKey(v, key, ids) ==
    LET shut == [v EXCEPT !.open = @ \ {"agents"}]
    IN  CASE key \in {"esc", "q", "a"} -> {Stay(shut)}
          [] key = "enter" ->
                IF ids = {} THEN {Stay(shut)}
                ELSE {Asking(shut, {Request("promptAgent", [id |-> id])}) : id \in ids}
          [] OTHER -> {}
=============================================================================
