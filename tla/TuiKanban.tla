----------------------------- MODULE TuiKanban -----------------------------
(***************************************************************************)
(* The kanban screens of the terminal UI: the list of boards (boards.go),  *)
(* a board (board.go), a card (card.go, cardedit.go), the picker of a lane *)
(* or of another board (movepicker.go) and the prompt before a deletion    *)
(* (confirm.go).  Every handler is an operator from the screen and what it *)
(* receives to the screen and the commands it starts.                      *)
(***************************************************************************)
EXTENDS TuiBase

(***************************************************************************)
(* Screens when they are opened.                                           *)
(***************************************************************************)
NewBoards == [kind |-> "boards", rows |-> <<>>, cursor |-> 1, busy |-> FALSE, open |-> {}]

NewBoard(name) ==
    [kind |-> "board", name |-> name, cards |-> <<>>, archive |-> <<>>, archiveLoaded |-> FALSE,
     col |-> 1, cursors |-> [i \in DOMAIN Columns |-> 1], busy |-> FALSE, open |-> {},
     picking |-> {}, at |-> "none", deleting |-> "none"]

NewCard(name, card, editing) ==
    [kind |-> "card", name |-> name, card |-> card, pendingEdit |-> editing, busy |-> FALSE,
     open |-> {}, picking |-> {}, at |-> "none"]

(***************************************************************************)
(* The picker: every lane, then every other board.  Choosing the lane the  *)
(* card was in when the picker opened only closes it.                      *)
(***************************************************************************)
MoveOptions(name, boards) == Range(Columns) \cup {b \in boards : b # name}

OpenPicker(v, status, boards) ==
    [v EXCEPT !.open = @ \cup {"picker"}, !.picking = MoveOptions(v.name, boards), !.at = status]

ClosePicker(v) == [v EXCEPT !.open = @ \ {"picker"}, !.picking = {}, !.at = "none"]

(***************************************************************************)
(* Commands of both screens.                                               *)
(***************************************************************************)
LoadBoard(name) == Request("getBoard", [board |-> name])
LoadArchive(name) == Request("listArchive", [board |-> name])
ListBoards(name, card) == Request("listBoards", [board |-> name, card |-> card])
DeleteCard(name, card) == Request("deleteCard", [board |-> name, card |-> card])
MoveToBoard(name, card, dest) ==
    Request("moveCardToBoard", [board |-> name, card |-> card, dest |-> dest])
\* Done is a patch of the status, which archives; another lane is a move.
MoveToLane(name, card, prev, status) ==
    IF status = "done"
    THEN Request("archiveCard", [board |-> name, card |-> card, prev |-> prev])
    ELSE Request("moveCard", [board |-> name, card |-> card, status |-> status])
Restore(name, card, status) ==
    Request("restoreCard", [board |-> name, card |-> card, status |-> status])

(***************************************************************************)
(* The list of boards.                                                     *)
(***************************************************************************)
BoardsInit(v) == Asking(v, {Request("listBoards", [board |-> "none", card |-> "none"])})

BoardsUpdate(v, m) ==
    IF m.op = "boardsLoaded"
    THEN Stay([v EXCEPT !.busy = FALSE, !.rows = m.about.boards, !.cursor = Clamp(@, m.about.boards)])
    ELSE Stay(v)

BoardsKey(v, key) ==
    CASE key = "down" -> {Stay([v EXCEPT !.cursor = Down(@, v.rows)])}
      [] key = "up" -> {Stay([v EXCEPT !.cursor = Up(@)])}
      [] key = "r" -> {BoardsInit(v)}
      [] key = "enter" -> {Res(v, {Push(NewBoard(b))}) : b \in Current(v.rows, v.cursor)}
      [] OTHER -> {}

(***************************************************************************)
(* A board.                                                                *)
(***************************************************************************)
ColumnCards(v, col) ==
    IF col = DoneColumn THEN v.archive
    ELSE SelectSeq(v.cards, LAMBDA c : c.status = Columns[col])

CurrentCard(v) == Current(ColumnCards(v, v.col), v.cursors[v.col])

ClampCursors(v) ==
    [v EXCEPT !.cursors = [i \in DOMAIN Columns |-> Clamp(@[i], ColumnCards(v, i))]]

\* The archive is read only when its column is looked at.
MaybeLoadArchive(v) == IF v.col = DoneColumn /\ ~v.archiveLoaded THEN {LoadArchive(v.name)} ELSE {}

Reload(v) == Asking(v, {LoadBoard(v.name)})

\* The archive changed as well.
ReloadBoth(v) ==
    LET stale == [v EXCEPT !.archiveLoaded = FALSE]
    IN  Asking(stale, {LoadBoard(v.name)} \cup MaybeLoadArchive(stale))

BoardLoaded(v, m) ==
    IF m.about.board # v.name THEN Stay(v)
    ELSE Stay(ClampCursors([v EXCEPT !.busy = FALSE, !.cards = m.about.cards]))

ArchiveLoaded(v, m) ==
    IF m.about.board # v.name THEN Stay(v)
    ELSE Stay(ClampCursors([v EXCEPT !.busy = FALSE, !.archiveLoaded = TRUE, !.archive = m.about.cards]))

\* The list of boards for the picker: it opens only if its card is still the
\* one under the cursor.
BoardPicker(v, m) ==
    LET idle == [v EXCEPT !.busy = FALSE]
    IN  IF m.about.board # v.name THEN Stay(v)
        ELSE IF \A c \in CurrentCard(v) : c.id # m.about.card THEN Stay(idle)
        ELSE Stay(OpenPicker(idle, (CHOOSE c \in CurrentCard(v) : TRUE).status, m.about.boards))

BoardUpdate(v, m) ==
    CASE m.op = "boardLoaded" -> BoardLoaded(v, m)
      [] m.op = "archiveLoaded" -> ArchiveLoaded(v, m)
      [] m.op = "boardMovePicker" -> BoardPicker(v, m)
      [] m.op = "cardSaved" -> Reload(v)
      [] m.op = "cardCreated" /\ m.about.board = v.name -> Reload(v)
      [] m.op = "cardMovedBoard" /\ v.name \in {m.about.board, m.about.dest} -> Reload(v)
      [] m.op \in {"cardArchived", "cardRestored", "cardDeleted"} /\ m.about.board = v.name ->
            ReloadBoth(v)
      [] OTHER -> Stay(v)

\* The card under the cursor now goes to a lane, to the archive or back.
MoveCurrent(v, status) ==
    {Asking(v, {IF v.col = DoneColumn
                THEN Restore(v.name, c.id, status)
                ELSE MoveToLane(v.name, c.id, c.status, status)}) :
        c \in {c \in CurrentCard(v) : ~v.busy /\ c.status # status}}

MoveCurrentToBoard(v, dest) ==
    {Asking(v, {MoveToBoard(v.name, c.id, dest)}) :
        c \in {c \in CurrentCard(v) : ~v.busy /\ v.col # DoneColumn}}

OrStay(v, results) == IF results = {} THEN {Stay(v)} ELSE results

BoardPick(v) ==
    {Stay(ClosePicker(v))} \cup
    UNION {OrStay(ClosePicker(v), IF o \in Boards THEN MoveCurrentToBoard(ClosePicker(v), o)
                                  ELSE MoveCurrent(ClosePicker(v), o)) : o \in v.picking \ {v.at}}

NewCardStatus(v) == IF v.col = DoneColumn THEN "triage" ELSE Columns[v.col]

\* The keys while a prompt is open, in the order the code asks for them.
BoardPromptKey(v, key) ==
    CASE "picker" \in v.open -> IF key = "enter" THEN BoardPick(v) ELSE {}
      [] "adding" \in v.open /\ "picker" \notin v.open ->
            LET shut == [v EXCEPT !.open = @ \ {"adding"}]
                create == Request("createCard", [board |-> v.name, status |-> NewCardStatus(v)])
            IN  IF key = "esc" THEN {Stay(shut)}
                ELSE IF key = "enter" THEN {Asking(shut, {create})} ELSE {}
      [] OTHER ->
            LET shut == [v EXCEPT !.open = @ \ {"del"}]
            IN  IF key = "y" THEN {Asking(shut, {DeleteCard(v.name, v.deleting)})} ELSE {Stay(shut)}

BoardListKey(v, key) ==
    CASE key = "left" /\ v.col > 1 -> {Stay([v EXCEPT !.col = @ - 1])}
      [] key = "right" /\ v.col < DoneColumn ->
            LET w == [v EXCEPT !.col = @ + 1]
            IN  {Res([w EXCEPT !.busy = @ \/ MaybeLoadArchive(w) # {}], MaybeLoadArchive(w))}
      [] key = "down" -> {Stay([v EXCEPT !.cursors[v.col] = Down(@, ColumnCards(v, v.col))])}
      [] key = "up" -> {Stay([v EXCEPT !.cursors[v.col] = Up(@)])}
      [] key = "r" -> {ReloadBoth(v)}
      [] key = "enter" -> {Res(v, {Push(NewCard(v.name, c, FALSE))}) : c \in CurrentCard(v)}
      [] key = "e" /\ v.col # DoneColumn ->
            {Res(v, {Push(NewCard(v.name, c, TRUE))}) : c \in CurrentCard(v)}
      [] key = "D" ->
            {Stay([v EXCEPT !.open = @ \cup {"del"}, !.deleting = c.id]) : c \in CurrentCard(v)}
      [] key = "+" -> {Stay([v EXCEPT !.open = @ \cup {"adding"}])}
      [] key = "d" -> MoveCurrent(v, "done")
      [] key = "m" -> {Asking(v, {ListBoards(v.name, c.id)}) : c \in CurrentCard(v)}
      [] OTHER -> {}

BoardKey(v, key) == IF v.open # {} THEN BoardPromptKey(v, key) ELSE BoardListKey(v, key)

(***************************************************************************)
(* A card.                                                                 *)
(***************************************************************************)
\* The document of an editor: every field of the card (serializeCardEdit).
EditCard(v) == Edit("card", v.card.id, v.card)

CardInit(v) ==
    IF v.pendingEdit THEN Res([v EXCEPT !.pendingEdit = FALSE], {EditCard(v)}) ELSE Stay(v)

\* parseCardEdit: the fields that differ from the card the screen holds now.
Fields == {"title", "body", "status"}
Patch(text, card) == {f \in Fields : text[f] # card[f]}

\* The file of the editor comes back; an edit that changes nothing is dropped.
EditorDone(v, m) ==
    LET patch == Patch(m.about.text, v.card)
    IN  IF m.about.card # v.card.id \/ patch = {} THEN Stay(v)
        ELSE Asking(v, {Request("patchCard",
                 [board |-> v.name, card |-> v.card.id, prev |-> v.card.status,
                  patch |-> [f \in patch |-> m.about.text[f]], touched |-> m.about.touched])})

CardUpdate(v, m) ==
    LET idle == [v EXCEPT !.busy = FALSE]
        mine == "card" \in DOMAIN m.about /\ m.about.card = v.card.id
    IN  CASE m.op = "editorDone" -> EditorDone(v, m)
          [] m.op = "cardSaved" ->
                IF ~mine THEN Stay(idle)
                ELSE Res([idle EXCEPT !.card = m.about.saved],
                         IF m.about.saved.status = "done" /\ v.card.status # "done" THEN {Pop} ELSE {})
          [] m.op \in {"cardArchived", "cardMovedBoard", "cardDeleted"} ->
                Res(idle, IF mine THEN {Pop} ELSE {})
          [] m.op = "agentsListed" /\ m.about.id = v.card.id -> Stay([idle EXCEPT !.open = @ \cup {"agents"}])
          [] m.op = "agentPromptSent" /\ m.about.id = v.card.id -> Stay(idle)
          [] m.op = "cardMovePicker" /\ mine -> Stay(OpenPicker(idle, v.card.status, m.about.boards))
          [] OTHER -> Stay(v)

MoveSelf(v, status) ==
    IF v.busy \/ v.card.status = status THEN {Stay(v)}
    ELSE {Asking(v, {MoveToLane(v.name, v.card.id, v.card.status, status)})}

MoveSelfToBoard(v, dest) ==
    IF v.busy THEN {Stay(v)} ELSE {Asking(v, {MoveToBoard(v.name, v.card.id, dest)})}

CardPick(v) ==
    {Stay(ClosePicker(v))} \cup
    UNION {IF o \in Boards THEN MoveSelfToBoard(ClosePicker(v), o) ELSE MoveSelf(ClosePicker(v), o) :
              o \in v.picking \ {v.at}}

\* Of the prompts the comment comes first, then the lanes, the agents and the deletion.
CardPromptKey(v, key) ==
    CASE "comment" \in v.open ->
            LET shut == [v EXCEPT !.open = @ \ {"comment"}]
                post == Request("addComment", [board |-> v.name, card |-> v.card.id])
            IN  IF key = "esc" THEN {Stay(shut)}
                ELSE IF key = "enter" THEN {Asking(shut, {post})} ELSE {}
      [] "picker" \in v.open /\ "comment" \notin v.open -> IF key = "enter" THEN CardPick(v) ELSE {}
      [] v.open \cap {"comment", "picker", "agents"} = {"agents"} -> AgentsKey(v, key, {v.card.id})
      [] OTHER ->
            LET shut == [v EXCEPT !.open = @ \ {"del"}]
            IN  IF key = "y" THEN {Asking(shut, {DeleteCard(v.name, v.card.id)})} ELSE {Stay(shut)}

\* space on a checkbox sends the line the screen shows; toggleCmd looks for it
\* in the description the server has by then.
CardPageKey(v, key) ==
    CASE key = "space" /\ ~v.busy ->
            {Asking(v, {Request("toggleBox", [board |-> v.name, card |-> v.card.id, line |-> v.card.body])})}
      [] key = "d" -> MoveSelf(v, "done")
      [] key = "D" -> {Stay([v EXCEPT !.open = @ \cup {"del"}])}
      [] key = "m" /\ ~v.busy ->
            {Asking(v, {Request("listBoards", [board |-> "card", card |-> v.card.id])})}
      [] key = "e" /\ ~v.busy -> {Res(v, {EditCard(v)})}
      [] key = "c" -> {Stay([v EXCEPT !.open = @ \cup {"comment"}])}
      [] key = "a" /\ ~v.busy -> {ListAgents(v, v.card.id)}
      [] OTHER -> {}

CardKey(v, key) == IF v.open # {} THEN CardPromptKey(v, key) ELSE CardPageKey(v, key)
=============================================================================
