------------------------------ MODULE TuiTasks ------------------------------
(***************************************************************************)
(* The task screens of the terminal UI: the query list (tasks.go), the     *)
(* focus view of tasks and cards (today.go), the prompt for a due date and *)
(* a recurrence (dueprompt.go) and the quick-add (addtask.go).             *)
(*                                                                         *)
(* A row holds what a listing said: the task with its status and the       *)
(* version of its file, or a card.  An answer changes rows in place; the   *)
(* version in a row is then stale until the next load.                     *)
(***************************************************************************)
EXTENDS TuiKanban

CONSTANT Presets      \* the queries key "p" cycles through, as numbers 1..Presets

NewTasks ==
    [kind |-> "tasks", rows |-> <<>>, cursor |-> 1, preset |-> 1, busy |-> FALSE, open |-> {},
     target |-> {}]

NewToday ==
    [kind |-> "today", rows |-> <<>>, cursor |-> 1, showDone |-> FALSE, busy |-> FALSE, open |-> {},
     target |-> {}]

\* cursor 0 is the daily note, n > 0 the n-th note found.
NewAddTask ==
    [kind |-> "addTask", step |-> 0, open |-> {}, found |-> <<>>, cursor |-> 0, busy |-> FALSE]

(***************************************************************************)
(* Commands on a task, with what the row says of it.                       *)
(***************************************************************************)
LoadTasks(preset) == Request("listTasks", [preset |-> preset])
LoadToday(showDone) == Request("dueItems", [showDone |-> showDone])

About(row) == [task |-> row.task, status |-> row.status, version |-> row.version]

ToggleTask(row, done) == Request("toggleTask", About(row) @@ [done |-> done])
\* A cancelled task is purged, any other is cancelled.
DeleteTask(row) == Request("deleteTask", About(row) @@ [purge |-> row.status = "cancelled"])
HideFile(row) == Request("hideFile", About(row))
SaveTaskEdit(row) == Request("saveTaskEdit", About(row))

\* The row of a task, whatever the list.
IsTask(row, task) == row.kind = "task" /\ row.task = task
IsCard(row, card) == row.kind = "card" /\ row.card = card

\* The rows a predicate picks, changed in place.
InPlace(rows, Picks(_), Change(_)) ==
    [i \in DOMAIN rows |-> IF Picks(rows[i]) THEN Change(rows[i]) ELSE rows[i]]

Toggled(v, m) ==
    InPlace(v.rows, LAMBDA r : IsTask(r, m.about.task),
            LAMBDA r : [r EXCEPT !.status = IF m.about.done THEN "done" ELSE "open"])

Cancelled(v, m) ==
    InPlace(v.rows, LAMBDA r : IsTask(r, m.about.task), LAMBDA r : [r EXCEPT !.status = "cancelled"])

Archived(v, m) ==
    InPlace(v.rows, LAMBDA r : IsCard(r, m.about.card),
            LAMBDA r : [r EXCEPT !.done = TRUE, !.prev = m.about.prev])

Restored(v, m) ==
    InPlace(v.rows, LAMBDA r : IsCard(r, m.about.card), LAMBDA r : [r EXCEPT !.done = FALSE])

(***************************************************************************)
(* The due prompt: a due date, then a rule; esc in the second step goes    *)
(* back to the first.  An edit that changes nothing is not sent.           *)
(***************************************************************************)
DueKey(v, key) ==
    LET shut == [v EXCEPT !.open = {}]
    IN  CASE key = "esc" -> {Stay([v EXCEPT !.open = IF @ = {"repeat"} THEN {"due"} ELSE {}])}
          [] key = "enter" /\ v.open = {"due"} -> {Stay([v EXCEPT !.open = {"repeat"}])}
          [] key = "enter" /\ v.open = {"repeat"} ->
                {Stay(shut)} \cup {Asking(shut, {SaveTaskEdit(r)}) : r \in v.target}
          [] OTHER -> {}

\* A question, and the row it is about.
Ask(v, prompt, rows) == {Stay([v EXCEPT !.open = {prompt}, !.target = {r}]) : r \in rows}

(***************************************************************************)
(* The task list.                                                          *)
(***************************************************************************)
TasksInit(v) == Asking(v, {LoadTasks(v.preset)})

\* Variant: the answer to a cancellation does not end the wait.
TasksUpdateWaits(v, m) ==
    CASE m.op = "tasksLoaded" ->
            Stay([v EXCEPT !.busy = FALSE, !.rows = m.about.rows, !.cursor = Clamp(@, m.about.rows)])
      [] m.op = "taskToggled" -> Stay([v EXCEPT !.busy = FALSE, !.rows = Toggled(v, m)])
      [] m.op \in {"editSaved", "taskAdded", "fileHidden", "taskPurged"} -> TasksInit(v)
      [] OTHER -> Stay(v)

TasksUpdate(v, m) ==
    CASE m.op = "tasksLoaded" ->
            Stay([v EXCEPT !.busy = FALSE, !.rows = m.about.rows, !.cursor = Clamp(@, m.about.rows)])
      [] m.op = "taskToggled" /\ ~m.about.recurred -> Stay([v EXCEPT !.busy = FALSE, !.rows = Toggled(v, m)])
      [] m.op = "taskCancelled" -> Stay([v EXCEPT !.busy = FALSE, !.rows = Cancelled(v, m)])
      [] \/ m.op = "taskToggled" /\ m.about.recurred
         \/ m.op \in {"editSaved", "taskAdded", "fileHidden", "taskPurged"} -> TasksInit(v)
      [] OTHER -> Stay(v)

TasksPromptKey(v, key) ==
    LET shut == [v EXCEPT !.open = {}]
        do(Cmd(_)) == IF key = "y" THEN {Asking(shut, {Cmd(r)}) : r \in v.target} ELSE {Stay(shut)}
    IN  CASE v.open = {"del"} -> do(DeleteTask)
          [] v.open = {"hide"} -> do(HideFile)
          [] OTHER -> DueKey(v, key)

TasksListKey(v, key) ==
    LET row == Current(v.rows, v.cursor)
    IN  CASE key = "down" -> {Stay([v EXCEPT !.cursor = Down(@, v.rows)])}
          [] key = "up" -> {Stay([v EXCEPT !.cursor = Up(@)])}
          [] key = "r" -> {TasksInit(v)}
          [] key = "e" -> Ask(v, "due", row)
          [] key = "D" -> Ask(v, "del", row)
          [] key = "H" -> Ask(v, "hide", row)
          [] key = "p" -> {TasksInit([v EXCEPT !.preset = (@ % Presets) + 1, !.cursor = 1])}
          [] key = "space" ->
                {Asking(v, {ToggleTask(r, r.status = "open")}) :
                    r \in {r \in row : ~v.busy /\ r.status \in {"open", "done"}}}
          [] OTHER -> {}

TasksKey(v, key) == IF v.open # {} THEN TasksPromptKey(v, key) ELSE TasksListKey(v, key)

(***************************************************************************)
(* The focus view.                                                         *)
(***************************************************************************)
TodayInit(v) == Asking(v, {LoadToday(v.showDone)})

\* Variant: a card that a child saved is not listed again.
TodayUpdateDeaf(v, m) ==
    LET idle == [v EXCEPT !.busy = FALSE]
    IN  CASE m.op = "todayLoaded" -> Stay([idle EXCEPT !.rows = m.about.rows, !.cursor = Clamp(@, m.about.rows)])
          [] m.op = "taskToggled" /\ ~m.about.recurred -> Stay([idle EXCEPT !.rows = Toggled(v, m)])
          [] m.op = "cardArchived" -> Stay([idle EXCEPT !.rows = Archived(v, m)])
          [] m.op = "cardRestored" -> Stay([idle EXCEPT !.rows = Restored(v, m)])
          [] \/ m.op = "taskToggled" /\ m.about.recurred
             \/ m.op \in {"editSaved", "taskAdded", "taskCancelled", "taskPurged", "cardDeleted"} -> TodayInit(v)
          [] OTHER -> Stay(v)

TodayUpdate(v, m) ==
    LET idle == [v EXCEPT !.busy = FALSE]
    IN  CASE m.op = "todayLoaded" -> Stay([idle EXCEPT !.rows = m.about.rows, !.cursor = Clamp(@, m.about.rows)])
          [] m.op = "taskToggled" /\ ~m.about.recurred -> Stay([idle EXCEPT !.rows = Toggled(v, m)])
          [] m.op = "cardArchived" -> Stay([idle EXCEPT !.rows = Archived(v, m)])
          [] m.op = "cardRestored" -> Stay([idle EXCEPT !.rows = Restored(v, m)])
          [] \/ m.op = "taskToggled" /\ m.about.recurred
             \/ m.op \in {"cardSaved", "editSaved", "taskAdded", "taskCancelled", "taskPurged",
                          "cardDeleted"} -> TodayInit(v)
          [] OTHER -> Stay(v)

\* space and d complete the row or bring it back; what is read-only or waits
\* for an answer is left alone.
ToggleRow(v, r) ==
    IF r.kind = "task" THEN ToggleTask(r, r.status # "done")
    ELSE IF r.done THEN Restore(r.board, r.card, IF r.prev \in {"none", "done"} THEN "triage" ELSE r.prev)
    ELSE MoveToLane(r.board, r.card, r.status, "done")

ToggleCurrent(v) ==
    {Asking(v, {ToggleRow(v, r)}) : r \in {r \in Current(v.rows, v.cursor) : ~v.busy}}

TodayPromptKey(v, key) ==
    LET shut == [v EXCEPT !.open = {}]
        delete(r) == IF r.kind = "task" THEN DeleteTask(r) ELSE DeleteCard(r.board, r.card)
    IN  IF v.open # {"del"} THEN DueKey(v, key)
        ELSE IF key = "y" THEN {Asking(shut, {delete(r)}) : r \in v.target} ELSE {Stay(shut)}

TodayListKey(v, key) ==
    LET row == Current(v.rows, v.cursor)
        card == {r \in row : r.kind = "card"}
    IN  CASE key = "down" -> {Stay([v EXCEPT !.cursor = Down(@, v.rows)])}
          [] key = "up" -> {Stay([v EXCEPT !.cursor = Up(@)])}
          [] key = "r" -> {TodayInit(v)}
          [] key = "x" -> {TodayInit([v EXCEPT !.showDone = ~@])}
          [] key \in {"space", "d"} -> ToggleCurrent(v)
          [] key = "enter" -> {Res(v, {Push(NewCard(r.board, r.shown, FALSE))}) : r \in card}
          [] key = "e" ->
                Ask(v, "due", row \ card) \cup {Res(v, {Push(NewCard(r.board, r.shown, TRUE))}) : r \in card}
          [] key = "D" -> Ask(v, "del", row)
          [] OTHER -> {}

TodayKey(v, key) == IF v.open # {} THEN TodayPromptKey(v, key) ELSE TodayListKey(v, key)

(***************************************************************************)
(* The quick-add: the text, then a place for it.  It takes every key.      *)
(***************************************************************************)
AddTaskUpdate(v, m) ==
    CASE m.op = "addTaskResults" ->
            Stay([v EXCEPT !.busy = FALSE, !.found = m.about.found,
                           !.cursor = IF m.about.found # <<>> THEN 1 ELSE @])
      [] m.op = "taskAdded" -> Res([v EXCEPT !.busy = FALSE], {Pop})
      [] OTHER -> Stay(v)

\* Indexing the notes found with a cursor past their end stops the program.
Panic == [to |-> "app", op |-> "panic"]

Submit(v) ==
    IF v.busy THEN Stay(v)
    ELSE IF v.cursor > Len(v.found) THEN Res(v, {Panic})
    ELSE Asking(v, {Request("addTask", [note |-> IF v.cursor = 0 THEN "daily" ELSE v.found[v.cursor]])})

AddTaskKey(v, key) ==
    CASE v.step = 0 ->
            IF key = "esc" THEN {Res(v, {Pop})}
            ELSE IF key = "enter" THEN {Stay([v EXCEPT !.step = 1])} ELSE {}
      [] v.open = {"search"} /\ v.step = 1 ->
            LET shut == [v EXCEPT !.open = {}]
            IN  IF key = "esc" THEN {Stay(shut)}
                ELSE IF key = "enter" THEN {Asking(shut, {Request("searchNotes", [by |-> "addTask"])})} ELSE {}
      [] OTHER ->
            CASE key = "esc" ->
                    {Stay(IF v.cursor # 0 \/ v.found # <<>> THEN [v EXCEPT !.cursor = 0, !.found = <<>>]
                          ELSE [v EXCEPT !.step = 0])}
              [] key = "q" -> {Res(v, {Pop})}
              [] key = "down" -> {Stay([v EXCEPT !.cursor = IF @ < Len(v.found) THEN @ + 1 ELSE @])}
              [] key = "up" -> {Stay([v EXCEPT !.cursor = IF @ > 0 THEN @ - 1 ELSE @])}
              [] key = "slash" -> {Stay([v EXCEPT !.open = {"search"}])}
              [] key = "enter" -> {Submit(v)}
              [] OTHER -> {}
=============================================================================
