----------------------------- MODULE Tui_proofs -----------------------------
(***************************************************************************)
(* The terminal program keeps its types, and whatever the user presses and *)
(* in whatever order the answers come: a property is saved under the       *)
(* version of the value that the editor showed, no list says it is loading *)
(* when nothing is on its way, and the pane of a search shows the note     *)
(* under the cursor.                                                       *)
(*                                                                         *)
(* One invariant (Inv) carries all four: every screen is as its handlers   *)
(* leave it, every command is one the program knows, and a screen that     *)
(* waits has on its way the request, the answer or the error that will end *)
(* its wait, or an error has been shown.  A handler either leaves its      *)
(* screen settled or passes the wait on (Good); an answer ends every wait  *)
(* that its request would have ended (Serves); a message that is broadcast *)
(* settles every screen that it is for (Heard).                            *)
(*                                                                         *)
(* On top of it (Honest): in a prompt session, where nothing failed and    *)
(* only the program changes the server, what the screens show is what the  *)
(* server has.  Every row and every lane either is, or a command on its    *)
(* way will correct it; and every message tells what the server has.  A    *)
(* key leaves what a screen has from the server alone (SameData); what a   *)
(* request does is what its answer says (Effect); a handler takes from a   *)
(* message all that it corrects, or asks again (UpdateOfFine).  What the   *)
(* focus view does not correct, the board of a card that was moved and the *)
(* lane of one that was restored, the server remembers until it lists what *)
(* is due again (Recalls).                                                 *)
(***************************************************************************)
EXTENDS Tui, FiniteSetTheorems, SequenceTheorems, WellFoundedInduction, TLAPS

-----------------------------------------------------------------------------

\* The fields of a screen that a handler decides by, with what they hold; a list
\* of boards has boards in it, a property editor the version it was opened on.
IsScreen(v) ==
    /\ {"kind", "busy", "open"} \subseteq DOMAIN v
    /\ v.kind \in Kinds /\ v.busy \in BOOLEAN
    /\ v.kind \in {"today", "tasks"} => "rows" \in DOMAIN v
    /\ v.kind = "boards" => "rows" \in DOMAIN v /\ \A i \in DOMAIN v.rows : v.rows[i] \in Boards
    /\ v.kind = "board" => {"name", "cards", "archive", "archiveLoaded"} \subseteq DOMAIN v /\ v.name \in Boards
    /\ v.kind = "azBoard" => "mine" \in DOMAIN v
    /\ v.kind = "azItem" => "id" \in DOMAIN v
    /\ v.kind = "note" => /\ {"propVersion", "propSeen"} \subseteq DOMAIN v
                          /\ "prop" \in v.open => v.propVersion = v.propSeen
    /\ v.kind = "notes" => /\ {"layer", "found", "cursor", "rows", "at", "preview"} \subseteq DOMAIN v
                           /\ {"on", "slug", "gen"} \subseteq DOMAIN v.preview
    /\ v.kind = "theme" => /\ {"cursor", "original"} \subseteq DOMAIN v
                           /\ v.cursor \in DOMAIN Themes /\ v.original \in ThemeNames

\* A list that says it is loading; a search whose pane shows another note than
\* the one under the cursor.
Waits(v) ==
    \/ v.kind \in Lists /\ v.busy
    \/ v.kind = "notes" /\ v.layer = "search" /\ v.preview.on /\ ~(Selected(v) \subseteq {v.preview.slug})

\* The requests whose answers end the wait of a screen.
Asks(v, x) ==
    \/ v.kind = "today" /\ x.op \in {"dueItems", "toggleTask", "deleteTask", "saveTaskEdit",
                                     "restoreCard", "archiveCard", "deleteCard"}
    \/ v.kind = "tasks" /\ x.op \in {"listTasks", "toggleTask", "deleteTask", "saveTaskEdit", "hideFile"}
    \/ v.kind = "boards" /\ x.op = "listBoards" /\ x.about.board = "none"
    \/ v.kind = "board" /\ x.op = "moveCard"
    \/ /\ v.kind = "board"
       /\ x.op \in {"getBoard", "listArchive", "listBoards", "createCard", "moveCardToBoard",
                    "deleteCard", "archiveCard", "restoreCard"}
       /\ x.about.board = v.name
    \/ v.kind = "azBoard" /\ x.op \in {"setState", "commentItem"}
    \/ v.kind = "azBoard" /\ x.op = "boardItems" /\ x.about.mine = v.mine
    \/ v.kind = "azItem" /\ x.op \in {"item", "setState", "commentItem"} /\ x.about.item = v.id
    \/ v.kind = "sources" /\ x.op = "health"
    \/ v.kind = "notes" /\ x.op = "previewTick" /\ x.about.gen = v.preview.gen
    \/ v.kind = "notes" /\ x.op = "previewNote" /\ x.about.slug \in Selected(v)

\* The messages that end it, or make the screen ask once more.
Tells(v, x) ==
    \/ v.kind = "today" /\ x.op \in {"todayLoaded", "taskToggled", "taskCancelled", "taskPurged", "editSaved",
                                     "cardRestored", "cardArchived", "cardDeleted"}
    \/ v.kind = "tasks" /\ x.op \in {"tasksLoaded", "taskToggled", "taskCancelled", "taskPurged",
                                     "editSaved", "fileHidden"}
    \/ v.kind = "boards" /\ x.op = "boardsLoaded"
    \/ v.kind = "board" /\ x.op = "cardSaved"
    \/ /\ v.kind = "board"
       /\ x.op \in {"boardLoaded", "archiveLoaded", "boardMovePicker", "cardCreated", "cardMovedBoard",
                    "cardDeleted", "cardArchived", "cardRestored"}
       /\ x.about.board = v.name
    \/ v.kind = "azBoard" /\ x.op \in {"azStateSet", "azCommented"}
    \/ v.kind = "azBoard" /\ x.op = "azItems" /\ x.about.mine = v.mine
    \/ v.kind = "azItem" /\ x.op = "azItem" /\ (x.about.failed \/ x.about.item = v.id)
    \/ v.kind = "azItem" /\ x.op \in {"azStateSet", "azCommented"} /\ x.about.item = v.id
    \/ v.kind = "sources" /\ x.op = "sourcesLoaded"
    \/ v.kind = "notes" /\ x.op = "previewTick" /\ x.about.gen = v.preview.gen
    \/ v.kind = "notes" /\ x.op = "previewLoaded" /\ x.about.slug \in Selected(v)

Frees(v, x) ==
    \/ x.to = "app" /\ x.op = "error"
    \/ x.to = "server" /\ Asks(v, x)
    \/ x.to = "views" /\ Tells(v, x)

\* A screen that is opened over others shows nothing that could be old.
IsNew(v) == v.kind \notin {"today", "tasks"} /\ (v.kind = "board" => v.archiveLoaded = FALSE)

IsCommand(x) ==
    \/ /\ x.to = "server"
       /\ x.op \in TaskOps \cup CardOps \cup NoteOps \cup ReadOps
       /\ x.op = "setProperty" /\ x.about.by = "note" => x.about.version = x.about.seen
       /\ x.op = "moveCardToBoard" => x.about.dest \in Boards
    \/ /\ x.to = "views"
       /\ x.op = "boardsLoaded" => \A i \in DOMAIN x.about.boards : x.about.boards[i] \in Boards
    \/ /\ x.to = "app"
       /\ x.op \in {"push", "pop", "error", "exec"}
       /\ x.op = "push" => IsScreen(x.view) /\ ~Waits(x.view) /\ IsNew(x.view)

\* A screen starts no message itself: those are answers.
Own(x) == IsCommand(x) /\ x.to # "views"

Commands == BagToSet(flight)

\* Every screen and every command is as the handlers leave them, and a screen
\* that waits has an answer on its way, or an error has been shown.
Inv ==
    /\ stack \in Seq(ToSet(stack)) /\ Len(stack) > 0
    /\ \A i \in DOMAIN stack : IsScreen(stack[i])
    /\ IsABag(flight)
    /\ \A x \in Commands : IsCommand(x)
    /\ theme \in ThemeNames
    /\ crashed \in BOOLEAN
    /\ ~told => \A i \in DOMAIN stack : Waits(stack[i]) => \E x \in Commands : Frees(stack[i], x)

\* A screen that goes on waiting for the same answer.
Alike(v, w) ==
    /\ w.kind = v.kind
    /\ v.kind = "board" => w.name = v.name
    /\ v.kind = "azBoard" => w.mine = v.mine
    /\ v.kind = "azItem" => w.id = v.id
    /\ v.kind = "notes" => w.preview.gen = v.preview.gen /\ Selected(w) = Selected(v)

\* What a handler returns: nothing to wait for, or the request with it.
Settled(r) == Waits(r.view) => \E x \in r.out : Frees(r.view, x)

\* A handler keeps its screen in shape, sends what the program knows, and
\* settles its screen or leaves a wait as it was.
Good(v, r) ==
    /\ IsScreen(r.view) /\ r.view.kind = v.kind
    /\ \A x \in r.out : Own(x) \/ x = Panic
    /\ Settled(r) \/ (Waits(v) /\ Alike(v, r.view))

\* A screen that a message is for is settled by it.
Heard(v, m, r) == Good(v, r) /\ (m.to = "views" /\ Tells(v, m) => Settled(r))

-----------------------------------------------------------------------------
(***************************************************************************)
(* The kinds of screen of which IsScreen asks no more than that fields     *)
(* stay: a handler that keeps them keeps the screen a screen.              *)
(***************************************************************************)
Plain == Kinds \ {"note", "notes", "theme"}

Shape(v, w) ==
    /\ DOMAIN w = DOMAIN v
    /\ w.kind = v.kind
    /\ w.busy \in BOOLEAN
    /\ v.kind = "boards" => w.rows = v.rows
    /\ v.kind = "board" => w.name = v.name
    /\ v.kind = "azItem" => w.id = v.id

\* The requests that carry no version.
Requests == (TaskOps \cup CardOps \cup NoteOps \cup ReadOps) \ {"setProperty", "moveCardToBoard"}

AreCommands(out) == \A x \in out : Own(x) \/ x = Panic

LEMMA ShapeScreen ==
  ASSUME NEW v, IsScreen(v), v.kind \in Plain, NEW w, Shape(v, w)
  PROVE  IsScreen(w)
  BY DEF IsScreen, Shape, Plain, Kinds

LEMMA ShapeRefl ==
  ASSUME NEW v, IsScreen(v)
  PROVE  Shape(v, v) /\ Alike(v, v)
  BY DEF Shape, IsScreen, Alike

LEMMA AlikeFrees ==
  ASSUME NEW v, NEW w, Alike(v, w), NEW x, Frees(v, x)
  PROVE  Frees(w, x)
  BY DEF Alike, Frees, Asks, Tells

LEMMA PlainWaits ==
  ASSUME NEW v, v.kind \in Plain
  PROVE  Waits(v) <=> v.kind \in Lists /\ v.busy
  BY DEF Waits, Plain

LEMMA Idle ==
  ASSUME NEW v, IsScreen(v), v.kind \in Plain, NEW w, Shape(v, w), w.busy = FALSE,
         NEW out, AreCommands(out)
  PROVE  Good(v, Res(w, out)) /\ Settled(Res(w, out))
  BY ShapeScreen, PlainWaits DEF Good, Settled, Res, AreCommands, Shape

LEMMA Kept ==
  ASSUME NEW v, IsScreen(v), v.kind \in Plain, NEW w, Shape(v, w), w.busy = v.busy,
         v.kind = "azBoard" => w.mine = v.mine,
         NEW out, AreCommands(out)
  PROVE  Good(v, Res(w, out))
  <1>1. IsScreen(w) /\ Alike(v, w) /\ (Waits(w) => Waits(v))
    BY ShapeScreen, PlainWaits DEF Shape, Alike, Plain
  <1>2. QED
    BY <1>1 DEF Good, Settled, Res, AreCommands, Shape

LEMMA Asked ==
  ASSUME NEW v, IsScreen(v), v.kind \in Plain, NEW w, Shape(v, w),
         NEW out, AreCommands(out),
         v.kind \in Lists => \E x \in out : x.to = "server" /\ Asks(w, x)
  PROVE  Good(v, Asking(w, out)) /\ Settled(Asking(w, out))
  <1> DEFINE u == [w EXCEPT !.busy = TRUE]
  <1>1. DOMAIN u = DOMAIN w /\ u.kind = w.kind /\ u.busy = TRUE
        /\ (v.kind = "boards" => u.rows = w.rows)
        /\ (v.kind = "board" => u.name = w.name)
        /\ (v.kind = "azItem" => u.id = w.id)
        /\ (v.kind = "azBoard" => u.mine = w.mine)
    BY DEF Shape, IsScreen
  <1>2. Asking(w, out) = Res(u, out)
    BY DEF Asking
  <1> HIDE DEF u
  <1>3. Shape(v, u) /\ Alike(w, u)
    BY <1>1 DEF Shape, Alike, Plain
  <1>4. IsScreen(u)
    BY <1>3, ShapeScreen
  <1>5. v.kind \in Lists => \E x \in out : Frees(u, x)
    BY <1>3, AlikeFrees DEF Frees
  <1>6. Waits(u) => v.kind \in Lists
    BY <1>3, PlainWaits DEF Shape
  <1>7. QED
    BY <1>2, <1>3, <1>4, <1>5, <1>6 DEF Good, Settled, Res, AreCommands, Shape

Sent(x, op) == IsCommand(x) /\ x.to = "server" /\ x.op = op

LEMMA RequestSent ==
  \A op \in Requests : \A about : Sent(Request(op, about), op) /\ Request(op, about).about = about
  BY DEF Request, Requests, IsCommand, Sent, Own

LEMMA RequestOwn ==
  \A op \in Requests : \A about : Own(Request(op, about))
  BY RequestSent DEF Sent, Own

LEMMA OneCommand == \A x : Own(x) => AreCommands({x})
  BY DEF AreCommands, Own
LEMMA NoCommand == AreCommands({})
  BY DEF AreCommands, Own

-----------------------------------------------------------------------------
(***************************************************************************)
(* The tasks: every answer ends the wait, and only a request begins one.   *)
(***************************************************************************)
LEMMA TaskCommands ==
  ASSUME NEW row
  PROVE  /\ \A d : Sent(ToggleTask(row, d), "toggleTask")
         /\ Sent(DeleteTask(row), "deleteTask")
         /\ Sent(HideFile(row), "hideFile")
         /\ Sent(SaveTaskEdit(row), "saveTaskEdit")
  <1>1. {"toggleTask", "deleteTask", "hideFile", "saveTaskEdit"} \subseteq Requests
    BY DEF Requests, TaskOps
  <1>2. QED
    BY <1>1, RequestSent DEF ToggleTask, DeleteTask, HideFile, SaveTaskEdit

LEMMA TasksInitGood ==
  ASSUME NEW v, IsScreen(v), v.kind = "tasks", NEW w, Shape(v, w)
  PROVE  Good(v, TasksInit(w)) /\ Settled(TasksInit(w))
  <1> DEFINE x == LoadTasks(w.preset)
  <1>1. Sent(x, "listTasks")
    BY RequestSent DEF LoadTasks, Requests, ReadOps
  <1>2. Asks(w, x) /\ AreCommands({x})
    BY <1>1, OneCommand DEF Asks, Shape, Sent, Own
  <1> HIDE DEF x
  <1>3. QED
    BY <1>1, <1>2, Asked DEF TasksInit, x, Sent, Plain, Kinds, Own

LEMMA TasksUpdateGood ==
  ASSUME NEW v, IsScreen(v), v.kind = "tasks", NEW m
  PROVE  Heard(v, m, TasksUpdate(v, m))
  <1> DEFINE done(w) == Shape(v, w) /\ w.busy = FALSE
             r == TasksUpdate(v, m)
  <1>1. \/ r = TasksInit(v)
        \/ r = Stay(v) /\ ~Tells(v, m)
        \/ r = Stay([v EXCEPT !.busy = FALSE, !.rows = Cancelled(v, m)])
        \/ r = Stay([v EXCEPT !.busy = FALSE, !.rows = Toggled(v, m)])
        \/ r = Stay([v EXCEPT !.busy = FALSE, !.rows = m.about.rows, !.cursor = Clamp(@, m.about.rows)])
    BY DEF TasksUpdate, Tells
  <1>2. /\ done([v EXCEPT !.busy = FALSE, !.rows = Cancelled(v, m)])
        /\ done([v EXCEPT !.busy = FALSE, !.rows = Toggled(v, m)])
        /\ done([v EXCEPT !.busy = FALSE, !.rows = m.about.rows, !.cursor = Clamp(@, m.about.rows)])
    BY DEF IsScreen, Shape
  <1>3. \A w : done(w) => Good(v, Stay(w)) /\ Settled(Stay(w))
    BY Idle, NoCommand DEF Stay, Plain, Kinds
  <1>4. Good(v, Stay(v))
    BY Kept, NoCommand, ShapeRefl DEF Stay, Plain, Kinds
  <1>5. Good(v, TasksInit(v)) /\ Settled(TasksInit(v))
    BY TasksInitGood, ShapeRefl
  <1> HIDE DEF done
  <1>6. QED
    BY <1>1, <1>2, <1>3, <1>4, <1>5 DEF Heard

LEMMA AskGood ==
  ASSUME NEW v, IsScreen(v), v.kind \in Plain, NEW prompt, NEW rows, NEW r \in Ask(v, prompt, rows)
  PROVE  Good(v, r)
  <1> PICK q \in rows : r = Stay([v EXCEPT !.open = {prompt}, !.target = {q}])
    BY DEF Ask
  <1> DEFINE w == [v EXCEPT !.open = {prompt}, !.target = {q}]
  <1>1. Shape(v, w) /\ w.busy = v.busy /\ (v.kind = "azBoard" => w.mine = v.mine)
    BY DEF IsScreen, Shape
  <1> HIDE DEF w
  <1>2. Good(v, Res(w, {}))
    BY <1>1, Kept, NoCommand
  <1>3. QED
    BY <1>2 DEF Stay, w

LEMMA TaskAsked ==
  ASSUME NEW v, IsScreen(v), v.kind \in {"tasks", "today"}, NEW w, Shape(v, w), NEW row, NEW x, 
         \/ \E d : x = ToggleTask(row, d)
         \/ x \in {DeleteTask(row), SaveTaskEdit(row)}
         \/ v.kind = "tasks" /\ x = HideFile(row)
  PROVE  Good(v, Asking(w, {x}))
  <1>1. IsCommand(x) /\ x.to = "server"
    BY TaskCommands DEF Sent, Own
  <1>2. Asks(w, x)
    BY TaskCommands DEF Asks, Shape, Sent, Own
  <1>3. QED
    BY <1>1, <1>2, OneCommand, Asked DEF Plain, Kinds, Own

LEMMA DueKeyGood ==
  ASSUME NEW v, IsScreen(v), v.kind \in {"tasks", "today"}, NEW key, NEW r \in DueKey(v, key)
  PROVE  Good(v, r)
  <1> DEFINE shut == [v EXCEPT !.open = {}]
             back == [v EXCEPT !.open = IF @ = {"repeat"} THEN {"due"} ELSE {}]
             rule == [v EXCEPT !.open = {"repeat"}]
             kept(w) == Shape(v, w) /\ w.busy = v.busy
  <1>1. \/ r = Stay(back)
        \/ r = Stay(rule)
        \/ r = Stay(shut)
        \/ \E q \in v.target : r = Asking(shut, {SaveTaskEdit(q)})
    BY DEF DueKey
  <1>2. kept(shut) /\ kept(back) /\ kept(rule)
    BY DEF IsScreen, Shape
  <1> HIDE DEF shut, back, rule
  <1>3. \A w : kept(w) => Good(v, Stay(w))
    BY Kept, NoCommand DEF Stay, Plain, Kinds
  <1>4. \A q : Good(v, Asking(shut, {SaveTaskEdit(q)}))
    BY <1>2, TaskAsked
  <1> HIDE DEF kept
  <1>5. QED
    BY <1>1, <1>2, <1>3, <1>4

LEMMA TasksKeyGood ==
  ASSUME NEW v, IsScreen(v), v.kind = "tasks", NEW key, NEW r \in TasksKey(v, key)
  PROVE  Good(v, r)
  <1> DEFINE shut == [v EXCEPT !.open = {}]
             down == [v EXCEPT !.cursor = Down(@, v.rows)]
             up == [v EXCEPT !.cursor = Up(@)]
             next == [v EXCEPT !.preset = (@ % Presets) + 1, !.cursor = 1]
             kept(w) == Shape(v, w) /\ w.busy = v.busy
  <1>1. /\ kept(shut) /\ kept(down) /\ kept(up) /\ kept(next) /\ kept(v)
    BY DEF IsScreen, Shape
  <1>2. CASE v.open # {}
    <2>1. \/ r = Stay(shut)
          \/ \E q \in v.target : r \in {Asking(shut, {DeleteTask(q)}), Asking(shut, {HideFile(q)})}
          \/ r \in DueKey(v, key)
      BY <1>2 DEF TasksKey, TasksPromptKey
    <2>2. Good(v, Stay(shut))
      <3> HIDE DEF shut
      <3>1. QED
        BY <1>1, Kept, NoCommand DEF Stay, Plain, Kinds
    <2>3. \A q : Good(v, Asking(shut, {DeleteTask(q)})) /\ Good(v, Asking(shut, {HideFile(q)}))
      BY <1>1, TaskAsked
    <2>4. QED
      BY <2>1, <2>2, <2>3, DueKeyGood
  <1>3. CASE v.open = {}
    <2> DEFINE row == Current(v.rows, v.cursor)
    <2>1. \/ r = Stay(down) \/ r = Stay(up) \/ r = TasksInit(v) \/ r = TasksInit(next)
          \/ r \in Ask(v, "due", row) \/ r \in Ask(v, "del", row) \/ r \in Ask(v, "hide", row)
          \/ \E q : r = Asking(v, {ToggleTask(q, q.status = "open")})
      BY <1>3 DEF TasksKey, TasksListKey
    <2> HIDE DEF down, up, next
    <2>2. Good(v, Stay(down)) /\ Good(v, Stay(up))
      BY <1>1, Kept, NoCommand DEF Stay, Plain, Kinds
    <2>3. Good(v, TasksInit(v)) /\ Good(v, TasksInit(next))
      BY <1>1, TasksInitGood
    <2>4. \A q : Good(v, Asking(v, {ToggleTask(q, q.status = "open")}))
      BY <1>1, TaskAsked
    <2>5. v.kind \in Plain
      BY DEF Plain, Kinds
    <2>6. QED
      BY <2>1, <2>2, <2>3, <2>4, <2>5, AskGood
  <1>4. QED
    BY <1>2, <1>3

-----------------------------------------------------------------------------
(***************************************************************************)
(* Today: tasks and the cards that are due.                                *)
(***************************************************************************)
LEMMA TodayInitGood ==
  ASSUME NEW v, IsScreen(v), v.kind = "today", NEW w, Shape(v, w)
  PROVE  Good(v, TodayInit(w)) /\ Settled(TodayInit(w))
  <1> DEFINE x == LoadToday(w.showDone)
  <1>1. Sent(x, "dueItems")
    BY RequestSent DEF LoadToday, Requests, ReadOps
  <1>2. Asks(w, x) /\ AreCommands({x})
    BY <1>1, OneCommand DEF Asks, Shape, Sent, Own
  <1> HIDE DEF x
  <1>3. QED
    BY <1>1, <1>2, Asked DEF TodayInit, x, Sent, Plain, Kinds, Own

LEMMA TodayUpdateGood ==
  ASSUME NEW v, IsScreen(v), v.kind = "today", NEW m
  PROVE  Heard(v, m, TodayUpdate(v, m))
  <1> DEFINE done(w) == Shape(v, w) /\ w.busy = FALSE
             idle == [v EXCEPT !.busy = FALSE]
             r == TodayUpdate(v, m)
  <1>1. \/ r = TodayInit(v)
        \/ r = Stay(v) /\ ~Tells(v, m)
        \/ r = Stay([idle EXCEPT !.rows = Toggled(v, m)])
        \/ r = Stay([idle EXCEPT !.rows = Archived(v, m)])
        \/ r = Stay([idle EXCEPT !.rows = Restored(v, m)])
        \/ r = Stay([idle EXCEPT !.rows = m.about.rows, !.cursor = Clamp(@, m.about.rows)])
    BY DEF TodayUpdate, Tells
  <1>2. done(idle)
    BY DEF IsScreen, Shape
  <1>3. /\ done([idle EXCEPT !.rows = Toggled(v, m)])
        /\ done([idle EXCEPT !.rows = Archived(v, m)])
        /\ done([idle EXCEPT !.rows = Restored(v, m)])
        /\ done([idle EXCEPT !.rows = m.about.rows, !.cursor = Clamp(@, m.about.rows)])
    <2> HIDE DEF idle
    <2>1. QED
      BY <1>2 DEF IsScreen, Shape
  <1>4. \A w : done(w) => Good(v, Stay(w)) /\ Settled(Stay(w))
    BY Idle, NoCommand DEF Stay, Plain, Kinds
  <1>5. Good(v, Stay(v))
    BY Kept, NoCommand, ShapeRefl DEF Stay, Plain, Kinds
  <1>6. Good(v, TodayInit(v)) /\ Settled(TodayInit(v))
    BY TodayInitGood, ShapeRefl
  <1> HIDE DEF done
  <1>7. QED
    BY <1>1, <1>3, <1>4, <1>5, <1>6 DEF Heard

\* A card that is pushed is a screen that does not wait.
LEMMA PushedCard ==
  ASSUME NEW name, NEW card, NEW editing
  PROVE  Own(Push(NewCard(name, card, editing)))
  <1> DEFINE v == NewCard(name, card, editing)
  <1>1. IsScreen(v) /\ ~Waits(v) /\ IsNew(v)
    BY DEF NewCard, IsScreen, Waits, Lists, Kinds, IsNew
  <1>2. QED
    BY <1>1 DEF Push, IsCommand, Own

LEMMA CardCommands ==
  /\ \A name, card : LET x == DeleteCard(name, card) IN Sent(x, "deleteCard") /\ x.about.board = name
  /\ \A name, card, prev, status :
        LET x == MoveToLane(name, card, prev, status)
        IN  \/ status # "done" /\ Sent(x, "moveCard")
            \/ status = "done" /\ Sent(x, "archiveCard") /\ x.about.board = name
  /\ \A name, card, status : LET x == Restore(name, card, status) IN Sent(x, "restoreCard") /\ x.about.board = name
  /\ \A name, card : \A dest \in Boards :
        LET x == MoveToBoard(name, card, dest) IN Sent(x, "moveCardToBoard") /\ x.about.board = name
  <1>1. {"deleteCard", "moveCard", "archiveCard", "restoreCard"} \subseteq Requests
    BY DEF Requests, CardOps
  <1>2. \A name, card : \A dest \in Boards :
           LET x == MoveToBoard(name, card, dest) IN Sent(x, "moveCardToBoard") /\ x.about.board = name
    BY DEF MoveToBoard, Request, Sent, IsCommand, CardOps, Own
  <1>3. QED
    BY <1>1, <1>2, RequestSent DEF DeleteCard, MoveToLane, Restore

LEMMA TodayKeyGood ==
  ASSUME NEW v, IsScreen(v), v.kind = "today", NEW key, NEW r \in TodayKey(v, key)
  PROVE  Good(v, r)
  <1> DEFINE shut == [v EXCEPT !.open = {}]
             down == [v EXCEPT !.cursor = Down(@, v.rows)]
             up == [v EXCEPT !.cursor = Up(@)]
             other == [v EXCEPT !.showDone = ~@]
             kept(w) == Shape(v, w) /\ w.busy = v.busy
  <1>1. /\ kept(shut) /\ kept(down) /\ kept(up) /\ kept(other) /\ kept(v)
    BY DEF IsScreen, Shape
  <1>2. v.kind \in Plain /\ v.kind \in {"tasks", "today"}
    BY DEF Plain, Kinds
  <1>3. \A w, x : Shape(v, w) /\ (\E op \in {"toggleTask", "deleteTask", "deleteCard", "restoreCard", "archiveCard"} : Sent(x, op))
                  => Good(v, Asking(w, {x}))
    <2> SUFFICES ASSUME NEW w, NEW x, Shape(v, w), NEW op \in {"toggleTask", "deleteTask", "deleteCard", "restoreCard", "archiveCard"}, Sent(x, op)
                 PROVE  Good(v, Asking(w, {x}))
      OBVIOUS
    <2>1. Asks(w, x) /\ AreCommands({x})
      BY OneCommand DEF Asks, Shape, Sent, Own
    <2>2. QED
      BY <1>2, <2>1, Asked DEF Sent, Own
  <1>4. CASE v.open # {}
    <2> DEFINE delete(q) == IF q.kind = "task" THEN DeleteTask(q) ELSE DeleteCard(q.board, q.card)
    <2>1. \/ r = Stay(shut)
          \/ \E q \in v.target : r = Asking(shut, {delete(q)})
          \/ r \in DueKey(v, key)
      BY <1>4 DEF TodayKey, TodayPromptKey
    <2> HIDE DEF shut
    <2>2. Good(v, Stay(shut))
      BY <1>1, <1>2, Kept, NoCommand DEF Stay
    <2>3. \A q : Good(v, Asking(shut, {delete(q)}))
      BY <1>1, <1>3, TaskCommands, CardCommands
    <2>4. QED
      BY <1>2, <2>1, <2>2, <2>3, DueKeyGood
  <1>5. CASE v.open = {}
    <2> DEFINE row == Current(v.rows, v.cursor)
               card == {q \in row : q.kind = "card"}
    <2>1. \/ r = Stay(down) \/ r = Stay(up) \/ r = TodayInit(v) \/ r = TodayInit(other)
          \/ r \in Ask(v, "due", row \ card) \/ r \in Ask(v, "del", row)
          \/ r \in ToggleCurrent(v)
          \/ \E q, e : r = Res(v, {Push(NewCard(q.board, q.shown, e))})
      BY <1>5 DEF TodayKey, TodayListKey
    <2> HIDE DEF down, up, other
    <2>2. Good(v, Stay(down)) /\ Good(v, Stay(up))
      BY <1>1, <1>2, Kept, NoCommand DEF Stay
    <2>3. Good(v, TodayInit(v)) /\ Good(v, TodayInit(other))
      BY <1>1, TodayInitGood
    <2>4. \A q : Good(v, Asking(v, {ToggleRow(v, q)}))
      BY <1>1, <1>3, TaskCommands, CardCommands DEF ToggleRow
    <2>5. r \in ToggleCurrent(v) => Good(v, r)
      BY <2>4 DEF ToggleCurrent
    <2>6. \A q, e : Good(v, Res(v, {Push(NewCard(q.board, q.shown, e))}))
      BY <1>1, <1>2, Kept, PushedCard, OneCommand
    <2>7. QED
      BY <1>2, <2>1, <2>2, <2>3, <2>5, <2>6, AskGood
  <1>6. QED
    BY <1>4, <1>5

-----------------------------------------------------------------------------
(***************************************************************************)
(* The list of boards, which a change of the tree reloads.                 *)
(***************************************************************************)
LEMMA BoardsInitGood ==
  ASSUME NEW v, IsScreen(v), v.kind = "boards"
  PROVE  Good(v, BoardsInit(v)) /\ Settled(BoardsInit(v))
  <1> DEFINE x == Request("listBoards", [board |-> "none", card |-> "none"])
  <1>1. Sent(x, "listBoards") /\ x.about.board = "none"
    BY RequestSent DEF Requests, ReadOps
  <1>2. Asks(v, x) /\ AreCommands({x})
    BY <1>1, OneCommand DEF Asks, Sent, Own
  <1> HIDE DEF x
  <1>3. QED
    BY <1>1, <1>2, Asked, ShapeRefl DEF BoardsInit, x, Sent, Plain, Kinds, Own

LEMMA BoardsUpdateGood ==
  ASSUME NEW v, IsScreen(v), v.kind = "boards", NEW m, IsCommand(m), m.to = "views"
  PROVE  Heard(v, m, BoardsUpdate(v, m))
  <1> DEFINE w == [v EXCEPT !.busy = FALSE, !.rows = m.about.boards, !.cursor = Clamp(@, m.about.boards)]
  <1>1. CASE m.op = "boardsLoaded"
    <2>1. w.kind = "boards" /\ w.busy = FALSE /\ w.rows = m.about.boards /\ DOMAIN w = DOMAIN v
      BY DEF IsScreen
    <2>2. \A i \in DOMAIN m.about.boards : m.about.boards[i] \in Boards
      BY <1>1 DEF IsCommand, Own
    <2>3. BoardsUpdate(v, m) = Stay(w)
      BY <1>1 DEF BoardsUpdate
    <2> HIDE DEF w
    <2>4. IsScreen(w)
      BY <2>1, <2>2 DEF IsScreen
    <2>5. ~Waits(w)
      BY <2>1, PlainWaits DEF Plain, Kinds
    <2>6. QED
      BY <2>1, <2>3, <2>4, <2>5 DEF Heard, Good, Settled, Stay, Res
  <1>2. CASE m.op # "boardsLoaded"
    <2>1. BoardsUpdate(v, m) = Res(v, {})
      BY <1>2 DEF BoardsUpdate, Stay
    <2>2. ~Tells(v, m)
      BY <1>2 DEF Tells
    <2>3. QED
      BY <2>1, <2>2, Kept, NoCommand, ShapeRefl DEF Heard, Plain, Kinds
  <1>3. QED
    BY <1>1, <1>2

LEMMA PushedBoard ==
  ASSUME NEW b \in Boards
  PROVE  Own(Push(NewBoard(b)))
  <1> DEFINE v == NewBoard(b)
  <1>1. IsScreen(v) /\ ~Waits(v) /\ IsNew(v)
    BY DEF NewBoard, IsScreen, Waits, Lists, Kinds, IsNew
  <1>2. QED
    BY <1>1 DEF Push, IsCommand, Own

LEMMA BoardsKeyGood ==
  ASSUME NEW v, IsScreen(v), v.kind = "boards", NEW key, NEW r \in BoardsKey(v, key)
  PROVE  Good(v, r)
  <1> DEFINE down == [v EXCEPT !.cursor = Down(@, v.rows)]
             up == [v EXCEPT !.cursor = Up(@)]
             kept(w) == Shape(v, w) /\ w.busy = v.busy
  <1>1. \/ r = Stay(down) \/ r = Stay(up) \/ r = BoardsInit(v)
        \/ \E b \in Current(v.rows, v.cursor) : r = Res(v, {Push(NewBoard(b))})
    BY DEF BoardsKey
  <1>2. kept(down) /\ kept(up) /\ kept(v)
    BY DEF IsScreen, Shape
  <1> HIDE DEF down, up
  <1>3. Good(v, Stay(down)) /\ Good(v, Stay(up))
    BY <1>2, Kept, NoCommand DEF Stay, Plain, Kinds
  <1>4. Current(v.rows, v.cursor) \subseteq Boards
    BY DEF Current, IsScreen
  <1>5. \A b \in Boards : Good(v, Res(v, {Push(NewBoard(b))}))
    BY <1>2, Kept, PushedBoard, OneCommand DEF Plain, Kinds
  <1>6. QED
    BY <1>1, <1>3, <1>4, <1>5, BoardsInitGood

-----------------------------------------------------------------------------
(***************************************************************************)
(* A board: three prompts, two lists, and what it asks about its cards.    *)
(***************************************************************************)
LEMMA ClampShape ==
  ASSUME NEW v, IsScreen(v), v.kind = "board", NEW w, Shape(v, w)
  PROVE  Shape(v, ClampCursors(w)) /\ ClampCursors(w).busy = w.busy
  BY DEF ClampCursors, Shape, IsScreen

LEMMA PickerShape ==
  ASSUME NEW v, IsScreen(v), v.kind \in {"board", "card"}, NEW w, Shape(v, w)
  PROVE  /\ \A status, boards : Shape(v, OpenPicker(w, status, boards)) /\ OpenPicker(w, status, boards).busy = w.busy
         /\ Shape(v, ClosePicker(w)) /\ ClosePicker(w).busy = w.busy
  BY DEF OpenPicker, ClosePicker, Shape, IsScreen

LEMMA LoadSent ==
  \A name : /\ Sent(LoadBoard(name), "getBoard") /\ LoadBoard(name).about.board = name
            /\ Sent(LoadArchive(name), "listArchive") /\ LoadArchive(name).about.board = name
            /\ \A card : Sent(ListBoards(name, card), "listBoards") /\ ListBoards(name, card).about.board = name
  <1>1. {"getBoard", "listArchive", "listBoards"} \subseteq Requests
    BY DEF Requests, ReadOps
  <1>2. QED
    BY <1>1, RequestSent DEF LoadBoard, LoadArchive, ListBoards

\* What a board asks for about its own cards ends its wait.
OwnOps == {"getBoard", "listArchive", "listBoards", "createCard", "moveCardToBoard",
           "deleteCard", "archiveCard", "restoreCard"}

LEMMA BoardAsked ==
  ASSUME NEW v, IsScreen(v), v.kind = "board", NEW w, Shape(v, w), NEW out, AreCommands(out), NEW x \in out,
         \/ Sent(x, "moveCard")
         \/ \E op \in OwnOps : Sent(x, op) /\ x.about.board = v.name
  PROVE  Good(v, Asking(w, out)) /\ Settled(Asking(w, out))
  <1>1. x.to = "server" /\ Asks(w, x)
    BY DEF Asks, Sent, Shape, OwnOps, Own
  <1>2. QED
    BY <1>1, Asked DEF Plain, Kinds

LEMMA ReloadGood ==
  ASSUME NEW v, IsScreen(v), v.kind = "board"
  PROVE  /\ Good(v, Reload(v)) /\ Settled(Reload(v))
         /\ Good(v, ReloadBoth(v)) /\ Settled(ReloadBoth(v))
  <1> DEFINE stale == [v EXCEPT !.archiveLoaded = FALSE]
             both == {LoadBoard(v.name)} \cup MaybeLoadArchive(stale)
  <1>1. Shape(v, stale)
    BY DEF Shape, IsScreen
  <1>2. Sent(LoadBoard(v.name), "getBoard") /\ LoadBoard(v.name).about.board = v.name /\ "getBoard" \in OwnOps
    BY LoadSent DEF OwnOps
  <1>3. AreCommands({LoadBoard(v.name)}) /\ AreCommands(both)
    BY LoadSent DEF AreCommands, MaybeLoadArchive, Sent, Own
  <1>4. Reload(v) = Asking(v, {LoadBoard(v.name)}) /\ ReloadBoth(v) = Asking(stale, both)
    BY DEF Reload, ReloadBoth
  <1>5. LoadBoard(v.name) \in both
    OBVIOUS
  <1> HIDE DEF stale, both
  <1>6. QED
    BY <1>1, <1>2, <1>3, <1>4, <1>5, BoardAsked, ShapeRefl

LEMMA BoardUpdateGood ==
  ASSUME NEW v, IsScreen(v), v.kind = "board", NEW m
  PROVE  Heard(v, m, BoardUpdate(v, m))
  <1> DEFINE r == BoardUpdate(v, m)
             done(w) == Shape(v, w) /\ w.busy = FALSE
             idle == [v EXCEPT !.busy = FALSE]
             cards == [v EXCEPT !.busy = FALSE, !.cards = m.about.cards]
             arch == [v EXCEPT !.busy = FALSE, !.archiveLoaded = TRUE, !.archive = m.about.cards]
             status == (CHOOSE c \in CurrentCard(v) : TRUE).status
  <1>1. \/ r = Stay(v) /\ ~Tells(v, m)
        \/ r = Reload(v)
        \/ r = ReloadBoth(v)
        \/ r = Stay(ClampCursors(cards))
        \/ r = Stay(ClampCursors(arch))
        \/ r = Stay(idle)
        \/ r = Stay(OpenPicker(idle, status, m.about.boards))
    BY DEF BoardUpdate, BoardLoaded, ArchiveLoaded, BoardPicker, Tells
  <1>2. done(idle) /\ done(cards) /\ done(arch)
    BY DEF IsScreen, Shape
  <1> HIDE DEF idle, cards, arch, status
  <1>3. /\ done(ClampCursors(cards)) /\ done(ClampCursors(arch))
        /\ done(OpenPicker(idle, status, m.about.boards))
    BY <1>2, ClampShape, PickerShape
  <1>4. \A w : done(w) => Good(v, Stay(w)) /\ Settled(Stay(w))
    BY Idle, NoCommand DEF Stay, Plain, Kinds
  <1>5. Good(v, Stay(v))
    BY Kept, NoCommand, ShapeRefl DEF Stay, Plain, Kinds
  <1> HIDE DEF done
  <1>6. QED
    BY <1>1, <1>2, <1>3, <1>4, <1>5, ReloadGood DEF Heard

LEMMA BoardMoves ==
  ASSUME NEW v, IsScreen(v), v.kind = "board", NEW w, Shape(v, w), NEW to,
         NEW r, r \in MoveCurrent(w, to) \/ (to \in Boards /\ r \in MoveCurrentToBoard(w, to))
  PROVE  Good(v, r)
  <1> DEFINE x(c) == IF w.col = DoneColumn THEN Restore(w.name, c.id, to)
                     ELSE MoveToLane(w.name, c.id, c.status, to)
             y(c) == MoveToBoard(w.name, c.id, to)
  <1>1. \E c : r = Asking(w, {x(c)}) \/ (to \in Boards /\ r = Asking(w, {y(c)}))
    BY DEF MoveCurrent, MoveCurrentToBoard
  <1>2. w.name = v.name /\ {"restoreCard", "archiveCard", "moveCardToBoard"} \subseteq OwnOps
    BY DEF Shape, OwnOps
  <1>3. \A c : Sent(x(c), "moveCard") \/ \E op \in OwnOps : Sent(x(c), op) /\ x(c).about.board = v.name
    BY <1>2, CardCommands
  <1>4. to \in Boards => \A c : \E op \in OwnOps : Sent(y(c), op) /\ y(c).about.board = v.name
    BY <1>2, CardCommands
  <1>5. \A c : AreCommands({x(c)}) /\ (to \in Boards => AreCommands({y(c)}))
    BY <1>3, <1>4, OneCommand DEF Sent, Own
  <1> HIDE DEF x, y
  <1>6. \A c : Good(v, Asking(w, {x(c)})) /\ (to \in Boards => Good(v, Asking(w, {y(c)})))
    BY <1>3, <1>4, <1>5, BoardAsked
  <1>7. QED
    BY <1>1, <1>6

LEMMA BoardPickGood ==
  ASSUME NEW v, IsScreen(v), v.kind = "board", NEW r \in BoardPick(v)
  PROVE  Good(v, r)
  <1> DEFINE w == ClosePicker(v)
  <1>1. Shape(v, w) /\ w.busy = v.busy
    BY PickerShape, ShapeRefl
  <1> HIDE DEF w
  <1>2. Good(v, Stay(w))
    BY <1>1, Kept, NoCommand DEF Stay, Plain, Kinds
  <1>3. r = Stay(w) \/ \E o : r \in MoveCurrent(w, o) \/ (o \in Boards /\ r \in MoveCurrentToBoard(w, o))
    BY DEF BoardPick, OrStay, w
  <1>4. QED
    BY <1>1, <1>2, <1>3, BoardMoves

LEMMA BoardPromptKeyGood ==
  ASSUME NEW v, IsScreen(v), v.kind = "board", NEW key, NEW r \in BoardPromptKey(v, key)
  PROVE  Good(v, r)
  <1> DEFINE added == [v EXCEPT !.open = @ \ {"adding"}]
             shut == [v EXCEPT !.open = @ \ {"del"}]
             create == Request("createCard", [board |-> v.name, status |-> NewCardStatus(v)])
             delete == DeleteCard(v.name, v.deleting)
  <1>1. \/ r \in BoardPick(v)
        \/ r = Stay(added) \/ r = Asking(added, {create})
        \/ r = Stay(shut) \/ r = Asking(shut, {delete})
    BY DEF BoardPromptKey
  <1>2. /\ Shape(v, added) /\ added.busy = v.busy
        /\ Shape(v, shut) /\ shut.busy = v.busy
    BY DEF IsScreen, Shape
  <1>3. /\ Sent(create, "createCard") /\ create.about.board = v.name
        /\ Sent(delete, "deleteCard") /\ delete.about.board = v.name
    <2>1. "createCard" \in Requests
      BY DEF Requests, CardOps
    <2>2. Sent(create, "createCard") /\ create.about.board = v.name
      BY <2>1, RequestSent
    <2>3. QED
      BY <2>2, CardCommands
  <1> HIDE DEF added, shut, create, delete
  <1>4. Good(v, Stay(added)) /\ Good(v, Stay(shut))
    BY <1>2, Kept, NoCommand DEF Stay, Plain, Kinds
  <1>5. AreCommands({create}) /\ AreCommands({delete}) /\ {"createCard", "deleteCard"} \subseteq OwnOps
    BY <1>3, OneCommand DEF Sent, OwnOps, Own
  <1>6. Good(v, Asking(added, {create})) /\ Good(v, Asking(shut, {delete}))
    BY <1>2, <1>3, <1>5, BoardAsked
  <1>7. QED
    BY <1>1, <1>4, <1>6, BoardPickGood

LEMMA BoardRightGood ==
  ASSUME NEW v, IsScreen(v), v.kind = "board"
  PROVE  LET w == [v EXCEPT !.col = @ + 1]
         IN  Good(v, Res([w EXCEPT !.busy = @ \/ MaybeLoadArchive(w) # {}], MaybeLoadArchive(w)))
  <1> DEFINE w == [v EXCEPT !.col = @ + 1]
             asked == MaybeLoadArchive(w)
             u == [w EXCEPT !.busy = @ \/ asked # {}]
  <1>1. Shape(v, w) /\ w.busy = v.busy
    BY DEF IsScreen, Shape
  <1>2. asked = {} \/ asked = {LoadArchive(w.name)}
    BY DEF MaybeLoadArchive
  <1> HIDE DEF w, asked
  <1>3. CASE asked = {}
    <2>1. Shape(v, u) /\ u.busy = v.busy
      BY <1>1, <1>3 DEF Shape, IsScreen
    <2> HIDE DEF u
    <2>2. Good(v, Res(u, asked))
      BY <1>3, <2>1, Kept, NoCommand DEF Plain, Kinds
    <2>3. QED
      BY <2>2 DEF u, w, asked
  <1>4. CASE asked = {LoadArchive(w.name)}
    <2>1. asked # {}
      BY <1>4
    <2>2. [w EXCEPT !.busy = TRUE] = u
      BY <2>1
    <2> HIDE DEF u
    <2>3. Asking(w, asked) = Res(u, asked)
      BY <2>2 DEF Asking
    <2>4. /\ Sent(LoadArchive(w.name), "listArchive") /\ LoadArchive(w.name).about.board = v.name
          /\ "listArchive" \in OwnOps
      BY <1>1, LoadSent DEF Shape, OwnOps
    <2>5. AreCommands(asked)
      BY <1>4, <2>4, OneCommand DEF Sent, Own
    <2>6. Good(v, Asking(w, asked))
      BY <1>1, <1>4, <2>4, <2>5, BoardAsked
    <2>7. QED
      BY <2>3, <2>6 DEF u, w, asked
  <1>5. QED
    BY <1>2, <1>3, <1>4

LEMMA BoardListKeyGood ==
  ASSUME NEW v, IsScreen(v), v.kind = "board", NEW key, NEW r \in BoardListKey(v, key)
  PROVE  Good(v, r)
  <1> DEFINE left == [v EXCEPT !.col = @ - 1]
             right == [v EXCEPT !.col = @ + 1]
             moved == [right EXCEPT !.busy = @ \/ MaybeLoadArchive(right) # {}]
             down == [v EXCEPT !.cursors[v.col] = Down(@, ColumnCards(v, v.col))]
             up == [v EXCEPT !.cursors[v.col] = Up(@)]
             del(c) == [v EXCEPT !.open = @ \cup {"del"}, !.deleting = c.id]
             adding == [v EXCEPT !.open = @ \cup {"adding"}]
             kept(w) == Shape(v, w) /\ w.busy = v.busy
  <1>1. \/ r = Stay(left) \/ r = Stay(down) \/ r = Stay(up) \/ r = Stay(adding)
        \/ \E c : r = Stay(del(c))
        \/ r = Res(moved, MaybeLoadArchive(right))
        \/ r = ReloadBoth(v)
        \/ r \in MoveCurrent(v, "done")
        \/ \E c : r = Asking(v, {ListBoards(v.name, c.id)})
        \/ \E c, e : r = Res(v, {Push(NewCard(v.name, c, e))})
    BY DEF BoardListKey
  <1>2. Good(v, Res(moved, MaybeLoadArchive(right)))
    BY BoardRightGood
  <1>3. kept(v) /\ kept(left) /\ kept(down) /\ kept(up) /\ kept(adding) /\ \A c : kept(del(c))
    BY DEF IsScreen, Shape
  <1> HIDE DEF left, right, moved, down, up, adding, del
  <1>4. \A w : kept(w) => Good(v, Stay(w))
    BY Kept, NoCommand DEF Stay, Plain, Kinds
  <1>5. \A c : Good(v, Asking(v, {ListBoards(v.name, c.id)}))
    BY <1>3, LoadSent, OneCommand, BoardAsked DEF Sent, OwnOps, Own
  <1>6. \A c, e : Good(v, Res(v, {Push(NewCard(v.name, c, e))}))
    BY <1>3, Kept, PushedCard, OneCommand DEF Plain, Kinds
  <1>7. r \in MoveCurrent(v, "done") => Good(v, r)
    BY <1>3, BoardMoves
  <1> HIDE DEF kept
  <1>8. QED
    BY <1>1, <1>2, <1>3, <1>4, <1>5, <1>6, <1>7, ReloadGood

LEMMA BoardKeyGood ==
  ASSUME NEW v, IsScreen(v), v.kind = "board", NEW key, NEW r \in BoardKey(v, key)
  PROVE  Good(v, r)
  BY BoardPromptKeyGood, BoardListKeyGood DEF BoardKey

\* Screens outside the lists: what they ask for ends no wait of theirs.
LEMMA FreelyAsked ==
  ASSUME NEW v, IsScreen(v), v.kind \in Plain \ Lists, NEW w, Shape(v, w),
         NEW x, Own(x)
  PROVE  Good(v, Asking(w, {x}))
  BY Asked, OneCommand

LEMMA FreelyStays ==
  ASSUME NEW v, IsScreen(v), v.kind \in Plain \ Lists, NEW w, Shape(v, w), NEW out, AreCommands(out)
  PROVE  Good(v, Res(w, out))
  <1>1. IsScreen(w) /\ ~Waits(w)
    BY ShapeScreen, PlainWaits DEF Shape, Plain
  <1>2. QED
    BY <1>1 DEF Good, Settled, Res, AreCommands, Shape

LEMMA FreelyHeard ==
  ASSUME NEW v, v.kind \in {"card", "addTask", "bases", "source"}, NEW m, NEW r, Good(v, r)
  PROVE  Heard(v, m, r)
  BY DEF Heard, Tells

LEMMA AgentsSent ==
  \A id : Sent(Request("promptAgent", [id |-> id]), "promptAgent") /\ Sent(Request("listAgents", [id |-> id]), "listAgents")
  <1>1. {"promptAgent", "listAgents"} \subseteq Requests
    BY DEF Requests, NoteOps
  <1>2. QED
    BY <1>1, RequestSent

LEMMA AgentsKeyGood ==
  ASSUME NEW v, IsScreen(v), v.kind \in Plain \ Lists, NEW key, NEW ids, NEW r \in AgentsKey(v, key, ids)
  PROVE  Good(v, r)
  <1> DEFINE shut == [v EXCEPT !.open = @ \ {"agents"}]
  <1>1. r = Stay(shut) \/ \E id : r = Asking(shut, {Request("promptAgent", [id |-> id])})
    BY DEF AgentsKey
  <1>2. Shape(v, shut)
    BY DEF IsScreen, Shape
  <1> HIDE DEF shut
  <1>3. Good(v, Stay(shut))
    BY <1>2, FreelyStays, NoCommand DEF Stay
  <1>4. \A id : Good(v, Asking(shut, {Request("promptAgent", [id |-> id])}))
    BY <1>2, AgentsSent, FreelyAsked DEF Sent, Own
  <1>5. QED
    BY <1>1, <1>3, <1>4

-----------------------------------------------------------------------------
(***************************************************************************)
(* A card: its page and its prompts; it never waits.                       *)
(***************************************************************************)
LEMMA AppCommands ==
  /\ Own(Pop) /\ Own(Failed)
  /\ \A kind, id, text : Own(Edit(kind, id, text))
  BY DEF IsCommand, Pop, Failed, Edit, Own

LEMMA CardInitGood ==
  ASSUME NEW v, IsScreen(v), v.kind = "card"
  PROVE  Good(v, CardInit(v))
  <1> DEFINE w == [v EXCEPT !.pendingEdit = FALSE]
  <1>1. Shape(v, w)
    BY DEF IsScreen, Shape
  <1>2. CardInit(v) = Res(w, {EditCard(v)}) \/ CardInit(v) = Res(v, {})
    BY DEF CardInit, Stay
  <1> HIDE DEF w
  <1>3. AreCommands({EditCard(v)})
    BY AppCommands, OneCommand DEF EditCard
  <1>4. QED
    BY <1>1, <1>2, <1>3, FreelyStays, NoCommand, ShapeRefl DEF Plain, Kinds, Lists

LEMMA CardUpdateGood ==
  ASSUME NEW v, IsScreen(v), v.kind = "card", NEW m
  PROVE  Heard(v, m, CardUpdate(v, m))
  <1> DEFINE r == CardUpdate(v, m)
             idle == [v EXCEPT !.busy = FALSE]
             saved == [idle EXCEPT !.card = m.about.saved]
             agents == [idle EXCEPT !.open = @ \cup {"agents"}]
             patched(p) == Request("patchCard", p)
  <1>1. \/ r \in {Res(v, {}), Res(idle, {}), Res(idle, {Pop}), Res(saved, {}), Res(saved, {Pop}), Res(agents, {})}
        \/ r = Res(OpenPicker(idle, v.card.status, m.about.boards), {})
        \/ \E p : r = Asking(v, {patched(p)})
    BY DEF CardUpdate, EditorDone, Stay
  <1>2. Shape(v, idle)
    BY DEF IsScreen, Shape
  <1>3. Shape(v, saved) /\ Shape(v, agents)
    <2> HIDE DEF idle
    <2>1. QED
      BY <1>2 DEF IsScreen, Shape
  <1> HIDE DEF idle, saved, agents
  <1>4. Shape(v, OpenPicker(idle, v.card.status, m.about.boards))
    BY <1>2, PickerShape
  <1>5. \A p : Own(patched(p))
    BY RequestSent DEF Requests, CardOps, Sent, Own
  <1> HIDE DEF patched
  <1>6. v.kind \in Plain \ Lists
    BY DEF Plain, Kinds, Lists
  <1>7. AreCommands({}) /\ AreCommands({Pop})
    BY AppCommands, OneCommand, NoCommand
  <1>8. Good(v, r)
    <2> HIDE DEF r
    <2>1. QED
      BY <1>1, <1>2, <1>3, <1>4, <1>5, <1>6, <1>7, FreelyStays, FreelyAsked, ShapeRefl
  <1>9. QED
    BY <1>8, FreelyHeard

LEMMA CardMoves ==
  ASSUME NEW v, IsScreen(v), v.kind = "card", NEW w, Shape(v, w), NEW to,
         NEW r, r \in MoveSelf(w, to) \/ (to \in Boards /\ r \in MoveSelfToBoard(w, to))
  PROVE  Good(v, r)
  <1>1. \/ r = Res(w, {})
        \/ \E a, b, c : r = Asking(w, {MoveToLane(a, b, c, to)})
        \/ to \in Boards /\ \E a, b : r = Asking(w, {MoveToBoard(a, b, to)})
    BY DEF MoveSelf, MoveSelfToBoard, Stay
  <1>2. \A a, b, c : Own(MoveToLane(a, b, c, to)) /\ (to \in Boards => Own(MoveToBoard(a, b, to)))
    BY CardCommands DEF Sent, Own
  <1>3. QED
    BY <1>1, <1>2, FreelyStays, FreelyAsked, NoCommand DEF Plain, Kinds, Lists

LEMMA CardPromptKeyGood ==
  ASSUME NEW v, IsScreen(v), v.kind = "card", NEW key, NEW r \in CardPromptKey(v, key)
  PROVE  Good(v, r)
  <1> DEFINE said == [v EXCEPT !.open = @ \ {"comment"}]
             shut == [v EXCEPT !.open = @ \ {"del"}]
             post == Request("addComment", [board |-> v.name, card |-> v.card.id])
             delete == DeleteCard(v.name, v.card.id)
             w == ClosePicker(v)
  <1>1. \/ r = Res(said, {}) \/ r = Asking(said, {post})
        \/ r = Res(w, {})
        \/ \E o : r \in MoveSelf(w, o) \/ (o \in Boards /\ r \in MoveSelfToBoard(w, o))
        \/ r \in AgentsKey(v, key, {v.card.id})
        \/ r = Res(shut, {}) \/ r = Asking(shut, {delete})
    BY DEF CardPromptKey, CardPick, Stay
  <1>2. Shape(v, said) /\ Shape(v, shut)
    BY DEF IsScreen, Shape
  <1>3. Shape(v, w)
    BY PickerShape, ShapeRefl
  <1>4. Own(post)
    BY RequestSent DEF Requests, CardOps, Sent, Own
  <1>5. Own(delete)
    BY CardCommands DEF Sent, Own
  <1> HIDE DEF said, shut, post, delete, w
  <1>6. v.kind \in Plain \ Lists
    BY DEF Plain, Kinds, Lists
  <1>7. QED
    BY <1>1, <1>2, <1>3, <1>4, <1>5, <1>6, CardMoves, AgentsKeyGood, FreelyStays, FreelyAsked, NoCommand

LEMMA CardPageKeyGood ==
  ASSUME NEW v, IsScreen(v), v.kind = "card", NEW key, NEW r \in CardPageKey(v, key)
  PROVE  Good(v, r)
  <1> DEFINE del == [v EXCEPT !.open = @ \cup {"del"}]
             comment == [v EXCEPT !.open = @ \cup {"comment"}]
             box == Request("toggleBox", [board |-> v.name, card |-> v.card.id, line |-> v.card.body])
             boards == Request("listBoards", [board |-> "card", card |-> v.card.id])
             agents == Request("listAgents", [id |-> v.card.id])
  <1>1. \/ r = Res(del, {}) \/ r = Res(comment, {})
        \/ r = Asking(v, {box}) \/ r = Asking(v, {boards}) \/ r = Asking(v, {agents})
        \/ r \in MoveSelf(v, "done")
        \/ r = Res(v, {EditCard(v)})
    BY DEF CardPageKey, Stay, ListAgents
  <1>2. Shape(v, del) /\ Shape(v, comment)
    BY DEF IsScreen, Shape
  <1>3. Own(box) /\ Own(boards) /\ Own(agents)
    BY RequestOwn DEF Requests, CardOps, ReadOps, NoteOps
  <1>4. AreCommands({EditCard(v)})
    BY AppCommands, OneCommand DEF EditCard
  <1> HIDE DEF del, comment, box, boards, agents
  <1>5. v.kind \in Plain \ Lists
    BY DEF Plain, Kinds, Lists
  <1>6. QED
    BY <1>1, <1>2, <1>3, <1>4, <1>5, CardMoves, FreelyStays, FreelyAsked, NoCommand, ShapeRefl

LEMMA CardKeyGood ==
  ASSUME NEW v, IsScreen(v), v.kind = "card", NEW key, NEW r \in CardKey(v, key)
  PROVE  Good(v, r)
  BY CardPromptKeyGood, CardPageKeyGood DEF CardKey

-----------------------------------------------------------------------------
(***************************************************************************)
(* A task in the making.                                                   *)
(***************************************************************************)
LEMMA AddTaskUpdateGood ==
  ASSUME NEW v, IsScreen(v), v.kind = "addTask", NEW m
  PROVE  Heard(v, m, AddTaskUpdate(v, m))
  <1> DEFINE r == AddTaskUpdate(v, m)
             results == [v EXCEPT !.busy = FALSE, !.found = m.about.found,
                                  !.cursor = IF m.about.found # <<>> THEN 1 ELSE @]
             idle == [v EXCEPT !.busy = FALSE]
  <1>1. r = Res(v, {}) \/ r = Res(results, {}) \/ r = Res(idle, {Pop})
    BY DEF AddTaskUpdate, Stay
  <1>2. Shape(v, results) /\ Shape(v, idle)
    BY DEF IsScreen, Shape
  <1> HIDE DEF results, idle
  <1>3. AreCommands({}) /\ AreCommands({Pop}) /\ v.kind \in Plain \ Lists
    BY AppCommands, OneCommand, NoCommand DEF Plain, Kinds, Lists
  <1>4. Good(v, r)
    <2> HIDE DEF r
    <2>1. QED
      BY <1>1, <1>2, <1>3, FreelyStays, ShapeRefl
  <1>5. QED
    BY <1>4, FreelyHeard

LEMMA AddTaskKeyGood ==
  ASSUME NEW v, IsScreen(v), v.kind = "addTask", NEW key, NEW r \in AddTaskKey(v, key)
  PROVE  Good(v, r)
  <1> DEFINE first == [v EXCEPT !.step = 0]
             second == [v EXCEPT !.step = 1]
             shut == [v EXCEPT !.open = {}]
             slash == [v EXCEPT !.open = {"search"}]
             clear == [v EXCEPT !.cursor = 0, !.found = <<>>]
             down == [v EXCEPT !.cursor = IF @ < Len(v.found) THEN @ + 1 ELSE @]
             up == [v EXCEPT !.cursor = IF @ > 0 THEN @ - 1 ELSE @]
             search == Request("searchNotes", [by |-> "addTask"])
             add(n) == Request("addTask", [note |-> n])
  <1>1. \/ r \in {Res(v, {}), Res(first, {}), Res(second, {}), Res(shut, {}), Res(slash, {}), Res(clear, {}),
                  Res(down, {}), Res(up, {})}
        \/ r \in {Res(v, {Pop}), Res(v, {Panic})}
        \/ r = Asking(shut, {search})
        \/ \E n : r = Asking(v, {add(n)})
    BY DEF AddTaskKey, Submit, Stay
  <1>2. /\ Shape(v, first) /\ Shape(v, second) /\ Shape(v, shut) /\ Shape(v, slash) /\ Shape(v, clear)
        /\ Shape(v, down) /\ Shape(v, up)
    BY DEF IsScreen, Shape
  <1>3. Own(search) /\ \A n : Own(add(n))
    BY RequestSent DEF Requests, TaskOps, ReadOps, Sent, Own
  <1> HIDE DEF first, second, shut, slash, clear, down, up, search, add
  <1>4. AreCommands({}) /\ AreCommands({Pop}) /\ AreCommands({Panic}) /\ v.kind \in Plain \ Lists
    BY AppCommands, OneCommand, NoCommand DEF Plain, Kinds, Lists, AreCommands, Own
  <1>5. /\ \A w : Shape(v, w) => Good(v, Res(w, {}))
        /\ Good(v, Res(v, {Pop})) /\ Good(v, Res(v, {Panic}))
    BY <1>4, FreelyStays, ShapeRefl
  <1>6. Good(v, Asking(shut, {search})) /\ \A n : Good(v, Asking(v, {add(n)}))
    BY <1>2, <1>3, <1>4, FreelyAsked, ShapeRefl
  <1>7. QED
    BY <1>1, <1>2, <1>5, <1>6, ShapeRefl

-----------------------------------------------------------------------------
(***************************************************************************)
(* The list of bases.                                                      *)
(***************************************************************************)
LEMMA NoteCommands ==
  /\ \A op \in NoteOps \ {"setProperty"} : \A slug : Sent(GetNote(op, slug), op) /\ GetNote(op, slug).about.slug = slug
  /\ \A slug, version : Own(Request("setProperty", [slug |-> slug, version |-> version, by |-> "bases"]))
  BY DEF GetNote, Request, Sent, IsCommand, NoteOps, ReadOps, CardOps, TaskOps, Own

LEMMA PushedNote ==
  ASSUME NEW note
  PROVE  Own(Push(NewNote(note)))
  <1> DEFINE v == NewNote(note)
  <1>1. IsScreen(v) /\ ~Waits(v) /\ IsNew(v)
    BY DEF NewNote, IsScreen, Waits, Lists, Kinds, IsNew
  <1>2. QED
    BY <1>1 DEF Push, IsCommand, Own

LEMMA BasesInitGood ==
  ASSUME NEW v, IsScreen(v), v.kind = "bases"
  PROVE  Good(v, BasesInit(v)) /\ \A b : Good(v, OpenBase(v, b))
  <1> DEFINE list == Request("listBases", [by |-> "bases"])
             get(b) == Request("getBase", [base |-> b])
  <1>1. Own(list) /\ \A b : Own(get(b))
    BY RequestSent DEF Requests, ReadOps, Sent, Own
  <1>2. BasesInit(v) = Asking(v, {list}) /\ \A b : OpenBase(v, b) = Asking(v, {get(b)})
    BY DEF BasesInit, OpenBase
  <1> HIDE DEF list, get
  <1>3. v.kind \in Plain \ Lists
    BY DEF Plain, Kinds, Lists
  <1>4. Good(v, Asking(v, {list})) /\ \A b : Good(v, Asking(v, {get(b)}))
    BY <1>1, <1>3, FreelyAsked, ShapeRefl
  <1>5. QED
    BY <1>2, <1>4

LEMMA BasesUpdateGood ==
  ASSUME NEW v, IsScreen(v), v.kind = "bases", NEW m
  PROVE  Heard(v, m, BasesUpdate(v, m))
  <1> DEFINE r == BasesUpdate(v, m)
             idle == [v EXCEPT !.busy = FALSE]
             names == [idle EXCEPT !.names = m.about.names]
             table == [idle EXCEPT !.base = m.about.base, !.rows = m.about.rows, !.cursor = 1]
             prop == [idle EXCEPT !.open = @ \cup {"prop"}, !.version = m.about.version]
  <1>1. \/ r \in {Res(v, {}), Res(v, {Panic}), Res(names, {}), Res(table, {}), Res(prop, {})}
        \/ r = OpenBase(v, v.base)
        \/ r = Res(idle, {Push(NewNote(m.about.note))})
    BY DEF BasesUpdate, Stay
  <1>2. Shape(v, idle)
    BY DEF IsScreen, Shape
  <1>3. Shape(v, names) /\ Shape(v, table) /\ Shape(v, prop)
    <2> HIDE DEF idle
    <2>1. QED
      BY <1>2 DEF IsScreen, Shape
  <1> HIDE DEF idle, names, table, prop
  <1>4. AreCommands({}) /\ AreCommands({Panic}) /\ AreCommands({Push(NewNote(m.about.note))})
    BY PushedNote, OneCommand, NoCommand DEF AreCommands, Own
  <1>5. v.kind \in Plain \ Lists
    BY DEF Plain, Kinds, Lists
  <1>6. Good(v, r)
    <2> HIDE DEF r
    <2>1. QED
      BY <1>1, <1>2, <1>3, <1>4, <1>5, BasesInitGood, FreelyStays, ShapeRefl
  <1>7. QED
    BY <1>6, FreelyHeard

LEMMA BasesKeyGood ==
  ASSUME NEW v, IsScreen(v), v.kind = "bases", NEW key, NEW r \in BasesKey(v, key)
  PROVE  Good(v, r)
  <1> DEFINE shut == [v EXCEPT !.open = {}, !.version = NoVersion]
             down == [v EXCEPT !.cursor = Down(@, v.rows)]
             up == [v EXCEPT !.cursor = Up(@)]
             save(n) == Request("setProperty", [slug |-> n, version |-> v.version, by |-> "bases"])
  <1>1. \/ r \in {Res(shut, {}), Res(down, {}), Res(up, {})}
        \/ \E n : r = Asking(shut, {save(n)})
        \/ \E b : r = OpenBase(v, b)
        \/ \E n : r \in {Asking(v, {GetNote("openNote", n)}), Asking(v, {GetNote("propNote", n)})}
        \/ r = BasesInit(v)
    BY DEF BasesKey, BasesPropKey, BasesTableKey, OrStay, Stay
  <1>2. Shape(v, shut) /\ Shape(v, down) /\ Shape(v, up)
    BY DEF IsScreen, Shape
  <1>3. \A n : Own(save(n)) /\ Own(GetNote("openNote", n)) /\ Own(GetNote("propNote", n))
    BY NoteCommands DEF NoteOps, Sent, Own
  <1> HIDE DEF shut, down, up, save
  <1>4. v.kind \in Plain \ Lists
    BY DEF Plain, Kinds, Lists
  <1>5. \A w : Shape(v, w) => Good(v, Res(w, {})) /\ \A x : Own(x) => Good(v, Asking(w, {x}))
    BY <1>4, FreelyStays, FreelyAsked, NoCommand
  <1>6. Shape(v, v)
    BY ShapeRefl
  <1>7. \A n : Good(v, Asking(shut, {save(n)}))
    BY <1>2, <1>3, <1>5
  <1>8. \A n : Good(v, Asking(v, {GetNote("openNote", n)})) /\ Good(v, Asking(v, {GetNote("propNote", n)}))
    BY <1>3, <1>5, <1>6
  <1>9. QED
    BY <1>1, <1>2, <1>5, <1>7, <1>8, BasesInitGood

-----------------------------------------------------------------------------
(***************************************************************************)
(* One source.                                                             *)
(***************************************************************************)
LEMMA LoadSourceGood ==
  ASSUME NEW v, IsScreen(v), v.kind = "source"
  PROVE  Good(v, LoadSource(v))
  <1>1. Own(Request("sourceItems", [by |-> "source"]))
    BY RequestSent DEF Requests, ReadOps, Sent, Own
  <1>2. QED
    BY <1>1, FreelyAsked, ShapeRefl DEF LoadSource, Plain, Kinds, Lists

LEMMA SourceUpdateGood ==
  ASSUME NEW v, IsScreen(v), v.kind = "source", NEW m
  PROVE  Heard(v, m, SourceUpdate(v, m))
  <1> DEFINE r == SourceUpdate(v, m)
             idle == [v EXCEPT !.busy = FALSE]
             items == [idle EXCEPT !.items = m.about.items, !.cursor = Clamp(@, m.about.items)]
             pull == [idle EXCEPT !.open = @ \cup {"pull"}, !.boards = m.about.boards]
             agents == [idle EXCEPT !.open = @ \cup {"agents"}]
  <1>1. \/ r \in {Res(v, {}), Res(idle, {}), Res(items, {}), Res(pull, {}), Res(agents, {})}
        \/ r = LoadSource(v)
    BY DEF SourceUpdate, Stay
  <1>2. Shape(v, idle)
    BY DEF IsScreen, Shape
  <1>3. Shape(v, items) /\ Shape(v, pull) /\ Shape(v, agents)
    <2> HIDE DEF idle
    <2>1. QED
      BY <1>2 DEF IsScreen, Shape
  <1> HIDE DEF idle, items, pull, agents
  <1>4. v.kind \in Plain \ Lists
    BY DEF Plain, Kinds, Lists
  <1>5. Good(v, r)
    <2> HIDE DEF r
    <2>1. QED
      BY <1>1, <1>2, <1>3, <1>4, LoadSourceGood, FreelyStays, NoCommand, ShapeRefl
  <1>6. QED
    BY <1>5, FreelyHeard

LEMMA SourceKeyGood ==
  ASSUME NEW v, IsScreen(v), v.kind = "source", NEW key, NEW r \in SourceKey(v, key)
  PROVE  Good(v, r)
  <1> DEFINE shut(prompt) == [v EXCEPT !.open = @ \ {prompt}]
             down == [v EXCEPT !.cursor = Down(@, v.items)]
             up == [v EXCEPT !.cursor = Up(@)]
             comment == [v EXCEPT !.open = @ \cup {"comment"}]
             say(id) == Request("commentSource", [item |-> id])
             create(b) == Request("createCard", [board |-> b, status |-> "triage"])
             boards == Request("listBoards", [board |-> "source", card |-> "none"])
             agents(id) == Request("listAgents", [id |-> id])
  <1>1. \/ r \in {Res(down, {}), Res(up, {}), Res(comment, {})}
        \/ \E prompt : r = Res(shut(prompt), {})
        \/ \E id : r = Asking(shut("comment"), {say(id)})
        \/ \E b : r = Asking(shut("pull"), {create(b)})
        \/ \E ids : r \in AgentsKey(v, key, ids)
        \/ r = LoadSource(v)
        \/ r = Asking(v, {boards})
        \/ \E id : r = Asking(v, {agents(id)})
    BY DEF SourceKey, SourcePromptKey, SourceListKey, OrStay, Stay, ListAgents
  <1>2. Shape(v, down) /\ Shape(v, up) /\ Shape(v, comment) /\ \A prompt : Shape(v, shut(prompt))
    BY DEF IsScreen, Shape
  <1>3. Own(boards) /\ \A id : Own(say(id)) /\ Own(create(id)) /\ Own(agents(id))
    BY RequestOwn DEF Requests, ReadOps, CardOps, NoteOps
  <1> HIDE DEF shut, down, up, comment, say, create, boards, agents
  <1>4. v.kind \in Plain \ Lists
    BY DEF Plain, Kinds, Lists
  <1>5. QED
    BY <1>1, <1>2, <1>3, <1>4, LoadSourceGood, AgentsKeyGood, FreelyStays, FreelyAsked, NoCommand, ShapeRefl

-----------------------------------------------------------------------------
(***************************************************************************)
(* The sources and their health.                                           *)
(***************************************************************************)
LEMMA SourcesGood ==
  ASSUME NEW v, IsScreen(v), v.kind = "sources"
  PROVE  /\ Good(v, SourcesInit(v)) /\ Settled(SourcesInit(v))
         /\ \A m : Heard(v, m, SourcesUpdate(v, m))
         /\ \A key : \A r \in SourcesKey(v, key) : Good(v, r)
  <1> DEFINE x == Request("health", [by |-> "sources"])
             idle == [v EXCEPT !.busy = FALSE]
  <1>1. Sent(x, "health")
    BY RequestSent DEF Requests, ReadOps
  <1>2. Asks(v, x) /\ AreCommands({x})
    BY <1>1, OneCommand DEF Asks, Sent, Own
  <1> HIDE DEF x
  <1>3. Good(v, SourcesInit(v)) /\ Settled(SourcesInit(v))
    BY <1>1, <1>2, Asked, ShapeRefl DEF SourcesInit, x, Sent, Plain, Kinds, Own
  <1>4. Shape(v, idle) /\ idle.busy = FALSE
    BY DEF IsScreen, Shape
  <1>5. ASSUME NEW m PROVE Heard(v, m, SourcesUpdate(v, m))
    <2>1. \/ SourcesUpdate(v, m) = Res(idle, {})
          \/ SourcesUpdate(v, m) = Res(v, {}) /\ ~Tells(v, m)
      BY DEF SourcesUpdate, Stay, Tells
    <2> HIDE DEF idle
    <2>2. Good(v, Res(idle, {})) /\ Settled(Res(idle, {}))
      BY <1>4, Idle, NoCommand DEF Plain, Kinds
    <2>3. Good(v, Res(v, {}))
      BY Kept, NoCommand, ShapeRefl DEF Plain, Kinds
    <2>4. QED
      BY <2>1, <2>2, <2>3 DEF Heard
  <1>6. \A key : \A r \in SourcesKey(v, key) : r = SourcesInit(v)
    BY DEF SourcesKey
  <1>7. QED
    BY <1>3, <1>5, <1>6

-----------------------------------------------------------------------------
(***************************************************************************)
(* The board of work items.                                                *)
(***************************************************************************)
LEMMA ItemCommands ==
  /\ \A id, state : Sent(SetState(id, state), "setState") /\ SetState(id, state).about.item = id
  /\ \A id : Sent(CommentOn(id), "commentItem") /\ CommentOn(id).about.item = id
  <1>1. {"setState", "commentItem"} \subseteq Requests
    BY DEF Requests, ReadOps
  <1>2. QED
    BY <1>1, RequestSent DEF SetState, CommentOn

LEMMA LoadAZGood ==
  ASSUME NEW v, IsScreen(v), v.kind = "azBoard", NEW w, Shape(v, w)
  PROVE  Good(v, LoadAZ(w)) /\ Settled(LoadAZ(w))
  <1> DEFINE x == Request("boardItems", [mine |-> w.mine])
  <1>1. Sent(x, "boardItems") /\ x.about.mine = w.mine
    BY RequestSent DEF Requests, ReadOps
  <1>2. Asks(w, x) /\ AreCommands({x})
    BY <1>1, OneCommand DEF Asks, Sent, Shape, Own
  <1> HIDE DEF x
  <1>3. QED
    BY <1>1, <1>2, Asked DEF LoadAZ, x, Sent, Plain, Kinds, Own

LEMMA AZBoardUpdateGood ==
  ASSUME NEW v, IsScreen(v), v.kind = "azBoard", NEW m
  PROVE  Heard(v, m, AZBoardUpdate(v, m))
  <1> DEFINE r == AZBoardUpdate(v, m)
             done(w) == Shape(v, w) /\ w.busy = FALSE
             idle == [v EXCEPT !.busy = FALSE]
             items == [idle EXCEPT !.items = m.about.items]
  <1>1. \/ r = Stay(v) /\ ~Tells(v, m)
        \/ r = Stay(idle) \/ r = Stay(Reshape(items)) \/ r = LoadAZ(v)
    BY DEF AZBoardUpdate, Tells
  <1>2. done(idle)
    BY DEF IsScreen, Shape
  <1> HIDE DEF idle
  <1>3. done(items)
    BY <1>2 DEF IsScreen, Shape
  <1> HIDE DEF items
  <1>4. done(Reshape(items))
    BY <1>3 DEF IsScreen, Shape, Reshape
  <1>5. \A w : done(w) => Good(v, Stay(w)) /\ Settled(Stay(w))
    BY Idle, NoCommand DEF Stay, Plain, Kinds
  <1>6. Good(v, Stay(v))
    BY Kept, NoCommand, ShapeRefl DEF Stay, Plain, Kinds
  <1> HIDE DEF done
  <1>7. QED
    BY <1>1, <1>2, <1>4, <1>5, <1>6, LoadAZGood, ShapeRefl DEF Heard

LEMMA AZBoardKeyGood ==
  ASSUME NEW v, IsScreen(v), v.kind = "azBoard", NEW key, NEW r \in AZBoardKey(v, key)
  PROVE  Good(v, r)
  <1> DEFINE shut == [v EXCEPT !.open = {}, !.at = "none"]
             left == [v EXCEPT !.col = @ - 1]
             right == [v EXCEPT !.col = @ + 1]
             down == [v EXCEPT !.cursors[v.col] = Down(@, ColumnItems(v, v.col))]
             up == [v EXCEPT !.cursors[v.col] = Up(@)]
             filter == [v EXCEPT !.mine = ~@]
             picker(s) == [v EXCEPT !.open = {"picker"}, !.at = s]
             comment == [v EXCEPT !.open = {"comment"}]
             kept(w) == Shape(v, w) /\ w.busy = v.busy /\ w.mine = v.mine
  <1>1. \/ r = Stay(shut) \/ r = Stay(left) \/ r = Stay(right) \/ r = Stay(down) \/ r = Stay(up)
        \/ r = Stay(comment) \/ \E s : r = Stay(picker(s))
        \/ \E id : r = Asking(shut, {CommentOn(id)})
        \/ \E id, s : r = Asking(shut, {SetState(id, s)})
        \/ r = LoadAZ(v) \/ r = LoadAZ(filter)
        \/ \E id : r = Res(v, {Push(NewAZItem(id))})
    <2>1. CASE v.open # {}
      <3>1. \/ r = Stay(shut)
            \/ \E id : r = Asking(shut, {CommentOn(id)})
            \/ \E id : r \in StatePick(shut, id, v.at)
        BY <2>1 DEF AZBoardKey, AZBoardPromptKey, OrStay
      <3>2. \A id : r \in StatePick(shut, id, v.at) => \E s : r = Asking(shut, {SetState(id, s)})
        BY DEF StatePick
      <3>3. QED
        BY <3>1, <3>2
    <2>2. CASE v.open = {}
      BY <2>2 DEF AZBoardKey, AZBoardListKey
    <2>3. QED
      BY <2>1, <2>2
  <1>2. /\ kept(v) /\ kept(shut) /\ kept(left) /\ kept(right) /\ kept(down) /\ kept(up) /\ kept(comment)
        /\ \A s : kept(picker(s))
        /\ Shape(v, filter)
    BY DEF IsScreen, Shape
  <1> HIDE DEF shut, left, right, down, up, filter, picker, comment
  <1>3. v.kind \in Plain
    BY DEF Plain, Kinds
  <1>4. \A w : kept(w) => Good(v, Stay(w))
    BY <1>3, Kept, NoCommand DEF Stay
  <1>5. ASSUME NEW x, Sent(x, "setState") \/ Sent(x, "commentItem") PROVE Good(v, Asking(shut, {x}))
    <2>1. Asks(shut, x) /\ AreCommands({x})
      BY <1>2, <1>5, OneCommand DEF Asks, Shape, Sent, Own
    <2>2. QED
      BY <1>2, <1>3, <1>5, <2>1, Asked DEF Sent, Own
  <1>6. \A id : Good(v, Asking(shut, {CommentOn(id)})) /\ \A s : Good(v, Asking(shut, {SetState(id, s)}))
    BY <1>5, ItemCommands
  <1>7. ASSUME NEW id PROVE Good(v, Res(v, {Push(NewAZItem(id))}))
    <2>1. IsScreen(NewAZItem(id)) /\ ~Waits(NewAZItem(id)) /\ IsNew(NewAZItem(id))
      BY DEF NewAZItem, IsScreen, Waits, Lists, Kinds, IsNew
    <2>2. AreCommands({Push(NewAZItem(id))})
      BY <2>1 DEF AreCommands, IsCommand, Push, Own
    <2>3. QED
      BY <1>2, <1>3, <2>2, Kept
  <1> HIDE DEF kept
  <1>8. QED
    BY <1>1, <1>2, <1>4, <1>6, <1>7, LoadAZGood, ShapeRefl

-----------------------------------------------------------------------------
(***************************************************************************)
(* A work item.                                                            *)
(***************************************************************************)
LEMMA ItemAsked ==
  ASSUME NEW v, IsScreen(v), v.kind = "azItem", NEW w, Shape(v, w), NEW x, NEW op \in {"item", "setState", "commentItem"},
         Sent(x, op), x.about.item = v.id
  PROVE  Good(v, Asking(w, {x})) /\ Settled(Asking(w, {x}))
  <1>1. Asks(w, x) /\ AreCommands({x}) /\ x.to = "server"
    BY OneCommand DEF Asks, Shape, Sent, Own
  <1>2. QED
    BY <1>1, Asked DEF Plain, Kinds

LEMMA LoadItemGood ==
  ASSUME NEW v, IsScreen(v), v.kind = "azItem"
  PROVE  Good(v, LoadItem(v)) /\ Settled(LoadItem(v))
  <1> DEFINE x == Request("item", [item |-> v.id])
  <1>1. Sent(x, "item") /\ x.about.item = v.id
    BY RequestSent DEF Requests, ReadOps
  <1> HIDE DEF x
  <1>2. QED
    BY <1>1, ItemAsked, ShapeRefl DEF LoadItem, x

LEMMA AZItemUpdateGood ==
  ASSUME NEW v, IsScreen(v), v.kind = "azItem", NEW m
  PROVE  Heard(v, m, AZItemUpdate(v, m))
  <1> DEFINE r == AZItemUpdate(v, m)
             idle == [v EXCEPT !.busy = FALSE, !.loaded = TRUE]
             shown(s) == [idle EXCEPT !.state = s]
             done(w) == Shape(v, w) /\ w.busy = FALSE
  <1>1. \/ r = Stay(v) /\ ~Tells(v, m)
        \/ \E s : r = Stay(shown(s))
        \/ r = LoadItem(v)
    BY DEF AZItemUpdate, Tells
  <1>2. done(idle)
    BY DEF IsScreen, Shape
  <1> HIDE DEF idle
  <1>3. \A s : done(shown(s))
    BY <1>2 DEF IsScreen, Shape
  <1> HIDE DEF shown
  <1>4. \A w : done(w) => Good(v, Stay(w)) /\ Settled(Stay(w))
    BY Idle, NoCommand DEF Stay, Plain, Kinds
  <1>5. Good(v, Stay(v))
    BY Kept, NoCommand, ShapeRefl DEF Stay, Plain, Kinds
  <1> HIDE DEF done
  <1>6. QED
    BY <1>1, <1>3, <1>4, <1>5, LoadItemGood DEF Heard

LEMMA AZItemKeyGood ==
  ASSUME NEW v, IsScreen(v), v.kind = "azItem", NEW key, NEW r \in AZItemKey(v, key)
  PROVE  Good(v, r)
  <1> DEFINE shut == [v EXCEPT !.open = {}, !.at = "none"]
             picker == [v EXCEPT !.open = {"picker"}, !.at = v.state]
             comment == [v EXCEPT !.open = {"comment"}]
             kept(w) == Shape(v, w) /\ w.busy = v.busy
  <1>1. \/ r = Stay(shut) \/ r = Stay(picker) \/ r = Stay(comment)
        \/ r = Asking(shut, {CommentOn(v.id)})
        \/ \E s : r = Asking(shut, {SetState(v.id, s)})
        \/ r = LoadItem(v)
    BY DEF AZItemKey, StatePick
  <1>2. kept(shut) /\ kept(picker) /\ kept(comment)
    BY DEF IsScreen, Shape
  <1> HIDE DEF shut, picker, comment
  <1>3. Good(v, Stay(shut)) /\ Good(v, Stay(picker)) /\ Good(v, Stay(comment))
    BY <1>2, Kept, NoCommand DEF Stay, Plain, Kinds
  <1>4. Good(v, Asking(shut, {CommentOn(v.id)})) /\ \A s : Good(v, Asking(shut, {SetState(v.id, s)}))
    BY <1>2, ItemCommands, ItemAsked
  <1>5. QED
    BY <1>1, <1>3, <1>4, LoadItemGood

-----------------------------------------------------------------------------
(***************************************************************************)
(* The notes: a search, whose pane follows the cursor, or a browser.       *)
(***************************************************************************)
NotesShape(v, w) ==
    /\ DOMAIN w = DOMAIN v /\ DOMAIN w.preview = DOMAIN v.preview
    /\ w.kind = v.kind /\ w.busy \in BOOLEAN

SameRows(v, w) ==
    /\ w.layer = v.layer /\ w.found = v.found /\ w.cursor = v.cursor
    /\ w.rows = v.rows /\ w.at = v.at

SamePane(v, w) ==
    w.preview.on = v.preview.on /\ w.preview.slug = v.preview.slug /\ w.preview.gen = v.preview.gen

LEMMA NotesScreen ==
  ASSUME NEW v, IsScreen(v), v.kind = "notes", NEW w, NotesShape(v, w)
  PROVE  /\ IsScreen(w)
         /\ Waits(w) <=> w.layer = "search" /\ w.preview.on /\ ~(Selected(w) \subseteq {w.preview.slug})
  BY DEF IsScreen, NotesShape, Waits, Lists

LEMMA SelectedRows ==
  ASSUME NEW v, NEW w, SameRows(v, w)
  PROVE  Selected(w) = Selected(v)
  BY DEF SameRows, Selected

LEMMA SelectedOne ==
  ASSUME NEW v, NEW a \in Selected(v), NEW b \in Selected(v)
  PROVE  a = b
  BY DEF Selected, Current

LEMMA NotesKept ==
  ASSUME NEW v, IsScreen(v), v.kind = "notes", NEW w, NotesShape(v, w), SameRows(v, w), SamePane(v, w),
         NEW out, AreCommands(out)
  PROVE  Good(v, Res(w, out))
  <1>1. IsScreen(w) /\ Selected(w) = Selected(v)
    BY NotesScreen, SelectedRows
  <1>2. Waits(w) => Waits(v) /\ Alike(v, w)
    BY <1>1, NotesScreen DEF SameRows, SamePane, Alike, NotesShape, Waits
  <1>3. QED
    BY <1>1, <1>2 DEF Good, Settled, Res, AreCommands, NotesShape

LEMMA NotesAsked ==
  ASSUME NEW v, IsScreen(v), v.kind = "notes", NEW w, NotesShape(v, w), SameRows(v, w), SamePane(v, w),
         NEW x, Own(x)
  PROVE  Good(v, Asking(w, {x}))
  <1> DEFINE u == [w EXCEPT !.busy = TRUE]
  <1>1. IsScreen(w)
    BY NotesScreen
  <1>2. NotesShape(v, u) /\ SameRows(v, u) /\ SamePane(v, u)
    BY <1>1 DEF NotesShape, SameRows, SamePane, IsScreen
  <1>3. Asking(w, {x}) = Res(u, {x})
    BY DEF Asking
  <1> HIDE DEF u
  <1>4. QED
    BY <1>2, <1>3, NotesKept, OneCommand

LEMMA NotesCalm ==
  ASSUME NEW v, IsScreen(v), v.kind = "notes", NEW w, NotesShape(v, w), NEW out, AreCommands(out),
         \/ w.layer = "browse"
         \/ Selected(w) \subseteq {w.preview.slug}
         \/ ~w.preview.on
  PROVE  Good(v, Res(w, out)) /\ Settled(Res(w, out))
  BY NotesScreen DEF Good, Settled, Res, AreCommands, NotesShape

LEMMA SchedulePreviewGood ==
  ASSUME NEW v, IsScreen(v), v.kind = "notes", NEW w, NotesShape(v, w)
  PROVE  Good(v, SchedulePreview(w)) /\ Settled(SchedulePreview(w))
  <1> DEFINE wanted == Selected(w) \ {w.preview.slug}
             n == CHOOSE n \in wanted : TRUE
             shown == [w EXCEPT !.preview.slug = n]
             timed == [w EXCEPT !.preview.gen = @ + 1]
             x == Request("previewTick", [gen |-> w.preview.gen + 1])
  <1>1. IsScreen(w) /\ w.kind = "notes"
    BY NotesScreen DEF NotesShape
  <1>2. \/ SchedulePreview(w) = Res(w, {}) /\ (~w.preview.on \/ wanted = {})
        \/ SchedulePreview(w) = Res(shown, {}) /\ wanted # {}
        \/ SchedulePreview(w) = Res(timed, {x})
    BY DEF SchedulePreview, Stay
  <1>3. /\ NotesShape(v, shown) /\ SameRows(w, shown) /\ shown.preview.slug = n
        /\ NotesShape(v, timed) /\ SameRows(w, timed) /\ timed.preview.gen = w.preview.gen + 1
        /\ timed.kind = "notes"
    BY <1>1 DEF NotesShape, SameRows, IsScreen
  <1>4. wanted # {} => n \in Selected(w)
    OBVIOUS
  <1>5. Sent(x, "previewTick") /\ x.about.gen = w.preview.gen + 1
    <2>1. "previewTick" \in Requests
      BY DEF Requests, ReadOps
    <2>2. QED
      BY <2>1, RequestSent
  <1>6. wanted = {} => Selected(w) \subseteq {w.preview.slug}
    OBVIOUS
  <1> HIDE DEF wanted, n, shown, timed, x
  <1>7. CASE SchedulePreview(w) = Res(w, {}) /\ (~w.preview.on \/ wanted = {})
    BY <1>6, <1>7, NotesCalm, NoCommand
  <1>8. CASE SchedulePreview(w) = Res(shown, {}) /\ wanted # {}
    <2>1. Selected(shown) \subseteq {shown.preview.slug}
      BY <1>3, <1>4, <1>8, SelectedRows, SelectedOne
    <2>2. QED
      BY <1>3, <1>8, <2>1, NotesCalm, NoCommand
  <1>9. CASE SchedulePreview(w) = Res(timed, {x})
    <2>1. IsScreen(timed)
      BY <1>3, NotesScreen
    <2>2. Frees(timed, x) /\ Own(x)
      BY <1>3, <1>5 DEF Frees, Asks, Sent, Own
    <2>3. QED
      BY <1>3, <1>9, <2>1, <2>2 DEF Good, Settled, Res
  <1>10. QED
    BY <1>2, <1>7, <1>8, <1>9

LEMMA RebuiltShape ==
  ASSUME NEW v, IsScreen(v), v.kind = "notes", NEW w, NotesShape(v, w)
  PROVE  NotesShape(v, Rebuilt(w)) /\ Rebuilt(w).layer = w.layer
  BY NotesScreen DEF Rebuilt, NotesShape, IsScreen

LEMMA NotesUpdateGood ==
  ASSUME NEW v, IsScreen(v), v.kind = "notes", NEW m
  PROVE  Heard(v, m, NotesUpdate(v, m))
  <1> DEFINE r == NotesUpdate(v, m)
             idle == [v EXCEPT !.busy = FALSE]
             found == [idle EXCEPT !.found = m.about.found, !.cursor = 1]
             browse == [idle EXCEPT !.notes = m.about.notes, !.loaded = TRUE]
  <1>1. NotesShape(v, idle) /\ SameRows(v, idle) /\ SamePane(v, idle)
    BY DEF NotesShape, SameRows, SamePane, IsScreen
  <1>2. NotesShape(v, found) /\ NotesShape(v, browse)
    <2> HIDE DEF idle
    <2>1. QED
      BY <1>1 DEF NotesShape, IsScreen
  <1>3. NotesShape(v, v) /\ SameRows(v, v) /\ SamePane(v, v)
    BY DEF NotesShape, SameRows, SamePane, IsScreen
  <1>4. CASE m.op = "notesFound"
    <2>1. r = SchedulePreview(found)
      BY <1>4 DEF NotesUpdate
    <2> HIDE DEF found
    <2>2. QED
      BY <1>2, <2>1, SchedulePreviewGood DEF Heard
  <1>5. CASE m.op = "browseLoaded"
    <2>1. r = SchedulePreview(Rebuilt(browse))
      BY <1>5 DEF NotesUpdate
    <2> HIDE DEF browse
    <2>2. QED
      BY <1>2, <2>1, SchedulePreviewGood, RebuiltShape DEF Heard
  <1>6. CASE m.op = "previewTick"
    <2> DEFINE out == {GetNote("previewNote", n) : n \in Selected(v) \ {v.preview.slug}}
    <2>1. \/ r = Res(v, {}) /\ m.about.gen # v.preview.gen
          \/ r = Res(v, out)
      BY <1>6 DEF NotesUpdate, PreviewTick, Stay
    <2>2. \A n : Sent(GetNote("previewNote", n), "previewNote") /\ GetNote("previewNote", n).about.slug = n
      BY NoteCommands DEF NoteOps
    <2>3. AreCommands(out)
      BY <2>2 DEF AreCommands, Sent, Own
    <2>4. Good(v, Res(v, out)) /\ Good(v, Res(v, {}))
      <3> HIDE DEF out
      <3>1. QED
        BY <1>3, <2>3, NotesKept, NoCommand
    <2>5. Settled(Res(v, out))
      <3> SUFFICES ASSUME Waits(v) PROVE \E x \in out : Frees(v, x)
        BY DEF Settled, Res
      <3>1. PICK n \in Selected(v) : n # v.preview.slug
        BY DEF Waits, Lists
      <3>2. Frees(v, GetNote("previewNote", n))
        BY <2>2, <3>1 DEF Frees, Asks, Sent, Own
      <3>3. QED
        BY <3>1, <3>2
    <2>6. m.about.gen # v.preview.gen => ~Tells(v, m)
      BY <1>6 DEF Tells
    <2> HIDE DEF out
    <2>7. QED
      BY <2>1, <2>4, <2>5, <2>6 DEF Heard
  <1>7. CASE m.op = "previewLoaded"
    <2> DEFINE cache == IF m.about.found THEN v.preview.cache \cup {m.about.slug} ELSE v.preview.cache
               kept == [v EXCEPT !.preview.cache = cache]
               shown == [kept EXCEPT !.preview.slug = m.about.slug]
    <2>1. \/ r = Res(shown, {}) /\ m.about.slug \in Selected(v)
          \/ r = Res(kept, {}) /\ m.about.slug \notin Selected(v)
      BY <1>7 DEF NotesUpdate, PreviewLoaded, Stay
    <2> HIDE DEF cache
    <2>2. NotesShape(v, kept) /\ SameRows(v, kept) /\ SamePane(v, kept)
      BY DEF NotesShape, SameRows, SamePane, IsScreen
    <2> HIDE DEF kept
    <2>3. NotesShape(v, shown) /\ SameRows(v, shown) /\ shown.preview.slug = m.about.slug
      BY <2>2 DEF NotesShape, SameRows, IsScreen
    <2> HIDE DEF shown
    <2>4. CASE r = Res(shown, {}) /\ m.about.slug \in Selected(v)
      <3>1. Selected(shown) \subseteq {shown.preview.slug}
        BY <2>3, <2>4, SelectedRows, SelectedOne
      <3>2. QED
        BY <2>3, <2>4, <3>1, NotesCalm, NoCommand DEF Heard
    <2>5. CASE r = Res(kept, {}) /\ m.about.slug \notin Selected(v)
      <3>1. ~Tells(v, m)
        BY <1>7, <2>5 DEF Tells
      <3>2. QED
        BY <2>2, <2>5, <3>1, NotesKept, NoCommand DEF Heard
    <2>6. QED
      BY <2>1, <2>4, <2>5
  <1>8. CASE m.op = "openNote"
    <2>1. r = Res(idle, {Push(NewNote(m.about.note))}) /\ ~Tells(v, m)
      BY <1>8 DEF NotesUpdate, Tells
    <2> HIDE DEF idle
    <2>2. QED
      BY <1>1, <2>1, NotesKept, PushedNote, OneCommand DEF Heard
  <1>9. CASE m.op \notin {"notesFound", "browseLoaded", "previewTick", "previewLoaded", "openNote"}
    <2>1. r = Res(v, {}) /\ ~Tells(v, m)
      BY <1>9 DEF NotesUpdate, Tells, Stay
    <2>2. QED
      BY <1>3, <2>1, NotesKept, NoCommand DEF Heard
  <1>10. QED
    BY <1>4, <1>5, <1>6, <1>7, <1>8, <1>9

LEMMA SearchKeyGood ==
  ASSUME NEW v, IsScreen(v), v.kind = "notes", NEW key, NEW r \in SearchKey(v, key)
  PROVE  Good(v, r)
  <1> DEFINE browse == [v EXCEPT !.layer = "browse", !.open = {}]
             list == Request("listNotes", [by |-> "notes"])
             find == Request("searchNotes", [by |-> "notes"])
             shut == [v EXCEPT !.open = {}]
             slash == [v EXCEPT !.open = {"search"}]
             down == [v EXCEPT !.cursor = Down(@, v.found)]
             up == [v EXCEPT !.cursor = Up(@)]
             pane == [v EXCEPT !.preview.on = ~@]
             like(w) == NotesShape(v, w) /\ SameRows(v, w) /\ SamePane(v, w)
  <1>1. \/ r = SchedulePreview(browse)
        \/ r = Asking(browse, {list})
        \/ r = Res(shut, {}) \/ r = Asking(shut, {find}) \/ r = Res(slash, {})
        \/ r = SchedulePreview(down) \/ r = SchedulePreview(up) \/ r = SchedulePreview(pane)
        \/ \E n : r = Asking(v, {GetNote("openNote", n)})
    BY DEF SearchKey, EnterBrowse, LoadBrowse, Stay
  <1>2. /\ NotesShape(v, browse) /\ browse.layer = "browse"
        /\ like(shut) /\ like(slash) /\ like(v)
    BY DEF NotesShape, SameRows, SamePane, IsScreen
  <1>3. NotesShape(v, down) /\ NotesShape(v, up) /\ NotesShape(v, pane)
    BY DEF NotesShape, IsScreen
  <1>4. Own(list) /\ Own(find)
    BY RequestOwn DEF Requests, ReadOps
  <1>5. \A n : Own(GetNote("openNote", n))
    BY NoteCommands DEF NoteOps, Sent, Own
  <1>6. Good(v, Asking(browse, {list}))
    <2> DEFINE u == [browse EXCEPT !.busy = TRUE]
    <2>1. NotesShape(v, u) /\ u.layer = "browse"
      <3> HIDE DEF browse
      <3>1. QED
        BY <1>2 DEF NotesShape, IsScreen
    <2>2. Asking(browse, {list}) = Res(u, {list})
      BY DEF Asking
    <2> HIDE DEF u, list
    <2>3. QED
      BY <1>4, <2>1, <2>2, NotesCalm, OneCommand
  <1> HIDE DEF browse, list, find, shut, slash, down, up, pane
  <1>7. Good(v, Res(shut, {})) /\ Good(v, Res(slash, {}))
    BY <1>2, NotesKept, NoCommand
  <1>8. Good(v, Asking(shut, {find})) /\ \A n : Good(v, Asking(v, {GetNote("openNote", n)}))
    BY <1>2, <1>4, <1>5, NotesAsked
  <1> HIDE DEF like
  <1>9. QED
    BY <1>1, <1>2, <1>3, <1>6, <1>7, <1>8, SchedulePreviewGood

LEMMA BrowseStays ==
  ASSUME NEW v, IsScreen(v), v.kind = "notes", NEW w, NotesShape(v, w), w.layer = "browse"
  PROVE  /\ Good(v, Stay(w)) /\ Good(v, Stay(Rebuilt(w)))
         /\ \A x : Own(x) => Good(v, Asking(w, {x}))
  <1>1. NotesShape(v, Rebuilt(w)) /\ Rebuilt(w).layer = "browse"
    BY RebuiltShape
  <1>2. Good(v, Stay(w)) /\ Good(v, Stay(Rebuilt(w)))
    BY <1>1, NotesCalm, NoCommand DEF Stay
  <1>3. ASSUME NEW x, Own(x) PROVE Good(v, Asking(w, {x}))
    <2> DEFINE u == [w EXCEPT !.busy = TRUE]
    <2>1. IsScreen(w)
      BY NotesScreen
    <2>2. NotesShape(v, u) /\ u.layer = "browse"
      BY <2>1 DEF NotesShape, IsScreen
    <2>3. Asking(w, {x}) = Res(u, {x})
      BY DEF Asking
    <2> HIDE DEF u
    <2>4. QED
      BY <1>3, <2>2, <2>3, NotesCalm, OneCommand
  <1>4. QED
    BY <1>2, <1>3

LEMMA FilterKeyGood ==
  ASSUME NEW v, IsScreen(v), v.kind = "notes", v.layer = "browse", NEW key, NEW r \in FilterKey(v, key)
  PROVE  Good(v, r)
  <1> DEFINE search == [v EXCEPT !.open = {}, !.layer = "search"]
             clear == [v EXCEPT !.open = {}, !.filtered = FALSE]
             shut == [v EXCEPT !.open = {}]
             typed == [v EXCEPT !.filtered = TRUE]
  <1>1. \/ r = SchedulePreview(search) \/ r = Stay(Rebuilt(clear)) \/ r = Stay(shut)
        \/ r = SchedulePreview(Rebuilt(typed))
    BY DEF FilterKey
  <1>2. /\ NotesShape(v, search) /\ NotesShape(v, typed)
        /\ NotesShape(v, clear) /\ clear.layer = "browse"
        /\ NotesShape(v, shut) /\ shut.layer = "browse"
    BY DEF NotesShape, IsScreen
  <1> HIDE DEF search, clear, shut, typed
  <1>3. QED
    BY <1>1, <1>2, SchedulePreviewGood, BrowseStays, RebuiltShape

LEMMA LeaveBrowseGood ==
  ASSUME NEW v, IsScreen(v), v.kind = "notes"
  PROVE  Good(v, LeaveBrowse(v))
  <1> DEFINE empty == [v EXCEPT !.layer = "search", !.open = {"search"}]
             search == [v EXCEPT !.layer = "search"]
  <1>1. \/ v.found = <<>> /\ LeaveBrowse(v) = Res(empty, {})
        \/ LeaveBrowse(v) = SchedulePreview(search)
    BY DEF LeaveBrowse, Stay
  <1>2. /\ NotesShape(v, search)
        /\ NotesShape(v, empty) /\ empty.layer = "search" /\ empty.found = v.found
    BY DEF NotesShape, IsScreen
  <1> HIDE DEF empty, search
  <1>3. v.found = <<>> => Selected(empty) = {}
    <2> SUFFICES ASSUME v.found = <<>> PROVE Selected(empty) = {}
      OBVIOUS
    <2>1. DOMAIN empty.found = {}
      BY <1>2
    <2>2. Current(empty.found, empty.cursor) = {}
      BY <2>1 DEF Current
    <2>3. QED
      BY <1>2, <2>2 DEF Selected
  <1>4. QED
    BY <1>1, <1>2, <1>3, SchedulePreviewGood, NotesCalm, NoCommand

LEMMA BrowseKeyGood ==
  ASSUME NEW v, IsScreen(v), v.kind = "notes", v.layer = "browse", NEW key, NEW r \in BrowseKey(v, key)
  PROVE  Good(v, r)
  <1> DEFINE down == [v EXCEPT !.at = Down(@, v.rows)]
             up == [v EXCEPT !.at = Up(@)]
             unfold == [v EXCEPT !.expanded = ~@]
             fold == [v EXCEPT !.expanded = FALSE]
             above == [v EXCEPT !.at = IF v.filtered THEN @ ELSE 1]
             sorted == [v EXCEPT !.byTitle = ~@]
             pane == [v EXCEPT !.preview.on = ~@]
             filter == [v EXCEPT !.open = {"filter"}]
             list == Request("listNotes", [by |-> "notes"])
             fine(w) == NotesShape(v, w) /\ w.layer = "browse"
  <1>1. \/ r \in FilterKey(v, key)
        \/ r = LeaveBrowse(v)
        \/ r \in {SchedulePreview(down), SchedulePreview(up), SchedulePreview(v), SchedulePreview(above), SchedulePreview(pane)}
        \/ r \in {Stay(Rebuilt(unfold)), Stay(Rebuilt(fold)), Stay(Rebuilt(sorted)), Stay(filter)}
        \/ \E n : r = Asking(v, {GetNote("openNote", n)})
        \/ r = Asking(v, {list})
    BY DEF BrowseKey, OpenRow, LeftKey, LoadBrowse
  <1>2. /\ fine(down) /\ fine(up) /\ fine(unfold) /\ fine(fold) /\ fine(above) /\ fine(sorted) /\ fine(filter) /\ fine(v)
        /\ NotesShape(v, pane)
    BY DEF NotesShape, IsScreen
  <1>3. Own(list) /\ \A n : Own(GetNote("openNote", n))
    BY RequestOwn, NoteCommands DEF Requests, ReadOps, NoteOps, Sent, Own
  <1> HIDE DEF down, up, unfold, fold, above, sorted, pane, filter, list
  <1>4. /\ Good(v, SchedulePreview(down)) /\ Good(v, SchedulePreview(up)) /\ Good(v, SchedulePreview(v))
        /\ Good(v, SchedulePreview(above)) /\ Good(v, SchedulePreview(pane))
    BY <1>2, SchedulePreviewGood
  <1>5. /\ Good(v, Stay(Rebuilt(unfold))) /\ Good(v, Stay(Rebuilt(fold))) /\ Good(v, Stay(Rebuilt(sorted)))
        /\ Good(v, Stay(filter))
    BY <1>2, BrowseStays
  <1>6. Good(v, Asking(v, {list})) /\ \A n : Good(v, Asking(v, {GetNote("openNote", n)}))
    BY <1>2, <1>3, BrowseStays
  <1> HIDE DEF fine
  <1>7. QED
    BY <1>1, <1>4, <1>5, <1>6, FilterKeyGood, LeaveBrowseGood

LEMMA NotesKeyGood ==
  ASSUME NEW v, IsScreen(v), v.kind = "notes", NEW key, NEW r \in NotesKey(v, key)
  PROVE  Good(v, r)
  BY SearchKeyGood, BrowseKeyGood DEF NotesKey

-----------------------------------------------------------------------------
(***************************************************************************)
(* A note: the editor of a property keeps the version it was opened on.    *)
(***************************************************************************)
NoteShape(v, w) ==
    /\ DOMAIN w = DOMAIN v
    /\ w.kind = v.kind /\ w.busy \in BOOLEAN
    /\ "prop" \in w.open => w.propVersion = w.propSeen

LEMMA NoteFine ==
  ASSUME NEW v, IsScreen(v), v.kind = "note", NEW w, NoteShape(v, w)
  PROVE  /\ \A out : AreCommands(out) => Good(v, Res(w, out))
         /\ \A x : Own(x) => Good(v, Asking(w, {x}))
  <1>1. \A u : NoteShape(v, u) => IsScreen(u) /\ ~Waits(u)
    BY DEF IsScreen, NoteShape, Waits, Lists
  <1>2. \A out : AreCommands(out) => Good(v, Res(w, out))
    BY <1>1 DEF Good, Settled, Res, AreCommands, NoteShape
  <1>3. ASSUME NEW x, Own(x) PROVE Good(v, Asking(w, {x}))
    <2> DEFINE u == [w EXCEPT !.busy = TRUE]
    <2>1. NoteShape(v, u)
      BY DEF NoteShape, IsScreen
    <2>2. Asking(w, {x}) = Res(u, {x})
      BY DEF Asking
    <2> HIDE DEF u
    <2>3. QED
      BY <1>1, <1>3, <2>1, <2>2, OneCommand DEF Good, Settled, Res, AreCommands, NoteShape
  <1>4. QED
    BY <1>2, <1>3

LEMMA NoteSame ==
  ASSUME NEW v, IsScreen(v), v.kind = "note"
  PROVE  NoteShape(v, v)
  BY DEF NoteShape, IsScreen

LEMMA RebuildShape ==
  ASSUME NEW v, IsScreen(v), v.kind = "note", NEW w, NoteShape(v, w), NEW note
  PROVE  NoteShape(v, Rebuild(w, note))
  <1> DEFINE u == Rebuild(w, note)
  <1>1. DOMAIN u = DOMAIN w /\ u.kind = w.kind /\ u.busy = w.busy /\ u.propSeen = w.propSeen
    BY DEF Rebuild, NoteShape, IsScreen
  <1>2. /\ u.open = IF note.prop THEN w.open ELSE w.open \ {"prop"}
        /\ u.propVersion = IF note.prop THEN w.propVersion ELSE NoVersion
    BY DEF Rebuild, NoteShape, IsScreen
  <1> HIDE DEF u
  <1>3. QED
    BY <1>1, <1>2 DEF NoteShape, u

LEMMA NoteUpdateGood ==
  ASSUME NEW v, IsScreen(v), v.kind = "note", NEW m
  PROVE  Heard(v, m, NoteUpdate(v, m))
  <1> DEFINE r == NoteUpdate(v, m)
             idle == [v EXCEPT !.busy = FALSE]
             agents == [idle EXCEPT !.open = @ \cup {"agents"}]
             save(a) == Request("saveNote", a)
  <1>1. \/ r \in {Res(v, {}), Res(idle, {}), Res(agents, {})}
        \/ r = Res(idle, {Push(NewNote(m.about.note))})
        \/ \E a : r = Asking(v, {save(a)})
        \/ r = Res(Rebuild(idle, m.about.note), {})
        \/ r = Asking(v, {GetNote("reloadNote", v.note.slug)})
    BY DEF NoteUpdate, NoteEditorDone, ReloadNote, Stay
  <1>2. NoteShape(v, idle) /\ NoteShape(v, v)
    BY DEF NoteShape, IsScreen
  <1> HIDE DEF idle
  <1>3. NoteShape(v, agents)
    BY <1>2 DEF NoteShape, IsScreen
  <1>4. NoteShape(v, Rebuild(idle, m.about.note))
    BY <1>2, RebuildShape
  <1>5. Own(GetNote("reloadNote", v.note.slug)) /\ \A a : Own(save(a))
    BY NoteCommands, RequestSent DEF NoteOps, Requests, Sent, Own
  <1>6. AreCommands({}) /\ AreCommands({Push(NewNote(m.about.note))})
    BY PushedNote, OneCommand, NoCommand
  <1> HIDE DEF agents, save
  <1>7. /\ Good(v, Res(v, {})) /\ Good(v, Res(idle, {})) /\ Good(v, Res(agents, {}))
        /\ Good(v, Res(idle, {Push(NewNote(m.about.note))}))
        /\ Good(v, Res(Rebuild(idle, m.about.note), {}))
    BY <1>2, <1>3, <1>4, <1>6, NoteFine
  <1>8. /\ \A a : Good(v, Asking(v, {save(a)}))
        /\ Good(v, Asking(v, {GetNote("reloadNote", v.note.slug)}))
    BY <1>2, <1>5, NoteFine
  <1>9. Good(v, r)
    <2> HIDE DEF r
    <2>1. QED
      BY <1>1, <1>7, <1>8
  <1>10. ~Tells(v, m)
    BY DEF Tells
  <1>11. QED
    BY <1>9, <1>10 DEF Heard

LEMMA NotePromptKeyGood ==
  ASSUME NEW v, IsScreen(v), v.kind = "note", NEW key, NEW r \in NotePromptKey(v, key)
  PROVE  Good(v, r)
  <1> DEFINE closed == [v EXCEPT !.open = @ \ {"prop"}, !.propVersion = NoVersion]
             agents == [v EXCEPT !.open = @ \ {"agents"}]
             shut == [v EXCEPT !.open = @ \ {"del"}]
             prompt(id) == Request("promptAgent", [id |-> id])
  <1>1. \/ r \in {Res(closed, {}), Res(agents, {}), Res(shut, {})}
        \/ "prop" \in v.open /\ r = Asking(closed, {SaveProperty(v)})
        \/ \E id : r = Asking(agents, {prompt(id)})
        \/ \E q : r = Asking(shut, {DeleteTask(q)})
    BY DEF NotePromptKey, AgentsKey, Stay
  <1>2. NoteShape(v, closed) /\ NoteShape(v, agents) /\ NoteShape(v, shut)
    BY DEF NoteShape, IsScreen
  <1>3. "prop" \in v.open => Own(SaveProperty(v))
    BY DEF SaveProperty, IsCommand, Request, IsScreen, NoteOps, Own
  <1>4. \A id : Own(prompt(id)) /\ Own(DeleteTask(id))
    BY AgentsSent, TaskCommands DEF Sent, Own
  <1> HIDE DEF closed, agents, shut, prompt
  <1>5. Good(v, Res(closed, {})) /\ Good(v, Res(agents, {})) /\ Good(v, Res(shut, {}))
    BY <1>2, NoteFine, NoCommand
  <1>6. /\ "prop" \in v.open => Good(v, Asking(closed, {SaveProperty(v)}))
        /\ \A id : Good(v, Asking(agents, {prompt(id)})) /\ Good(v, Asking(shut, {DeleteTask(id)}))
    BY <1>2, <1>3, <1>4, NoteFine
  <1>7. QED
    BY <1>1, <1>5, <1>6

LEMMA NotePageKeyGood ==
  ASSUME NEW v, IsScreen(v), v.kind = "note", NEW key, NEW r \in NotePageKey(v, key)
  PROVE  Good(v, r)
  <1> DEFINE props == [v EXCEPT !.props = ~@]
             edit == [v EXCEPT !.open = {"prop"}, !.propVersion = v.note.version, !.propSeen = v.note.version]
             task == [v EXCEPT !.taskAt = IF @ = 0 THEN 1 ELSE 0]
             down == [v EXCEPT !.taskAt = Down(@, v.note.rows)]
             up == [v EXCEPT !.taskAt = Up(@)]
             link == [v EXCEPT !.linkAt = 1]
             del(q) == [v EXCEPT !.open = {"del"}, !.target = {q}]
             agents == Request("listAgents", [id |-> v.note.slug])
  <1>1. \/ r \in {Res(props, {}), Res(edit, {}), Res(task, {}), Res(down, {}), Res(up, {}), Res(link, {})}
        \/ r = Res(v, {}) \/ r = Res(v, {Edit("note", v.note.slug, v.note.version)})
        \/ \E q : r = Asking(v, {ToggleTask(q, q.status = "open")})
        \/ \E q : r = Res(del(q), {})
        \/ r = Asking(v, {GetNote("openNote", Links[v.note.slug])})
        \/ r = Asking(v, {agents})
    BY DEF NotePageKey, Ask, ListAgents, Stay
  <1>2. /\ NoteShape(v, props) /\ NoteShape(v, edit) /\ NoteShape(v, task) /\ NoteShape(v, down)
        /\ NoteShape(v, up) /\ NoteShape(v, link) /\ NoteShape(v, v)
        /\ \A q : NoteShape(v, del(q))
    BY DEF NoteShape, IsScreen
  <1>3. Own(agents) /\ Own(GetNote("openNote", Links[v.note.slug]))
    BY AgentsSent, NoteCommands DEF NoteOps, Sent, Own
  <1>4. \A q : Own(ToggleTask(q, q.status = "open"))
    BY TaskCommands DEF Sent, Own
  <1>5. AreCommands({Edit("note", v.note.slug, v.note.version)})
    BY AppCommands, OneCommand
  <1> HIDE DEF props, edit, task, down, up, link, del, agents
  <1>6. /\ Good(v, Res(props, {})) /\ Good(v, Res(edit, {})) /\ Good(v, Res(task, {})) /\ Good(v, Res(down, {}))
        /\ Good(v, Res(up, {})) /\ Good(v, Res(link, {})) /\ Good(v, Res(v, {}))
        /\ \A q : Good(v, Res(del(q), {}))
    BY <1>2, NoteFine, NoCommand
  <1>7. /\ Good(v, Res(v, {Edit("note", v.note.slug, v.note.version)}))
        /\ \A q : Good(v, Asking(v, {ToggleTask(q, q.status = "open")}))
        /\ Good(v, Asking(v, {GetNote("openNote", Links[v.note.slug])}))
        /\ Good(v, Asking(v, {agents}))
    BY <1>2, <1>3, <1>4, <1>5, NoteFine
  <1>8. QED
    BY <1>1, <1>6, <1>7

LEMMA NoteKeyGood ==
  ASSUME NEW v, IsScreen(v), v.kind = "note", NEW key, NEW r \in NoteKey(v, key)
  PROVE  Good(v, r)
  BY NotePromptKeyGood, NotePageKeyGood DEF NoteKey

-----------------------------------------------------------------------------
(***************************************************************************)
(* The themes.                                                             *)
(***************************************************************************)
LEMMA ThemesList == Themes \in Seq(ThemeNames) /\ DOMAIN Themes = 1..Len(Themes) /\ Len(Themes) \in Nat \ {0}
  <1>1. Themes \in Seq(ThemeNames) /\ Len(Themes) > 0
    BY TuiConstants
  <1>2. Len(Themes) \in Nat /\ DOMAIN Themes = 1..Len(Themes)
    BY <1>1
  <1>3. QED
    BY <1>1, <1>2

LEMMA ThemeKeyGood ==
  ASSUME NEW v, IsScreen(v), v.kind = "theme", NEW key
  PROVE  /\ \A r \in ThemeKey(v, key) : Good(v, r)
         /\ ThemeAfter(v, key) \in ThemeNames \/ ThemeAfter(v, key) = theme
  <1> DEFINE down == [v EXCEPT !.cursor = Down(@, Themes)]
             up == [v EXCEPT !.cursor = Up(@)]
  <1>1. v.cursor \in DOMAIN Themes /\ v.original \in ThemeNames
    BY DEF IsScreen
  <1>2. Down(v.cursor, Themes) \in DOMAIN Themes /\ Up(v.cursor) \in DOMAIN Themes
    BY <1>1, ThemesList DEF Down, Up
  <1>3. /\ DOMAIN down = DOMAIN v /\ down.kind = "theme" /\ down.busy = v.busy
        /\ down.cursor \in DOMAIN Themes /\ down.original = v.original
        /\ DOMAIN up = DOMAIN v /\ up.kind = "theme" /\ up.busy = v.busy
        /\ up.cursor \in DOMAIN Themes /\ up.original = v.original
    BY <1>2 DEF IsScreen
  <1>4. \A r \in ThemeKey(v, key) : r \in {Res(down, {}), Res(up, {}), Res(v, {Pop})}
    BY DEF ThemeKey, Stay
  <1> HIDE DEF down, up
  <1>5. IsScreen(down) /\ IsScreen(up) /\ ~Waits(down) /\ ~Waits(up) /\ ~Waits(v)
    BY <1>1, <1>3 DEF IsScreen, Waits, Lists
  <1>6. Good(v, Res(down, {})) /\ Good(v, Res(up, {})) /\ Good(v, Res(v, {Pop}))
    BY <1>3, <1>5, AppCommands DEF Good, Settled, Res
  <1>7. \A i \in DOMAIN Themes : Themes[i] \in ThemeNames
    BY ThemesList
  <1>8. ThemeAfter(v, key) \in {theme, v.original, Themes[v.cursor], Themes[Down(v.cursor, Themes)], Themes[Up(v.cursor)]}
    BY DEF ThemeAfter
  <1>9. QED
    BY <1>1, <1>2, <1>4, <1>6, <1>7, <1>8

(***************************************************************************)
(* Every screen, by its kind.                                              *)
(***************************************************************************)
LEMMA StayGood ==
  ASSUME NEW v, IsScreen(v)
  PROVE  Good(v, Stay(v))
  BY ShapeRefl DEF Good, Settled, Stay, Res

LEMMA InitOfGood ==
  ASSUME NEW v, IsScreen(v)
  PROVE  Good(v, InitOf(v)) /\ (~Waits(v) => Settled(InitOf(v)))
  <1>1. Shape(v, v)
    BY ShapeRefl
  <1>2. Good(v, InitOf(v))
    <2>1. CASE v.kind = "today"
      BY <1>1, <2>1, TodayInitGood DEF InitOf
    <2>2. CASE v.kind = "tasks"
      BY <1>1, <2>2, TasksInitGood DEF InitOf
    <2>3. CASE v.kind = "boards"
      BY <2>3, BoardsInitGood DEF InitOf
    <2>4. CASE v.kind = "board"
      BY <2>4, ReloadGood DEF InitOf
    <2>5. CASE v.kind = "card"
      BY <2>5, CardInitGood DEF InitOf
    <2>6. CASE v.kind = "bases"
      BY <2>6, BasesInitGood DEF InitOf
    <2>7. CASE v.kind = "source"
      BY <2>7, LoadSourceGood DEF InitOf
    <2>8. CASE v.kind = "sources"
      BY <2>8, SourcesGood DEF InitOf
    <2>9. CASE v.kind = "azBoard"
      BY <1>1, <2>9, LoadAZGood DEF InitOf
    <2>10. CASE v.kind = "azItem"
      BY <2>10, LoadItemGood DEF InitOf
    <2>11. CASE v.kind \in {"addTask", "theme", "notes", "note"}
      BY <2>11, StayGood DEF InitOf
    <2>12. QED
      BY <2>1, <2>2, <2>3, <2>4, <2>5, <2>6, <2>7, <2>8, <2>9, <2>10, <2>11 DEF IsScreen, Kinds
  <1>3. QED
    BY <1>2 DEF Good

LEMMA UpdateOfGood ==
  ASSUME NEW v, IsScreen(v), NEW m, IsCommand(m), m.to = "views"
  PROVE  Heard(v, m, UpdateOf(v, m))
  <1>1. CASE v.kind = "today"
    BY <1>1, TodayUpdateGood DEF UpdateOf
  <1>2. CASE v.kind = "tasks"
    BY <1>2, TasksUpdateGood DEF UpdateOf
  <1>3. CASE v.kind = "boards"
    BY <1>3, BoardsUpdateGood DEF UpdateOf
  <1>4. CASE v.kind = "board"
    BY <1>4, BoardUpdateGood DEF UpdateOf
  <1>5. CASE v.kind = "card"
    BY <1>5, CardUpdateGood DEF UpdateOf
  <1>6. CASE v.kind = "addTask"
    BY <1>6, AddTaskUpdateGood DEF UpdateOf
  <1>7. CASE v.kind = "notes"
    BY <1>7, NotesUpdateGood DEF UpdateOf
  <1>8. CASE v.kind = "note"
    BY <1>8, NoteUpdateGood DEF UpdateOf
  <1>9. CASE v.kind = "bases"
    BY <1>9, BasesUpdateGood DEF UpdateOf
  <1>10. CASE v.kind = "source"
    BY <1>10, SourceUpdateGood DEF UpdateOf
  <1>11. CASE v.kind = "sources"
    BY <1>11, SourcesGood DEF UpdateOf
  <1>12. CASE v.kind = "azBoard"
    BY <1>12, AZBoardUpdateGood DEF UpdateOf
  <1>13. CASE v.kind = "azItem"
    BY <1>13, AZItemUpdateGood DEF UpdateOf
  <1>14. CASE v.kind = "theme"
    BY <1>14, StayGood DEF UpdateOf, Heard, Tells
  <1>15. QED
    BY <1>1, <1>2, <1>3, <1>4, <1>5, <1>6, <1>7, <1>8, <1>9, <1>10, <1>11, <1>12, <1>13, <1>14
       DEF IsScreen, Kinds

LEMMA KeyOfGood ==
  ASSUME NEW v, IsScreen(v), NEW key, NEW r \in KeyOf(v, key)
  PROVE  Good(v, r)
  <1>1. CASE v.kind = "today"
    BY <1>1, TodayKeyGood DEF KeyOf
  <1>2. CASE v.kind = "tasks"
    BY <1>2, TasksKeyGood DEF KeyOf
  <1>3. CASE v.kind = "boards"
    BY <1>3, BoardsKeyGood DEF KeyOf
  <1>4. CASE v.kind = "board"
    BY <1>4, BoardKeyGood DEF KeyOf
  <1>5. CASE v.kind = "card"
    BY <1>5, CardKeyGood DEF KeyOf
  <1>6. CASE v.kind = "addTask"
    BY <1>6, AddTaskKeyGood DEF KeyOf
  <1>7. CASE v.kind = "notes"
    BY <1>7, NotesKeyGood DEF KeyOf
  <1>8. CASE v.kind = "note"
    BY <1>8, NoteKeyGood DEF KeyOf
  <1>9. CASE v.kind = "bases"
    BY <1>9, BasesKeyGood DEF KeyOf
  <1>10. CASE v.kind = "source"
    BY <1>10, SourceKeyGood DEF KeyOf
  <1>11. CASE v.kind = "sources"
    BY <1>11, SourcesGood DEF KeyOf
  <1>12. CASE v.kind = "azBoard"
    BY <1>12, AZBoardKeyGood DEF KeyOf
  <1>13. CASE v.kind = "azItem"
    BY <1>13, AZItemKeyGood DEF KeyOf
  <1>14. CASE v.kind = "theme"
    BY <1>14, ThemeKeyGood DEF KeyOf
  <1>15. QED
    BY <1>1, <1>2, <1>3, <1>4, <1>5, <1>6, <1>7, <1>8, <1>9, <1>10, <1>11, <1>12, <1>13, <1>14
       DEF IsScreen, Kinds

\* The screens that the program opens itself do not wait.
LEMMA OpenedScreens ==
  /\ \A o \in DOMAIN Roots : IsScreen(Roots[o]) /\ ~Waits(Roots[o])
  /\ IsScreen(NewAddTask) /\ ~Waits(NewAddTask)
  /\ theme \in ThemeNames => IsScreen(NewTheme) /\ ~Waits(NewTheme)
  <1>1. /\ IsScreen(NewToday) /\ IsScreen(NewTasks) /\ IsScreen(NewBoards) /\ IsScreen(NewSource)
        /\ IsScreen(NewBases) /\ IsScreen(NewSources) /\ IsScreen(NewAddTask)
    BY DEF IsScreen, NewToday, NewTasks, NewBoards, NewSource, NewBases, NewSources, NewAddTask, Kinds
  <1>2. /\ ~Waits(NewToday) /\ ~Waits(NewTasks) /\ ~Waits(NewBoards) /\ ~Waits(NewSource)
        /\ ~Waits(NewBases) /\ ~Waits(NewSources) /\ ~Waits(NewAddTask)
    BY DEF Waits, NewToday, NewTasks, NewBoards, NewSource, NewBases, NewSources, NewAddTask, Lists
  <1>3. IsScreen(NewNotes) /\ Selected(NewNotes) = {}
    BY DEF IsScreen, NewNotes, Kinds, Selected, Current
  <1>4. ~Waits(NewNotes)
    BY <1>3 DEF Waits, NewNotes, Lists
  <1>5. ASSUME theme \in ThemeNames PROVE IsScreen(NewTheme) /\ ~Waits(NewTheme)
    <2>1. \E i \in DOMAIN Themes : Themes[i] = theme
      BY <1>5 DEF ThemeNames, ToSet
    <2>2. NewTheme.cursor \in DOMAIN Themes /\ NewTheme.original = theme
      BY <2>1 DEF NewTheme
    <2>3. DOMAIN NewTheme = {"kind", "open", "busy", "original", "cursor"} /\ NewTheme.kind = "theme" /\ NewTheme.busy = FALSE
      BY DEF NewTheme
    <2>4. QED
      BY <1>5, <2>2, <2>3 DEF IsScreen, Waits, Lists, Kinds
  <1>6. QED
    BY <1>1, <1>2, <1>3, <1>4, <1>5 DEF Roots

(***************************************************************************)
(* The lists of boards.                                                    *)
(***************************************************************************)
LEMMA BoardsInOrder ==
  \A i \in DOMAIN SetToSeq(Boards) : SetToSeq(Boards)[i] \in Boards
  <1> DEFINE n == Cardinality(Boards)
  <1>1. ExistsBijection(1..n, Boards)
    BY TuiConstants, FS_CardinalityType
  <1>2. \E f \in [1..n -> Boards] : IsInjective(f)
    BY <1>1 DEF ExistsBijection, Bijection, Injection
  <1>3. SetToSeq(Boards) \in [1..n -> Boards]
    BY <1>2 DEF SetToSeq
  <1>4. QED
    BY <1>3

(***************************************************************************)
(* An answer ends the waits that its request would have ended.             *)
(***************************************************************************)
Serves(r, x) == IsCommand(x) /\ \A v : IsScreen(v) /\ Frees(v, r) => Frees(v, x)

LEMMA FailedServes == \A r : Serves(r, Failed)
  BY DEF Serves, IsCommand, Frees, Failed

\* What a message says decides which screens it frees.
LEMMA MessageServes ==
  ASSUME NEW r, r.to = "server", NEW op, NEW about, op # "boardsLoaded",
         NEW x, x = Message(op, about),
         \A v : IsScreen(v) /\ Asks(v, r) => Tells(v, x)
  PROVE  Serves(r, x)
  <1>1. x.to = "views" /\ x.op = op
    BY DEF Message
  <1>2. QED
    BY <1>1 DEF Serves, IsCommand, Frees

LEMMA TaskServed ==
  ASSUME NEW s, NEW r, r.to = "server", r.op \in TaskOps, NEW answer \in TaskAnswers(s, r)
  PROVE  Serves(r, answer[2])
  <1> DEFINE x == answer[2]
  <1>1. CASE r.op = "toggleTask"
    <2>1. x = Failed \/ \E about : x = Message("taskToggled", about)
      BY <1>1 DEF TaskAnswers, Answered, Refused
    <2>2. \A about, v : Asks(v, r) => Tells(v, Message("taskToggled", about))
      BY <1>1 DEF Asks, Tells, Message
    <2> HIDE DEF x
    <2>3. QED
      BY <2>1, <2>2, MessageServes, FailedServes DEF x
  <1>2. CASE r.op = "deleteTask"
    <2>1. x = Failed \/ (\E about : x = Message("taskPurged", about)) \/ (\E about : x = Message("taskCancelled", about))
      BY <1>2 DEF TaskAnswers, Answered, Refused
    <2>2. /\ \A about, v : Asks(v, r) => Tells(v, Message("taskPurged", about))
          /\ \A about, v : Asks(v, r) => Tells(v, Message("taskCancelled", about))
      BY <1>2 DEF Asks, Tells, Message
    <2> HIDE DEF x
    <2>3. QED
      BY <2>1, <2>2, MessageServes, FailedServes DEF x
  <1>3. CASE r.op = "saveTaskEdit"
    <2>1. x = Failed \/ \E about : x = Message("editSaved", about)
      BY <1>3 DEF TaskAnswers, Answered, Refused
    <2>2. \A about, v : Asks(v, r) => Tells(v, Message("editSaved", about))
      BY <1>3 DEF Asks, Tells, Message
    <2> HIDE DEF x
    <2>3. QED
      BY <2>1, <2>2, MessageServes, FailedServes DEF x
  <1>4. CASE r.op = "hideFile"
    <2>1. x = Failed \/ \E about : x = Message("fileHidden", about)
      BY <1>4 DEF TaskAnswers, Answered, Refused
    <2>2. \A about, v : Asks(v, r) => Tells(v, Message("fileHidden", about))
      BY <1>4 DEF Asks, Tells, Message
    <2> HIDE DEF x
    <2>3. QED
      BY <2>1, <2>2, MessageServes, FailedServes DEF x
  <1>5. CASE r.op = "addTask"
    <2>1. x = Message("taskAdded", r.about)
      BY <1>5 DEF TaskAnswers, Answered, Refused
    <2>2. \A v : ~Asks(v, r)
      BY <1>5 DEF Asks
    <2> HIDE DEF x
    <2>3. QED
      BY <2>1, <2>2, MessageServes DEF x
  <1>6. QED
    BY <1>1, <1>2, <1>3, <1>4, <1>5 DEF TaskOps

LEMMA CardServed ==
  ASSUME NEW s, NEW r, r.to = "server", r.op \in CardOps, NEW answer \in CardAnswers(s, r)
  PROVE  Serves(r, answer[2])
  <1> DEFINE x == answer[2]
  <1>1. CASE r.op = "archiveCard"
    <2>1. x = Failed \/ x = CardArchived(s, r.about)
      BY <1>1 DEF CardAnswers, Answered, Refused, Found
    <2>2. \A v : Asks(v, r) => Tells(v, CardArchived(s, r.about))
      BY <1>1 DEF Asks, Tells, Message, CardArchived
    <2> HIDE DEF x
    <2>3. QED
      BY <2>1, <2>2, MessageServes, FailedServes DEF x, CardArchived
  <1>2. CASE r.op = "moveCard"
    <2>1. x = Failed \/ x = Message("cardSaved", [card |-> "none"])
      BY <1>2 DEF CardAnswers, Answered, Refused, Found
    <2>2. \A v : Asks(v, r) => Tells(v, Message("cardSaved", [card |-> "none"]))
      BY <1>2 DEF Asks, Tells, Message
    <2> HIDE DEF x
    <2>3. QED
      BY <2>1, <2>2, MessageServes, FailedServes DEF x
  <1>3. CASE r.op = "restoreCard"
    <2>1. x = Failed \/ x = Message("cardRestored", r.about)
      BY <1>3 DEF CardAnswers, Answered, Refused, Found
    <2>2. \A v : Asks(v, r) => Tells(v, Message("cardRestored", r.about))
      BY <1>3 DEF Asks, Tells, Message
    <2> HIDE DEF x
    <2>3. QED
      BY <2>1, <2>2, MessageServes, FailedServes DEF x
  <1>4. CASE r.op = "moveCardToBoard"
    <2>1. x = Failed \/ x = Message("cardMovedBoard", r.about)
      BY <1>4 DEF CardAnswers, Answered, Refused, Found
    <2>2. \A v : Asks(v, r) => Tells(v, Message("cardMovedBoard", r.about))
      BY <1>4 DEF Asks, Tells, Message
    <2> HIDE DEF x
    <2>3. QED
      BY <2>1, <2>2, MessageServes, FailedServes DEF x
  <1>5. CASE r.op = "deleteCard"
    <2>1. x = Failed \/ x = Message("cardDeleted", r.about)
      BY <1>5 DEF CardAnswers, Answered, Refused, Found
    <2>2. \A v : Asks(v, r) => Tells(v, Message("cardDeleted", r.about))
      BY <1>5 DEF Asks, Tells, Message
    <2> HIDE DEF x
    <2>3. QED
      BY <2>1, <2>2, MessageServes, FailedServes DEF x
  <1>6. CASE r.op \in {"patchCard", "toggleBox", "addComment"}
    <2>1. \/ x = Failed
          \/ x = CardArchived(s, r.about)
          \/ \E after : x = CardSaved(after, r.about.card)
      <3>1. CASE r.op = "patchCard"
        <4>1. answer \in {PatchCard(s, r.about)} \/ answer \in Refused(s)
          BY <3>1 DEF CardAnswers, Found
        <4>2. PatchCard(s, r.about)[2] = CardArchived(s, r.about) \/ \E after : PatchCard(s, r.about)[2] = CardSaved(after, r.about.card)
          BY DEF PatchCard, Answered
        <4>3. QED
          BY <4>1, <4>2 DEF Refused
      <3>2. CASE r.op = "toggleBox"
        <4>1. answer \in ToggleBox(s, r.about) \/ answer \in Refused(s)
          BY <3>2 DEF CardAnswers, Found
        <4>2. \A q \in ToggleBox(s, r.about) : q[2] = Failed \/ \E after : q[2] = CardSaved(after, r.about.card)
          BY DEF ToggleBox, Answered, Refused
        <4>3. QED
          BY <4>1, <4>2 DEF Refused
      <3>3. CASE r.op = "addComment"
        <4>1. x = Failed \/ x = CardSaved(s, r.about.card)
          BY <3>3 DEF CardAnswers, Answered, Refused, Found
        <4>2. QED
          BY <4>1
      <3>4. QED
        BY <1>6, <3>1, <3>2, <3>3
    <2>2. \A v : ~Asks(v, r)
      BY <1>6 DEF Asks
    <2> HIDE DEF x
    <2>3. QED
      BY <2>1, <2>2, MessageServes, FailedServes DEF x, CardArchived, CardSaved
  <1>7. CASE r.op = "createCard"
    <2>1. x = Message("cardCreated", [board |-> r.about.board])
      BY <1>7 DEF CardAnswers, Answered, Refused, Found
    <2>2. \A v : Asks(v, r) => Tells(v, Message("cardCreated", [board |-> r.about.board]))
      BY <1>7 DEF Asks, Tells, Message
    <2> HIDE DEF x
    <2>3. QED
      BY <2>1, <2>2, MessageServes DEF x
  <1>8. QED
    BY <1>1, <1>2, <1>3, <1>4, <1>5, <1>6, <1>7 DEF CardOps

LEMMA NoteServed ==
  ASSUME NEW s, NEW r, r.to = "server", r.op \in NoteOps, NEW answer \in NoteAnswers(s, r)
  PROVE  Serves(r, answer[2])
  <1> DEFINE x == answer[2]
  <1>1. CASE r.op = "previewNote"
    <2>1. x = Message("previewLoaded", [slug |-> r.about.slug, found |-> TRUE])
      BY <1>1 DEF NoteAnswers, Answered
    <2>2. \A v : Asks(v, r) => Tells(v, Message("previewLoaded", [slug |-> r.about.slug, found |-> TRUE]))
      BY <1>1 DEF Asks, Tells, Message
    <2> HIDE DEF x
    <2>3. QED
      BY <2>1, <2>2, MessageServes DEF x
  <1>2. CASE r.op # "previewNote"
    <2> DEFINE op == CASE r.op = "saveNote" -> "noteSaved"
                       [] r.op = "setProperty" /\ r.about.by = "note" -> "notePropertySaved"
                       [] r.op = "setProperty" /\ r.about.by # "note" -> "basePropSaved"
                       [] r.op = "openNote" -> "openNote"
                       [] r.op = "reloadNote" -> "noteReloaded"
                       [] r.op = "propNote" -> "basePropEditor"
                       [] r.op = "listAgents" -> "agentsListed"
                       [] OTHER -> "agentPromptSent"
    <2>1. x = Failed \/ \E about : x = Message(op, about)
      <3>1. CASE r.op = "saveNote"
        BY <3>1 DEF NoteAnswers, Answered, Refused
      <3>2. CASE r.op = "setProperty"
        <4>1. CASE r.about.by = "note"
          BY <3>2, <4>1 DEF NoteAnswers, Answered, Refused
        <4>2. CASE r.about.by # "note"
          BY <3>2, <4>2 DEF NoteAnswers, Answered, Refused
        <4>3. QED
          BY <4>1, <4>2
      <3>3. CASE r.op = "openNote"
        BY <3>3 DEF NoteAnswers, Answered, Refused
      <3>4. CASE r.op = "reloadNote"
        BY <3>4 DEF NoteAnswers, Answered, Refused
      <3>5. CASE r.op = "propNote"
        BY <3>5 DEF NoteAnswers, Answered, Refused
      <3>6. CASE r.op = "listAgents"
        BY <3>6 DEF NoteAnswers, Answered
      <3>7. CASE r.op = "promptAgent"
        BY <3>7 DEF NoteAnswers, Answered
      <3>8. QED
        BY <1>2, <3>1, <3>2, <3>3, <3>4, <3>5, <3>6, <3>7 DEF NoteOps
    <2>2. \A v : ~Asks(v, r)
      BY <1>2 DEF Asks, NoteOps
    <2>3. op # "boardsLoaded"
      OBVIOUS
    <2> HIDE DEF x, op
    <2>4. QED
      BY <2>1, <2>2, <2>3, MessageServes, FailedServes DEF x
  <1>3. QED
    BY <1>1, <1>2

\* The list of boards goes to the screen that asked for it.
LEMMA BoardsServed ==
  ASSUME NEW r, r.to = "server", r.op = "listBoards"
  PROVE  Serves(r, BoardsListed(r.about))
  <1> DEFINE x == BoardsListed(r.about)
  <1>1. CASE r.about.board = "none"
    <2>1. x.to = "views" /\ x.op = "boardsLoaded" /\ x.about.boards = SetToSeq(Boards)
      BY <1>1 DEF BoardsListed, Message
    <2>2. \A v : IsScreen(v) /\ Frees(v, r) => v.kind = "boards"
      BY <1>1, TuiConstants DEF Frees, Asks, IsScreen
    <2>3. IsCommand(x)
      BY <2>1, BoardsInOrder DEF IsCommand
    <2> HIDE DEF x
    <2>4. QED
      BY <2>1, <2>2, <2>3 DEF Serves, Frees, Tells, x
  <1>2. CASE r.about.board \in {"source", "card"}
    <2>1. \A v : IsScreen(v) => ~Asks(v, r)
      BY <1>2, TuiConstants DEF Asks, IsScreen
    <2>2. (\E about : x = Message("sourcePullBoards", about)) \/ (\E about : x = Message("cardMovePicker", about))
      BY <1>2 DEF BoardsListed
    <2> HIDE DEF x
    <2>3. QED
      BY <2>1, <2>2, MessageServes DEF x
  <1>3. CASE r.about.board \notin {"none", "source", "card"}
    <2>1. x = Message("boardMovePicker", [board |-> r.about.board, card |-> r.about.card, boards |-> Boards])
      BY <1>3 DEF BoardsListed
    <2>2. \A v : Asks(v, r) => v.kind = "board" /\ r.about.board = v.name
      BY <1>3 DEF Asks
    <2>3. x.op = "boardMovePicker" /\ x.about.board = r.about.board
      BY <2>1 DEF Message
    <2> HIDE DEF x
    <2>4. \A v : Asks(v, r) => Tells(v, x)
      BY <2>2, <2>3 DEF Tells
    <2>5. QED
      BY <2>1, <2>4, MessageServes DEF x
  <1>4. QED
    BY <1>1, <1>2, <1>3

LEMMA ReadServed ==
  ASSUME NEW s, NEW r, r.to = "server", r.op \in ReadOps, NEW answer \in ReadAnswers(s, r)
  PROVE  Serves(r, answer[2])
  <1> DEFINE x == answer[2]
  <1>1. CASE r.op = "getBoard"
    <2> DEFINE about == [board |-> r.about.board, cards |-> OnBoard(s, r.about.board, FALSE)]
    <2>1. x = Message("boardLoaded", about)
      BY <1>1 DEF ReadAnswers, Answered
    <2> HIDE DEF x
    <2>2. \A v : Asks(v, r) => Tells(v, Message("boardLoaded", about))
      BY <1>1 DEF Asks, Tells, Message
    <2> HIDE DEF about
    <2>3. QED
      BY <2>1, <2>2, MessageServes DEF x
  <1>2. CASE r.op = "listArchive"
    <2> DEFINE about == [board |-> r.about.board, cards |-> OnBoard(s, r.about.board, TRUE)]
    <2>1. x = Message("archiveLoaded", about)
      BY <1>2 DEF ReadAnswers, Answered
    <2> HIDE DEF x
    <2>2. \A v : Asks(v, r) => Tells(v, Message("archiveLoaded", about))
      BY <1>2 DEF Asks, Tells, Message
    <2> HIDE DEF about
    <2>3. QED
      BY <2>1, <2>2, MessageServes DEF x
  <1>3. CASE r.op = "listTasks"
    <2> DEFINE about == [rows |-> Listed(s, r.about.preset)]
    <2>1. x = Message("tasksLoaded", about)
      BY <1>3 DEF ReadAnswers, Answered
    <2> HIDE DEF x
    <2>2. \A v : Asks(v, r) => Tells(v, Message("tasksLoaded", about))
      BY <1>3 DEF Asks, Tells, Message
    <2> HIDE DEF about
    <2>3. QED
      BY <2>1, <2>2, MessageServes DEF x
  <1>4. CASE r.op = "dueItems"
    <2> DEFINE about == [rows |-> Due(s, r.about.showDone)]
    <2>1. x = Message("todayLoaded", about)
      BY <1>4 DEF ReadAnswers, Answered
    <2> HIDE DEF x
    <2>2. \A v : Asks(v, r) => Tells(v, Message("todayLoaded", about))
      BY <1>4 DEF Asks, Tells, Message
    <2> HIDE DEF about
    <2>3. QED
      BY <2>1, <2>2, MessageServes DEF x
  <1>5. CASE r.op = "previewTick"
    <2> DEFINE about == r.about
    <2>1. x = Message("previewTick", about)
      BY <1>5 DEF ReadAnswers, Answered
    <2> HIDE DEF x
    <2>2. \A v : Asks(v, r) => Tells(v, Message("previewTick", about))
      BY <1>5 DEF Asks, Tells, Message
    <2> HIDE DEF about
    <2>3. QED
      BY <2>1, <2>2, MessageServes DEF x
  <1>6. CASE r.op = "setState"
    <2> DEFINE about == r.about
    <2>1. x = Message("azStateSet", about)
      BY <1>6 DEF ReadAnswers, Answered
    <2> HIDE DEF x
    <2>2. \A v : Asks(v, r) => Tells(v, Message("azStateSet", about))
      BY <1>6 DEF Asks, Tells, Message
    <2> HIDE DEF about
    <2>3. QED
      BY <2>1, <2>2, MessageServes DEF x
  <1>7. CASE r.op = "commentItem"
    <2> DEFINE about == r.about
    <2>1. x = Message("azCommented", about)
      BY <1>7 DEF ReadAnswers, Answered
    <2> HIDE DEF x
    <2>2. \A v : Asks(v, r) => Tells(v, Message("azCommented", about))
      BY <1>7 DEF Asks, Tells, Message
    <2> HIDE DEF about
    <2>3. QED
      BY <2>1, <2>2, MessageServes DEF x
  <1>8. CASE r.op = "health"
    <2> DEFINE about == r.about
    <2>1. x = Message("sourcesLoaded", about)
      BY <1>8 DEF ReadAnswers, Answered
    <2> HIDE DEF x
    <2>2. \A v : Asks(v, r) => Tells(v, Message("sourcesLoaded", about))
      BY <1>8 DEF Asks, Tells, Message
    <2> HIDE DEF about
    <2>3. QED
      BY <2>1, <2>2, MessageServes DEF x
  <1>9. CASE r.op = "item"
    <2> DEFINE about == [item |-> r.about.item, failed |-> FALSE, state |-> s.item[r.about.item]]
    <2>1. x = Message("azItem", about)
      BY <1>9 DEF ReadAnswers, Answered
    <2> HIDE DEF x
    <2>2. \A v : Asks(v, r) => Tells(v, Message("azItem", about))
      BY <1>9 DEF Asks, Tells, Message
    <2> HIDE DEF about
    <2>3. QED
      BY <2>1, <2>2, MessageServes DEF x
  <1>10. CASE r.op = "boardItems"
    <2> DEFINE items == IF r.about.mine THEN SubSeq(ItemRows(s), 1, 1) ELSE ItemRows(s)
               about == [mine |-> r.about.mine, failed |-> FALSE, items |-> items]
    <2> HIDE DEF items
    <2>1. x = Message("azItems", about)
      BY <1>10 DEF ReadAnswers, Answered, items
    <2> HIDE DEF x
    <2>2. \A v : Asks(v, r) => Tells(v, Message("azItems", about))
      BY <1>10 DEF Asks, Tells, Message
    <2> HIDE DEF about
    <2>3. QED
      BY <2>1, <2>2, MessageServes DEF x
  <1>11. CASE r.op = "listBoards"
    BY <1>11, BoardsServed DEF ReadAnswers, Answered
  <1>12. CASE r.op \in {"searchNotes", "listNotes", "listBases", "getBase", "sourceItems", "commentSource"}
    <2>1. \E op, about : op # "boardsLoaded" /\ x = Message(op, about)
      <3>1. CASE r.op = "searchNotes"
        <4>1. answer \in SearchAnswers(s, r.about.by)
          BY <3>1 DEF ReadAnswers
        <4>2. (\E about : x = Message("notesFound", about)) \/ (\E about : x = Message("addTaskResults", about))
          BY <4>1 DEF SearchAnswers, Answered
        <4>3. QED
          BY <4>2
      <3>2. CASE r.op = "listNotes"
        <4>1. \E about : x = Message("browseLoaded", about)
          BY <3>2 DEF ReadAnswers, Answered
        <4>2. QED
          BY <4>1
      <3>3. CASE r.op = "listBases"
        <4>1. \E about : x = Message("basesList", about)
          BY <3>3 DEF ReadAnswers, Answered
        <4>2. QED
          BY <4>1
      <3>4. CASE r.op = "getBase"
        <4>1. \E about : x = Message("baseData", about)
          BY <3>4 DEF ReadAnswers, Answered
        <4>2. QED
          BY <4>1
      <3>5. CASE r.op = "sourceItems"
        <4>1. \E about : x = Message("sourceItems", about)
          BY <3>5 DEF ReadAnswers, Answered
        <4>2. QED
          BY <4>1
      <3>6. CASE r.op = "commentSource"
        <4>1. \E about : x = Message("sourceCommented", about)
          BY <3>6 DEF ReadAnswers, Answered
        <4>2. QED
          BY <4>1
      <3>7. QED
        BY <1>12, <3>1, <3>2, <3>3, <3>4, <3>5, <3>6
    <2>2. \A v : ~Asks(v, r)
      BY <1>12 DEF Asks
    <2> HIDE DEF x
    <2>3. QED
      BY <2>1, <2>2, MessageServes DEF x
  <1>13. QED
    BY <1>1, <1>2, <1>3, <1>4, <1>5, <1>6, <1>7, <1>8, <1>9, <1>10, <1>11, <1>12 DEF ReadOps

LEMMA AnswerServes ==
  ASSUME NEW s, NEW r, IsCommand(r), r.to = "server", NEW answer \in Answers(s, r)
  PROVE  Serves(r, answer[2])
  <1>1. /\ TaskOps \cap CardOps = {} /\ TaskOps \cap NoteOps = {} /\ TaskOps \cap ReadOps = {}
        /\ CardOps \cap NoteOps = {} /\ CardOps \cap ReadOps = {} /\ NoteOps \cap ReadOps = {}
    BY DEF TaskOps, CardOps, NoteOps, ReadOps
  <1>2. CASE r.op \in TaskOps
    <2>1. Answers(s, r) = TaskAnswers(s, r)
      BY <1>1, <1>2 DEF Answers
    <2>2. QED
      BY <1>2, <2>1, TaskServed
  <1>3. CASE r.op \in CardOps
    <2>1. Answers(s, r) = CardAnswers(s, r)
      BY <1>1, <1>3 DEF Answers
    <2>2. QED
      BY <1>3, <2>1, CardServed
  <1>4. CASE r.op \in NoteOps
    <2>1. Answers(s, r) = NoteAnswers(s, r)
      BY <1>1, <1>4 DEF Answers
    <2>2. QED
      BY <1>4, <2>1, NoteServed
  <1>5. CASE r.op \in ReadOps
    <2>1. Answers(s, r) = ReadAnswers(s, r)
      BY <1>1, <1>5 DEF Answers
    <2>2. QED
      BY <1>5, <2>1, ReadServed
  <1>6. QED
    BY <1>2, <1>3, <1>4, <1>5 DEF IsCommand

LEMMA FailureServes ==
  ASSUME NEW r, r.to = "server", NEW x \in FailedAnswer(r)
  PROVE  Serves(r, x)
  <1>1. CASE r.op = "previewNote"
    <2> DEFINE about == [slug |-> r.about.slug, found |-> FALSE]
    <2>1. x = Message("previewLoaded", about)
      BY <1>1 DEF FailedAnswer
    <2>2. \A v : Asks(v, r) => Tells(v, Message("previewLoaded", about))
      BY <1>1 DEF Asks, Tells, Message
    <2> HIDE DEF about
    <2>3. QED
      BY <2>1, <2>2, MessageServes
  <1>2. CASE r.op = "boardItems"
    <2> DEFINE about == [mine |-> r.about.mine, failed |-> TRUE]
    <2>1. x = Message("azItems", about)
      BY <1>2 DEF FailedAnswer
    <2>2. \A v : Asks(v, r) => Tells(v, Message("azItems", about))
      BY <1>2 DEF Asks, Tells, Message
    <2> HIDE DEF about
    <2>3. QED
      BY <2>1, <2>2, MessageServes
  <1>3. CASE r.op = "item"
    <2> DEFINE about == [failed |-> TRUE]
    <2>1. x = Message("azItem", about)
      BY <1>3 DEF FailedAnswer
    <2>2. about.failed = TRUE
      OBVIOUS
    <2> HIDE DEF about
    <2>3. \A v : Asks(v, r) => Tells(v, Message("azItem", about))
      BY <1>3, <2>2 DEF Asks, Tells, Message
    <2>4. QED
      BY <2>1, <2>3, MessageServes
  <1>4. CASE r.op \notin {"previewNote", "boardItems", "item"}
    <2>1. x = Failed
      BY <1>4 DEF FailedAnswer
    <2>2. QED
      BY <2>1, FailedServes
  <1>5. QED
    BY <1>1, <1>2, <1>3, <1>4

(***************************************************************************)
(* Bags of commands.                                                       *)
(***************************************************************************)
LEMMA BagOfSet == \A S : IsABag(SetToBag(S)) /\ BagToSet(SetToBag(S)) = S
  BY DEF IsABag, SetToBag, BagToSet

LEMMA BagJoined ==
  ASSUME NEW A, NEW B, IsABag(A), IsABag(B)
  PROVE  IsABag(A (+) B) /\ BagToSet(A (+) B) = BagToSet(A) \cup BagToSet(B)
  BY DEF IsABag, BagToSet, (+)

LEMMA BagTaken ==
  ASSUME NEW x, IsABag(flight)
  PROVE  /\ IsABag(Taken(x)) /\ BagToSet(Taken(x)) \subseteq Commands
         /\ \A y \in Commands : y # x => y \in BagToSet(Taken(x))
  <1> DEFINE B == [e \in DOMAIN flight |-> IF e \in {x} THEN flight[e] - 1 ELSE flight[e]]
             D == {d \in DOMAIN B : B[d] > 0}
  <1>1. Taken(x) = [e \in D |-> B[e]]
    BY DEF Taken, SetToBag, (-)
  <1>2. \A e \in DOMAIN flight : flight[e] \in Nat /\ flight[e] > 0
    BY DEF IsABag
  <1>3. D \subseteq DOMAIN flight /\ \A e \in D : B[e] \in Nat /\ B[e] > 0
    BY <1>2
  <1>4. \A y \in DOMAIN flight : y # x => y \in D
    BY <1>2
  <1> HIDE DEF D, B
  <1>5. QED
    BY <1>1, <1>3, <1>4 DEF IsABag, BagToSet, Commands

LEMMA BagStarted ==
  ASSUME NEW results, IsFiniteSet(DOMAIN results)
  PROVE  /\ IsABag(AllStarted(results))
         /\ BagToSet(AllStarted(results)) = (UNION {results[i].out : i \in DOMAIN results}) \ {Panic}
  <1> DEFINE all == (UNION {results[i].out : i \in DOMAIN results}) \ {Panic}
             by(x) == {i \in DOMAIN results : x \in results[i].out}
  <1>1. \A x \in all : Cardinality(by(x)) \in Nat /\ Cardinality(by(x)) > 0
    <2> TAKE x \in all
    <2>1. by(x) # {} /\ by(x) \in SUBSET (DOMAIN results)
      OBVIOUS
    <2>2. IsFiniteSet(by(x))
      BY <2>1, FS_Subset
    <2> HIDE DEF by
    <2>3. Cardinality(by(x)) \in Nat /\ Cardinality(by(x)) # 0
      BY <2>1, <2>2, FS_CardinalityType, FS_EmptySet
    <2>4. QED
      BY <2>3
  <1>2. AllStarted(results) = [x \in all |-> Cardinality(by(x))]
    BY DEF AllStarted
  <1> HIDE DEF all, by
  <1>3. IsABag(AllStarted(results)) /\ BagToSet(AllStarted(results)) = all
    BY <1>1, <1>2 DEF IsABag, BagToSet
  <1>4. QED
    BY <1>3 DEF all

(***************************************************************************)
(* Stacks of screens.                                                      *)
(***************************************************************************)
LEMMA OwnSeq ==
  ASSUME NEW S, NEW s \in Seq(S)
  PROVE  s \in Seq(ToSet(s)) /\ DOMAIN s = 1..Len(s) /\ Len(s) \in Nat
  BY DEF ToSet

LEMMA FrontStack ==
  ASSUME NEW S, NEW s \in Seq(S), Len(s) > 1
  PROVE  /\ Front(s) \in Seq(S) /\ Len(Front(s)) > 0
         /\ \A i \in DOMAIN Front(s) : i \in DOMAIN s /\ Front(s)[i] = s[i]
  BY DEF Front

LEMMA Pushed ==
  ASSUME NEW S, NEW s \in Seq(S), NEW v
  PROVE  /\ Append(s, v) \in Seq(S \cup {v}) /\ Len(Append(s, v)) > 0
         /\ \A i \in DOMAIN Append(s, v) : (i \in DOMAIN s /\ Append(s, v)[i] = s[i]) \/ Append(s, v)[i] = v
  <1>1. s \in Seq(S \cup {v}) /\ v \in S \cup {v}
    OBVIOUS
  <1>2. QED
    BY <1>1

LEMMA Replaced ==
  ASSUME NEW S, NEW s \in Seq(S), Len(s) > 0, NEW v
  PROVE  /\ [s EXCEPT ![Len(s)] = v] \in Seq(S \cup {v}) /\ Len([s EXCEPT ![Len(s)] = v]) > 0
         /\ DOMAIN [s EXCEPT ![Len(s)] = v] = DOMAIN s
         /\ [s EXCEPT ![Len(s)] = v][Len(s)] = v
         /\ \A i \in DOMAIN s : i # Len(s) => [s EXCEPT ![Len(s)] = v][i] = s[i]
  <1>1. s \in Seq(S \cup {v}) /\ v \in S \cup {v} /\ Len(s) \in DOMAIN s
    OBVIOUS
  <1>2. QED
    BY <1>1

(***************************************************************************)
(* The invariant, step by step.                                            *)
(***************************************************************************)
LEMMA Opening ==
  ASSUME NEW o \in Starts, o \in {"board", "card"} => Boards # {}
  PROVE  /\ OpeningStack(o) \in Seq(ToSet(OpeningStack(o))) /\ Len(OpeningStack(o)) > 0
         /\ \A i \in DOMAIN OpeningStack(o) : IsScreen(OpeningStack(o)[i]) /\ ~Waits(OpeningStack(o)[i])
  <1>1. \A v : IsScreen(v) /\ ~Waits(v) =>
            /\ <<v>> \in Seq(ToSet(<<v>>)) /\ Len(<<v>>) > 0
            /\ \A i \in DOMAIN <<v>> : IsScreen(<<v>>[i]) /\ ~Waits(<<v>>[i])
    BY DEF ToSet
  <1>2. \A v, w : IsScreen(v) /\ ~Waits(v) /\ IsScreen(w) /\ ~Waits(w) =>
            /\ <<v, w>> \in Seq(ToSet(<<v, w>>)) /\ Len(<<v, w>>) > 0
            /\ \A i \in DOMAIN <<v, w>> : IsScreen(<<v, w>>[i]) /\ ~Waits(<<v, w>>[i])
    BY DEF ToSet
  <1>3. IsScreen(OpenedBoards) /\ ~Waits(OpenedBoards)
    <2>1. /\ DOMAIN OpenedBoards = {"kind", "rows", "cursor", "busy", "open"}
          /\ OpenedBoards.kind = "boards" /\ OpenedBoards.busy = FALSE /\ OpenedBoards.rows = SetToSeq(Boards)
      BY DEF OpenedBoards, NewBoards
    <2>2. QED
      BY <2>1, BoardsInOrder DEF IsScreen, Waits, Lists, Kinds
  <1>4. CASE o \in DOMAIN Roots
    <2>1. OpeningStack(o) = <<Roots[o]>>
      BY <1>4 DEF OpeningStack, Roots
    <2>2. QED
      BY <1>1, <1>4, <2>1, OpenedScreens
  <1>5. CASE o = "board"
    <2>1. FirstBoard \in Boards
      BY <1>5 DEF FirstBoard
    <2>2. IsScreen(NewBoard(FirstBoard)) /\ ~Waits(NewBoard(FirstBoard))
      BY <2>1, PushedBoard DEF IsCommand, Push, Own
    <2>3. OpeningStack(o) = <<OpenedBoards, NewBoard(FirstBoard)>>
      BY <1>5 DEF OpeningStack, Roots
    <2>4. QED
      BY <1>2, <1>3, <2>2, <2>3
  <1>6. CASE o = "card"
    <2> DEFINE board == [NewBoard(FirstBoard) EXCEPT !.cards = OnBoard(Start, FirstBoard, FALSE)]
               card == NewCard(FirstBoard, CardRow(Start, CardOrder[1]), FALSE)
    <2>1. FirstBoard \in Boards
      BY <1>6 DEF FirstBoard
    <2>2. IsScreen(board) /\ ~Waits(board)
      <3>1. /\ DOMAIN board = DOMAIN NewBoard(FirstBoard) /\ board.kind = "board" /\ board.busy = FALSE
            /\ board.open = {} /\ board.name = FirstBoard
        BY DEF NewBoard
      <3>2. {"kind", "busy", "open", "name", "cards", "archive", "archiveLoaded"} \subseteq DOMAIN NewBoard(FirstBoard)
        BY DEF NewBoard
      <3> HIDE DEF board
      <3>3. QED
        BY <2>1, <3>1, <3>2 DEF IsScreen, Waits, Lists, Kinds
    <2>3. IsScreen(card) /\ ~Waits(card)
      BY PushedCard DEF IsCommand, Push, Own
    <2>4. OpeningStack(o) = <<board, card>>
      BY <1>6 DEF OpeningStack, Roots
    <2> HIDE DEF board, card
    <2>5. QED
      BY <1>2, <2>2, <2>3, <2>4
  <1>7. CASE o = "azBoard"
    <2>1. IsScreen(NewAZBoard) /\ ~Waits(NewAZBoard)
      BY DEF NewAZBoard, IsScreen, Waits, Lists, Kinds
    <2>2. OpeningStack(o) = <<OpenedBoards, NewAZBoard>>
      BY <1>7 DEF OpeningStack, Roots
    <2>3. QED
      BY <1>2, <1>3, <2>1, <2>2
  <1>8. CASE o = "note"
    <2> DEFINE note == NewNote(NoteShown(Start, NoteOrder[1]))
               pane == [on |-> TRUE, slug |-> NoteOrder[1], cache |-> {}, gen |-> 0]
    <2>1. IsScreen(note) /\ ~Waits(note)
      BY PushedNote DEF IsCommand, Push, Own
    <2>2. /\ FoundNotes.kind = "notes" /\ FoundNotes.layer = "search" /\ FoundNotes.cursor = 1
          /\ FoundNotes.found = NoteOrder /\ FoundNotes.busy = FALSE /\ FoundNotes.preview = pane
          /\ DOMAIN FoundNotes = DOMAIN NewNotes
      BY DEF FoundNotes, NewNotes
    <2>3. /\ {"kind", "busy", "open", "layer", "found", "cursor", "rows", "at", "preview"} \subseteq DOMAIN NewNotes
          /\ pane.slug = NoteOrder[1] /\ {"on", "slug", "gen"} \subseteq DOMAIN pane
      BY DEF NewNotes
    <2> HIDE DEF pane, note
    <2>4. Selected(FoundNotes) \subseteq {NoteOrder[1]}
      BY <2>2 DEF Selected, Current
    <2>5. IsScreen(FoundNotes) /\ ~Waits(FoundNotes)
      BY <2>2, <2>3, <2>4 DEF IsScreen, Waits, Lists, Kinds
    <2>6. OpeningStack(o) = <<FoundNotes, note>>
      BY <1>8 DEF OpeningStack, Roots, note
    <2>7. QED
      BY <1>2, <2>1, <2>5, <2>6
  <1>9. QED
    BY <1>4, <1>5, <1>6, <1>7, <1>8 DEF Starts, Roots

LEMMA PanicFreesNone == \A v : ~Frees(v, Panic)
  BY DEF Frees, Panic

\* A screen that asks for its data does not stop the program.
LEMMA CalmStart ==
  ASSUME NEW v
  PROVE  Panic \notin InitOf(v).out
  <1>1. \A w, x : x # Panic => Panic \notin Asking(w, {x}).out
    BY DEF Asking, Res
  <1>2. \A w : Panic \notin Stay(w).out
    BY DEF Stay, Res
  <1>3. \A op, about : Request(op, about) # Panic
    <2>1. \A op, about : Request(op, about).to = "server"
      BY DEF Request
    <2>2. Panic.to = "app"
      BY DEF Panic
    <2>3. QED
      BY <2>1, <2>2
  <1>4. Panic \notin CardInit(v).out
    <2>1. \A kind, id, text : Edit(kind, id, text) # Panic
      <3>1. \A kind, id, text : Edit(kind, id, text).op = "exec"
        BY DEF Edit
      <3>2. Panic.op = "panic"
        BY DEF Panic
      <3>3. QED
        BY <3>1, <3>2
    <2>2. QED
      BY <1>2, <2>1 DEF CardInit, EditCard, Res
  <1>5. /\ Panic \notin TodayInit(v).out /\ Panic \notin TasksInit(v).out /\ Panic \notin BoardsInit(v).out
        /\ Panic \notin Reload(v).out /\ Panic \notin BasesInit(v).out /\ Panic \notin LoadSource(v).out
        /\ Panic \notin SourcesInit(v).out /\ Panic \notin LoadAZ(v).out /\ Panic \notin LoadItem(v).out
    BY <1>1, <1>3 DEF TodayInit, TasksInit, BoardsInit, Reload, BasesInit, LoadSource, SourcesInit, LoadAZ, LoadItem,
       LoadToday, LoadTasks, LoadBoard
  <1>6. QED
    BY <1>2, <1>4, <1>5 DEF InitOf

LEMMA InvInit == Init => Inv
  <1> SUFFICES ASSUME Init PROVE Inv
    OBVIOUS
  <1> DEFINE opening == OpeningStack(session.start)
             top == InitOf(opening[Len(opening)])
  <1>1. /\ session.start \in Starts
        /\ session.start \in {"board", "card"} => Boards # {}
    BY SessionsAssumption DEF Init
  <1>2. /\ opening \in Seq(ToSet(opening)) /\ Len(opening) > 0
        /\ \A i \in DOMAIN opening : IsScreen(opening[i]) /\ ~Waits(opening[i])
    BY <1>1, Opening
  <1>3. stack = [opening EXCEPT ![Len(opening)] = top.view] /\ flight = SetToBag(top.out)
    BY DEF Init
  <1>4. theme \in ThemeNames /\ crashed \in BOOLEAN
    <2>1. theme = Themes[1] /\ crashed = FALSE
      BY DEF Init
    <2>2. Themes[1] \in ThemeNames
      BY ThemesList
    <2>3. QED
      BY <2>1, <2>2
  <1> HIDE DEF opening
  <1>5. Len(opening) \in DOMAIN opening
    BY <1>2
  <1>6. Good(opening[Len(opening)], top) /\ Settled(top) /\ Panic \notin top.out
    BY <1>2, <1>5, InitOfGood, CalmStart
  <1> HIDE DEF top
  <1>7. /\ stack \in Seq(ToSet(opening) \cup {top.view}) /\ Len(stack) > 0
        /\ DOMAIN stack = DOMAIN opening /\ stack[Len(opening)] = top.view
        /\ \A i \in DOMAIN stack : i # Len(opening) => stack[i] = opening[i]
    BY <1>2, <1>3, Replaced
  <1>8. stack \in Seq(ToSet(stack))
    BY <1>7, OwnSeq
  <1>9. IsABag(flight) /\ Commands = top.out
    BY <1>3, BagOfSet DEF Commands
  <1>10. \A i \in DOMAIN stack : IsScreen(stack[i])
    BY <1>2, <1>6, <1>7 DEF Good, Own
  <1>11. \A x \in Commands : IsCommand(x)
    BY <1>6, <1>9 DEF Good, Own
  <1>12. \A i \in DOMAIN stack : Waits(stack[i]) => \E x \in Commands : Frees(stack[i], x)
    BY <1>2, <1>6, <1>7, <1>9 DEF Settled
  <1>13. QED
    BY <1>4, <1>7, <1>8, <1>9, <1>10, <1>11, <1>12 DEF Inv

\* What is left on its way may be all that was, or all but one command that no
\* screen waits for.
Remains(rest) ==
    /\ IsABag(rest) /\ BagToSet(rest) \subseteq Commands
    /\ \A x \in Commands : x \in BagToSet(rest) \/ \A v : ~Frees(v, x)

LEMMA AllRemains == IsABag(flight) => Remains(flight)
  BY DEF Remains, Commands

LEMMA OneTaken ==
  ASSUME NEW x, IsABag(flight), \A v : ~Frees(v, x)
  PROVE  Remains(Taken(x))
  BY BagTaken DEF Remains

LEMMA StartedCommands ==
  ASSUME NEW rest, IsABag(rest), NEW out, Started(rest, out)
  PROVE  /\ IsABag(flight') /\ Commands' = BagToSet(rest) \cup (out \ {Panic})
         /\ crashed' \in BOOLEAN
  <1>1. IsABag(SetToBag(out \ {Panic})) /\ BagToSet(SetToBag(out \ {Panic})) = out \ {Panic}
    BY BagOfSet
  <1>2. flight' = rest (+) SetToBag(out \ {Panic}) /\ crashed' \in BOOLEAN
    BY DEF Started
  <1>3. QED
    BY <1>1, <1>2, BagJoined DEF Commands

LEMMA TopStep ==
  ASSUME Inv, NEW r, Good(Top, r), NEW rest, Remains(rest), OnTop(r), Started(rest, r.out),
         told' = told, theme' \in ThemeNames
  PROVE  Inv'
  <1>1. /\ stack \in Seq(ToSet(stack)) /\ Len(stack) > 0 /\ Len(stack) \in DOMAIN stack
        /\ \A i \in DOMAIN stack : IsScreen(stack[i])
        /\ ~told => \A i \in DOMAIN stack : Waits(stack[i]) => \E x \in Commands : Frees(stack[i], x)
        /\ \A x \in Commands : IsCommand(x)
    BY OwnSeq DEF Inv
  <1>2. stack' = [stack EXCEPT ![Len(stack)] = r.view]
    BY DEF OnTop
  <1>3. /\ stack' \in Seq(ToSet(stack) \cup {r.view}) /\ Len(stack') > 0
        /\ DOMAIN stack' = DOMAIN stack /\ stack'[Len(stack)] = r.view
        /\ \A i \in DOMAIN stack : i # Len(stack) => stack'[i] = stack[i]
    BY <1>1, <1>2, Replaced
  <1>4. stack' \in Seq(ToSet(stack'))
    BY <1>3, OwnSeq
  <1>5. IsABag(flight') /\ Commands' = BagToSet(rest) \cup (r.out \ {Panic}) /\ crashed' \in BOOLEAN
    BY StartedCommands DEF Remains
  <1>6. \A x \in Commands' : IsCommand(x)
    BY <1>1, <1>5 DEF Good, Remains, Own
  <1>7. \A i \in DOMAIN stack' : IsScreen(stack'[i])
    BY <1>1, <1>3 DEF Good, Own
  <1>8. \A x \in Commands : \A v : Frees(v, x) => x \in Commands'
    BY <1>5 DEF Remains
  <1>9. ~told => (Waits(r.view) => \E x \in Commands' : Frees(r.view, x))
    <2> SUFFICES ASSUME ~told, Waits(r.view) PROVE \E x \in Commands' : Frees(r.view, x)
      OBVIOUS
    <2>1. CASE Settled(r)
      BY <1>5, <2>1, PanicFreesNone DEF Settled
    <2>2. CASE Waits(Top) /\ Alike(Top, r.view)
      <3>1. PICK x \in Commands : Frees(Top, x)
        BY <1>1, <2>2 DEF Top
      <3>2. Frees(r.view, x) /\ x \in Commands'
        BY <1>8, <2>2, <3>1, AlikeFrees
      <3>3. QED
        BY <3>2
    <2>3. QED
      BY <2>1, <2>2 DEF Good, Own
  <1>10. ~told' => \A i \in DOMAIN stack' : Waits(stack'[i]) => \E x \in Commands' : Frees(stack'[i], x)
    <2> SUFFICES ASSUME ~told, NEW i \in DOMAIN stack', Waits(stack'[i])
                 PROVE  \E x \in Commands' : Frees(stack'[i], x)
      OBVIOUS
    <2>1. CASE i = Len(stack)
      BY <1>3, <1>9, <2>1
    <2>2. CASE i # Len(stack)
      BY <1>1, <1>3, <1>8, <2>2
    <2>3. QED
      BY <2>1, <2>2
  <1>11. QED
    BY <1>3, <1>4, <1>5, <1>6, <1>7, <1>10 DEF Inv

LEMMA OpenStep ==
  ASSUME Inv, NEW v, IsScreen(v), ~Waits(v), NEW below \in {<<>>, stack}, NEW rest, Remains(rest),
         stack' = Append(below, InitOf(v).view), Started(rest, InitOf(v).out),
         told' = told, theme' \in ThemeNames
  PROVE  Inv'
  <1> DEFINE r == InitOf(v)
  <1>1. /\ stack \in Seq(ToSet(stack))
        /\ \A i \in DOMAIN stack : IsScreen(stack[i])
        /\ ~told => \A i \in DOMAIN stack : Waits(stack[i]) => \E x \in Commands : Frees(stack[i], x)
        /\ \A x \in Commands : IsCommand(x)
    BY DEF Inv
  <1>2. Good(v, r) /\ Settled(r)
    BY InitOfGood
  <1>3. IsABag(flight') /\ Commands' = BagToSet(rest) \cup (r.out \ {Panic}) /\ crashed' \in BOOLEAN
    BY StartedCommands DEF Remains
  <1> HIDE DEF r
  <1>4. below \in Seq(ToSet(stack)) /\ \A i \in DOMAIN below : i \in DOMAIN stack /\ below[i] = stack[i]
    <2>1. CASE below = <<>>
      <3>1. <<>> \in Seq(ToSet(stack)) /\ DOMAIN <<>> = {}
        OBVIOUS
      <3>2. QED
        BY <2>1, <3>1
    <2>2. CASE below = stack
      BY <1>1, <2>2
    <2>3. QED
      BY <2>1, <2>2
  <1>5. /\ stack' \in Seq(ToSet(stack) \cup {r.view}) /\ Len(stack') > 0
        /\ \A i \in DOMAIN stack' : (i \in DOMAIN stack /\ stack'[i] = stack[i]) \/ stack'[i] = r.view
    BY <1>4, Pushed DEF r
  <1>6. stack' \in Seq(ToSet(stack'))
    BY <1>5, OwnSeq
  <1>7. \A x \in Commands' : IsCommand(x)
    BY <1>1, <1>2, <1>3 DEF Good, Remains, Own
  <1>8. \A i \in DOMAIN stack' : IsScreen(stack'[i])
    BY <1>1, <1>2, <1>5 DEF Good, Own
  <1>9. \A x \in Commands : \A w : Frees(w, x) => x \in Commands'
    BY <1>3 DEF Remains
  <1>10. ~told' => \A i \in DOMAIN stack' : Waits(stack'[i]) => \E x \in Commands' : Frees(stack'[i], x)
    <2> SUFFICES ASSUME ~told, NEW i \in DOMAIN stack', Waits(stack'[i])
                 PROVE  \E x \in Commands' : Frees(stack'[i], x)
      OBVIOUS
    <2>1. CASE stack'[i] = r.view
      BY <1>2, <1>3, <2>1, PanicFreesNone DEF Settled
    <2>2. CASE i \in DOMAIN stack /\ stack'[i] = stack[i]
      BY <1>1, <1>9, <2>2
    <2>3. QED
      BY <1>5, <2>1, <2>2
  <1>11. QED
    BY <1>3, <1>5, <1>6, <1>7, <1>8, <1>10 DEF Inv

LEMMA ShutStep ==
  ASSUME Inv, Remains(flight'), told' = told, theme' \in ThemeNames, crashed' \in BOOLEAN,
         stack' = stack \/ (Len(stack) > 1 /\ stack' = Front(stack))
  PROVE  Inv'
  <1>1. /\ stack \in Seq(ToSet(stack)) /\ Len(stack) > 0
        /\ \A i \in DOMAIN stack : IsScreen(stack[i])
        /\ ~told => \A i \in DOMAIN stack : Waits(stack[i]) => \E x \in Commands : Frees(stack[i], x)
        /\ \A x \in Commands : IsCommand(x)
    BY DEF Inv
  <1>2. /\ stack' \in Seq(ToSet(stack)) /\ Len(stack') > 0
        /\ \A i \in DOMAIN stack' : i \in DOMAIN stack /\ stack'[i] = stack[i]
    BY <1>1, FrontStack
  <1>3. stack' \in Seq(ToSet(stack'))
    BY <1>2, OwnSeq
  <1>4. /\ IsABag(flight') /\ \A x \in Commands' : IsCommand(x)
        /\ \A x \in Commands : \A v : Frees(v, x) => x \in Commands'
    BY <1>1 DEF Remains, Commands
  <1>5. ~told' => \A i \in DOMAIN stack' : Waits(stack'[i]) => \E x \in Commands' : Frees(stack'[i], x)
    BY <1>1, <1>2, <1>4
  <1>6. QED
    BY <1>1, <1>2, <1>3, <1>4, <1>5 DEF Inv

\* A command goes, and what it leads to comes in its place.
LEMMA SwapStep ==
  ASSUME Inv, NEW r, NEW x, Serves(r, x), flight' = Taken(r) (+) SetToBag({x}),
         stack' = stack, told' = told, theme' = theme, crashed' = crashed
  PROVE  Inv'
  <1>1. /\ IsABag(flight) /\ \A i \in DOMAIN stack : IsScreen(stack[i])
        /\ ~told => \A i \in DOMAIN stack : Waits(stack[i]) => \E y \in Commands : Frees(stack[i], y)
        /\ \A y \in Commands : IsCommand(y)
    BY DEF Inv
  <1>2. IsABag(SetToBag({x})) /\ BagToSet(SetToBag({x})) = {x}
    BY BagOfSet
  <1>3. IsABag(Taken(r)) /\ BagToSet(Taken(r)) \subseteq Commands /\ \A y \in Commands : y # r => y \in BagToSet(Taken(r))
    BY <1>1, BagTaken
  <1>4. IsABag(flight') /\ Commands' = BagToSet(Taken(r)) \cup {x}
    BY <1>2, <1>3, BagJoined DEF Commands
  <1>5. \A y \in Commands' : IsCommand(y)
    BY <1>1, <1>3, <1>4 DEF Serves
  <1>6. ~told' => \A i \in DOMAIN stack' : Waits(stack'[i]) => \E y \in Commands' : Frees(stack'[i], y)
    <2> SUFFICES ASSUME ~told, NEW i \in DOMAIN stack, Waits(stack[i])
                 PROVE  \E y \in Commands' : Frees(stack[i], y)
      OBVIOUS
    <2>1. PICK y \in Commands : Frees(stack[i], y)
      BY <1>1
    <2>2. CASE y = r
      BY <1>1, <1>4, <2>1, <2>2 DEF Serves
    <2>3. CASE y # r
      BY <1>3, <1>4, <2>1, <2>3
    <2>4. QED
      BY <2>2, <2>3
  <1>7. QED
    BY <1>4, <1>5, <1>6 DEF Inv

LEMMA PressStep ==
  ASSUME Inv, NEW key, Press(key)
  PROVE  Inv'
  <1>1. /\ stack \in Seq(ToSet(stack)) /\ Len(stack) > 0 /\ Len(stack) \in DOMAIN stack
        /\ IsScreen(Top) /\ theme \in ThemeNames /\ Remains(flight) /\ crashed \in BOOLEAN
    BY OwnSeq, AllRemains DEF Inv, Top
  <1>2. told' = told
    BY DEF Press
  <1>3. CASE TakenByApp(key) /\ AppKey(key) /\ theme' = theme
    <2>1. CASE Len(stack) > 1 /\ stack' = Front(stack) /\ flight' = flight /\ crashed' = crashed
      BY <1>1, <1>2, <1>3, <2>1, ShutStep
    <2>2. CASE \E o \in DOMAIN Roots : Open(Roots[o], <<>>)
      <3>1. PICK o \in DOMAIN Roots : Open(Roots[o], <<>>)
        BY <2>2
      <3>2. stack' = Append(<<>>, InitOf(Roots[o]).view) /\ Started(flight, InitOf(Roots[o]).out)
        BY <3>1 DEF Open
      <3>3. IsScreen(Roots[o]) /\ ~Waits(Roots[o])
        BY OpenedScreens
      <3>4. QED
        BY <1>1, <1>2, <1>3, <3>2, <3>3, OpenStep
    <2>3. CASE Open(NewTheme, stack)
      <3>1. stack' = Append(stack, InitOf(NewTheme).view) /\ Started(flight, InitOf(NewTheme).out)
        BY <2>3 DEF Open
      <3>2. IsScreen(NewTheme) /\ ~Waits(NewTheme)
        BY <1>1, OpenedScreens
      <3>3. QED
        BY <1>1, <1>2, <1>3, <3>1, <3>2, OpenStep
    <2>4. CASE Open(NewAddTask, stack)
      <3>1. stack' = Append(stack, InitOf(NewAddTask).view) /\ Started(flight, InitOf(NewAddTask).out)
        BY <2>4 DEF Open
      <3>2. IsScreen(NewAddTask) /\ ~Waits(NewAddTask)
        BY OpenedScreens
      <3>3. QED
        BY <1>1, <1>2, <1>3, <3>1, <3>2, OpenStep
    <2>5. QED
      BY <1>3, <2>1, <2>2, <2>3, <2>4 DEF AppKey
  <1>4. CASE theme' = ThemeAfter(Top, key) /\ \E r \in KeyOf(Top, key) : OnTop(r) /\ Started(flight, r.out)
    <2>1. PICK r \in KeyOf(Top, key) : OnTop(r) /\ Started(flight, r.out)
      BY <1>4
    <2>2. Good(Top, r)
      BY <1>1, KeyOfGood
    <2>3. ThemeAfter(Top, key) \in ThemeNames
      <3>1. CASE Top.kind = "theme"
        BY <1>1, <3>1, ThemeKeyGood
      <3>2. CASE Top.kind # "theme"
        BY <1>1, <3>2 DEF ThemeAfter
      <3>3. QED
        BY <3>1, <3>2
    <2>4. QED
      BY <1>1, <1>2, <1>4, <2>1, <2>2, <2>3, TopStep
  <1>5. QED
    BY <1>3, <1>4 DEF Press

LEMMA AnswerStep ==
  ASSUME Inv, NEW r \in Commands, Answer(r)
  PROVE  Inv'
  <1>1. IsCommand(r) /\ r.to = "server"
    BY DEF Inv, Answer
  <1>2. PICK answer \in Answers(server, r) : flight' = Taken(r) (+) SetToBag({answer[2]})
    BY DEF Answer
  <1>3. Serves(r, answer[2])
    BY <1>1, AnswerServes
  <1>4. stack' = stack /\ told' = told /\ theme' = theme /\ crashed' = crashed
    BY DEF Answer
  <1>5. QED
    BY <1>2, <1>3, <1>4, SwapStep

LEMMA FailStep ==
  ASSUME Inv, NEW r \in Commands, Fail(r)
  PROVE  Inv'
  <1>1. PICK x \in FailedAnswer(r) : flight' = Taken(r) (+) SetToBag({x})
    BY DEF Fail
  <1>2. Serves(r, x)
    BY FailureServes DEF Fail
  <1>3. stack' = stack /\ told' = told /\ theme' = theme /\ crashed' = crashed
    BY DEF Fail
  <1>4. QED
    BY <1>1, <1>2, <1>3, SwapStep

\* A message that ends the wait of a screen reaches that screen.
LEMMA BroadcastStep ==
  ASSUME Inv, NEW m \in Commands, Broadcast(m)
  PROVE  Inv'
  <1> DEFINE results == [i \in DOMAIN stack |-> UpdateOf(stack[i], m)]
  <1>1. /\ stack \in Seq(ToSet(stack)) /\ Len(stack) > 0 /\ DOMAIN stack = 1..Len(stack) /\ Len(stack) \in Nat
        /\ IsABag(flight) /\ \A i \in DOMAIN stack : IsScreen(stack[i])
        /\ ~told => \A i \in DOMAIN stack : Waits(stack[i]) => \E x \in Commands : Frees(stack[i], x)
        /\ \A x \in Commands : IsCommand(x)
        /\ theme \in ThemeNames
    BY OwnSeq DEF Inv
  <1>2. /\ m.to = "views" /\ stack' = [i \in DOMAIN stack |-> results[i].view]
        /\ flight' = Taken(m) (+) AllStarted(results) /\ crashed' \in BOOLEAN
        /\ told' = told /\ theme' = theme
    BY DEF Broadcast
  <1>3. \A i \in DOMAIN stack : Heard(stack[i], m, results[i])
    BY <1>1, <1>2, UpdateOfGood
  <1>4. DOMAIN results = DOMAIN stack
    OBVIOUS
  <1> HIDE DEF results
  <1>5. /\ stack' \in Seq({results[i].view : i \in DOMAIN stack}) /\ Len(stack') > 0 /\ DOMAIN stack' = DOMAIN stack
        /\ \A i \in DOMAIN stack : stack'[i] = results[i].view
    BY <1>1, <1>2
  <1>6. stack' \in Seq(ToSet(stack'))
    BY <1>5, OwnSeq
  <1> DEFINE all == (UNION {results[i].out : i \in DOMAIN results}) \ {Panic}
  <1>7. IsABag(AllStarted(results)) /\ BagToSet(AllStarted(results)) = all
    <2>1. IsFiniteSet(1..Len(stack))
      BY <1>1, FS_Interval
    <2>2. IsFiniteSet(DOMAIN results)
      BY <1>1, <1>4, <2>1
    <2>3. QED
      BY <2>2, BagStarted
  <1>8. \A i \in DOMAIN stack : \A x \in results[i].out : x # Panic => x \in all
    BY <1>4
  <1>9. \A x \in all : \E i \in DOMAIN stack : x \in results[i].out /\ x # Panic
    BY <1>4
  <1> HIDE DEF all
  <1>10. IsABag(Taken(m)) /\ BagToSet(Taken(m)) \subseteq Commands /\ \A y \in Commands : y # m => y \in BagToSet(Taken(m))
    BY <1>1, BagTaken
  <1>11. IsABag(flight') /\ Commands' = BagToSet(Taken(m)) \cup all
    BY <1>2, <1>7, <1>10, BagJoined DEF Commands
  <1>12. \A x \in Commands' : IsCommand(x)
    BY <1>1, <1>3, <1>9, <1>10, <1>11 DEF Heard, Good, Own
  <1>13. \A i \in DOMAIN stack' : IsScreen(stack'[i])
    BY <1>3, <1>5 DEF Heard, Good, Own
  <1>14. ~told' => \A i \in DOMAIN stack' : Waits(stack'[i]) => \E x \in Commands' : Frees(stack'[i], x)
    <2> SUFFICES ASSUME ~told, NEW i \in DOMAIN stack, Waits(results[i].view)
                 PROVE  \E x \in Commands' : Frees(results[i].view, x)
      BY <1>2, <1>5
    <2>1. CASE Settled(results[i])
      BY <1>8, <1>11, <2>1, PanicFreesNone DEF Settled
    <2>2. CASE ~Settled(results[i])
      <3>1. Waits(stack[i]) /\ Alike(stack[i], results[i].view) /\ ~Tells(stack[i], m)
        BY <1>2, <1>3, <2>2 DEF Heard, Good
      <3>2. PICK x \in Commands : Frees(stack[i], x)
        BY <1>1, <3>1
      <3>3. x # m
        BY <1>2, <3>1, <3>2 DEF Frees
      <3>4. Frees(results[i].view, x)
        BY <3>1, <3>2, AlikeFrees
      <3>5. QED
        BY <1>10, <1>11, <3>3, <3>4
    <2>3. QED
      BY <2>1, <2>2
  <1>15. QED
    BY <1>1, <1>2, <1>5, <1>6, <1>11, <1>12, <1>13, <1>14 DEF Inv

LEMMA OpenNoteStep ==
  ASSUME Inv, NEW m \in Commands, OpenNote(m)
  PROVE  Inv'
  <1>1. /\ IsScreen(Top) /\ IsCommand(m) /\ theme \in ThemeNames /\ IsABag(flight)
    BY OwnSeq DEF Inv, Top
  <1>2. /\ m.to = "views" /\ m.op = "openNote" /\ told' = told /\ theme' = theme
        /\ OnTop(UpdateOf(Top, m)) /\ Started(Taken(m), UpdateOf(Top, m).out)
    BY DEF OpenNote
  <1>3. Good(Top, UpdateOf(Top, m))
    BY <1>1, <1>2, UpdateOfGood DEF Heard
  <1>4. \A v : ~Frees(v, m)
    BY <1>2 DEF Frees, Tells
  <1>5. Remains(Taken(m))
    BY <1>1, <1>4, OneTaken
  <1>6. QED
    BY <1>1, <1>2, <1>3, <1>5, TopStep

LEMMA PushStep ==
  ASSUME Inv, NEW m \in Commands, PushScreen(m)
  PROVE  Inv'
  <1>1. IsCommand(m) /\ theme \in ThemeNames /\ IsABag(flight)
    BY DEF Inv
  <1>2. /\ m.to = "app" /\ m.op = "push" /\ told' = told /\ theme' = theme
        /\ stack' = Append(stack, InitOf(m.view).view) /\ Started(Taken(m), InitOf(m.view).out)
    BY DEF PushScreen
  <1>3. IsScreen(m.view) /\ ~Waits(m.view)
    BY <1>1, <1>2 DEF IsCommand
  <1>4. Remains(Taken(m))
    BY <1>1, <1>2, OneTaken DEF Frees
  <1>5. QED
    BY <1>1, <1>2, <1>3, <1>4, OpenStep

LEMMA PopStep ==
  ASSUME Inv, NEW m \in Commands, PopScreen(m)
  PROVE  Inv'
  <1>1. /\ m.to = "app" /\ m.op = "pop" /\ told' = told /\ theme' = theme /\ crashed' = crashed
        /\ flight' = Taken(m) /\ stack' = IF Len(stack) > 1 THEN Front(stack) ELSE stack
    BY DEF PopScreen
  <1>2. theme \in ThemeNames /\ crashed \in BOOLEAN /\ IsABag(flight)
    BY DEF Inv
  <1>3. Remains(flight')
    BY <1>1, <1>2, OneTaken DEF Frees
  <1>4. QED
    BY <1>1, <1>2, <1>3, ShutStep

LEMMA StartEditorStep ==
  ASSUME Inv, NEW m \in Commands, StartEditor(m)
  PROVE  Inv'
  <1>1. /\ m.to = "app" /\ m.op = "exec" /\ told' = told /\ theme' = theme /\ crashed' = crashed
        /\ flight' = Taken(m) /\ stack' = stack
    BY DEF StartEditor
  <1>2. theme \in ThemeNames /\ crashed \in BOOLEAN /\ IsABag(flight)
    BY DEF Inv
  <1>3. Remains(flight')
    BY <1>1, <1>2, OneTaken DEF Frees
  <1>4. QED
    BY <1>1, <1>2, <1>3, ShutStep

\* The error ends the waits by being shown.
LEMMA ErrorStep ==
  ASSUME Inv, NEW m \in Commands, Error(m)
  PROVE  Inv'
  <1>1. told' = TRUE /\ flight' = Taken(m) /\ stack' = stack /\ theme' = theme /\ crashed' = crashed
    BY DEF Error
  <1>2. IsABag(flight') /\ Commands' \subseteq Commands
    BY <1>1, BagTaken DEF Inv, Commands
  <1>3. QED
    BY <1>1, <1>2 DEF Inv

LEMMA CloseEditorStep ==
  ASSUME Inv, CloseEditor
  PROVE  Inv'
  <1>1. stack' = stack /\ told' = told /\ theme' = theme /\ crashed' = crashed
    BY DEF CloseEditor
  <1>2. \E x : IsCommand(x) /\ flight' = flight (+) SetToBag({x})
    <2>1. \A about : IsCommand(Message("editorDone", about)) /\ IsCommand(Message("noteEditorDone", about))
      BY DEF IsCommand, Message
    <2>2. IsCommand(Failed)
      BY DEF IsCommand, Failed
    <2>3. \/ \E about : flight' = flight (+) SetToBag({Message("editorDone", about)})
          \/ \E about : flight' = flight (+) SetToBag({Message("noteEditorDone", about)})
          \/ flight' = flight (+) SetToBag({Failed})
      BY DEF CloseEditor
    <2>4. QED
      BY <2>1, <2>2, <2>3
  <1>3. PICK x : IsCommand(x) /\ flight' = flight (+) SetToBag({x})
    BY <1>2
  <1>4. IsABag(SetToBag({x})) /\ BagToSet(SetToBag({x})) = {x} /\ IsABag(flight)
    BY BagOfSet DEF Inv
  <1>5. IsABag(flight') /\ Commands' = Commands \cup {x}
    BY <1>3, <1>4, BagJoined DEF Commands
  <1>6. QED
    BY <1>1, <1>3, <1>5 DEF Inv

LEMMA InvStep == Inv /\ [Next]_vars => Inv'
  <1> SUFFICES ASSUME Inv, [Next]_vars PROVE Inv'
    OBVIOUS
  <1>1. CASE \E key \in session.keys : Press(key)
    BY <1>1, PressStep
  <1>2. CASE \E x \in Commands : Answer(x)
    BY <1>2, AnswerStep
  <1>3. CASE \E x \in Commands : Fail(x)
    BY <1>3, FailStep
  <1>4. CASE \E x \in Commands : Deliver(x)
    BY <1>4, BroadcastStep, OpenNoteStep, PushStep, PopStep, ErrorStep, StartEditorStep DEF Deliver
  <1>5. CASE CloseEditor
    BY <1>5, CloseEditorStep
  <1>6. CASE Others
    BY <1>6 DEF Others, Inv, Commands
  <1>7. CASE UNCHANGED vars
    BY <1>7 DEF vars, Inv, Commands
  <1>8. QED
    BY <1>1, <1>2, <1>3, <1>4, <1>5, <1>6, <1>7 DEF Next, Commands

-----------------------------------------------------------------------------
(***************************************************************************)
(* The theorems.                                                           *)
(***************************************************************************)

\* Every screen and every command is as the handlers leave them, and a screen
\* that waits has an answer on its way (Tui.Update, the handlers of every
\* screen, and the broadcast of what comes back).
THEOREM TuiInv == Spec => []Inv
  BY InvInit, InvStep, PTL DEF Spec

\* There is always a screen, and every command is one the program knows.
THEOREM TuiTypes == Spec => []TypeOK
  <1>1. Inv => TypeOK
    BY DEF Inv, TypeOK, IsScreen, IsCommand, Commands
  <1>2. QED
    BY <1>1, TuiInv, PTL

\* A property is saved under the version of the value that the editor showed,
\* whatever was reloaded while it was open.
THEOREM TuiPropertyEditIsNotBlind == Spec => []PropertyEditIsNotBlind
  <1>1. Inv => PropertyEditIsNotBlind
    BY DEF Inv, PropertyEditIsNotBlind, IsCommand, Commands
  <1>2. QED
    BY <1>1, TuiInv, PTL

\* With nothing on its way and no error shown, nobody waits.
LEMMA NothingLeft ==
  ASSUME Inv, Quiet, ~told
  PROVE  \A i \in DOMAIN stack : ~Waits(stack[i])
  <1>1. Commands = {}
    BY BagOfSet DEF Quiet, EmptyBag, Commands
  <1>2. QED
    BY <1>1 DEF Inv

\* Once everything has been answered and no error was shown, no list on the
\* stack still says that it is loading.
THEOREM TuiQuietIsIdle == Spec => []QuietIsIdle
  <1>1. Inv => QuietIsIdle
    BY NothingLeft DEF QuietIsIdle, Waits
  <1>2. QED
    BY <1>1, TuiInv, PTL

\* Once everything has been answered and no error was shown, the pane of a
\* search shows the note under the cursor, however fast it moved.
THEOREM TuiPreviewIsOfSelection == Spec => []PreviewIsOfSelection
  <1>1. Inv => PreviewIsOfSelection
    BY NothingLeft DEF PreviewIsOfSelection, Waits
  <1>2. QED
    BY <1>1, TuiInv, PTL
-----------------------------------------------------------------------------
(***************************************************************************)
(* The second invariant: what the screens show is what the server has.     *)
(***************************************************************************)

\* The commands that bring a list up to date: a listing on its way, or a change
\* that makes the screen list again.
Reloads(kind, x) ==
    \/ /\ kind = "tasks"
       /\ \/ x.to = "server" /\ x.op = "listTasks"
          \/ x.to = "views" /\ x.op \in {"tasksLoaded", "editSaved", "taskAdded", "fileHidden", "taskPurged"}
          \/ x.to = "views" /\ x.op = "taskToggled" /\ x.about.recurred
    \/ /\ kind = "today"
       /\ \/ x.to = "server" /\ x.op = "dueItems"
          \/ x.to = "views" /\ x.op \in {"todayLoaded", "cardSaved", "editSaved", "taskAdded", "taskCancelled",
                                         "taskPurged", "cardDeleted"}
          \/ x.to = "views" /\ x.op = "taskToggled" /\ x.about.recurred

\* The messages that correct a row in place.
Corrects(r, x) ==
    /\ x.to = "views"
    /\ \/ r.kind = "task" /\ x.op \in {"taskToggled", "taskCancelled"} /\ x.about.task = r.task
       \/ r.kind = "card" /\ x.op \in {"cardArchived", "cardRestored"} /\ x.about.card = r.card

\* Of a board: its lanes are read again; its archive is known to be stale.
BothChange(b, x) ==
    x.to = "views" /\ x.op \in {"cardArchived", "cardRestored", "cardDeleted"} /\ x.about.board = b
Relists(b, x) ==
    \/ x.to = "server" /\ x.op = "getBoard" /\ x.about.board = b
    \/ x.to = "views" /\ x.op = "cardSaved"
    \/ x.to = "views" /\ x.op \in {"boardLoaded", "cardCreated"} /\ x.about.board = b
    \/ x.to = "views" /\ x.op = "cardMovedBoard" /\ b \in {x.about.board, x.about.dest}
    \/ BothChange(b, x)

IsServer(s) ==
    /\ {"card", "task", "moved", "restored"} \subseteq DOMAIN s
    /\ DOMAIN s.task = Tasks /\ DOMAIN s.card = Cards
    /\ \A c \in Cards : {"board", "archived", "status", "title", "body"} \subseteq DOMAIN s.card[c]

IsRow(kind, r) ==
    \/ r.kind = "task" /\ {"kind", "task", "status"} \subseteq DOMAIN r /\ r.task \in Tasks
    \/ /\ kind = "today" /\ r.kind = "card" /\ r.card \in Cards
       /\ {"kind", "card", "board", "status", "done"} \subseteq DOMAIN r

\* The board of the row of a card, and its lane or that it is done.
BoardShown(s, r) == r.card \notin s.moved => s.card[r.card].board = r.board
LaneShown(s, r) ==
    /\ s.card[r.card].archived = r.done
    /\ r.card \notin s.restored => r.done = TRUE \/ s.card[r.card].status = r.status

\* A row says what the server has, or a message that corrects it is in C.
RowFine(s, r, C) ==
    /\ r.kind = "task" => s.task[r.task] = r.status \/ \E x \in C : Corrects(r, x)
    /\ r.kind = "card" => /\ s.card[r.card].board # "gone" /\ BoardShown(s, r)
                          /\ LaneShown(s, r) \/ \E x \in C : Corrects(r, x)

RowsFine(s, kind, rows, C) ==
    \/ \E x \in C : Reloads(kind, x)
    \/ \A i \in DOMAIN rows : IsRow(kind, rows[i]) /\ RowFine(s, rows[i], C)

BoardFine(s, v, C) ==
    /\ v.cards = OnBoard(s, v.name, FALSE) \/ \E x \in C : Relists(v.name, x)
    /\ v.archiveLoaded => v.archive = OnBoard(s, v.name, TRUE) \/ \E x \in C : BothChange(v.name, x)

ScreenFine(s, v, C) ==
    /\ v.kind \in {"today", "tasks"} => RowsFine(s, v.kind, v.rows, C)
    /\ v.kind = "board" => BoardFine(s, v, C)

\* A message tells what the server has.
Truth(s, m) ==
    /\ m.op = "tasksLoaded" => RowsFine(s, "tasks", m.about.rows, {})
    /\ m.op = "todayLoaded" => RowsFine(s, "today", m.about.rows, {})
    /\ m.op = "boardLoaded" => m.about.cards = OnBoard(s, m.about.board, FALSE)
    /\ m.op = "archiveLoaded" => m.about.cards = OnBoard(s, m.about.board, TRUE)
    /\ m.op = "taskToggled" /\ m.about.task \in Tasks =>
          m.about.recurred \/ s.task[m.about.task] = IF m.about.done THEN "done" ELSE "open"
    /\ m.op = "taskCancelled" /\ m.about.task \in Tasks => s.task[m.about.task] = "cancelled"
    /\ m.op = "cardArchived" /\ m.about.card \in Cards => s.card[m.about.card].archived = TRUE
    /\ m.op = "cardRestored" /\ m.about.card \in Cards =>
          s.card[m.about.card].archived = FALSE /\ m.about.card \in s.restored

\* The property speaks of sessions in which only the program changes the server,
\* messages are handled in time and nothing failed.
Calm == session.prompt /\ outside = 0 /\ ~told /\ Failed \notin Commands

\* What the screens show is what the server has, or a command on its way will
\* correct it; and messages tell the truth.
Honest ==
    /\ outside \in Nat
    /\ IsServer(server)
    /\ Calm => /\ \A x \in Commands : x.to = "views" => Truth(server, x)
               /\ \A i \in DOMAIN stack : ScreenFine(server, stack[i], Commands)

-----------------------------------------------------------------------------
(***************************************************************************)
(* Induction over a set of numbers, and the rows that the server lists, in *)
(* the order it lists them.                                                *)
(***************************************************************************)

LEMMA WellOrdered ==
  ASSUME NEW T \in SUBSET Nat, T # {}
  PROVE  \E x \in T : \A y \in T : x <= y
  <1> DEFINE R == OpToRel(<, Nat)
  <1>1. IsWellFoundedOn(R, Nat)
    BY NatLessThanWellFounded
  <1>2. PICK x \in T : \A y \in T : ~ (<<y, x>> \in R)
    <2> HIDE DEF R
    <2>1. QED
      BY <1>1, WFMin
  <1>3. \A y \in T : ~ (y < x)
    BY <1>2 DEF OpToRel
  <1>4. QED
    BY <1>3

LEMMA NumbersFromZero ==
  ASSUME NEW S \in SUBSET Nat, 0 \in S, \A n \in S : n + 1 \in S
  PROVE  S = Nat
  <1> SUFFICES ASSUME Nat \ S # {} PROVE FALSE
    OBVIOUS
  <1>1. PICK x \in Nat \ S : \A y \in Nat \ S : x <= y
    BY WellOrdered
  <1>2. x \in Nat /\ x - 1 \in Nat /\ ~ (x <= x - 1) /\ x - 1 + 1 = x
    OBVIOUS
  <1>3. x - 1 \in S
    BY <1>1, <1>2
  <1>4. QED
    BY <1>2, <1>3

\* One step of the recursion of Chosen.
Longer(f, s, S, i) ==
    IF i = 0 THEN <<>>
    ELSE IF s[i] \in S THEN Append(f[i - 1], s[i]) ELSE f[i - 1]

LEMMA ChosenPrefixes ==
  ASSUME NEW T, NEW s \in Seq(T), NEW S
  PROVE  \E f : /\ f = [i \in 0..Len(s) |-> Longer(f, s, S, i)]
                /\ Chosen(s, S) = f[Len(s)]
  <1> DEFINE Reached == {n \in Nat : \E f : f = [i \in 0..n |-> Longer(f, s, S, i)]}
  <1>1. 0 \in Reached
    <2>1. PICK f : f = [i \in 0..0 |-> <<>>]
      OBVIOUS
    <2>2. \A i \in 0..0 : f[i] = Longer(f, s, S, i)
      BY <2>1 DEF Longer
    <2>3. f = [i \in 0..0 |-> Longer(f, s, S, i)]
      BY <2>1, <2>2
    <2>4. QED
      BY <2>3
  <1>2. ASSUME NEW n \in Reached PROVE n + 1 \in Reached
    <2>1. PICK f : f = [i \in 0..n |-> Longer(f, s, S, i)]
      BY <1>2
    <2>2. PICK g : g = [i \in 0..(n + 1) |-> IF i = n + 1 THEN Longer(f, s, S, n + 1) ELSE f[i]]
      OBVIOUS
    <2>3. ASSUME NEW i \in 0..(n + 1) PROVE g[i] = Longer(g, s, S, i)
      <3>1. CASE i = n + 1
        <4>1. g[i - 1] = f[i - 1] /\ i - 1 \in 0..n
          BY <2>2, <3>1
        <4>2. QED
          BY <2>2, <3>1, <4>1 DEF Longer
      <3>2. CASE i \in 0..n
        <4>1. i # 0 => g[i - 1] = f[i - 1]
          BY <2>2, <3>2
        <4>2. g[i] = f[i] /\ f[i] = Longer(f, s, S, i)
          BY <2>1, <2>2, <3>2
        <4>3. QED
          BY <4>1, <4>2 DEF Longer
      <3>3. QED
        BY <3>1, <3>2
    <2>4. g = [i \in 0..(n + 1) |-> Longer(g, s, S, i)]
      BY <2>2, <2>3
    <2>5. QED
      BY <2>4
  <1>3. Len(s) \in Reached
    <2>1. Reached \in SUBSET Nat
      OBVIOUS
    <2>2. Reached = Nat
      <3> HIDE DEF Reached
      <3>1. QED
        BY <1>1, <1>2, <2>1, NumbersFromZero
    <2>3. QED
      BY <2>2
  <1> DEFINE upTo == CHOOSE f : f = [i \in 0..Len(s) |-> IF i = 0 THEN <<>>
                       ELSE IF s[i] \in S THEN Append(f[i - 1], s[i]) ELSE f[i - 1]]
  <1>4. \E f : f = [i \in 0..Len(s) |-> IF i = 0 THEN <<>>
                       ELSE IF s[i] \in S THEN Append(f[i - 1], s[i]) ELSE f[i - 1]]
    BY <1>3 DEF Longer
  <1>5. upTo = [i \in 0..Len(s) |-> IF i = 0 THEN <<>>
                       ELSE IF s[i] \in S THEN Append(upTo[i - 1], s[i]) ELSE upTo[i - 1]]
    BY <1>4
  <1>6. Chosen(s, S) = upTo[Len(s)]
    BY Zenon DEF Chosen
  <1>7. upTo = [i \in 0..Len(s) |-> Longer(upTo, s, S, i)]
    BY <1>5 DEF Longer
  <1>8. QED
    BY <1>6, <1>7

\* What is chosen is in the set.
LEMMA ChosenFrom ==
  ASSUME NEW T, NEW s \in Seq(T), NEW S
  PROVE  Chosen(s, S) \in Seq(S)
  <1>1. PICK f : f = [i \in 0..Len(s) |-> Longer(f, s, S, i)] /\ Chosen(s, S) = f[Len(s)]
    BY ChosenPrefixes
  <1> DEFINE Fine == {n \in Nat : n <= Len(s) => f[n] \in Seq(S)}
  <1>2. 0 \in Fine
    BY <1>1 DEF Longer
  <1>3. ASSUME NEW n \in Fine PROVE n + 1 \in Fine
    <2> SUFFICES ASSUME n + 1 <= Len(s) PROVE f[n + 1] \in Seq(S)
      OBVIOUS
    <2>1. f[n] \in Seq(S) /\ n + 1 \in 0..Len(s) /\ n + 1 # 0 /\ (n + 1) - 1 = n
      BY <1>3
    <2>2. f[n + 1] = IF s[n + 1] \in S THEN Append(f[n], s[n + 1]) ELSE f[n]
      BY <1>1, <2>1 DEF Longer
    <2>3. QED
      BY <2>1, <2>2
  <1>4. Fine = Nat
    <2>1. Fine \in SUBSET Nat
      OBVIOUS
    <2> HIDE DEF Fine
    <2>2. QED
      BY <1>2, <1>3, <2>1, NumbersFromZero
  <1>5. QED
    BY <1>1, <1>4

-----------------------------------------------------------------------------
(***************************************************************************)
(* What the server shows.                                                  *)
(***************************************************************************)
LEMMA TaskRowsServed ==
  ASSUME NEW s, NEW S \in SUBSET Tasks, NEW kind
  PROVE  /\ TaskRows(s, S) \in Seq({TaskRow(s, t) : t \in Tasks})
         /\ \A t \in Tasks : IsRow(kind, TaskRow(s, t)) /\ RowFine(s, TaskRow(s, t), {})
  <1> DEFINE listed == Chosen(TaskOrder, S)
  <1>1. listed \in Seq(S)
    BY ChosenFrom, TuiConstants DEF Tasks
  <1>2. TaskRows(s, S) = [i \in DOMAIN listed |-> TaskRow(s, listed[i])]
    BY DEF TaskRows
  <1> HIDE DEF listed
  <1>3. \A i \in DOMAIN listed : listed[i] \in Tasks
    BY <1>1
  <1>4. DOMAIN listed = 1..Len(listed) /\ Len(listed) \in Nat
    BY <1>1
  <1>5. TaskRows(s, S) \in Seq({TaskRow(s, t) : t \in Tasks})
    <2> HIDE DEF TaskRows
    <2>1. TaskRows(s, S) \in [1..Len(listed) -> {TaskRow(s, t) : t \in Tasks}]
      BY <1>2, <1>3, <1>4
    <2>2. QED
      BY <1>4, <2>1, SeqDef
  <1>6. \A t \in Tasks : IsRow(kind, TaskRow(s, t)) /\ RowFine(s, TaskRow(s, t), {})
    BY DEF IsRow, RowFine, TaskRow
  <1>7. QED
    BY <1>5, <1>6

LEMMA ListedServed ==
  ASSUME NEW s, NEW preset
  PROVE  RowsFine(s, "tasks", Listed(s, preset), {})
  <1> DEFINE S == {t \in Tasks : /\ s.task[t] # "gone" /\ NoteOf[t] \notin s.hidden
                                 /\ preset = 1 => s.task[t] = "open"}
  <1>1. S \in SUBSET Tasks
    OBVIOUS
  <1>2. Listed(s, preset) = TaskRows(s, S)
    BY DEF Listed
  <1> HIDE DEF S
  <1> DEFINE rows == TaskRows(s, S)
  <1>3. rows \in Seq({TaskRow(s, t) : t \in Tasks})
        /\ \A t \in Tasks : IsRow("tasks", TaskRow(s, t)) /\ RowFine(s, TaskRow(s, t), {})
    BY <1>1, TaskRowsServed
  <1> HIDE DEF rows
  <1>4. \A i \in DOMAIN rows : \E t \in Tasks : rows[i] = TaskRow(s, t)
    BY <1>3
  <1>5. RowsFine(s, "tasks", rows, {})
    BY <1>3, <1>4 DEF RowsFine
  <1>6. QED
    BY <1>2, <1>5 DEF rows

LEMMA DueServed ==
  ASSUME NEW s, IsServer(s), NEW showDone
  PROVE  RowsFine(s, "today", Due(s, showDone), {})
  <1> DEFINE here(status) == {t \in Tasks : s.task[t] = status /\ NoteOf[t] \notin s.hidden}
             S == {c \in Cards \cap DueCards : s.card[c].board # "gone" /\ (showDone \/ ~s.card[c].archived)}
             cards == Chosen(CardOrder, S)
             A == TaskRows(s, here("open"))
             B == IF showDone THEN TaskRows(s, here("done")) ELSE <<>>
             D == [i \in DOMAIN cards |-> TodayCard(s, cards[i])]
             Rows == {TaskRow(s, t) : t \in Tasks} \cup {TodayCard(s, c) : c \in S}
  <1>1. Due(s, showDone) = A \o B \o D
    BY DEF Due
  <1>2. cards \in Seq(S)
    BY ChosenFrom, TuiConstants
  <1>3. \A status : here(status) \in SUBSET Tasks
    OBVIOUS
  <1>4. \A c \in S : c \in Cards /\ s.card[c].board # "gone"
    OBVIOUS
  <1> HIDE DEF here, S
  <1>5. A \in Seq({TaskRow(s, t) : t \in Tasks}) /\ B \in Seq({TaskRow(s, t) : t \in Tasks})
        /\ \A t \in Tasks : IsRow("today", TaskRow(s, t)) /\ RowFine(s, TaskRow(s, t), {})
    BY <1>3, TaskRowsServed
  <1>6. \A c \in S : IsRow("today", TodayCard(s, c)) /\ RowFine(s, TodayCard(s, c), {})
    BY <1>4 DEF IsRow, RowFine, BoardShown, LaneShown, TodayCard
  <1>7. D \in Seq({TodayCard(s, c) : c \in S})
    <2> HIDE DEF cards
    <2>1. DOMAIN cards = 1..Len(cards) /\ Len(cards) \in Nat /\ \A i \in DOMAIN cards : cards[i] \in S
      BY <1>2
    <2>2. D \in [1..Len(cards) -> {TodayCard(s, c) : c \in S}]
      BY <2>1
    <2> HIDE DEF D
    <2>3. QED
      BY <2>1, <2>2, SeqDef
  <1> HIDE DEF A, B, D, cards
  <1>8. A \in Seq(Rows) /\ B \in Seq(Rows) /\ D \in Seq(Rows)
    <2>1. \A P, Q : \A q \in Seq(P) : P \subseteq Q => q \in Seq(Q)
      OBVIOUS
    <2>2. QED
      BY <1>5, <1>7, <2>1
  <1>9. \A q \in Rows : IsRow("today", q) /\ RowFine(s, q, {})
    BY <1>5, <1>6
  <1> HIDE DEF Rows
  <1>10. A \o B \o D \in Seq(Rows)
    BY <1>8
  <1> DEFINE all == A \o B \o D
  <1>11. \A i \in DOMAIN all : all[i] \in Rows
    BY <1>10
  <1> HIDE DEF all
  <1>12. RowsFine(s, "today", all, {})
    BY <1>9, <1>11 DEF RowsFine
  <1>13. QED
    BY <1>1, <1>12 DEF all

\* A lane changes only with a card that is in it before or afterwards.
LEMMA SameLane ==
  ASSUME NEW s, NEW t, NEW b, NEW archived,
         \A c \in Cards : \/ t.card[c] = s.card[c]
                          \/ /\ ~(s.card[c].board = b /\ s.card[c].archived = archived)
                             /\ ~(t.card[c].board = b /\ t.card[c].archived = archived)
  PROVE  OnBoard(t, b, archived) = OnBoard(s, b, archived)
  <1> DEFINE S == {c \in Cards : s.card[c].board = b /\ s.card[c].archived = archived}
             T == {c \in Cards : t.card[c].board = b /\ t.card[c].archived = archived}
             here == Chosen(CardOrder, S)
  <1>1. S = T /\ \A c \in S : t.card[c] = s.card[c]
    OBVIOUS
  <1>2. here \in Seq(S)
    BY ChosenFrom, TuiConstants
  <1>3. OnBoard(s, b, archived) = [i \in DOMAIN here |-> CardRow(s, here[i])]
    BY DEF OnBoard
  <1>4. OnBoard(t, b, archived) = [i \in DOMAIN here |-> CardRow(t, here[i])]
    <2>1. OnBoard(t, b, archived) = [i \in DOMAIN Chosen(CardOrder, T) |-> CardRow(t, Chosen(CardOrder, T)[i])]
      BY DEF OnBoard
    <2>2. QED
      BY <1>1, <2>1
  <1> HIDE DEF S, T, here
  <1>5. \A i \in DOMAIN here : CardRow(t, here[i]) = CardRow(s, here[i])
    BY <1>1, <1>2 DEF CardRow
  <1>6. QED
    BY <1>3, <1>4, <1>5

-----------------------------------------------------------------------------
(***************************************************************************)
(* What a key does to a screen: it asks, it moves a cursor, it opens a     *)
(* question, but what the screen has from the server stays.                *)
(***************************************************************************)
SameData(v, w) ==
    /\ w.kind = v.kind
    /\ v.kind \in {"today", "tasks"} => w.rows = v.rows
    /\ v.kind = "board" => /\ w.name = v.name /\ w.cards = v.cards /\ w.archive = v.archive
                           /\ w.archiveLoaded => v.archiveLoaded

LEMMA SameSelf == \A v : SameData(v, v)
  BY DEF SameData

LEMMA SameStay ==
  ASSUME NEW v, NEW w, SameData(v, w), NEW out
  PROVE  SameData(v, Res(w, out).view) /\ SameData(v, Stay(w).view)
  BY DEF Stay, Res

LEMMA SameAsking ==
  ASSUME NEW v, IsScreen(v), v.kind \in {"today", "tasks", "board"},
         NEW w, DOMAIN w = DOMAIN v, SameData(v, w), NEW out
  PROVE  SameData(v, Asking(w, out).view) /\ Asking(w, out).out = out
  <1> DEFINE u == [w EXCEPT !.busy = TRUE]
  <1>1. Asking(w, out) = Res(u, out)
    BY DEF Asking
  <1>2. SameData(v, u)
    BY DEF SameData, IsScreen
  <1> HIDE DEF u
  <1>3. QED
    BY <1>1, <1>2 DEF Res

LEMMA SameResults ==
  ASSUME NEW v, IsScreen(v), v.kind \in {"today", "tasks", "board"},
         NEW w, DOMAIN w = DOMAIN v, SameData(v, w)
  PROVE  /\ SameData(v, Stay(w).view)
         /\ \A out : SameData(v, Res(w, out).view) /\ SameData(v, Asking(w, out).view)
  BY SameStay, SameAsking

LEMMA DueKeySame ==
  ASSUME NEW v, IsScreen(v), v.kind \in {"tasks", "today"}, NEW key, NEW r \in DueKey(v, key)
  PROVE  SameData(v, r.view)
  <1> DEFINE shut == [v EXCEPT !.open = {}]
             back == [v EXCEPT !.open = IF @ = {"repeat"} THEN {"due"} ELSE {}]
             rule == [v EXCEPT !.open = {"repeat"}]
             same(w) == DOMAIN w = DOMAIN v /\ SameData(v, w)
  <1>1. \/ r = Stay(back)
        \/ r = Stay(rule)
        \/ r = Stay(shut)
        \/ \E q \in v.target : r = Asking(shut, {SaveTaskEdit(q)})
    BY DEF DueKey
  <1>2. same(shut) /\ same(back) /\ same(rule)
    BY DEF IsScreen, SameData
  <1> HIDE DEF shut, back, rule
  <1>3. \A w : same(w) => /\ SameData(v, Stay(w).view)
                          /\ \A out : SameData(v, Asking(w, out).view)
    BY SameResults
  <1> HIDE DEF same
  <1>4. QED
    BY <1>1, <1>2, <1>3

LEMMA AskSame ==
  ASSUME NEW v, IsScreen(v), v.kind \in {"tasks", "today"}, NEW prompt, NEW rows, NEW r \in Ask(v, prompt, rows)
  PROVE  SameData(v, r.view)
  <1> PICK q \in rows : r = Stay([v EXCEPT !.open = {prompt}, !.target = {q}])
    BY DEF Ask
  <1> DEFINE w == [v EXCEPT !.open = {prompt}, !.target = {q}]
  <1>1. SameData(v, w)
    BY DEF IsScreen, SameData
  <1>2. r = Stay(w)
    OBVIOUS
  <1> HIDE DEF w
  <1>3. QED
    BY <1>1, <1>2, SameStay

LEMMA TasksKeySame ==
  ASSUME NEW v, IsScreen(v), v.kind = "tasks", NEW key, NEW r \in TasksKey(v, key)
  PROVE  SameData(v, r.view)
  <1> DEFINE shut == [v EXCEPT !.open = {}]
             down == [v EXCEPT !.cursor = Down(@, v.rows)]
             up == [v EXCEPT !.cursor = Up(@)]
             next == [v EXCEPT !.preset = (@ % Presets) + 1, !.cursor = 1]
             same(w) == DOMAIN w = DOMAIN v /\ SameData(v, w)
             row == Current(v.rows, v.cursor)
  <1>0. \A w : same(w) => /\ SameData(v, Stay(w).view)
                          /\ \A out : SameData(v, Res(w, out).view) /\ SameData(v, Asking(w, out).view)
    BY SameResults
  <1>1. same(shut) /\ same(down) /\ same(up) /\ same(next) /\ same(v)
    BY DEF IsScreen, SameData
  <1>2. CASE v.open # {}
    <2>1. \/ r = Stay(shut)
          \/ \E q \in v.target : r \in {Asking(shut, {DeleteTask(q)}), Asking(shut, {HideFile(q)})}
          \/ r \in DueKey(v, key)
      BY <1>2 DEF TasksKey, TasksPromptKey
    <2> HIDE DEF shut, same
    <2>2. QED
      BY <1>0, <1>1, <2>1, DueKeySame
  <1>3. CASE v.open = {}
    <2>1. \/ r = Stay(down) \/ r = Stay(up) \/ r = TasksInit(v) \/ r = TasksInit(next)
          \/ r \in Ask(v, "due", row) \/ r \in Ask(v, "del", row) \/ r \in Ask(v, "hide", row)
          \/ \E x : r = Asking(v, {x})
      BY <1>3 DEF TasksKey, TasksListKey
    <2> HIDE DEF down, up, next, row
    <2>2. \A w : same(w) => SameData(v, TasksInit(w).view)
      BY <1>0 DEF TasksInit
    <2> HIDE DEF same
    <2>3. QED
      BY <1>0, <1>1, <2>1, <2>2, AskSame
  <1>4. QED
    BY <1>2, <1>3

LEMMA TodayKeySame ==
  ASSUME NEW v, IsScreen(v), v.kind = "today", NEW key, NEW r \in TodayKey(v, key)
  PROVE  SameData(v, r.view)
  <1> DEFINE shut == [v EXCEPT !.open = {}]
             down == [v EXCEPT !.cursor = Down(@, v.rows)]
             up == [v EXCEPT !.cursor = Up(@)]
             all == [v EXCEPT !.showDone = ~@]
             same(w) == DOMAIN w = DOMAIN v /\ SameData(v, w)
             row == Current(v.rows, v.cursor)
             tasks == row \ {q \in row : q.kind = "card"}
  <1>0. \A w : same(w) => /\ SameData(v, Stay(w).view)
                          /\ \A out : SameData(v, Res(w, out).view) /\ SameData(v, Asking(w, out).view)
    BY SameResults
  <1>1. same(shut) /\ same(down) /\ same(up) /\ same(all) /\ same(v)
    BY DEF IsScreen, SameData
  <1>2. CASE v.open # {}
    <2>1. \/ r = Stay(shut)
          \/ \E x : r = Asking(shut, {x})
          \/ r \in DueKey(v, key)
      BY <1>2 DEF TodayKey, TodayPromptKey
    <2> HIDE DEF shut, same
    <2>2. QED
      BY <1>0, <1>1, <2>1, DueKeySame
  <1>3. CASE v.open = {}
    <2>1. \/ r = Stay(down) \/ r = Stay(up) \/ r = TodayInit(v) \/ r = TodayInit(all)
          \/ r \in Ask(v, "due", tasks) \/ r \in Ask(v, "del", row)
          \/ \E x : r = Asking(v, {x})
          \/ \E x : r = Res(v, {x})
      BY <1>3 DEF TodayKey, TodayListKey, ToggleCurrent
    <2> HIDE DEF down, up, all, row, tasks
    <2>2. \A w : same(w) => SameData(v, TodayInit(w).view)
      BY <1>0 DEF TodayInit
    <2> HIDE DEF same
    <2>3. QED
      BY <1>0, <1>1, <2>1, <2>2, AskSame
  <1>4. QED
    BY <1>2, <1>3

LEMMA ReloadSame ==
  ASSUME NEW v, IsScreen(v), v.kind = "board"
  PROVE  /\ SameData(v, Reload(v).view) /\ LoadBoard(v.name) \in Reload(v).out
         /\ SameData(v, ReloadBoth(v).view) /\ LoadBoard(v.name) \in ReloadBoth(v).out
         /\ ReloadBoth(v).view.archiveLoaded = FALSE
  <1> DEFINE stale == [v EXCEPT !.archiveLoaded = FALSE]
             both == {LoadBoard(v.name)} \cup MaybeLoadArchive(stale)
  <1>1. DOMAIN stale = DOMAIN v /\ SameData(v, stale) /\ stale.archiveLoaded = FALSE
    BY DEF SameData, IsScreen
  <1>2. Reload(v) = Asking(v, {LoadBoard(v.name)}) /\ ReloadBoth(v) = Asking(stale, both)
    BY DEF Reload, ReloadBoth
  <1>3. LoadBoard(v.name) \in both
    OBVIOUS
  <1>4. Asking(stale, both).view.archiveLoaded = stale.archiveLoaded
    BY <1>1 DEF Asking, Res, IsScreen
  <1> HIDE DEF stale, both
  <1>5. QED
    BY <1>1, <1>2, <1>3, <1>4, SameSelf, SameAsking

LEMMA PickerSame ==
  ASSUME NEW v, IsScreen(v), v.kind = "board", NEW w, DOMAIN w = DOMAIN v, SameData(v, w)
  PROVE  /\ \A status, boards : SameData(v, OpenPicker(w, status, boards))
         /\ SameData(v, ClosePicker(w)) /\ DOMAIN ClosePicker(w) = DOMAIN v
         /\ SameData(v, ClampCursors(w))
  BY DEF OpenPicker, ClosePicker, ClampCursors, SameData, IsScreen

LEMMA BoardKeySame ==
  ASSUME NEW v, IsScreen(v), v.kind = "board", NEW key, NEW r \in BoardKey(v, key)
  PROVE  SameData(v, r.view)
  <1> DEFINE same(w) == DOMAIN w = DOMAIN v /\ SameData(v, w)
  <1>0. \A w : same(w) => /\ SameData(v, Stay(w).view)
                          /\ \A out : SameData(v, Res(w, out).view) /\ SameData(v, Asking(w, out).view)
    BY SameResults
  <1>1. CASE v.open # {}
    <2> DEFINE added == [v EXCEPT !.open = @ \ {"adding"}]
               shut == [v EXCEPT !.open = @ \ {"del"}]
               closed == ClosePicker(v)
    <2>1. \/ r = Stay(closed) \/ \E x : r = Asking(closed, {x})
          \/ r = Stay(added) \/ \E x : r = Asking(added, {x})
          \/ r = Stay(shut) \/ \E x : r = Asking(shut, {x})
      <3>1. \/ r \in BoardPick(v)
            \/ r = Stay(added) \/ \E x : r = Asking(added, {x})
            \/ r = Stay(shut) \/ \E x : r = Asking(shut, {x})
        BY <1>1 DEF BoardKey, BoardPromptKey
      <3>2. ASSUME r \in BoardPick(v) PROVE r = Stay(closed) \/ \E x : r = Asking(closed, {x})
        <4> HIDE DEF closed
        <4>1. \/ r = Stay(closed)
              \/ \E o : r \in MoveCurrent(closed, o) \/ r \in MoveCurrentToBoard(closed, o)
          BY <3>2 DEF BoardPick, OrStay, closed
        <4>2. QED
          BY <4>1 DEF MoveCurrent, MoveCurrentToBoard
      <3>3. QED
        BY <3>1, <3>2
    <2>2. same(added) /\ same(shut)
      BY DEF IsScreen, SameData
    <2>3. same(closed)
      BY SameSelf, PickerSame
    <2> HIDE DEF added, shut, closed, same
    <2>4. QED
      BY <1>0, <2>1, <2>2, <2>3
  <1>2. CASE v.open = {}
    <2> DEFINE left == [v EXCEPT !.col = @ - 1]
               right == [v EXCEPT !.col = @ + 1]
               moved == [right EXCEPT !.busy = @ \/ MaybeLoadArchive(right) # {}]
               down == [v EXCEPT !.cursors[v.col] = Down(@, ColumnCards(v, v.col))]
               up == [v EXCEPT !.cursors[v.col] = Up(@)]
               del(c) == [v EXCEPT !.open = @ \cup {"del"}, !.deleting = c.id]
               adding == [v EXCEPT !.open = @ \cup {"adding"}]
    <2>1. \/ r = Stay(left) \/ r = Stay(down) \/ r = Stay(up) \/ r = Stay(adding)
          \/ \E c : r = Stay(del(c))
          \/ r = Res(moved, MaybeLoadArchive(right))
          \/ r = ReloadBoth(v)
          \/ r \in MoveCurrent(v, "done")
          \/ \E x : r = Asking(v, {x})
          \/ \E x : r = Res(v, {x})
      BY <1>2 DEF BoardKey, BoardListKey
    <2>2. r \in MoveCurrent(v, "done") => \E x : r = Asking(v, {x})
      BY DEF MoveCurrent
    <2>3. same(v) /\ same(left) /\ same(right) /\ same(down) /\ same(up) /\ same(adding) /\ \A c : same(del(c))
      BY DEF IsScreen, SameData
    <2>4. SameData(v, moved)
      <3> HIDE DEF right
      <3>1. QED
        BY <2>3 DEF IsScreen, SameData
    <2>5. SameData(v, Res(moved, MaybeLoadArchive(right)).view)
      BY <2>4 DEF Res
    <2> HIDE DEF left, right, moved, down, up, adding, del, same
    <2>6. QED
      BY <1>0, <2>1, <2>2, <2>3, <2>5, ReloadSame
  <1>3. QED
    BY <1>1, <1>2

LEMMA KeyOfSame ==
  ASSUME NEW v, IsScreen(v), NEW key, NEW r \in KeyOf(v, key)
  PROVE  SameData(v, r.view)
  <1>1. CASE v.kind = "today"
    BY <1>1, TodayKeySame DEF KeyOf
  <1>2. CASE v.kind = "tasks"
    BY <1>2, TasksKeySame DEF KeyOf
  <1>3. CASE v.kind = "board"
    BY <1>3, BoardKeySame DEF KeyOf
  <1>4. CASE v.kind \notin {"today", "tasks", "board"}
    BY <1>4, KeyOfGood DEF Good, SameData
  <1>5. QED
    BY <1>1, <1>2, <1>3, <1>4

-----------------------------------------------------------------------------
(***************************************************************************)
(* A screen stays fine while what covers it is on its way.                 *)
(***************************************************************************)
Covers(x) ==
    \/ x.to = "server" /\ x.op \in {"listTasks", "dueItems", "getBoard"}
    \/ x.to = "views" /\ x.op \in {"tasksLoaded", "todayLoaded", "boardLoaded", "editSaved", "taskAdded",
                                   "fileHidden", "taskPurged", "taskToggled", "taskCancelled", "cardSaved",
                                   "cardDeleted", "cardCreated", "cardMovedBoard", "cardArchived", "cardRestored"}

\* A command that no row and no lane of the screen counts on.
Unheard(v, m) ==
    /\ v.kind \in {"today", "tasks"} =>
          /\ ~Reloads(v.kind, m)
          /\ \A i \in DOMAIN v.rows : IsRow(v.kind, v.rows[i]) => ~Corrects(v.rows[i], m)
    /\ v.kind = "board" => ~Relists(v.name, m) /\ ~BothChange(v.name, m)

LEMMA CoversAll ==
  ASSUME NEW m, ~Covers(m)
  PROVE  \A v : Unheard(v, m)
  BY DEF Covers, Unheard, Reloads, Corrects, Relists, BothChange

LEMMA ScreenKept ==
  ASSUME NEW s, NEW v, NEW C, ScreenFine(s, v, C), NEW w, SameData(v, w),
         NEW D, \A x \in C : x \in D \/ Unheard(v, x)
  PROVE  ScreenFine(s, w, D)
  <1>1. CASE v.kind \in {"today", "tasks"}
    <2>1. w.kind = v.kind /\ w.rows = v.rows /\ RowsFine(s, v.kind, v.rows, C)
      BY <1>1 DEF SameData, ScreenFine
    <2>2. RowsFine(s, v.kind, v.rows, D)
      BY <1>1, <2>1 DEF RowsFine, RowFine, Unheard
    <2>3. QED
      BY <1>1, <2>1, <2>2 DEF ScreenFine
  <1>2. CASE v.kind = "board"
    BY <1>2 DEF SameData, ScreenFine, BoardFine, Unheard
  <1>3. CASE v.kind \notin {"today", "tasks", "board"}
    BY <1>3 DEF SameData, ScreenFine
  <1>4. QED
    BY <1>1, <1>2, <1>3

LEMMA ServedFine ==
  ASSUME NEW s, NEW kind, NEW rows, RowsFine(s, kind, rows, {}), NEW D
  PROVE  RowsFine(s, kind, rows, D)
  BY DEF RowsFine, RowFine

\* Rows are corrected in place.
LEMMA RowsCorrected ==
  ASSUME NEW s, NEW kind, NEW rows, NEW C, RowsFine(s, kind, rows, C),
         NEW m, ~Reloads(kind, m), NEW D, \A x \in C : x \in D \/ x = m,
         NEW fixed, DOMAIN fixed = DOMAIN rows,
         \A i \in DOMAIN rows : IsRow(kind, rows[i]) /\ RowFine(s, rows[i], C) =>
             \/ IsRow(kind, fixed[i]) /\ RowFine(s, fixed[i], {})
             \/ fixed[i] = rows[i] /\ ~Corrects(rows[i], m)
  PROVE  RowsFine(s, kind, fixed, D)
  <1>1. CASE \E x \in C : Reloads(kind, x)
    BY <1>1 DEF RowsFine
  <1>2. CASE ~ \E x \in C : Reloads(kind, x)
    <2>1. \A i \in DOMAIN rows : IsRow(kind, rows[i]) /\ RowFine(s, rows[i], C)
      BY <1>2 DEF RowsFine
    <2>2. ASSUME NEW i \in DOMAIN rows PROVE IsRow(kind, fixed[i]) /\ RowFine(s, fixed[i], D)
      <3>1. CASE IsRow(kind, fixed[i]) /\ RowFine(s, fixed[i], {})
        BY <3>1 DEF RowFine
      <3>2. CASE fixed[i] = rows[i] /\ ~Corrects(rows[i], m)
        BY <2>1, <3>2 DEF RowFine
      <3>3. QED
        BY <2>1, <3>1, <3>2
    <2>3. QED
      BY <2>2 DEF RowsFine
  <1>3. QED
    BY <1>1, <1>2

LEMMA ToggledFine ==
  ASSUME NEW s, NEW v, NEW kind \in {"today", "tasks"}, NEW C, RowsFine(s, kind, v.rows, C),
         NEW m, m.to = "views", m.op = "taskToggled", ~m.about.recurred, Truth(s, m),
         NEW D, \A x \in C : x \in D \/ x = m
  PROVE  RowsFine(s, kind, Toggled(v, m), D)
  <1> DEFINE fixed == Toggled(v, m)
             status == IF m.about.done THEN "done" ELSE "open"
  <1>1. /\ DOMAIN fixed = DOMAIN v.rows
        /\ \A i \in DOMAIN v.rows : fixed[i] = IF IsTask(v.rows[i], m.about.task)
                                              THEN [v.rows[i] EXCEPT !.status = status] ELSE v.rows[i]
    BY DEF Toggled, InPlace
  <1>2. m.about.task \in Tasks => s.task[m.about.task] = status
    BY DEF Truth
  <1>3. ~Reloads(kind, m)
    BY DEF Reloads
  <1> HIDE DEF fixed, status
  <1>4. ASSUME NEW i \in DOMAIN v.rows, IsRow(kind, v.rows[i])
        PROVE  \/ IsRow(kind, fixed[i]) /\ RowFine(s, fixed[i], {})
               \/ fixed[i] = v.rows[i] /\ ~Corrects(v.rows[i], m)
    <2>1. CASE IsTask(v.rows[i], m.about.task)
      <3> DEFINE q == v.rows[i]
                 p == [q EXCEPT !.status = status]
      <3>1. fixed[i] = p /\ q.kind = "task" /\ q.task = m.about.task
        BY <1>1, <2>1 DEF IsTask
      <3>2. DOMAIN p = DOMAIN q /\ p.kind = "task" /\ p.task = q.task /\ p.status = status
            /\ {"kind", "task", "status"} \subseteq DOMAIN q /\ q.task \in Tasks
        BY <1>4, <3>1 DEF IsRow
      <3> HIDE DEF q, p
      <3>3. IsRow(kind, p) /\ RowFine(s, p, {})
        BY <1>2, <3>1, <3>2 DEF IsRow, RowFine
      <3>4. QED
        BY <3>1, <3>3
    <2>2. CASE ~IsTask(v.rows[i], m.about.task)
      BY <1>1, <2>2 DEF IsTask, Corrects
    <2>3. QED
      BY <2>1, <2>2
  <1>5. QED
    BY <1>1, <1>3, <1>4, RowsCorrected DEF fixed

LEMMA CancelledFine ==
  ASSUME NEW s, NEW v, NEW C, RowsFine(s, "tasks", v.rows, C),
         NEW m, m.to = "views", m.op = "taskCancelled", Truth(s, m),
         NEW D, \A x \in C : x \in D \/ x = m
  PROVE  RowsFine(s, "tasks", Cancelled(v, m), D)
  <1> DEFINE fixed == Cancelled(v, m)
  <1>1. /\ DOMAIN fixed = DOMAIN v.rows
        /\ \A i \in DOMAIN v.rows : fixed[i] = IF IsTask(v.rows[i], m.about.task)
                                              THEN [v.rows[i] EXCEPT !.status = "cancelled"] ELSE v.rows[i]
    BY DEF Cancelled, InPlace
  <1>2. m.about.task \in Tasks => s.task[m.about.task] = "cancelled"
    BY DEF Truth
  <1>3. ~Reloads("tasks", m)
    BY DEF Reloads
  <1> HIDE DEF fixed
  <1>4. ASSUME NEW i \in DOMAIN v.rows, IsRow("tasks", v.rows[i])
        PROVE  \/ IsRow("tasks", fixed[i]) /\ RowFine(s, fixed[i], {})
               \/ fixed[i] = v.rows[i] /\ ~Corrects(v.rows[i], m)
    <2>1. CASE IsTask(v.rows[i], m.about.task)
      <3> DEFINE q == v.rows[i]
                 p == [q EXCEPT !.status = "cancelled"]
      <3>1. fixed[i] = p /\ q.kind = "task" /\ q.task = m.about.task
        BY <1>1, <2>1 DEF IsTask
      <3>2. DOMAIN p = DOMAIN q /\ p.kind = "task" /\ p.task = q.task /\ p.status = "cancelled"
            /\ {"kind", "task", "status"} \subseteq DOMAIN q /\ q.task \in Tasks
        BY <1>4, <3>1 DEF IsRow
      <3> HIDE DEF q, p
      <3>3. IsRow("tasks", p) /\ RowFine(s, p, {})
        BY <1>2, <3>1, <3>2 DEF IsRow, RowFine
      <3>4. QED
        BY <3>1, <3>3
    <2>2. CASE ~IsTask(v.rows[i], m.about.task)
      BY <1>1, <2>2 DEF IsTask, Corrects
    <2>3. QED
      BY <2>1, <2>2
  <1>5. QED
    BY <1>1, <1>3, <1>4, RowsCorrected DEF fixed

\* An archived card is done; a restored one is not.
LEMMA ArchivedFine ==
  ASSUME NEW s, NEW v, NEW C, RowsFine(s, "today", v.rows, C),
         NEW m, m.to = "views", m.op \in {"cardArchived", "cardRestored"}, Truth(s, m),
         NEW D, \A x \in C : x \in D \/ x = m
  PROVE  RowsFine(s, "today", IF m.op = "cardArchived" THEN Archived(v, m) ELSE Restored(v, m), D)
  <1> DEFINE fixed == IF m.op = "cardArchived" THEN Archived(v, m) ELSE Restored(v, m)
             done == m.op = "cardArchived"
  <1>1. /\ DOMAIN fixed = DOMAIN v.rows
        /\ \A i \in DOMAIN v.rows :
              /\ ~IsCard(v.rows[i], m.about.card) => fixed[i] = v.rows[i]
              /\ IsCard(v.rows[i], m.about.card) =>
                    fixed[i] = IF m.op = "cardArchived" THEN [v.rows[i] EXCEPT !.done = TRUE, !.prev = m.about.prev]
                               ELSE [v.rows[i] EXCEPT !.done = FALSE]
    BY DEF Archived, Restored, InPlace
  <1>2. m.about.card \in Cards => /\ s.card[m.about.card].archived = done
                                  /\ done = TRUE \/ m.about.card \in s.restored
    BY DEF Truth
  <1>3. ~Reloads("today", m)
    BY DEF Reloads
  <1>4. ASSUME NEW q, q.kind = "card", {"kind", "card", "board", "status", "done"} \subseteq DOMAIN q,
               NEW p, p = IF m.op = "cardArchived" THEN [q EXCEPT !.done = TRUE, !.prev = m.about.prev]
                          ELSE [q EXCEPT !.done = FALSE]
        PROVE  DOMAIN p = DOMAIN q /\ p.kind = "card" /\ p.card = q.card /\ p.board = q.board /\ p.done = done
    <2>1. CASE m.op = "cardArchived"
      <3>1. p = [q EXCEPT !.done = TRUE, !.prev = m.about.prev]
        BY <1>4, <2>1
      <3>2. QED
        BY <1>4, <2>1, <3>1
    <2>2. CASE m.op # "cardArchived"
      <3>1. p = [q EXCEPT !.done = FALSE]
        BY <1>4, <2>2
      <3>2. QED
        BY <1>4, <2>2, <3>1
    <2>3. QED
      BY <2>1, <2>2
  <1> HIDE DEF fixed, done
  <1>5. ASSUME NEW i \in DOMAIN v.rows, IsRow("today", v.rows[i]), RowFine(s, v.rows[i], C)
        PROVE  \/ IsRow("today", fixed[i]) /\ RowFine(s, fixed[i], {})
               \/ fixed[i] = v.rows[i] /\ ~Corrects(v.rows[i], m)
    <2>1. CASE IsCard(v.rows[i], m.about.card)
      <3> DEFINE q == v.rows[i]
                 p == fixed[i]
      <3>1. q.kind = "card" /\ q.card = m.about.card
        BY <2>1 DEF IsCard
      <3>2. /\ {"kind", "card", "board", "status", "done"} \subseteq DOMAIN q /\ q.card \in Cards
            /\ s.card[q.card].board # "gone" /\ BoardShown(s, q)
        BY <1>5, <3>1 DEF IsRow, RowFine
      <3>3. p = IF m.op = "cardArchived" THEN [q EXCEPT !.done = TRUE, !.prev = m.about.prev]
                ELSE [q EXCEPT !.done = FALSE]
        BY <1>1, <2>1
      <3> HIDE DEF q, p
      <3>4. DOMAIN p = DOMAIN q /\ p.kind = "card" /\ p.card = q.card /\ p.board = q.board /\ p.done = done
        BY <1>4, <3>1, <3>2, <3>3
      <3>5. IsRow("today", p) /\ RowFine(s, p, {})
        BY <1>2, <3>1, <3>2, <3>4 DEF IsRow, RowFine, BoardShown, LaneShown
      <3>6. QED
        BY <3>5 DEF p
    <2>2. CASE ~IsCard(v.rows[i], m.about.card)
      BY <1>1, <2>2 DEF IsCard, Corrects
    <2>3. QED
      BY <2>1, <2>2
  <1>6. QED
    <2>1. RowsFine(s, "today", fixed, D)
      BY <1>1, <1>3, <1>5, RowsCorrected
    <2>2. QED
      BY <2>1 DEF fixed

LEMMA ListsAgain ==
  ASSUME NEW v, IsScreen(v)
  PROVE  /\ v.kind = "tasks" => SameData(v, TasksInit(v).view) /\ \E x \in TasksInit(v).out : x # Panic /\ Reloads("tasks", x)
         /\ v.kind = "today" => SameData(v, TodayInit(v).view) /\ \E x \in TodayInit(v).out : x # Panic /\ Reloads("today", x)
         /\ v.kind = "board" => \E x \in Reload(v).out \cap ReloadBoth(v).out : x # Panic /\ Relists(v.name, x)
  <1>1. CASE v.kind = "tasks"
    <2>1. SameData(v, TasksInit(v).view) /\ TasksInit(v).out = {LoadTasks(v.preset)}
      BY <1>1, SameSelf, SameAsking DEF TasksInit
    <2>2. LoadTasks(v.preset) # Panic /\ Reloads("tasks", LoadTasks(v.preset))
      BY DEF LoadTasks, Request, Panic, Reloads
    <2>3. QED
      BY <1>1, <2>1, <2>2
  <1>2. CASE v.kind = "today"
    <2>1. SameData(v, TodayInit(v).view) /\ TodayInit(v).out = {LoadToday(v.showDone)}
      BY <1>2, SameSelf, SameAsking DEF TodayInit
    <2>2. LoadToday(v.showDone) # Panic /\ Reloads("today", LoadToday(v.showDone))
      BY DEF LoadToday, Request, Panic, Reloads
    <2>3. QED
      BY <1>2, <2>1, <2>2
  <1>3. CASE v.kind = "board"
    <2>1. LoadBoard(v.name) # Panic /\ Relists(v.name, LoadBoard(v.name))
      BY DEF LoadBoard, Request, Panic, Relists
    <2>2. QED
      BY <1>3, <2>1, ReloadSame
  <1>4. QED
    BY <1>1, <1>2, <1>3

LEMMA TasksUpdateFine ==
  ASSUME NEW s, NEW v, IsScreen(v), v.kind = "tasks", NEW m, m.to = "views", Truth(s, m),
         NEW C, ScreenFine(s, v, C), NEW D, \A x \in C : x \in D \/ x = m,
         \A x \in TasksUpdate(v, m).out : x \in D \/ x = Panic
  PROVE  ScreenFine(s, TasksUpdate(v, m).view, D)
  <1> DEFINE r == TasksUpdate(v, m)
             loaded == [v EXCEPT !.busy = FALSE, !.rows = m.about.rows, !.cursor = Clamp(@, m.about.rows)]
             toggled == [v EXCEPT !.busy = FALSE, !.rows = Toggled(v, m)]
             cancelled == [v EXCEPT !.busy = FALSE, !.rows = Cancelled(v, m)]
  <1>1. \/ m.op = "tasksLoaded" /\ r = Stay(loaded)
        \/ m.op = "taskToggled" /\ ~m.about.recurred /\ r = Stay(toggled)
        \/ m.op = "taskCancelled" /\ r = Stay(cancelled)
        \/ r = TasksInit(v)
        \/ r = Stay(v) /\ m.op \notin {"tasksLoaded", "taskToggled", "taskCancelled", "editSaved", "taskAdded",
                                       "fileHidden", "taskPurged"}
    BY DEF TasksUpdate
  <1>2. /\ loaded.kind = "tasks" /\ loaded.rows = m.about.rows
        /\ toggled.kind = "tasks" /\ toggled.rows = Toggled(v, m)
        /\ cancelled.kind = "tasks" /\ cancelled.rows = Cancelled(v, m)
    BY DEF IsScreen
  <1> HIDE DEF loaded, toggled, cancelled
  <1>3. RowsFine(s, "tasks", v.rows, C)
    BY DEF ScreenFine
  <1>4. CASE m.op = "tasksLoaded" /\ r = Stay(loaded)
    <2>1. RowsFine(s, "tasks", m.about.rows, D)
      BY <1>4, ServedFine DEF Truth
    <2>2. QED
      BY <1>2, <1>4, <2>1 DEF Stay, Res, ScreenFine
  <1>5. CASE m.op = "taskToggled" /\ ~m.about.recurred /\ r = Stay(toggled)
    <2>1. RowsFine(s, "tasks", Toggled(v, m), D)
      BY <1>3, <1>5, ToggledFine
    <2>2. QED
      BY <1>2, <1>5, <2>1 DEF Stay, Res, ScreenFine
  <1>6. CASE m.op = "taskCancelled" /\ r = Stay(cancelled)
    <2>1. RowsFine(s, "tasks", Cancelled(v, m), D)
      BY <1>3, <1>6, CancelledFine
    <2>2. QED
      BY <1>2, <1>6, <2>1 DEF Stay, Res, ScreenFine
  <1>7. CASE r = TasksInit(v)
    BY <1>7, ListsAgain DEF ScreenFine, RowsFine, SameData
  <1>8. CASE r = Stay(v) /\ m.op \notin {"tasksLoaded", "taskToggled", "taskCancelled", "editSaved", "taskAdded",
                                         "fileHidden", "taskPurged"}
    <2>1. Unheard(v, m)
      BY <1>8 DEF Unheard, Reloads, Corrects, IsRow
    <2>2. ScreenFine(s, v, D)
      BY <2>1, SameSelf, ScreenKept
    <2>3. QED
      BY <1>8, <2>2 DEF Stay, Res
  <1>9. QED
    BY <1>1, <1>4, <1>5, <1>6, <1>7, <1>8

LEMMA TodayUpdateFine ==
  ASSUME NEW s, NEW v, IsScreen(v), v.kind = "today", NEW m, m.to = "views", Truth(s, m),
         NEW C, ScreenFine(s, v, C), NEW D, \A x \in C : x \in D \/ x = m,
         \A x \in TodayUpdate(v, m).out : x \in D \/ x = Panic
  PROVE  ScreenFine(s, TodayUpdate(v, m).view, D)
  <1> DEFINE r == TodayUpdate(v, m)
             idle == [v EXCEPT !.busy = FALSE]
             loaded == [idle EXCEPT !.rows = m.about.rows, !.cursor = Clamp(@, m.about.rows)]
             with(rows) == [idle EXCEPT !.rows = rows]
             others == {"todayLoaded", "taskToggled", "cardArchived", "cardRestored", "cardSaved", "editSaved",
                        "taskAdded", "taskCancelled", "taskPurged", "cardDeleted"}
  <1>1. \/ m.op = "todayLoaded" /\ r = Stay(loaded)
        \/ m.op = "taskToggled" /\ ~m.about.recurred /\ r = Stay(with(Toggled(v, m)))
        \/ m.op = "cardArchived" /\ r = Stay(with(Archived(v, m)))
        \/ m.op = "cardRestored" /\ r = Stay(with(Restored(v, m)))
        \/ r = TodayInit(v)
        \/ r = Stay(v) /\ m.op \notin others
    BY DEF TodayUpdate
  <1>2. DOMAIN idle = DOMAIN v /\ idle.kind = "today"
    BY DEF IsScreen
  <1>3. /\ loaded.kind = "today" /\ loaded.rows = m.about.rows
        /\ \A rows : with(rows).kind = "today" /\ with(rows).rows = rows
    <2> HIDE DEF idle
    <2>1. QED
      BY <1>2 DEF IsScreen
  <1> HIDE DEF loaded, with, idle
  <1>4. RowsFine(s, "today", v.rows, C)
    BY DEF ScreenFine
  <1>5. \A rows : RowsFine(s, "today", rows, D) => ScreenFine(s, Stay(with(rows)).view, D)
    BY <1>3 DEF Stay, Res, ScreenFine
  <1>6. CASE m.op = "todayLoaded" /\ r = Stay(loaded)
    <2>1. RowsFine(s, "today", m.about.rows, D)
      BY <1>6, ServedFine DEF Truth
    <2>2. QED
      BY <1>3, <1>6, <2>1 DEF Stay, Res, ScreenFine
  <1>7. CASE m.op = "taskToggled" /\ ~m.about.recurred /\ r = Stay(with(Toggled(v, m)))
    BY <1>4, <1>5, <1>7, ToggledFine
  <1>8. CASE m.op = "cardArchived" /\ r = Stay(with(Archived(v, m)))
    <2>1. RowsFine(s, "today", Archived(v, m), D)
      BY <1>4, <1>8, ArchivedFine
    <2>2. QED
      BY <1>5, <1>8, <2>1
  <1>9. CASE m.op = "cardRestored" /\ r = Stay(with(Restored(v, m)))
    <2>1. RowsFine(s, "today", Restored(v, m), D)
      BY <1>4, <1>9, ArchivedFine
    <2>2. QED
      BY <1>5, <1>9, <2>1
  <1>10. CASE r = TodayInit(v)
    BY <1>10, ListsAgain DEF ScreenFine, RowsFine, SameData
  <1>11. CASE r = Stay(v) /\ m.op \notin others
    <2>1. Unheard(v, m)
      BY <1>11 DEF Unheard, Reloads, Corrects
    <2>2. ScreenFine(s, v, D)
      BY <2>1, SameSelf, ScreenKept
    <2>3. QED
      BY <1>11, <2>2 DEF Stay, Res
  <1>12. QED
    BY <1>1, <1>6, <1>7, <1>8, <1>9, <1>10, <1>11

LEMMA BoardUpdateFine ==
  ASSUME NEW s, NEW v, IsScreen(v), v.kind = "board", NEW m, m.to = "views", Truth(s, m),
         NEW C, ScreenFine(s, v, C), NEW D, \A x \in C : x \in D \/ x = m,
         \A x \in BoardUpdate(v, m).out : x \in D \/ x = Panic
  PROVE  ScreenFine(s, BoardUpdate(v, m).view, D)
  <1> DEFINE r == BoardUpdate(v, m)
             idle == [v EXCEPT !.busy = FALSE]
             cards == [v EXCEPT !.busy = FALSE, !.cards = m.about.cards]
             arch == [v EXCEPT !.busy = FALSE, !.archiveLoaded = TRUE, !.archive = m.about.cards]
             status == (CHOOSE c \in CurrentCard(v) : TRUE).status
  <1>1. \/ m.op = "boardLoaded" /\ m.about.board = v.name /\ r = Stay(ClampCursors(cards))
        \/ m.op = "archiveLoaded" /\ m.about.board = v.name /\ r = Stay(ClampCursors(arch))
        \/ m.op \in {"cardSaved", "cardCreated", "cardMovedBoard"} /\ r = Reload(v)
        \/ r = ReloadBoth(v)
        \/ ~Relists(v.name, m) /\ (r = Stay(v) \/ r = Stay(idle) \/ r = Stay(OpenPicker(idle, status, m.about.boards)))
    BY DEF BoardUpdate, BoardLoaded, ArchiveLoaded, BoardPicker, Relists, BothChange
  <1>2. /\ DOMAIN idle = DOMAIN v /\ SameData(v, idle)
        /\ DOMAIN cards = DOMAIN v /\ cards.kind = "board" /\ cards.name = v.name /\ cards.cards = m.about.cards
        /\ cards.archive = v.archive /\ cards.archiveLoaded = v.archiveLoaded
        /\ DOMAIN arch = DOMAIN v /\ arch.kind = "board" /\ arch.name = v.name /\ arch.cards = v.cards
        /\ arch.archive = m.about.cards
    BY DEF IsScreen, SameData
  <1> HIDE DEF idle, cards, arch, status
  <1>3. BoardFine(s, v, C)
    BY DEF ScreenFine
  <1>4. CASE m.op = "boardLoaded" /\ m.about.board = v.name /\ r = Stay(ClampCursors(cards))
    <2> DEFINE w == ClampCursors(cards)
    <2>1. w.kind = "board" /\ w.name = v.name /\ w.cards = m.about.cards /\ w.archive = v.archive
          /\ w.archiveLoaded = v.archiveLoaded
      BY <1>2 DEF ClampCursors, IsScreen
    <2> HIDE DEF w
    <2>2. m.about.cards = OnBoard(s, v.name, FALSE)
      BY <1>4 DEF Truth
    <2>3. ~BothChange(v.name, m)
      BY <1>4 DEF BothChange
    <2>4. ScreenFine(s, w, D)
      BY <1>3, <2>1, <2>2, <2>3 DEF ScreenFine, BoardFine
    <2>5. QED
      BY <1>4, <2>4 DEF Stay, Res, w
  <1>5. CASE m.op = "archiveLoaded" /\ m.about.board = v.name /\ r = Stay(ClampCursors(arch))
    <2> DEFINE w == ClampCursors(arch)
    <2>1. w.kind = "board" /\ w.name = v.name /\ w.cards = v.cards /\ w.archive = m.about.cards
      BY <1>2 DEF ClampCursors, IsScreen
    <2> HIDE DEF w
    <2>2. m.about.cards = OnBoard(s, v.name, TRUE)
      BY <1>5 DEF Truth
    <2>3. ~Relists(v.name, m)
      BY <1>5 DEF Relists, BothChange
    <2>4. ScreenFine(s, w, D)
      BY <1>3, <2>1, <2>2, <2>3 DEF ScreenFine, BoardFine
    <2>5. QED
      BY <1>5, <2>4 DEF Stay, Res, w
  <1>6. CASE m.op \in {"cardSaved", "cardCreated", "cardMovedBoard"} /\ r = Reload(v)
    <2> DEFINE w == r.view
    <2>1. SameData(v, w) /\ \E x \in D : Relists(v.name, x)
      BY <1>6, ReloadSame, ListsAgain
    <2> HIDE DEF w
    <2>2. ~BothChange(v.name, m)
      BY <1>6 DEF BothChange
    <2>3. ScreenFine(s, w, D)
      BY <1>3, <2>1, <2>2 DEF ScreenFine, BoardFine, SameData
    <2>4. QED
      BY <2>3 DEF w
  <1>7. CASE r = ReloadBoth(v)
    <2> DEFINE w == r.view
    <2>1. SameData(v, w) /\ w.archiveLoaded = FALSE /\ \E x \in D : Relists(v.name, x)
      BY <1>7, ReloadSame, ListsAgain
    <2> HIDE DEF w
    <2>2. ScreenFine(s, w, D)
      BY <2>1 DEF ScreenFine, BoardFine, SameData
    <2>3. QED
      BY <2>2 DEF w
  <1>8. CASE ~Relists(v.name, m) /\ (r = Stay(v) \/ r = Stay(idle) \/ r = Stay(OpenPicker(idle, status, m.about.boards)))
    <2>1. Unheard(v, m)
      BY <1>8 DEF Unheard, Relists
    <2>2. SameData(v, v) /\ SameData(v, idle) /\ SameData(v, OpenPicker(idle, status, m.about.boards))
      BY <1>2, SameSelf, PickerSame
    <2>3. \A w : SameData(v, w) => ScreenFine(s, Stay(w).view, D)
      BY <2>1, ScreenKept DEF Stay, Res
    <2>4. QED
      BY <1>8, <2>2, <2>3
  <1>9. QED
    BY <1>1, <1>4, <1>5, <1>6, <1>7, <1>8

\* A message that tells the truth leaves every screen fine.
LEMMA UpdateOfFine ==
  ASSUME NEW s, NEW v, IsScreen(v), NEW m, IsCommand(m), m.to = "views", Truth(s, m),
         NEW C, ScreenFine(s, v, C), NEW D, \A x \in C : x \in D \/ x = m,
         \A x \in UpdateOf(v, m).out : x \in D \/ x = Panic
  PROVE  ScreenFine(s, UpdateOf(v, m).view, D)
  <1>1. CASE v.kind = "today"
    BY <1>1, TodayUpdateFine DEF UpdateOf
  <1>2. CASE v.kind = "tasks"
    BY <1>2, TasksUpdateFine DEF UpdateOf
  <1>3. CASE v.kind = "board"
    BY <1>3, BoardUpdateFine DEF UpdateOf
  <1>4. CASE v.kind \notin {"today", "tasks", "board"}
    BY <1>4, UpdateOfGood DEF Heard, Good, ScreenFine
  <1>5. QED
    BY <1>1, <1>2, <1>3, <1>4

\* A screen that is opened asks for what it shows.
LEMMA OpenedFine ==
  ASSUME NEW s, NEW v, IsScreen(v), v.kind = "board" => v.archiveLoaded = FALSE,
         NEW D, \A x \in InitOf(v).out : x \in D \/ x = Panic
  PROVE  ScreenFine(s, InitOf(v).view, D)
  <1>1. CASE v.kind = "today"
    BY <1>1, ListsAgain DEF InitOf, ScreenFine, RowsFine, SameData
  <1>2. CASE v.kind = "tasks"
    BY <1>2, ListsAgain DEF InitOf, ScreenFine, RowsFine, SameData
  <1>3. CASE v.kind = "board"
    <2> DEFINE w == Reload(v).view
    <2>1. InitOf(v) = Reload(v)
      BY <1>3 DEF InitOf
    <2>2. SameData(v, w) /\ \E x \in D : Relists(v.name, x)
      BY <1>3, <2>1, ReloadSame, ListsAgain
    <2> HIDE DEF w
    <2>3. ScreenFine(s, w, D)
      BY <1>3, <2>2 DEF ScreenFine, BoardFine, SameData
    <2>4. QED
      BY <2>1, <2>3 DEF w
  <1>4. CASE v.kind \notin {"today", "tasks", "board"}
    BY <1>4, InitOfGood DEF Good, ScreenFine
  <1>5. QED
    BY <1>1, <1>2, <1>3, <1>4

-----------------------------------------------------------------------------
(***************************************************************************)
(* What an answer says is what the request did.                            *)
(***************************************************************************)
TaskStep(s, t, m, k) ==
    \/ t.task[k] = s.task[k]
    \/ m.op \in {"taskToggled", "taskCancelled"} /\ m.about.task = k
    \/ m.op = "taskPurged"

CardStep(s, t, m, c) ==
    LET was == s.card[c]
        is == t.card[c]
    IN  \/ is = was
        \/ m.op = "cardSaved" /\ is.board = was.board /\ was.archived = FALSE /\ is.archived = FALSE
        \/ /\ m.op \in {"cardArchived", "cardRestored"} /\ m.about.card = c
           /\ was.board = m.about.board /\ is.board = was.board
        \/ /\ m.op = "cardMovedBoard" /\ was.board = m.about.board /\ is.board = m.about.dest
           /\ is.board \in Boards /\ was.archived = FALSE /\ is.archived = FALSE
           /\ is.status = was.status /\ c \in t.moved
        \/ m.op = "cardDeleted" /\ was.board = m.about.board /\ is.board = "gone"

\* A listing is answered by the list.
Listing(r, m) ==
    /\ r.op = "listTasks" => m.op = "tasksLoaded"
    /\ r.op = "dueItems" => m.op = "todayLoaded"
    /\ r.op = "getBoard" => m.op = "boardLoaded" /\ m.about.board = r.about.board

\* What the server did to cards since it last listed what is due.
Recalls(s, t) == s.moved \subseteq t.moved /\ s.restored \subseteq t.restored

Effect(s, r, t, m) ==
    /\ IsServer(t)
    /\ m.to = "views" /\ Truth(t, m) /\ Listing(r, m)
    /\ m.op = "todayLoaded" \/ Recalls(s, t)
    /\ \A k \in Tasks : TaskStep(s, t, m, k)
    /\ \A c \in Cards : CardStep(s, t, m, c)

\* An answer, or an error and nothing done.
Works(s, r, answer) == answer = <<s, Failed>> \/ Effect(s, r, answer[1], answer[2])

\* Messages that tell of the tasks and the cards.
Telling == {"tasksLoaded", "todayLoaded", "boardLoaded", "archiveLoaded", "taskToggled", "taskCancelled",
            "cardArchived", "cardRestored"}

LEMMA NothingTold ==
  ASSUME NEW s, NEW m, m.op \notin Telling
  PROVE  Truth(s, m)
  BY DEF Truth, Telling

\* A request that changes neither tasks nor cards.
Beside(s, t) ==
    /\ {"card", "task", "moved", "restored"} \subseteq DOMAIN t
    /\ t.card = s.card /\ t.task = s.task /\ t.moved = s.moved /\ t.restored = s.restored

LEMMA BesideEffect ==
  ASSUME NEW s, IsServer(s), NEW t, Beside(s, t), NEW r, NEW op, NEW about, Truth(t, Message(op, about)),
         Listing(r, Message(op, about))
  PROVE  Works(s, r, <<t, Message(op, about)>>)
  <1>1. IsServer(t)
    BY DEF IsServer, Beside
  <1>2. Message(op, about).to = "views"
    BY DEF Message
  <1>3. QED
    BY <1>1, <1>2 DEF Works, Effect, TaskStep, CardStep, Beside, Recalls

LEMMA WrittenBeside ==
  ASSUME NEW s, IsServer(s), NEW n
  PROVE  Beside(s, Written(s, n)) /\ IsServer(Written(s, n))
  BY DEF IsServer, Beside, Written

LEMMA MarkedServer ==
  ASSUME NEW s, IsServer(s), NEW k, NEW status
  PROVE  /\ IsServer(Marked(s, k, status)) /\ Marked(s, k, status).card = s.card /\ Recalls(s, Marked(s, k, status))
         /\ \A j \in Tasks : j # k => Marked(s, k, status).task[j] = s.task[j]
         /\ k \in Tasks => Marked(s, k, status).task[k] = status
  <1> DEFINE w == Written(s, NoteOf[k])
  <1>1. Beside(s, w) /\ IsServer(w)
    BY WrittenBeside
  <1>2. Marked(s, k, status) = [w EXCEPT !.task[k] = status]
    BY DEF Marked
  <1> HIDE DEF w
  <1>3. QED
    BY <1>1, <1>2 DEF IsServer, Beside, Recalls

LEMMA MarkedEffect ==
  ASSUME NEW s, IsServer(s), NEW r, r.op \in TaskOps, NEW k, NEW status, NEW m, m.to = "views",
         m.op = "taskPurged" \/ (m.op \in {"taskToggled", "taskCancelled"} /\ m.about.task = k),
         Truth(Marked(s, k, status), m)
  PROVE  Works(s, r, <<Marked(s, k, status), m>>)
  <1> DEFINE t == Marked(s, k, status)
  <1>1. /\ IsServer(t) /\ t.card = s.card /\ Recalls(s, t)
        /\ \A j \in Tasks : j # k => t.task[j] = s.task[j]
    BY MarkedServer
  <1>2. Truth(t, m)
    OBVIOUS
  <1>3. Listing(r, m)
    BY DEF Listing, TaskOps
  <1> HIDE DEF t
  <1>4. Effect(s, r, t, m)
    BY <1>1, <1>2, <1>3 DEF Effect, TaskStep, CardStep
  <1>5. QED
    BY <1>4 DEF Works, t

LEMMA TaskEffect ==
  ASSUME NEW s, IsServer(s), NEW r, r.op \in TaskOps, NEW answer \in TaskAnswers(s, r)
  PROVE  Works(s, r, answer)
  <1> DEFINE a == r.about
             k == a.task
             about == [task |-> k]
  <1>1. <<s, Failed>> = answer => Works(s, r, answer)
    BY DEF Works
  <1>2. CASE r.op = "toggleTask"
    <2> DEFINE rec == a.done /\ k \in Recurring
               told3 == [task |-> k, done |-> a.done, recurred |-> rec]
               status == IF a.done /\ ~rec THEN "done" ELSE "open"
               m == Message("taskToggled", told3)
    <2>1. answer = <<s, Failed>> \/ answer = <<Marked(s, k, status), m>>
      BY <1>2 DEF TaskAnswers, Answered, Refused
    <2>2. m.to = "views" /\ m.op = "taskToggled" /\ m.about.task = k /\ m.about.recurred = rec /\ m.about.done = a.done
      BY DEF Message
    <2>3. k \in Tasks => Marked(s, k, status).task[k] = status
      BY MarkedServer
    <2> HIDE DEF m
    <2>4. Truth(Marked(s, k, status), m)
      BY <2>2, <2>3 DEF Truth
    <2>5. Works(s, r, <<Marked(s, k, status), m>>)
      BY <2>2, <2>4, MarkedEffect
    <2>6. QED
      BY <1>1, <2>1, <2>5
  <1>3. CASE r.op = "deleteTask"
    <2> DEFINE purged == Message("taskPurged", about)
               cancelled == Message("taskCancelled", about)
    <2>1. \/ answer = <<s, Failed>>
          \/ answer = <<Marked(s, k, "gone"), purged>>
          \/ answer = <<Marked(s, k, "cancelled"), cancelled>>
      BY <1>3 DEF TaskAnswers, Answered, Refused
    <2>2. /\ purged.to = "views" /\ purged.op = "taskPurged"
          /\ cancelled.to = "views" /\ cancelled.op = "taskCancelled" /\ cancelled.about.task = k
      BY DEF Message
    <2>3. k \in Tasks => Marked(s, k, "cancelled").task[k] = "cancelled"
      BY MarkedServer
    <2> HIDE DEF purged, cancelled
    <2>4. Truth(Marked(s, k, "gone"), purged) /\ Truth(Marked(s, k, "cancelled"), cancelled)
      BY <2>2, <2>3 DEF Truth
    <2>5. Works(s, r, <<Marked(s, k, "gone"), purged>>) /\ Works(s, r, <<Marked(s, k, "cancelled"), cancelled>>)
      BY <2>2, <2>4, MarkedEffect
    <2>6. QED
      BY <1>1, <2>1, <2>5
  <1>4. CASE r.op \in {"saveTaskEdit", "hideFile", "addTask"}
    <2> DEFINE w == Written(s, NoteOf[k])
    <2>1. \/ answer = <<s, Failed>>
          \/ answer = <<w, Message("editSaved", about)>>
          \/ answer = <<[w EXCEPT !.hidden = @ \cup {NoteOf[k]}], Message("fileHidden", about)>>
          \/ answer = <<Written(s, a.note), Message("taskAdded", a)>>
          \/ answer = <<s, Message("taskAdded", a)>>
      <3>1. CASE r.op = "saveTaskEdit"
        BY <3>1 DEF TaskAnswers, Answered, Refused
      <3>2. CASE r.op = "hideFile"
        BY <3>2 DEF TaskAnswers, Answered, Refused
      <3>3. CASE r.op = "addTask"
        BY <3>3 DEF TaskAnswers, Answered
      <3>4. QED
        BY <1>4, <3>1, <3>2, <3>3
    <2>2. Beside(s, w) /\ Beside(s, Written(s, a.note)) /\ Beside(s, s)
      BY WrittenBeside DEF Beside, IsServer
    <2>3. Beside(s, [w EXCEPT !.hidden = @ \cup {NoteOf[k]}])
      <3> HIDE DEF w
      <3>1. QED
        BY <2>2 DEF Beside
    <2>4. \A t, op, x : op \in {"editSaved", "fileHidden", "taskAdded"} =>
             Truth(t, Message(op, x)) /\ Listing(r, Message(op, x))
      BY <1>4, NothingTold DEF Telling, Message, Listing
    <2> HIDE DEF w
    <2>5. QED
      BY <1>1, <2>1, <2>2, <2>3, <2>4, BesideEffect
  <1>5. QED
    BY <1>2, <1>3, <1>4 DEF TaskOps

LEMMA NoteEffect ==
  ASSUME NEW s, IsServer(s), NEW r, r.op \in NoteOps, NEW answer \in NoteAnswers(s, r)
  PROVE  Works(s, r, answer)
  <1> DEFINE a == r.about
             saved == [s EXCEPT !.note[a.slug].version = @ + 1]
             ops == {"noteSaved", "notePropertySaved", "basePropSaved", "openNote", "noteReloaded",
                     "basePropEditor", "previewLoaded", "agentsListed", "agentPromptSent"}
  <1>1. Beside(s, saved) /\ Beside(s, s)
    BY DEF Beside, IsServer
  <1>2. \A t, op, x : op \in ops => Truth(t, Message(op, x)) /\ Listing(r, Message(op, x))
    BY NothingTold DEF Telling, Message, Listing, NoteOps
  <1>3. \/ answer = <<s, Failed>>
        \/ \E op \in ops : \E x : answer = <<saved, Message(op, x)>> \/ answer = <<s, Message(op, x)>>
    <2>1. CASE r.op = "saveNote"
      BY <2>1 DEF NoteAnswers, Answered, Refused
    <2>2. CASE r.op = "setProperty"
      <3>1. CASE r.about.by = "note"
        BY <2>2, <3>1 DEF NoteAnswers, Answered, Refused
      <3>2. CASE r.about.by # "note"
        BY <2>2, <3>2 DEF NoteAnswers, Answered, Refused
      <3>3. QED
        BY <3>1, <3>2
    <2>3. CASE r.op = "openNote"
      BY <2>3 DEF NoteAnswers, Answered, Refused
    <2>4. CASE r.op = "reloadNote"
      BY <2>4 DEF NoteAnswers, Answered, Refused
    <2>5. CASE r.op = "propNote"
      BY <2>5 DEF NoteAnswers, Answered, Refused
    <2>6. CASE r.op = "previewNote"
      BY <2>6 DEF NoteAnswers, Answered
    <2>7. CASE r.op = "listAgents"
      BY <2>7 DEF NoteAnswers, Answered
    <2>8. CASE r.op = "promptAgent"
      BY <2>8 DEF NoteAnswers, Answered
    <2>9. QED
      BY <2>1, <2>2, <2>3, <2>4, <2>5, <2>6, <2>7, <2>8 DEF NoteOps
  <1> HIDE DEF saved, ops
  <1>4. \A op \in ops : \A x : Works(s, r, <<saved, Message(op, x)>>) /\ Works(s, r, <<s, Message(op, x)>>)
    BY <1>1, <1>2, BesideEffect
  <1>5. QED
    BY <1>3, <1>4 DEF Works

LEMMA ReadEffect ==
  ASSUME NEW s, IsServer(s), NEW r, r.op \in ReadOps, NEW answer \in ReadAnswers(s, r)
  PROVE  Works(s, r, answer)
  <1> DEFINE a == r.about
             set == [s EXCEPT !.item[a.item] = a.state]
             cards(archived) == [board |-> a.board, cards |-> OnBoard(s, a.board, archived)]
             Quietly == {"boardsLoaded", "sourcePullBoards", "cardMovePicker", "boardMovePicker", "notesFound",
                         "addTaskResults", "browseLoaded", "previewTick", "basesList", "baseData", "azItems",
                         "azItem", "azStateSet", "azCommented", "sourceItems", "sourceCommented", "sourcesLoaded"}
  <1>1. Beside(s, set) /\ Beside(s, s)
    BY DEF Beside, IsServer
  <1>2. CASE r.op = "getBoard"
    <2>1. answer = <<s, Message("boardLoaded", cards(FALSE))>>
      BY <1>2 DEF ReadAnswers, Answered
    <2>2. Truth(s, Message("boardLoaded", cards(FALSE))) /\ Listing(r, Message("boardLoaded", cards(FALSE)))
      BY <1>2 DEF Message, Truth, Listing
    <2> HIDE DEF cards
    <2>3. QED
      BY <1>1, <2>1, <2>2, BesideEffect
  <1>3. CASE r.op = "listArchive"
    <2>1. answer = <<s, Message("archiveLoaded", cards(TRUE))>>
      BY <1>3 DEF ReadAnswers, Answered
    <2>2. Truth(s, Message("archiveLoaded", cards(TRUE))) /\ Listing(r, Message("archiveLoaded", cards(TRUE)))
      BY <1>3 DEF Message, Truth, Listing
    <2> HIDE DEF cards
    <2>3. QED
      BY <1>1, <2>1, <2>2, BesideEffect
  <1>4. CASE r.op = "listTasks"
    <2> DEFINE about == [rows |-> Listed(s, a.preset)]
    <2>1. answer = <<s, Message("tasksLoaded", about)>>
      BY <1>4 DEF ReadAnswers, Answered
    <2>2. Truth(s, Message("tasksLoaded", about)) /\ Listing(r, Message("tasksLoaded", about))
      BY <1>4, ListedServed DEF Message, Truth, Listing
    <2> HIDE DEF about
    <2>3. QED
      BY <1>1, <2>1, <2>2, BesideEffect
  <1>5. CASE r.op = "dueItems"
    <2> DEFINE about == [rows |-> Due(s, a.showDone)]
               t == [s EXCEPT !.moved = {}, !.restored = {}]
               m == Message("todayLoaded", about)
    <2>1. answer = <<t, m>>
      BY <1>5 DEF ReadAnswers, Answered
    <2>2. m.to = "views" /\ m.op = "todayLoaded" /\ m.about.rows = Due(s, a.showDone)
      BY DEF Message
    <2>3. IsServer(t) /\ t.card = s.card /\ t.task = s.task /\ t.hidden = s.hidden /\ t.note = s.note
      BY DEF IsServer
    <2> HIDE DEF about, t, m
    <2>4. Due(t, a.showDone) = Due(s, a.showDone)
      BY <2>3 DEF Due, TaskRows, TaskRow, Version, TodayCard, CardRow
    <2>5. Truth(t, m) /\ Listing(r, m)
      BY <1>5, <2>2, <2>3, <2>4, DueServed DEF Truth, Listing
    <2>6. QED
      BY <2>1, <2>2, <2>3, <2>5 DEF Works, Effect, TaskStep, CardStep
  <1>6. CASE r.op \notin {"getBoard", "listArchive", "listTasks", "dueItems"}
    <2>1. \E op \in Quietly : \E x : answer = <<s, Message(op, x)>> \/ answer = <<set, Message(op, x)>>
      <3>1. CASE r.op = "listBoards"
        <4>1. answer = <<s, BoardsListed(a)>>
          BY <3>1 DEF ReadAnswers, Answered
        <4>2. \E op \in Quietly : \E x : BoardsListed(a) = Message(op, x)
          BY DEF BoardsListed
        <4>3. QED
          BY <4>1, <4>2
      <3>2. CASE r.op = "searchNotes"
        <4>1. answer \in SearchAnswers(s, a.by)
          BY <3>2 DEF ReadAnswers
        <4>2. \E f : answer = <<s, Message(IF a.by = "notes" THEN "notesFound" ELSE "addTaskResults", [found |-> f])>>
          BY <4>1 DEF SearchAnswers, Answered
        <4>3. QED
          BY <4>2
      <3>3. CASE r.op = "boardItems"
        <4>1. \E x : answer = <<s, Message("azItems", x)>>
          BY <3>3 DEF ReadAnswers, Answered
        <4>2. QED
          BY <4>1
      <3>4. CASE r.op = "setState"
        BY <3>4 DEF ReadAnswers, Answered
      <3>5. CASE r.op \in {"listNotes", "previewTick", "listBases", "getBase"}
        <4>1. CASE r.op = "listNotes"
          BY <4>1 DEF ReadAnswers, Answered
        <4>2. CASE r.op = "previewTick"
          BY <4>2 DEF ReadAnswers, Answered
        <4>3. CASE r.op = "listBases"
          BY <4>3 DEF ReadAnswers, Answered
        <4>4. CASE r.op = "getBase"
          BY <4>4 DEF ReadAnswers, Answered
        <4>5. QED
          BY <3>5, <4>1, <4>2, <4>3, <4>4
      <3>6. CASE r.op \in {"item", "commentItem", "sourceItems", "commentSource", "health"}
        <4>1. CASE r.op = "item"
          BY <4>1 DEF ReadAnswers, Answered
        <4>2. CASE r.op = "commentItem"
          BY <4>2 DEF ReadAnswers, Answered
        <4>3. CASE r.op = "sourceItems"
          BY <4>3 DEF ReadAnswers, Answered
        <4>4. CASE r.op = "commentSource"
          BY <4>4 DEF ReadAnswers, Answered
        <4>5. CASE r.op = "health"
          BY <4>5 DEF ReadAnswers, Answered
        <4>6. QED
          BY <3>6, <4>1, <4>2, <4>3, <4>4, <4>5
      <3>7. QED
        BY <1>6, <3>1, <3>2, <3>3, <3>4, <3>5, <3>6 DEF ReadOps
    <2>2. \A t, op, x : op \in Quietly => Truth(t, Message(op, x)) /\ Listing(r, Message(op, x))
      BY <1>6, NothingTold DEF Telling, Message, Listing
    <2> HIDE DEF set, Quietly
    <2>3. \A op \in Quietly : \A x : Works(s, r, <<set, Message(op, x)>>) /\ Works(s, r, <<s, Message(op, x)>>)
      BY <1>1, <2>2, BesideEffect
    <2>4. QED
      BY <2>1, <2>3
  <1>7. QED
    BY <1>2, <1>3, <1>4, <1>5, <1>6

\* The server after a request about card k: the card is on board b, in the
\* archive or not; the rest is as it was.
CardNow(s, t, k, b, archived) ==
    /\ IsServer(t) /\ t.task = s.task /\ Recalls(s, t)
    /\ \A c \in Cards : c # k => t.card[c] = s.card[c]
    /\ k \in Cards => t.card[k].board = b /\ t.card[k].archived = archived

LEMMA CardsAfter ==
  ASSUME NEW s, IsServer(s), NEW k, NEW status
  PROVE  /\ CardNow(s, [s EXCEPT !.card[k].archived = TRUE, !.card[k].status = "done"], k, s.card[k].board, TRUE)
         /\ \A S : CardNow(s, [s EXCEPT !.card[k].archived = FALSE, !.card[k].status = status,
                                        !.restored = @ \cup S], k, s.card[k].board, FALSE)
         /\ CardNow(s, [s EXCEPT !.card[k].status = status], k, s.card[k].board, s.card[k].archived)
         /\ CardNow(s, [s EXCEPT !.card[k].body = @ + 1], k, s.card[k].board, s.card[k].archived)
         /\ \A b : CardNow(s, [s EXCEPT !.card[k].board = b], k, b, s.card[k].archived)
         /\ \A b, S : CardNow(s, [s EXCEPT !.card[k].board = b, !.moved = @ \cup S], k, b, s.card[k].archived)
  BY DEF CardNow, IsServer, Recalls

LEMMA CardKept ==
  ASSUME NEW s, IsServer(s), NEW k
  PROVE  CardNow(s, s, k, s.card[k].board, s.card[k].archived)
  BY DEF CardNow, Recalls

\* What the answer to a request about card k has to say.
LEMMA CardWorks ==
  ASSUME NEW s, IsServer(s), NEW r, r.op \in CardOps, NEW t, NEW k, NEW b, NEW archived, CardNow(s, t, k, b, archived),
         NEW m, m.to = "views",
         \/ m.op = "cardSaved" /\ b = s.card[k].board /\ s.card[k].archived = FALSE /\ archived = FALSE
         \/ /\ m.op \in {"cardArchived", "cardRestored"} /\ m.about.card = k /\ s.card[k].board = m.about.board
            /\ b = s.card[k].board /\ archived = (m.op = "cardArchived")
            /\ m.op = "cardRestored" => k \in t.restored
         \/ /\ m.op = "cardMovedBoard" /\ s.card[k].board = m.about.board /\ b = m.about.dest /\ b \in Boards
            /\ s.card[k].archived = FALSE /\ archived = FALSE /\ k \in t.moved
            /\ k \in Cards => t.card[k].status = s.card[k].status
         \/ m.op = "cardDeleted" /\ s.card[k].board = m.about.board /\ b = "gone"
  PROVE  Works(s, r, <<t, m>>)
  <1>1. Truth(t, m)
    BY DEF Truth, CardNow
  <1>2. Listing(r, m)
    BY DEF Listing, CardOps
  <1>3. \A c \in Cards : CardStep(s, t, m, c)
    BY DEF CardStep, CardNow
  <1>4. QED
    BY <1>1, <1>2, <1>3 DEF Works, Effect, TaskStep, CardNow

LEMMA PatchEffect ==
  ASSUME NEW s, IsServer(s), NEW r, r.op = "patchCard", Found(s, r.about, FALSE)
  PROVE  Works(s, r, PatchCard(s, r.about))
  <1> DEFINE a == r.about
             k == a.card
             new(f) == IF f \in DOMAIN a.patch THEN a.patch[f] ELSE s.card[k][f]
             done == new("status") = "done"
             t == [s EXCEPT !.card[k] = [@ EXCEPT !.title = new("title"), !.body = new("body"),
                                                  !.status = new("status"), !.archived = new("status") = "done"]]
             m == IF done THEN CardArchived(s, a) ELSE CardSaved(t, k)
  <1>1. PatchCard(s, a) = <<t, m>>
    BY DEF PatchCard, Answered
  <1>2. CardNow(s, t, k, s.card[k].board, done)
    <2> DEFINE title == new("title")
               body == new("body")
               status == new("status")
    <2>1. t = [s EXCEPT !.card[k] = [@ EXCEPT !.title = title, !.body = body, !.status = status, !.archived = done]]
      OBVIOUS
    <2>2. done \in BOOLEAN
      OBVIOUS
    <2> HIDE DEF title, body, status, done, t
    <2>3. QED
      BY <2>1, <2>2 DEF CardNow, IsServer, Recalls
  <1>3. s.card[k].board = a.board /\ s.card[k].archived = FALSE /\ r.op \in CardOps
    BY DEF Found, CardOps
  <1>4. /\ m.to = "views"
        /\ done => m.op = "cardArchived" /\ m.about.card = k /\ m.about.board = a.board
        /\ ~done => m.op = "cardSaved"
    <2>1. CASE done
      <3>1. m = CardArchived(s, a)
        BY <2>1
      <3>2. QED
        BY <2>1, <3>1 DEF CardArchived, Message
    <2>2. CASE ~done
      <3>1. \E q : m = CardSaved(q, k)
        BY <2>2
      <3> HIDE DEF m
      <3>2. QED
        BY <2>2, <3>1 DEF CardSaved, Message
    <2>3. QED
      BY <2>1, <2>2
  <1>5. done \in BOOLEAN
    OBVIOUS
  <1> HIDE DEF t, m, done
  <1>6. Works(s, r, <<t, m>>)
    BY <1>2, <1>3, <1>4, <1>5, CardWorks
  <1>7. QED
    BY <1>1, <1>6

LEMMA CardEffect ==
  ASSUME NEW s, IsServer(s), NEW r, IsCommand(r), r.to = "server", r.op \in CardOps, NEW answer \in CardAnswers(s, r)
  PROVE  Works(s, r, answer)
  <1> DEFINE a == r.about
             k == a.card
  <1>1. <<s, Failed>> = answer => Works(s, r, answer)
    BY DEF Works
  <1>2. CASE r.op = "archiveCard"
    <2> DEFINE t == [s EXCEPT !.card[k].archived = TRUE, !.card[k].status = "done"]
               m == CardArchived(s, a)
    <2>1. answer = <<s, Failed>> \/ (Found(s, a, FALSE) /\ answer = <<t, m>>)
      BY <1>2 DEF CardAnswers, Answered, Refused
    <2>2. CardNow(s, t, k, s.card[k].board, TRUE)
      BY CardsAfter
    <2>3. m.to = "views" /\ m.op = "cardArchived" /\ m.about.card = k /\ m.about.board = a.board
      BY DEF CardArchived, Message
    <2> HIDE DEF t, m
    <2>4. Found(s, a, FALSE) => Works(s, r, <<t, m>>)
      BY <2>2, <2>3, CardWorks DEF Found
    <2>5. QED
      BY <1>1, <2>1, <2>4
  <1>3. CASE r.op = "moveCard"
    <2> DEFINE t == [s EXCEPT !.card[k].status = a.status]
               m == Message("cardSaved", [card |-> "none"])
    <2>1. answer = <<s, Failed>> \/ (Found(s, a, FALSE) /\ answer = <<t, m>>)
      BY <1>3 DEF CardAnswers, Answered, Refused
    <2>2. CardNow(s, t, k, s.card[k].board, s.card[k].archived)
      BY CardsAfter
    <2>3. m.to = "views" /\ m.op = "cardSaved"
      BY DEF Message
    <2> HIDE DEF t, m
    <2>4. Found(s, a, FALSE) => Works(s, r, <<t, m>>)
      BY <2>2, <2>3, CardWorks DEF Found
    <2>5. QED
      BY <1>1, <2>1, <2>4
  <1>4. CASE r.op = "restoreCard"
    <2> DEFINE t == [s EXCEPT !.card[k].archived = FALSE, !.card[k].status = a.status, !.restored = @ \cup {k}]
               m == Message("cardRestored", a)
    <2>1. answer = <<s, Failed>> \/ (Found(s, a, TRUE) /\ answer = <<t, m>>)
      BY <1>4 DEF CardAnswers, Answered, Refused
    <2>2. CardNow(s, t, k, s.card[k].board, FALSE)
      BY CardsAfter
    <2>3. m.to = "views" /\ m.op = "cardRestored" /\ m.about = a /\ k \in t.restored
      BY DEF Message, IsServer
    <2> HIDE DEF t, m
    <2>4. Found(s, a, TRUE) => Works(s, r, <<t, m>>)
      BY <2>2, <2>3, CardWorks DEF Found
    <2>5. QED
      BY <1>1, <2>1, <2>4
  <1>5. CASE r.op = "moveCardToBoard"
    <2> DEFINE t == [s EXCEPT !.card[k].board = a.dest, !.moved = @ \cup {k}]
               m == Message("cardMovedBoard", a)
    <2>1. answer = <<s, Failed>> \/ (Found(s, a, FALSE) /\ answer = <<t, m>>)
      BY <1>5 DEF CardAnswers, Answered, Refused
    <2>2. CardNow(s, t, k, a.dest, s.card[k].archived)
      BY CardsAfter
    <2>3. m.to = "views" /\ m.op = "cardMovedBoard" /\ m.about = a
      BY DEF Message
    <2>4. a.dest \in Boards
      BY <1>5 DEF IsCommand
    <2>5. k \in t.moved /\ (k \in Cards => t.card[k].status = s.card[k].status)
      BY DEF IsServer
    <2> HIDE DEF t, m
    <2>6. Found(s, a, FALSE) => Works(s, r, <<t, m>>)
      BY <2>2, <2>3, <2>4, <2>5, CardWorks DEF Found
    <2>7. QED
      BY <1>1, <2>1, <2>6
  <1>6. CASE r.op = "deleteCard"
    <2> DEFINE t == [s EXCEPT !.card[k].board = "gone"]
               m == Message("cardDeleted", a)
    <2>1. answer = <<s, Failed>> \/ (s.card[k].board = a.board /\ answer = <<t, m>>)
      BY <1>6 DEF CardAnswers, Answered, Refused
    <2>2. CardNow(s, t, k, "gone", s.card[k].archived)
      BY CardsAfter
    <2>3. m.to = "views" /\ m.op = "cardDeleted" /\ m.about = a
      BY DEF Message
    <2> HIDE DEF t, m
    <2>4. s.card[k].board = a.board => Works(s, r, <<t, m>>)
      BY <2>2, <2>3, CardWorks
    <2>5. QED
      BY <1>1, <2>1, <2>4
  <1>7. CASE r.op = "patchCard"
    <2>1. answer = <<s, Failed>> \/ (Found(s, a, FALSE) /\ answer = PatchCard(s, a))
      BY <1>7 DEF CardAnswers, Refused
    <2>2. QED
      BY <1>1, <1>7, <2>1, PatchEffect
  <1>8. CASE r.op \in {"toggleBox", "addComment"}
    <2> DEFINE t == [s EXCEPT !.card[k].body = @ + 1]
    <2>1. \/ answer = <<s, Failed>>
          \/ Found(s, a, FALSE) /\ answer = <<t, CardSaved(t, k)>>
          \/ Found(s, a, FALSE) /\ answer = <<s, CardSaved(s, k)>>
      <3>1. CASE r.op = "toggleBox"
        <4>1. answer = <<s, Failed>> \/ (Found(s, a, FALSE) /\ answer \in ToggleBox(s, a))
          BY <3>1 DEF CardAnswers, Refused
        <4>2. \A q \in ToggleBox(s, a) : q = <<s, Failed>> \/ q = <<t, CardSaved(t, k)>>
          BY DEF ToggleBox, Answered, Refused
        <4> HIDE DEF t
        <4>3. QED
          BY <4>1, <4>2
      <3>2. CASE r.op = "addComment"
        BY <3>2 DEF CardAnswers, Refused, Answered
      <3>3. QED
        BY <1>8, <3>1, <3>2
    <2>2. CardNow(s, t, k, s.card[k].board, s.card[k].archived) /\ CardNow(s, s, k, s.card[k].board, s.card[k].archived)
      BY CardsAfter, CardKept
    <2>3. \A q : CardSaved(q, k).to = "views" /\ CardSaved(q, k).op = "cardSaved"
      BY DEF CardSaved, Message
    <2> HIDE DEF t
    <2>4. Found(s, a, FALSE) => Works(s, r, <<t, CardSaved(t, k)>>) /\ Works(s, r, <<s, CardSaved(s, k)>>)
      BY <2>2, <2>3, CardWorks DEF Found
    <2>5. QED
      BY <1>1, <2>1, <2>4
  <1>9. CASE r.op = "createCard"
    <2> DEFINE about == [board |-> a.board]
    <2>1. answer = <<s, Message("cardCreated", about)>>
      BY <1>9 DEF CardAnswers, Answered
    <2>2. Truth(s, Message("cardCreated", about)) /\ Listing(r, Message("cardCreated", about))
      BY <1>9, NothingTold DEF Telling, Message, Listing
    <2>3. Beside(s, s)
      BY DEF Beside, IsServer
    <2> HIDE DEF about
    <2>4. QED
      BY <2>1, <2>2, <2>3, BesideEffect
  <1>10. QED
    BY <1>2, <1>3, <1>4, <1>5, <1>6, <1>7, <1>8, <1>9 DEF CardOps

LEMMA AnswerEffect ==
  ASSUME NEW s, IsServer(s), NEW r, IsCommand(r), r.to = "server", NEW answer \in Answers(s, r)
  PROVE  Works(s, r, answer)
  <1>1. /\ TaskOps \cap CardOps = {} /\ TaskOps \cap NoteOps = {} /\ TaskOps \cap ReadOps = {}
        /\ CardOps \cap NoteOps = {} /\ CardOps \cap ReadOps = {} /\ NoteOps \cap ReadOps = {}
    BY DEF TaskOps, CardOps, NoteOps, ReadOps
  <1>2. CASE r.op \in TaskOps
    <2>1. Answers(s, r) = TaskAnswers(s, r)
      BY <1>1, <1>2 DEF Answers
    <2>2. QED
      BY <1>2, <2>1, TaskEffect
  <1>3. CASE r.op \in CardOps
    <2>1. Answers(s, r) = CardAnswers(s, r)
      BY <1>1, <1>3 DEF Answers
    <2>2. QED
      BY <1>3, <2>1, CardEffect
  <1>4. CASE r.op \in NoteOps
    <2>1. Answers(s, r) = NoteAnswers(s, r)
      BY <1>1, <1>4 DEF Answers
    <2>2. QED
      BY <1>4, <2>1, NoteEffect
  <1>5. CASE r.op \in ReadOps
    <2>1. Answers(s, r) = ReadAnswers(s, r)
      BY <1>1, <1>5 DEF Answers
    <2>2. QED
      BY <1>5, <2>1, ReadEffect
  <1>6. QED
    BY <1>2, <1>3, <1>4, <1>5 DEF IsCommand

\* A lane that an answer touches is listed again.
LEMMA LanesListed ==
  ASSUME NEW s, NEW t, NEW m, m.to = "views", \A c \in Cards : CardStep(s, t, m, c), NEW b \in Boards
  PROVE  /\ OnBoard(t, b, FALSE) = OnBoard(s, b, FALSE) \/ Relists(b, m)
         /\ OnBoard(t, b, TRUE) = OnBoard(s, b, TRUE) \/ BothChange(b, m)
  <1>1. b # "gone"
    BY TuiConstants
  <1>2. ASSUME ~Relists(b, m) PROVE OnBoard(t, b, FALSE) = OnBoard(s, b, FALSE)
    <2> DEFINE archived == FALSE
    <2>1. \A c \in Cards : \/ t.card[c] = s.card[c]
                           \/ /\ ~(s.card[c].board = b /\ s.card[c].archived = archived)
                              /\ ~(t.card[c].board = b /\ t.card[c].archived = archived)
      BY <1>1, <1>2 DEF CardStep, Relists, BothChange
    <2> HIDE DEF archived
    <2>2. OnBoard(t, b, archived) = OnBoard(s, b, archived)
      BY <2>1, SameLane
    <2>3. QED
      BY <2>2 DEF archived
  <1>3. ASSUME ~BothChange(b, m) PROVE OnBoard(t, b, TRUE) = OnBoard(s, b, TRUE)
    <2> DEFINE archived == TRUE
    <2>1. \A c \in Cards : \/ t.card[c] = s.card[c]
                           \/ /\ ~(s.card[c].board = b /\ s.card[c].archived = archived)
                              /\ ~(t.card[c].board = b /\ t.card[c].archived = archived)
      BY <1>1, <1>3 DEF CardStep, BothChange
    <2> HIDE DEF archived
    <2>2. OnBoard(t, b, archived) = OnBoard(s, b, archived)
      BY <2>1, SameLane
    <2>3. QED
      BY <2>2 DEF archived
  <1>4. QED
    BY <1>2, <1>3

\* Whatever a request changes, the screens were waiting to hear of it or are
\* told by the answer.
LEMMA EffectFine ==
  ASSUME NEW s, NEW r, NEW t, NEW m, Effect(s, r, t, m), NEW v, IsScreen(v),
         NEW C, \A x \in C : x.to # "views", ScreenFine(s, v, C),
         NEW D, m \in D, \A x \in C : x \in D \/ x = r
  PROVE  ScreenFine(t, v, D)
  <1>1. /\ m.to = "views" /\ Listing(r, m)
        /\ \A k \in Tasks : TaskStep(s, t, m, k)
        /\ \A c \in Cards : CardStep(s, t, m, c)
        /\ m.op = "todayLoaded" \/ Recalls(s, t)
    BY DEF Effect
  <1>2. CASE v.kind \in {"today", "tasks"}
    <2>1. RowsFine(s, v.kind, v.rows, C)
      BY <1>2 DEF ScreenFine
    <2>2. CASE \E x \in C : Reloads(v.kind, x)
      <3>1. PICK x \in C : Reloads(v.kind, x)
        BY <2>2
      <3>2. x \in D \/ Reloads(v.kind, m)
        BY <1>1, <3>1 DEF Reloads, Listing
      <3>3. QED
        BY <1>2, <3>1, <3>2 DEF ScreenFine, RowsFine
    <2>3. CASE Reloads(v.kind, m)
      BY <1>2, <2>3 DEF ScreenFine, RowsFine
    <2>4. CASE ~Reloads(v.kind, m) /\ ~ \E x \in C : Reloads(v.kind, x)
      <3> SUFFICES ASSUME NEW i \in DOMAIN v.rows PROVE IsRow(v.kind, v.rows[i]) /\ RowFine(t, v.rows[i], D)
        BY <1>2 DEF ScreenFine, RowsFine
      <3> DEFINE q == v.rows[i]
      <3>1. IsRow(v.kind, q) /\ RowFine(s, q, C)
        BY <2>1, <2>4 DEF RowsFine
      <3>2. \A x \in C : ~Corrects(q, x)
        BY DEF Corrects
      <3> HIDE DEF q
      <3>3. CASE q.kind = "task"
        <4>1. q.task \in Tasks /\ s.task[q.task] = q.status
          BY <3>1, <3>2, <3>3 DEF IsRow, RowFine
        <4>2. t.task[q.task] = s.task[q.task] \/ Corrects(q, m)
          BY <1>1, <1>2, <2>4, <3>3, <4>1 DEF TaskStep, Corrects, Reloads
        <4>3. RowFine(t, q, D)
          BY <3>3, <4>1, <4>2 DEF RowFine
        <4>4. QED
          BY <3>1, <4>3 DEF q
      <3>4. CASE q.kind # "task"
        <4>1. v.kind = "today" /\ q.kind = "card" /\ q.card \in Cards
          BY <3>1, <3>4 DEF IsRow
        <4>2. s.card[q.card].board # "gone" /\ BoardShown(s, q) /\ LaneShown(s, q)
          BY <3>1, <3>2, <4>1 DEF RowFine
        <4>3. CardStep(s, t, m, q.card) /\ m.op \notin {"cardSaved", "cardDeleted"} /\ Recalls(s, t)
          BY <1>1, <2>4, <4>1 DEF Reloads
        <4>4. t.card[q.card].board # "gone" /\ BoardShown(t, q)
          BY <4>2, <4>3, TuiConstants DEF CardStep, BoardShown, Recalls
        <4>5. LaneShown(t, q) \/ Corrects(q, m)
          BY <1>1, <4>1, <4>2, <4>3 DEF CardStep, Corrects, LaneShown, Recalls
        <4>6. RowFine(t, q, D)
          BY <4>1, <4>4, <4>5 DEF RowFine
        <4>7. QED
          BY <3>1, <4>6 DEF q
      <3>5. QED
        BY <3>3, <3>4
    <2>5. QED
      BY <2>2, <2>3, <2>4
  <1>3. CASE v.kind = "board"
    <2>1. BoardFine(s, v, C) /\ v.name \in Boards
      BY <1>3 DEF ScreenFine, IsScreen
    <2>2. /\ OnBoard(t, v.name, FALSE) = OnBoard(s, v.name, FALSE) \/ Relists(v.name, m)
          /\ OnBoard(t, v.name, TRUE) = OnBoard(s, v.name, TRUE) \/ BothChange(v.name, m)
      BY <1>1, <2>1, LanesListed
    <2>3. \A x \in C : ~BothChange(v.name, x)
      BY DEF BothChange
    <2>4. \A x \in C : Relists(v.name, x) => x \in D \/ Relists(v.name, m)
      BY <1>1, <2>3 DEF Relists, Listing
    <2>5. v.cards = OnBoard(t, v.name, FALSE) \/ \E x \in D : Relists(v.name, x)
      BY <2>1, <2>2, <2>4 DEF BoardFine
    <2>6. v.archiveLoaded => v.archive = OnBoard(t, v.name, TRUE) \/ \E x \in D : BothChange(v.name, x)
      BY <2>1, <2>2, <2>3 DEF BoardFine
    <2>7. QED
      BY <1>3, <2>5, <2>6 DEF ScreenFine, BoardFine
  <1>4. CASE v.kind \notin {"today", "tasks", "board"}
    BY <1>4 DEF ScreenFine
  <1>5. QED
    BY <1>2, <1>3, <1>4

-----------------------------------------------------------------------------
(***************************************************************************)
(* Honest, step by step.                                                   *)
(***************************************************************************)
\* A step of the program alone.
LEMMA HonestStep ==
  ASSUME Honest, session' = session, server' = server, outside' = outside, told => told',
         Failed \in Commands => Failed \in Commands' \/ told',
         \A x \in Commands' : x.to = "views" => x \in Commands \/ x.op \notin Telling,
         Calm /\ Calm' => \A i \in DOMAIN stack' : ScreenFine(server, stack'[i], Commands')
  PROVE  Honest'
  <1>1. Calm' => Calm
    BY DEF Calm
  <1>2. outside' \in Nat /\ IsServer(server')
    BY DEF Honest
  <1>3. Calm' => \A x \in Commands' : x.to = "views" => Truth(server', x)
    BY <1>1, NothingTold DEF Honest
  <1>4. QED
    BY <1>1, <1>2, <1>3 DEF Honest

\* What is left on its way may be all but a command that covers nothing.
Leaves(rest) ==
    /\ IsABag(rest) /\ BagToSet(rest) \subseteq Commands
    /\ \A x \in Commands : x \in BagToSet(rest) \/ (~Covers(x) /\ x # Failed)

LEMMA AllLeft == IsABag(flight) => Leaves(flight)
  BY DEF Leaves, Commands

LEMMA OneLeft ==
  ASSUME NEW x, IsABag(flight), ~Covers(x), x # Failed
  PROVE  Leaves(Taken(x))
  BY BagTaken DEF Leaves

\* A screen that the step passes over.
LEMMA PassedOver ==
  ASSUME NEW s, NEW v, NEW C, ScreenFine(s, v, C), NEW D, \A x \in C : x \in D \/ ~Covers(x)
  PROVE  ScreenFine(s, v, D)
  BY CoversAll, SameSelf, ScreenKept

LEMMA TopHonest ==
  ASSUME Inv, Honest, NEW r, Good(Top, r), NEW rest, Leaves(rest), OnTop(r), Started(rest, r.out),
         told' = told, session' = session, server' = server, outside' = outside,
         Calm => ScreenFine(server, r.view, Commands')
  PROVE  Honest'
  <1>1. stack \in Seq(ToSet(stack)) /\ Len(stack) > 0
    BY DEF Inv
  <1>2. /\ DOMAIN stack' = DOMAIN stack /\ stack'[Len(stack)] = r.view
        /\ \A i \in DOMAIN stack : i # Len(stack) => stack'[i] = stack[i]
    BY <1>1, Replaced DEF OnTop
  <1>3. Commands' = BagToSet(rest) \cup (r.out \ {Panic})
    BY StartedCommands DEF Leaves
  <1>4. \A x \in Commands : x \in Commands' \/ (~Covers(x) /\ x # Failed)
    BY <1>3 DEF Leaves
  <1>5. \A x \in Commands' : x.to = "views" => x \in Commands
    BY <1>3 DEF Leaves, Good, Own
  <1>6. ASSUME Calm, NEW i \in DOMAIN stack' PROVE ScreenFine(server, stack'[i], Commands')
    <2>1. CASE i = Len(stack)
      BY <1>2, <1>6, <2>1
    <2>2. CASE i # Len(stack)
      <3>1. stack'[i] = stack[i] /\ ScreenFine(server, stack[i], Commands)
        BY <1>2, <1>6, <2>2 DEF Honest
      <3>2. QED
        BY <1>4, <3>1, PassedOver
    <2>3. QED
      BY <2>1, <2>2
  <1>7. QED
    BY <1>4, <1>5, <1>6, HonestStep

LEMMA OpenHonest ==
  ASSUME Inv, Honest, NEW v, IsScreen(v), v.kind = "board" => v.archiveLoaded = FALSE,
         NEW below \in {<<>>, stack}, NEW rest, Leaves(rest),
         stack' = Append(below, InitOf(v).view), Started(rest, InitOf(v).out),
         told' = told, session' = session, server' = server, outside' = outside
  PROVE  Honest'
  <1> DEFINE r == InitOf(v)
  <1>1. stack \in Seq(ToSet(stack)) /\ Good(v, r)
    BY InitOfGood DEF Inv
  <1>2. Commands' = BagToSet(rest) \cup (r.out \ {Panic})
    BY StartedCommands DEF Leaves
  <1>3. ScreenFine(server, r.view, Commands')
    BY <1>2, OpenedFine
  <1> HIDE DEF r
  <1>4. below \in Seq(ToSet(stack)) /\ \A i \in DOMAIN below : i \in DOMAIN stack /\ below[i] = stack[i]
    <2>1. CASE below = <<>>
      <3>1. <<>> \in Seq(ToSet(stack)) /\ DOMAIN <<>> = {}
        OBVIOUS
      <3>2. QED
        BY <2>1, <3>1
    <2>2. CASE below = stack
      BY <1>1, <2>2
    <2>3. QED
      BY <2>1, <2>2
  <1>5. \A i \in DOMAIN stack' : (i \in DOMAIN stack /\ stack'[i] = stack[i]) \/ stack'[i] = r.view
    BY <1>4, Pushed DEF r
  <1>6. \A x \in Commands : x \in Commands' \/ (~Covers(x) /\ x # Failed)
    BY <1>2 DEF Leaves
  <1>7. \A x \in Commands' : x.to = "views" => x \in Commands
    BY <1>1, <1>2 DEF Leaves, Good, Own
  <1>8. ASSUME Calm, NEW i \in DOMAIN stack' PROVE ScreenFine(server, stack'[i], Commands')
    <2>1. CASE stack'[i] = r.view
      BY <1>3, <2>1
    <2>2. CASE i \in DOMAIN stack /\ stack'[i] = stack[i]
      <3>1. ScreenFine(server, stack[i], Commands)
        BY <1>8, <2>2 DEF Honest
      <3>2. QED
        BY <1>6, <2>2, <3>1, PassedOver
    <2>3. QED
      BY <1>5, <2>1, <2>2
  <1>9. QED
    BY <1>6, <1>7, <1>8, HonestStep

\* Screens go or stay, and commands go that cover nothing.
LEMMA ShutHonest ==
  ASSUME Inv, Honest, Leaves(flight'), told' = told, session' = session, server' = server, outside' = outside,
         stack' = stack \/ (Len(stack) > 1 /\ stack' = Front(stack))
  PROVE  Honest'
  <1>1. stack \in Seq(ToSet(stack))
    BY DEF Inv
  <1>2. \A i \in DOMAIN stack' : i \in DOMAIN stack /\ stack'[i] = stack[i]
    BY <1>1, FrontStack
  <1>3. /\ Commands' \subseteq Commands
        /\ \A x \in Commands : x \in Commands' \/ (~Covers(x) /\ x # Failed)
    BY DEF Leaves, Commands
  <1>4. ASSUME Calm, NEW i \in DOMAIN stack' PROVE ScreenFine(server, stack'[i], Commands')
    <2>1. i \in DOMAIN stack /\ stack'[i] = stack[i] /\ ScreenFine(server, stack[i], Commands)
      BY <1>2, <1>4 DEF Honest
    <2>2. QED
      BY <1>3, <2>1, PassedOver
  <1>5. QED
    BY <1>3, <1>4, HonestStep

LEMMA HonestPress ==
  ASSUME Inv, Honest, NEW key, Press(key)
  PROVE  Honest'
  <1>1. /\ Len(stack) > 0 /\ Len(stack) \in DOMAIN stack /\ IsScreen(Top) /\ theme \in ThemeNames
        /\ Leaves(flight) /\ IsABag(flight)
    BY OwnSeq, AllLeft DEF Inv, Top
  <1>2. told' = told /\ session' = session /\ server' = server /\ outside' = outside
    BY DEF Press
  <1>3. CASE TakenByApp(key) /\ AppKey(key)
    <2>1. CASE Len(stack) > 1 /\ stack' = Front(stack) /\ flight' = flight
      BY <1>1, <1>2, <2>1, ShutHonest
    <2>2. CASE \E o \in DOMAIN Roots : Open(Roots[o], <<>>)
      <3>1. PICK o \in DOMAIN Roots : Open(Roots[o], <<>>)
        BY <2>2
      <3>2. stack' = Append(<<>>, InitOf(Roots[o]).view) /\ Started(flight, InitOf(Roots[o]).out)
        BY <3>1 DEF Open
      <3>3. IsScreen(Roots[o])
        BY OpenedScreens
      <3>4. Roots[o].kind # "board"
        BY DEF Roots, NewToday, NewTasks, NewBoards, NewNotes, NewSource, NewBases, NewSources
      <3>5. QED
        BY <1>1, <1>2, <3>2, <3>3, <3>4, OpenHonest
    <2>3. CASE Open(NewTheme, stack)
      <3>1. stack' = Append(stack, InitOf(NewTheme).view) /\ Started(flight, InitOf(NewTheme).out)
        BY <2>3 DEF Open
      <3>2. IsScreen(NewTheme)
        BY <1>1, OpenedScreens
      <3>3. NewTheme.kind # "board"
        BY DEF NewTheme
      <3>4. QED
        BY <1>1, <1>2, <3>1, <3>2, <3>3, OpenHonest
    <2>4. CASE Open(NewAddTask, stack)
      <3>1. stack' = Append(stack, InitOf(NewAddTask).view) /\ Started(flight, InitOf(NewAddTask).out)
        BY <2>4 DEF Open
      <3>2. IsScreen(NewAddTask)
        BY OpenedScreens
      <3>3. NewAddTask.kind # "board"
        BY DEF NewAddTask
      <3>4. QED
        BY <1>1, <1>2, <3>1, <3>2, <3>3, OpenHonest
    <2>5. QED
      BY <1>3, <2>1, <2>2, <2>3, <2>4 DEF AppKey
  <1>4. CASE \E r \in KeyOf(Top, key) : OnTop(r) /\ Started(flight, r.out)
    <2>1. PICK r \in KeyOf(Top, key) : OnTop(r) /\ Started(flight, r.out)
      BY <1>4
    <2>2. Good(Top, r) /\ SameData(Top, r.view)
      BY <1>1, KeyOfGood, KeyOfSame
    <2>3. Commands \subseteq Commands'
      BY <1>1, <2>1, StartedCommands DEF Commands
    <2>4. ASSUME Calm PROVE ScreenFine(server, r.view, Commands')
      <3>1. ScreenFine(server, Top, Commands)
        BY <1>1, <2>4 DEF Honest, Top
      <3>2. QED
        BY <2>2, <2>3, <3>1, ScreenKept
    <2>5. QED
      BY <1>1, <1>2, <2>1, <2>2, <2>4, TopHonest
  <1>5. QED
    BY <1>3, <1>4 DEF Press

LEMMA HonestAnswer ==
  ASSUME Inv, Honest, NEW r \in Commands, Answer(r)
  PROVE  Honest'
  <1>1. IsCommand(r) /\ r.to = "server" /\ IsABag(flight) /\ \A i \in DOMAIN stack : IsScreen(stack[i])
    BY DEF Inv, Answer
  <1>2. PICK answer \in Answers(server, r) : server' = answer[1] /\ flight' = Taken(r) (+) SetToBag({answer[2]})
    BY DEF Answer
  <1> DEFINE t == answer[1]
             m == answer[2]
  <1>3. stack' = stack /\ told' = told /\ session' = session /\ outside' = outside
    BY DEF Answer
  <1>4. /\ Commands' \subseteq Commands \cup {m} /\ m \in Commands'
        /\ \A x \in Commands : x \in Commands' \/ x = r
    <2>1. IsABag(SetToBag({m})) /\ BagToSet(SetToBag({m})) = {m}
      BY BagOfSet
    <2>2. IsABag(Taken(r)) /\ BagToSet(Taken(r)) \subseteq Commands /\ \A y \in Commands : y # r => y \in BagToSet(Taken(r))
      BY <1>1, BagTaken
    <2>3. Commands' = BagToSet(Taken(r)) \cup {m}
      BY <1>2, <2>1, <2>2, BagJoined DEF Commands
    <2>4. QED
      BY <2>2, <2>3
  <1>5. IsServer(server) /\ outside \in Nat
    BY DEF Honest
  <1>6. Works(server, r, answer)
    BY <1>1, <1>5, AnswerEffect
  <1>7. answer = <<server, Failed>> \/ Effect(server, r, t, m)
    BY <1>6 DEF Works
  <1>8. server' = t /\ IsServer(t)
    BY <1>2, <1>5, <1>7 DEF Effect
  <1> HIDE DEF t, m
  <1>9. ASSUME Calm'
        PROVE  /\ \A x \in Commands' : x.to = "views" => Truth(t, x)
               /\ \A i \in DOMAIN stack : ScreenFine(t, stack[i], Commands')
    <2>1. m # Failed
      BY <1>4, <1>9 DEF Calm
    <2>2. Effect(server, r, t, m)
      BY <1>7, <2>1 DEF m
    <2>3. r # Failed
      BY <1>1 DEF Failed
    <2>4. Calm
      BY <1>3, <1>4, <1>9, <2>3 DEF Calm
    <2>5. \A x \in Commands : x.to # "views"
      BY <2>4 DEF Answer, Calm, Commands
    <2>6. \A x \in Commands' : x.to = "views" => Truth(t, x)
      BY <1>4, <2>2, <2>5 DEF Effect
    <2>7. \A i \in DOMAIN stack : ScreenFine(t, stack[i], Commands')
      BY <1>1, <1>4, <2>2, <2>4, <2>5, EffectFine DEF Honest
    <2>8. QED
      BY <2>6, <2>7
  <1>10. QED
    BY <1>3, <1>5, <1>8, <1>9 DEF Honest

\* A failure, or a message that no list counts on.
LEMMA HonestFail ==
  ASSUME Inv, Honest, NEW r \in Commands, Fail(r)
  PROVE  Honest'
  <1>1. PICK m \in FailedAnswer(r) : flight' = Taken(r) (+) SetToBag({m})
    BY DEF Fail
  <1>2. r.to = "server" /\ IsABag(flight) /\ stack' = stack /\ told' = told /\ session' = session
        /\ server' = server /\ outside' = outside
    BY DEF Fail, Inv
  <1>3. /\ Commands' \subseteq Commands \cup {m} /\ m \in Commands'
        /\ \A x \in Commands : x \in Commands' \/ x = r
    <2>1. IsABag(SetToBag({m})) /\ BagToSet(SetToBag({m})) = {m}
      BY BagOfSet
    <2>2. IsABag(Taken(r)) /\ BagToSet(Taken(r)) \subseteq Commands /\ \A y \in Commands : y # r => y \in BagToSet(Taken(r))
      BY <1>2, BagTaken
    <2>3. Commands' = BagToSet(Taken(r)) \cup {m}
      BY <1>1, <2>1, <2>2, BagJoined DEF Commands
    <2>4. QED
      BY <2>2, <2>3
  <1>4. m = Failed \/ (m.op \notin Telling /\ r.op \in {"previewNote", "boardItems", "item"})
    <2>1. CASE r.op = "previewNote"
      BY <2>1 DEF FailedAnswer, Message, Telling
    <2>2. CASE r.op = "boardItems"
      BY <2>2 DEF FailedAnswer, Message, Telling
    <2>3. CASE r.op = "item"
      BY <2>3 DEF FailedAnswer, Message, Telling
    <2>4. CASE r.op \in {"previewTick", "health"}
      BY <2>4 DEF FailedAnswer
    <2>5. CASE r.op \notin {"previewNote", "boardItems", "item", "previewTick", "health"}
      BY <2>5 DEF FailedAnswer
    <2>6. QED
      BY <2>1, <2>2, <2>3, <2>4, <2>5
  <1>5. Failed.to = "app" /\ Failed # r
    BY <1>2 DEF Failed
  <1>6. ASSUME Calm, Calm', NEW i \in DOMAIN stack' PROVE ScreenFine(server, stack'[i], Commands')
    <2>1. m # Failed
      BY <1>3, <1>6 DEF Calm
    <2>2. ~Covers(r)
      BY <1>2, <1>4, <2>1 DEF Covers
    <2>3. ScreenFine(server, stack[i], Commands)
      BY <1>2, <1>6 DEF Honest
    <2>4. QED
      BY <1>2, <1>3, <2>2, <2>3, PassedOver
  <1>7. \A x \in Commands' : x.to = "views" => x \in Commands \/ x.op \notin Telling
    BY <1>3, <1>4, <1>5
  <1>8. Failed \in Commands => Failed \in Commands'
    BY <1>3, <1>5
  <1>9. QED
    BY <1>2, <1>6, <1>7, <1>8, HonestStep

LEMMA HonestBroadcast ==
  ASSUME Inv, Honest, NEW m \in Commands, Broadcast(m)
  PROVE  Honest'
  <1> DEFINE results == [i \in DOMAIN stack |-> UpdateOf(stack[i], m)]
  <1>1. /\ stack \in Seq(ToSet(stack)) /\ DOMAIN stack = 1..Len(stack) /\ Len(stack) \in Nat
        /\ IsABag(flight) /\ \A i \in DOMAIN stack : IsScreen(stack[i])
        /\ IsCommand(m)
    BY OwnSeq DEF Inv
  <1>2. /\ m.to = "views" /\ stack' = [i \in DOMAIN stack |-> results[i].view]
        /\ flight' = Taken(m) (+) AllStarted(results)
        /\ told' = told /\ session' = session /\ server' = server /\ outside' = outside
    BY DEF Broadcast
  <1>3. \A i \in DOMAIN stack : Heard(stack[i], m, results[i])
    BY <1>1, <1>2, UpdateOfGood
  <1>4. DOMAIN results = DOMAIN stack /\ \A i \in DOMAIN stack : results[i] = UpdateOf(stack[i], m)
    OBVIOUS
  <1> HIDE DEF results
  <1>5. DOMAIN stack' = DOMAIN stack /\ \A i \in DOMAIN stack : stack'[i] = results[i].view
    BY <1>2
  <1> DEFINE all == (UNION {results[i].out : i \in DOMAIN results}) \ {Panic}
  <1>6. IsABag(AllStarted(results)) /\ BagToSet(AllStarted(results)) = all
    <2>1. IsFiniteSet(1..Len(stack))
      BY <1>1, FS_Interval
    <2>2. IsFiniteSet(DOMAIN results)
      BY <1>1, <1>4, <2>1
    <2>3. QED
      BY <2>2, BagStarted
  <1>7. \A i \in DOMAIN stack : \A x \in results[i].out : x # Panic => x \in all
    BY <1>4
  <1>8. \A x \in all : \E i \in DOMAIN stack : x \in results[i].out /\ x # Panic
    BY <1>4
  <1> HIDE DEF all
  <1>9. IsABag(Taken(m)) /\ BagToSet(Taken(m)) \subseteq Commands /\ \A y \in Commands : y # m => y \in BagToSet(Taken(m))
    BY <1>1, BagTaken
  <1>10. Commands' = BagToSet(Taken(m)) \cup all
    BY <1>2, <1>6, <1>9, BagJoined DEF Commands
  <1>11. \A x \in Commands : x \in Commands' \/ x = m
    BY <1>9, <1>10
  <1>12. Failed # m
    BY <1>2 DEF Failed
  <1>13. \A x \in Commands' : x.to = "views" => x \in Commands
    BY <1>3, <1>8, <1>9, <1>10 DEF Heard, Good, Own
  <1>14. ASSUME Calm, NEW i \in DOMAIN stack' PROVE ScreenFine(server, stack'[i], Commands')
    <2>1. i \in DOMAIN stack /\ ScreenFine(server, stack[i], Commands) /\ Truth(server, m)
      BY <1>2, <1>5, <1>14 DEF Honest
    <2>2. \A x \in UpdateOf(stack[i], m).out : x \in Commands' \/ x = Panic
      BY <1>4, <1>7, <1>10, <2>1
    <2>3. ScreenFine(server, UpdateOf(stack[i], m).view, Commands')
      BY <1>1, <1>2, <1>11, <2>1, <2>2, UpdateOfFine
    <2>4. QED
      BY <1>4, <1>5, <2>1, <2>3
  <1>15. QED
    BY <1>2, <1>11, <1>12, <1>13, <1>14, HonestStep

LEMMA HonestOpenNote ==
  ASSUME Inv, Honest, NEW m \in Commands, OpenNote(m)
  PROVE  Honest'
  <1>1. IsScreen(Top) /\ IsCommand(m) /\ IsABag(flight) /\ Len(stack) \in DOMAIN stack
    BY OwnSeq DEF Inv, Top
  <1>2. /\ m.to = "views" /\ m.op = "openNote" /\ told' = told /\ session' = session /\ server' = server
        /\ outside' = outside /\ OnTop(UpdateOf(Top, m)) /\ Started(Taken(m), UpdateOf(Top, m).out)
    BY DEF OpenNote
  <1>3. Good(Top, UpdateOf(Top, m))
    BY <1>1, <1>2, UpdateOfGood DEF Heard
  <1>4. Leaves(Taken(m))
    BY <1>1, <1>2, OneLeft DEF Covers, Failed
  <1>5. Commands' = BagToSet(Taken(m)) \cup (UpdateOf(Top, m).out \ {Panic})
    BY <1>2, <1>4, StartedCommands DEF Leaves
  <1>6. ASSUME Calm PROVE ScreenFine(server, UpdateOf(Top, m).view, Commands')
    <2>1. ScreenFine(server, Top, Commands) /\ Truth(server, m)
      BY <1>1, <1>2, <1>6 DEF Honest, Top
    <2>2. \A x \in Commands : x \in Commands' \/ x = m
      BY <1>1, <1>5, BagTaken
    <2>3. \A x \in UpdateOf(Top, m).out : x \in Commands' \/ x = Panic
      BY <1>5
    <2>4. QED
      BY <1>1, <1>2, <2>1, <2>2, <2>3, UpdateOfFine
  <1>7. QED
    BY <1>2, <1>3, <1>4, <1>6, TopHonest

LEMMA HonestApp ==
  ASSUME Inv, Honest, NEW m \in Commands, PushScreen(m) \/ PopScreen(m) \/ StartEditor(m)
  PROVE  Honest'
  <1>1. IsCommand(m) /\ IsABag(flight)
    BY DEF Inv
  <1>2. /\ m.to = "app" /\ m.op \in {"push", "pop", "exec"} /\ told' = told /\ session' = session
        /\ server' = server /\ outside' = outside
    BY DEF PushScreen, PopScreen, StartEditor
  <1>3. Leaves(Taken(m))
    BY <1>1, <1>2, OneLeft DEF Covers, Failed
  <1>4. CASE PushScreen(m)
    <2>1. m.op = "push" /\ stack' = Append(stack, InitOf(m.view).view) /\ Started(Taken(m), InitOf(m.view).out)
      BY <1>4 DEF PushScreen
    <2>2. IsScreen(m.view) /\ IsNew(m.view)
      BY <1>1, <1>2, <2>1 DEF IsCommand
    <2>3. QED
      BY <1>2, <1>3, <2>1, <2>2, OpenHonest DEF IsNew
  <1>5. CASE PopScreen(m)
    <2>1. flight' = Taken(m) /\ stack' = IF Len(stack) > 1 THEN Front(stack) ELSE stack
      BY <1>5 DEF PopScreen
    <2>2. QED
      BY <1>2, <1>3, <2>1, ShutHonest
  <1>6. CASE StartEditor(m)
    <2>1. flight' = Taken(m) /\ stack' = stack
      BY <1>6 DEF StartEditor
    <2>2. QED
      BY <1>2, <1>3, <2>1, ShutHonest
  <1>7. QED
    BY <1>4, <1>5, <1>6

\* An error is shown: the screens may be behind from then on.
LEMMA HonestError ==
  ASSUME Inv, Honest, NEW m \in Commands, Error(m)
  PROVE  Honest'
  <1>1. told' = TRUE /\ server' = server /\ outside' = outside
    BY DEF Error
  <1>2. QED
    BY <1>1 DEF Honest, Calm

LEMMA HonestCloseEditor ==
  ASSUME Inv, Honest, CloseEditor
  PROVE  Honest'
  <1>1. stack' = stack /\ told' = told /\ session' = session /\ server' = server /\ outside' = outside
    BY DEF CloseEditor
  <1>2. \E x : /\ x.to = "views" => x.op \notin Telling
               /\ flight' = flight (+) SetToBag({x})
    <2>1. \A about : /\ Message("editorDone", about).op \notin Telling
                     /\ Message("noteEditorDone", about).op \notin Telling
      BY DEF Telling, Message
    <2>2. Failed.to # "views"
      BY DEF Failed
    <2>3. \/ \E about : flight' = flight (+) SetToBag({Message("editorDone", about)})
          \/ \E about : flight' = flight (+) SetToBag({Message("noteEditorDone", about)})
          \/ flight' = flight (+) SetToBag({Failed})
      BY DEF CloseEditor
    <2>4. QED
      BY <2>1, <2>2, <2>3
  <1>3. PICK x : (x.to = "views" => x.op \notin Telling) /\ flight' = flight (+) SetToBag({x})
    BY <1>2
  <1>4. IsABag(SetToBag({x})) /\ BagToSet(SetToBag({x})) = {x} /\ IsABag(flight)
    BY BagOfSet DEF Inv
  <1>5. Commands' = Commands \cup {x}
    BY <1>3, <1>4, BagJoined DEF Commands
  <1>6. ASSUME Calm, NEW i \in DOMAIN stack' PROVE ScreenFine(server, stack'[i], Commands')
    <2>1. ScreenFine(server, stack[i], Commands)
      BY <1>1, <1>6 DEF Honest
    <2>2. QED
      BY <1>1, <1>5, <2>1, PassedOver
  <1>7. QED
    BY <1>1, <1>3, <1>5, <1>6, HonestStep

\* Others change the server: the property speaks no more.
LEMMA HonestOthers ==
  ASSUME Honest, Others
  PROVE  Honest'
  <1>1. outside' = outside + 1 /\ outside \in Nat /\ IsServer(server)
    BY DEF Others, Honest
  <1>2. outside' \in Nat /\ outside' # 0
    BY <1>1
  <1>3. IsServer(server')
    <2>1. CASE \E n \in Notes, prop \in BOOLEAN : server' = [Written(server, n) EXCEPT !.note[n].prop = prop]
      <3>1. PICK n \in Notes, prop \in BOOLEAN : server' = [Written(server, n) EXCEPT !.note[n].prop = prop]
        BY <2>1
      <3> DEFINE w == Written(server, n)
      <3>2. IsServer(w) /\ server' = [w EXCEPT !.note[n].prop = prop]
        BY <1>1, <3>1, WrittenBeside
      <3> HIDE DEF w
      <3>3. QED
        BY <3>2 DEF IsServer
    <2>2. CASE \E c \in Cards : server' = [server EXCEPT !.card[c].body = @ + 1]
      <3>1. PICK c \in Cards : server' = [server EXCEPT !.card[c].body = @ + 1]
        BY <2>2
      <3>2. QED
        BY <1>1, <3>1, CardsAfter DEF CardNow
    <2>3. CASE \E c \in Cards : server' = [server EXCEPT !.card[c].status = "ready"]
      <3>1. PICK c \in Cards : server' = [server EXCEPT !.card[c].status = "ready"]
        BY <2>3
      <3>2. QED
        BY <1>1, <3>1, CardsAfter DEF CardNow
    <2>4. QED
      BY <2>1, <2>2, <2>3 DEF Others
  <1>4. QED
    BY <1>2, <1>3 DEF Honest, Calm

LEMMA HonestNext == Inv /\ Honest /\ [Next]_vars => Honest'
  <1> SUFFICES ASSUME Inv, Honest, [Next]_vars PROVE Honest'
    OBVIOUS
  <1>1. CASE \E key \in session.keys : Press(key)
    BY <1>1, HonestPress
  <1>2. CASE \E x \in Commands : Answer(x)
    BY <1>2, HonestAnswer
  <1>3. CASE \E x \in Commands : Fail(x)
    BY <1>3, HonestFail
  <1>4. CASE \E x \in Commands : Deliver(x)
    BY <1>4, HonestBroadcast, HonestOpenNote, HonestApp, HonestError DEF Deliver
  <1>5. CASE CloseEditor
    BY <1>5, HonestCloseEditor
  <1>6. CASE Others
    BY <1>6, HonestOthers
  <1>7. CASE UNCHANGED vars
    BY <1>7 DEF vars, Honest, Calm, Commands
  <1>8. QED
    BY <1>1, <1>2, <1>3, <1>4, <1>5, <1>6, <1>7 DEF Next, Commands

LEMMA StartIsServer == IsServer(Start)
  BY DEF IsServer, Start

\* Below the screen that asks for its data, a behaviour starts with screens that
\* hold nothing yet or what the server starts with.
LEMMA OpeningFine ==
  ASSUME NEW o \in Starts, NEW D
  PROVE  \A i \in DOMAIN OpeningStack(o) :
            LET v == OpeningStack(o)[i]
            IN  /\ i = Len(OpeningStack(o)) /\ v.kind = "board" => v.archiveLoaded = FALSE
                /\ i # Len(OpeningStack(o)) => ScreenFine(Start, v, D)
  <1> DEFINE Fits(s) == \A i \in DOMAIN s : /\ i = Len(s) /\ s[i].kind = "board" => s[i].archiveLoaded = FALSE
                                            /\ i # Len(s) => ScreenFine(Start, s[i], D)
             IsTop(v) == v.kind = "board" => v.archiveLoaded = FALSE
  <1>1. \A v : IsTop(v) => Fits(<<v>>)
    OBVIOUS
  <1>2. \A v, w : ScreenFine(Start, v, D) /\ IsTop(w) => Fits(<<v, w>>)
    OBVIOUS
  <1>3. \A v : v.kind \notin {"today", "tasks", "board"} => ScreenFine(Start, v, D)
    BY DEF ScreenFine
  <1>4. ScreenFine(Start, OpenedBoards, D) /\ ScreenFine(Start, FoundNotes, D)
    <2>1. OpenedBoards.kind = "boards" /\ FoundNotes.kind = "notes"
      BY DEF OpenedBoards, FoundNotes, NewBoards, NewNotes
    <2>2. QED
      BY <1>3, <2>1
  <1> HIDE DEF Fits
  <1>5. Fits(OpeningStack(o))
    <2>1. CASE o \in DOMAIN Roots
      <3>1. Roots[o].kind # "board"
        BY <2>1 DEF Roots, NewToday, NewTasks, NewBoards, NewNotes, NewSource, NewBases, NewSources
      <3>2. OpeningStack(o) = <<Roots[o]>>
        BY <2>1 DEF OpeningStack, Roots
      <3>3. QED
        BY <1>1, <3>1, <3>2
    <2>2. CASE o = "board"
      <3>1. OpeningStack(o) = <<OpenedBoards, NewBoard(FirstBoard)>>
        BY <2>2 DEF OpeningStack, Roots
      <3>2. IsTop(NewBoard(FirstBoard))
        BY DEF NewBoard
      <3>3. QED
        BY <1>2, <1>4, <3>1, <3>2
    <2>3. CASE o = "card"
      <3> DEFINE board == [NewBoard(FirstBoard) EXCEPT !.cards = OnBoard(Start, FirstBoard, FALSE)]
                 card == NewCard(FirstBoard, CardRow(Start, CardOrder[1]), FALSE)
      <3>1. OpeningStack(o) = <<board, card>>
        BY <2>3 DEF OpeningStack, Roots
      <3>2. /\ board.kind = "board" /\ board.name = FirstBoard /\ board.archiveLoaded = FALSE
            /\ board.cards = OnBoard(Start, FirstBoard, FALSE)
        BY DEF NewBoard
      <3>3. IsTop(card)
        BY DEF NewCard
      <3> HIDE DEF board, card
      <3>4. ScreenFine(Start, board, D)
        BY <3>2 DEF ScreenFine, BoardFine
      <3>5. QED
        BY <1>2, <3>1, <3>3, <3>4
    <2>4. CASE o = "azBoard"
      <3>1. OpeningStack(o) = <<OpenedBoards, NewAZBoard>>
        BY <2>4 DEF OpeningStack, Roots
      <3>2. IsTop(NewAZBoard)
        BY DEF NewAZBoard
      <3>3. QED
        BY <1>2, <1>4, <3>1, <3>2
    <2>5. CASE o = "note"
      <3> DEFINE note == NewNote(NoteShown(Start, NoteOrder[1]))
      <3>1. OpeningStack(o) = <<FoundNotes, note>>
        BY <2>5 DEF OpeningStack, Roots
      <3>2. IsTop(note)
        BY DEF NewNote
      <3>3. QED
        BY <1>2, <1>4, <3>1, <3>2
    <2>6. QED
      BY <2>1, <2>2, <2>3, <2>4, <2>5 DEF Starts, Roots
  <1>6. QED
    BY <1>5 DEF Fits

LEMMA HonestInit == Init => Honest
  <1> SUFFICES ASSUME Init PROVE Honest
    OBVIOUS
  <1> DEFINE opening == OpeningStack(session.start)
             top == InitOf(opening[Len(opening)])
  <1>1. /\ session.start \in Starts
        /\ session.start \in {"board", "card"} => Boards # {}
    BY SessionsAssumption DEF Init
  <1>2. /\ opening \in Seq(ToSet(opening)) /\ Len(opening) > 0
        /\ \A i \in DOMAIN opening : IsScreen(opening[i])
    BY <1>1, Opening
  <1>3. \A i \in DOMAIN opening :
            /\ i = Len(opening) /\ opening[i].kind = "board" => opening[i].archiveLoaded = FALSE
            /\ i # Len(opening) => ScreenFine(server, opening[i], Commands)
    BY <1>1, OpeningFine DEF Init
  <1>4. stack = [opening EXCEPT ![Len(opening)] = top.view] /\ flight = SetToBag(top.out)
    BY DEF Init
  <1> HIDE DEF opening
  <1>5. Len(opening) \in DOMAIN opening
    BY <1>2
  <1>6. Commands = top.out
    BY <1>4, BagOfSet DEF Commands
  <1>7. Good(opening[Len(opening)], top) /\ ScreenFine(server, top.view, Commands)
    BY <1>2, <1>3, <1>5, <1>6, InitOfGood, OpenedFine
  <1> HIDE DEF top
  <1>8. /\ DOMAIN stack = DOMAIN opening /\ stack[Len(opening)] = top.view
        /\ \A i \in DOMAIN stack : i # Len(opening) => stack[i] = opening[i]
    BY <1>2, <1>4, Replaced
  <1>9. \A i \in DOMAIN stack : ScreenFine(server, stack[i], Commands)
    BY <1>3, <1>7, <1>8
  <1>10. \A x \in Commands : x.to # "views"
    BY <1>6, <1>7 DEF Good, Own, Panic
  <1>11. outside \in Nat /\ IsServer(server)
    BY StartIsServer DEF Init
  <1>12. QED
    BY <1>9, <1>10, <1>11 DEF Honest

\* What the screens show is what the server has, or is about to be corrected by
\* what is on its way, in whichever order it comes (the handlers of the lists and
\* of the board, app.broadcast, and the commands of the UI).
THEOREM TuiHonest == Spec => []Honest
  BY HonestInit, HonestNext, TuiInv, PTL DEF Spec

\* In a prompt session where nothing failed and nobody else changed a card, once
\* everything has been answered: the rows of every list and the lanes of every
\* board on the stack are what the server has; a screen below a child has heard
\* of all the child did.  A row of the focus view has the board and the lane of
\* its card, unless the card was moved to another board or restored since.
THEOREM TuiShownIsServed == Spec => []ShownIsServed
  <1>1. Inv /\ Honest => ShownIsServed
    <2> SUFFICES ASSUME Inv, Honest, Quiet, ~told, outside = 0, session.prompt, NEW i \in DOMAIN stack
                 PROVE  LET v == stack[i]
                        IN  /\ v.kind \in {"today", "tasks"} => \A r \in Range(v.rows) : RowIsServed(r)
                            /\ v.kind = "board" => v.cards = OnBoard(server, v.name, FALSE)
                            /\ v.kind = "board" /\ v.archiveLoaded => v.archive = OnBoard(server, v.name, TRUE)
      BY DEF ShownIsServed
    <2> DEFINE v == stack[i]
    <2>1. Commands = {}
      BY BagOfSet DEF Quiet, EmptyBag, Commands
    <2>2. ScreenFine(server, v, {})
      BY <2>1 DEF Honest, Calm
    <2> HIDE DEF v
    <2>3. v.kind = "board" => /\ v.cards = OnBoard(server, v.name, FALSE)
                              /\ v.archiveLoaded => v.archive = OnBoard(server, v.name, TRUE)
      BY <2>2 DEF ScreenFine, BoardFine
    <2>4. ASSUME v.kind \in {"today", "tasks"}, NEW r \in Range(v.rows)
          PROVE  RowIsServed(r)
      <3>1. PICK j \in DOMAIN v.rows : r = v.rows[j]
        BY <2>4 DEF Range
      <3>2. IsRow(v.kind, r) /\ RowFine(server, r, {})
        BY <2>2, <2>4, <3>1 DEF ScreenFine, RowsFine
      <3>3. QED
        BY <3>2 DEF IsRow, RowFine, BoardShown, LaneShown, RowIsServed
    <2>5. QED
      BY <2>3, <2>4 DEF v
  <1>2. QED
    BY <1>1, TuiInv, TuiHonest, PTL
=============================================================================
