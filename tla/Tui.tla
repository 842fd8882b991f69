--------------------------------- MODULE Tui ---------------------------------
(***************************************************************************)
(* The terminal UI (internal/tui/app.go): a stack of screens, and commands *)
(* that run beside the program and answer with messages in any order.  The *)
(* server behind the commands is external; here it is the cards, tasks and *)
(* notes the screens show, and a command acts on it in one step.           *)
(*                                                                         *)
(* A key goes to the top screen, unless the program takes it; a message    *)
(* goes to every screen, except the note that was asked for, which goes to *)
(* the top.  While an editor runs the program takes neither.               *)
(***************************************************************************)
EXTENDS TuiSources, Bags

\* A session is what a behaviour may do: the screen it starts from, the keys that
\* are pressed, and the bounds: how many keys, how many requests fail for a reason
\* of their own, and how many changes others make to what the server holds.  In a
\* prompt session the program has handled the messages it has before the next
\* answer comes in.
CONSTANTS
    DueCards,       \* the cards that the focus view lists
    Sessions

Starts == {"today", "tasks", "boards", "notes", "source", "bases", "sources",
           "board", "card", "azBoard", "note"}

ASSUME SessionsAssumption ==
    \A s \in Sessions : /\ s.start \in Starts
                        /\ s.start \in {"board", "card"} => Boards # {}
                        /\ {s.maxKeys, s.maxFailures, s.maxOutside} \subseteq Nat

VARIABLES
    stack,      \* the screens, the top one last
    flight,     \* requests, messages and commands on their way, as a bag
    server,     \* the cards, tasks, notes and items as the server has them, and
                \* which cards were moved to another board or restored since it
                \* last listed what is due (a history of this behaviour)
    editor,     \* the editor that runs, if any
    theme,      \* the color theme in use
    crashed,    \* a handler panicked
    told,       \* an error has been shown (a history of this behaviour)
    session,    \* what this behaviour may do
    keys, failures, outside       \* what is spent of its bounds

vars == <<stack, flight, server, editor, theme, crashed, told, session, keys, failures, outside>>

NoEditor == [kind |-> "none"]

Top == stack[Len(stack)]

(***************************************************************************)
(* What the server shows.                                                  *)
(***************************************************************************)
Version(s, n) == <<n, s.note[n].version>>

CardRow(s, c) ==
    [id |-> c, title |-> s.card[c].title, body |-> s.card[c].body, status |-> s.card[c].status]
OnBoard(s, b, archived) ==
    LET here == Chosen(CardOrder, {c \in Cards : s.card[c].board = b /\ s.card[c].archived = archived})
    IN  [i \in DOMAIN here |-> CardRow(s, here[i])]

TaskRow(s, t) ==
    [kind |-> "task", task |-> t, status |-> s.task[t], version |-> Version(s, NoteOf[t])]
TaskRows(s, shown) ==
    LET listed == Chosen(TaskOrder, shown) IN [i \in DOMAIN listed |-> TaskRow(s, listed[i])]

\* The first query lists what is not done, the others everything.
Listed(s, preset) ==
    TaskRows(s, {t \in Tasks : /\ s.task[t] # "gone" /\ NoteOf[t] \notin s.hidden
                               /\ preset = 1 => s.task[t] = "open"})

TodayCard(s, c) ==
    [kind |-> "card", card |-> c, board |-> s.card[c].board, status |-> s.card[c].status,
     prev |-> IF s.card[c].archived THEN "triage" ELSE s.card[c].status,
     done |-> s.card[c].archived, shown |-> CardRow(s, c)]

\* DueItems: the tasks, then the cards of every board; what is done today only
\* on request.  Every open task is due.
Due(s, showDone) ==
    LET here(status) == {t \in Tasks : s.task[t] = status /\ NoteOf[t] \notin s.hidden}
        cards == Chosen(CardOrder, {c \in Cards \cap DueCards : /\ s.card[c].board # "gone"
                                                                /\ showDone \/ ~s.card[c].archived})
    IN  TaskRows(s, here("open"))
        \o (IF showDone THEN TaskRows(s, here("done")) ELSE <<>>)
        \o [i \in DOMAIN cards |-> TodayCard(s, cards[i])]

NoteShown(s, n) ==
    [slug |-> n, version |-> Version(s, n), prop |-> s.note[n].prop,
     rows |-> TaskRows(s, {t \in Tasks : NoteOf[t] = n /\ s.task[t] # "gone"})]

ItemRows(s) == [i \in DOMAIN Items |-> [id |-> Items[i], state |-> s.item[Items[i]]]]

(***************************************************************************)
(* What a request does, as pairs of the server afterwards and the answer.  *)
(***************************************************************************)
Answered(s, m) == <<s, m>>
Refused(s) == {<<s, Failed>>}

Written(s, n) == [s EXCEPT !.note[n].version = @ + 1]
Marked(s, t, status) == [Written(s, NoteOf[t]) EXCEPT !.task[t] = status]

\* A task command goes to the line of a row; if the file changed, to the line
\* with the same text that has the status the command wants.
TaskAnswers(s, r) ==
    LET a == r.about
        about == [task |-> a.task]
        toggled == [task |-> a.task, done |-> a.done, recurred |-> a.done /\ a.task \in Recurring]
    IN  CASE r.op = "toggleTask" ->
                IF s.task[a.task] # (IF a.done THEN "open" ELSE "done") THEN Refused(s)
                ELSE {Answered(Marked(s, a.task, IF a.done /\ ~toggled.recurred THEN "done" ELSE "open"),
                               Message("taskToggled", toggled))}
          [] r.op = "deleteTask" ->
                IF s.task[a.task] # a.status THEN Refused(s)
                ELSE IF a.purge THEN {Answered(Marked(s, a.task, "gone"), Message("taskPurged", about))}
                ELSE {Answered(Marked(s, a.task, "cancelled"), Message("taskCancelled", about))}
          [] r.op = "saveTaskEdit" ->
                IF s.task[a.task] # a.status THEN Refused(s)
                ELSE {Answered(Written(s, NoteOf[a.task]), Message("editSaved", about))}
          [] r.op = "hideFile" ->
                IF Version(s, NoteOf[a.task]) # a.version THEN Refused(s)
                ELSE {Answered([Written(s, NoteOf[a.task]) EXCEPT !.hidden = @ \cup {NoteOf[a.task]}],
                               Message("fileHidden", about))}
          [] r.op = "addTask" ->
                {Answered(IF a.note \in Notes THEN Written(s, a.note) ELSE s, Message("taskAdded", a))}

\* A card command finds the card on the board it names, in the archive or not.
Found(s, a, archived) == s.card[a.card].board = a.board /\ s.card[a.card].archived = archived

CardSaved(s, c) == Message("cardSaved", [card |-> c, saved |-> CardRow(s, c)])
CardArchived(s, a) == Message("cardArchived", [board |-> a.board, card |-> a.card, prev |-> a.prev])

\* PATCH of fields of a card; the status Done archives it.
PatchCard(s, a) ==
    LET new(f) == IF f \in DOMAIN a.patch THEN a.patch[f] ELSE s.card[a.card][f]
        after == [s EXCEPT !.card[a.card] =
                    [@ EXCEPT !.title = new("title"), !.body = new("body"), !.status = new("status"),
                              !.archived = new("status") = "done"]]
    IN  Answered(after, IF new("status") = "done" THEN CardArchived(s, a) ELSE CardSaved(after, a.card))

\* toggleCmd: the line is there as it was; if the description changed it may
\* still be found, or the command gives up.
ToggleBox(s, a) ==
    LET after == [s EXCEPT !.card[a.card].body = @ + 1]
    IN  (IF s.card[a.card].body # a.line THEN Refused(s) ELSE {}) \cup
        {Answered(after, CardSaved(after, a.card))}

CardAnswers(s, r) ==
    LET a == r.about
        change(archived, result) == IF Found(s, a, archived) THEN result ELSE Refused(s)
    IN  CASE r.op = "archiveCard" ->
                change(FALSE, {Answered([s EXCEPT !.card[a.card].archived = TRUE,
                                                  !.card[a.card].status = "done"], CardArchived(s, a))})
          [] r.op = "moveCard" ->
                change(FALSE, {Answered([s EXCEPT !.card[a.card].status = a.status],
                                        Message("cardSaved", [card |-> "none"]))})
          [] r.op = "restoreCard" ->
                change(TRUE, {Answered([s EXCEPT !.card[a.card].archived = FALSE, !.card[a.card].status = a.status,
                                                 !.restored = @ \cup {a.card}],
                                       Message("cardRestored", a))})
          [] r.op = "moveCardToBoard" ->
                change(FALSE, {Answered([s EXCEPT !.card[a.card].board = a.dest, !.moved = @ \cup {a.card}],
                                        Message("cardMovedBoard", a))})
          [] r.op = "deleteCard" ->
                IF s.card[a.card].board # a.board THEN Refused(s)
                ELSE {Answered([s EXCEPT !.card[a.card].board = "gone"], Message("cardDeleted", a))}
          [] r.op = "patchCard" -> change(FALSE, {PatchCard(s, a)})
          [] r.op = "toggleBox" -> change(FALSE, ToggleBox(s, a))
          [] r.op = "addComment" -> change(FALSE, {Answered(s, CardSaved(s, a.card))})
          [] r.op = "createCard" -> {Answered(s, Message("cardCreated", [board |-> a.board]))}

\* A note is written only over the version that the request names.
NoteAnswers(s, r) ==
    LET a == r.about
        saved == [s EXCEPT !.note[a.slug].version = @ + 1]
        locked(m) == IF Version(s, a.slug) # a.version THEN Refused(s) ELSE {Answered(saved, m)}
        read(m) == IF a.slug \in Notes THEN {Answered(s, m)} ELSE Refused(s)
    IN  CASE r.op = "saveNote" -> locked(Message("noteSaved", [note |-> NoteShown(saved, a.slug)]))
          [] r.op = "setProperty" ->
                locked(Message(IF a.by = "note" THEN "notePropertySaved" ELSE "basePropSaved", [slug |-> a.slug]))
          [] r.op = "openNote" -> read(Message("openNote", [note |-> NoteShown(s, a.slug)]))
          [] r.op = "reloadNote" -> read(Message("noteReloaded", [note |-> NoteShown(s, a.slug)]))
          [] r.op = "propNote" -> read(Message("basePropEditor", [version |-> Version(s, a.slug)]))
          [] r.op = "previewNote" -> {Answered(s, Message("previewLoaded", [slug |-> a.slug, found |-> TRUE]))}
          [] r.op = "listAgents" -> {Answered(s, Message("agentsListed", a))}
          [] r.op = "promptAgent" -> {Answered(s, Message("agentPromptSent", a))}

\* The move picker asks for its screen; the other lists take what is there.
BoardsListed(a) ==
    CASE a.board = "none" -> Message("boardsLoaded", [boards |-> SetToSeq(Boards)])
      [] a.board = "source" -> Message("sourcePullBoards", [boards |-> Boards])
      [] a.board = "card" -> Message("cardMovePicker", [card |-> a.card, boards |-> Boards])
      [] OTHER -> Message("boardMovePicker", [board |-> a.board, card |-> a.card, boards |-> Boards])

\* A search finds notes or none.
SearchAnswers(s, by) ==
    {Answered(s, Message(IF by = "notes" THEN "notesFound" ELSE "addTaskResults", [found |-> f])) :
        f \in {<<>>, NoteOrder}}

ReadAnswers(s, r) ==
    LET a == r.about
        say(op, about) == {Answered(s, Message(op, about))}
    IN  CASE r.op = "getBoard" -> say("boardLoaded", [board |-> a.board, cards |-> OnBoard(s, a.board, FALSE)])
          [] r.op = "listArchive" -> say("archiveLoaded", [board |-> a.board, cards |-> OnBoard(s, a.board, TRUE)])
          [] r.op = "listBoards" -> {Answered(s, BoardsListed(a))}
          [] r.op = "listTasks" -> say("tasksLoaded", [rows |-> Listed(s, a.preset)])
          [] r.op = "dueItems" ->
                {Answered([s EXCEPT !.moved = {}, !.restored = {}],
                          Message("todayLoaded", [rows |-> Due(s, a.showDone)]))}
          [] r.op = "searchNotes" -> SearchAnswers(s, a.by)
          [] r.op = "listNotes" -> say("browseLoaded", [notes |-> NoteOrder])
          [] r.op = "previewTick" -> say("previewTick", a)
          [] r.op = "listBases" -> say("basesList", [names |-> <<"base">>])
          [] r.op = "getBase" -> say("baseData", [base |-> a.base, rows |-> NoteOrder])
          [] r.op = "boardItems" -> say("azItems", [mine |-> a.mine, failed |-> FALSE,
                 items |-> IF a.mine THEN SubSeq(ItemRows(s), 1, 1) ELSE ItemRows(s)])
          [] r.op = "item" -> say("azItem", [item |-> a.item, failed |-> FALSE, state |-> s.item[a.item]])
          [] r.op = "setState" -> {Answered([s EXCEPT !.item[a.item] = a.state], Message("azStateSet", a))}
          [] r.op = "commentItem" -> say("azCommented", a)
          [] r.op = "sourceItems" -> say("sourceItems", [items |-> ItemRows(s)])
          [] r.op = "commentSource" -> say("sourceCommented", a)
          [] r.op = "health" -> say("sourcesLoaded", a)

TaskOps == {"toggleTask", "deleteTask", "saveTaskEdit", "hideFile", "addTask"}
CardOps == {"archiveCard", "moveCard", "restoreCard", "moveCardToBoard", "deleteCard", "patchCard",
            "toggleBox", "addComment", "createCard"}
NoteOps == {"saveNote", "setProperty", "openNote", "reloadNote", "propNote", "previewNote", "listAgents",
            "promptAgent"}

ReadOps == {"listTasks", "dueItems", "getBoard", "listArchive", "listBoards", "searchNotes", "listNotes",
            "previewTick", "listBases", "getBase", "boardItems", "item", "setState", "commentItem",
            "sourceItems", "commentSource", "health"}

Answers(s, r) ==
    CASE r.op \in TaskOps -> TaskAnswers(s, r)
      [] r.op \in CardOps -> CardAnswers(s, r)
      [] r.op \in NoteOps -> NoteAnswers(s, r)
      [] OTHER -> ReadAnswers(s, r)

\* A command that fails answers with the error, or with a message that holds it;
\* a timer and the health of the sources cannot fail.
FailedAnswer(r) ==
    CASE r.op = "previewNote" -> {Message("previewLoaded", [slug |-> r.about.slug, found |-> FALSE])}
      [] r.op = "boardItems" -> {Message("azItems", [mine |-> r.about.mine, failed |-> TRUE])}
      [] r.op = "item" -> {Message("azItem", [failed |-> TRUE])}
      [] r.op \in {"previewTick", "health"} -> {}
      [] OTHER -> {Failed}

(***************************************************************************)
(* The screens by their kind.                                              *)
(***************************************************************************)
InitOf(v) ==
    CASE v.kind = "today" -> TodayInit(v)
      [] v.kind = "tasks" -> TasksInit(v)
      [] v.kind = "boards" -> BoardsInit(v)
      [] v.kind = "board" -> Reload(v)
      [] v.kind = "card" -> CardInit(v)
      [] v.kind = "bases" -> BasesInit(v)
      [] v.kind = "source" -> LoadSource(v)
      [] v.kind = "sources" -> SourcesInit(v)
      [] v.kind = "azBoard" -> LoadAZ(v)
      [] v.kind = "azItem" -> LoadItem(v)
      [] OTHER -> Stay(v)

UpdateOf(v, m) ==
    CASE v.kind = "today" -> TodayUpdate(v, m)
      [] v.kind = "tasks" -> TasksUpdate(v, m)
      [] v.kind = "boards" -> BoardsUpdate(v, m)
      [] v.kind = "board" -> BoardUpdate(v, m)
      [] v.kind = "card" -> CardUpdate(v, m)
      [] v.kind = "addTask" -> AddTaskUpdate(v, m)
      [] v.kind = "notes" -> NotesUpdate(v, m)
      [] v.kind = "note" -> NoteUpdate(v, m)
      [] v.kind = "bases" -> BasesUpdate(v, m)
      [] v.kind = "source" -> SourceUpdate(v, m)
      [] v.kind = "sources" -> SourcesUpdate(v, m)
      [] v.kind = "azBoard" -> AZBoardUpdate(v, m)
      [] v.kind = "azItem" -> AZItemUpdate(v, m)
      [] OTHER -> Stay(v)

\* The theme picker: every row under the cursor is tried at once, esc brings
\* back the theme it started with.
NewTheme == [kind |-> "theme", open |-> {}, busy |-> FALSE, original |-> theme,
             cursor |-> CHOOSE i \in DOMAIN Themes : Themes[i] = theme]

ThemeKey(v, key) ==
    CASE key = "down" -> {Stay([v EXCEPT !.cursor = Down(@, Themes)])}
      [] key = "up" -> {Stay([v EXCEPT !.cursor = Up(@)])}
      [] key \in {"enter", "esc"} -> {Res(v, {Pop})}
      [] OTHER -> {}

ThemeAfter(v, key) ==
    CASE v.kind # "theme" -> theme
      [] v.kind = "theme" /\ key = "down" -> Themes[Down(v.cursor, Themes)]
      [] v.kind = "theme" /\ key = "up" -> Themes[Up(v.cursor)]
      [] v.kind = "theme" /\ key = "enter" -> Themes[v.cursor]
      [] v.kind = "theme" /\ key = "esc" -> v.original
      [] OTHER -> theme

KeyOf(v, key) ==
    CASE v.kind = "today" -> TodayKey(v, key)
      [] v.kind = "tasks" -> TasksKey(v, key)
      [] v.kind = "boards" -> BoardsKey(v, key)
      [] v.kind = "board" -> BoardKey(v, key)
      [] v.kind = "card" -> CardKey(v, key)
      [] v.kind = "addTask" -> AddTaskKey(v, key)
      [] v.kind = "theme" -> ThemeKey(v, key)
      [] v.kind = "notes" -> NotesKey(v, key)
      [] v.kind = "note" -> NoteKey(v, key)
      [] v.kind = "bases" -> BasesKey(v, key)
      [] v.kind = "source" -> SourceKey(v, key)
      [] v.kind = "sources" -> SourcesKey(v, key)
      [] v.kind = "azBoard" -> AZBoardKey(v, key)
      [] OTHER -> AZItemKey(v, key)

\* A screen with an input or a question open takes every key itself.
Capturing(v) == v.open # {} \/ v.kind \in {"addTask", "theme"}

(***************************************************************************)
(* The start: a screen that asks for its data.  The boards and the notes   *)
(* have a screen on top that was opened from them.                         *)
(***************************************************************************)
Roots == [today |-> NewToday, tasks |-> NewTasks, boards |-> NewBoards, notes |-> NewNotes,
          source |-> NewSource, bases |-> NewBases, sources |-> NewSources]

RootKeys == [today |-> "1", tasks |-> "2", boards |-> "3", notes |-> "4", source |-> "5",
             bases |-> "6", sources |-> "0"]

FirstBoard == CHOOSE b \in Boards : TRUE

Start ==
    [card |-> [c \in Cards |-> [board |-> FirstBoard, status |-> "triage",
                                archived |-> FALSE, title |-> 0, body |-> 0]],
     task |-> [t \in Tasks |-> "open"],
     note |-> [n \in Notes |-> [version |-> 0, prop |-> TRUE]],
     hidden |-> {}, moved |-> {}, restored |-> {},
     item |-> [i \in Range(Items) |-> ItemStates[1]]]

OpenedBoards == [NewBoards EXCEPT !.rows = SetToSeq(Boards)]
FoundNotes == [NewNotes EXCEPT !.found = NoteOrder, !.open = {}, !.preview.slug = NoteOrder[1]]

OpeningStack(o) ==
    CASE o \in DOMAIN Roots -> <<Roots[o]>>
      [] o = "board" -> <<OpenedBoards, NewBoard(FirstBoard)>>
      [] o = "card" ->
            <<[NewBoard(FirstBoard) EXCEPT !.cards = OnBoard(Start, FirstBoard, FALSE)],
              NewCard(FirstBoard, CardRow(Start, CardOrder[1]), FALSE)>>
      [] o = "azBoard" -> <<OpenedBoards, NewAZBoard>>
      [] o = "note" -> <<FoundNotes, NewNote(NoteShown(Start, NoteOrder[1]))>>

Init ==
    /\ server = Start
    /\ session \in Sessions
    /\ LET opening == OpeningStack(session.start)
           top == InitOf(opening[Len(opening)])
       IN  /\ stack = [opening EXCEPT ![Len(opening)] = top.view]
           /\ flight = SetToBag(top.out)
    /\ editor = NoEditor
    /\ theme = Themes[1]
    /\ crashed = FALSE /\ told = FALSE
    /\ keys = 0 /\ failures = 0 /\ outside = 0

(***************************************************************************)
(* The program.                                                            *)
(***************************************************************************)
Running == ~crashed /\ editor = NoEditor

\* What a handler started joins what is on its way.
Started(rest, out) ==
    /\ flight' = rest (+) SetToBag(out \ {Panic})
    /\ crashed' = (Panic \in out)

\* What all the screens started, each command as often as a screen did.
AllStarted(results) ==
    [x \in (UNION {results[i].out : i \in DOMAIN results}) \ {Panic} |->
        Cardinality({i \in DOMAIN results : x \in results[i].out})]

OnTop(result) == stack' = [stack EXCEPT ![Len(stack)] = result.view]

\* The keys the program takes before the top screen sees them.
Open(v, below) ==
    LET first == InitOf(v)
    IN  /\ stack' = Append(below, first.view)
        /\ Started(flight, first.out)

GlobalKeys == Range(RootKeys) \cup {"esc", "T", "+"}

TakenByApp(key) ==
    /\ ~Capturing(Top)
    /\ key \in GlobalKeys
    /\ ~(key = "+" /\ Top.kind = "board")

AppKey(key) ==
    \/ /\ key = "esc"
       /\ Len(stack) > 1
       /\ stack' = Front(stack)
       /\ UNCHANGED <<flight, crashed>>
    \/ \E o \in DOMAIN Roots : key = RootKeys[o] /\ Open(Roots[o], <<>>)
    \/ key = "T" /\ Open(NewTheme, stack)
    \/ key = "+" /\ Open(NewAddTask, stack)

Press(key) ==
    /\ Running
    /\ keys < session.maxKeys
    /\ keys' = keys + 1
    /\ \/ TakenByApp(key) /\ AppKey(key) /\ UNCHANGED theme
       \/ /\ ~TakenByApp(key)
          /\ theme' = ThemeAfter(Top, key)
          /\ \E result \in KeyOf(Top, key) : OnTop(result) /\ Started(flight, result.out)
    /\ UNCHANGED <<server, editor, told, session, failures, outside>>

Taken(x) == flight (-) SetToBag({x})

\* A command runs beside the program, also while an editor does.
Answer(r) ==
    /\ r.to = "server"
    /\ session.prompt => \A x \in BagToSet(flight) : x.to # "views"
    /\ \E answer \in Answers(server, r) :
          /\ server' = answer[1]
          /\ flight' = Taken(r) (+) SetToBag({answer[2]})
    /\ UNCHANGED <<stack, editor, theme, crashed, told, session, keys, failures, outside>>

Fail(r) ==
    /\ r.to = "server"
    /\ failures < session.maxFailures
    /\ failures' = failures + 1
    /\ \E m \in FailedAnswer(r) : flight' = Taken(r) (+) SetToBag({m})
    /\ UNCHANGED <<stack, server, editor, theme, crashed, told, session, keys, outside>>

\* Every screen gets a message; a note that was asked for goes to the top only.
Broadcast(m) ==
    /\ m.to = "views" /\ m.op # "openNote"
    /\ LET results == [i \in DOMAIN stack |-> UpdateOf(stack[i], m)]
       IN  /\ stack' = [i \in DOMAIN stack |-> results[i].view]
           /\ flight' = Taken(m) (+) AllStarted(results)
           /\ crashed' = \E i \in DOMAIN stack : Panic \in results[i].out
    /\ UNCHANGED <<server, editor, theme, told, session, keys, failures, outside>>

OpenNote(m) ==
    /\ m.to = "views" /\ m.op = "openNote"
    /\ LET result == UpdateOf(Top, m) IN OnTop(result) /\ Started(Taken(m), result.out)
    /\ UNCHANGED <<server, editor, theme, told, session, keys, failures, outside>>

PushScreen(m) ==
    /\ m.to = "app" /\ m.op = "push"
    /\ LET first == InitOf(m.view)
       IN  stack' = Append(stack, first.view) /\ Started(Taken(m), first.out)
    /\ UNCHANGED <<server, editor, theme, told, session, keys, failures, outside>>

\* Variant: the last screen goes too.
PopScreenEmpties(m) ==
    /\ m.to = "app" /\ m.op = "pop"
    /\ stack' = Front(stack)
    /\ flight' = Taken(m)
    /\ UNCHANGED <<server, editor, theme, crashed, told, session, keys, failures, outside>>

\* The top screen goes, whichever screen asked for it.
PopScreen(m) ==
    /\ m.to = "app" /\ m.op = "pop"
    /\ stack' = IF Len(stack) > 1 THEN Front(stack) ELSE stack
    /\ flight' = Taken(m)
    /\ UNCHANGED <<server, editor, theme, crashed, told, session, keys, failures, outside>>

\* An error becomes the status line or a banner; no screen hears of it.
Error(m) ==
    /\ m.to = "app" /\ m.op = "error"
    /\ flight' = Taken(m)
    /\ told' = TRUE
    /\ UNCHANGED <<stack, server, editor, theme, crashed, session, keys, failures, outside>>

StartEditor(m) ==
    /\ m.to = "app" /\ m.op = "exec"
    /\ editor' = m
    /\ flight' = Taken(m)
    /\ UNCHANGED <<stack, server, theme, crashed, told, session, keys, failures, outside>>

Deliver(m) ==
    /\ Running
    /\ Broadcast(m) \/ OpenNote(m) \/ PushScreen(m) \/ PopScreen(m) \/ Error(m) \/ StartEditor(m)

\* What the user made of the text: nothing, another title, or the lane Done.
Edits == {{}, {"title"}, {"status"}}
EditedCard(text, touched) ==
    [text EXCEPT !.title = IF "title" \in touched THEN 9 ELSE @,
                 !.status = IF "status" \in touched THEN "done" ELSE @]

CloseEditor ==
    /\ editor # NoEditor /\ ~crashed
    /\ editor' = NoEditor
    /\ \/ editor.kind = "card" /\ \E touched \in Edits :
             flight' = flight (+) SetToBag({Message("editorDone",
                 [card |-> editor.id, text |-> EditedCard(editor.text, touched), touched |-> touched])})
       \/ editor.kind = "note" /\ \E changed \in BOOLEAN :
             flight' = flight (+) SetToBag({Message("noteEditorDone",
                 [slug |-> editor.id, text |-> editor.text, changed |-> changed])})
       \/ flight' = flight (+) SetToBag({Failed})
    /\ UNCHANGED <<stack, server, theme, crashed, told, session, keys, failures, outside>>

\* Others write notes and cards.
Others ==
    /\ outside < session.maxOutside
    /\ outside' = outside + 1
    /\ \/ \E n \in Notes, prop \in BOOLEAN :
             server' = [Written(server, n) EXCEPT !.note[n].prop = prop]
       \/ \E c \in Cards : server' = [server EXCEPT !.card[c].body = @ + 1]
       \/ \E c \in Cards : ~server.card[c].archived /\ server' = [server EXCEPT !.card[c].status = "ready"]
    /\ UNCHANGED <<stack, flight, editor, theme, crashed, told, session, keys, failures>>

Next ==
    \/ \E key \in session.keys : Press(key)
    \/ \E x \in BagToSet(flight) : Answer(x) \/ Fail(x) \/ Deliver(x)
    \/ CloseEditor
    \/ Others

\* Commands end and their messages arrive; a user need not press a key.
Fairness ==
    /\ WF_vars(\E x \in BagToSet(flight) : Answer(x) \/ Deliver(x))
    /\ WF_vars(CloseEditor)

Spec == Init /\ [][Next]_vars /\ Fairness

(***************************************************************************)
(* What the program promises.                                              *)
(***************************************************************************)
Kinds == {"today", "tasks", "boards", "board", "card", "addTask", "theme", "notes", "note", "bases",
          "source", "sources", "azBoard", "azItem"}

\* There is always a screen, and every command is one the program knows.
TypeOK ==
    /\ Len(stack) > 0
    /\ \A i \in DOMAIN stack : stack[i].kind \in Kinds /\ stack[i].busy \in BOOLEAN
    /\ \A x \in BagToSet(flight) :
          \/ x.to = "server" /\ (x.op \in TaskOps \cup CardOps \cup NoteOps \cup ReadOps)
          \/ x.to = "views"
          \/ x.to = "app" /\ x.op \in {"push", "pop", "error", "exec"}
    /\ theme \in ThemeNames
    /\ crashed \in BOOLEAN

Quiet == flight = EmptyBag /\ editor = NoEditor /\ ~crashed

\* Lists that fetch what they show: once every command has ended, none of them
\* still says it is loading and refuses to complete or move a row, unless a
\* command failed.
Lists == {"today", "tasks", "boards", "board", "azBoard", "azItem", "sources"}
QuietIsIdle ==
    Quiet /\ ~told => \A i \in DOMAIN stack : stack[i].kind \in Lists => ~stack[i].busy

\* A property editor writes over the version of the note it was opened on:
\* "A concurrent reload must not silently upgrade its write lock."
PropertyEditIsNotBlind ==
    \A x \in BagToSet(flight) :
        x.to = "server" /\ x.op = "setProperty" /\ x.about.by = "note" => x.about.version = x.about.seen

\* Whatever the order in which previews arrive: once they have, the pane of the
\* search list shows the note under the cursor.
PreviewIsOfSelection ==
    Quiet /\ ~told =>
        \A i \in DOMAIN stack :
            LET v == stack[i]
            IN  v.kind = "notes" /\ v.layer = "search" /\ v.preview.on => Selected(v) \subseteq {v.preview.slug}

\* The lists say what the server holds, once the program has heard of everything
\* its own commands did, on whichever screen: the screens below a child hear of
\* its changes too.  A row of the focus view names the board and the lane of its
\* card, or that it is done; except that a card that was moved to another board
\* since the view was listed has a row of the old board (FocusFollowsMoves), and
\* one that was brought back from the archive keeps the lane it was listed with.
RowIsServed(r) ==
    IF r.kind = "task" THEN server.task[r.task] = r.status
    ELSE LET card == server.card[r.card]
         IN  /\ card.board # "gone" /\ card.archived = r.done
             /\ r.card \notin server.moved => card.board = r.board
             /\ r.card \notin server.restored => r.done \/ card.status = r.status

ShownIsServed ==
    Quiet /\ ~told /\ outside = 0 /\ session.prompt =>
        \A i \in DOMAIN stack :
            LET v == stack[i]
            IN  /\ v.kind \in {"today", "tasks"} => \A r \in Range(v.rows) : RowIsServed(r)
                /\ v.kind = "board" => v.cards = OnBoard(server, v.name, FALSE)
                /\ v.kind = "board" /\ v.archiveLoaded => v.archive = OnBoard(server, v.name, TRUE)

\* Whatever the user starts comes to an end: no command, message or editor makes
\* the screens ask one another for ever.
Settles == <>[]((flight = EmptyBag /\ editor = NoEditor) \/ crashed)

(***************************************************************************)
(* What the comments of the code promise and the code does not keep.       *)
(***************************************************************************)
\* cardedit.go: "a patch of only what changed, so an untouched field can't
\* clobber a concurrent update it never saw".
CardEditKeepsOthers ==
    \A x \in BagToSet(flight) :
        x.to = "server" /\ x.op = "patchCard" => DOMAIN x.about.patch \subseteq x.about.touched

\* note.go: e edits the note in the editor, "saved back with a version lock".
NoteEditIsNotBlind ==
    \A x \in BagToSet(flight) :
        x.to = "server" /\ x.op = "saveNote" => x.about.version = x.about.seen

\* app.go: "Data messages go to every view so parents can react to child
\* mutations"; a row of the focus view names the board of its card.
FocusFollowsMoves ==
    Quiet /\ ~told /\ outside = 0 /\ session.prompt =>
        \A i \in DOMAIN stack :
            stack[i].kind = "today" =>
                \A r \in Range(stack[i].rows) : r.kind = "card" => server.card[r.card].board = r.board

\* app.go: "Non-key messages are delivered to every view in the stack"; the
\* views end their wait on an error.
NoScreenStuck ==
    Quiet => \A i \in DOMAIN stack : ~stack[i].busy
=============================================================================
