# Amythest: specifications and proofs

TLA+ modules, TLC configurations and TLAPS proofs about Amythest, a server that
publishes an Obsidian vault, with Kanban boards kept as notes, task lines moved
between notes and boards, an index of rendered notes, and several clients.

Contents: [inventory](#inventory) · [plan](#plan) · [modules](#the-modules) ·
[runs](#the-runs) · [proofs](#the-proofs) · [findings](#findings) ·
[what is left out](#what-is-left-out)

## Inventory

Paths are below `src/internal/` unless they start with another directory.

| Component | State it keeps | Operations | What makes it hard | What makes it correct |
|---|---|---|---|---|
| Board content, `kanban/board/store.go`, `model.go` | cards in columns, an archive, focus, archive flag, settings | create, update, move, complete, restore, delete, comment, attach, settings, move to another board | sequences of legal operations; two notes per board | a card has one home; the focus is an active card; an archived board takes in nothing |
| Board store, `kanban/board/store.go` | `board.md`, `done.md`, `.done-archive.wal`, `.cross-board-move-*.wal`, `attachments/<card>` | the same, as sequences of file-system calls; recovery on entry | failing calls, a sync that fails after its rename, death between two calls, several servers on one tree | every operation is atomic; nothing acknowledged is lost; attachments survive |
| Board locks and lifecycle, `store.go`, `store_delete.go` | store mutex, `.lock` files, board directories | lock with the closure of pending moves, create, ensure, delete a board | journals appear between scan and lock; a lock file goes with its directory | mutual exclusion; everyone returns; nothing is overwritten |
| Board notes, `kanban/board/markdown.go` | the two notes of a board, edited by hand too | parse, change, render on every write | a value that looks like syntax, hand edits between two writes | what is rendered is read back; a write changes the card it is about |
| Task files, `tasks/file.go` | notes of the vault, temporary files | replace, create, overwrite, dispose of a note | an editor that takes no lock | no editor's version is lost |
| Task lines and requests, `tasks/`, `server/task*.go`, `mcp/`, `tui/tasks.go` | the lines of a note, the index's rows of them, the rows each client shows | toggle, cancel, purge, due date, recurrence, priority, triage, hide, add | rows listed earlier, refusals that are repeated, lines of one text, failures after the write | a request changes only what it was given; deletion takes two steps; a series goes on |
| Task move, `server/taskboard.go`, `tasks/move.go` | a task line, a card, the index | move a task to a board, with compensation | three stores, failures of each, late errors | the task is in one place, a failure leaves it in one |
| Index, `index/` | SQLite rows, render cache with salts, trigram search | reconcile, incremental index, invalidate, search | notes that change while they are rendered, errors in the middle | what is served is current or is marked as stale |
| Server rescans, `server/server.go`, `server/share.go` | snapshot, `rescanMu`, pending and running flags of the background reconcile | rescan, schedule, publish an upload | a request that arrives as the loop ends | a change is eventually indexed |
| Server pages and APIs, `server/` | configuration, caches | HTTP handlers over the stores | order of the locks of several stores | no deadlock |
| Shares and plugins, `share/` | share notes and assets | reserve a name, write, run plugins, append | failures of plugins, names taken concurrently | an upload never replaces another |
| Authentication, `kanban/auth`, `authjwt`, `server/authz.go`, `hardening.go` | tokens | access decisions | | outside this development |
| Kanban HTTP API, `kanban/httpapi` | none | one store operation per handler | | as the store |
| MCP server, `mcp/` | none | tools over the same functions as the handlers | versions an agent listed earlier | as the task files |
| Vault snapshot, `vault/` | immutable snapshot | scan, slugs, link resolution | names that collide | every note is reachable by one slug |
| Markdown pipeline, `markdown/` | none | rendering | | pure |
| Bases, `bases/`, `bases/expr` | none | parse and evaluate query files | mixed values in comparisons | the order is an order |
| Sources, `source/` | clients of Jira, Azure Boards, Amythest | list, change status, comment | remote failures | mostly I/O |
| Terminal UI, `tui/`; API client, `apiclient/` | a stack of screens, commands that run, a session | a message loop: keys to the top screen, answers to every screen | answers arrive late, in any order, at screens that did not ask; an editor stops the loop; failures | no screen waits for nothing or shows what is not there; a write carries the version that was displayed |
| Presentation, configuration, logging, commands | none that evolves | | | |
| Web front end, `src/web` | the browser's view | optimistic updates | | |

How they interact. A server process has one `Store` over the boards' directory
(`server/kanban.go`); its HTTP handlers, the MCP tools and the TUI all reach the
boards through it. Several servers may share the directory: their stores meet
only in the file system, in the flock of each board's `.lock`. A task move calls
the store while it holds that board's lock, edits a note under the vault's lock
and reindexes before it gives either up. The index reads the vault and
fingerprints the boards. Rescans are serialised by `rescanMu` and publish an
immutable snapshot that the pages read.

`PROJECT.json` lists every component with its sources and, under `hazards`, what
can go wrong at which line and which property would notice.

## Plan

The order is that of importance: what is lost when it goes wrong comes first.

1. *Done.* `BoardContent`, `Kanban`: what each operation does to a board and the
   abstract, atomic board store.
2. *Done.* `BoardStore` with `LockClosure`: the store as file-system calls, shown
   to implement `Kanban`; `BoardLocks`: the lock protocol `BoardStore` takes in
   one step.
3. *Done.* Proofs: `Kanban`'s invariants, `BoardStore`'s types, the discipline of
   its locks and the exclusion of its journals.
4. *Done.* `VaultWriter`: the writers of a note and the move of a task to a board
   over the store, the note and the index, with an editor that takes no lock, a
   plugin that appends, failures and crashes.
5. *Done.* `RenderIndex`: reconcile, incremental index, salts and the background
   loop, with its liveness.
6. *Done.* `TaskLines`, `TaskRequests`: what each request does to the lines of a
   note, and the clients that work from stale rows and repeat what was refused.
7. *Done.* `TuiBase`, `TuiKanban`, `TuiTasks`, `TuiNotes`, `TuiSources`, `Tui`: the
   screens of the terminal UI and the program that composes them.
8. *Done.* `BoardLocks_proofs`: mutual exclusion of the lock protocol.
9. *Done.* `BoardNote`: parsing and rendering of a board's notes, with the requests
   on cards, their order in a column and hand edits.
10. *Done.* Proofs: the refinement `BoardStore => Kanban`, the attachments of
    `BoardStore`, the invariants of `VaultWriter` and those of `RenderIndex`, and what
    the requests of `TaskRequests` do to the tasks of a note, and what the screens of
    `Tui` wait for and show, for all values of the constants.
11. `ServerLocks`: the order of the locks across store, task writer and rescans.
    Expression values of bases; link resolution by alias; optimistic updates of the
    web front end.
12. Proofs still wanted: the invariants of `BoardNote`.

Recursion is written as recursive functions or with the folds of the community
modules, constants carry named assumptions in the module that declares them, and
every operation of the code is one action, or one action per file-system call, so
that modules can be proved about as well as checked.

## The modules

| Module | Models | Uses |
|---|---|---|
| `BoardContent` | what an operation does to a board, as pure operators on `[active, archive]` images | |
| `Kanban` | the promise: each operation is one step on the content of the boards | `BoardContent` |
| `LockClosure` | `moveJournalLockClosure` | |
| `BoardStore` | the store, one file-system call per step | `BoardContent`, `LockClosure`, instance of `Kanban` |
| `BoardLocks` | `withBoardLocksMode`, creation and deletion of boards | `LockClosure` |
| `BoardNote` | `kanban/board/markdown.go` and what each request on a card does to the notes | |
| `VaultWriter` | `tasks/file.go`, `tasks/move.go`, the move of `server/taskboard.go`, `appendToNote` | |
| `RenderIndex` | `index/indexer.go`, `index/incremental.go`, the rescans of `server/`, the snapshot of `vault/vault.go` | |
| `TaskLines` | one line: what `parseTask` reads of it, its edits, its next occurrence | |
| `TaskRequests` | the task handlers of `server/`, `toggle_task`, the batches of `tasks/`, and the clients | `TaskLines` |
| `TuiBase` | what screens share: requests, messages, cursors, the agent picker | |
| `TuiKanban` | `boards.go`, `board.go`, `movepicker.go`, `card.go`, `cardedit.go`, `confirm.go` | `TuiBase` |
| `TuiTasks` | `tasks.go`, `today.go`, `dueprompt.go`, `addtask.go` | `TuiKanban` |
| `TuiNotes` | `notes.go`, `browse.go`, `note.go`, `basesview.go` | `TuiTasks` |
| `TuiSources` | `sources.go`, `jira.go`, `azboard.go` | `TuiNotes` |
| `Tui` | `app.go`, `theme.go`, `themepicker.go`, the requests of `apiclient/client.go` | `TuiSources` |
| `MC...` | constants, sessions and symmetry for TLC | the module they are named for |
| `BoardContent_proofs`, `Kanban_proofs`, `BoardLocks_proofs`, `VaultWriter_proofs`, `RenderIndex_proofs`, `TaskRequests_proofs`, `Tui_proofs` | theorems and proofs | the module they are named for |
| `BoardStore_proofs` | the types and journals of `BoardStore`, that it implements `Kanban`, and what follows; its attachments | `BoardStore`, `BoardContent_proofs`, instance of `Kanban_proofs` |

### BoardContent and Kanban

A card is a revision and the set of its attachments. Every change the code makes
to a card (a new title, a comment, an audit entry) increments the revision, so
that a lost change is a revision that goes back. Revision 0 is "no such card".
Columns, the order in them and text are told apart in `BoardNote`. `Kanban` starts in any
consistent state, since a server is started on boards that exist.

One consequence of the code worth knowing: a card can be created with the status
Done directly in an active list (`createCard` checks only that the status is
known), so the last column of a board is not the archive.

### BoardStore

| Variable | In the code |
|---|---|
| `file[b]["active"]`, `file[b]["archive"]` | `<b>/board.md`, `<b>/done.md` |
| `wal[b]` | `<b>/.done-archive.wal`: both images after the commit |
| `moveWal[{s, d}]` | `.cross-board-move-<pair>.wal`: direction, images before and after |
| `dir[b][c]`, `bin[b][c]` | `attachments/<c>`; its quarantine `.deleting-card-<c>` (a quarantined file is in `dir[b][c].bin`) |
| `held`, `want` | flocks held; boards the call names |
| `pc`, `job` | the next file-system call; what the Go function holds in memory |
| `issued`, `issuedAtts`, `acked`, `doomed` | history: identifiers drawn, newest revision a caller was told of, cards somebody asked to delete |

An operation is `Enter` (locks), any number of `RecoverArchive`/`RecoverMove`
with the calls of the replay, then one action that reads, checks and renders
(`CreateCard`, `EditCard`, ...), then its calls: `WriteActive` for one file;
`CommitArchive`, `ApplyDone`, `ApplyBoard`, `RemoveArchive` for the two-file
commit; `WriteMoveJournal`, `PlaceAttachments`, `WriteDestination`,
`WriteSource`, `RemoveMove`, and `DecideRollback` when one of them fails, for the
move; `Upload`, `QuarantineFile`, `QuarantineDirectory`, `Undo`, `Purge` for
attachments. A check that fails, and an operation that reads only, is `Leave`. A
call has one of three outcomes: it works, it fails and does nothing, or it does
its work and reports an error (`atomicWriteResult`: the rename is done, the sync
of the directory is not). `Crash` may come between any two calls.

`Effective` is the refinement mapping: the content of a board as the next holder
of its lock will find it after replaying. A journal of a move counts from the
moment its owner can no longer turn it round.

Simplifications: the locks of an operation are taken in one step (`BoardLocks`
shows what that rests on); the held set is exactly the closure, while a retry in
the code may hold more; `Upload` and `Undo` of an attachment are one call each;
legacy boards are not migrated; a journal is never unreadable, since it is
installed by a rename.

### BoardLocks

Threads of one or more stores; a mutex per store; a board is a directory with a
generation, and its `.lock` belongs to the generation, so that a flock on a
removed file is a lock on nothing. `Begin`, `TakeMutex`, `Stat` (all names in one
step), `Scan`, then `Open` and `Flock` for each board in the order of the names,
`Rescan` or `Retry`, `Recover`, then the operation. Files are reached by path,
as in the code: an operation acts on the directory that has the name now. An
operation on one board's content is just `Leave`. A process dies with every
thread of its store.

### VaultWriter

One note, one task in it, and the writers that hold the vault lock one at a time.

| Variable | In the code |
|---|---|
| `file["note"]`, `file["archive"]` | the note (`leaf`); the file a note is disposed of to |
| `file[p]`, `preserved` | the writer's `.amythest-*` temporary file; those left for good |
| `cards` | cards on the board, with the request and the version of the note each was made from |
| `lock` | the flock of the vault's root together with `taskFileWriteMu` |
| `pc`, `job` | the next call of `replaceTaskFileAtResult`, `rollbackTaskExchangeAt`, `moveTaskToBoard`; `job.step` says which replacement of the note the move is at |
| `shown` | the version a client has on its screen and sends back with a request |
| `buffer`, `fd` | what the editor has open; where the plugin's open descriptor leads |
| `saved`, `appended`, `overwritten`, `dropped`, `abandoned` | history: edits that somebody was told are kept, those a successor replaced knowingly or not, whether the editor removed the task, requests whose writer died |

A version of the note is what became of the task's line (open, a reference to a
card, gone) and the set of edits in it, each known by its origin. Two versions are
equal when their hashes are: the edit that a request makes is never the edit that
another makes.

`Begin` takes the lock, reads and checks; a replacement is `CreateTemp`,
`Exchange`, `Inspect`, `Unlink`, and when the displaced file is not what was read
`ExchangeBack`, `InspectBack`, `UnlinkBack`, `Current`. A new note is `Publish`, a
disposal `Dispose`, `Verify`, `Undispose`. A move of a task runs `CreateCard`
before its replacement and `Reindex` after it; when the index fails the source is
restored, the card deleted, and, if that fails, the reference put back
(`Continue` says where each replacement of a move leads). `EditorSaves` replaces
the note at any moment, whatever the writers are doing; `AppendWrites` writes
through a descriptor opened before, so that the result goes with the file and not
with the name.

Simplifications: the editor saves by replacing the file, not by truncating it; the
board is locked throughout a move (`WithinBoardLock`), so its card is nobody
else's; the reindex succeeds or fails; the edits of a note (toggle, purge, due
date, triage and so on) are one kind of request that adds an edit.

### RenderIndex

A vault of notes, the rows that the index has of them, and everyone who brings
the two together.

| Variable | In the code |
|---|---|
| `disk`, `boards` | the notes with their versions (0: no file); the set of boards, as a number |
| `rows[s]` | the row of slug `s` in `notes` and `render_cache`: the note's path, the change-detection hash, the page |
| `vault` | the published snapshot, `Server.vault` |
| `pass` | what the holder of `rescanMu` is doing: its scan, its salt, notes to render, rows of the open transaction |
| `vaultLock` | the vault's write lock, as far as rescans and writers of notes meet at it |
| `up` | has `New` returned? |
| `pending`, `bg` | `reconcilePending`; the background loop (`off`: `reconcileRunning` is false) |
| `pc`, `job` | the step of each request; its note, the note's version when it began, what it was served |
| `acked`, `answered` | history: newest version whose writer was told it is written; uploads whose URL was given out |
| `skipped`, `dropped` | history: notes a pass could not read and has not rendered since; notes whose owed re-render was forgotten |

A page is what it was made of: the text of its note and of what it transcludes,
the links that resolved, the set of boards. That separates what the scan saw
(`pass.v`, which decides the hash and the resolution of links) from what is on disk
when a note's turn comes (which is rendered), and from the salt, which `Reconcile`
takes before it renders and `IndexNote` after.

A rescan is `Rescan` (locks and scan), `Diff`, `RenderNote` for each note in the
order of the paths, `Commit`, `Publish`; `PassFails` may come before `Publish`. It
is asked for by the timer, the start of the server, the background loop, a writer
that holds the vault's lock already, and the view of a note that has changed. An
upload takes `rescanMu` only: `IndexUpload`, the three parts of `IndexNote`,
`Publish`, then its plugins and `Schedule`. `Crash` forgets everything but the
database and the vault. `Edit`, `RemoveFile` and `ChangeBoards` come at any time.

Simplifications: the scan is one step; no version of a note ever comes back, so a
note changed and changed back between its scan and its rendering is excluded;
links and transclusions do not change with the text and are resolved by path (no
aliases, no assets); a write of a note is one step (`VaultWriter` takes it apart);
the tables of links, tags, tasks and searches are written with the row; a failing
read of the database by a view, which is answered with an error, is left out; there
is one server.

### BoardNote

`board` and `done` are the lines of `board.md` and `done.md` below their YAML block.
A line is what the parser takes it for: a heading with its level and block id, a
field, a comment bullet, another bullet, an indented line, plain text or blank.
`Cards` is the parser: not line by line as the code does it, but by saying which
lines a card has, which of them are fields, description and comments; `Readable`
is when it returns no error. `BoardLines` and `DoneLines` are the renderer. Each
request is one action that parses the notes, changes the cards as `UpdateCard`,
`MoveCard` and the others do, and renders them; `HandEdit` adds a line anywhere or
takes one out. A card without a block id gets the name the code gives it, from its
column, title and place.

Simplifications: the values of fields and titles are single words; cuts inside a
line, the case of keys and labels are not told apart; the YAML block is left out,
and with it the validation of the board's settings.

### TaskLines and TaskRequests

A line is a checkbox, a text and its metadata as a sequence of marks in the order
they are written, for what the engine reads depends on that order: a tag before
the first mark is part of the text, a tag after a rule is read as part of the
rule (`Unread`). Dates are day numbers, a rule is a number of days and whether it
counts from the day it is done. `NextOccurrence` moves every date by the distance
the rule moves the first of them, as `nextOccurrenceLine` does.

| Variable | In the code |
|---|---|
| `note`, `indexed` | the note's file; what the index last read of it |
| `client[c].rows` | the rows on a client's screen, each with the line number and version of its listing |
| `client[c].phase`, `todo`, `row` | the goroutine of a command: the requests it has yet to send, the row it sends next |
| `client[c].asked`, `again` | the row the user chose; whether the request was refused and looked up once |
| `nextId` | no code: tells lines apart that are alike |
| `session` | the bounds of a behaviour: which operations, how many commands, edits, failures |

`Serve` is a handler: it checks the row as the handler of its operation does
(`AcceptsToggle` and the others), rewrites the note, reindexes and answers, in one
step, since it holds the vault's lock from the first to the last. A reindex that
fails after the write answers like a conflict, except for an addition. `Lose` is an
answer that does not arrive. A terminal goes to `Find` after a refusal, once: it
lists the tasks of that text again and takes the first with the status it wants.
After a success rows of the same text change in place (`Shown`), with the version
they had, or the list is loaded again. `Edit` and `Rescan` come at any time.

Simplifications: one note; a listing is the default order of a query; one rule
adds days (no months, no weekdays); indentation, line ends and code fences are
not told apart; a client runs one command at a time, as each of the code's
screens does while it is busy.

### The terminal UI

A screen is a record; its handler takes the screen and a message or a key and
returns the screen that replaces it together with the commands it starts, as the
`Update` methods of the code do (`Res`, `Stay`, `Asking`). A handler that can do
several things, because a search prompt leaves the cursor anywhere, returns a
set.

| Variable | In the code |
|---|---|
| `stack` | `App.stack` |
| `flight` | goroutines of commands and messages in the channel of the program, as a bag: nothing orders them |
| `editor` | the process of `tea.ExecProcess`; while it runs the program handles nothing, commands go on |
| `server` | external: cards, tasks, notes and items as the requests see them |
| `theme`, `crashed` | the theme in use; a handler panicked |
| `told`; `server.moved`, `server.restored` | history: an error has been shown; cards moved to another board or restored since the server listed what is due |
| `session`, `keys`, `failures`, `outside` | bounds |

`Press` is a key, taken by the program or by the top screen. `Answer` is the
server doing what a request asks; `Fail` a request that fails. `Deliver` hands a
message to every screen (`Broadcast`), an opened note to the top one only
(`OpenNote`), or to the program: push, pop, an error, the start of an editor.
`CloseEditor` ends the editor with the text as it was or changed. `Others` are
changes by other people. A handler that would index past the end of a slice or
follow a nil pointer returns `Panic`, and `crashed` is set.

Simplifications: a request is one step of the server, with the answer of the
handler as it is when nothing else fails; of a card its lane, title, description
and archive flag count, of a note its version and one property; texts typed are
not told apart; the `/` prompts, scrolling, rendering and the mouse are left out.

## The runs

| Run | Bounds | Shows |
|---|---|---|
| `board_store` | 3 boards, 2 cards (one there at the start, on any list), 2 processes, 3 operations, 1 failing or late call, 1 crash | `Implements` (the store is the abstract one), `OneHome`, `FocusIsActive`, `ArchivedTakesNoCard`, `JournalExclusion`, `LockDiscipline`, `NoLostUpdate`, `SuccessIsInstalled`, types |
| `board_attachments` | 2 boards, 1 card, 2 attachments, 2 processes, 3 operations, 1 fault, 1 crash; syncs do not fail | `AttachmentsRetained`, `MoveIsReplayable`, `Implements` |
| `board_locks` | 2 boards that exist, 3 threads, two of them of one store, 3 operations, 2 mishaps, 2 generations of a board | `Exclusion`, `JournalsSettled`, `OverwritesOnlyOrphaned`, `EveryoneReturns`, types |
| `vault_writer` | 2 writers, 2 requests, 2 saves of the editor, 1 result of a plugin, 1 failing call, 1 crash | `NothingSavedIsLost`, `TaskOrCard`, `RetryIsRefused`, types |
| `render_index` | 2 notes, the first links to the second, which an upload creates and which transcludes the first; 2 requests at once, 3 events (changes, requests), 1 failing call or death | `StaleIsNoticed`, `AcknowledgedIsIndexed`, `UploadStaysPublished`, `ServedIsCurrent`, `EventuallyCurrent`, types |
| `tui` | 2 boards, 2 cards, 2 notes, 2 tasks (one recurring), 2 items; 19 sessions, each a starting screen, its keys, 3 to 6 key presses, at most 1 failing request and 1 change by others | `QuietIsIdle`, `PropertyEditIsNotBlind`, `PreviewIsOfSelection`, `ShownIsServed`, `Settles`, types |
| `board_note` | 2 columns, 2 cards and one in the archive, 2 fields; 1 edit by hand (4 kinds of line at every place, or any line removed), 2 requests with 4 descriptions, 2 comments, 2 values | `WriteTouchesOnePart` |
| `task_requests` | a note of 3 lines, one recurring with a completed copy, one undated; a terminal and a page; 11 sessions, each a set of operations with 2 or 3 commands, at most 1 edit and 1 failure | `OnlyAskedTextChanges`, `OnlyShownCancelledGoes`, `BatchIsWhole`, `SeriesGoesOn`, `CommandsEnd`, types |
| `finding_*` | as small as the counterexample allows | see [findings](#findings) |

Why the bounds are enough. Three boards are what it takes for two pending moves
to share one: a lock closure that reaches beyond the names, and two journals that
could claim one board. Three operations let one leave a journal behind, a second
meet it and fail, a third see the result. In `VaultWriter` two saves are what it
takes to come between a read and the exchange, and again between the exchange and
the exchange back; with two failing calls the properties hold too (9.4 million
states, beyond the time a routine run should take). In `RenderIndex` two notes that depend
on each other in both ways make every staleness possible, and three events are an
upload, a change that comes in the middle of its publication and a second upload
while the loop is ending; the timer's rescan is not counted, so passes of every
kind overlap without a bound. One fault and one crash together give
the crash during a rollback and during a replay; the proofs of the journals' and
locks' discipline hold for any number. Two attachments are what a deletion of one
that keeps the other needs. Deadlock is checked in the runs of `BoardStore`:
everything idle is the only state in which it may stop (`Rest`). In `BoardLocks`
the bounded number of operations ends every behaviour, so deadlock is not
checked there: `EveryoneReturns` says instead that nobody is left waiting.

In `BoardNote` one edit and two requests let a request render what a person wrote,
and the next one start from what was rendered; the descriptions contain headings
that would be a column and a card, and a field below the first line. Those that are
known to be read back as something else are in the configurations of the findings.

`Tui` and `TaskRequests` are bounded by sessions: a behaviour chooses one at its
start, with the operations or keys that can disturb each other there, so that each
interaction is explored to its end instead of all of them a little. Three commands
of two clients are a success, a second one from rows that the first made stale, and
a third that meets the repetition of the second. A screen needs the keys that open
a child, change something on it and leave it before the answer arrives; in seven of
the sessions, those of `ShownIsServed`, the program handles the messages it has
before the next answer comes in (`prompt`), for a list that is loaded twice shows
the answer that arrives last, which may be the older one.

Boards and processes are interchangeable in `BoardStore`, whose properties are
safety properties, so the runs use symmetry. `BoardLocks` orders its boards and
is checked for liveness, so its run uses none.

Fairness. `BoardLocks` assumes weak fairness of each thread's own step: a thread
that can go on does. Nothing obliges a caller to begin or a process to die.
`sync.Mutex` and `flock` do not promise an order among waiters; with the bounded
number of operations weak fairness is enough, so the run says that no cycle of
waiting exists and that the retry loop ends, not that a waiter cannot be overtaken
for ever by an endless stream of new operations.

`RenderIndex` assumes that a pass, a request and a waiting rescan go on when they
can, that the ticker of `RunRescanLoop` fires and that a dead server is started
again (weak fairness), and strong fairness of the background loop: it waits for the
one connection that writes (`SetMaxOpenConns(1)`), which `database/sql` gives to
waiters in turn, and for the vault's lock, which the timer leaves for minutes at a
time. Changes are bounded, so `EventuallyCurrent` reads: once nobody changes
anything any more, every page becomes what its note, its links and the boards make
it and stays so, but for notes in `skipped` and `dropped`. Those two are exact: a
note gets in by a read that failed, by a death or a failed invalidation while a
re-render was owed, or by a note that vanished before it was rendered, and gets out
when it is rendered.

`Tui` assumes that some command or message goes on when one can, and that an editor
is closed: goroutines end or fail, the program reads its channel. No key has to be
pressed and no request has to succeed. `TaskRequests` assumes that the server
answers and that a client's goroutine goes on; a rescan is not assumed, so
`CommandsEnd` holds even if the index never catches up with the file.

`CHECK_DEADLOCK FALSE` in the runs of `BoardLocks`, `RenderIndex`, `Tui` and
`TaskRequests`: their bounds on operations, events, keys and commands end every
behaviour, and a user may leave the program alone.

Every property of a passing run has a mutant in `PROJECT.json`: a change of one
definition, as a plausible bug would make it, under which TLC finds the property
violated. The variants stand beside the definitions, marked `Variant`.

## The proofs

| Theorem | States |
|---|---|
| `StoreConsistent` (`Kanban_proofs`) | `Spec => []Consistent`: types, one home per card, the focus is active |
| `StoreArchivedTakesNoCard` (`Kanban_proofs`) | the action property, for the abstract store |
| `StoreTyped` (`BoardStore_proofs`) | `Spec => []TypeOK` for the detailed store: in particular every journal is a pair of whole images |
| `StoreLockDiscipline` (`BoardStore_proofs`) | `Spec => []LockDiscipline` |
| `StoreJournalExclusion` (`BoardStore_proofs`) | `Spec => []JournalExclusion`: no board is claimed by two journals |
| `StoreImplements` (`BoardStore_proofs`) | `Spec => Implements`: the detailed store implements `Kanban`, with `Effective` for its content |
| `StoreOneHome`, `StoreFocusIsActive` (`BoardStore_proofs`) | the two invariants of the detailed store |
| `StoreTakesNoCard` (`BoardStore_proofs`) | the action property `ArchivedTakesNoCard` of the detailed store |
| `StoreNoLostUpdate` (`BoardStore_proofs`) | `Spec => []NoLostUpdate`: what a caller was told of stays on the boards |
| `StoreSuccessIsInstalled` (`BoardStore_proofs`) | `Spec => []SuccessIsInstalled` |
| `StoreMoveIsReplayable` (`BoardStore_proofs`) | `Spec => []MoveIsReplayable`: a pending move finds its attachments on exactly one board |
| `StoreRetainsAttachments` (`BoardStore_proofs`) | `Spec => []AttachmentsRetained`, if syncs of directories do not fail |
| `LocksTyped` (`BoardLocks_proofs`) | `Spec => []TypeOK` for the lock protocol |
| `LocksExclusion` (`BoardLocks_proofs`) | `Spec => []Exclusion`: two operations inside have no locked board in common |
| `LocksJournalsSettled` (`BoardLocks_proofs`) | `Spec => []JournalsSettled` |
| `LocksOverwriteOnlyOrphaned` (`BoardLocks_proofs`) | `Spec => OverwritesOnlyOrphaned`, an action property |
| `VaultTyped` (`VaultWriter_proofs`) | `Spec => []TypeOK` for the writers of a note |
| `VaultNothingSavedIsLost` (`VaultWriter_proofs`) | `Spec => []NothingSavedIsLost`, with an editor that takes no lock, failing calls and deaths |
| `VaultTaskOrCard` (`VaultWriter_proofs`) | `Spec => []TaskOrCard`: the task is in some copy of the note or on the board |
| `VaultRetryIsRefused` (`VaultWriter_proofs`) | `Spec => []RetryIsRefused` |
| `IndexTyped` (`RenderIndex_proofs`) | `Spec => []TypeOK` for the index and its passes |
| `IndexUploadStaysPublished` (`RenderIndex_proofs`) | `Spec => []UploadStaysPublished`, also when notes share a slug |
| `IndexStaleIsNoticed` (`RenderIndex_proofs`) | `Spec => []StaleIsNoticed`, if notes have slugs of their own |
| `IndexAcknowledgedIsIndexed` (`RenderIndex_proofs`) | `Spec => []AcknowledgedIsIndexed`, if notes have slugs of their own |
| `IndexServedIsCurrent` (`RenderIndex_proofs`) | `Spec => []ServedIsCurrent`, if notes have slugs of their own |
| `TaskTypes` (`TaskRequests_proofs`) | `Spec => []TypeOK` for the note, the index and the clients |
| `TaskOnlyAskedTextChanges` (`TaskRequests_proofs`) | `Spec => OnlyAskedTextChanges`, an action property: a request touches tasks of its texts only |
| `TaskOnlyShownCancelledGoes` (`TaskRequests_proofs`) | `Spec => OnlyShownCancelledGoes`, an action property |
| `TaskBatchIsWhole` (`TaskRequests_proofs`) | `Spec => BatchIsWhole`, an action property: a batch is applied whole or not at all |
| `TuiTypes` (`Tui_proofs`) | `Spec => []TypeOK`: there is a screen, and commands are those the program knows |
| `TuiPropertyEditIsNotBlind` (`Tui_proofs`) | `Spec => []PropertyEditIsNotBlind` |
| `TuiQuietIsIdle` (`Tui_proofs`) | `Spec => []QuietIsIdle`: no list waits for nothing |
| `TuiPreviewIsOfSelection` (`Tui_proofs`) | `Spec => []PreviewIsOfSelection` |
| `TuiShownIsServed` (`Tui_proofs`) | `Spec => []ShownIsServed`: in a prompt session lists, lanes and archives are what the server has, with two exceptions in the focus view |

They hold for every set of boards, cards, attachments, processes, threads, notes,
clients, requests and sessions and for every bound. Of the store's only `StoreRetainsAttachments`
assumes anything of `SyncMayFail`: that it is false, as in the run
`board_attachments`, and `finding_sync_error` shows that it has to. Assumed are: `NoneAssumption` and `NoneIsNoRecord` (the null value is
none of the things it stands beside: no card, journal or directory in `BoardStore`,
no version and no request in `VaultWriter`, no hash, row, pass or job in
`RenderIndex`), `BoundsAssumption` (bounds are numbers, seeded cards are cards),
`LocksAssumption` (board names are numbers, since the store sorts them; the null
value is no thread; a board can be made at least once), `VaultAssumption`
(processes are not names of files, bounds are numbers) and `IndexAssumption` (paths
are numbers, since they are sorted, and there is a finite number of them; links and
transclusions are paths, no note transcludes itself; the callers that are no
requests have names of their own), and of the tasks `TodayAssumption` (a day
number), `ClientsAssumption` (terminals are clients), `RequestsAssumption` (dates,
priorities and rules are what a mark can carry, bounds are numbers) and
`LinesAssumption` (the note's first lines are lines, numbered in their order). Of the
terminal UI: `TuiConstants` (there is a theme, the boards are finitely many and none is
called by a name that stands for "no board"; `IsFiniteSet` is what makes a list of all
boards a list; the server lists cards and tasks in some order) and `SessionsAssumption` (a session starts on a screen the program can
start on, and on a board or a card only if there is a board). TLC evaluates them in every run of the module.
`SlugsDiffer`, no two notes have one slug, is a hypothesis of three theorems and not
an assumption of the module: `finding_slug_collision` is about vaults without it.

The argument for the journals. `JournalExclusion` is not inductive: from a state
where two processes hold one board, the next journal breaks it. The inductive
invariant is `TypeOK /\ LockDiscipline /\ JournalExclusion`. Locks exclude each
other; a process holds with a board every board that a pending move ties to it
(`HeldClosed`, from the closure: `ClosureClosed`); a journal bears the name of its
pair (`Named`); and a process that is about to write has replayed everything
pending on what it holds (`Clear`, a part of `Posted`). A new journal is written
by a process that holds all of its boards and on which nothing is pending, so it
meets no other; it ties only boards of its own holder together, so nobody else's
set is split; and removing one disturbs nobody. Each action has a lemma; actions
that touch neither journals nor locks share `QuietStep`, archive journals
`ArchiveJournalStep`, move journals `MoveJournalStep`.

The argument for the locks. `Exclusion` is not inductive: a thread that has all its
flocks but has not looked at the directories again may hold the lock of one that is
gone. The inductive invariant `Protocol` says, besides the types, what a thread
knows. `Grip`: the boards it names are among those it locks, it owns the flock of
each lock in its list, and from `rescan` on it has one for every board. `Sound`,
as long as nobody has gone on with the lock of a deleted directory (`orphaned`):
once it is past `rescan`, each of its locks is that of the directory there is; the
journals that name its boards are those it has yet to replay or its own; and the
files a creation is about to write are not there. Two threads past `rescan` with a
board in common would both own the flock of that board's one directory (`Apart`),
and a flock has one owner. So a deletion takes no directory from under another, a
new journal names nobody else's boards and nobody else writes the files of a
creation: what the others know stays true (`Spares`). The rescan establishes it: the closure
of the names contains every pending pair that meets it (`ClosureClosed`). Steps
that end an operation share `ForgetStep`, the others `ThreadStep`; `Protocol` itself
was checked by TLC on the instance of `board_locks` before it was proved.

For the abstract store `Kanban_proofs` restates `OneHome` as a formula on pairs of
lists, shows for each operator of `BoardContent` what it does to each card
(`BoardContent_proofs`), and takes one lemma per operation.

The argument for the refinement. `Effective` replays in its head: a pending archive
journal, or a journal of a move that its owner can no longer turn round, decides the
content of its boards, and otherwise the files do. Every call of the code is then a
stutter or one whole operation of `Kanban`, and which one it is depends on what the
process has in memory, so the invariant, `Typed`, `Disciplined`, `Kept` and the
abstract store's own invariant, says for each stage how that relates to the files:
that what was rendered came of an operation on the content there is (`RenderedAt`),
that the journal of a commit has the images it was rendered from, with the old ones
in the files that are not yet replaced (`JournalledAt`), where a move stands
(`MovingAt`: undecided, and then nothing at the source has changed, or decided, and
then replaying it is all there is left to do), and what a process may report
(`DoneAt`, `ToldAt`). The discipline of locks and journals, proved before, makes the
facts about a board the business of one process, so each action disturbs those of its
own process only. An installation, which writes the last thing that `Effective` looks
at, is the abstract operation; the removal of a journal and every replay are stutters,
for the files agree by then. A call that reports an error after having done its work
is the same step of the content with another way on. `OneHome`, `FocusIsActive` and
`ArchivedTakesNoCard` come from the abstract store through the mapping;
`NoLostUpdate` and `SuccessIsInstalled` are parts of the invariant.

The argument for the attachments. Two invariants on top of that of the refinement.
`Placed`: for each pending move of a card with attachments its directory is on one
board of the pair. It is when the journal is written (the precondition checked by
`validateMoveAttachmentPreconditions` still holds, since the mover holds both boards:
`PlacedAt`), the rename of a replay or a rollback keeps it, and nobody else touches the
directories of boards that a journal ties: whoever uploads, deletes, puts back or
purges holds its board with no journal pending on it. That is all that
`MoveIsReplayable` needs, so it holds whatever syncs do. `Tended` is about the files.
What a list names was issued and is stored, in the directory or in its quarantine; a
card that is on no list has no attachments (`Bare`), or a restored card would bring
names back. What a process may yet remove is named by no list (`AttAt`): an upload
until its board is written, a quarantined file once it is. When a card is deleted its
directory is put aside first and the purge follows the commit; the card is then on no
list and never will be, because identifiers are drawn once (`Dead`). What one
process uploads nobody else can be about, for nobody else knows its name (`Apart`).
With a late error of a sync the board is written and the writer believes that it is
not, so it removes an upload that the board names: that is where `AttAt` needs the
hypothesis.

The argument for the writers of a note. A replacement leaves three places a version
can be in, the note, the temporary file and what was preserved, and between the
exchange and the last look at what it displaced an editor may save. `Secure` says for
each stage what the note and the temporary file carry: an edit that somebody was told
is kept is in one of them or is recorded as replaced knowingly, and a file is removed
only when what it has is carried by another (`Carries`, `Follows`, `Grown`); an edit a
client has made but was not told of may go with its own failure (`Promised`). Copies
that were given up on, by failing calls or deaths, are succeeded by one that has their
edits and their task (`SucceededSecure`). `RetryIsRefused` rests on `NotRepeated`: an
edit that is yet to be made is in nobody's version, and a version that was the source
of a settled card is none that could become the note again, because everything that
can become the note is known (`Known`, `Called`) and the version that was read is at a
known place in each stage, counting the calls that failed (`NotBackAt`).

The argument for the index. `Owned` says who may be in a pass and with what. For
uploads, `UploadKept`: every scan and every snapshot since an answer has its note, so
no pass counts its slug among the removed; that holds because scan and publication of
a pass, and the whole of `IndexNote`, are under `rescanMu`. Freshness is one
invariant, `Fresh`. Versions only grow, so everything that a row, a rendering, the
snapshot, an acknowledgement or a request knows of a note is no newer than the file
while there is one (`NoNewer`, kept by every step that has `Ages`). A hash is taken of
the scan and the page is rendered from the files, so the two may differ, but then the
file is not what the hash says, now or ever again (`Made`): a hash that still holds
was taken of what was rendered. The salt of a pass is taken before anything is
rendered and errs on the same side; that of `IndexNote` is taken after, and what it
gets wrong is covered by the pass that is owed from then on (`Owed`). Links are in no
hash: while slugs neither come nor go they stay as they resolve, and when they do a
pass renders all notes; what it could not read is in `skipped` or `dropped`
(`Excused`). Between scan and publication, `Rendering` says that every note of the
scan is rendered, is to be rendered or has a row as new, and `Publishing` that all of
that has reached the rows. Steps that leave the pass alone share `QuietFresh`, steps of a pass
that write nothing `StageFresh`. `Typed`, `UploadKept` and `Fresh` were checked by TLC
on the instance of `render_index` before they were proved. `Max` and `Min` are
choices, so that a finite set of numbers has a largest is proved first
(`FiniteHasLargest`).

The argument for the task requests. `Inv` says that the lines of a note have numbers
of their own (`Numbered`), that a row's text is the text of its line in the version
the row carries (`Honest`), and that each command fits the rows it was given for:
the row a request is sent with has the text of one the user chose, also after it was
looked up again; a toggle names one place; only rows shown cancelled are purged
(`Orders`, `Fits`). A handler then does one of three things, and `Keeps` says of all
of them where the lines that stay are in the new note: in their order, those the
request does not name as they were, and at most one new line, which is open
(`ServedIs`). What a request names has the text it was asked for: the handlers that
compare the version have an honest row, the triage, which carries no version,
compares the text itself. A purge compares the version and the
status it finds. A batch is whole because every item is checked before any is written
and no rewrite leaves a line as it was (`RewrittenDiffers`), with the one exception
the property names. `Pick`, which takes lines and marks out, is a recursive function;
that it keeps the order and loses nothing else is an induction, made over the set of
the lengths for which it holds (`NumbersFromZero`, from the library's
`WFMin`), which needs no theorem with an operator for a parameter.

The argument for the terminal UI. `QuietIsIdle` is not inductive: it says nothing
while something is on its way. `Inv` says that every screen has the fields its
handlers decide by (`IsScreen`: in a property editor the version is that of the
value shown), that every command is one the program knows (`IsCommand`: a property
is sent with the version that was seen), and that a screen that waits (`Waits`: a
list that is busy, a pane that shows another note than the one under the cursor) has
on its way what will end its wait (`Frees`: a request, `Asks`, its answer, `Tells`,
or an error), unless an error was shown before. Three facts carry it. A handler
leaves its screen settled, with a request of its own among what it starts, or leaves
a wait as it was (`Good`, one lemma for each handler of each screen). An answer ends
every wait that its request would have ended, and so does a failure, with an error
(`AnswerServes`, `FailureServes`). A message that comes back is given to every
screen of the stack, and each screen it is for is settled by it (`Heard`). So a
command may go: a screen that waited for it no longer does, or waits for one that
the message started (`BroadcastStep`); screens that wait for something else find it
still on its way, because a bag loses one command at a time (`Remains`, `SwapStep`).
A board that is not on top is served too, as waits are those of all screens and not
of the one that is shown. `Inv` was checked by TLC on the instance of `tui`.

The argument for what the screens show. `ShownIsServed` is not inductive for the same
reason, and `Inv` does not help: a row may be old while nobody waits. `Honest` says, of
a session in which nothing failed and only the program changes the server (`Calm`),
that every row and every lane is what the server has, or a command on its way will
correct it (`ScreenFine`: a listing, a change that makes the screen list again, or the
message that corrects that row in place), and that every message tells what the server
has (`Truth`). A row of a task has its status; a row of the focus view has the board
and the lane of its card, or that it is done. Two exceptions are exact: the board of a
card that was moved to another board (finding 13) and the lane of one that was brought
back from the archive, in either case since the server last listed what is due.
`server.moved` and `server.restored` remember these cards; no action depends on them,
and without either exception TLC finds a counterexample. Truth is kept because in a prompt session no request is answered while
a message waits: at most one answer is told at a time. The steps are these. A key
leaves alone what a screen has from the server, and a list or a board asks again
whenever it loses something (`KeyOfSame`, `OpenedFine`). A request does to the server
what its answer says, and to nothing else: each task, each card and each lane that it
changes is named in the answer, whose handlers correct it (`TaskEffect`, `CardEffect`,
`NoteEffect`, `ReadEffect`, and `EffectFine` for any screen). A message is heard by
every screen of the stack, and each takes from it all that it corrects, or asks again
(`UpdateOfFine`), so the message may go. That what the server lists holds each
card and task as it is rests on the order of the rows (`Chosen`, a recursive function,
by induction over the set of the lengths for which it holds). `Honest` was checked by
TLC on the sessions of `tui` before it was proved.

Only model-checked: `BoardNote`, whose notes are built with folds over sequences, and
what those compute for every input is induction over data; liveness under fairness
(`EveryoneReturns`, `EventuallyCurrent`, `CommandsEnd`, `Settles`), which is out of the prover's reach; and `SeriesGoesOn`, which is no
theorem: it holds of the notes of its run, and finding 10 is a note of which it does
not.

## Findings

Each is a disagreement between the code and what a comment, a document or the code
itself says. A run of `PROJECT.json` reproduces the first four; the next twelve have a
configuration of their own beside the project, which is run in the same way
(`tlc -config <name>.cfg <module>`) and violates the property it lists.

1. `finding_sync_error`: a late error of a board write is taken for a failure, and
   the uploaded file the board now names is removed (`store.go:1031`); likewise
   quarantined attachments are put back for a card that is gone.
2. `finding_deleted_lock`: `DeleteBoard` removes the lock file with the directory,
   so a waiter and the next creator are inside at once and one overwrites the
   other's board (`store_delete.go:64`), which `CreateBoard`'s comment excludes.
   `LocksOverwriteOnlyOrphaned` proves that there is no other way.
3. `finding_card_edit`: the patch of an edited card is the difference between the
   edited text and the card on the screen *when the editor returns*
   (`tui/card.go:153`), so fields nobody touched are written back over a change
   that arrived meanwhile (`cardedit.go:12-14` says they cannot be).
4. `finding_retry_other`: the repetition of a refused toggle finds its task by text
   and status; if somebody else has completed the shown occurrence of a recurring
   task, it finds the next one and completes that too (`tui/tasks.go:89`).
5. `finding_slug_collision` (`MCRenderIndex`): of two notes with one slug "the path-sorted later note
   wins deterministically" (`vault/vault.go:219`), but the index compares both with
   the one row they share, so each rescan renders the one that is not in it
   (`index/indexer.go:97`).
6. `finding_crashed_delete` (`MCBoardStore`): a process that dies between the
   quarantine of attachments and the write of the board leaves a card whose
   attachments cannot be opened; nothing renames them back (`store.go:739`, `1093`).
7. `finding_refused_move` (`MCBoardStore`): an attachments directory left behind
   makes a later move of the card fail as "card already exists on destination board"
   (`store.go:1327`).
8. `finding_lost_append` (`MCVaultWriter`): a plugin's result is appended through a
   descriptor that takes no vault lock (`share.go:351`), so a writer that replaces
   the note in between removes the file the result went to.
9. `finding_vanished_note` (`MCRenderIndex`): a note that is scanned and gone before
   it is rendered leaves links to it resolved in other pages; slugs and hashes agree
   afterwards, so no rescan repairs them (`index/indexer.go:121`).
10. `finding_series_ends` (`MCTaskRequests`): a recurring task that counts from the
    day it is done and is completed early, or twice on one day, gets no next
    occurrence (`tasks/toggle.go:85`).
11. `finding_note_edit` (`MCTui`): a note that was edited is saved with the version on
    the screen when the editor returns, which a reload may have replaced
    (`tui/note.go:423`).
12. `finding_stuck_screen` (`MCTui`): an error reaches no screen (`tui/app.go:207`), so
    the screens that wait for its answer keep refusing to act until they are
    reloaded, and a note until it is left.
13. `finding_moved_focus` (`MCTui`): `app.go:366` sends every change to every screen "so parents
    can react to child mutations", but the focus view has no case for a card that was
    moved to another board (`tui/today.go:143-224`). Its row keeps the old board, shows
    it and sends the next `space`, `d` or `D` there, until the list is loaded again.
    A row brought back from the archive in place keeps its old lane likewise (`196-203`).
14. `finding_comments_heading` (`MCBoardNote`): a heading "Comments" in a description is
    demoted to, or is, the heading of the card's comments: what follows is dropped, and
    a list item there makes the whole board unreadable (`markdown.go:203`, `269`). A
    description that begins like a field is read as the field.
15. `finding_hand_text` (`MCBoardNote`): text above the first card of a column is gone
    after the next request (`markdown.go:277`), although "hand edits are parsed first,
    so content survives".
16. `finding_second_todo` (`MCBoardNote`): a card added by hand is named after its
    title and place; a second one of that title at that place gets the id of the
    first, and when both are completed one is dropped (`markdown.go:404`,
    `store.go:511`).
17. From reading, without a configuration: one directory without a board file makes
    `ListBoards` fail as a whole; a failing plugin appends a warning to a share
    although the contract says nothing is appended; a cursor kept from a longer
    result, and a base unset by a reload, end the terminal UI (`tui/addtask.go:154`,
    `tui/basesview.go:156`); deleting a done task is always refused
    (`tasks/cancel.go:44`); a reindex that fails after the write is answered as a
    conflict, so the terminal repeats what took effect (`tasks/file.go:289`);
    `#backlog` after a rule makes the rule unreadable (`tasks/triage.go:68`).

Not counted as findings, but worth knowing: the re-render that an upload calls for
is only in memory, so a death of the server, or an invalidation that fails
(`server/server.go:326`), leaves links to the upload broken in cached pages until
their notes change (`dropped`); `TaskOrCard` counts a copy of the note
under a temporary name, which a user has to find; and an editor that saves a buffer
opened while a move was being tried brings back a reference to a card that was
rolled back, which `dropped` counts as the editor's doing. In the terminal UI: a
list that is loaded twice shows whichever answer arrives last; `popMsg` takes away
whatever screen is on top; the choice of a picker applies to the card under the
cursor when it is made; and reopening a completed occurrence of a recurring task
leaves the next one that its completion inserted.

## What is left out

Power failure: a crash in the models kills a process, and what its calls did to
the tree stays. Which unsynced writes survive a power failure is not modelled.
The rename-back in `DeleteBoard` after a failing sync is not modelled. The
remaining components of the inventory are listed in the plan or, with the reason,
in `PROJECT.json`: access control is out of scope, rendering and clients of
external services are conversion and I/O.
