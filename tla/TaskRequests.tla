---------------------------- MODULE TaskRequests ----------------------------
(***************************************************************************)
(* The requests that change the tasks of one note: what the handlers of    *)
(* internal/server/task*.go and the MCP tool toggle_task accept and write, *)
(* and the clients that send them.  A client works from rows it listed     *)
(* earlier.  Rows come from the index, carry the version of the note they  *)
(* were read from and are changed in place when a request succeeds.  The   *)
(* terminal UI repeats a request that was refused once, on the row it then *)
(* finds for the same text and status; web pages and agents do not.        *)
(*                                                                         *)
(* A handler writes and reindexes in one critical section of the vault     *)
(* lock, so serving a request is one step.  The bytes of the write, the    *)
(* editor that meets it and the crashes are VaultWriter's.                 *)
(***************************************************************************)
EXTENDS TaskLines

CONSTANTS Clients, Terminals,     \* all clients, and those that are terminal UIs
          Texts, Dates, Rules, Priorities,     \* what a request may write
          FirstLines,             \* the lines of the note at the start
          MaxBatch,               \* bound: tasks in one request of a page
          Sessions                \* bounds: the operations asked for, and how many
                                  \* commands, outside edits and failures there are

ASSUME ClientsAssumption == Terminals \subseteq Clients

ASSUME RequestsAssumption ==
    /\ Dates \subseteq Int /\ Priorities \subseteq Int /\ Rules \subseteq Rule
    /\ \A s \in Sessions : s.asks \in Nat /\ s.edits \in Nat /\ s.faults \in Nat

Line == [id : Nat, box : Boxes, text : Texts, meta : Seq(MarkSet)]
Note == [hidden : BOOLEAN, lines : Seq(Line)]

ASSUME LinesAssumption ==
    FirstLines \in Seq(Line) /\ \A i \in DOMAIN FirstLines : FirstLines[i].id = i

VARIABLES
    note,        \* the file: its lines, and whether it opted out of task collection
    indexed,     \* the note as the index last read it
    client,      \* what each client shows, asked for and waits for
    nextId,      \* the number of the next line written (no code: tells lines apart)
    asks, edits, faults,          \* how many of each so far
    session                       \* which bounds apply

vars == <<note, indexed, client, nextId, asks, edits, faults, session>>

(***************************************************************************)
(* Rows.                                                                   *)
(***************************************************************************)
\* FileVersion: the content, without the numbers of the lines.
Version(n) == [hidden |-> n.hidden,
               lines |-> [i \in DOMAIN n.lines |-> [n.lines[i] EXCEPT !.id = 0]]]

Row(n, i) ==
    LET l == n.lines[i]
    IN  [at |-> i, id |-> l.id, text |-> Text(l), status |-> Status(l), due |-> Due(l),
         rule |-> Recurrence(l), priority |-> Priority(l), version |-> Version(n)]

\* ListTasks: the indexed tasks of the note.
Listing(n) == IF n.hidden THEN {} ELSE {Row(n, i) : i \in {i \in DOMAIN n.lines : IsTask(n.lines[i])}}

\* A query without "sort by" lists by due date, undated last, then by priority.
Before(r, s) ==
    LET rank(x) == IF x.due = NoDate THEN 1000 ELSE x.due
    IN  \/ rank(r) < rank(s)
        \/ rank(r) = rank(s) /\ r.priority < s.priority
        \/ rank(r) = rank(s) /\ r.priority = s.priority /\ r.at <= s.at

\* findTask: the first row listed with this text and status.
Found(rows, text, status) ==
    LET like == {r \in rows : r.text = text /\ r.status = status}
    IN  {r \in like : \A s \in like : Before(r, s)}

(***************************************************************************)
(* The handlers.  A request is an operation and the rows it names.         *)
(***************************************************************************)
\* Variants: a toggle, or a purge, does not look at the version.
FreshOrToggle(n, op, r) == op.name = "toggle" \/ r.version = Version(n)
FreshOrPurge(n, op, r) == op.name = "purge" \/ r.version = Version(n)

\* The version the request carries is still the file's.
Fresh(n, op, r) == r.version = Version(n)

At(n, r) == n.lines[r.at]
Exists(n, r) == r.at \in DOMAIN n.lines /\ IsTask(At(n, r))
SameTask(n, r) == Text(At(n, r)) = r.text /\ Status(At(n, r)) = r.status

AcceptsToggle(n, op, r) == Fresh(n, op, r) /\ Exists(n, r)

AcceptsDue(n, op, r) ==
    /\ Fresh(n, op, r) /\ Exists(n, r) /\ SameTask(n, r) /\ Due(At(n, r)) = r.due
    /\ Cardinality(Places(At(n, r), "due")) <= 1

AcceptsRecurrence(n, op, r) ==
    /\ Fresh(n, op, r) /\ Exists(n, r) /\ SameTask(n, r) /\ Recurrence(At(n, r)) = r.rule
    /\ Cardinality(Places(At(n, r), "rule")) <= 1

AcceptsPriority(n, op, r) ==
    Fresh(n, op, r) /\ Exists(n, r) /\ SameTask(n, r) /\ Priority(At(n, r)) = r.priority

AcceptsCancel(n, op, r) ==
    Fresh(n, op, r) /\ Exists(n, r) /\ Text(At(n, r)) = r.text /\ Status(At(n, r)) = "open"

AcceptsPurge(n, op, r) == Fresh(n, op, r) /\ Exists(n, r) /\ Status(At(n, r)) = "cancelled"

\* Classification carries no version.
AcceptsTriage(n, op, r) ==
    /\ Exists(n, r) /\ Text(At(n, r)) = r.text
    /\ Status(At(n, r)) = "open" /\ Due(At(n, r)) = NoDate

AcceptsHide(n, op, r) == Fresh(n, op, r)

Accepts(n, op, r) ==
    CASE op.name = "toggle" -> AcceptsToggle(n, op, r)
      [] op.name = "due" -> AcceptsDue(n, op, r)
      [] op.name = "recurrence" -> AcceptsRecurrence(n, op, r)
      [] op.name = "priority" -> AcceptsPriority(n, op, r)
      [] op.name = "cancel" -> AcceptsCancel(n, op, r)
      [] op.name = "purge" -> AcceptsPurge(n, op, r)
      [] op.name = "triage" -> AcceptsTriage(n, op, r)
      [] op.name = "hide" -> AcceptsHide(n, op, r)

Rewritten(line, op) ==
    CASE op.name = "toggle" -> IF op.new THEN Completed(line) ELSE Reopened(line)
      [] op.name = "due" -> SetDue(line, op.new)
      [] op.name = "recurrence" -> SetRecurrence(line, op.new)
      [] op.name = "priority" -> SetPriority(line, op.new)
      [] op.name = "cancel" -> Cancelled(line)
      [] op.name = "triage" -> Triaged(line, op.new)

\* Completing a line that has a next occurrence.
Recurs(n, op, rows) == op.name = "toggle" /\ op.new /\ \E r \in rows : HasNext(At(n, r))

\* A purge takes whole lines out.
Without(n, places) ==
    LET gone == {n.lines[i].id : i \in places}
    IN  Pick(n.lines, {i \in DOMAIN n.lines : n.lines[i].id \notin gone})

\* An addition goes last.
NewLine(text) == [id |-> nextId, box |-> " ", text |-> text, meta |-> <<>>]

\* The next occurrence goes above the line that was completed.
Recurred(n, op, at) ==
    InsertAt([n.lines EXCEPT ![at] = Rewritten(@, op)], at, NextOccurrence(n.lines[at], nextId))

\* The note an accepted request leaves.
Written(n, op, rows) ==
    LET places == {r.at : r \in rows}
    IN  CASE op.name = "hide" -> [n EXCEPT !.hidden = TRUE]
          [] op.name = "purge" -> [n EXCEPT !.lines = Without(n, places)]
          [] op.name = "add" -> [n EXCEPT !.lines = Append(@, NewLine(op.new))]
          [] Recurs(n, op, rows) -> [n EXCEPT !.lines = Recurred(n, op, CHOOSE i \in places : TRUE)]
          [] OTHER ->
                [n EXCEPT !.lines = [i \in DOMAIN @ |-> IF i \in places THEN Rewritten(@[i], op) ELSE @[i]]]

\* Variant: the items of a batch that still match are applied, the others skipped.
AttemptSkips(n, op, rows) ==
    LET good == {r \in rows : Accepts(n, op, r)}
    IN  IF op.name # "add" /\ good = {} THEN {} ELSE {Written(n, op, good)}

\* What a request writes, or {} when it is refused: one item that no longer
\* matches refuses the batch.
Attempt(n, op, rows) ==
    IF \A r \in rows : Accepts(n, op, r) THEN {Written(n, op, rows)} ELSE {}

(***************************************************************************)
(* The clients.  A command is a list of operations on the rows it was      *)
(* given for ("asked").  row is what the next request is sent with; again  *)
(* tells that the operation was refused once and looked up again.          *)
(***************************************************************************)
Idle(shows) == [phase |-> "idle", rows |-> shows, asked |-> {}, row |-> {}, todo |-> <<>>, again |-> FALSE]

Op(name, new) == [name |-> name, new |-> new]

Triages == {[name |-> a, due |-> NoDate] : a \in {"backlog", "reference", "cancel"}}
               \cup {[name |-> "due", due |-> d] : d \in Dates \ {NoDate}}

\* What a terminal offers for a row.
TerminalCommands(r) ==
    LET due == {Op("due", d) : d \in Dates \ {r.due}}
        rule == {Op("recurrence", u) : u \in (Rules \cup {NoRule}) \ {r.rule}}
        other == {Op("toggle", r.status # "done"), Op("hide", TRUE),
                  Op(IF r.status = "cancelled" THEN "purge" ELSE "cancel", TRUE)}
    IN  {<<op>> : op \in due \cup rule \cup other} \cup (due \X rule)

\* What a page offers for a row.
RowCommands(r) ==
    {<<Op("toggle", r.status # "done")>>}
        \cup {<<Op("due", d)>> : d \in Dates \ {r.due}}
        \cup {<<Op("priority", p)>> : p \in Priorities \ {r.priority}}

\* What a page offers for rows selected together: buttons of their status, and the
\* triage of open tasks without a date.
BatchCommands(rows) ==
    (IF \A r \in rows : r.status = "open" THEN {<<Op("cancel", TRUE)>>} ELSE {})
        \cup (IF \A r \in rows : r.status = "cancelled" THEN {<<Op("purge", TRUE)>>} ELSE {})
        \cup (IF \A r \in rows : r.status = "open" /\ r.due = NoDate
              THEN {<<Op("triage", a)>> : a \in Triages} ELSE {})

\* An agent may complete or reopen any task it listed.
AgentCommands(r) == {<<Op("toggle", done)>> : done \in BOOLEAN}

Asking(c, rows, todo) ==
    /\ \A i \in DOMAIN todo : todo[i].name \in session.ops
    /\ client' = [client EXCEPT ![c] =
                     [@ EXCEPT !.phase = "sent", !.asked = rows, !.row = rows, !.todo = todo]]
    /\ asks' = asks + 1
    /\ UNCHANGED <<note, indexed, nextId, edits, faults, session>>

Ask(c) ==
    /\ client[c].phase = "idle" /\ asks < session.asks
    /\ \/ \E text \in Texts : Asking(c, {}, <<Op("add", text)>>)
       \/ c \in Terminals /\ \E r \in client[c].rows : \E todo \in TerminalCommands(r) :
              Asking(c, {r}, todo)
       \/ c \notin Terminals /\ \E r \in client[c].rows :
              \E todo \in RowCommands(r) \cup AgentCommands(r) : Asking(c, {r}, todo)
       \/ c \notin Terminals /\ \E rows \in SUBSET client[c].rows :
              /\ Cardinality(rows) \in 1..MaxBatch
              /\ \E todo \in BatchCommands(rows) : Asking(c, rows, todo)

\* The listing after a success that moved lines.
Load(c) ==
    /\ client[c].phase = "loading"
    /\ client' = [client EXCEPT ![c] = Idle(Listing(indexed))]
    /\ UNCHANGED <<note, indexed, nextId, asks, edits, faults, session>>

\* Bound: nothing is explored once every command has ended.
Busy == asks < session.asks \/ \E c \in Clients : client[c].phase # "idle"

\* Any client may list again before it asks.
Refresh(c) ==
    /\ client[c].phase = "idle" /\ client[c].rows # Listing(indexed) /\ Busy
    /\ client' = [client EXCEPT ![c] = Idle(Listing(indexed))]
    /\ UNCHANGED <<note, indexed, nextId, asks, edits, faults, session>>

\* What a success shows: rows of the same text changed in place, or a new listing.
Shown(c, op, recurred) ==
    LET state == client[c]
        same(r) == \E a \in state.asked : a.text = r.text
        mark(status) == {IF same(r) THEN [r EXCEPT !.status = status] ELSE r : r \in state.rows}
    IN  CASE c \in Terminals /\ op.name = "toggle" /\ ~recurred ->
                Idle(mark(IF op.new THEN "done" ELSE "open"))
          [] c \in Terminals /\ op.name = "cancel" -> Idle(mark("cancelled"))
          [] OTHER -> [Idle(state.rows) EXCEPT !.phase = "loading"]

Answered(c, recurred) ==
    LET state == client[c]
    IN  IF Len(state.todo) > 1
        THEN [state EXCEPT !.phase = "finding", !.todo = Tail(@), !.again = FALSE]
        ELSE Shown(c, Head(state.todo), recurred)

Repeats == {"toggle", "cancel", "purge", "due", "recurrence"}

\* Variant: a refusal that is given up keeps the command.
RefusedKeeps(c) ==
    LET state == client[c]
    IN  IF c \in Terminals /\ Head(state.todo).name \in Repeats /\ ~state.again
        THEN [state EXCEPT !.phase = "finding", !.again = TRUE] ELSE [state EXCEPT !.phase = "idle"]

\* Variant: a refusal is always looked up again.
RefusedAgain(c) ==
    LET state == client[c]
    IN  IF c \in Terminals /\ Head(state.todo).name \in Repeats
        THEN [state EXCEPT !.phase = "finding", !.again = TRUE] ELSE Idle(state.rows)

\* A refusal (409) is looked up once more by a terminal.
Refused(c) ==
    LET state == client[c]
    IN  IF c \in Terminals /\ Head(state.todo).name \in Repeats /\ ~state.again
        THEN [state EXCEPT !.phase = "finding", !.again = TRUE] ELSE Idle(state.rows)

(***************************************************************************)
(* Serving a request.  When the reindex fails after the write, the answer  *)
(* is a refusal all the same; only an addition answers with 500.           *)
(***************************************************************************)
Serve(c) ==
    LET state == client[c]
        op == Head(state.todo)
    IN  /\ state.phase = "sent"
        /\ \/ /\ Attempt(note, op, state.row) = {}
              /\ client' = [client EXCEPT ![c] = Refused(c)]
              /\ UNCHANGED <<note, indexed, nextId, faults>>
           \/ \E n \in Attempt(note, op, state.row) :
              /\ note' = n
              /\ nextId' = IF op.name = "add" \/ Recurs(note, op, state.row) THEN nextId + 1 ELSE nextId
              /\ \/ /\ indexed' = n
                    /\ client' = [client EXCEPT ![c] = Answered(c, Recurs(note, op, state.row))]
                    /\ UNCHANGED faults
                 \/ /\ faults < session.faults
                    /\ client' = [client EXCEPT ![c] = IF op.name = "add" THEN Idle(state.rows) ELSE Refused(c)]
                    /\ faults' = faults + 1
                    /\ UNCHANGED indexed
        /\ UNCHANGED <<asks, edits, session>>

\* The answer is lost on the way: the client reports an error and changes nothing.
Lose(c) ==
    /\ client[c].phase = "sent" /\ faults < session.faults
    /\ \E n \in Attempt(note, Head(client[c].todo), client[c].row) :
          /\ note' = n /\ indexed' = n
    /\ nextId' = nextId + 1
    /\ client' = [client EXCEPT ![c] = Idle(@.rows)]
    /\ faults' = faults + 1
    /\ UNCHANGED <<asks, edits, session>>

\* A terminal lists the tasks again and takes the first of the same text: for a
\* toggle the one in the status it wants, else the one in the status it showed.
Find(c) ==
    LET state == client[c]
        op == Head(state.todo)
        status(r) == IF op.name = "toggle" THEN IF op.new THEN "open" ELSE "done" ELSE r.status
        hit == UNION {Found(Listing(indexed), r.text, status(r)) : r \in state.asked}
    IN  /\ state.phase = "finding"
        /\ client' = [client EXCEPT ![c] =
                         IF hit = {} THEN Idle(state.rows) ELSE [state EXCEPT !.phase = "sent", !.row = hit]]
        /\ UNCHANGED <<note, indexed, nextId, asks, edits, faults, session>>

(***************************************************************************)
(* The vault beyond the requests: an editor puts a line above the others,  *)
(* removes the first, or checks it; the server rescans.                    *)
(***************************************************************************)
Edited(lines) ==
    {<<l>> \o lines : l \in [id : {nextId}, box : {"plain", " "}, text : Texts, meta : {<<>>}]}
        \cup (IF lines = <<>> THEN {} ELSE {Tail(lines)} \cup
                  (IF IsTask(lines[1]) THEN {[lines EXCEPT ![1] = Completed(@)]} ELSE {}))

Edit ==
    /\ edits < session.edits /\ Busy
    /\ \E lines \in Edited(note.lines) : note' = [note EXCEPT !.lines = lines]
    /\ nextId' = nextId + 1
    /\ edits' = edits + 1
    /\ UNCHANGED <<indexed, client, asks, faults, session>>

Rescan ==
    /\ indexed # note
    /\ indexed' = note
    /\ UNCHANGED <<note, client, nextId, asks, edits, faults, session>>

Init ==
    /\ note = [hidden |-> FALSE, lines |-> FirstLines]
    /\ indexed = note
    /\ client = [c \in Clients |-> Idle(Listing(note))]
    /\ nextId = Len(FirstLines) + 1
    /\ asks = 0 /\ edits = 0 /\ faults = 0
    /\ session \in Sessions

Next ==
    \/ \E c \in Clients : Ask(c) \/ Refresh(c) \/ Load(c) \/ Serve(c) \/ Lose(c) \/ Find(c)
    \/ Edit
    \/ Rescan

\* The server answers and the clients go on; the rescan is not relied on.
Fairness == \A c \in Clients : WF_vars(Serve(c)) /\ WF_vars(Find(c)) /\ WF_vars(Load(c))

Spec == Init /\ [][Next]_vars /\ Fairness

(***************************************************************************)
(* Properties.                                                             *)
(***************************************************************************)
\* Lines keep their numbers apart, and a client that waits has a request to wait for.
TypeOK ==
    /\ \A n \in {note, indexed} :
          /\ n \in Note /\ \A i \in DOMAIN n.lines : n.lines[i].id \in 1..(nextId - 1)
          /\ \A i, j \in DOMAIN n.lines : n.lines[i].id = n.lines[j].id => i = j
    /\ \A c \in Clients :
          /\ client[c].phase \in {"idle", "sent", "finding", "loading"}
          /\ (client[c].todo # <<>>) <=> client[c].phase \in {"sent", "finding"}
          /\ client[c].again => c \in Terminals
    /\ session \in Sessions
    /\ asks \in 0..session.asks /\ edits \in 0..session.edits /\ faults \in 0..session.faults

\* The requests answered, or lost, by this step.
ServedTo(c) == client[c].phase = "sent" /\ client'[c] # client[c]

Lines(lines) == {lines[i] : i \in DOMAIN lines}

\* What a request must do to the note, whenever it is served.
Precedes(lines, l, m) == \E i, j \in DOMAIN lines : i < j /\ lines[i] = l /\ lines[j] = m

ChangesOnlyAsked(c) ==
    LET kept == Lines(note.lines) \cap Lines(note'.lines)
    IN  /\ \A l \in Lines(note.lines) \ kept : \E r \in client[c].asked : r.text = Text(l)
        /\ \A l, m \in kept : Precedes(note.lines, l, m) => Precedes(note'.lines, l, m)
        /\ \A l \in Lines(note'.lines) : l.id >= nextId => l.id = nextId /\ Status(l) = "open"

RemovesOnlyShown(c) ==
    \A l \in Lines(note.lines) :
        (\A m \in Lines(note'.lines) : m.id # l.id) =>
            /\ Status(l) = "cancelled"
            /\ \E r \in client[c].asked : r.status = "cancelled" /\ r.text = Text(l)

\* A task that is in the backlog already is left as it is.
RewritesAll(c) ==
    LET op == Head(client[c].todo)
        inBacklog(l) == op.name = "triage" /\ op.new.name = "backlog" /\ Places(l, "tag") # {}
    IN  note'.lines # note.lines /\ op.name \in {"cancel", "purge", "triage"} =>
            \A r \in client[c].row :
               /\ r.at \in DOMAIN note.lines
               /\ At(note, r) \in Lines(note'.lines) => inBacklog(At(note, r))

(***************************************************************************)
(* A text is a task's identity (findTask): whatever other clients, an      *)
(* editor and failures do between the listing and the write, a request     *)
(* changes and removes only tasks of a text it was given for, adds at most *)
(* one open line, and leaves every other line as it was, in its place.     *)
(***************************************************************************)
OnlyAskedTextChanges == [][\A c \in Clients : ServedTo(c) => ChangesOnlyAsked(c)]_vars

(***************************************************************************)
(* Deletion takes two steps (purge.go:13-15): a line leaves the note only  *)
(* by a request of a client that was shown it cancelled, and it is         *)
(* cancelled then.                                                         *)
(***************************************************************************)
OnlyShownCancelledGoes == [][\A c \in Clients : ServedTo(c) => RemovesOnlyShown(c)]_vars

(***************************************************************************)
(* A batch is applied whole or not at all (cancel.go:19-21,                *)
(* triage.go:112-113): every task the request names is rewritten, or none. *)
(***************************************************************************)
BatchIsWhole == [][\A c \in Clients : ServedTo(c) => RewritesAll(c)]_vars

(***************************************************************************)
(* Completing and reopening never ends a recurring task (toggle.go:10-14): *)
(* while a text has an open line with a date and a rule that can be read,  *)
(* no toggle leaves it without one.                                        *)
(***************************************************************************)
GoesOn(n, text) ==
    \E l \in Lines(n.lines) :
        /\ IsTask(l) /\ Status(l) = "open" /\ Text(l) = text
        /\ BaseDate(l) # NoDate /\ Recurrence(l) \notin {NoRule, Unread}

SeriesGoesOn ==
    [][\A c \in Clients : (ServedTo(c) /\ Head(client[c].todo).name = "toggle") =>
          \A r \in client[c].asked : GoesOn(note, r.text) => GoesOn(note', r.text)]_vars

(***************************************************************************)
(* "On a stale-version conflict it re-finds the task" (tui/tasks.go:73-75): *)
(* a request for one row changes that task and no other.                   *)
(***************************************************************************)
RetryFindsTheTask ==
    [][\A c \in Terminals : ServedTo(c) =>
          \A l \in Lines(note.lines) \ Lines(note'.lines) : l.id \in {r.id : r \in client[c].asked}]_vars

(***************************************************************************)
(* A command ends: a refusal is looked up once, even if the index never    *)
(* catches up with the file.                                               *)
(***************************************************************************)
CommandsEnd == \A c \in Clients : client[c].phase # "idle" ~> client[c].phase = "idle"

=============================================================================
