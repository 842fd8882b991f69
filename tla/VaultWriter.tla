----------------------------- MODULE VaultWriter -----------------------------
(***************************************************************************)
(* The writers of one note of the vault (internal/tasks/file.go) and the   *)
(* move of a task from the note to a board (internal/tasks/move.go and     *)
(* internal/server/taskboard.go), against an editor that takes no lock and *)
(* a plugin that appends to the note in place (internal/share/share.go).   *)
(*                                                                         *)
(* A writer holds the vault lock throughout.  It replaces the note by      *)
(* exchanging it with a prepared temporary file and looks at what it has   *)
(* displaced; when that is not what it read, it exchanges the two again.   *)
(*                                                                         *)
(* The note has one task.  A version of it is abstracted to what became of *)
(* the task's line and the set of the edits it has in it, each known by    *)
(* its origin, so that versions are equal when their hashes are.  The      *)
(* editor saves by replacing the file; a process may die, the machine does *)
(* not.  The board is locked throughout a move: its card is nobody else's. *)
(***************************************************************************)
EXTENDS Naturals

CONSTANTS
  Procs,       \* writers: threads of the servers that share the vault
  None,        \* no file, no lock
  MaxOps,      \* bound: requests
  MaxSaves,    \* bound: versions the editor saves
  MaxAppends,  \* bound: plugin results appended
  MaxFaults,   \* bound: failing calls (a failing reindex is not counted)
  MaxCrashes   \* bound: writers that die

ASSUME VaultAssumption ==
  /\ None \notin Procs
  /\ (Procs \cup {None}) \cap {"note", "archive", "preserved", "removed"} = {}
  /\ MaxOps \in Nat /\ MaxSaves \in Nat /\ MaxAppends \in Nat
  /\ MaxFaults \in Nat /\ MaxCrashes \in Nat

VARIABLES
  file,       \* file["note"], file["archive"], file[p]: p's temporary file
  preserved,  \* versions left for good under temporary names
  cards,      \* cards on the board: the request that made it, the version it read
  lock,       \* the writer that holds the vault lock
  pc, job,
  shown,      \* shown[p]: the version the client of p has on its screen
  buffer,     \* the version the editor has open
  fd,         \* the file the plugin's result is about to be appended to
  saved,      \* edits the editor saved and edits acknowledged to a client
  appended,   \* edits a plugin's result made
  overwritten,\* edits that their own author's successor replaced
  dropped,    \* has the editor, or an overwrite, taken the task away?
  abandoned,  \* requests whose writer died
  ops, saves, appends, faults, crashes

files   == <<file, preserved, fd>>
editor  == <<buffer, saves>>
plugin  == <<appended, appends>>
ghosts  == <<saved, overwritten, dropped, abandoned>>
bounds  == <<ops, faults, crashes>>
vars    == <<files, cards, lock, pc, job, shown, editor, plugin, ghosts, bounds>>

-----------------------------------------------------------------------------

Places == {"note", "archive"} \cup Procs

Edits == {"op", "save", "append"} \X Nat

Version == [line : {"open", "reference", "none"}, card : Nat, edits : SUBSET Edits]

Kinds == {"edit", "move", "dispose", "write"}

Card == [op : Nat, from : Version]

\* "step" is which of its replacements of the note a task move is at.
Job ==
  [kind : Kinds, op : Nat, seen : Version \cup {None}, src : Version \cup {None},
   updated : Version, step : {"commit", "restore", "reapply"}]

Replacing == {"temp", "exchange", "inspect", "unlink", "back", "inspectBack", "unlinkBack",
              "current"}

Stages == Replacing \cup
  {"idle", "waiting", "card", "uncreate", "reindex", "publish", "dispose", "verify",
   "undispose", "ok", "error"}

\* The null value is no version of a note and no request.
ASSUME NoneIsNoRecord == None \notin Version \cup Job

TypeOK ==
  /\ file \in [Places -> Version \cup {None}]
  /\ preserved \subseteq Version
  /\ cards \subseteq Card
  /\ lock \in Procs \cup {None}
  /\ pc \in [Procs -> Stages]
  /\ job \in [Procs -> Job \cup {None}]
  /\ shown \in [Procs -> Version \cup {None}]
  /\ buffer \in Version \cup {None}
  /\ fd \in Places \cup {"preserved", "removed", None}
  /\ saved \subseteq Edits /\ appended \subseteq Edits /\ overwritten \subseteq Edits
  /\ dropped \in BOOLEAN
  /\ abandoned \subseteq Nat
  /\ ops \in Nat /\ saves \in Nat /\ appends \in Nat /\ faults \in Nat /\ crashes \in Nat

Original == [line |-> "open", card |-> 0, edits |-> {}]

Init ==
  /\ file = [f \in Places |-> IF f = "note" THEN Original ELSE None]
  /\ preserved = {} /\ cards = {}
  /\ lock = None
  /\ pc = [p \in Procs |-> "idle"]
  /\ job = [p \in Procs |-> None]
  /\ shown = [p \in Procs |-> None]
  /\ buffer = None /\ fd = None
  /\ saved = {} /\ appended = {} /\ overwritten = {}
  /\ dropped = FALSE
  /\ abandoned = {}
  /\ ops = 0 /\ saves = 0 /\ appends = 0 /\ faults = 0 /\ crashes = 0

-----------------------------------------------------------------------------
(* Calls and their outcomes.  "late" is a board write that took effect and *)
(* reported an error.                                                      *)

Fault == faults < MaxFaults /\ faults' = faults + 1

Io(o) == IF o = "ok" THEN UNCHANGED faults ELSE Fault

Goto(p, stage) == pc' = [pc EXCEPT ![p] = stage]

Quiet == UNCHANGED <<lock, shown, editor, plugin, abandoned, ops, crashes>>

NoFiles == UNCHANGED <<files, overwritten, dropped>>

\* The plugin's open file goes where the file of that name goes.
Follow(from, to) == fd' = IF fd = from THEN to ELSE fd

Edit(v, origin, n) == [v EXCEPT !.edits = @ \cup {<<origin, n>>}]

-----------------------------------------------------------------------------
(* A client's request, with the version of the note it was shown, now or   *)
(* for an earlier request; None when the operation takes no version.       *)

Request(p, kind) ==
  /\ pc[p] = "idle"
  /\ ops < MaxOps
  /\ \E seen \in {file["note"], shown[p], None} :
       /\ kind \in {"move", "dispose"} => seen # None
       /\ kind = "write" => seen = None
       /\ job' = [job EXCEPT ![p] = [kind |-> kind, op |-> ops + 1, seen |-> seen, src |-> None,
                                     updated |-> Original, step |-> "commit"]]
       /\ shown' = [shown EXCEPT ![p] = seen]
  /\ ops' = ops + 1
  /\ Goto(p, "waiting")
  /\ UNCHANGED <<files, cards, lock, editor, plugin, ghosts, faults, crashes>>

\* What the request makes of the version it reads.
Rewritten(j, src) ==
  CASE j.kind = "edit"  -> Edit(src, "op", j.op)
    [] j.kind = "move"  -> [src EXCEPT !.line = "reference", !.card = j.op]
    [] j.kind = "write" -> [line |-> "none", card |-> 0, edits |-> {<<"op", j.op>>}]
    [] OTHER -> src

Accepted(j, src) ==
  /\ src # None \/ j.kind = "write"
  /\ j.seen # None => src = j.seen
  /\ j.kind = "move" => src.line = "open"

FirstStage(j, src) ==
  CASE j.kind = "move" -> "card"
    [] j.kind = "dispose" -> "dispose"
    [] OTHER -> "temp"

\* The lock is taken, the note read and checked, its new version computed.
Begin(p) ==
  LET j == job[p]  src == file["note"]
  IN  /\ pc[p] = "waiting"
      /\ lock = None
      /\ Accepted(j, src)
      /\ lock' = p
      /\ job' = [job EXCEPT ![p].src = src, ![p].updated = Rewritten(j, src)]
      /\ Goto(p, FirstStage(j, src))
      /\ UNCHANGED <<files, cards, shown, editor, plugin, ghosts, bounds>>

\* The note has changed, is gone, has no such task, or is not to be overwritten.
Refuse(p) ==
  /\ pc[p] = "waiting"
  /\ lock = None
  /\ ~Accepted(job[p], file["note"]) \/ (job[p].kind = "write" /\ file["note"] # None)
  /\ Goto(p, "error")
  /\ UNCHANGED <<files, cards, lock, job, shown, editor, plugin, ghosts, bounds>>

Release(p) == lock' = IF lock = p THEN None ELSE lock

Return(p) ==
  /\ pc[p] \in {"ok", "error"}
  /\ Release(p)
  /\ saved' = IF pc[p] = "ok" /\ job[p].kind \in {"edit", "write"}
              THEN saved \cup {<<"op", job[p].op>>} ELSE saved
  /\ job' = [job EXCEPT ![p] = None]
  /\ Goto(p, "idle")
  /\ UNCHANGED <<files, cards, shown, editor, plugin, overwritten, dropped, abandoned, bounds>>

\* Variant: the writer is taken to have a temporary file whether it has or not.
LeaveAnyway(p) ==
  /\ file' = [file EXCEPT ![p] = None]
  /\ preserved' = preserved \cup {file[p]}
  /\ Follow(p, "preserved")

\* What a writer that leaves its temporary file where it is leaves behind.
Leave(p) ==
  /\ file' = [file EXCEPT ![p] = None]
  /\ preserved' = IF file[p] = None THEN preserved ELSE preserved \cup {file[p]}
  /\ Follow(p, "preserved")

Crash(p) ==
  /\ lock = p
  /\ crashes < MaxCrashes
  /\ crashes' = crashes + 1
  /\ lock' = None
  /\ Leave(p)
  /\ abandoned' = abandoned \cup {job[p].op}
  /\ job' = [job EXCEPT ![p] = None]
  /\ Goto(p, "idle")
  /\ UNCHANGED <<cards, shown, editor, plugin, saved, overwritten, dropped, ops, faults>>

-----------------------------------------------------------------------------
(* The exchange of files.                                                  *)

\* Restoring the source exchanges the two versions' parts.
Expected(j) == IF j.step = "restore" THEN j.updated ELSE j.src

Prepared(j) == IF j.step = "restore" THEN j.src ELSE j.updated

\* Variant: the card is deleted although the source was not restored.
ContinueRegardless(j, installed, clean) ==
  CASE j.step = "commit" /\ clean -> "reindex"
    [] j.step = "commit" /\ ~clean /\ j.kind = "move" /\ ~installed -> "uncreate"
    [] j.step = "restore" -> "uncreate"
    [] OTHER -> "error"

\* Where a replacement leads that has, or has not, installed its version.
Continue(j, installed, clean) ==
  CASE j.step = "commit" /\ clean -> "reindex"
    [] j.step = "commit" /\ ~clean /\ j.kind = "move" /\ ~installed -> "uncreate"
    [] j.step = "restore" /\ installed -> "uncreate"
    [] OTHER -> "error"

Remove(p) ==
  /\ file' = [file EXCEPT ![p] = None]
  /\ Follow(p, "removed")
  /\ UNCHANGED preserved

Swap(p) ==
  /\ file' = [file EXCEPT !["note"] = file[p], ![p] = file["note"]]
  /\ fd' = CASE fd = "note" -> p [] fd = p -> "note" [] OTHER -> fd
  /\ UNCHANGED preserved

CreateTemp(p, o) ==
  LET j == job[p]
  IN  /\ pc[p] = "temp"
      /\ Io(o)
      /\ IF o = "ok" THEN /\ file' = [file EXCEPT ![p] = Prepared(j)]
                          /\ Goto(p, IF j.src = None THEN "publish" ELSE "exchange")
                     ELSE UNCHANGED file /\ Goto(p, Continue(j, FALSE, FALSE))
      /\ UNCHANGED <<preserved, fd, cards, job, saved, overwritten, dropped>> /\ Quiet

Exchange(p, o) ==
  /\ pc[p] = "exchange"
  /\ Io(o)
  /\ IF o = "ok" THEN Swap(p) /\ Goto(p, "inspect")
                 ELSE Remove(p) /\ Goto(p, Continue(job[p], FALSE, FALSE))
  /\ UNCHANGED <<cards, job, saved, overwritten, dropped>> /\ Quiet

Inspect(p, o) ==
  /\ pc[p] = "inspect"
  /\ Io(o)
  /\ Goto(p, IF o = "ok" /\ file[p] = Expected(job[p]) THEN "unlink" ELSE "back")
  /\ NoFiles /\ UNCHANGED <<cards, job, saved>> /\ Quiet

\* An overwrite takes away what the version it read had.
Supersede(j) ==
  /\ overwritten' = IF j.kind = "write" THEN overwritten \cup j.src.edits ELSE overwritten
  /\ dropped' = (dropped \/ (j.kind = "write" /\ j.src.line # "none"))

\* A failing unlink is tried again as the function returns.
Unlink(p, o) ==
  /\ pc[p] = "unlink"
  /\ Io(o)
  /\ \/ Remove(p) \/ (o = "fail" /\ Leave(p))
  /\ Supersede(job[p])
  /\ Goto(p, Continue(job[p], TRUE, o = "ok"))
  /\ UNCHANGED <<cards, job, saved>> /\ Quiet

ExchangeBack(p, o) ==
  /\ pc[p] = "back"
  /\ Io(o)
  /\ IF o = "ok" THEN Swap(p) /\ Goto(p, "inspectBack")
                 ELSE Leave(p) /\ Goto(p, "current")
  /\ UNCHANGED <<cards, job, saved, overwritten, dropped>> /\ Quiet

\* Variant: the version displaced by the second exchange is removed unseen.
InspectBackNothing(p, o) ==
  /\ pc[p] = "inspectBack"
  /\ Io(o)
  /\ Goto(p, "unlinkBack")
  /\ UNCHANGED <<files, cards, job, saved, overwritten, dropped>> /\ Quiet

InspectBack(p, o) ==
  /\ pc[p] = "inspectBack"
  /\ Io(o)
  /\ IF o = "ok" /\ file[p] = Prepared(job[p])
     THEN UNCHANGED files /\ Goto(p, "unlinkBack")
     ELSE Leave(p) /\ Goto(p, "current")
  /\ UNCHANGED <<cards, job, saved, overwritten, dropped>> /\ Quiet

UnlinkBack(p, o) ==
  /\ pc[p] = "unlinkBack"
  /\ Io(o)
  /\ IF o = "ok" THEN Remove(p) /\ Goto(p, Continue(job[p], FALSE, FALSE))
                 ELSE Leave(p) /\ Goto(p, "current")
  /\ UNCHANGED <<cards, job, saved, overwritten, dropped>> /\ Quiet

\* After a rollback that failed: is the prepared version installed after all?
Current(p, o) ==
  /\ pc[p] = "current"
  /\ Io(o)
  /\ Goto(p, Continue(job[p], o = "ok" /\ file["note"] = Prepared(job[p]), FALSE))
  /\ NoFiles /\ UNCHANGED <<cards, job, saved>> /\ Quiet

-----------------------------------------------------------------------------
(* The move of a task: the card first, then the note, then the index.      *)

CardOf(j) == [op |-> j.op, from |-> j.src]

CreateCard(p, o) ==
  /\ pc[p] = "card"
  /\ Io(o)
  /\ IF o = "fail" THEN UNCHANGED cards /\ Goto(p, "error")
                   ELSE cards' = cards \cup {CardOf(job[p])} /\ Goto(p, "temp")
  /\ NoFiles /\ UNCHANGED <<job, saved>> /\ Quiet

\* The reindex may fail for reasons of its own.
Reindex(p) ==
  /\ pc[p] = "reindex"
  /\ \/ Goto(p, "ok") /\ UNCHANGED job
     \/ /\ job[p].kind = "move"
        /\ job' = [job EXCEPT ![p].step = "restore"]
        /\ Goto(p, "temp")
     \/ job[p].kind # "move" /\ Goto(p, "error") /\ UNCHANGED job
  /\ NoFiles /\ UNCHANGED <<cards, saved, faults>> /\ Quiet

\* Variant: a card that cannot be deleted is left behind.
DeleteCardOnce(p, o) ==
  /\ pc[p] = "uncreate"
  /\ Io(o)
  /\ cards' = IF o = "fail" THEN cards ELSE cards \ {CardOf(job[p])}
  /\ Goto(p, "error")
  /\ NoFiles /\ UNCHANGED <<job, saved>> /\ Quiet

\* The card's rollback; when the card stays, so must its reference.
DeleteCard(p, o) ==
  /\ pc[p] = "uncreate"
  /\ Io(o)
  /\ cards' = IF o = "fail" THEN cards ELSE cards \ {CardOf(job[p])}
  /\ IF o = "fail" /\ job[p].step = "restore"
     THEN job' = [job EXCEPT ![p].step = "reapply"] /\ Goto(p, "temp")
     ELSE UNCHANGED job /\ Goto(p, "error")
  /\ NoFiles /\ UNCHANGED saved /\ Quiet

-----------------------------------------------------------------------------
(* A new note, and a note moved to the archive: neither replaces anything. *)

Publish(p, o) ==
  /\ pc[p] = "publish"
  /\ Io(o)
  /\ IF o = "ok" /\ file["note"] = None
     THEN /\ file' = [file EXCEPT !["note"] = file[p], ![p] = None]
          /\ Follow(p, "note") /\ UNCHANGED preserved
          /\ Goto(p, "reindex")
     ELSE Remove(p) /\ Goto(p, "error")
  /\ UNCHANGED <<cards, job, saved, overwritten, dropped>> /\ Quiet

RenameTo(from, to) ==
  /\ file' = [file EXCEPT ![from] = None, ![to] = file[from]]
  /\ Follow(from, to)
  /\ UNCHANGED preserved

Dispose(p, o) ==
  /\ pc[p] = "dispose"
  /\ Io(o)
  /\ IF o = "ok" /\ file["archive"] = None
     THEN RenameTo("note", "archive") /\ Goto(p, "verify")
     ELSE UNCHANGED files /\ Goto(p, "error")
  /\ UNCHANGED <<cards, job, saved, overwritten, dropped>> /\ Quiet

Verify(p, o) ==
  /\ pc[p] = "verify"
  /\ Io(o)
  /\ Goto(p, IF o = "ok" /\ file["archive"] = job[p].seen THEN "reindex" ELSE "undispose")
  /\ NoFiles /\ UNCHANGED <<cards, job, saved>> /\ Quiet

\* Variant: the way back replaces what the editor has saved in the meantime.
UndisposeOver(p, o) ==
  /\ pc[p] = "undispose"
  /\ Io(o)
  /\ IF o = "ok" THEN RenameTo("archive", "note") ELSE UNCHANGED files
  /\ Goto(p, "error")
  /\ UNCHANGED <<cards, job, saved, overwritten, dropped>> /\ Quiet

Undispose(p, o) ==
  /\ pc[p] = "undispose"
  /\ Io(o)
  /\ IF o = "ok" /\ file["note"] = None
     THEN RenameTo("archive", "note") ELSE UNCHANGED files
  /\ Goto(p, "error")
  /\ UNCHANGED <<cards, job, saved, overwritten, dropped>> /\ Quiet

-----------------------------------------------------------------------------
(* Those who take no lock.                                                 *)

EditorOpens ==
  /\ saves < MaxSaves
  /\ file["note"] # None
  /\ buffer' = file["note"]
  /\ UNCHANGED <<files, cards, lock, pc, job, shown, saves, plugin, ghosts, bounds>>

SameTask(v, w) == v.line = w.line /\ v.card = w.card

\* What the editor replaces without having seen it is the editor's doing.
EditorSaves ==
  LET old == file["note"]
      new == Edit(buffer, "save", saves + 1)
  IN  /\ saves < MaxSaves
      /\ buffer # None
      /\ saves' = saves + 1
      /\ file' = [file EXCEPT !["note"] = new]
      /\ buffer' = new
      /\ saved' = saved \cup {<<"save", saves + 1>>}
      /\ overwritten' = IF old = None THEN overwritten ELSE overwritten \cup (old.edits \ new.edits)
      /\ dropped' = (dropped \/ (old # None /\ new.line # "open" /\ ~SameTask(old, new)))
      /\ Follow("note", "removed")
      /\ UNCHANGED <<preserved, cards, lock, pc, job, shown, plugin, abandoned, bounds>>

AppendOpens ==
  /\ appends < MaxAppends
  /\ fd = None
  /\ file["note"] # None
  /\ fd' = "note"
  /\ UNCHANGED <<file, preserved, cards, lock, pc, job, shown, editor, plugin, ghosts, bounds>>

\* A file that has been removed takes the result with it.
AppendWrites ==
  /\ appends < MaxAppends
  /\ appends' = appends + 1
  /\ fd # None
  /\ file' = IF fd \in Places
             THEN [file EXCEPT ![fd] = Edit(@, "append", appends + 1)] ELSE file
  /\ preserved' = IF fd = "preserved"
                  THEN preserved \cup {Edit(v, "append", appends + 1) : v \in preserved}
                  ELSE preserved
  /\ fd' = None
  /\ appended' = appended \cup {<<"append", appends + 1>>}
  /\ UNCHANGED <<cards, lock, pc, job, shown, editor, ghosts, bounds>>

-----------------------------------------------------------------------------

Outcomes == {"ok", "fail"}

Step(p) ==
  \/ Begin(p) \/ Refuse(p) \/ Return(p) \/ Reindex(p)
  \/ \E o \in Outcomes :
       \/ CreateTemp(p, o) \/ Exchange(p, o) \/ Inspect(p, o) \/ Unlink(p, o)
       \/ ExchangeBack(p, o) \/ InspectBack(p, o) \/ UnlinkBack(p, o) \/ Current(p, o)
       \/ Publish(p, o) \/ Dispose(p, o) \/ Verify(p, o) \/ Undispose(p, o)
  \/ \E o \in Outcomes \cup {"late"} : CreateCard(p, o) \/ DeleteCard(p, o)

\* Nobody asks for anything.
Rest == (\A p \in Procs : pc[p] = "idle") /\ UNCHANGED vars

Next ==
  \/ \E p \in Procs : (\E kind \in Kinds : Request(p, kind)) \/ Step(p) \/ Crash(p)
  \/ EditorOpens \/ EditorSaves \/ AppendOpens \/ AppendWrites
  \/ Rest

Spec == Init /\ [][Next]_vars

-----------------------------------------------------------------------------

\* Every copy of the note there is, under whatever name.
Copies == {file[f] : f \in {g \in Places : file[g] # None}} \cup preserved

Kept(e) == e \in overwritten \/ \E v \in Copies : e \in v.edits

\* What the editor saved and what a client was told is done is in the note, in
\* the archive, or in a file left under a temporary name, unless the editor or
\* an overwrite replaced it (rollbackTaskExchangeAt: "left at its random
\* temporary name and surfaced to the caller instead of being silently lost").
NothingSavedIsLost == \A e \in saved : Kept(e)

\* The same of the plugins' results ("appending each result to the note").
AppendsKept == \A e \in appended : Kept(e)

\* "a missing source task always retains a card": some copy of the note still
\* has the open task, or a copy refers to a card that is on the board, unless
\* the editor or an overwrite took the task away.
TaskOrCard ==
  \/ dropped
  \/ \E v \in Copies :
       \/ v.line = "open"
       \/ v.line = "reference" /\ \E c \in cards : c.op = v.card

\* A card that a move has left on the board keeps the same request from making
\* a second one: the note is no longer the version the mover was shown.  It
\* takes two failing calls, or the death of the mover, to break this.
Working(c) == \E p \in Procs : job[p] # None /\ job[p].op = c.op

RetryIsRefused ==
  faults <= 1 =>
    \A c \in cards : Working(c) \/ c.op \in abandoned \/ file["note"] # c.from
=============================================================================
