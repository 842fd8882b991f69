----------------------------- MODULE BoardStore -----------------------------
(***************************************************************************)
(* The Kanban board store (internal/kanban/board/store.go) as processes    *)
(* that share one directory tree.  A process takes the file locks of the   *)
(* boards it names, replays the journals a dead or failed process left,    *)
(* and then carries out one operation, one file-system call at a time.     *)
(* Every call may fail, an atomic write may install its file and still     *)
(* report an error, and a process may die between any two calls.           *)
(*                                                                         *)
(* The lock protocol itself is the subject of BoardLocks; here the locks   *)
(* of an operation are taken in one step.  Boards are neither created nor  *)
(* deleted.  A crash kills a process, not the machine: what a call did to  *)
(* the tree stays done.                                                    *)
(***************************************************************************)
EXTENDS BoardContent, LockClosure

CONSTANTS
  Procs,       \* server processes; each serves one store operation at a time
  Seeded,      \* cards already on the boards at the start
  MaxOps,      \* bound: operations begun
  MaxFaults,   \* bound: failing file-system calls
  MaxCrashes,  \* bound: processes that die
  SyncMayFail  \* may the directory sync after a rename report an error?

ASSUME BoundsAssumption ==
  /\ MaxOps \in Nat /\ MaxFaults \in Nat /\ MaxCrashes \in Nat
  /\ SyncMayFail \in BOOLEAN
  /\ Seeded \subseteq Cards

VARIABLES
  file,        \* file[b][k]: the image in board.md or done.md
  wal,         \* wal[b]: the archive journal .done-archive.wal
  moveWal,     \* moveWal[{s, d}]: the cross-board move journal of a pair
  dir,         \* dir[b][c]: the directory attachments/<card>
  bin,         \* bin[b][c]: its quarantine attachments/.deleting-card-<card>
  held,        \* held[p]: the boards whose lock p holds
  want,        \* want[p]: the boards p's operation is about
  pc,          \* pc[p]: the next file-system call of p
  job,         \* job[p]: what p keeps in memory
  issued,      \* card identifiers drawn so far
  issuedAtts,  \* attachment identifiers drawn so far, by card
  acked,       \* acked[c]: the newest revision of c a caller was told of
  doomed,      \* cards some caller asked to delete
  ops, faults, crashes

disk   == <<file, wal, moveWal, dir, bin>>
locks  == <<held, want>>
ghosts == <<issued, issuedAtts, acked, doomed>>
vars   == <<disk, locks, pc, job, ghosts, ops, faults, crashes>>

-----------------------------------------------------------------------------
(* Types.                                                                  *)

Pairs == {pr \in SUBSET Boards : \E s, d \in Boards : s # d /\ pr = {s, d}}

MoveJournal ==
  {move \in
     [state : {"commit", "rollback"}, kind : Kinds, source : Boards, destination : Boards,
      card : Cards, atts : BOOLEAN,
      sourceBefore : Image, sourceAfter : Image,
      destinationBefore : Image, destinationAfter : Image] :
     move.source # move.destination}

Directory == [live : SUBSET Attachments, bin : SUBSET Attachments]

EmptyDir == [live |-> {}, bin |-> {}]

\* "undo" says what an operation that fails puts back: an uploaded file is
\* removed, a quarantined file or directory is renamed back.
Job ==
  [mode : {"recovery", "live", "rollback"}, board : Boards, card : Cards \cup {None},
   att : Attachments \cup {None}, undo : {"nothing", "upload", "file", "directory"},
   after : Content, move : MoveJournal \cup {None}, rev : Nat]

\* None is told apart from everything a variable holds in its place.
ASSUME NoneIsNoRecord == None \notin Job \cup MoveJournal \cup Directory \cup Content

ArchiveStages == {"applyDone", "applyBoard", "removeArchive"}
MoveStages    == {"place", "writeDestination", "writeSource", "removeMove"}
Stages == {"idle", "recover", "quarantine", "upload", "write", "journal", "moveJournal",
           "rollback", "undo", "purge", "ok", "error"} \cup ArchiveStages \cup MoveStages

TypeOK ==
  /\ file \in [Boards -> Content]
  /\ wal \in [Boards -> Content \cup {None}]
  /\ moveWal \in [Pairs -> MoveJournal \cup {None}]
  /\ dir \in [Boards -> [Cards -> Directory \cup {None}]]
  /\ bin \in [Boards -> [Cards -> Directory \cup {None}]]
  /\ held \in [Procs -> SUBSET Boards]
  /\ want \in [Procs -> SUBSET Boards]
  /\ pc \in [Procs -> Stages]
  /\ job \in [Procs -> Job \cup {None}]
  /\ issued \subseteq Cards
  /\ issuedAtts \in [Cards -> SUBSET Attachments]
  /\ acked \in [Cards -> Nat]
  /\ doomed \subseteq Cards
  /\ ops \in Nat /\ faults \in Nat /\ crashes \in Nat

-----------------------------------------------------------------------------
(* At the start the tree is quiet: no journal, no lock, and every card of  *)
(* Seeded on one list with the attachments it carries.                     *)

Init ==
  /\ \E home \in [Seeded -> Boards \X Kinds], carried \in [Seeded -> SUBSET Attachments] :
       LET At(b, k, c) == c \in Seeded /\ home[c] = <<b, k>>
       IN  /\ file = [b \in Boards |-> [k \in Kinds |->
                        [EmptyImage EXCEPT !.cards = [c \in Cards |->
                           IF At(b, k, c) THEN [rev |-> 1, atts |-> carried[c]] ELSE NoCard]]]]
           /\ dir = [b \in Boards |-> [c \in Cards |->
                       IF c \in Seeded /\ home[c][1] = b /\ carried[c] # {}
                       THEN [live |-> carried[c], bin |-> {}] ELSE None]]
           /\ issuedAtts = [c \in Cards |-> IF c \in Seeded THEN carried[c] ELSE {}]
  /\ wal = [b \in Boards |-> None]
  /\ moveWal = [pr \in Pairs |-> None]
  /\ bin = [b \in Boards |-> [c \in Cards |-> None]]
  /\ held = [p \in Procs |-> {}]
  /\ want = [p \in Procs |-> {}]
  /\ pc = [p \in Procs |-> "idle"]
  /\ job = [p \in Procs |-> None]
  /\ issued = Seeded
  /\ acked = [c \in Cards |-> IF c \in Seeded THEN 1 ELSE 0]
  /\ doomed = {}
  /\ ops = 0 /\ faults = 0 /\ crashes = 0

-----------------------------------------------------------------------------
(* File-system calls.  "late" is an atomic write whose rename installed    *)
(* the file and whose directory sync reported an error.                    *)

Outcomes == {"ok", "fail", "late"}

Io(o) ==
  \/ o = "ok" /\ UNCHANGED faults
  \/ /\ o = "fail" \/ (o = "late" /\ SyncMayFail)
     /\ faults < MaxFaults
     /\ faults' = faults + 1

Call(o) == o # "late" /\ Io(o)

Installs(o) == o # "fail"

Goto(p, stage) == pc' = [pc EXCEPT ![p] = stage]

-----------------------------------------------------------------------------
(* Taking and releasing the locks.                                         *)

Pending == {pr \in Pairs : moveWal[pr] # None}

\* Variant: the store's file locks are not taken.
FreeForAll(b) == TRUE

Free(b) == \A q \in Procs : b \notin held[q]

\* Variant: the boards a pending move ties to the names are not locked.
EnterNamesOnly(p, names) ==
  /\ pc[p] = "idle"
  /\ ops < MaxOps
  /\ \A b \in names : Free(b)
  /\ held' = [held EXCEPT ![p] = names]
  /\ want' = [want EXCEPT ![p] = names]
  /\ ops' = ops + 1
  /\ Goto(p, "recover")
  /\ UNCHANGED <<disk, job, ghosts, faults, crashes>>

Enter(p, names) ==
  /\ pc[p] = "idle"
  /\ ops < MaxOps
  /\ \A b \in Closure(names, Pending) : Free(b)
  /\ held' = [held EXCEPT ![p] = Closure(names, Pending)]
  /\ want' = [want EXCEPT ![p] = names]
  /\ ops' = ops + 1
  /\ Goto(p, "recover")
  /\ UNCHANGED <<disk, job, ghosts, faults, crashes>>

Forget(p) ==
  /\ held' = [held EXCEPT ![p] = {}]
  /\ want' = [want EXCEPT ![p] = {}]
  /\ job' = [job EXCEPT ![p] = None]
  /\ Goto(p, "idle")

Larger(m, n) == IF m < n THEN n ELSE m

Return(p) ==
  /\ pc[p] \in {"ok", "error"}
  /\ Forget(p)
  /\ acked' = IF pc[p] = "ok" /\ job[p].card # None
              THEN [acked EXCEPT ![job[p].card] = Larger(@, job[p].rev)]
              ELSE acked
  /\ UNCHANGED <<disk, issued, issuedAtts, doomed, ops, faults, crashes>>

Crash(p) ==
  /\ pc[p] # "idle"
  /\ crashes < MaxCrashes
  /\ crashes' = crashes + 1
  /\ Forget(p)
  /\ UNCHANGED <<disk, ghosts, ops, faults>>

-----------------------------------------------------------------------------
(* Recovery: archive journals first, then the moves.                       *)

Recovery(b, after, move) ==
  [mode |-> "recovery", board |-> b, card |-> None, att |-> None, undo |-> "nothing",
   after |-> after, move |-> move, rev |-> 0]

RecoverArchive(p, b) ==
  /\ pc[p] = "recover"
  /\ b \in held[p]
  /\ wal[b] # None
  /\ job' = [job EXCEPT ![p] = Recovery(b, wal[b], None)]
  /\ Goto(p, "applyDone")
  /\ UNCHANGED <<disk, locks, ghosts, ops, faults, crashes>>

FirstMoveStage(move) == IF move.atts THEN "place" ELSE "writeDestination"

RecoverMove(p, pr) ==
  /\ pc[p] = "recover"
  /\ \A b \in held[p] : wal[b] = None
  /\ pr \in Pending /\ pr \subseteq held[p]
  /\ job' = [job EXCEPT ![p] = Recovery(moveWal[pr].source, EmptyContent, moveWal[pr])]
  /\ Goto(p, FirstMoveStage(moveWal[pr]))
  /\ UNCHANGED <<disk, locks, ghosts, ops, faults, crashes>>

\* Variant: only archive journals are replayed before an operation.
RecoveredArchivesOnly(p) ==
  /\ pc[p] = "recover"
  /\ \A b \in held[p] : wal[b] = None

Recovered(p) ==
  /\ pc[p] = "recover"
  /\ \A b \in held[p] : wal[b] = None
  /\ \A pr \in Pending : ~(pr \subseteq held[p])

\* A read, or an operation one of whose checks refuses its input.
Leave(p) ==
  /\ Recovered(p)
  /\ Forget(p)
  /\ UNCHANGED <<disk, ghosts, ops, faults, crashes>>

-----------------------------------------------------------------------------
(* The operations: what each reads and checks under its locks, the images  *)
(* it renders, and the call it makes first.                                *)

Begin(p, b, c, a, undo, after, move, rev, stage) ==
  /\ job' = [job EXCEPT ![p] =
       [mode |-> "live", board |-> b, card |-> c, att |-> a, undo |-> undo,
        after |-> after, move |-> move, rev |-> rev]]
  /\ Goto(p, stage)
  /\ UNCHANGED <<disk, locks, acked, ops, faults, crashes>>

OnBoard(p, b) == Recovered(p) /\ want[p] = {b}

Active(b) == file[b]["active"]
Archive(b) == file[b]["archive"]

CreateCard(p, b, c) ==
  /\ OnBoard(p, b)
  /\ CanCreate(file[b])
  /\ c \notin issued
  /\ issued' = issued \cup {c}
  /\ Begin(p, b, c, None, "nothing", Created(file[b], c), None, 1, "write")
  /\ UNCHANGED <<issuedAtts, doomed>>

EditCard(p, b, c) ==
  /\ OnBoard(p, b)
  /\ Has(Active(b), c)
  /\ Begin(p, b, c, None, "nothing", Edited(file[b], c), None,
           Active(b).cards[c].rev + 1, "write")
  /\ UNCHANGED <<issued, issuedAtts, doomed>>

CompleteCard(p, b, c) ==
  /\ OnBoard(p, b)
  /\ Has(Active(b), c)
  /\ Begin(p, b, c, None, "nothing", Completed(file[b], c), None,
           Active(b).cards[c].rev + 1, "journal")
  /\ UNCHANGED <<issued, issuedAtts, doomed>>

RestoreCard(p, b, c) ==
  /\ OnBoard(p, b)
  /\ CanRestore(file[b], c)
  /\ Begin(p, b, c, None, "nothing", Restored(file[b], c), None,
           Archive(b).cards[c].rev + 1, "journal")
  /\ UNCHANGED <<issued, issuedAtts, doomed>>

PatchBoardSettings(p, b, focus, archived) ==
  /\ OnBoard(p, b)
  /\ CanSettle(file[b], focus, archived)
  /\ Begin(p, b, None, None, "nothing", Settled(file[b], focus, archived), None, 0, "journal")
  /\ UNCHANGED <<issued, issuedAtts, doomed>>

AddAttachment(p, b, c, a) ==
  /\ OnBoard(p, b)
  /\ CanAttach(file[b], c)
  /\ a \notin issuedAtts[c]
  /\ issuedAtts' = [issuedAtts EXCEPT ![c] = @ \cup {a}]
  /\ Begin(p, b, c, a, "upload", Attached(file[b], c, a), None,
           Active(b).cards[c].rev + 1, "upload")
  /\ UNCHANGED <<issued, doomed>>

DeleteAttachment(p, b, c, a) ==
  /\ OnBoard(p, b)
  /\ Has(Active(b), c)
  /\ a \in Active(b).cards[c].atts
  /\ dir[b][c] # None
  /\ a \in dir[b][c].live
  /\ Begin(p, b, c, a, "file", Detached(file[b], c, a), None,
           Active(b).cards[c].rev + 1, "quarantine")
  /\ UNCHANGED <<issued, issuedAtts, doomed>>

\* A card with attachments has its directory moved aside before the commit.
Quarantined(b, c, card, commit) ==
  IF card.atts = {} THEN [undo |-> "nothing", stage |-> commit]
                    ELSE [undo |-> "directory", stage |-> "quarantine"]

DeleteCard(p, b, c) ==
  /\ OnBoard(p, b)
  /\ Has(Active(b), c)
  /\ Active(b).cards[c].atts # {} => dir[b][c] # None
  /\ doomed' = doomed \cup {c}
  /\ LET q == Quarantined(b, c, Active(b).cards[c], "write")
     IN  Begin(p, b, c, None, q.undo, Deleted(file[b], c), None, 0, q.stage)
  /\ UNCHANGED <<issued, issuedAtts>>

DeleteArchivedCard(p, b, c) ==
  /\ OnBoard(p, b)
  /\ ~Has(Active(b), c)
  /\ Has(Archive(b), c)
  /\ Archive(b).cards[c].atts # {} => dir[b][c] # None
  /\ doomed' = doomed \cup {c}
  /\ LET q == Quarantined(b, c, Archive(b).cards[c], "journal")
     IN  Begin(p, b, c, None, q.undo, DeletedArchived(file[b], c), None, 0, q.stage)
  /\ UNCHANGED <<issued, issuedAtts>>

\* validateMoveAttachmentPreconditions
AttachmentsCanMove(s, d, c) == dir[s][c] # None /\ dir[d][c] = None

MoveCardToBoard(p, s, d, c, kind) ==
  LET card == file[s][kind].cards[c]
      move == [state |-> "commit", kind |-> kind, source |-> s, destination |-> d,
               card |-> c, atts |-> card.atts # {},
               sourceBefore |-> file[s][kind],
               sourceAfter |-> MovedOut(file[s], c, kind),
               destinationBefore |-> file[d][kind],
               destinationAfter |-> MovedIn(file[d], c, kind, card)]
  IN  /\ Recovered(p)
      /\ s # d /\ want[p] = {s, d}
      /\ CanMove(file[s], file[d], c, kind)
      /\ card.atts # {} => AttachmentsCanMove(s, d, c)
      /\ Begin(p, s, c, None, "nothing", EmptyContent, move, card.rev + 1, "moveJournal")
      /\ UNCHANGED <<issued, issuedAtts, doomed>>

-----------------------------------------------------------------------------
(* Attachment files.                                                       *)

SetDir(b, c, d) == dir' = [dir EXCEPT ![b][c] = d]
SetBin(b, c, d) == bin' = [bin EXCEPT ![b][c] = d]

IoOnly == UNCHANGED <<file, wal, moveWal, locks, job, ghosts, ops, crashes>>

Made(d) == IF d = None THEN EmptyDir ELSE d

Upload(p) ==
  LET b == job[p].board  c == job[p].card
  IN  /\ pc[p] = "upload"
      /\ SetDir(b, c, [Made(dir[b][c]) EXCEPT !.live = @ \cup {job[p].att}])
      /\ Goto(p, "write")
      /\ IoOnly /\ UNCHANGED <<bin, faults>>

\* The directory cannot be made, the body is not as long as announced or the
\* copy fails: no file is left, but a directory just made stays.
UploadRefused(p) ==
  LET b == job[p].board  c == job[p].card
  IN  /\ pc[p] = "upload"
      /\ \E d \in {dir[b][c], Made(dir[b][c])} : SetDir(b, c, d)
      /\ Goto(p, "error")
      /\ IoOnly /\ UNCHANGED <<bin, faults>>

\* rename replaces a directory only if it is empty.
Replaceable(d) == d \in {None, EmptyDir}

\* A file is removed, or renamed within its directory; neither makes one.
RemoveFile(d, a) == IF d = None THEN None ELSE [d EXCEPT !.live = @ \ {a}]
RemoveBinned(d, a) == IF d = None THEN None ELSE [d EXCEPT !.bin = @ \ {a}]
Binned(d, a) == [d EXCEPT !.live = @ \ {a}, !.bin = @ \cup {a}]
Unbinned(d, a) ==
  IF d = None \/ a \notin d.bin THEN d ELSE [d EXCEPT !.live = @ \cup {a}, !.bin = @ \ {a}]

QuarantineFile(p, o) ==
  LET b == job[p].board  c == job[p].card  a == job[p].att
      done == o = "ok" /\ dir[b][c] # None /\ a \in dir[b][c].live
  IN  /\ pc[p] = "quarantine" /\ job[p].undo = "file"
      /\ Call(o)
      /\ IF done THEN SetDir(b, c, Binned(dir[b][c], a)) ELSE UNCHANGED dir
      /\ Goto(p, IF done THEN "write" ELSE "error")
      /\ IoOnly /\ UNCHANGED bin

\* Variant: the directory is removed at once instead of moved aside.
RemoveDirectoryFirst(p, o) ==
  LET b == job[p].board  c == job[p].card
  IN  /\ pc[p] = "quarantine" /\ job[p].undo = "directory"
      /\ Call(o)
      /\ IF o = "ok" THEN SetDir(b, c, None) ELSE UNCHANGED dir
      /\ Goto(p, IF o = "ok" THEN "write" ELSE "error")
      /\ IoOnly /\ UNCHANGED bin

QuarantineDirectory(p, o) ==
  LET b == job[p].board  c == job[p].card
      commit == IF Has(Active(b), c) THEN "write" ELSE "journal"
      done == o = "ok" /\ Replaceable(bin[b][c])
  IN  /\ pc[p] = "quarantine" /\ job[p].undo = "directory"
      /\ Call(o)
      /\ IF done THEN SetBin(b, c, dir[b][c]) /\ SetDir(b, c, None)
                 ELSE UNCHANGED <<dir, bin>>
      /\ Goto(p, IF done THEN commit ELSE "error")
      /\ IoOnly

\* The commit failed: put the attachments back.  The error of this is ignored.
Undo(p, o) ==
  LET b == job[p].board  c == job[p].card  a == job[p].att
  IN  /\ pc[p] = "undo"
      /\ Call(o)
      /\ IF o = "fail" THEN UNCHANGED <<dir, bin>>
         ELSE \/ /\ job[p].undo = "upload"
                 /\ SetDir(b, c, RemoveFile(dir[b][c], a))
                 /\ UNCHANGED bin
              \/ /\ job[p].undo = "file"
                 /\ SetDir(b, c, Unbinned(dir[b][c], a))
                 /\ UNCHANGED bin
              \/ /\ job[p].undo = "directory"
                 /\ SetDir(b, c, bin[b][c]) /\ SetBin(b, c, None)
      /\ Goto(p, "error")
      /\ IoOnly

\* The commit succeeded: destroy what was quarantined.
Purge(p, o) ==
  LET b == job[p].board  c == job[p].card  a == job[p].att
  IN  /\ pc[p] = "purge"
      /\ Call(o)
      /\ IF o = "fail" THEN UNCHANGED <<dir, bin>>
         ELSE \/ /\ job[p].undo = "file"
                 /\ SetDir(b, c, RemoveBinned(dir[b][c], a))
                 /\ UNCHANGED bin
              \/ /\ job[p].undo = "directory"
                 /\ SetBin(b, c, None)
                 /\ UNCHANGED dir
      /\ Goto(p, IF o = "ok" THEN "ok" ELSE "error")
      /\ IoOnly

-----------------------------------------------------------------------------
(* The single-file commit and the two-file commit through .done-archive.wal *)

Succeeded(j) ==
  CASE j.mode = "recovery" -> "recover"
    [] j.mode = "live" /\ j.undo \in {"file", "directory"} -> "purge"
    [] OTHER -> "ok"

Failed(j) == IF j.mode = "live" /\ j.undo # "nothing" THEN "undo" ELSE "error"

WalOnly == UNCHANGED <<moveWal, dir, bin, locks, job, ghosts, ops, crashes>>

\* Variant: the error of the write is dropped.
WriteActiveUnchecked(p, o) ==
  LET j == job[p]
  IN  /\ pc[p] = "write"
      /\ Io(o)
      /\ file' = IF Installs(o)
                 THEN [file EXCEPT ![j.board]["active"] = j.after["active"]] ELSE file
      /\ Goto(p, Succeeded(j))
      /\ WalOnly /\ UNCHANGED wal

WriteActive(p, o) ==
  LET j == job[p]
  IN  /\ pc[p] = "write"
      /\ Io(o)
      /\ file' = IF Installs(o)
                 THEN [file EXCEPT ![j.board]["active"] = j.after["active"]] ELSE file
      /\ Goto(p, IF o = "ok" THEN Succeeded(j) ELSE Failed(j))
      /\ WalOnly /\ UNCHANGED wal

\* Variant: the journal lacks the board image.
CommitDoneImageOnly(p, o) ==
  LET j == job[p]
  IN  /\ pc[p] = "journal"
      /\ Io(o)
      /\ wal' = IF Installs(o)
                THEN [wal EXCEPT ![j.board] = [k \in {"archive"} |-> j.after[k]]] ELSE wal
      /\ Goto(p, IF o = "ok" THEN "applyDone" ELSE Failed(j))
      /\ WalOnly /\ UNCHANGED file

\* Variant: the two files are written without a journal.
CommitWithoutJournal(p, o) ==
  /\ pc[p] = "journal"
  /\ Io(o)
  /\ Goto(p, "applyDone")
  /\ WalOnly /\ UNCHANGED <<file, wal>>

CommitArchive(p, o) ==
  LET j == job[p]
  IN  /\ pc[p] = "journal"
      /\ Io(o)
      /\ wal' = IF Installs(o) THEN [wal EXCEPT ![j.board] = j.after] ELSE wal
      /\ Goto(p, IF o = "ok" THEN "applyDone" ELSE Failed(j))
      /\ WalOnly /\ UNCHANGED file

ApplyDone(p, o) ==
  LET j == job[p]
  IN  /\ pc[p] = "applyDone"
      /\ Io(o)
      /\ file' = IF Installs(o)
                 THEN [file EXCEPT ![j.board]["archive"] = j.after["archive"]] ELSE file
      /\ Goto(p, IF o = "ok" THEN "applyBoard" ELSE Failed(j))
      /\ WalOnly /\ UNCHANGED wal

ApplyBoard(p, o) ==
  LET j == job[p]
  IN  /\ pc[p] = "applyBoard"
      /\ Io(o)
      /\ file' = IF Installs(o)
                 THEN [file EXCEPT ![j.board]["active"] = j.after["active"]] ELSE file
      /\ Goto(p, IF o = "ok" THEN "removeArchive" ELSE Failed(j))
      /\ WalOnly /\ UNCHANGED wal

RemoveArchive(p, o) ==
  LET j == job[p]
  IN  /\ pc[p] = "removeArchive"
      /\ Io(o)
      /\ wal' = IF Installs(o) THEN [wal EXCEPT ![j.board] = None] ELSE wal
      /\ Goto(p, IF o = "ok" THEN Succeeded(j) ELSE Failed(j))
      /\ WalOnly /\ UNCHANGED file

-----------------------------------------------------------------------------
(* The cross-board commit.                                                 *)

PairOf(move) == {move.source, move.destination}

MoveOnly == UNCHANGED <<wal, bin, locks, ghosts, ops, crashes>>

WriteMoveJournal(p, o) ==
  LET move == job[p].move
  IN  /\ pc[p] = "moveJournal"
      /\ moveWal[PairOf(move)] = None
      /\ Io(o)
      /\ moveWal' = IF Installs(o) THEN [moveWal EXCEPT ![PairOf(move)] = move] ELSE moveWal
      /\ Goto(p, IF o = "ok" THEN FirstMoveStage(move) ELSE "error")
      /\ MoveOnly /\ UNCHANGED <<file, dir, job>>

\* An error while the move is applied for the first time turns it around; an
\* error while it is recovered or rolled back leaves the journal for later.
MoveFailed(j) == IF j.mode = "live" THEN "rollback" ELSE "error"

\* Variant: the directory is copied to the destination and the source kept.
CopyAttachments(p, o) ==
  LET m == job[p].move
  IN  /\ pc[p] = "place"
      /\ Io(o)
      /\ dir' = IF Installs(o)
                THEN [dir EXCEPT ![m.destination][m.card] = dir[m.source][m.card]] ELSE dir
      /\ Goto(p, IF o = "ok" THEN "writeDestination" ELSE MoveFailed(job[p]))
      /\ MoveOnly /\ UNCHANGED <<file, moveWal, job>>

PlaceAttachments(p, o) ==
  LET j    == job[p]
      c    == j.move.card
      from == IF j.move.state = "commit" THEN j.move.source ELSE j.move.destination
      to   == IF j.move.state = "commit" THEN j.move.destination ELSE j.move.source
      oneHome == (dir[from][c] = None) # (dir[to][c] = None)
  IN  /\ pc[p] = "place"
      /\ Io(o)
      /\ dir' = IF oneHome /\ Installs(o) /\ dir[from][c] # None
                THEN [dir EXCEPT ![from][c] = None, ![to][c] = dir[from][c]]
                ELSE dir
      /\ Goto(p, IF oneHome /\ o = "ok" THEN "writeDestination" ELSE MoveFailed(j))
      /\ MoveOnly /\ UNCHANGED <<file, moveWal, job>>

\* Variant: a rollback installs the image of the commit.
DestinationForward(move) == move.destinationAfter

DestinationImage(move) ==
  IF move.state = "commit" THEN move.destinationAfter ELSE move.destinationBefore

SourceImage(move) ==
  IF move.state = "commit" THEN move.sourceAfter ELSE move.sourceBefore

WriteDestination(p, o) ==
  LET j == job[p]
  IN  /\ pc[p] = "writeDestination"
      /\ Io(o)
      /\ file' = IF Installs(o)
                 THEN [file EXCEPT ![j.move.destination][j.move.kind] = DestinationImage(j.move)]
                 ELSE file
      /\ Goto(p, IF o = "ok" THEN "writeSource" ELSE MoveFailed(j))
      /\ MoveOnly /\ UNCHANGED <<moveWal, dir, job>>

WriteSource(p, o) ==
  LET j == job[p]
  IN  /\ pc[p] = "writeSource"
      /\ Io(o)
      /\ file' = IF Installs(o)
                 THEN [file EXCEPT ![j.move.source][j.move.kind] = SourceImage(j.move)]
                 ELSE file
      /\ Goto(p, IF o = "ok" THEN "removeMove" ELSE MoveFailed(j))
      /\ MoveOnly /\ UNCHANGED <<moveWal, dir, job>>

\* The decision to roll back is journalled before anything is put back.
DecideRollback(p, o) ==
  LET back == [job[p].move EXCEPT !.state = "rollback"]
  IN  /\ pc[p] = "rollback"
      /\ Io(o)
      /\ moveWal' = IF Installs(o) THEN [moveWal EXCEPT ![PairOf(back)] = back] ELSE moveWal
      /\ job' = [job EXCEPT ![p].mode = "rollback", ![p].move = back]
      /\ Goto(p, IF o = "ok" THEN FirstMoveStage(back) ELSE "error")
      /\ MoveOnly /\ UNCHANGED <<file, dir>>

RemoveMove(p, o) ==
  LET j == job[p]
      next == CASE j.mode = "recovery" -> "recover"
                [] j.mode = "live"     -> "ok"
                [] j.mode = "rollback" -> "error"
  IN  /\ pc[p] = "removeMove"
      /\ Io(o)
      /\ moveWal' = IF Installs(o) THEN [moveWal EXCEPT ![PairOf(j.move)] = None] ELSE moveWal
      /\ Goto(p, IF o = "ok" THEN next ELSE "error")
      /\ MoveOnly /\ UNCHANGED <<file, dir, job>>

-----------------------------------------------------------------------------

Operation(p) ==
  \/ \E b \in Boards, c \in Cards :
       \/ CreateCard(p, b, c)
       \/ EditCard(p, b, c)
       \/ CompleteCard(p, b, c)
       \/ RestoreCard(p, b, c)
       \/ DeleteCard(p, b, c)
       \/ DeleteArchivedCard(p, b, c)
       \/ \E a \in Attachments : AddAttachment(p, b, c, a) \/ DeleteAttachment(p, b, c, a)
  \/ \E b \in Boards, focus \in Cards \cup {None}, archived \in BOOLEAN :
       PatchBoardSettings(p, b, focus, archived)
  \/ \E s, d \in Boards, c \in Cards, kind \in Kinds : MoveCardToBoard(p, s, d, c, kind)

Step(p) ==
  \/ \E b \in Boards : RecoverArchive(p, b)
  \/ \E pr \in Pairs : RecoverMove(p, pr)
  \/ Upload(p) \/ UploadRefused(p)
  \/ \E o \in Outcomes :
       \/ QuarantineFile(p, o) \/ QuarantineDirectory(p, o) \/ Undo(p, o) \/ Purge(p, o)
       \/ WriteActive(p, o)
       \/ CommitArchive(p, o) \/ ApplyDone(p, o) \/ ApplyBoard(p, o) \/ RemoveArchive(p, o)
       \/ WriteMoveJournal(p, o) \/ PlaceAttachments(p, o)
       \/ WriteDestination(p, o) \/ WriteSource(p, o)
       \/ DecideRollback(p, o) \/ RemoveMove(p, o)
  \/ Return(p)

Requests == {names \in SUBSET Boards : names \in Pairs \/ \E b \in Boards : names = {b}}

\* Nobody asks for anything: the only way the system may stop.
Rest == (\A p \in Procs : pc[p] = "idle") /\ UNCHANGED vars

Next ==
  \/ \E p \in Procs :
       \/ \E names \in Requests : Enter(p, names)
       \/ Leave(p)
       \/ Operation(p)
       \/ Step(p)
       \/ Crash(p)
  \/ Rest

Spec == Init /\ [][Next]_vars

-----------------------------------------------------------------------------
(* The content of the boards as the next process to take their locks will  *)
(* find it, once it has replayed what is pending.  A journal of a move its *)
(* owner is still applying may yet be turned into a rollback, and counts   *)
(* for nothing until it is applied or its owner dies.                      *)

Applying(pr) ==
  \E p \in Procs :
    /\ job[p] # None
    /\ job[p].mode = "live" /\ job[p].move # None
    /\ PairOf(job[p].move) = pr
    /\ pc[p] \in {"place", "writeDestination", "writeSource", "rollback"}

Decided(pr) == moveWal[pr].state = "commit" /\ ~Applying(pr)

JournalsOf(b, k) == {pr \in Pending : b \in pr /\ moveWal[pr].kind = k}

EffectiveImage(b, k) ==
  IF JournalsOf(b, k) # {}
  THEN LET pr   == CHOOSE pr \in JournalsOf(b, k) : TRUE
           move == moveWal[pr]
       IN  IF b = move.source
           THEN IF Decided(pr) THEN move.sourceAfter ELSE move.sourceBefore
           ELSE IF Decided(pr) THEN move.destinationAfter ELSE move.destinationBefore
  ELSE IF wal[b] # None THEN wal[b][k] ELSE file[b][k]

Effective == [b \in Boards |-> [k \in Kinds |-> EffectiveImage(b, k)]]

Promise == INSTANCE Kanban WITH content <- Effective

\* Whatever fails and whoever dies, the store behaves as if every operation
\* were one atomic step on the boards or none (the comments of store.go on its
\* journaled commits; README: "a locked, journaled, crash-safe store").
Implements == Promise!Spec

\* No card is ever on two lists, nor twice on the same board's active list and
\* archive, counting journals that are still to be replayed.
OneHome == Promise!OneHome

\* The focus of a board is one of its active cards, and an archived board has
\* none, through completions, deletions, moves and settings.
FocusIsActive == Promise!FocusIsActive

\* An archived board takes in no card by creation, restore or move.
ArchivedTakesNoCard == Promise!ArchivedTakesNoCard

\* No board is claimed by two journals at once: replaying them in any order
\* could otherwise undo a committed operation.
JournalExclusion ==
  /\ \A b \in Boards : wal[b] # None => \A pr \in Pending : b \notin pr
  /\ \A pr, qr \in Pending : pr # qr => pr \cap qr = {}

\* How the locks protect the journals; the invariant JournalExclusion rests on.
\* No board is held twice, and what is held splits no pending pair, so nobody
\* else can work on a board a held journal will rewrite.
Exclusive == \A p, q \in Procs : p # q => held[p] \cap held[q] = {}

HeldClosed == \A p \in Procs : want[p] \subseteq held[p] /\ Closed(held[p], Pending)

Named == \A pr \in Pending : PairOf(moveWal[pr]) = pr

\* Nothing is pending on the boards p holds.
Clear(p) == /\ \A b \in held[p] : wal[b] = None
            /\ \A pr \in Pending : pr \cap held[p] = {}

\* Everything is replayed before an operation writes, the operation writes only
\* to boards it holds, and a move is applied under its journal.
Posted(p) ==
  LET stage == pc[p]
  IN  /\ stage \in {"upload", "quarantine", "write", "journal", "moveJournal"} => Clear(p)
      /\ stage \in {"upload", "quarantine", "write", "journal"} \cup ArchiveStages
           => job[p].board \in held[p]
      /\ stage \in {"moveJournal", "rollback"} \cup MoveStages
           => PairOf(job[p].move) \subseteq held[p]
      /\ stage \in {"rollback"} \cup MoveStages => PairOf(job[p].move) \in Pending

LockDiscipline == Exclusive /\ HeldClosed /\ Named /\ \A p \in Procs : Posted(p)

\* A card a caller was told of stays, with at least the changes it was told of,
\* until some caller asks to delete it.
NoLostUpdate ==
  \A c \in Cards \ doomed :
    acked[c] > 0 =>
      \E b \in Boards, k \in Kinds : Effective[b][k].cards[c].rev >= acked[c]

\* When an operation returns without error, the boards hold what it rendered.
SuccessIsInstalled ==
  \A p \in Procs :
    pc[p] = "ok" =>
      LET j == job[p]
      IN  IF j.move = None
          THEN Effective[j.board] = j.after
          ELSE /\ Effective[j.move.source][j.move.kind] = j.move.sourceAfter
               /\ Effective[j.move.destination][j.move.kind] = j.move.destinationAfter

-----------------------------------------------------------------------------
(* Attachments.                                                            *)

FilesAt(d) == IF d = None THEN {} ELSE d.live \cup d.bin

Quiet(b) == Free(b) /\ wal[b] = None /\ \A pr \in Pending : b \notin pr

\* The bytes of an attachment a card names are somewhere in the tree, in the
\* card's directory or quarantined beside it, on one board or the other.
AttachmentsRetained ==
  \A b \in Boards, k \in Kinds, c \in Cards :
    \A a \in Effective[b][k].cards[c].atts :
      \E d \in Boards : a \in FilesAt(dir[d][c]) \cup FilesAt(bin[d][c])

\* A pending move of a card with attachments finds its directory on exactly one
\* of the two boards: with both or neither, its replay would fail for ever and
\* every operation on the two boards with it.
MoveIsReplayable ==
  \A pr \in Pending :
    LET move == moveWal[pr]
    IN  move.atts => (dir[move.source][move.card] = None)
                       # (dir[move.destination][move.card] = None)

\* On a board nobody works on, every attachment a card names can be opened.
AttachmentsReachable ==
  \A b \in Boards, k \in Kinds, c \in Cards :
    Quiet(b) => \A a \in file[b][k].cards[c].atts :
                  dir[b][c] # None /\ a \in dir[b][c].live

\* The error "card already exists on destination board" is only ever given for
\* a card the destination board has.
RefusedOnlyIfThere ==
  \A s, d \in Boards, c \in Cards, k \in Kinds :
    /\ s # d /\ Quiet(s) /\ Quiet(d)
    /\ CanMove(file[s], file[d], c, k)
    /\ file[s][k].cards[c].atts # {}
    => dir[d][c] = None
=============================================================================
