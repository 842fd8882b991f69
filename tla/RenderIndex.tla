----------------------------- MODULE RenderIndex -----------------------------
(***************************************************************************)
(* The index of rendered notes (internal/index) and the passes that keep   *)
(* it up to date (internal/server/server.go, share.go, pages.go): the      *)
(* periodic rescan, the rescan of a request that wrote a note, that of a   *)
(* page view that finds its note changed, the incremental indexing of an   *)
(* upload and the background pass that must follow it, against people who  *)
(* change the vault and the set of boards at any time.                     *)
(*                                                                         *)
(* A note's content is the number of its version, new with every change;   *)
(* what it links to and transcludes is fixed.  A rendered page is what it  *)
(* was made of: the text of the note, the text of what it transcludes,     *)
(* which of its links resolved, and the set of boards.  How a request      *)
(* writes a note is the subject of VaultWriter; here it is one step.       *)
(***************************************************************************)
EXTENDS Naturals, FiniteSets, FiniteSetsExt

CONSTANTS
  Paths,       \* paths of notes, as numbers in the order of the paths
  Slug,        \* Slug[p]: two paths can have one slug
  Links,       \* Links[p]: paths p links to
  Embeds,      \* Embeds[p]: paths p transcludes
  Existing,    \* paths that are there at the start
  Uploads,     \* paths only an upload creates: names it has reserved
  Clients,     \* requests that can be in progress at once
  None,
  MaxEvents,   \* bound: and changes of the vault or the set of boards
  MaxMishaps   \* bound: failing calls and deaths of the server

ASSUME IndexAssumption ==
  /\ Paths \subseteq Nat \ {0} /\ Paths # {} /\ IsFiniteSet(Paths)
  /\ Existing \subseteq Paths /\ Uploads \subseteq Paths /\ Existing \cap Uploads = {}
  /\ DOMAIN Slug = Paths
  /\ Links \in [Paths -> SUBSET Paths]
  /\ Embeds \in [Paths -> SUBSET Paths] /\ \A p \in Paths : p \notin Embeds[p]
  /\ Clients \cap {"loop", "background", "start"} = {}
  /\ None \notin Clients \cup {"loop", "background", "start"}
  /\ MaxEvents \in Nat /\ MaxMishaps \in Nat

VARIABLES
  disk,      \* disk[p]: the version of the file, 0 when there is none
  boards,    \* the set of boards, as a number
  rows,      \* rows[s]: the row of the notes and render_cache tables
  vault,     \* the published snapshot
  pass,      \* what the holder of rescanMu is doing
  vaultLock, \* the holder of the vault's write lock
  up,        \* is the server ready?
  pending, bg,  \* reconcilePending and the background loop
  pc, job,   \* requests
  acked,     \* acked[p]: newest version a client was told is written
  answered,  \* uploads whose URL a client was given
  skipped,   \* notes a pass could not read and has not rendered since
  dropped,   \* notes whose owed re-render was forgotten and not done since
  events, mishaps

world  == <<disk, boards, events>>
locks  == <<pass, vaultLock>>
later  == <<pending, bg>>
client == <<pc, job>>
told   == <<acked, answered>>
ghosts == <<skipped, dropped>>
vars   == <<world, rows, vault, locks, up, later, client, told, ghosts, mishaps>>

-----------------------------------------------------------------------------

Callers == Clients \cup {"loop", "background", "start"}

Slugs == {Slug[p] : p \in Paths}

\* A set of files with their versions: what a scan returns.
Snapshot == [Paths -> Nat]

Present(v) == {p \in Paths : v[p] # 0}

SlugsOf(v) == {Slug[p] : p \in Present(v)}

Indexed == {s \in Slugs : rows[s] # None}

OnlyOf(ps, v) == [q \in Paths |-> IF q \in ps THEN v[q] ELSE 0]

\* What decides whether a row is up to date: the note, what it transcludes, the
\* boards.
VersionedHash(v, p, salt) == [body |-> v[p], deps |-> OnlyOf(Embeds[p], v), salt |-> salt]

Hash == [body : Nat, deps : Snapshot, salt : Nat]

\* A page is rendered from the files as they are, resolved with a snapshot.
RenderBody(p, v) ==
  [body   |-> disk[p],
   embeds |-> OnlyOf(Embeds[p] \cap Present(v), disk),
   links  |-> Links[p] \cap Present(v),
   boards |-> boards]

Page == [body : Nat, embeds : Snapshot, links : SUBSET Paths, boards : Nat]

Row(p, v, salt) == [path |-> p, hash |-> VersionedHash(v, p, salt), html |-> RenderBody(p, v)]

Rows == [path : Paths, hash : Hash \cup {None}, html : Page]

Stages == {"diff", "begin", "render", "uploadRender", "uploadCommit", "publish"}

Pass ==
  [by : Callers, stage : Stages, v : Snapshot, salt : Nat, work : SUBSET Paths,
   deleted : SUBSET Slugs, batch : [Paths -> Rows \cup {None}], unread : SUBSET Paths]

Job == [path : Paths, since : Nat, failed : BOOLEAN, got : Nat]

\* The null value is none of the records.
ASSUME NoneIsNoRecord == None \notin Hash \cup Rows \cup Pass \cup Job

TypeOK ==
  /\ disk \in Snapshot /\ vault \in Snapshot /\ acked \in Snapshot
  /\ boards \in Nat
  /\ rows \in [Slugs -> Rows \cup {None}]
  /\ pass \in Pass \cup {None}
  /\ vaultLock \in Callers \cup {None}
  /\ up \in BOOLEAN /\ pending \in BOOLEAN
  /\ bg \in {"off", "sleep", "invalidate", "rescan", "end"}
  /\ pc \in [Clients -> {"idle", "reindex", "refresh", "page", "served", "index", "plugins"}]
  /\ job \in [Clients -> Job \cup {None}]
  /\ \A c \in Clients : pc[c] = "idle" <=> job[c] = None
  /\ answered \subseteq Paths /\ skipped \subseteq Paths /\ dropped \subseteq Paths
  /\ events \in Nat /\ mishaps \in Nat

Nothing == [p \in Paths |-> 0]

Init ==
  /\ disk = [p \in Paths |-> IF p \in Existing THEN p ELSE 0]
  /\ boards = 0
  /\ rows = [s \in Slugs |-> None]
  /\ vault = Nothing
  /\ pass = None /\ vaultLock = None
  /\ up = FALSE
  /\ pending = FALSE /\ bg = "off"
  /\ pc = [c \in Clients |-> "idle"] /\ job = [c \in Clients |-> None]
  /\ acked = Nothing /\ answered = {}
  /\ skipped = {} /\ dropped = {}
  /\ events = 0 /\ mishaps = 0

Mishap == mishaps < MaxMishaps /\ mishaps' = mishaps + 1

-----------------------------------------------------------------------------
(* People who edit the vault, and boards that come and go.                 *)

Event == events < MaxEvents /\ events' = events + 1

\* The version that the next change makes: no two notes are ever the same.
Newest == events + Max(Paths) + 1

NewVersion(p) ==
  /\ disk' = [disk EXCEPT ![p] = Newest]
  /\ UNCHANGED boards

Edit(p) ==
  /\ p \notin Uploads \/ disk[p] # 0
  /\ Event
  /\ NewVersion(p)
  /\ UNCHANGED <<rows, vault, locks, up, later, client, told, ghosts, mishaps>>

RemoveFile(p) ==
  /\ disk[p] # 0
  /\ Event
  /\ disk' = [disk EXCEPT ![p] = 0]
  /\ acked' = [acked EXCEPT ![p] = 0]
  /\ answered' = answered \ {p}
  /\ UNCHANGED <<boards, rows, vault, locks, up, later, client, ghosts, mishaps>>

ChangeBoards ==
  /\ Event
  /\ boards' = boards + 1
  /\ UNCHANGED <<disk, rows, vault, locks, up, later, client, told, ghosts, mishaps>>

-----------------------------------------------------------------------------
(* A rescan: the vault's lock, rescanMu, the scan, and what it leads to.   *)

Wants(c) ==
  \/ c = "loop" /\ up
  \/ c = "start" /\ ~up
  \/ c = "background" /\ bg = "rescan"
  \/ c \in Clients /\ pc[c] \in {"reindex", "refresh"}

NewPass(c, stage, v) ==
  [by |-> c, stage |-> stage, v |-> v, salt |-> 0, work |-> {}, deleted |-> {},
   batch |-> [p \in Paths |-> None], unread |-> {}]

BeginPass(c, stage, v) ==
  /\ pass = None
  /\ pass' = NewPass(c, stage, v)

\* A request that writes has the vault's lock from before.
Rescan(c) ==
  /\ Wants(c)
  /\ vaultLock = IF c \in Clients /\ pc[c] = "reindex" THEN c ELSE None
  /\ vaultLock' = c
  /\ BeginPass(c, "diff", disk)
  /\ UNCHANGED <<world, rows, vault, up, later, client, told, ghosts, mishaps>>

\* The rows are written, or there is nothing to write.
ToPublish == pass' = NewPass(pass.by, "publish", pass.v)

At(stages) == pass # None /\ pass.stage \in stages

\* Variant: a new or a removed note is no reason to render the others.
WorkOfChanged(v, deleted) ==
  {p \in Present(v) :
     rows[Slug[p]] = None \/ rows[Slug[p]].hash # VersionedHash(v, p, boards)}

\* Notes to render: all of them when notes have come or gone.
Work(v, deleted) ==
  IF deleted # {} \/ ~(SlugsOf(v) \subseteq Indexed)
  THEN Present(v)
  ELSE {p \in Present(v) : rows[Slug[p]].hash # VersionedHash(v, p, boards)}

\* Variant: the snapshot is published before the rows it stands for.
DiffPublishes ==
  LET deleted == Indexed \ SlugsOf(pass.v)
      work == Work(pass.v, deleted)
  IN  /\ At({"diff"})
      /\ IF work = {} /\ deleted = {}
         THEN ToPublish
         ELSE pass' = [pass EXCEPT !.stage = "begin", !.salt = boards, !.work = work,
                                   !.deleted = deleted]
      /\ vault' = pass.v
      /\ UNCHANGED <<world, rows, vaultLock, up, later, client, told, ghosts, mishaps>>

\* The salt is taken before anything is rendered.
Diff ==
  LET deleted == Indexed \ SlugsOf(pass.v)
      work == Work(pass.v, deleted)
  IN  /\ At({"diff"})
      /\ IF work = {} /\ deleted = {}
         THEN ToPublish
         ELSE pass' = [pass EXCEPT !.stage = "begin", !.salt = boards, !.work = work,
                                   !.deleted = deleted]
      /\ UNCHANGED <<world, rows, vault, vaultLock, up, later, client, told, ghosts, mishaps>>

\* One note, in the order of the paths; one that cannot be read is passed over.
RenderNote(o) ==
  LET p == Min(pass.work)
  IN  /\ At({"begin", "render"})
      /\ pass.work # {}
      /\ o = "fail" => Mishap
      /\ o = "ok" => UNCHANGED mishaps
      /\ pass' = [pass EXCEPT
           !.stage = "render", !.work = @ \ {p},
           !.batch[p] = IF o = "ok" /\ disk[p] # 0 THEN Row(p, pass.v, pass.salt) ELSE None,
           !.unread = IF o = "ok" /\ disk[p] # 0 THEN @ ELSE @ \cup {p}]
      /\ UNCHANGED <<world, rows, vault, vaultLock, up, later, client, told, ghosts>>

\* Of two notes with one slug the later replaces the earlier.
Written(s) ==
  LET ps == {p \in Paths : Slug[p] = s /\ pass.batch[p] # None}
  IN  CASE ps # {} -> pass.batch[Max(ps)]
        [] ps = {} /\ s \in pass.deleted -> None
        [] OTHER -> rows[s]

Rendered == {p \in Paths : pass.batch[p] # None}

\* A note that has gone between the scan and its turn, and had no row, leaves no
\* trace of having been resolved: what links to it is owed a re-render.
Vanished == \E p \in pass.unread : rows[Slug[p]] = None

Commit ==
  /\ At({"begin", "render"})
  /\ pass.work = {}
  /\ rows' = [s \in Slugs |-> Written(s)]
  /\ ToPublish
  /\ skipped' = (skipped \ Rendered) \cup pass.unread
  /\ dropped' = IF Vanished THEN Paths ELSE dropped \ Rendered
  /\ UNCHANGED <<world, vault, vaultLock, up, later, client, told, mishaps>>

-----------------------------------------------------------------------------
(* How a pass ends for the one who asked for it.                           *)

\* Variant: a request that is over leaves its work behind.
IdleOnly(c) == pc' = [pc EXCEPT ![c] = "idle"] /\ UNCHANGED job

Idle(c) == pc' = [pc EXCEPT ![c] = "idle"] /\ job' = [job EXCEPT ![c] = None]

\* Given the note's version at the time, a write is acknowledged.
WriterReturns(c, ok) ==
  LET j == job[c]
  IN  /\ acked' = IF ok /\ disk[j.path] >= j.since
                  THEN [acked EXCEPT ![j.path] = IF @ > j.since THEN @ ELSE j.since] ELSE acked
      /\ Idle(c)
      /\ UNCHANGED <<answered, up, bg>>

ViewerGoesOn(c, ok) ==
  /\ IF ok /\ pass.v[job[c].path] = 0
     THEN Idle(c)
     ELSE pc' = [pc EXCEPT ![c] = "page"] /\ job' = [job EXCEPT ![c].failed = ~ok]
  /\ UNCHANGED <<told, up, bg>>

UploadReturns(c, ok) ==
  /\ IF ok THEN pc' = [pc EXCEPT ![c] = "plugins"] /\ UNCHANGED job ELSE Idle(c)
  /\ answered' = IF ok /\ disk[job[c].path] # 0 THEN answered \cup {job[c].path} ELSE answered
  /\ UNCHANGED <<acked, up, bg>>

Return(c, ok) ==
  CASE c = "start" -> up' = ok /\ UNCHANGED <<bg, pc, job, told>>
    [] c = "loop" -> UNCHANGED <<up, bg, pc, job, told>>
    [] c = "background" -> bg' = "end" /\ UNCHANGED <<up, pc, job, told>>
    [] c \in Clients /\ pc[c] = "reindex" -> WriterReturns(c, ok)
    [] c \in Clients /\ pc[c] = "refresh" -> ViewerGoesOn(c, ok)
    [] c \in Clients /\ pc[c] = "index" -> UploadReturns(c, ok)

EndPass(ok) ==
  /\ pass' = None
  /\ vaultLock' = IF vaultLock = pass.by THEN None ELSE vaultLock
  /\ Return(pass.by, ok)
  /\ UNCHANGED pending

\* The snapshot is published after the rows it stands for.
Publish ==
  /\ At({"publish"})
  /\ vault' = pass.v
  /\ EndPass(TRUE)
  /\ UNCHANGED <<world, rows, ghosts, mishaps>>

\* Variant: the error is logged and the request goes on.
PassFailsQuietly ==
  /\ At(Stages \ {"publish"})
  /\ Mishap
  /\ EndPass(TRUE)
  /\ UNCHANGED <<world, rows, vault, ghosts>>

\* An error of the scan or of the database; the transaction is rolled back.
PassFails ==
  /\ At(Stages \ {"publish"})
  /\ Mishap
  /\ EndPass(FALSE)
  /\ UNCHANGED <<world, rows, vault, ghosts>>

-----------------------------------------------------------------------------
(* Requests.                                                               *)

Request(c) ==
  /\ up
  /\ pc[c] = "idle"
  /\ Event

NewJob(p, since) == [path |-> p, since |-> since, failed |-> FALSE, got |-> 0]

WriteNote(c, p) ==
  /\ Request(c)
  /\ vaultLock = None
  /\ disk[p] # 0
  /\ NewVersion(p)
  /\ vaultLock' = c
  /\ pc' = [pc EXCEPT ![c] = "reindex"]
  /\ job' = [job EXCEPT ![c] = NewJob(p, Newest)]
  /\ UNCHANGED <<rows, vault, pass, up, later, told, ghosts, mishaps>>

\* A page of a note that has changed on disk is served after a rescan.
ViewNote(c, p) ==
  /\ Request(c)
  /\ vault[p] # 0
  /\ pc' = [pc EXCEPT ![c] = IF disk[p] # vault[p] THEN "refresh" ELSE "page"]
  /\ job' = [job EXCEPT ![c] = NewJob(p, disk[p])]
  /\ UNCHANGED <<disk, boards, rows, vault, locks, up, later, told, ghosts, mishaps>>

\* The row, or else the note rendered for this request.
ServePage(c) ==
  LET p == job[c].path  row == rows[Slug[p]]
  IN  /\ pc[c] = "page"
      /\ IF row = None /\ disk[p] = 0
         THEN Idle(c)
         ELSE /\ pc' = [pc EXCEPT ![c] = "served"]
              /\ job' = [job EXCEPT ![c].got = IF row = None THEN disk[p] ELSE row.html.body,
                                    ![c].failed = @ \/ p \in skipped]
      /\ UNCHANGED <<world, rows, vault, locks, up, later, told, ghosts, mishaps>>

PageRead(c) ==
  /\ pc[c] = "served"
  /\ Idle(c)
  /\ UNCHANGED <<world, rows, vault, locks, up, later, told, ghosts, mishaps>>

\* The upload's note is written under a name nobody else has.
Upload(c, p) ==
  /\ Request(c)
  /\ p \in Uploads /\ disk[p] = 0
  /\ NewVersion(p)
  /\ pc' = [pc EXCEPT ![c] = "index"]
  /\ job' = [job EXCEPT ![c] = NewJob(p, Newest)]
  /\ UNCHANGED <<rows, vault, locks, up, later, told, ghosts, mishaps>>

WithFiles(p) == [vault EXCEPT ![p] = disk[p]]

\* Variant: the snapshot is replaced without rescanMu.
IndexUploadUnlocked(c) ==
  LET p == job[c].path
  IN  /\ pc[c] = "index"
      /\ disk[p] # 0
      /\ rows' = [rows EXCEPT ![Slug[p]] = Row(p, WithFiles(p), boards)]
      /\ vault' = WithFiles(p)
      /\ answered' = answered \cup {p}
      /\ pc' = [pc EXCEPT ![c] = "plugins"]
      /\ UNCHANGED <<world, locks, up, later, job, acked, ghosts, mishaps>>

\* rescanMu, and not the vault's lock.
IndexUpload(c) ==
  /\ pc[c] = "index"
  /\ disk[job[c].path] # 0
  /\ BeginPass(c, "uploadRender", WithFiles(job[c].path))
  /\ UNCHANGED <<world, rows, vault, vaultLock, up, later, client, told, ghosts, mishaps>>

UploadVanished(c) ==
  /\ pc[c] = "index"
  /\ pass = None
  /\ disk[job[c].path] = 0
  /\ Idle(c)
  /\ UNCHANGED <<world, rows, vault, locks, up, later, told, ghosts, mishaps>>

\* The salt is taken after the note has been rendered.
IndexNote ==
  LET p == job[pass.by].path
  IN  \/ /\ At({"uploadRender"})
         /\ disk[p] # 0
         /\ pass' = [pass EXCEPT !.stage = "uploadCommit", !.batch[p] = Row(p, pass.v, 0)]
         /\ UNCHANGED <<world, rows, vault, vaultLock, up, later, client, told, ghosts, mishaps>>
      \/ /\ At({"uploadRender"})
         /\ disk[p] = 0
         /\ EndPass(FALSE)
         /\ UNCHANGED <<world, rows, vault, ghosts, mishaps>>
      \/ /\ At({"uploadCommit"})
         /\ rows' = [rows EXCEPT ![Slug[p]] = [pass.batch[p] EXCEPT !.hash.salt = boards]]
         /\ ToPublish
         /\ UNCHANGED <<world, vault, vaultLock, up, later, client, told, ghosts, mishaps>>

-----------------------------------------------------------------------------
(* The background pass that renders everything an upload may have changed. *)

\* After the plugins, however long they take.
Schedule(c) ==
  /\ pc[c] = "plugins"
  /\ Idle(c)
  /\ pending' = TRUE
  /\ bg' = IF bg = "off" THEN "sleep" ELSE bg
  /\ UNCHANGED <<world, rows, vault, locks, up, told, ghosts, mishaps>>

Wake ==
  /\ bg = "sleep"
  /\ bg' = "invalidate"
  /\ pending' = FALSE
  /\ UNCHANGED <<world, rows, vault, locks, up, client, told, ghosts, mishaps>>

Forgotten(row) == IF row = None THEN None ELSE [row EXCEPT !.hash = None]

\* There is one connection that writes: it waits for a transaction to end.
InvalidateRenderCache(o) ==
  /\ bg = "invalidate"
  /\ ~At({"render"})
  /\ IF o = "ok"
     THEN /\ rows' = [s \in Slugs |-> Forgotten(rows[s])]
          /\ bg' = "rescan"
          /\ UNCHANGED <<dropped, mishaps>>
     ELSE /\ Mishap
          /\ bg' = "end"
          /\ dropped' = Paths
          /\ UNCHANGED rows
  /\ UNCHANGED <<world, vault, locks, up, pending, client, told, skipped>>

\* Variant: what was asked for during the pass is left to that pass.
LoopStops ==
  /\ bg = "end"
  /\ bg' = "off"
  /\ UNCHANGED <<world, rows, vault, locks, up, pending, client, told, ghosts, mishaps>>

LoopEnds ==
  /\ bg = "end"
  /\ bg' = IF pending THEN "sleep" ELSE "off"
  /\ UNCHANGED <<world, rows, vault, locks, up, pending, client, told, ghosts, mishaps>>

\* A re-render that only this process knows to be due.
Owed ==
  \/ pending \/ bg = "invalidate"
  \/ \E c \in Clients : pc[c] = "plugins" \/ (pc[c] = "index" /\ At({"publish"}) /\ pass.by = c)

\* The database survives; the snapshot, the loop and the requests do not.
Crash ==
  /\ up
  /\ Mishap
  /\ up' = FALSE
  /\ vault' = Nothing
  /\ pass' = None /\ vaultLock' = None
  /\ pending' = FALSE /\ bg' = "off"
  /\ pc' = [c \in Clients |-> "idle"] /\ job' = [c \in Clients |-> None]
  /\ dropped' = IF Owed THEN Paths ELSE dropped
  /\ UNCHANGED <<world, rows, told, skipped>>

-----------------------------------------------------------------------------

Outcomes == {"ok", "fail"}

PassStep == Diff \/ (\E o \in Outcomes : RenderNote(o)) \/ Commit \/ Publish \/ PassFails \/ IndexNote

ClientStep(c) ==
  ServePage(c) \/ PageRead(c) \/ IndexUpload(c) \/ UploadVanished(c) \/ Schedule(c)

Background == Wake \/ (\E o \in Outcomes : InvalidateRenderCache(o)) \/ LoopEnds

Next ==
  \/ \E p \in Paths : Edit(p) \/ RemoveFile(p)
  \/ ChangeBoards
  \/ \E c \in Callers : Rescan(c)
  \/ PassStep
  \/ \E c \in Clients : ClientStep(c) \/ \E p \in Paths : WriteNote(c, p) \/ ViewNote(c, p) \/ Upload(c, p)
  \/ Background
  \/ Crash

\* A pass, a request and the background loop go on, the periodic rescan comes
\* and a dead server is restarted.  The one connection that writes serves those
\* who wait in turn, so the loop gets it (SF); the mutexes need no more than WF.
Fairness ==
  /\ WF_vars(PassStep)
  /\ WF_vars(Rescan("loop")) /\ WF_vars(Rescan("start"))
  /\ \A c \in Clients : WF_vars(Rescan(c)) /\ WF_vars(ClientStep(c))
  /\ SF_vars(Background)
  /\ SF_vars(Rescan("background"))

Spec == Init /\ [][Next]_vars /\ Fairness

-----------------------------------------------------------------------------

UpToDate(p) == rows[Slug[p]] # None /\ rows[Slug[p]].html = RenderBody(p, disk)

\* The next reconcile renders p again.
Noticed(p) ==
  \/ Indexed # SlugsOf(disk)
  \/ rows[Slug[p]].hash # VersionedHash(disk, p, boards)

\* A page that is not what its note would give now is one that the next
\* reconcile renders again, or that the background pass is about to mark ("What
\* is left to do is global ... InvalidateRenderCache is what forces that pass").
StaleIsNoticed ==
  \A p \in Present(disk) :
    UpToDate(p) \/ Noticed(p) \/ Owed \/ p \in skipped \cup dropped

\* A note that a client was told is written is in the index as written, or newer.
AcknowledgedIsIndexed ==
  \A p \in Paths :
    acked[p] # 0 /\ rows[Slug[p]] # None =>
      rows[Slug[p]].html.body >= acked[p] \/ p \in skipped

\* The URL an upload was answered with stays good: no rescan that began before
\* takes the note out of the snapshot or of the index ("so neither drops the
\* other's snapshot").
UploadStaysPublished ==
  up => \A p \in answered : vault[p] # 0 /\ rows[Slug[p]] # None

\* A page is not older than the note was when its view began ("so the page
\* matches what mutations validate against"), unless the rescan has failed.
ServedIsCurrent ==
  \A c \in Clients :
    pc[c] = "served" =>
      job[c].got >= job[c].since \/ job[c].failed

Current(excused) ==
  /\ Indexed = SlugsOf(disk)
  /\ \A p \in Present(disk) : UpToDate(p) \/ p \in excused

\* When nobody changes anything any more, every page becomes what it should be,
\* but for what was forgotten.
EventuallyCurrent == <>[]Current(skipped \cup dropped)

\* The same without exception ("The periodic rescan is the source of truth for
\* freshness").
EventuallyFresh == <>[]Current({})

\* "The path-sorted later note wins deterministically": of two notes with one
\* slug the row is the later one's, as in the snapshot.
LaterNoteWins ==
  pass = None =>
    \A p \in Present(vault) :
      rows[Slug[p]] # None /\ (\A q \in Present(vault) : Slug[q] = Slug[p] => q <= p)
        => rows[Slug[p]].path = p
=============================================================================
