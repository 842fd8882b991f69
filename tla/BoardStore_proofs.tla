-------------------------- MODULE BoardStore_proofs --------------------------
(***************************************************************************)
(* The detailed board store keeps its types, no board is ever claimed by   *)
(* two journals, and the store implements its promise: whatever fails and  *)
(* whoever dies between two file-system calls, the boards as recovery will *)
(* find them change by one whole operation at a time.  It follows that no  *)
(* card is ever on two lists, that a focus is an active card, that a       *)
(* success is on the boards and that what a caller was told of is not      *)
(* lost.                                                                   *)
(*                                                                         *)
(* First the types and the journals.  Then the invariant Kept, which says  *)
(* for each stage of an operation how what the process keeps in memory     *)
(* relates to the files and the journals, and what a step may do to the    *)
(* boards as recovery will find them (Lawful).  Then one lemma per kind of *)
(* step: it is lawful and keeps the invariant.  Then the attachments.      *)
(***************************************************************************)
EXTENDS BoardStore, BoardContent_proofs

\* The abstract store with its lemmas.
Abstract == INSTANCE Kanban_proofs WITH content <- Effective

-----------------------------------------------------------------------------
(* The closure holds the boards it is asked for, adds only boards that     *)
(* some journal names, and splits no journal.                              *)

LEMMA ClosureContains ==
  ASSUME NEW names, NEW pairs
  PROVE  names \subseteq Closure(names, pairs)
  BY DEF Closure

LEMMA ClosureBounded ==
  ASSUME NEW B, NEW names \in SUBSET B, NEW pairs \in SUBSET SUBSET B
  PROVE  Closure(names, pairs) \in SUBSET B
  BY DEF Closure

\* No journal is split by the boards that are locked.
LEMMA ClosureClosed ==
  ASSUME NEW names, NEW pairs
  PROVE  Closed(Closure(names, pairs), pairs)
  <1> SUFFICES ASSUME NEW pr \in pairs, NEW x \in pr, x \in Closure(names, pairs), NEW y \in pr
               PROVE  y \in Closure(names, pairs)
    BY DEF Closed
  <1>1. y \in UNION pairs
    OBVIOUS
  <1>2. ASSUME NEW S \in SUBSET (names \cup UNION pairs), names \subseteq S, Closed(S, pairs)
        PROVE  y \in S
    <2>1. x \in S
      BY <1>2 DEF Closure
    <2>2. pr \subseteq S
      BY <1>2, <2>1 DEF Closed
    <2>3. QED
      BY <2>2
  <1>3. QED
    BY <1>1, <1>2 DEF Closure

-----------------------------------------------------------------------------
(* Types.  What a process keeps in memory fits the call it is about to     *)
(* make.                                                                   *)

JobFits(stage, j) ==
  /\ stage \notin {"idle", "recover"} => j # None
  /\ stage \in MoveStages \cup {"moveJournal", "rollback"} => j.move # None
  /\ j # None /\ j.undo # "nothing" => j.card \in Cards
  /\ j # None /\ j.undo \in {"upload", "file"} => j.att \in Attachments
  /\ stage \in {"upload", "quarantine", "undo", "purge"} => j.undo # "nothing"
  /\ stage = "upload" => j.undo = "upload"

JobsFit == \A p \in Procs : JobFits(pc[p], job[p])

Typed == TypeOK /\ JobsFit

DiskOK ==
  /\ file \in [Boards -> Content]
  /\ wal \in [Boards -> Content \cup {None}]
  /\ moveWal \in [Pairs -> MoveJournal \cup {None}]
  /\ dir \in [Boards -> [Cards -> Directory \cup {None}]]
  /\ bin \in [Boards -> [Cards -> Directory \cup {None}]]

LocksOK == held \in [Procs -> SUBSET Boards] /\ want \in [Procs -> SUBSET Boards]

MemoryOK == pc \in [Procs -> Stages] /\ job \in [Procs -> Job \cup {None}]

GhostsOK ==
  /\ issued \subseteq Cards
  /\ issuedAtts \in [Cards -> SUBSET Attachments]
  /\ acked \in [Cards -> Nat]
  /\ doomed \subseteq Cards

BoundsOK == ops \in Nat /\ faults \in Nat /\ crashes \in Nat

Parts == DiskOK /\ LocksOK /\ MemoryOK /\ GhostsOK /\ BoundsOK

LEMMA TypeParts == /\ TypeOK <=> Parts
                   /\ TypeOK' <=> Parts'
  BY DEF TypeOK, Parts, DiskOK, LocksOK, MemoryOK, GhostsOK, BoundsOK

\* One process goes on, with a job that fits.
LEMMA StepFits ==
  ASSUME MemoryOK, JobsFit, NEW p \in Procs, NEW stage \in Stages, NEW j \in Job \cup {None},
         pc' = [pc EXCEPT ![p] = stage], job' = [job EXCEPT ![p] = j], JobFits(stage, j)
  PROVE  MemoryOK' /\ JobsFit'
  <1>1. MemoryOK'
    BY DEF MemoryOK
  <1>2. ASSUME NEW q \in Procs PROVE JobFits(pc'[q], job'[q])
    <2>1. CASE q = p
      BY <2>1 DEF MemoryOK
    <2>2. CASE q # p
      BY <2>2 DEF MemoryOK, JobsFit
    <2>3. QED
      BY <2>1, <2>2
  <1>3. QED
    BY <1>1, <1>2 DEF JobsFit, JobFits

LEMMA StepFitsSameJob ==
  ASSUME MemoryOK, JobsFit, NEW p \in Procs, NEW stage \in Stages,
         pc' = [pc EXCEPT ![p] = stage], UNCHANGED job, JobFits(stage, job[p])
  PROVE  MemoryOK' /\ JobsFit'
  <1>1. job[p] \in Job \cup {None} /\ job' = [job EXCEPT ![p] = job[p]]
    BY DEF MemoryOK
  <1>2. QED
    BY <1>1, StepFits

LEMMA IoBounds ==
  ASSUME BoundsOK, NEW o, Io(o) \/ Call(o), UNCHANGED <<ops, crashes>>
  PROVE  BoundsOK'
  BY DEF BoundsOK, Io, Call

-----------------------------------------------------------------------------
(* Locks, crashes, recovery.                                               *)

LEMMA ForgetFits ==
  ASSUME LocksOK, MemoryOK, JobsFit, NEW p \in Procs, Forget(p)
  PROVE  LocksOK' /\ MemoryOK' /\ JobsFit'
  <1>1. LocksOK'
    BY DEF LocksOK, Forget
  <1>2. JobFits("idle", None) /\ "idle" \in Stages
    BY DEF JobFits, Stages, MoveStages, ArchiveStages
  <1>3. pc' = [pc EXCEPT ![p] = "idle"] /\ job' = [job EXCEPT ![p] = None]
    BY DEF Forget, Goto
  <1>4. MemoryOK' /\ JobsFit'
    BY <1>2, <1>3, StepFits
  <1>5. QED
    BY <1>1, <1>4

LEMMA EnterTyped ==
  ASSUME Typed, NEW p \in Procs, NEW names \in SUBSET Boards, Enter(p, names)
  PROVE  Typed'
  <1>1. DiskOK /\ LocksOK /\ MemoryOK /\ GhostsOK /\ BoundsOK /\ JobsFit
    BY TypeParts DEF Typed, Parts
  <1>2. DiskOK' /\ GhostsOK'
    BY <1>1 DEF Enter, DiskOK, GhostsOK, disk, ghosts
  <1>3. Pending \in SUBSET SUBSET Boards
    BY DEF Pending, Pairs
  <1>4. Closure(names, Pending) \in SUBSET Boards
    BY <1>3, ClosureBounded
  <1>5. LocksOK'
    BY <1>1, <1>4 DEF Enter, LocksOK
  <1>6. pc[p] = "idle" /\ pc' = [pc EXCEPT ![p] = "recover"] /\ UNCHANGED job
    BY DEF Enter, Goto
  <1>7. JobFits("recover", job[p]) /\ "recover" \in Stages
    BY <1>1, <1>6 DEF JobsFit, JobFits, Stages, MoveStages, ArchiveStages
  <1>8. MemoryOK' /\ JobsFit'
    BY <1>1, <1>6, <1>7, StepFitsSameJob
  <1>9. BoundsOK'
    BY <1>1 DEF Enter, BoundsOK
  <1>10. QED
    BY <1>2, <1>5, <1>8, <1>9, TypeParts DEF Typed, Parts

LEMMA ReturnTyped ==
  ASSUME Typed, NEW p \in Procs, Return(p)
  PROVE  Typed'
  <1>1. DiskOK /\ LocksOK /\ MemoryOK /\ GhostsOK /\ BoundsOK /\ JobsFit
    BY TypeParts DEF Typed, Parts
  <1>2. DiskOK' /\ BoundsOK'
    BY <1>1 DEF Return, DiskOK, BoundsOK, disk
  <1>3. job[p] \in Job
    BY <1>1 DEF Return, JobsFit, JobFits, MemoryOK
  <1>4. job[p].card \in Cards \cup {None} /\ job[p].rev \in Nat
    BY <1>3 DEF Job
  <1>5. acked' \in [Cards -> Nat]
    BY <1>1, <1>4 DEF Return, GhostsOK, Larger
  <1>6. GhostsOK'
    BY <1>1, <1>5 DEF Return, GhostsOK
  <1>7. LocksOK' /\ MemoryOK' /\ JobsFit'
    BY <1>1, ForgetFits DEF Return
  <1>8. QED
    BY <1>2, <1>6, <1>7, TypeParts DEF Typed, Parts

LEMMA DropTyped ==
  ASSUME Typed, NEW p \in Procs, Crash(p) \/ Leave(p)
  PROVE  Typed'
  <1>1. DiskOK /\ LocksOK /\ MemoryOK /\ GhostsOK /\ BoundsOK /\ JobsFit
    BY TypeParts DEF Typed, Parts
  <1>2. DiskOK' /\ GhostsOK' /\ BoundsOK'
    BY <1>1 DEF Crash, Leave, DiskOK, GhostsOK, BoundsOK, disk, ghosts
  <1>3. LocksOK' /\ MemoryOK' /\ JobsFit'
    BY <1>1, ForgetFits DEF Crash, Leave
  <1>4. QED
    BY <1>2, <1>3, TypeParts DEF Typed, Parts

LEMMA RecoveryType ==
  ASSUME NEW b \in Boards, NEW after \in Content, NEW move \in MoveJournal \cup {None}
  PROVE  /\ Recovery(b, after, move) \in Job
         /\ Recovery(b, after, move).undo = "nothing"
         /\ Recovery(b, after, move).move = move
  BY DEF Recovery, Job

LEMMA RecoverArchiveTyped ==
  ASSUME Typed, NEW p \in Procs, NEW b \in Boards, RecoverArchive(p, b)
  PROVE  Typed'
  <1> DEFINE j == Recovery(b, wal[b], None)
  <1>1. DiskOK /\ LocksOK /\ MemoryOK /\ GhostsOK /\ BoundsOK /\ JobsFit
    BY TypeParts DEF Typed, Parts
  <1>2. DiskOK' /\ LocksOK' /\ GhostsOK' /\ BoundsOK'
    BY <1>1 DEF RecoverArchive, DiskOK, LocksOK, GhostsOK, BoundsOK, disk, locks, ghosts
  <1>3. wal[b] \in Content
    BY <1>1 DEF RecoverArchive, DiskOK
  <1>4. j \in Job /\ j.undo = "nothing"
    BY <1>3, RecoveryType
  <1>5. pc' = [pc EXCEPT ![p] = "applyDone"] /\ job' = [job EXCEPT ![p] = j]
    BY DEF RecoverArchive, Goto
  <1> HIDE DEF j
  <1>6. JobFits("applyDone", j) /\ "applyDone" \in Stages
    BY <1>4, NoneIsNoRecord DEF JobFits, Stages, MoveStages, ArchiveStages
  <1>7. MemoryOK' /\ JobsFit'
    BY <1>1, <1>4, <1>5, <1>6, StepFits
  <1>8. QED
    BY <1>2, <1>7, TypeParts DEF Typed, Parts

LEMMA FirstMoveStageType ==
  ASSUME NEW move \in MoveJournal
  PROVE  FirstMoveStage(move) \in MoveStages
  BY DEF FirstMoveStage, MoveStages

LEMMA RecoverMoveTyped ==
  ASSUME Typed, NEW p \in Procs, NEW pr \in Pairs, RecoverMove(p, pr)
  PROVE  Typed'
  <1> DEFINE move  == moveWal[pr]
             j     == Recovery(move.source, EmptyContent, move)
             stage == FirstMoveStage(move)
  <1>1. DiskOK /\ LocksOK /\ MemoryOK /\ GhostsOK /\ BoundsOK /\ JobsFit
    BY TypeParts DEF Typed, Parts
  <1>2. DiskOK' /\ LocksOK' /\ GhostsOK' /\ BoundsOK'
    BY <1>1 DEF RecoverMove, DiskOK, LocksOK, GhostsOK, BoundsOK, disk, locks, ghosts
  <1>3. move \in MoveJournal
    BY <1>1 DEF RecoverMove, DiskOK, Pending
  <1>4. move.source \in Boards
    BY <1>3 DEF MoveJournal
  <1>5. pc' = [pc EXCEPT ![p] = stage] /\ job' = [job EXCEPT ![p] = j]
    BY DEF RecoverMove, Goto
  <1> HIDE DEF move
  <1>6. stage \in MoveStages
    BY <1>3, FirstMoveStageType
  <1> HIDE DEF stage
  <1>7. j \in Job /\ j.undo = "nothing" /\ j.move = move
    BY <1>3, <1>4, EmptyContentType, RecoveryType
  <1> HIDE DEF j
  <1>8. JobFits(stage, j) /\ stage \in Stages
    BY <1>3, <1>6, <1>7, NoneIsNoRecord DEF JobFits, Stages, MoveStages
  <1>9. MemoryOK' /\ JobsFit'
    BY <1>1, <1>5, <1>7, <1>8, StepFits
  <1>10. QED
    BY <1>2, <1>9, TypeParts DEF Typed, Parts

-----------------------------------------------------------------------------
(* The operations.                                                         *)

LEMMA BeginTyped ==
  ASSUME Typed, NEW p \in Procs, NEW b \in Boards, NEW c \in Cards \cup {None},
         NEW a \in Attachments \cup {None}, NEW undo \in {"nothing", "upload", "file", "directory"},
         NEW after \in Content, NEW move \in MoveJournal \cup {None}, NEW rev \in Nat,
         NEW stage \in Stages,
         Begin(p, b, c, a, undo, after, move, rev, stage),
         undo # "nothing" => c \in Cards,
         undo \in {"upload", "file"} => a \in Attachments,
         stage \in {"upload", "quarantine", "undo", "purge"} => undo # "nothing",
         stage = "upload" => undo = "upload",
         stage \in MoveStages \cup {"moveJournal", "rollback"} => move # None,
         issued' \subseteq Cards, issuedAtts' \in [Cards -> SUBSET Attachments],
         doomed' \subseteq Cards
  PROVE  Typed'
  <1> DEFINE j == [mode |-> "live", board |-> b, card |-> c, att |-> a, undo |-> undo,
                   after |-> after, move |-> move, rev |-> rev]
  <1>1. DiskOK /\ LocksOK /\ MemoryOK /\ GhostsOK /\ BoundsOK /\ JobsFit
    BY TypeParts DEF Typed, Parts
  <1>2. DiskOK' /\ LocksOK' /\ GhostsOK' /\ BoundsOK'
    BY <1>1 DEF Begin, DiskOK, LocksOK, GhostsOK, BoundsOK, disk, locks
  <1>3. j \in Job /\ j.undo = undo /\ j.card = c /\ j.att = a /\ j.move = move
    BY DEF Job
  <1>4. pc' = [pc EXCEPT ![p] = stage] /\ job' = [job EXCEPT ![p] = j]
    BY DEF Begin, Goto
  <1> HIDE DEF j
  <1>5. JobFits(stage, j)
    BY <1>3, NoneIsNoRecord DEF JobFits
  <1>6. MemoryOK' /\ JobsFit'
    BY <1>1, <1>3, <1>4, <1>5, StepFits
  <1>7. QED
    BY <1>2, <1>6, TypeParts DEF Typed, Parts

\* What an operation reads has its type.
LEMMA ReadType ==
  ASSUME Typed, NEW b \in Boards
  PROVE  /\ file[b] \in Content
         /\ Active(b) = file[b]["active"] /\ Active(b) \in Image
         /\ Archive(b) = file[b]["archive"] /\ Archive(b) \in Image
         /\ \A c \in Cards : Active(b).cards[c].rev \in Nat /\ Archive(b).cards[c].rev \in Nat
         /\ issued \subseteq Cards /\ doomed \subseteq Cards
         /\ issuedAtts \in [Cards -> SUBSET Attachments]
  <1>1. /\ file \in [Boards -> Content]
        /\ issued \subseteq Cards /\ doomed \subseteq Cards
        /\ issuedAtts \in [Cards -> SUBSET Attachments]
    BY DEF Typed, TypeOK
  <1>2. file[b] \in Content
    BY <1>1
  <1>3. Active(b) \in Image /\ Archive(b) \in Image
    BY <1>2, ContentImages DEF Active, Archive
  <1>4. QED
    BY <1>1, <1>2, <1>3, CardOf DEF Active, Archive

LEMMA CreateCardTyped ==
  ASSUME Typed, NEW p \in Procs, NEW b \in Boards, NEW c \in Cards,
         CreateCard(p, b, c)
  PROVE  Typed'
  <1> DEFINE after == Created(file[b], c)
             rev == 1
  <1>1. /\ file[b] \in Content
        /\ issued \subseteq Cards /\ doomed \subseteq Cards
        /\ issuedAtts \in [Cards -> SUBSET Attachments]
    BY ReadType
  <1>2. CanCreate(file[b])
    BY ReadType DEF CreateCard
  <1>3. after \in Content
    BY <1>1, <1>2, CreatedContent
  <1>4. rev \in Nat
    BY ReadType
  <1>5. Begin(p, b, c, None, "nothing", after, None, rev, "write")
    BY DEF CreateCard
  <1>6. /\ issued' \subseteq Cards /\ doomed' \subseteq Cards
        /\ issuedAtts' \in [Cards -> SUBSET Attachments]
    BY <1>1 DEF CreateCard
  <1> HIDE DEF after, rev
  <1>7. "write" \in Stages /\ "write" \notin MoveStages
    BY DEF Stages, MoveStages, ArchiveStages
  <1>8. QED
    BY <1>3, <1>4, <1>5, <1>6, <1>7, BeginTyped

LEMMA EditCardTyped ==
  ASSUME Typed, NEW p \in Procs, NEW b \in Boards, NEW c \in Cards,
         EditCard(p, b, c)
  PROVE  Typed'
  <1> DEFINE after == Edited(file[b], c)
             rev == Active(b).cards[c].rev + 1
  <1>1. /\ file[b] \in Content
        /\ issued \subseteq Cards /\ doomed \subseteq Cards
        /\ issuedAtts \in [Cards -> SUBSET Attachments]
    BY ReadType
  <1>2. Has(file[b]["active"], c)
    BY ReadType DEF EditCard
  <1>3. after \in Content
    BY <1>1, <1>2, EditedContent
  <1>4. rev \in Nat
    BY ReadType
  <1>5. Begin(p, b, c, None, "nothing", after, None, rev, "write")
    BY DEF EditCard
  <1>6. /\ issued' \subseteq Cards /\ doomed' \subseteq Cards
        /\ issuedAtts' \in [Cards -> SUBSET Attachments]
    BY <1>1 DEF EditCard
  <1> HIDE DEF after, rev
  <1>7. "write" \in Stages /\ "write" \notin MoveStages
    BY DEF Stages, MoveStages, ArchiveStages
  <1>8. QED
    BY <1>3, <1>4, <1>5, <1>6, <1>7, BeginTyped

LEMMA CompleteCardTyped ==
  ASSUME Typed, NEW p \in Procs, NEW b \in Boards, NEW c \in Cards,
         CompleteCard(p, b, c)
  PROVE  Typed'
  <1> DEFINE after == Completed(file[b], c)
             rev == Active(b).cards[c].rev + 1
  <1>1. /\ file[b] \in Content
        /\ issued \subseteq Cards /\ doomed \subseteq Cards
        /\ issuedAtts \in [Cards -> SUBSET Attachments]
    BY ReadType
  <1>2. Has(file[b]["active"], c)
    BY ReadType DEF CompleteCard
  <1>3. after \in Content
    BY <1>1, <1>2, CompletedContent
  <1>4. rev \in Nat
    BY ReadType
  <1>5. Begin(p, b, c, None, "nothing", after, None, rev, "journal")
    BY DEF CompleteCard
  <1>6. /\ issued' \subseteq Cards /\ doomed' \subseteq Cards
        /\ issuedAtts' \in [Cards -> SUBSET Attachments]
    BY <1>1 DEF CompleteCard
  <1> HIDE DEF after, rev
  <1>7. "journal" \in Stages /\ "journal" \notin MoveStages
    BY DEF Stages, MoveStages, ArchiveStages
  <1>8. QED
    BY <1>3, <1>4, <1>5, <1>6, <1>7, BeginTyped

LEMMA RestoreCardTyped ==
  ASSUME Typed, NEW p \in Procs, NEW b \in Boards, NEW c \in Cards,
         RestoreCard(p, b, c)
  PROVE  Typed'
  <1> DEFINE after == Restored(file[b], c)
             rev == Archive(b).cards[c].rev + 1
  <1>1. /\ file[b] \in Content
        /\ issued \subseteq Cards /\ doomed \subseteq Cards
        /\ issuedAtts \in [Cards -> SUBSET Attachments]
    BY ReadType
  <1>2. Has(file[b]["archive"], c)
    BY ReadType DEF RestoreCard, CanRestore
  <1>3. after \in Content
    BY <1>1, <1>2, RestoredContent
  <1>4. rev \in Nat
    BY ReadType
  <1>5. Begin(p, b, c, None, "nothing", after, None, rev, "journal")
    BY DEF RestoreCard
  <1>6. /\ issued' \subseteq Cards /\ doomed' \subseteq Cards
        /\ issuedAtts' \in [Cards -> SUBSET Attachments]
    BY <1>1 DEF RestoreCard
  <1> HIDE DEF after, rev
  <1>7. "journal" \in Stages /\ "journal" \notin MoveStages
    BY DEF Stages, MoveStages, ArchiveStages
  <1>8. QED
    BY <1>3, <1>4, <1>5, <1>6, <1>7, BeginTyped

LEMMA PatchBoardSettingsTyped ==
  ASSUME Typed, NEW p \in Procs, NEW b \in Boards, NEW focus \in Cards \cup {None}, NEW archived \in BOOLEAN,
         PatchBoardSettings(p, b, focus, archived)
  PROVE  Typed'
  <1> DEFINE after == Settled(file[b], focus, archived)
             rev == 0
  <1>1. /\ file[b] \in Content
        /\ issued \subseteq Cards /\ doomed \subseteq Cards
        /\ issuedAtts \in [Cards -> SUBSET Attachments]
    BY ReadType
  <1>2. CanSettle(file[b], focus, archived)
    BY ReadType DEF PatchBoardSettings
  <1>3. after \in Content
    BY <1>1, <1>2, SettledContent
  <1>4. rev \in Nat
    BY ReadType
  <1>5. Begin(p, b, None, None, "nothing", after, None, rev, "journal")
    BY DEF PatchBoardSettings
  <1>6. /\ issued' \subseteq Cards /\ doomed' \subseteq Cards
        /\ issuedAtts' \in [Cards -> SUBSET Attachments]
    BY <1>1 DEF PatchBoardSettings
  <1> HIDE DEF after, rev
  <1>7. "journal" \in Stages /\ "journal" \notin MoveStages
    BY DEF Stages, MoveStages, ArchiveStages
  <1>8. QED
    BY <1>3, <1>4, <1>5, <1>6, <1>7, BeginTyped

LEMMA AddAttachmentTyped ==
  ASSUME Typed, NEW p \in Procs, NEW b \in Boards, NEW c \in Cards, NEW a \in Attachments,
         AddAttachment(p, b, c, a)
  PROVE  Typed'
  <1> DEFINE after == Attached(file[b], c, a)
             rev == Active(b).cards[c].rev + 1
  <1>1. /\ file[b] \in Content
        /\ issued \subseteq Cards /\ doomed \subseteq Cards
        /\ issuedAtts \in [Cards -> SUBSET Attachments]
    BY ReadType
  <1>2. Has(file[b]["active"], c)
    BY ReadType DEF AddAttachment, CanAttach
  <1>3. after \in Content
    BY <1>1, <1>2, AttachedContent
  <1>4. rev \in Nat
    BY ReadType
  <1>5. Begin(p, b, c, a, "upload", after, None, rev, "upload")
    BY DEF AddAttachment
  <1>6. /\ issued' \subseteq Cards /\ doomed' \subseteq Cards
        /\ issuedAtts' \in [Cards -> SUBSET Attachments]
    BY <1>1 DEF AddAttachment
  <1> HIDE DEF after, rev
  <1>7. "upload" \in Stages /\ "upload" \notin MoveStages
    BY DEF Stages, MoveStages, ArchiveStages
  <1>8. QED
    BY <1>3, <1>4, <1>5, <1>6, <1>7, BeginTyped

LEMMA DeleteAttachmentTyped ==
  ASSUME Typed, NEW p \in Procs, NEW b \in Boards, NEW c \in Cards, NEW a \in Attachments,
         DeleteAttachment(p, b, c, a)
  PROVE  Typed'
  <1> DEFINE after == Detached(file[b], c, a)
             rev == Active(b).cards[c].rev + 1
  <1>1. /\ file[b] \in Content
        /\ issued \subseteq Cards /\ doomed \subseteq Cards
        /\ issuedAtts \in [Cards -> SUBSET Attachments]
    BY ReadType
  <1>2. Has(file[b]["active"], c)
    BY ReadType DEF DeleteAttachment
  <1>3. after \in Content
    BY <1>1, <1>2, AttachedContent
  <1>4. rev \in Nat
    BY ReadType
  <1>5. Begin(p, b, c, a, "file", after, None, rev, "quarantine")
    BY DEF DeleteAttachment
  <1>6. /\ issued' \subseteq Cards /\ doomed' \subseteq Cards
        /\ issuedAtts' \in [Cards -> SUBSET Attachments]
    BY <1>1 DEF DeleteAttachment
  <1> HIDE DEF after, rev
  <1>7. "quarantine" \in Stages /\ "quarantine" \notin MoveStages
    BY DEF Stages, MoveStages, ArchiveStages
  <1>8. QED
    BY <1>3, <1>4, <1>5, <1>6, <1>7, BeginTyped

LEMMA DeleteCardTyped ==
  ASSUME Typed, NEW p \in Procs, NEW b \in Boards, NEW c \in Cards, DeleteCard(p, b, c)
  PROVE  Typed'
  <1> DEFINE after == Deleted(file[b], c)
             q == Quarantined(b, c, Active(b).cards[c], "write")
  <1>1. /\ file[b] \in Content
        /\ issued \subseteq Cards /\ doomed \subseteq Cards
        /\ issuedAtts \in [Cards -> SUBSET Attachments]
    BY ReadType
  <1>2. after \in Content
    BY <1>1, DeletedContent
  <1>3. Begin(p, b, c, None, q.undo, after, None, 0, q.stage)
    BY DEF DeleteCard
  <1>4. /\ issued' \subseteq Cards /\ doomed' \subseteq Cards
        /\ issuedAtts' \in [Cards -> SUBSET Attachments]
    BY <1>1 DEF DeleteCard
  <1> HIDE DEF after
  <1>5. \/ q.undo = "nothing" /\ q.stage = "write"
        \/ q.undo = "directory" /\ q.stage = "quarantine"
    BY DEF Quarantined
  <1> HIDE DEF q
  <1>6. /\ q.stage \in Stages /\ q.stage \notin MoveStages
        /\ q.undo \in {"nothing", "upload", "file", "directory"}
    BY <1>5 DEF Stages, MoveStages, ArchiveStages
  <1>7. QED
    BY <1>2, <1>3, <1>4, <1>5, <1>6, BeginTyped

LEMMA DeleteArchivedCardTyped ==
  ASSUME Typed, NEW p \in Procs, NEW b \in Boards, NEW c \in Cards, DeleteArchivedCard(p, b, c)
  PROVE  Typed'
  <1> DEFINE after == DeletedArchived(file[b], c)
             q == Quarantined(b, c, Archive(b).cards[c], "journal")
  <1>1. /\ file[b] \in Content
        /\ issued \subseteq Cards /\ doomed \subseteq Cards
        /\ issuedAtts \in [Cards -> SUBSET Attachments]
    BY ReadType
  <1>2. after \in Content
    BY <1>1, DeletedArchivedContent
  <1>3. Begin(p, b, c, None, q.undo, after, None, 0, q.stage)
    BY DEF DeleteArchivedCard
  <1>4. /\ issued' \subseteq Cards /\ doomed' \subseteq Cards
        /\ issuedAtts' \in [Cards -> SUBSET Attachments]
    BY <1>1 DEF DeleteArchivedCard
  <1> HIDE DEF after
  <1>5. \/ q.undo = "nothing" /\ q.stage = "journal"
        \/ q.undo = "directory" /\ q.stage = "quarantine"
    BY DEF Quarantined
  <1> HIDE DEF q
  <1>6. /\ q.stage \in Stages /\ q.stage \notin MoveStages
        /\ q.undo \in {"nothing", "upload", "file", "directory"}
    BY <1>5 DEF Stages, MoveStages, ArchiveStages
  <1>7. QED
    BY <1>2, <1>3, <1>4, <1>5, <1>6, BeginTyped

LEMMA MoveCardToBoardTyped ==
  ASSUME Typed, NEW p \in Procs, NEW s \in Boards, NEW d \in Boards, NEW c \in Cards,
         NEW kind \in Kinds, MoveCardToBoard(p, s, d, c, kind)
  PROVE  Typed'
  <1> DEFINE card == file[s][kind].cards[c]
             out  == MovedOut(file[s], c, kind)
             in   == MovedIn(file[d], c, kind, card)
             move == [state |-> "commit", kind |-> kind, source |-> s, destination |-> d,
                      card |-> c, atts |-> card.atts # {},
                      sourceBefore |-> file[s][kind], sourceAfter |-> out,
                      destinationBefore |-> file[d][kind], destinationAfter |-> in]
  <1>1. /\ file[s] \in Content /\ file[d] \in Content
        /\ issued \subseteq Cards /\ doomed \subseteq Cards
        /\ issuedAtts \in [Cards -> SUBSET Attachments]
    BY ReadType
  <1>2. file[s][kind] \in Image /\ file[d][kind] \in Image
    BY <1>1, ContentImages
  <1>3. card \in Card /\ card.rev + 1 \in Nat
    BY <1>2, CardOf
  <1>4. out \in Image
    BY <1>1, MovedOutImage
  <1>5. in \in Image
    BY <1>1, <1>3, MovedInImage
  <1>6. Begin(p, s, c, None, "nothing", EmptyContent, move, card.rev + 1, "moveJournal") /\ s # d
    BY DEF MoveCardToBoard
  <1>7. /\ issued' \subseteq Cards /\ doomed' \subseteq Cards
        /\ issuedAtts' \in [Cards -> SUBSET Attachments]
    BY <1>1 DEF MoveCardToBoard
  <1> HIDE DEF card, out, in
  <1>8. move \in MoveJournal
    BY <1>2, <1>4, <1>5, <1>6 DEF MoveJournal
  <1> HIDE DEF move
  <1>9. "moveJournal" \in Stages /\ EmptyContent \in Content /\ move # None
    BY <1>8, EmptyContentType, NoneIsNoRecord DEF Stages, MoveStages, ArchiveStages
  <1>10. QED
    BY <1>3, <1>6, <1>7, <1>8, <1>9, BeginTyped

-----------------------------------------------------------------------------
(* The file-system calls.                                                  *)

\* A call that leaves the job in memory alone.
LEMMA CallTyped ==
  ASSUME Typed, NEW p \in Procs, NEW stage \in Stages, Goto(p, stage),
         UNCHANGED <<locks, job, ghosts, ops, crashes>>, DiskOK',
         (\E o \in Outcomes : Io(o) \/ Call(o)) \/ UNCHANGED faults,
         JobFits(stage, job[p])
  PROVE  Typed'
  <1>1. DiskOK /\ LocksOK /\ MemoryOK /\ GhostsOK /\ BoundsOK /\ JobsFit
    BY TypeParts DEF Typed, Parts
  <1>2. LocksOK' /\ GhostsOK'
    BY <1>1 DEF LocksOK, GhostsOK, locks, ghosts
  <1>3. BoundsOK'
    BY <1>1 DEF BoundsOK, Io, Call
  <1>4. MemoryOK' /\ JobsFit'
    BY <1>1, StepFitsSameJob DEF Goto
  <1>5. QED
    BY <1>2, <1>3, <1>4, TypeParts DEF Typed, Parts

\* A process at a call has a job, and the job fits the call.
LEMMA AtCall ==
  ASSUME Typed, NEW p \in Procs, pc[p] \notin {"idle", "recover"}
  PROVE  /\ job[p] \in Job /\ job[p] # None
         /\ job[p].board \in Boards /\ job[p].after \in Content
         /\ job[p].move \in MoveJournal \cup {None}
         /\ JobFits(pc[p], job[p])
         /\ DiskOK
  <1>1. MemoryOK /\ JobsFit /\ DiskOK
    BY TypeParts DEF Typed, Parts
  <1>2. JobFits(pc[p], job[p])
    BY <1>1 DEF JobsFit
  <1>3. job[p] \in Job /\ job[p] # None
    BY <1>1, <1>2 DEF JobFits, MemoryOK
  <1>4. QED
    BY <1>1, <1>2, <1>3 DEF Job

LEMMA AtMoveCall ==
  ASSUME Typed, NEW p \in Procs, pc[p] \in MoveStages \cup {"moveJournal", "rollback"}
  PROVE  /\ job[p].move \in MoveJournal
         /\ job[p].move.source \in Boards /\ job[p].move.destination \in Boards
         /\ job[p].move.source # job[p].move.destination
         /\ job[p].move.kind \in Kinds /\ job[p].move.card \in Cards
         /\ PairOf(job[p].move) \in Pairs
  <1>1. pc[p] \notin {"idle", "recover"}
    BY DEF MoveStages
  <1>2. job[p].move \in MoveJournal
    BY <1>1, AtCall DEF JobFits
  <1>3. QED
    BY <1>2 DEF MoveJournal, PairOf, Pairs

LEMMA WriteImage ==
  ASSUME file \in [Boards -> Content], NEW b \in Boards, NEW k \in Kinds, NEW img \in Image
  PROVE  [file EXCEPT ![b][k] = img] \in [Boards -> Content]
  BY DEF Content

LEMMA WriteActiveTyped ==
  ASSUME Typed, NEW p \in Procs, NEW o \in Outcomes, WriteActive(p, o)
  PROVE  Typed'
  <1> DEFINE j == job[p]
             stage == IF o = "ok" THEN Succeeded(j) ELSE Failed(j)
  <1>1. pc[p] = "write"
    BY DEF WriteActive
  <1>2. /\ j \in Job /\ j # None /\ j.board \in Boards /\ j.after \in Content
        /\ JobFits("write", j) /\ DiskOK
    BY <1>1, AtCall
  <1>3. [file EXCEPT ![j.board]["active"] = j.after["active"]] \in [Boards -> Content]
    BY <1>2, ContentImages, WriteImage DEF DiskOK, Kinds
  <1>4. DiskOK'
    BY <1>2, <1>3 DEF WriteActive, DiskOK, WalOnly
  <1>5. stage \in Stages /\ JobFits(stage, j)
    BY <1>2 DEF JobFits, Succeeded, Failed, Stages, MoveStages, ArchiveStages
  <1>6. Goto(p, stage) /\ Io(o) /\ UNCHANGED <<locks, job, ghosts, ops, crashes>>
    BY DEF WriteActive, WalOnly
  <1> HIDE DEF stage
  <1>7. QED
    BY <1>4, <1>5, <1>6, CallTyped

LEMMA CommitArchiveTyped ==
  ASSUME Typed, NEW p \in Procs, NEW o \in Outcomes, CommitArchive(p, o)
  PROVE  Typed'
  <1> DEFINE j == job[p]
             stage == IF o = "ok" THEN "applyDone" ELSE Failed(j)
  <1>1. pc[p] = "journal"
    BY DEF CommitArchive
  <1>2. /\ j \in Job /\ j # None /\ j.board \in Boards /\ j.after \in Content
        /\ JobFits("journal", j) /\ DiskOK
    BY <1>1, AtCall
  <1>3. [wal EXCEPT ![j.board] = j.after] \in [Boards -> Content \cup {None}]
    BY <1>2 DEF DiskOK
  <1>4. DiskOK'
    BY <1>2, <1>3 DEF CommitArchive, DiskOK, WalOnly
  <1>5. stage \in Stages /\ JobFits(stage, j)
    BY <1>2 DEF JobFits, Succeeded, Failed, Stages, MoveStages, ArchiveStages
  <1>6. Goto(p, stage) /\ Io(o) /\ UNCHANGED <<locks, job, ghosts, ops, crashes>>
    BY DEF CommitArchive, WalOnly
  <1> HIDE DEF stage
  <1>7. QED
    BY <1>4, <1>5, <1>6, CallTyped

LEMMA ApplyDoneTyped ==
  ASSUME Typed, NEW p \in Procs, NEW o \in Outcomes, ApplyDone(p, o)
  PROVE  Typed'
  <1> DEFINE j == job[p]
             stage == IF o = "ok" THEN "applyBoard" ELSE Failed(j)
  <1>1. pc[p] = "applyDone"
    BY DEF ApplyDone
  <1>2. /\ j \in Job /\ j # None /\ j.board \in Boards /\ j.after \in Content
        /\ JobFits("applyDone", j) /\ DiskOK
    BY <1>1, AtCall
  <1>3. [file EXCEPT ![j.board]["archive"] = j.after["archive"]] \in [Boards -> Content]
    BY <1>2, ContentImages, WriteImage DEF DiskOK, Kinds
  <1>4. DiskOK'
    BY <1>2, <1>3 DEF ApplyDone, DiskOK, WalOnly
  <1>5. stage \in Stages /\ JobFits(stage, j)
    BY <1>2 DEF JobFits, Succeeded, Failed, Stages, MoveStages, ArchiveStages
  <1>6. Goto(p, stage) /\ Io(o) /\ UNCHANGED <<locks, job, ghosts, ops, crashes>>
    BY DEF ApplyDone, WalOnly
  <1> HIDE DEF stage
  <1>7. QED
    BY <1>4, <1>5, <1>6, CallTyped

LEMMA ApplyBoardTyped ==
  ASSUME Typed, NEW p \in Procs, NEW o \in Outcomes, ApplyBoard(p, o)
  PROVE  Typed'
  <1> DEFINE j == job[p]
             stage == IF o = "ok" THEN "removeArchive" ELSE Failed(j)
  <1>1. pc[p] = "applyBoard"
    BY DEF ApplyBoard
  <1>2. /\ j \in Job /\ j # None /\ j.board \in Boards /\ j.after \in Content
        /\ JobFits("applyBoard", j) /\ DiskOK
    BY <1>1, AtCall
  <1>3. [file EXCEPT ![j.board]["active"] = j.after["active"]] \in [Boards -> Content]
    BY <1>2, ContentImages, WriteImage DEF DiskOK, Kinds
  <1>4. DiskOK'
    BY <1>2, <1>3 DEF ApplyBoard, DiskOK, WalOnly
  <1>5. stage \in Stages /\ JobFits(stage, j)
    BY <1>2 DEF JobFits, Succeeded, Failed, Stages, MoveStages, ArchiveStages
  <1>6. Goto(p, stage) /\ Io(o) /\ UNCHANGED <<locks, job, ghosts, ops, crashes>>
    BY DEF ApplyBoard, WalOnly
  <1> HIDE DEF stage
  <1>7. QED
    BY <1>4, <1>5, <1>6, CallTyped

LEMMA RemoveArchiveTyped ==
  ASSUME Typed, NEW p \in Procs, NEW o \in Outcomes, RemoveArchive(p, o)
  PROVE  Typed'
  <1> DEFINE j == job[p]
             stage == IF o = "ok" THEN Succeeded(j) ELSE Failed(j)
  <1>1. pc[p] = "removeArchive"
    BY DEF RemoveArchive
  <1>2. /\ j \in Job /\ j # None /\ j.board \in Boards /\ j.after \in Content
        /\ JobFits("removeArchive", j) /\ DiskOK
    BY <1>1, AtCall
  <1>3. [wal EXCEPT ![j.board] = None] \in [Boards -> Content \cup {None}]
    BY <1>2 DEF DiskOK
  <1>4. DiskOK'
    BY <1>2, <1>3 DEF RemoveArchive, DiskOK, WalOnly
  <1>5. stage \in Stages /\ JobFits(stage, j)
    BY <1>2 DEF JobFits, Succeeded, Failed, Stages, MoveStages, ArchiveStages
  <1>6. Goto(p, stage) /\ Io(o) /\ UNCHANGED <<locks, job, ghosts, ops, crashes>>
    BY DEF RemoveArchive, WalOnly
  <1> HIDE DEF stage
  <1>7. QED
    BY <1>4, <1>5, <1>6, CallTyped

LEMMA DirectoryType ==
  ASSUME NEW d \in Directory \cup {None}, NEW a \in Attachments
  PROVE  /\ Made(d) \in Directory
         /\ [Made(d) EXCEPT !.live = @ \cup {a}] \in Directory
         /\ RemoveFile(d, a) \in Directory \cup {None}
         /\ RemoveBinned(d, a) \in Directory \cup {None}
         /\ Unbinned(d, a) \in Directory \cup {None}
         /\ d # None => Binned(d, a) \in Directory
  <1>1. EmptyDir \in Directory
    BY DEF EmptyDir, Directory
  <1>2. Made(d) \in Directory
    BY <1>1 DEF Made
  <1>3. \A e \in Directory : /\ [e EXCEPT !.live = @ \cup {a}] \in Directory
                             /\ [e EXCEPT !.live = @ \ {a}] \in Directory
                             /\ [e EXCEPT !.bin = @ \ {a}] \in Directory
    BY DEF Directory
  <1>4. \A e \in Directory : /\ [e EXCEPT !.live = @ \cup {a}, !.bin = @ \ {a}] \in Directory
                             /\ [e EXCEPT !.live = @ \ {a}, !.bin = @ \cup {a}] \in Directory
    BY DEF Directory
  <1>5. QED
    BY <1>2, <1>3, <1>4 DEF RemoveFile, RemoveBinned, Unbinned, Binned

\* The directories after a call that changes at most one of a card's.
LEMMA SetDirOK ==
  ASSUME DiskOK, NEW b \in Boards, NEW c \in Cards,
         NEW d \in Directory \cup {None}, NEW e \in Directory \cup {None},
         UNCHANGED <<file, wal, moveWal>>,
         SetDir(b, c, d) \/ UNCHANGED dir, SetBin(b, c, e) \/ UNCHANGED bin
  PROVE  DiskOK'
  <1>1. dir' \in [Boards -> [Cards -> Directory \cup {None}]]
    <2>1. dir \in [Boards -> [Cards -> Directory \cup {None}]]
      BY DEF DiskOK
    <2>2. CASE dir' = [dir EXCEPT ![b][c] = d]
      BY <2>1, <2>2
    <2>3. QED
      BY <2>1, <2>2 DEF SetDir
  <1>2. bin' \in [Boards -> [Cards -> Directory \cup {None}]]
    <2>1. bin \in [Boards -> [Cards -> Directory \cup {None}]]
      BY DEF DiskOK
    <2>2. CASE bin' = [bin EXCEPT ![b][c] = e]
      BY <2>1, <2>2
    <2>3. QED
      BY <2>1, <2>2 DEF SetBin
  <1>3. QED
    BY <1>1, <1>2 DEF DiskOK

\* A process at an attachment call.
LEMMA AtAttachmentCall ==
  ASSUME Typed, NEW p \in Procs, pc[p] \in {"upload", "quarantine", "undo", "purge"}
  PROVE  LET j == job[p]
         IN  /\ j.board \in Boards /\ j.card \in Cards
             /\ j.undo \in {"upload", "file"} => j.att \in Attachments
             /\ pc[p] = "upload" => j.undo = "upload"
             /\ j # None /\ j.undo # "nothing"
             /\ dir[j.board][j.card] \in Directory \cup {None}
             /\ bin[j.board][j.card] \in Directory \cup {None}
             /\ DiskOK /\ JobFits(pc[p], j)
  <1>1. /\ job[p] # None /\ job[p].board \in Boards /\ DiskOK
        /\ JobFits(pc[p], job[p])
    BY AtCall
  <1>2. job[p].undo # "nothing" /\ job[p].card \in Cards
    BY <1>1 DEF JobFits
  <1>3. QED
    BY <1>1, <1>2 DEF JobFits, DiskOK

LEMMA UploadTyped ==
  ASSUME Typed, NEW p \in Procs, Upload(p)
  PROVE  Typed'
  <1> DEFINE j == job[p]
             b == j.board
             c == j.card
             a == j.att
  <1>1. pc[p] = "upload"
    BY DEF Upload
  <1>2. /\ b \in Boards /\ c \in Cards
        /\ j.undo \in {"upload", "file"} => a \in Attachments
        /\ pc[p] = "upload" => j.undo = "upload"
        /\ j # None /\ j.undo # "nothing"
        /\ dir[b][c] \in Directory \cup {None} /\ bin[b][c] \in Directory \cup {None}
        /\ DiskOK /\ JobFits(pc[p], j)
    BY <1>1, AtAttachmentCall
  <1>3. DiskOK'
    <2>1. UNCHANGED <<file, wal, moveWal>>
      BY DEF Upload, IoOnly
    <2>2. PICK d \in Directory \cup {None}, e \in Directory \cup {None} :
            /\ SetDir(b, c, d) \/ UNCHANGED dir
            /\ SetBin(b, c, e) \/ UNCHANGED bin
      BY <1>1, <1>2, DirectoryType DEF Upload
    <2>3. QED
      BY <1>2, <2>1, <2>2, SetDirOK
  <1>4. PICK stage \in {"write"} : Goto(p, stage)
    BY DEF Upload
  <1>5. stage \in Stages /\ JobFits(stage, j)
    BY <1>1, <1>2 DEF JobFits, Stages, MoveStages, ArchiveStages
  <1>6. /\ UNCHANGED <<locks, job, ghosts, ops, crashes>>
        /\ UNCHANGED faults
    BY DEF Upload, IoOnly, Call
  <1>7. QED
    BY <1>3, <1>5, <1>4, <1>6, CallTyped

LEMMA UploadRefusedTyped ==
  ASSUME Typed, NEW p \in Procs, UploadRefused(p)
  PROVE  Typed'
  <1> DEFINE j == job[p]
             b == j.board
             c == j.card
             a == j.att
  <1>1. pc[p] = "upload"
    BY DEF UploadRefused
  <1>2. /\ b \in Boards /\ c \in Cards
        /\ j.undo \in {"upload", "file"} => a \in Attachments
        /\ pc[p] = "upload" => j.undo = "upload"
        /\ j # None /\ j.undo # "nothing"
        /\ dir[b][c] \in Directory \cup {None} /\ bin[b][c] \in Directory \cup {None}
        /\ DiskOK /\ JobFits(pc[p], j)
    BY <1>1, AtAttachmentCall
  <1>3. DiskOK'
    <2>1. UNCHANGED <<file, wal, moveWal>>
      BY DEF UploadRefused, IoOnly
    <2>2. PICK d \in Directory \cup {None}, e \in Directory \cup {None} :
            /\ SetDir(b, c, d) \/ UNCHANGED dir
            /\ SetBin(b, c, e) \/ UNCHANGED bin
      BY <1>1, <1>2, DirectoryType DEF UploadRefused
    <2>3. QED
      BY <1>2, <2>1, <2>2, SetDirOK
  <1>4. PICK stage \in {"error"} : Goto(p, stage)
    BY DEF UploadRefused
  <1>5. stage \in Stages /\ JobFits(stage, j)
    BY <1>1, <1>2 DEF JobFits, Stages, MoveStages, ArchiveStages
  <1>6. /\ UNCHANGED <<locks, job, ghosts, ops, crashes>>
        /\ UNCHANGED faults
    BY DEF UploadRefused, IoOnly, Call
  <1>7. QED
    BY <1>3, <1>5, <1>4, <1>6, CallTyped

LEMMA QuarantineFileTyped ==
  ASSUME Typed, NEW p \in Procs, NEW o \in Outcomes, QuarantineFile(p, o)
  PROVE  Typed'
  <1> DEFINE j == job[p]
             b == j.board
             c == j.card
             a == j.att
  <1>1. pc[p] = "quarantine"
    BY DEF QuarantineFile
  <1>2. /\ b \in Boards /\ c \in Cards
        /\ j.undo \in {"upload", "file"} => a \in Attachments
        /\ pc[p] = "upload" => j.undo = "upload"
        /\ j # None /\ j.undo # "nothing"
        /\ dir[b][c] \in Directory \cup {None} /\ bin[b][c] \in Directory \cup {None}
        /\ DiskOK /\ JobFits(pc[p], j)
    BY <1>1, AtAttachmentCall
  <1>3. DiskOK'
    <2>1. UNCHANGED <<file, wal, moveWal>>
      BY DEF QuarantineFile, IoOnly
    <2>2. PICK d \in Directory \cup {None}, e \in Directory \cup {None} :
            /\ SetDir(b, c, d) \/ UNCHANGED dir
            /\ SetBin(b, c, e) \/ UNCHANGED bin
      BY <1>2, DirectoryType DEF QuarantineFile
    <2>3. QED
      BY <1>2, <2>1, <2>2, SetDirOK
  <1>4. PICK stage \in {"write", "error"} : Goto(p, stage)
    BY DEF QuarantineFile
  <1>5. stage \in Stages /\ JobFits(stage, j)
    BY <1>1, <1>2 DEF JobFits, Stages, MoveStages, ArchiveStages
  <1>6. /\ UNCHANGED <<locks, job, ghosts, ops, crashes>>
        /\ Io(o) \/ Call(o)
    BY DEF QuarantineFile, IoOnly, Call
  <1>7. QED
    BY <1>3, <1>5, <1>4, <1>6, CallTyped

LEMMA QuarantineDirectoryTyped ==
  ASSUME Typed, NEW p \in Procs, NEW o \in Outcomes, QuarantineDirectory(p, o)
  PROVE  Typed'
  <1> DEFINE j == job[p]
             b == j.board
             c == j.card
             a == j.att
  <1>1. pc[p] = "quarantine"
    BY DEF QuarantineDirectory
  <1>2. /\ b \in Boards /\ c \in Cards
        /\ j.undo \in {"upload", "file"} => a \in Attachments
        /\ pc[p] = "upload" => j.undo = "upload"
        /\ j # None /\ j.undo # "nothing"
        /\ dir[b][c] \in Directory \cup {None} /\ bin[b][c] \in Directory \cup {None}
        /\ DiskOK /\ JobFits(pc[p], j)
    BY <1>1, AtAttachmentCall
  <1>3. DiskOK'
    <2>1. UNCHANGED <<file, wal, moveWal>>
      BY DEF QuarantineDirectory, IoOnly
    <2>2. PICK d \in Directory \cup {None}, e \in Directory \cup {None} :
            /\ SetDir(b, c, d) \/ UNCHANGED dir
            /\ SetBin(b, c, e) \/ UNCHANGED bin
      BY <1>2 DEF QuarantineDirectory
    <2>3. QED
      BY <1>2, <2>1, <2>2, SetDirOK
  <1>4. PICK stage \in {"write", "journal", "error"} : Goto(p, stage)
    BY DEF QuarantineDirectory
  <1>5. stage \in Stages /\ JobFits(stage, j)
    BY <1>1, <1>2 DEF JobFits, Stages, MoveStages, ArchiveStages
  <1>6. /\ UNCHANGED <<locks, job, ghosts, ops, crashes>>
        /\ Io(o) \/ Call(o)
    BY DEF QuarantineDirectory, IoOnly, Call
  <1>7. QED
    BY <1>3, <1>5, <1>4, <1>6, CallTyped

LEMMA UndoTyped ==
  ASSUME Typed, NEW p \in Procs, NEW o \in Outcomes, Undo(p, o)
  PROVE  Typed'
  <1> DEFINE j == job[p]
             b == j.board
             c == j.card
             a == j.att
  <1>1. pc[p] = "undo"
    BY DEF Undo
  <1>2. /\ b \in Boards /\ c \in Cards
        /\ j.undo \in {"upload", "file"} => a \in Attachments
        /\ pc[p] = "upload" => j.undo = "upload"
        /\ j # None /\ j.undo # "nothing"
        /\ dir[b][c] \in Directory \cup {None} /\ bin[b][c] \in Directory \cup {None}
        /\ DiskOK /\ JobFits(pc[p], j)
    BY <1>1, AtAttachmentCall
  <1>3. DiskOK'
    <2>1. UNCHANGED <<file, wal, moveWal>>
      BY DEF Undo, IoOnly
    <2>2. PICK d \in Directory \cup {None}, e \in Directory \cup {None} :
            /\ SetDir(b, c, d) \/ UNCHANGED dir
            /\ SetBin(b, c, e) \/ UNCHANGED bin
      BY <1>2, DirectoryType DEF Undo
    <2>3. QED
      BY <1>2, <2>1, <2>2, SetDirOK
  <1>4. PICK stage \in {"error"} : Goto(p, stage)
    BY DEF Undo
  <1>5. stage \in Stages /\ JobFits(stage, j)
    BY <1>1, <1>2 DEF JobFits, Stages, MoveStages, ArchiveStages
  <1>6. /\ UNCHANGED <<locks, job, ghosts, ops, crashes>>
        /\ Io(o) \/ Call(o)
    BY DEF Undo, IoOnly, Call
  <1>7. QED
    BY <1>3, <1>5, <1>4, <1>6, CallTyped

LEMMA PurgeTyped ==
  ASSUME Typed, NEW p \in Procs, NEW o \in Outcomes, Purge(p, o)
  PROVE  Typed'
  <1> DEFINE j == job[p]
             b == j.board
             c == j.card
             a == j.att
  <1>1. pc[p] = "purge"
    BY DEF Purge
  <1>2. /\ b \in Boards /\ c \in Cards
        /\ j.undo \in {"upload", "file"} => a \in Attachments
        /\ pc[p] = "upload" => j.undo = "upload"
        /\ j # None /\ j.undo # "nothing"
        /\ dir[b][c] \in Directory \cup {None} /\ bin[b][c] \in Directory \cup {None}
        /\ DiskOK /\ JobFits(pc[p], j)
    BY <1>1, AtAttachmentCall
  <1>3. DiskOK'
    <2>1. UNCHANGED <<file, wal, moveWal>>
      BY DEF Purge, IoOnly
    <2>2. PICK d \in Directory \cup {None}, e \in Directory \cup {None} :
            /\ SetDir(b, c, d) \/ UNCHANGED dir
            /\ SetBin(b, c, e) \/ UNCHANGED bin
      BY <1>2, DirectoryType DEF Purge
    <2>3. QED
      BY <1>2, <2>1, <2>2, SetDirOK
  <1>4. PICK stage \in {"ok", "error"} : Goto(p, stage)
    BY DEF Purge
  <1>5. stage \in Stages /\ JobFits(stage, j)
    BY <1>1, <1>2 DEF JobFits, Stages, MoveStages, ArchiveStages
  <1>6. /\ UNCHANGED <<locks, job, ghosts, ops, crashes>>
        /\ Io(o) \/ Call(o)
    BY DEF Purge, IoOnly, Call
  <1>7. QED
    BY <1>3, <1>5, <1>4, <1>6, CallTyped

LEMMA WriteMoveJournalTyped ==
  ASSUME Typed, NEW p \in Procs, NEW o \in Outcomes, WriteMoveJournal(p, o)
  PROVE  Typed'
  <1> DEFINE j == job[p]
             m == j.move
  <1>1. pc[p] = "moveJournal" /\ "moveJournal" \in MoveStages \cup {"moveJournal", "rollback"}
    BY DEF WriteMoveJournal, MoveStages
  <1>2. /\ j \in Job /\ j # None /\ JobFits("moveJournal", j) /\ DiskOK
        /\ m \in MoveJournal /\ m # None
    BY <1>1, AtCall, AtMoveCall, NoneIsNoRecord
  <1>3. /\ m.source \in Boards /\ m.destination \in Boards /\ m.source # m.destination
        /\ m.kind \in Kinds /\ m.card \in Cards /\ PairOf(m) \in Pairs
    BY <1>1, AtMoveCall
  <1>4. DiskOK'
    BY <1>2, <1>3 DEF WriteMoveJournal, DiskOK, MoveOnly
  <1>5. PICK stage \in MoveStages \cup {"error"} : Goto(p, stage)
    BY <1>2, FirstMoveStageType DEF WriteMoveJournal
  <1>6. stage \in Stages /\ JobFits(stage, j)
    BY <1>1, <1>2 DEF JobFits, Stages, MoveStages, ArchiveStages
  <1>7. UNCHANGED <<locks, job, ghosts, ops, crashes>> /\ Io(o)
    BY DEF WriteMoveJournal, MoveOnly
  <1>8. QED
    BY <1>4, <1>5, <1>6, <1>7, CallTyped

LEMMA PlaceAttachmentsTyped ==
  ASSUME Typed, NEW p \in Procs, NEW o \in Outcomes, PlaceAttachments(p, o)
  PROVE  Typed'
  <1> DEFINE j == job[p]
             m == j.move
  <1>1. pc[p] = "place" /\ "place" \in MoveStages \cup {"moveJournal", "rollback"}
    BY DEF PlaceAttachments, MoveStages
  <1>2. /\ j \in Job /\ j # None /\ JobFits("place", j) /\ DiskOK
        /\ m \in MoveJournal /\ m # None
    BY <1>1, AtCall, AtMoveCall, NoneIsNoRecord
  <1>3. /\ m.source \in Boards /\ m.destination \in Boards /\ m.source # m.destination
        /\ m.kind \in Kinds /\ m.card \in Cards /\ PairOf(m) \in Pairs
    BY <1>1, AtMoveCall
  <1>4. DiskOK'
    <2> DEFINE from == IF m.state = "commit" THEN m.source ELSE m.destination
               to   == IF m.state = "commit" THEN m.destination ELSE m.source
    <2>1. from \in Boards /\ to \in Boards /\ from # to
      BY <1>3
    <2>2. \/ UNCHANGED dir
          \/ dir' = [dir EXCEPT ![from][m.card] = None, ![to][m.card] = dir[from][m.card]]
      BY DEF PlaceAttachments
    <2>3. UNCHANGED <<file, wal, moveWal, bin>>
      BY DEF PlaceAttachments, MoveOnly
    <2> HIDE DEF from, to
    <2>4. dir \in [Boards -> [Cards -> Directory \cup {None}]]
      BY <1>2 DEF DiskOK
    <2>5. dir[from][m.card] \in Directory \cup {None}
      BY <1>3, <2>1, <2>4
    <2>6. dir' \in [Boards -> [Cards -> Directory \cup {None}]]
      BY <1>3, <2>1, <2>2, <2>4, <2>5
    <2>7. QED
      BY <1>2, <2>3, <2>6 DEF DiskOK
  <1>5. PICK stage \in {"writeDestination", "rollback", "error"} : Goto(p, stage)
    BY DEF PlaceAttachments, MoveFailed
  <1>6. stage \in Stages /\ JobFits(stage, j)
    BY <1>1, <1>2 DEF JobFits, Stages, MoveStages, ArchiveStages
  <1>7. UNCHANGED <<locks, job, ghosts, ops, crashes>> /\ Io(o)
    BY DEF PlaceAttachments, MoveOnly
  <1>8. QED
    BY <1>4, <1>5, <1>6, <1>7, CallTyped

LEMMA WriteDestinationTyped ==
  ASSUME Typed, NEW p \in Procs, NEW o \in Outcomes, WriteDestination(p, o)
  PROVE  Typed'
  <1> DEFINE j == job[p]
             m == j.move
  <1>1. pc[p] = "writeDestination" /\ "writeDestination" \in MoveStages \cup {"moveJournal", "rollback"}
    BY DEF WriteDestination, MoveStages
  <1>2. /\ j \in Job /\ j # None /\ JobFits("writeDestination", j) /\ DiskOK
        /\ m \in MoveJournal /\ m # None
    BY <1>1, AtCall, AtMoveCall, NoneIsNoRecord
  <1>3. /\ m.source \in Boards /\ m.destination \in Boards /\ m.source # m.destination
        /\ m.kind \in Kinds /\ m.card \in Cards /\ PairOf(m) \in Pairs
    BY <1>1, AtMoveCall
  <1>4. DiskOK'
    <2>1. DestinationImage(m) \in Image
      BY <1>2 DEF DestinationImage, MoveJournal
    <2>2. [file EXCEPT ![m.destination][m.kind] = DestinationImage(m)] \in [Boards -> Content]
      BY <1>2, <1>3, <2>1, WriteImage DEF DiskOK
    <2>3. QED
      BY <1>2, <2>2 DEF WriteDestination, DiskOK, MoveOnly
  <1>5. PICK stage \in {"writeSource", "rollback", "error"} : Goto(p, stage)
    BY DEF WriteDestination, MoveFailed
  <1>6. stage \in Stages /\ JobFits(stage, j)
    BY <1>1, <1>2 DEF JobFits, Stages, MoveStages, ArchiveStages
  <1>7. UNCHANGED <<locks, job, ghosts, ops, crashes>> /\ Io(o)
    BY DEF WriteDestination, MoveOnly
  <1>8. QED
    BY <1>4, <1>5, <1>6, <1>7, CallTyped

LEMMA WriteSourceTyped ==
  ASSUME Typed, NEW p \in Procs, NEW o \in Outcomes, WriteSource(p, o)
  PROVE  Typed'
  <1> DEFINE j == job[p]
             m == j.move
  <1>1. pc[p] = "writeSource" /\ "writeSource" \in MoveStages \cup {"moveJournal", "rollback"}
    BY DEF WriteSource, MoveStages
  <1>2. /\ j \in Job /\ j # None /\ JobFits("writeSource", j) /\ DiskOK
        /\ m \in MoveJournal /\ m # None
    BY <1>1, AtCall, AtMoveCall, NoneIsNoRecord
  <1>3. /\ m.source \in Boards /\ m.destination \in Boards /\ m.source # m.destination
        /\ m.kind \in Kinds /\ m.card \in Cards /\ PairOf(m) \in Pairs
    BY <1>1, AtMoveCall
  <1>4. DiskOK'
    <2>1. SourceImage(m) \in Image
      BY <1>2 DEF SourceImage, MoveJournal
    <2>2. [file EXCEPT ![m.source][m.kind] = SourceImage(m)] \in [Boards -> Content]
      BY <1>2, <1>3, <2>1, WriteImage DEF DiskOK
    <2>3. QED
      BY <1>2, <2>2 DEF WriteSource, DiskOK, MoveOnly
  <1>5. PICK stage \in {"removeMove", "rollback", "error"} : Goto(p, stage)
    BY DEF WriteSource, MoveFailed
  <1>6. stage \in Stages /\ JobFits(stage, j)
    BY <1>1, <1>2 DEF JobFits, Stages, MoveStages, ArchiveStages
  <1>7. UNCHANGED <<locks, job, ghosts, ops, crashes>> /\ Io(o)
    BY DEF WriteSource, MoveOnly
  <1>8. QED
    BY <1>4, <1>5, <1>6, <1>7, CallTyped

LEMMA RemoveMoveTyped ==
  ASSUME Typed, NEW p \in Procs, NEW o \in Outcomes, RemoveMove(p, o)
  PROVE  Typed'
  <1> DEFINE j == job[p]
             m == j.move
  <1>1. pc[p] = "removeMove" /\ "removeMove" \in MoveStages \cup {"moveJournal", "rollback"}
    BY DEF RemoveMove, MoveStages
  <1>2. /\ j \in Job /\ j # None /\ JobFits("removeMove", j) /\ DiskOK
        /\ m \in MoveJournal /\ m # None
    BY <1>1, AtCall, AtMoveCall, NoneIsNoRecord
  <1>3. /\ m.source \in Boards /\ m.destination \in Boards /\ m.source # m.destination
        /\ m.kind \in Kinds /\ m.card \in Cards /\ PairOf(m) \in Pairs
    BY <1>1, AtMoveCall
  <1>4. DiskOK'
    BY <1>2, <1>3 DEF RemoveMove, DiskOK, MoveOnly
  <1>5. PICK stage \in {"recover", "ok", "error"} : Goto(p, stage)
    BY <1>2 DEF RemoveMove, Job
  <1>6. stage \in Stages /\ JobFits(stage, j)
    BY <1>1, <1>2 DEF JobFits, Stages, MoveStages, ArchiveStages
  <1>7. UNCHANGED <<locks, job, ghosts, ops, crashes>> /\ Io(o)
    BY DEF RemoveMove, MoveOnly
  <1>8. QED
    BY <1>4, <1>5, <1>6, <1>7, CallTyped

LEMMA DecideRollbackTyped ==
  ASSUME Typed, NEW p \in Procs, NEW o \in Outcomes, DecideRollback(p, o)
  PROVE  Typed'
  <1> DEFINE j     == job[p]
             back  == [j.move EXCEPT !.state = "rollback"]
             k     == [j EXCEPT !.mode = "rollback", !.move = back]
             stage == IF o = "ok" THEN FirstMoveStage(back) ELSE "error"
  <1>1. DiskOK /\ LocksOK /\ MemoryOK /\ GhostsOK /\ BoundsOK /\ JobsFit
    BY TypeParts DEF Typed, Parts
  <1>2. pc[p] = "rollback"
    BY DEF DecideRollback
  <1>3. j \in Job /\ JobFits("rollback", j) /\ j.move \in MoveJournal
    BY <1>2, AtCall, AtMoveCall DEF MoveStages
  <1>4. back \in MoveJournal /\ PairOf(back) \in Pairs
    BY <1>3 DEF MoveJournal, PairOf, Pairs
  <1>5. DiskOK'
    BY <1>1, <1>4 DEF DecideRollback, DiskOK, MoveOnly
  <1>6. pc' = [pc EXCEPT ![p] = stage] /\ job' = [job EXCEPT ![p] = k]
    BY <1>1 DEF DecideRollback, Goto, MemoryOK
  <1>7. UNCHANGED <<locks, ghosts, ops, crashes>> /\ Io(o)
    BY DEF DecideRollback, MoveOnly
  <1>8. stage \in MoveStages \cup {"error"} /\ stage \in Stages
    BY <1>4, FirstMoveStageType DEF MoveStages, Stages
  <1> HIDE DEF stage, back
  <1>9. /\ k \in Job /\ k.move = back /\ k.undo = j.undo /\ k.card = j.card /\ k.att = j.att
    BY <1>3, <1>4 DEF Job
  <1> HIDE DEF k
  <1>10. JobFits(stage, k)
    BY <1>3, <1>4, <1>8, <1>9, NoneIsNoRecord DEF JobFits, MoveStages
  <1>11. MemoryOK' /\ JobsFit'
    BY <1>1, <1>6, <1>8, <1>9, <1>10, StepFits
  <1>12. LocksOK' /\ GhostsOK' /\ BoundsOK'
    BY <1>1, <1>7 DEF LocksOK, GhostsOK, BoundsOK, locks, ghosts, Io
  <1>13. QED
    BY <1>5, <1>11, <1>12, TypeParts DEF Typed, Parts

-----------------------------------------------------------------------------

LEMMA InitTyped ==
  ASSUME Init
  PROVE  Typed
  <1>1. PICK home \in [Seeded -> Boards \X Kinds], carried \in [Seeded -> SUBSET Attachments] :
          /\ file = [b \in Boards |-> [k \in Kinds |->
               [EmptyImage EXCEPT !.cards = [c \in Cards |->
                  IF c \in Seeded /\ home[c] = <<b, k>>
                  THEN [rev |-> 1, atts |-> carried[c]] ELSE NoCard]]]]
          /\ dir = [b \in Boards |-> [c \in Cards |->
               IF c \in Seeded /\ home[c][1] = b /\ carried[c] # {}
               THEN [live |-> carried[c], bin |-> {}] ELSE None]]
          /\ issuedAtts = [c \in Cards |-> IF c \in Seeded THEN carried[c] ELSE {}]
    BY DEF Init
  <1>2. file \in [Boards -> Content]
    <2> DEFINE cards(b, k) == [c \in Cards |->
                  IF c \in Seeded /\ home[c] = <<b, k>>
                  THEN [rev |-> 1, atts |-> carried[c]] ELSE NoCard]
    <2>1. \A b \in Boards, k \in Kinds : cards(b, k) \in [Cards -> Card]
      BY NoCardType DEF Card
    <2>2. file = [b \in Boards |-> [k \in Kinds |-> [EmptyImage EXCEPT !.cards = cards(b, k)]]]
      BY <1>1
    <2> HIDE DEF cards
    <2>3. \A b \in Boards, k \in Kinds : [EmptyImage EXCEPT !.cards = cards(b, k)] \in Image
      BY <2>1, NoCardType DEF EmptyImage, Image
    <2>4. QED
      BY <2>2, <2>3 DEF Content
  <1>3. dir \in [Boards -> [Cards -> Directory \cup {None}]]
    BY <1>1 DEF Directory
  <1>4. DiskOK
    BY <1>2, <1>3 DEF Init, DiskOK
  <1>5. LocksOK /\ BoundsOK
    BY DEF Init, LocksOK, BoundsOK
  <1>6. MemoryOK /\ JobsFit
    BY DEF Init, MemoryOK, JobsFit, JobFits, Stages, MoveStages, ArchiveStages
  <1>7. GhostsOK
    BY <1>1, BoundsAssumption DEF Init, GhostsOK
  <1>8. QED
    BY <1>4, <1>5, <1>6, <1>7, TypeParts DEF Typed, Parts

LEMMA StutterTyped ==
  ASSUME Typed, UNCHANGED vars
  PROVE  Typed'
  <1>1. DiskOK /\ LocksOK /\ MemoryOK /\ GhostsOK /\ BoundsOK /\ JobsFit
    BY TypeParts DEF Typed, Parts
  <1>2. DiskOK' /\ LocksOK' /\ MemoryOK' /\ GhostsOK' /\ BoundsOK'
    BY <1>1 DEF vars, disk, locks, ghosts, DiskOK, LocksOK, MemoryOK, GhostsOK, BoundsOK
  <1>3. JobsFit'
    BY <1>1 DEF vars, JobsFit, JobFits
  <1>4. QED
    BY <1>2, <1>3, TypeParts DEF Typed, Parts

LEMMA OperationTyped ==
  ASSUME Typed, NEW p \in Procs, Operation(p)
  PROVE  Typed'
  <1>1. ASSUME NEW b \in Boards, NEW c \in Cards,
               CreateCard(p, b, c) \/ EditCard(p, b, c) \/ CompleteCard(p, b, c)
        PROVE  Typed'
    BY <1>1, CreateCardTyped, EditCardTyped, CompleteCardTyped
  <1>2. ASSUME NEW b \in Boards, NEW c \in Cards,
               RestoreCard(p, b, c) \/ DeleteCard(p, b, c) \/ DeleteArchivedCard(p, b, c)
        PROVE  Typed'
    BY <1>2, RestoreCardTyped, DeleteCardTyped, DeleteArchivedCardTyped
  <1>3. ASSUME NEW b \in Boards, NEW c \in Cards, NEW a \in Attachments,
               AddAttachment(p, b, c, a) \/ DeleteAttachment(p, b, c, a)
        PROVE  Typed'
    BY <1>3, AddAttachmentTyped, DeleteAttachmentTyped
  <1>4. ASSUME NEW b \in Boards, NEW focus \in Cards \cup {None}, NEW archived \in BOOLEAN,
               PatchBoardSettings(p, b, focus, archived)
        PROVE  Typed'
    BY <1>4, PatchBoardSettingsTyped
  <1>5. ASSUME NEW s \in Boards, NEW d \in Boards, NEW c \in Cards, NEW kind \in Kinds,
               MoveCardToBoard(p, s, d, c, kind)
        PROVE  Typed'
    BY <1>5, MoveCardToBoardTyped
  <1>6. QED
    BY <1>1, <1>2, <1>3, <1>4, <1>5 DEF Operation

LEMMA StepTyped ==
  ASSUME Typed, NEW p \in Procs, Step(p)
  PROVE  Typed'
  <1>1. ASSUME NEW b \in Boards, RecoverArchive(p, b) PROVE Typed'
    BY <1>1, RecoverArchiveTyped
  <1>2. ASSUME NEW pr \in Pairs, RecoverMove(p, pr) PROVE Typed'
    BY <1>2, RecoverMoveTyped
  <1>3. CASE Upload(p) \/ UploadRefused(p)
    BY <1>3, UploadTyped, UploadRefusedTyped
  <1>4. ASSUME NEW o \in Outcomes,
               QuarantineFile(p, o) \/ QuarantineDirectory(p, o) \/ Undo(p, o) \/ Purge(p, o)
        PROVE  Typed'
    BY <1>4, QuarantineFileTyped, QuarantineDirectoryTyped, UndoTyped, PurgeTyped
  <1>5. ASSUME NEW o \in Outcomes,
               \/ WriteActive(p, o) \/ CommitArchive(p, o) \/ ApplyDone(p, o)
               \/ ApplyBoard(p, o) \/ RemoveArchive(p, o)
        PROVE  Typed'
    BY <1>5, WriteActiveTyped, CommitArchiveTyped, ApplyDoneTyped, ApplyBoardTyped,
       RemoveArchiveTyped
  <1>6. ASSUME NEW o \in Outcomes,
               \/ WriteMoveJournal(p, o) \/ PlaceAttachments(p, o) \/ WriteDestination(p, o)
               \/ WriteSource(p, o) \/ DecideRollback(p, o) \/ RemoveMove(p, o)
        PROVE  Typed'
    BY <1>6, WriteMoveJournalTyped, PlaceAttachmentsTyped, WriteDestinationTyped,
       WriteSourceTyped, DecideRollbackTyped, RemoveMoveTyped
  <1>7. CASE Return(p)
    BY <1>7, ReturnTyped
  <1>8. QED
    BY <1>1, <1>2, <1>3, <1>4, <1>5, <1>6, <1>7 DEF Step

LEMMA NextTyped ==
  ASSUME Typed, [Next]_vars
  PROVE  Typed'
  <1>1. CASE UNCHANGED vars
    BY <1>1, StutterTyped
  <1>2. ASSUME NEW p \in Procs, NEW names \in Requests, Enter(p, names) PROVE Typed'
    <2>1. names \in SUBSET Boards
      BY DEF Requests
    <2>2. QED
      BY <1>2, <2>1, EnterTyped
  <1>3. ASSUME NEW p \in Procs, Leave(p) \/ Crash(p) PROVE Typed'
    BY <1>3, DropTyped
  <1>4. ASSUME NEW p \in Procs, Operation(p) PROVE Typed'
    BY <1>4, OperationTyped
  <1>5. ASSUME NEW p \in Procs, Step(p) PROVE Typed'
    BY <1>5, StepTyped
  <1>6. QED
    BY <1>1, <1>2, <1>3, <1>4, <1>5 DEF Next, Rest

\* Whatever fails and whoever dies, files, journals, directories, locks and the
\* memory of the processes keep their types: in particular a journal is always
\* the pair of complete images its replay installs.
THEOREM StoreTyped == Spec => []TypeOK
  <1>1. Init => Typed
    BY InitTyped
  <1>2. Typed /\ [Next]_vars => Typed'
    BY NextTyped
  <1>3. Typed => TypeOK
    BY DEF Typed
  <1>4. QED
    BY <1>1, <1>2, <1>3, PTL DEF Spec

-----------------------------------------------------------------------------
(* Journals.  The inductive invariant is JournalExclusion with             *)
(* LockDiscipline: locks exclude each other, split no pending move, and an *)
(* operation writes a journal only after it has replayed everything that   *)
(* is pending on the boards it holds.                                      *)

Disciplined == JournalExclusion /\ LockDiscipline

QuietStages == {"upload", "quarantine", "write", "journal", "moveJournal"}

\* What a step of p has to establish when it leaves journals and locks alone.
PostedAt(stage, j, p) ==
  /\ stage \in QuietStages => Clear(p)
  /\ stage \in {"upload", "quarantine", "write", "journal"} \cup ArchiveStages
       => j.board \in held[p]
  /\ stage \in {"moveJournal", "rollback"} \cup MoveStages => PairOf(j.move) \subseteq held[p]
  /\ stage \in {"rollback"} \cup MoveStages => PairOf(j.move) \in Pending

LEMMA PostedIsPostedAt ==
  ASSUME NEW p \in Procs
  PROVE  Posted(p) <=> PostedAt(pc[p], job[p], p)
  BY DEF Posted, PostedAt, QuietStages

\* A step of p in memory and on the data files.
LEMMA QuietStep ==
  ASSUME Typed, Disciplined, NEW p \in Procs, NEW stage \in Stages, NEW j,
         UNCHANGED <<wal, moveWal, held, want>>,
         Goto(p, stage), job' = [job EXCEPT ![p] = j], PostedAt(stage, j, p)
  PROVE  Disciplined'
  <1>1. /\ pc \in [Procs -> Stages] /\ job \in [Procs -> Job \cup {None}]
    BY DEF Typed, TypeOK
  <1>2. Pending' = Pending
    BY DEF Pending
  <1>3. \A q \in Procs : Clear(q)' <=> Clear(q)
    BY <1>2 DEF Clear
  <1>4. ASSUME NEW q \in Procs PROVE Posted(q)'
    <2>1. CASE q = p
      <3>1. pc'[q] = stage /\ job'[q] = j
        BY <1>1, <2>1 DEF Goto
      <3>2. QED
        BY <1>2, <1>3, <2>1, <3>1 DEF Posted, PostedAt, QuietStages
    <2>2. CASE q # p
      <3>1. pc'[q] = pc[q] /\ job'[q] = job[q]
        BY <1>1, <2>2 DEF Goto
      <3>2. Posted(q)
        BY DEF Disciplined, LockDiscipline
      <3>3. QED
        BY <1>2, <1>3, <3>1, <3>2 DEF Posted
    <2>3. QED
      BY <2>1, <2>2
  <1>5. JournalExclusion'
    BY <1>2 DEF Disciplined, JournalExclusion
  <1>6. Exclusive' /\ HeldClosed' /\ Named'
    BY <1>2 DEF Disciplined, LockDiscipline, Exclusive, HeldClosed, Named
  <1>7. QED
    BY <1>4, <1>5, <1>6 DEF Disciplined, LockDiscipline

\* The same when p keeps its job.
LEMMA QuietCall ==
  ASSUME Typed, Disciplined, NEW p \in Procs, NEW stage \in Stages,
         UNCHANGED <<wal, moveWal, held, want, job>>, Goto(p, stage),
         PostedAt(stage, job[p], p)
  PROVE  Disciplined'
  <1>1. job' = [job EXCEPT ![p] = job[p]]
    BY DEF Typed, TypeOK
  <1>2. QED
    BY <1>1, QuietStep

LEMMA AtPosted ==
  ASSUME Disciplined, NEW p \in Procs
  PROVE  PostedAt(pc[p], job[p], p)
  BY PostedIsPostedAt DEF Disciplined, LockDiscipline

-----------------------------------------------------------------------------
(* Locks.                                                                  *)

LEMMA EnterDisciplined ==
  ASSUME Typed, Disciplined, NEW p \in Procs, NEW names \in SUBSET Boards, Enter(p, names)
  PROVE  Disciplined'
  <1> DEFINE C == Closure(names, Pending)
  <1>1. /\ pc \in [Procs -> Stages] /\ job \in [Procs -> Job \cup {None}]
        /\ held \in [Procs -> SUBSET Boards] /\ want \in [Procs -> SUBSET Boards]
    BY DEF Typed, TypeOK
  <1>2. names \subseteq C /\ Closed(C, Pending)
    BY ClosureContains, ClosureClosed
  <1>3. /\ \A b \in C : Free(b)
        /\ held' = [held EXCEPT ![p] = C] /\ want' = [want EXCEPT ![p] = names]
        /\ pc' = [pc EXCEPT ![p] = "recover"]
        /\ UNCHANGED <<wal, moveWal, job>>
    BY DEF Enter, Goto, disk
  <1> HIDE DEF C
  <1>4. Pending' = Pending
    BY <1>3 DEF Pending
  <1>5. /\ held'[p] = C /\ want'[p] = names /\ pc'[p] = "recover"
        /\ \A q \in Procs \ {p} : held'[q] = held[q] /\ want'[q] = want[q] /\ pc'[q] = pc[q]
    BY <1>1, <1>3
  <1>6. \A q \in Procs \ {p} : held[q] \cap C = {}
    BY <1>3 DEF Free
  <1>7. Exclusive'
    <2> SUFFICES ASSUME NEW q \in Procs, NEW r \in Procs, q # r
                 PROVE  held'[q] \cap held'[r] = {}
      BY DEF Exclusive
    <2>1. CASE q = p
      BY <1>5, <1>6, <2>1
    <2>2. CASE r = p
      BY <1>5, <1>6, <2>2
    <2>3. CASE q # p /\ r # p
      BY <1>5, <2>3 DEF Disciplined, LockDiscipline, Exclusive
    <2>4. QED
      BY <2>1, <2>2, <2>3
  <1>8. HeldClosed'
    BY <1>2, <1>4, <1>5 DEF Disciplined, LockDiscipline, HeldClosed
  <1>9. Named' /\ JournalExclusion'
    BY <1>3, <1>4 DEF Disciplined, LockDiscipline, Named, JournalExclusion
  <1>10. ASSUME NEW q \in Procs PROVE Posted(q)'
    <2>1. CASE q = p
      BY <1>5, <2>1 DEF Posted, ArchiveStages, MoveStages
    <2>2. CASE q # p
      <3>1. Posted(q) /\ held'[q] = held[q] /\ pc'[q] = pc[q]
        BY <1>5, <2>2 DEF Disciplined, LockDiscipline
      <3>2. QED
        BY <1>3, <1>4, <3>1 DEF Posted, Clear
    <2>3. QED
      BY <2>1, <2>2
  <1>11. QED
    BY <1>7, <1>8, <1>9, <1>10 DEF Disciplined, LockDiscipline

LEMMA ForgetDisciplined ==
  ASSUME Typed, Disciplined, NEW p \in Procs, Forget(p), UNCHANGED <<wal, moveWal>>
  PROVE  Disciplined'
  <1>1. /\ pc \in [Procs -> Stages] /\ job \in [Procs -> Job \cup {None}]
        /\ held \in [Procs -> SUBSET Boards] /\ want \in [Procs -> SUBSET Boards]
    BY DEF Typed, TypeOK
  <1>2. Pending' = Pending
    BY DEF Pending
  <1>3. /\ held'[p] = {} /\ want'[p] = {} /\ pc'[p] = "idle"
        /\ \A q \in Procs \ {p} : /\ held'[q] = held[q] /\ want'[q] = want[q]
                                  /\ pc'[q] = pc[q] /\ job'[q] = job[q]
    BY <1>1 DEF Forget, Goto
  <1>4. Exclusive'
    BY <1>3 DEF Disciplined, LockDiscipline, Exclusive
  <1>5. HeldClosed'
    BY <1>2, <1>3 DEF Disciplined, LockDiscipline, HeldClosed, Closed
  <1>6. Named' /\ JournalExclusion'
    BY <1>2 DEF Disciplined, LockDiscipline, Named, JournalExclusion
  <1>7. ASSUME NEW q \in Procs PROVE Posted(q)'
    <2>1. CASE q = p
      BY <1>3, <2>1 DEF Posted, ArchiveStages, MoveStages
    <2>2. CASE q # p
      <3>1. Posted(q) /\ held'[q] = held[q] /\ pc'[q] = pc[q] /\ job'[q] = job[q]
        BY <1>3, <2>2 DEF Disciplined, LockDiscipline
      <3>2. QED
        BY <1>2, <3>1 DEF Posted, Clear
    <2>3. QED
      BY <2>1, <2>2
  <1>8. QED
    BY <1>4, <1>5, <1>6, <1>7 DEF Disciplined, LockDiscipline

-----------------------------------------------------------------------------
(* Steps that change a journal.                                            *)

\* p writes or removes the archive journal of a board it holds.
LEMMA ArchiveJournalStep ==
  ASSUME Typed, Disciplined, NEW p \in Procs, NEW stage \in Stages, NEW b \in Boards, NEW v,
         b \in held[p], v # None => Clear(p),
         wal' = wal \/ wal' = [wal EXCEPT ![b] = v],
         UNCHANGED <<moveWal, held, want, job>>, Goto(p, stage),
         stage \notin QuietStages, PostedAt(stage, job[p], p)
  PROVE  Disciplined'
  <1>1. /\ pc \in [Procs -> Stages] /\ wal \in [Boards -> Content \cup {None}]
        /\ held \in [Procs -> SUBSET Boards]
    BY DEF Typed, TypeOK
  <1>2. Pending' = Pending
    BY DEF Pending
  <1>3. /\ \A e \in Boards \ {b} : wal'[e] = wal[e]
        /\ wal'[b] \in {wal[b], v}
    BY <1>1
  <1>4. JournalExclusion'
    BY <1>2, <1>3 DEF Disciplined, JournalExclusion, Clear
  <1>5. Exclusive' /\ HeldClosed' /\ Named'
    BY <1>2 DEF Disciplined, LockDiscipline, Exclusive, HeldClosed, Named
  <1>6. ASSUME NEW q \in Procs PROVE Posted(q)'
    <2>1. CASE q = p
      <3>1. pc'[q] = stage /\ job'[q] = job[q]
        BY <1>1, <2>1 DEF Goto
      <3>2. QED
        BY <1>2, <2>1, <3>1 DEF Posted, PostedAt, QuietStages
    <2>2. CASE q # p
      <3>1. pc'[q] = pc[q] /\ Posted(q)
        BY <1>1, <2>2 DEF Goto, Disciplined, LockDiscipline
      <3>2. b \notin held[q]
        BY <2>2 DEF Disciplined, LockDiscipline, Exclusive
      <3>3. Clear(q) => Clear(q)'
        BY <1>1, <1>2, <1>3, <3>2 DEF Clear
      <3>4. QED
        BY <1>2, <3>1, <3>3 DEF Posted
    <2>3. QED
      BY <2>1, <2>2
  <1>7. QED
    BY <1>4, <1>5, <1>6 DEF Disciplined, LockDiscipline

\* p writes or removes the journal of a move between two boards it holds.
LEMMA MoveJournalStep ==
  ASSUME Typed, Disciplined, NEW p \in Procs, NEW stage \in Stages, NEW pr \in Pairs, NEW v,
         NEW j, pr \subseteq held[p],
         v # None => PairOf(v) = pr /\ (pr \in Pending \/ Clear(p)),
         moveWal' = moveWal \/ moveWal' = [moveWal EXCEPT ![pr] = v],
         UNCHANGED <<wal, held, want>>, Goto(p, stage), job' = [job EXCEPT ![p] = j],
         stage \notin QuietStages \cup ArchiveStages,
         stage \in {"rollback"} \cup MoveStages => PairOf(j.move) = pr /\ moveWal'[pr] # None
  PROVE  Disciplined'
  <1>1. /\ pc \in [Procs -> Stages] /\ job \in [Procs -> Job \cup {None}]
        /\ moveWal \in [Pairs -> MoveJournal \cup {None}]
        /\ held \in [Procs -> SUBSET Boards]
    BY DEF Typed, TypeOK
  <1>2. /\ \A qr \in Pairs \ {pr} : moveWal'[qr] = moveWal[qr]
        /\ moveWal'[pr] \in {moveWal[pr], v}
    BY <1>1
  <1>3. /\ \A qr \in Pairs \ {pr} : qr \in Pending' <=> qr \in Pending
        /\ Pending' \subseteq Pairs /\ Pending \subseteq Pairs
    BY <1>2 DEF Pending
  <1>4. pr \in Pending' => pr \in Pending \/ Clear(p)
    BY <1>2 DEF Pending
  <1>5. pr # {}
    BY DEF Pairs
  <1>6. ASSUME NEW q \in Procs, q # p PROVE held[q] \cap pr = {}
    BY <1>6 DEF Disciplined, LockDiscipline, Exclusive
  <1>7. ASSUME NEW q \in Procs, q # p, Clear(q) PROVE Clear(q)'
    BY <1>3, <1>6, <1>7 DEF Clear
  <1>8. JournalExclusion'
    <2>1. ASSUME NEW b \in Boards, wal[b] # None, NEW qr \in Pending' PROVE b \notin qr
      BY <1>3, <1>4, <2>1 DEF Disciplined, JournalExclusion, Clear
    <2>2. ASSUME NEW qr \in Pending', NEW sr \in Pending', qr # sr PROVE qr \cap sr = {}
      BY <1>3, <1>4, <2>2 DEF Disciplined, JournalExclusion, Clear
    <2>3. QED
      BY <2>1, <2>2 DEF JournalExclusion
  <1>9. Exclusive'
    BY DEF Disciplined, LockDiscipline, Exclusive
  <1>10. HeldClosed'
    <2> SUFFICES ASSUME NEW q \in Procs, NEW qr \in Pending', qr \cap held[q] # {}
                 PROVE  qr \subseteq held[q]
      BY DEF Disciplined, LockDiscipline, HeldClosed, Closed
    <2>1. CASE qr = pr
      BY <1>6, <2>1
    <2>2. CASE qr # pr
      BY <1>3, <2>2 DEF Disciplined, LockDiscipline, HeldClosed, Closed
    <2>3. QED
      BY <2>1, <2>2
  <1>11. Named'
    <2> SUFFICES ASSUME NEW qr \in Pending' PROVE PairOf(moveWal'[qr]) = qr
      BY DEF Named, PairOf
    <2>1. CASE qr # pr
      BY <1>2, <1>3, <2>1 DEF Disciplined, LockDiscipline, Named
    <2>2. CASE qr = pr
      BY <1>2, <2>2 DEF Disciplined, LockDiscipline, Named, Pending
    <2>3. QED
      BY <2>1, <2>2
  <1>12. ASSUME NEW q \in Procs PROVE Posted(q)'
    <2>1. CASE q = p
      <3>1. pc'[q] = stage /\ job'[q] = j
        BY <1>1, <2>1 DEF Goto
      <3>2. stage \in {"rollback"} \cup MoveStages => PairOf(j.move) = pr /\ pr \in Pending'
        BY DEF Pending
      <3>3. QED
        BY <2>1, <3>1, <3>2 DEF Posted, QuietStages, ArchiveStages, MoveStages, PairOf
    <2>2. CASE q # p
      <3>1. pc'[q] = pc[q] /\ job'[q] = job[q] /\ Posted(q)
        BY <1>1, <2>2 DEF Goto, Disciplined, LockDiscipline
      <3>2. ASSUME PairOf(job[q].move) \subseteq held[q], PairOf(job[q].move) \in Pending
            PROVE  PairOf(job[q].move) \in Pending'
        BY <1>3, <1>5, <1>6, <2>2, <3>2
      <3>3. Clear(q) => Clear(q)'
        BY <1>7, <2>2
      <3>4. QED
        BY <3>1, <3>2, <3>3 DEF Posted, PairOf, MoveStages
    <2>3. QED
      BY <2>1, <2>2
  <1>13. QED
    BY <1>8, <1>9, <1>10, <1>11, <1>12 DEF Disciplined, LockDiscipline

-----------------------------------------------------------------------------
(* Recovery and the start of an operation.                                 *)

\* With nothing left to replay, nothing pending touches what p holds.
LEMMA RecoveredClear ==
  ASSUME Disciplined, NEW p \in Procs, Recovered(p)
  PROVE  Clear(p) /\ want[p] \subseteq held[p]
  BY DEF Recovered, Clear, Disciplined, LockDiscipline, HeldClosed, Closed

LEMMA BeginDisciplined ==
  ASSUME Typed, Disciplined, NEW p \in Procs, NEW b, NEW c, NEW a, NEW undo, NEW after,
         NEW move, NEW rev, NEW stage \in QuietStages,
         Recovered(p), Begin(p, b, c, a, undo, after, move, rev, stage),
         b \in want[p], stage = "moveJournal" => PairOf(move) = want[p]
  PROVE  Disciplined'
  <1> DEFINE j == [mode |-> "live", board |-> b, card |-> c, att |-> a, undo |-> undo,
                   after |-> after, move |-> move, rev |-> rev]
  <1>1. Clear(p) /\ want[p] \subseteq held[p]
    BY RecoveredClear
  <1>2. /\ UNCHANGED <<wal, moveWal, held, want>>
        /\ Goto(p, stage) /\ job' = [job EXCEPT ![p] = j]
    BY DEF Begin, disk, locks
  <1>3. j.board = b /\ j.move = move
    OBVIOUS
  <1> HIDE DEF j
  <1>4. stage \in Stages /\ PostedAt(stage, j, p)
    BY <1>1, <1>3 DEF PostedAt, QuietStages, Stages, ArchiveStages, MoveStages
  <1>5. QED
    BY <1>2, <1>4, QuietStep

LEMMA RecoverArchiveDisciplined ==
  ASSUME Typed, Disciplined, NEW p \in Procs, NEW b \in Boards, RecoverArchive(p, b)
  PROVE  Disciplined'
  <1> DEFINE j == Recovery(b, wal[b], None)
  <1>1. /\ b \in held[p] /\ UNCHANGED <<wal, moveWal, held, want>>
        /\ Goto(p, "applyDone") /\ job' = [job EXCEPT ![p] = j]
    BY DEF RecoverArchive, disk, locks
  <1>2. j.board = b
    BY DEF Recovery
  <1> HIDE DEF j
  <1>3. "applyDone" \in Stages /\ PostedAt("applyDone", j, p)
    BY <1>1, <1>2 DEF PostedAt, QuietStages, Stages, ArchiveStages, MoveStages
  <1>4. QED
    BY <1>1, <1>3, QuietStep

LEMMA RecoverMoveDisciplined ==
  ASSUME Typed, Disciplined, NEW p \in Procs, NEW pr \in Pairs, RecoverMove(p, pr)
  PROVE  Disciplined'
  <1> DEFINE j     == Recovery(moveWal[pr].source, EmptyContent, moveWal[pr])
             stage == FirstMoveStage(moveWal[pr])
  <1>1. /\ pr \in Pending /\ pr \subseteq held[p] /\ UNCHANGED <<wal, moveWal, held, want>>
        /\ Goto(p, stage) /\ job' = [job EXCEPT ![p] = j]
    BY DEF RecoverMove, disk, locks
  <1>2. j.move = moveWal[pr]
    BY DEF Recovery
  <1>3. stage \in {"place", "writeDestination"}
    BY DEF FirstMoveStage
  <1>4. PairOf(j.move) = pr
    BY <1>1, <1>2 DEF Disciplined, LockDiscipline, Named
  <1> HIDE DEF j, stage
  <1>5. stage \in Stages /\ PostedAt(stage, j, p)
    BY <1>1, <1>3, <1>4 DEF PostedAt, QuietStages, Stages, ArchiveStages, MoveStages
  <1>6. QED
    BY <1>1, <1>5, QuietStep

LEMMA OperationDisciplined ==
  ASSUME Typed, Disciplined, NEW p \in Procs, Operation(p)
  PROVE  Disciplined'
  <1>1. ASSUME NEW b \in Boards, NEW c \in Cards,
               CreateCard(p, b, c) \/ EditCard(p, b, c) \/ CompleteCard(p, b, c)
        PROVE  Disciplined'
    <2>1. Recovered(p) /\ b \in want[p]
      BY <1>1 DEF CreateCard, EditCard, CompleteCard, OnBoard
    <2>2. \E after, rev : \E stage \in QuietStages \ {"moveJournal"} :
            Begin(p, b, c, None, "nothing", after, None, rev, stage)
      BY <1>1 DEF CreateCard, EditCard, CompleteCard, QuietStages
    <2>3. QED
      BY <2>1, <2>2, BeginDisciplined
  <1>2. ASSUME NEW b \in Boards, NEW c \in Cards, RestoreCard(p, b, c)
        PROVE  Disciplined'
    <2>1. Recovered(p) /\ b \in want[p]
      BY <1>2 DEF RestoreCard, OnBoard
    <2>2. \E after, rev : \E stage \in QuietStages \ {"moveJournal"} :
            Begin(p, b, c, None, "nothing", after, None, rev, stage)
      BY <1>2 DEF RestoreCard, QuietStages
    <2>3. QED
      BY <2>1, <2>2, BeginDisciplined
  <1>3. ASSUME NEW b \in Boards, NEW c \in Cards, DeleteCard(p, b, c) \/ DeleteArchivedCard(p, b, c)
        PROVE  Disciplined'
    <2>1. Recovered(p) /\ b \in want[p]
      BY <1>3 DEF DeleteCard, DeleteArchivedCard, OnBoard
    <2>2. \E undo, after : \E stage \in QuietStages \ {"moveJournal"} :
            Begin(p, b, c, None, undo, after, None, 0, stage)
      BY <1>3 DEF DeleteCard, DeleteArchivedCard, Quarantined, QuietStages
    <2>3. QED
      BY <2>1, <2>2, BeginDisciplined
  <1>4. ASSUME NEW b \in Boards, NEW c \in Cards, NEW a \in Attachments,
               AddAttachment(p, b, c, a) \/ DeleteAttachment(p, b, c, a)
        PROVE  Disciplined'
    <2>1. Recovered(p) /\ b \in want[p]
      BY <1>4 DEF AddAttachment, DeleteAttachment, OnBoard
    <2>2. \E undo, after, rev : \E stage \in QuietStages \ {"moveJournal"} :
            Begin(p, b, c, a, undo, after, None, rev, stage)
      BY <1>4 DEF AddAttachment, DeleteAttachment, QuietStages
    <2>3. QED
      BY <2>1, <2>2, BeginDisciplined
  <1>5. ASSUME NEW b \in Boards, NEW focus, NEW archived,
               PatchBoardSettings(p, b, focus, archived)
        PROVE  Disciplined'
    <2>1. Recovered(p) /\ b \in want[p]
      BY <1>5 DEF PatchBoardSettings, OnBoard
    <2>2. \E after : \E stage \in QuietStages \ {"moveJournal"} :
            Begin(p, b, None, None, "nothing", after, None, 0, stage)
      BY <1>5 DEF PatchBoardSettings, QuietStages
    <2>3. QED
      BY <2>1, <2>2, BeginDisciplined
  <1>6. ASSUME NEW s \in Boards, NEW d \in Boards, NEW c \in Cards, NEW kind \in Kinds,
               MoveCardToBoard(p, s, d, c, kind)
        PROVE  Disciplined'
    <2>1. Recovered(p) /\ s \in want[p] /\ want[p] = {s, d}
      BY <1>6 DEF MoveCardToBoard
    <2>2. \E move, rev : /\ Begin(p, s, c, None, "nothing", EmptyContent, move, rev, "moveJournal")
                         /\ PairOf(move) = {s, d}
      <3> DEFINE card == file[s][kind].cards[c]
                 move == [state |-> "commit", kind |-> kind, source |-> s, destination |-> d,
                          card |-> c, atts |-> card.atts # {},
                          sourceBefore |-> file[s][kind],
                          sourceAfter |-> MovedOut(file[s], c, kind),
                          destinationBefore |-> file[d][kind],
                          destinationAfter |-> MovedIn(file[d], c, kind, card)]
      <3>1. PairOf(move) = {s, d}
        BY DEF PairOf
      <3>2. Begin(p, s, c, None, "nothing", EmptyContent, move, card.rev + 1, "moveJournal")
        BY <1>6 DEF MoveCardToBoard
      <3> HIDE DEF move, card
      <3>3. QED
        BY <3>1, <3>2
    <2>3. "moveJournal" \in QuietStages
      BY DEF QuietStages
    <2>4. QED
      BY <2>1, <2>2, <2>3, BeginDisciplined
  <1>7. QED
    BY <1>1, <1>2, <1>3, <1>4, <1>5, <1>6 DEF Operation

-----------------------------------------------------------------------------
(* The calls that change no journal.                                       *)

\* From these stages a call may go to any of those without a further claim.
LEMMA IdleCall ==
  ASSUME Typed, Disciplined, NEW p \in Procs,
         NEW stage \in {"recover", "rollback", "undo", "purge", "ok", "error"},
         stage = "rollback" => pc[p] \in MoveStages,
         UNCHANGED <<wal, moveWal, held, want, job>>, Goto(p, stage)
  PROVE  Disciplined'
  <1>1. PostedAt(pc[p], job[p], p)
    BY AtPosted
  <1>2. stage \in Stages /\ PostedAt(stage, job[p], p)
    BY <1>1 DEF PostedAt, QuietStages, Stages, ArchiveStages, MoveStages
  <1>3. QED
    BY <1>2, QuietCall

\* A call goes on to a later stage of the same commit.
LEMMA NextCall ==
  ASSUME Typed, Disciplined, NEW p \in Procs, NEW stage,
         \/ pc[p] \in {"upload", "quarantine"} /\ stage \in {"write", "journal"}
         \/ pc[p] \in ArchiveStages /\ stage \in ArchiveStages
         \/ pc[p] \in MoveStages /\ stage \in MoveStages,
         UNCHANGED <<wal, moveWal, held, want, job>>, Goto(p, stage)
  PROVE  Disciplined'
  <1>1. PostedAt(pc[p], job[p], p)
    BY AtPosted
  <1>2. stage \in Stages /\ PostedAt(stage, job[p], p)
    BY <1>1 DEF PostedAt, QuietStages, Stages, ArchiveStages, MoveStages
  <1>3. QED
    BY <1>2, QuietCall

LEMMA AttachmentCallDisciplined ==
  ASSUME Typed, Disciplined, NEW p \in Procs, NEW o \in Outcomes,
         \/ Upload(p) \/ UploadRefused(p)
         \/ QuarantineFile(p, o) \/ QuarantineDirectory(p, o) \/ Undo(p, o) \/ Purge(p, o)
  PROVE  Disciplined'
  <1>1. UNCHANGED <<wal, moveWal, held, want, job>>
    BY DEF Upload, UploadRefused, QuarantineFile, QuarantineDirectory, Undo, Purge, IoOnly, locks
  <1>2. CASE Upload(p)
    BY <1>1, <1>2, NextCall DEF Upload
  <1>3. CASE UploadRefused(p)
    BY <1>1, <1>3, IdleCall DEF UploadRefused
  <1>4. CASE QuarantineFile(p, o)
    <2>1. pc[p] = "quarantine" /\ (Goto(p, "write") \/ Goto(p, "error"))
      BY <1>4 DEF QuarantineFile
    <2>2. QED
      BY <1>1, <2>1, NextCall, IdleCall
  <1>5. CASE QuarantineDirectory(p, o)
    <2>1. pc[p] = "quarantine" /\ (Goto(p, "write") \/ Goto(p, "journal") \/ Goto(p, "error"))
      BY <1>5 DEF QuarantineDirectory
    <2>2. QED
      BY <1>1, <2>1, NextCall, IdleCall
  <1>6. CASE Undo(p, o) \/ Purge(p, o)
    <2>1. Goto(p, "ok") \/ Goto(p, "error")
      BY <1>6 DEF Undo, Purge
    <2>2. QED
      BY <1>1, <2>1, IdleCall
  <1>7. QED
    BY <1>2, <1>3, <1>4, <1>5, <1>6

LEMMA FileCallDisciplined ==
  ASSUME Typed, Disciplined, NEW p \in Procs, NEW o \in Outcomes,
         WriteActive(p, o) \/ ApplyDone(p, o) \/ ApplyBoard(p, o)
  PROVE  Disciplined'
  <1>1. UNCHANGED <<wal, moveWal, held, want, job>>
    BY DEF WriteActive, ApplyDone, ApplyBoard, WalOnly, locks
  <1>2. CASE WriteActive(p, o)
    <2>1. \E stage \in {"recover", "purge", "ok", "undo", "error"} : Goto(p, stage)
      BY <1>2 DEF WriteActive, Succeeded, Failed
    <2>2. QED
      BY <1>1, <2>1, IdleCall
  <1>3. CASE ApplyDone(p, o)
    <2>1. /\ pc[p] = "applyDone"
          /\ Goto(p, "applyBoard") \/ Goto(p, "undo") \/ Goto(p, "error")
      BY <1>3 DEF ApplyDone, Failed
    <2>2. QED
      BY <1>1, <2>1, IdleCall, NextCall DEF ArchiveStages
  <1>4. CASE ApplyBoard(p, o)
    <2>1. /\ pc[p] = "applyBoard"
          /\ Goto(p, "removeArchive") \/ Goto(p, "undo") \/ Goto(p, "error")
      BY <1>4 DEF ApplyBoard, Failed
    <2>2. QED
      BY <1>1, <2>1, IdleCall, NextCall DEF ArchiveStages
  <1>5. QED
    BY <1>2, <1>3, <1>4

LEMMA MoveCallDisciplined ==
  ASSUME Typed, Disciplined, NEW p \in Procs, NEW o \in Outcomes,
         PlaceAttachments(p, o) \/ WriteDestination(p, o) \/ WriteSource(p, o)
  PROVE  Disciplined'
  <1>1. UNCHANGED <<wal, moveWal, held, want, job>>
    BY DEF PlaceAttachments, WriteDestination, WriteSource, MoveOnly, locks
  <1>2. pc[p] \in MoveStages
    BY DEF PlaceAttachments, WriteDestination, WriteSource, MoveStages
  <1>3. \E stage \in MoveStages \cup {"rollback", "error"} : Goto(p, stage)
    BY DEF PlaceAttachments, WriteDestination, WriteSource, MoveFailed, MoveStages
  <1>4. QED
    BY <1>1, <1>2, <1>3, IdleCall, NextCall

-----------------------------------------------------------------------------
(* The calls that write or remove a journal.                               *)

LEMMA CommitArchiveDisciplined ==
  ASSUME Typed, Disciplined, NEW p \in Procs, NEW o \in Outcomes, CommitArchive(p, o)
  PROVE  Disciplined'
  <1> DEFINE j == job[p]
  <1>1. pc[p] = "journal" /\ PostedAt(pc[p], j, p)
    BY AtPosted DEF CommitArchive
  <1>2. j.board \in held[p] /\ Clear(p)
    BY <1>1 DEF PostedAt, QuietStages
  <1>3. j.board \in Boards
    BY <1>1, AtCall
  <1>4. PICK stage \in {"applyDone", "undo", "error"} : Goto(p, stage)
    BY DEF CommitArchive, Failed
  <1>5. stage \in Stages /\ stage \notin QuietStages /\ PostedAt(stage, j, p)
    BY <1>2 DEF PostedAt, QuietStages, Stages, ArchiveStages, MoveStages
  <1>6. /\ wal' = wal \/ wal' = [wal EXCEPT ![j.board] = j.after]
        /\ UNCHANGED <<moveWal, held, want, job>>
    BY DEF CommitArchive, WalOnly, locks
  <1>7. QED
    BY <1>2, <1>3, <1>4, <1>5, <1>6, ArchiveJournalStep

LEMMA RemoveArchiveDisciplined ==
  ASSUME Typed, Disciplined, NEW p \in Procs, NEW o \in Outcomes, RemoveArchive(p, o)
  PROVE  Disciplined'
  <1> DEFINE j == job[p]
  <1>1. pc[p] = "removeArchive" /\ PostedAt(pc[p], j, p)
    BY AtPosted DEF RemoveArchive
  <1>2. j.board \in held[p]
    BY <1>1 DEF PostedAt, ArchiveStages
  <1>3. j.board \in Boards
    BY <1>1, AtCall
  <1>4. PICK stage \in {"recover", "purge", "ok", "undo", "error"} : Goto(p, stage)
    BY DEF RemoveArchive, Succeeded, Failed
  <1>5. stage \in Stages /\ stage \notin QuietStages /\ PostedAt(stage, j, p)
    BY <1>2 DEF PostedAt, QuietStages, Stages, ArchiveStages, MoveStages
  <1>6. /\ wal' = wal \/ wal' = [wal EXCEPT ![j.board] = None]
        /\ UNCHANGED <<moveWal, held, want, job>>
    BY DEF RemoveArchive, WalOnly, locks
  <1>7. QED
    BY <1>2, <1>3, <1>4, <1>5, <1>6, ArchiveJournalStep

LEMMA FirstMoveStageIs ==
  ASSUME NEW move
  PROVE  FirstMoveStage(move) \in {"place", "writeDestination"}
  BY DEF FirstMoveStage

LEMMA WriteMoveJournalDisciplined ==
  ASSUME Typed, Disciplined, NEW p \in Procs, NEW o \in Outcomes, WriteMoveJournal(p, o)
  PROVE  Disciplined'
  <1> DEFINE j     == job[p]
             pr    == PairOf(j.move)
             stage == IF o = "ok" THEN FirstMoveStage(j.move) ELSE "error"
  <1>1. pc[p] = "moveJournal" /\ PostedAt(pc[p], j, p)
    BY AtPosted DEF WriteMoveJournal
  <1>2. Clear(p) /\ pr \subseteq held[p] /\ pr \in Pairs /\ j.move \in MoveJournal
    BY <1>1, AtMoveCall DEF PostedAt, QuietStages
  <1>3. /\ moveWal' = IF Installs(o) THEN [moveWal EXCEPT ![pr] = j.move] ELSE moveWal
        /\ UNCHANGED <<wal, held, want>> /\ Goto(p, stage) /\ job' = job
    BY DEF WriteMoveJournal, MoveOnly, locks
  <1>4. job' = [job EXCEPT ![p] = j]
    BY <1>3 DEF Typed, TypeOK
  <1>5. /\ stage \in Stages /\ stage \notin QuietStages \cup ArchiveStages
        /\ stage # "error" => o = "ok"
    BY FirstMoveStageIs DEF QuietStages, Stages, ArchiveStages, MoveStages
  <1>6. o = "ok" => moveWal'[pr] = j.move
    BY <1>2, <1>3 DEF Installs, Typed, TypeOK
  <1>7. j.move # None
    BY <1>2, NoneIsNoRecord
  <1>8. stage \in {"rollback"} \cup MoveStages => moveWal'[pr] # None
    BY <1>5, <1>6, <1>7 DEF MoveStages
  <1> HIDE DEF stage
  <1>9. moveWal' = moveWal \/ moveWal' = [moveWal EXCEPT ![pr] = j.move]
    BY <1>3
  <1>10. QED
    BY <1>2, <1>3, <1>4, <1>5, <1>8, <1>9, MoveJournalStep

LEMMA DecideRollbackDisciplined ==
  ASSUME Typed, Disciplined, NEW p \in Procs, NEW o \in Outcomes, DecideRollback(p, o)
  PROVE  Disciplined'
  <1> DEFINE j     == job[p]
             back  == [j.move EXCEPT !.state = "rollback"]
             k     == [j EXCEPT !.mode = "rollback", !.move = back]
             pr    == PairOf(j.move)
             stage == IF o = "ok" THEN FirstMoveStage(back) ELSE "error"
  <1>1. pc[p] = "rollback" /\ PostedAt(pc[p], j, p)
    BY AtPosted DEF DecideRollback
  <1>2. /\ pr \in Pending /\ pr \subseteq held[p] /\ pr \in Pairs
        /\ j.move \in MoveJournal /\ j \in Job
    BY <1>1, AtMoveCall, AtCall DEF PostedAt
  <1>3. back \in MoveJournal /\ PairOf(back) = pr /\ k.move = back
    BY <1>2 DEF MoveJournal, PairOf, Job
  <1>4. /\ moveWal' = IF Installs(o) THEN [moveWal EXCEPT ![pr] = back] ELSE moveWal
        /\ UNCHANGED <<wal, held, want>> /\ Goto(p, stage)
        /\ job' = [job EXCEPT ![p] = k]
    BY <1>3 DEF DecideRollback, MoveOnly, locks, Typed, TypeOK
  <1>5. stage \in Stages /\ stage \notin QuietStages \cup ArchiveStages
    BY FirstMoveStageIs DEF QuietStages, Stages, ArchiveStages, MoveStages
  <1>6. back # None
    BY <1>3, NoneIsNoRecord
  <1> HIDE DEF back, k, stage
  <1>7. moveWal'[pr] # None
    BY <1>2, <1>4, <1>6 DEF Pending, Typed, TypeOK
  <1>8. moveWal' = moveWal \/ moveWal' = [moveWal EXCEPT ![pr] = back]
    BY <1>4
  <1>9. QED
    BY <1>2, <1>3, <1>4, <1>5, <1>7, <1>8, MoveJournalStep

LEMMA RemoveMoveDisciplined ==
  ASSUME Typed, Disciplined, NEW p \in Procs, NEW o \in Outcomes, RemoveMove(p, o)
  PROVE  Disciplined'
  <1> DEFINE j  == job[p]
             pr == PairOf(j.move)
  <1>1. pc[p] = "removeMove" /\ PostedAt(pc[p], j, p)
    BY AtPosted DEF RemoveMove
  <1>2. pr \subseteq held[p] /\ pr \in Pairs /\ j \in Job
    BY <1>1, AtMoveCall, AtCall DEF PostedAt, MoveStages
  <1>3. PICK stage \in {"recover", "ok", "error"} : Goto(p, stage)
    BY <1>2 DEF RemoveMove, Job
  <1>4. /\ moveWal' = moveWal \/ moveWal' = [moveWal EXCEPT ![pr] = None]
        /\ UNCHANGED <<wal, held, want>> /\ job' = [job EXCEPT ![p] = j]
    BY DEF RemoveMove, MoveOnly, locks, Typed, TypeOK
  <1>5. stage \in Stages /\ stage \notin QuietStages \cup ArchiveStages \cup {"rollback"} \cup MoveStages
    BY DEF QuietStages, Stages, ArchiveStages, MoveStages
  <1>6. QED
    BY <1>2, <1>3, <1>4, <1>5, MoveJournalStep

-----------------------------------------------------------------------------
(* The theorems.                                                           *)

LEMMA InitDisciplined ==
  ASSUME Init
  PROVE  Disciplined
  <1>1. Pending = {}
    BY DEF Init, Pending
  <1>2. /\ \A b \in Boards : wal[b] = None
        /\ \A p \in Procs : held[p] = {} /\ want[p] = {} /\ pc[p] = "idle"
    BY DEF Init
  <1>3. JournalExclusion /\ Exclusive /\ HeldClosed /\ Named
    BY <1>1, <1>2 DEF JournalExclusion, Exclusive, HeldClosed, Named, Closed
  <1>4. \A p \in Procs : Posted(p)
    BY <1>2 DEF Posted, ArchiveStages, MoveStages
  <1>5. QED
    BY <1>3, <1>4 DEF Disciplined, LockDiscipline

LEMMA StutterDisciplined ==
  ASSUME Disciplined, UNCHANGED vars
  PROVE  Disciplined'
  <1>1. UNCHANGED <<wal, moveWal, held, want, pc, job>>
    BY DEF vars, disk, locks
  <1>2. Pending' = Pending
    BY <1>1 DEF Pending
  <1>3. QED
    BY <1>1, <1>2 DEF Disciplined, JournalExclusion, LockDiscipline, Exclusive, HeldClosed,
       Named, Posted, Clear

LEMMA StepDisciplined ==
  ASSUME Typed, Disciplined, NEW p \in Procs, Step(p)
  PROVE  Disciplined'
  <1>1. ASSUME NEW b \in Boards, RecoverArchive(p, b) PROVE Disciplined'
    BY <1>1, RecoverArchiveDisciplined
  <1>2. ASSUME NEW pr \in Pairs, RecoverMove(p, pr) PROVE Disciplined'
    BY <1>2, RecoverMoveDisciplined
  <1>3. ASSUME NEW o \in Outcomes,
               \/ Upload(p) \/ UploadRefused(p)
               \/ QuarantineFile(p, o) \/ QuarantineDirectory(p, o) \/ Undo(p, o) \/ Purge(p, o)
        PROVE  Disciplined'
    BY <1>3, AttachmentCallDisciplined
  <1>4. "ok" \in Outcomes
    BY DEF Outcomes
  <1>5. ASSUME NEW o \in Outcomes, WriteActive(p, o) \/ ApplyDone(p, o) \/ ApplyBoard(p, o)
        PROVE  Disciplined'
    BY <1>5, FileCallDisciplined
  <1>6. ASSUME NEW o \in Outcomes,
               PlaceAttachments(p, o) \/ WriteDestination(p, o) \/ WriteSource(p, o)
        PROVE  Disciplined'
    BY <1>6, MoveCallDisciplined
  <1>7. ASSUME NEW o \in Outcomes,
               \/ CommitArchive(p, o) \/ RemoveArchive(p, o) \/ WriteMoveJournal(p, o)
               \/ DecideRollback(p, o) \/ RemoveMove(p, o)
        PROVE  Disciplined'
    BY <1>7, CommitArchiveDisciplined, RemoveArchiveDisciplined, WriteMoveJournalDisciplined,
       DecideRollbackDisciplined, RemoveMoveDisciplined
  <1>8. CASE Return(p)
    <2>1. Forget(p) /\ UNCHANGED <<wal, moveWal>>
      BY <1>8 DEF Return, disk
    <2>2. QED
      BY <2>1, ForgetDisciplined
  <1>9. QED
    BY <1>1, <1>2, <1>3, <1>4, <1>5, <1>6, <1>7, <1>8 DEF Step

LEMMA NextDisciplined ==
  ASSUME Typed, Disciplined, [Next]_vars
  PROVE  Disciplined'
  <1>1. CASE UNCHANGED vars
    BY <1>1, StutterDisciplined
  <1>2. ASSUME NEW p \in Procs, NEW names \in Requests, Enter(p, names) PROVE Disciplined'
    <2>1. names \in SUBSET Boards
      BY DEF Requests
    <2>2. QED
      BY <1>2, <2>1, EnterDisciplined
  <1>3. ASSUME NEW p \in Procs, Leave(p) \/ Crash(p) PROVE Disciplined'
    <2>1. Forget(p) /\ UNCHANGED <<wal, moveWal>>
      BY <1>3 DEF Leave, Crash, disk
    <2>2. QED
      BY <2>1, ForgetDisciplined
  <1>4. ASSUME NEW p \in Procs, Operation(p) PROVE Disciplined'
    BY <1>4, OperationDisciplined
  <1>5. ASSUME NEW p \in Procs, Step(p) PROVE Disciplined'
    BY <1>5, StepDisciplined
  <1>6. QED
    BY <1>1, <1>2, <1>3, <1>4, <1>5 DEF Next, Rest

\* Locks exclude each other and never split a pending move, everything pending
\* on the boards of an operation is replayed before it writes, and it writes
\* only to boards it holds: withBoardLocksMode, moveJournalLockClosure and the
\* recoveries it runs, for any number of processes, boards, faults and crashes.
THEOREM StoreLockDiscipline == Spec => []LockDiscipline
  <1>1. Init => Typed /\ Disciplined
    BY InitTyped, InitDisciplined
  <1>2. Typed /\ Disciplined /\ [Next]_vars => Typed' /\ Disciplined'
    BY NextTyped, NextDisciplined
  <1>3. Disciplined => LockDiscipline
    BY DEF Disciplined
  <1>4. QED
    BY <1>1, <1>2, <1>3, PTL DEF Spec

\* No board is ever claimed by an archive journal and a move journal, or by the
\* journals of two moves, so the order recovery replays them in cannot matter.
THEOREM StoreJournalExclusion == Spec => []JournalExclusion
  <1>1. Init => Typed /\ Disciplined
    BY InitTyped, InitDisciplined
  <1>2. Typed /\ Disciplined /\ [Next]_vars => Typed' /\ Disciplined'
    BY NextTyped, NextDisciplined
  <1>3. Disciplined => JournalExclusion
    BY DEF Disciplined
  <1>4. QED
    BY <1>1, <1>2, <1>3, PTL DEF Spec

-----------------------------------------------------------------------------
(* The invariant of the refinement: what the boards as recovery will find  *)
(* them, the journals and the memory of each process say of one another.   *)

\* A card is on some list with at least revision n; is on some list.
Holds(c, n) == \E b \in Boards, k \in Kinds : Effective[b][k].cards[c].rev >= n

Somewhere(c) == \E b \in Boards, k \in Kinds : Has(Effective[b][k], c)

Deletes(j) == j.card # None /\ j.rev = 0

\* What an operation on one board renders, from the content it has read.
RenderedFrom(old, j) ==
  LET c       == j.card
      active  == old["active"]
      archive == old["archive"]
      Changed == j.rev = active.cards[c].rev + 1
  IN
  \/ /\ c = None /\ j.undo = "nothing" /\ j.rev = 0
     /\ \E focus \in Cards \cup {None}, archived \in BOOLEAN :
          CanSettle(old, focus, archived) /\ j.after = Settled(old, focus, archived)
  \/ /\ c \in Cards /\ j.undo = "nothing" /\ j.rev = 1
     /\ CanCreate(old) /\ j.after = Created(old, c)
  \/ /\ c \in Cards /\ j.undo = "nothing" /\ Changed
     /\ Has(active, c) /\ j.after \in {Edited(old, c), Completed(old, c)}
  \/ /\ c \in Cards /\ j.undo = "nothing" /\ j.rev = archive.cards[c].rev + 1
     /\ CanRestore(old, c) /\ j.after = Restored(old, c)
  \/ /\ c \in Cards /\ j.undo = "upload" /\ Changed
     /\ CanAttach(old, c) /\ j.att \in Attachments /\ j.after = Attached(old, c, j.att)
  \/ /\ c \in Cards /\ j.undo = "file" /\ Changed
     /\ Has(active, c) /\ j.att \in active.cards[c].atts /\ j.after = Detached(old, c, j.att)
  \/ /\ c \in Cards /\ j.undo \in {"nothing", "directory"} /\ j.rev = 0
     /\ \/ Has(active, c) /\ j.after = Deleted(old, c)
        \/ ~Has(active, c) /\ Has(archive, c) /\ j.after = DeletedArchived(old, c)

\* The operation commits by writing board.md alone.
OneFile(old, j, stage) ==
  \/ stage \in {"upload", "write"}
  \/ stage = "quarantine" /\ (j.undo = "file" \/ Has(old["active"], j.card))

RenderStages == {"upload", "quarantine", "write", "journal"}

\* Until it commits, an operation on one board has read what is still there.
RenderedAt(stage, j) ==
  stage \in RenderStages =>
    /\ j.mode = "live" /\ j.move = None
    /\ RenderedFrom(file[j.board], j)
    /\ OneFile(file[j.board], j, stage) => j.after["archive"] = file[j.board]["archive"]
    /\ Deletes(j) => j.card \in doomed

\* While a two-file commit is applied its journal is there, and each file is
\* written before the next.
JournalledAt(stage, j) ==
  stage \in ArchiveStages =>
    /\ j.mode \in {"live", "recovery"} /\ j.move = None
    /\ wal[j.board] = j.after
    /\ stage # "applyDone" => file[j.board]["archive"] = j.after["archive"]
    /\ stage = "removeArchive" => file[j.board]["active"] = j.after["active"]

\* The images of a move are those of one operation on the two boards.
Movable(m) ==
  LET s == [file[m.source] EXCEPT ![m.kind] = m.sourceBefore]
      d == [file[m.destination] EXCEPT ![m.kind] = m.destinationBefore]
  IN  /\ CanMove(s, d, m.card, m.kind)
      /\ m.sourceAfter = MovedOut(s, m.card, m.kind)
      /\ m.destinationAfter = MovedIn(d, m.card, m.kind, m.sourceBefore.cards[m.card])

\* A move is applied under its own journal, the destination before the source.
MovingAt(stage, j) ==
  LET m == j.move
  IN  /\ stage \in {"moveJournal", "rollback"} => j.mode = "live"
      /\ stage \in {"moveJournal", "rollback"} \cup MoveStages /\ j.mode = "live" =>
           /\ m.state = "commit"
           /\ j.card = m.card /\ j.rev = m.sourceBefore.cards[m.card].rev + 1
           /\ stage # "removeMove" => Movable(m)
      /\ stage = "moveJournal" => /\ file[m.source][m.kind] = m.sourceBefore
                                  /\ file[m.destination][m.kind] = m.destinationBefore
      /\ stage \in {"rollback"} \cup MoveStages => moveWal[PairOf(m)] = m
      /\ stage \in {"writeSource", "removeMove"} =>
           file[m.destination][m.kind] = DestinationImage(m)
      /\ stage = "removeMove" => file[m.source][m.kind] = SourceImage(m)

\* A commit that succeeded is on the boards, which are still locked.
DoneAt(stage, j, p) ==
  stage \in {"purge", "ok"} =>
    /\ j.mode = "live"
    /\ j.move = None => j.board \in held[p] /\ Effective[j.board] = j.after
    /\ j.move # None =>
         /\ PairOf(j.move) \subseteq held[p]
         /\ Effective[j.move.source][j.move.kind] = j.move.sourceAfter
         /\ Effective[j.move.destination][j.move.kind] = j.move.destinationAfter

\* What the caller will be told of is on the boards from the commit on.
ToldAt(stage, j) ==
  /\ stage \in {"removeMove", "purge", "ok"} \cup ArchiveStages
  /\ j.mode = "live" /\ j.card \in Cards \ doomed
  => Holds(j.card, j.rev)

OwnAt(stage, j, p) ==
  RenderedAt(stage, j) /\ JournalledAt(stage, j) /\ MovingAt(stage, j) /\ DoneAt(stage, j, p)

Owned == \A p \in Procs : OwnAt(pc[p], job[p], p)

Told == \A p \in Procs : ToldAt(pc[p], job[p])

\* A card being created is on no list and nobody else creates it.
Creates(stage, j) == stage \in RenderStages /\ j.rev = 1

Creating(p) == Creates(pc[p], job[p])

Fresh ==
  /\ \A c \in Cards : Somewhere(c) => c \in issued
  /\ \A p \in Procs : Creating(p) => job[p].card \in issued /\ ~Somewhere(job[p].card)
  /\ \A p, q \in Procs : p # q /\ Creating(p) /\ Creating(q) => job[p].card # job[q].card

Kept == Owned /\ Told /\ Fresh /\ NoLostUpdate

Inv == Typed /\ Disciplined /\ Kept /\ Abstract!Sound

-----------------------------------------------------------------------------
(* The operators of the two instances are those of the store.              *)

LEMMA PromiseOperators ==
  ASSUME NEW x, NEW y, NEW c, NEW a, NEW f, NEW g, NEW k
  PROVE  /\ Promise!Kinds = Kinds
         /\ Promise!Created(x, c) = Created(x, c)
         /\ Promise!Edited(x, c) = Edited(x, c)
         /\ Promise!Attached(x, c, a) = Attached(x, c, a)
         /\ Promise!Detached(x, c, a) = Detached(x, c, a)
         /\ Promise!Deleted(x, c) = Deleted(x, c)
         /\ Promise!DeletedArchived(x, c) = DeletedArchived(x, c)
         /\ Promise!Completed(x, c) = Completed(x, c)
         /\ Promise!Restored(x, c) = Restored(x, c)
         /\ Promise!Settled(x, f, g) = Settled(x, f, g)
         /\ Promise!MovedOut(x, c, k) = MovedOut(x, c, k)
         /\ Promise!MovedIn(x, c, k, y) = MovedIn(x, c, k, y)
         /\ Promise!Has(x, c) <=> Has(x, c)
         /\ Promise!CanCreate(x) <=> CanCreate(x)
         /\ Promise!CanRestore(x, c) <=> CanRestore(x, c)
         /\ Promise!CanSettle(x, f, g) <=> CanSettle(x, f, g)
         /\ Promise!CanMove(x, y, c, k) <=> CanMove(x, y, c, k)
         /\ Promise!CanAttach(x, c) <=> CanAttach(x, c)
  <1> USE DEF Promise!Pair, Pair, Promise!Put, Put, Promise!Bump, Bump, Promise!KeepFocus,
              KeepFocus,
              Promise!Without, Without, Promise!CopyMetadata, CopyMetadata, Promise!NoCard,
              NoCard, Promise!Kinds, Kinds, Promise!Has, Has
  <1>1. Promise!Created(x, c) = Created(x, c)
    BY DEF Promise!Created, Created
  <1>2. Promise!Edited(x, c) = Edited(x, c)
    BY DEF Promise!Edited, Edited
  <1>3. Promise!Attached(x, c, a) = Attached(x, c, a)
    BY DEF Promise!Attached, Attached
  <1>4. Promise!Detached(x, c, a) = Detached(x, c, a)
    BY DEF Promise!Detached, Detached
  <1>5. Promise!Deleted(x, c) = Deleted(x, c)
    BY DEF Promise!Deleted, Deleted
  <1>6. Promise!DeletedArchived(x, c) = DeletedArchived(x, c)
    BY DEF Promise!DeletedArchived, DeletedArchived
  <1>7. Promise!Completed(x, c) = Completed(x, c)
    BY DEF Promise!Completed, Completed
  <1>8. Promise!Restored(x, c) = Restored(x, c)
    BY DEF Promise!Restored, Restored
  <1>9. Promise!Settled(x, f, g) = Settled(x, f, g)
    BY DEF Promise!Settled, Settled
  <1>10. Promise!MovedOut(x, c, k) = MovedOut(x, c, k)
    BY DEF Promise!MovedOut, MovedOut
  <1>11. Promise!MovedIn(x, c, k, y) = MovedIn(x, c, k, y)
    BY DEF Promise!MovedIn, MovedIn
  <1>12. Promise!Has(x, c) <=> Has(x, c)
    OBVIOUS
  <1>13. Promise!CanCreate(x) <=> CanCreate(x)
    BY DEF Promise!CanCreate, CanCreate
  <1>14. Promise!CanRestore(x, c) <=> CanRestore(x, c)
    BY DEF Promise!CanRestore, CanRestore
  <1>15. Promise!CanSettle(x, f, g) <=> CanSettle(x, f, g)
    BY DEF Promise!CanSettle, CanSettle
  <1>16. Promise!CanMove(x, y, c, k) <=> CanMove(x, y, c, k)
    BY DEF Promise!CanMove, CanMove
  <1>17. Promise!CanAttach(x, c) <=> CanAttach(x, c)
    BY DEF Promise!CanAttach, CanAttach, Promise!Cardinality, Cardinality
  <1>18. Promise!Kinds = Kinds
    OBVIOUS
  <1> HIDE DEF Promise!Pair, Pair, Promise!Put, Put, Promise!Bump, Bump, Promise!KeepFocus,
               KeepFocus,
              Promise!Without, Without, Promise!CopyMetadata, CopyMetadata, Promise!NoCard,
              NoCard, Promise!Kinds, Kinds, Promise!Has, Has
  <1>19. QED
    BY <1>1, <1>2, <1>3, <1>4, <1>5, <1>6, <1>7, <1>8, <1>9, <1>10, <1>11, <1>12, <1>13, <1>14,
       <1>15, <1>16, <1>17, <1>18

LEMMA AbstractOperators ==
  ASSUME NEW x, NEW y, NEW c, NEW a, NEW f, NEW g, NEW k
  PROVE  /\ Abstract!Kinds = Kinds
         /\ Abstract!Created(x, c) = Created(x, c)
         /\ Abstract!Edited(x, c) = Edited(x, c)
         /\ Abstract!Attached(x, c, a) = Attached(x, c, a)
         /\ Abstract!Detached(x, c, a) = Detached(x, c, a)
         /\ Abstract!Deleted(x, c) = Deleted(x, c)
         /\ Abstract!DeletedArchived(x, c) = DeletedArchived(x, c)
         /\ Abstract!Completed(x, c) = Completed(x, c)
         /\ Abstract!Restored(x, c) = Restored(x, c)
         /\ Abstract!Settled(x, f, g) = Settled(x, f, g)
         /\ Abstract!MovedOut(x, c, k) = MovedOut(x, c, k)
         /\ Abstract!MovedIn(x, c, k, y) = MovedIn(x, c, k, y)
         /\ Abstract!Has(x, c) <=> Has(x, c)
         /\ Abstract!CanCreate(x) <=> CanCreate(x)
         /\ Abstract!CanRestore(x, c) <=> CanRestore(x, c)
         /\ Abstract!CanSettle(x, f, g) <=> CanSettle(x, f, g)
         /\ Abstract!CanMove(x, y, c, k) <=> CanMove(x, y, c, k)
         /\ Abstract!CanAttach(x, c) <=> CanAttach(x, c)
  <1> USE DEF Abstract!Pair, Pair, Abstract!Put, Put, Abstract!Bump, Bump, Abstract!KeepFocus,
              KeepFocus,
              Abstract!Without, Without, Abstract!CopyMetadata, CopyMetadata, Abstract!NoCard,
              NoCard, Abstract!Kinds, Kinds, Abstract!Has, Has
  <1>1. Abstract!Created(x, c) = Created(x, c)
    BY DEF Abstract!Created, Created
  <1>2. Abstract!Edited(x, c) = Edited(x, c)
    BY DEF Abstract!Edited, Edited
  <1>3. Abstract!Attached(x, c, a) = Attached(x, c, a)
    BY DEF Abstract!Attached, Attached
  <1>4. Abstract!Detached(x, c, a) = Detached(x, c, a)
    BY DEF Abstract!Detached, Detached
  <1>5. Abstract!Deleted(x, c) = Deleted(x, c)
    BY DEF Abstract!Deleted, Deleted
  <1>6. Abstract!DeletedArchived(x, c) = DeletedArchived(x, c)
    BY DEF Abstract!DeletedArchived, DeletedArchived
  <1>7. Abstract!Completed(x, c) = Completed(x, c)
    BY DEF Abstract!Completed, Completed
  <1>8. Abstract!Restored(x, c) = Restored(x, c)
    BY DEF Abstract!Restored, Restored
  <1>9. Abstract!Settled(x, f, g) = Settled(x, f, g)
    BY DEF Abstract!Settled, Settled
  <1>10. Abstract!MovedOut(x, c, k) = MovedOut(x, c, k)
    BY DEF Abstract!MovedOut, MovedOut
  <1>11. Abstract!MovedIn(x, c, k, y) = MovedIn(x, c, k, y)
    BY DEF Abstract!MovedIn, MovedIn
  <1>12. Abstract!Has(x, c) <=> Has(x, c)
    OBVIOUS
  <1>13. Abstract!CanCreate(x) <=> CanCreate(x)
    BY DEF Abstract!CanCreate, CanCreate
  <1>14. Abstract!CanRestore(x, c) <=> CanRestore(x, c)
    BY DEF Abstract!CanRestore, CanRestore
  <1>15. Abstract!CanSettle(x, f, g) <=> CanSettle(x, f, g)
    BY DEF Abstract!CanSettle, CanSettle
  <1>16. Abstract!CanMove(x, y, c, k) <=> CanMove(x, y, c, k)
    BY DEF Abstract!CanMove, CanMove
  <1>17. Abstract!CanAttach(x, c) <=> CanAttach(x, c)
    BY DEF Abstract!CanAttach, CanAttach, Abstract!Cardinality, Cardinality
  <1>18. Abstract!Kinds = Kinds
    OBVIOUS
  <1> HIDE DEF Abstract!Pair, Pair, Abstract!Put, Put, Abstract!Bump, Bump, Abstract!KeepFocus,
               KeepFocus,
              Abstract!Without, Without, Abstract!CopyMetadata, CopyMetadata, Abstract!NoCard,
              NoCard, Abstract!Kinds, Kinds, Abstract!Has, Has
  <1>19. QED
    BY <1>1, <1>2, <1>3, <1>4, <1>5, <1>6, <1>7, <1>8, <1>9, <1>10, <1>11, <1>12, <1>13, <1>14,
       <1>15, <1>16, <1>17, <1>18


-----------------------------------------------------------------------------
(* The boards as recovery will find them, by what is pending on each.      *)

ApplyingStages == {"place", "writeDestination", "writeSource", "rollback"}

\* Is a process at this stage, with this job, applying the move of the pair?
AppliesAt(stage, j, pr) ==
  /\ j # None
  /\ j.mode = "live" /\ j.move # None
  /\ PairOf(j.move) = pr
  /\ stage \in ApplyingStages

LEMMA ApplyingIs ==
  ASSUME NEW pr
  PROVE  Applying(pr) <=> \E p \in Procs : AppliesAt(pc[p], job[p], pr)
  BY DEF Applying, AppliesAt, ApplyingStages

\* Only the process that takes the step can begin or end the applying.
LEMMA ApplyingKept ==
  ASSUME Typed, NEW p \in Procs, NEW stage, NEW j, NEW pr,
         Goto(p, stage), job' = [job EXCEPT ![p] = j],
         AppliesAt(stage, j, pr) <=> AppliesAt(pc[p], job[p], pr)
  PROVE  Applying(pr)' <=> Applying(pr)
  <1>1. pc \in [Procs -> Stages] /\ job \in [Procs -> Job \cup {None}]
    BY DEF Typed, TypeOK
  <1>2. /\ pc'[p] = stage /\ job'[p] = j
        /\ \A q \in Procs \ {p} : pc'[q] = pc[q] /\ job'[q] = job[q]
    BY <1>1 DEF Goto
  <1>3. \A q \in Procs : AppliesAt(pc'[q], job'[q], pr) <=> AppliesAt(pc[q], job[q], pr)
    BY <1>2
  <1>4. Applying(pr)' <=> \E q \in Procs : AppliesAt(pc'[q], job'[q], pr)
    BY DEF Applying, AppliesAt, ApplyingStages, PairOf
  <1>5. QED
    BY <1>3, <1>4, ApplyingIs

\* A board nothing changes for keeps its content.
LEMMA SameBoard ==
  ASSUME NEW b \in Boards, file'[b] = file[b], wal'[b] = wal[b],
         \A pr \in Pairs :
           b \in pr => moveWal'[pr] = moveWal[pr] /\ (Applying(pr)' <=> Applying(pr))
  PROVE  Effective'[b] = Effective[b]
  <1>1. \A k \in Kinds : JournalsOf(b, k)' = JournalsOf(b, k)
    BY DEF JournalsOf, Pending
  <1>2. ASSUME NEW k \in Kinds PROVE EffectiveImage(b, k)' = EffectiveImage(b, k)
    <2>1. CASE JournalsOf(b, k) = {}
      BY <1>1, <2>1 DEF EffectiveImage
    <2>2. CASE JournalsOf(b, k) # {}
      <3>1. PICK pr \in JournalsOf(b, k) : pr = CHOOSE qr \in JournalsOf(b, k) : TRUE
        BY <2>2
      <3>2. pr \in Pairs /\ b \in pr
        BY DEF JournalsOf, Pending
      <3>3. moveWal'[pr] = moveWal[pr] /\ (Decided(pr)' <=> Decided(pr))
        BY <3>2 DEF Decided
      <3>4. pr = CHOOSE qr \in JournalsOf(b, k)' : TRUE
        BY <1>1, <3>1
      <3>5. QED
        BY <1>1, <2>2, <3>1, <3>3, <3>4 DEF EffectiveImage
    <2>3. QED
      BY <2>1, <2>2
  <1>3. QED
    BY <1>2 DEF Effective

\* With no journal: the files.
ClearViewed ==
  \A b \in Boards :
    wal[b] = None /\ (\A pr \in Pending : b \notin pr) => Effective[b] = file[b]

LEMMA EffectiveClear == Typed => ClearViewed
  <1> SUFFICES ASSUME Typed, NEW b \in Boards, wal[b] = None, \A pr \in Pending : b \notin pr
               PROVE  Effective[b] = file[b]
    BY DEF ClearViewed
  <1>1. file[b] \in [Kinds -> Image]
    BY DEF Typed, TypeOK, Content
  <1>2. ASSUME NEW k \in Kinds PROVE EffectiveImage(b, k) = file[b][k]
    BY DEF EffectiveImage, JournalsOf
  <1>3. Effective[b] = [k \in Kinds |-> EffectiveImage(b, k)]
    BY DEF Effective
  <1>4. QED
    BY <1>1, <1>2, <1>3

\* With an archive journal: the journal.
WalViewed == \A b \in Boards : wal[b] # None => Effective[b] = wal[b]

LEMMA EffectiveWal == Typed /\ Disciplined => WalViewed
  <1> SUFFICES ASSUME Typed, Disciplined, NEW b \in Boards, wal[b] # None
               PROVE  Effective[b] = wal[b]
    BY DEF WalViewed
  <1>1. wal[b] \in [Kinds -> Image]
    BY DEF Typed, TypeOK, Content
  <1>2. \A pr \in Pending : b \notin pr
    BY DEF Disciplined, JournalExclusion
  <1>3. ASSUME NEW k \in Kinds PROVE EffectiveImage(b, k) = wal[b][k]
    BY <1>2 DEF EffectiveImage, JournalsOf
  <1>4. Effective[b] = [k \in Kinds |-> EffectiveImage(b, k)]
    BY DEF Effective
  <1>5. QED
    BY <1>1, <1>3, <1>4

\* With the journal of a move: one list of each board is the journal's image,
\* the one after the move if it is decided; the other lists are the files.
SourceNow(m, decided) == IF decided THEN m.sourceAfter ELSE m.sourceBefore

DestinationNow(m, decided) == IF decided THEN m.destinationAfter ELSE m.destinationBefore

LEMMA PendingMove ==
  ASSUME Typed, Disciplined, NEW pr \in Pending
  PROVE  /\ moveWal[pr] \in MoveJournal
         /\ pr = {moveWal[pr].source, moveWal[pr].destination}
         /\ moveWal[pr].source # moveWal[pr].destination
         /\ moveWal[pr].source \in Boards /\ moveWal[pr].destination \in Boards
         /\ moveWal[pr].kind \in Kinds
  <1>1. moveWal[pr] \in MoveJournal
    BY DEF Pending, Typed, TypeOK
  <1>2. PairOf(moveWal[pr]) = pr
    BY DEF Disciplined, LockDiscipline, Named
  <1>3. QED
    BY <1>1, <1>2 DEF MoveJournal, PairOf

PairsViewed ==
  \A pr \in Pending : \A k \in Kinds :
    LET m == moveWal[pr]
    IN  /\ Effective[m.source][k] = IF k = m.kind THEN SourceNow(m, Decided(pr))
                                                  ELSE file[m.source][k]
        /\ Effective[m.destination][k] = IF k = m.kind THEN DestinationNow(m, Decided(pr))
                                                       ELSE file[m.destination][k]

LEMMA EffectivePair == Typed /\ Disciplined => PairsViewed
  <1> SUFFICES ASSUME Typed, Disciplined, NEW pr \in Pending, NEW k \in Kinds
               PROVE  LET m == moveWal[pr]
                      IN  /\ Effective[m.source][k] = IF k = m.kind THEN SourceNow(m, Decided(pr))
                                                      ELSE file[m.source][k]
                          /\ Effective[m.destination][k] =
                               IF k = m.kind THEN DestinationNow(m, Decided(pr))
                                             ELSE file[m.destination][k]
    BY DEF PairsViewed
  <1> DEFINE m == moveWal[pr]
  <1>1. /\ pr = {m.source, m.destination} /\ m.source # m.destination
        /\ m.source \in Boards /\ m.destination \in Boards
    BY PendingMove
  <1>2. ASSUME NEW b \in pr, b \in Boards
        PROVE  EffectiveImage(b, k) = IF k = m.kind
                                      THEN IF b = m.source THEN SourceNow(m, Decided(pr))
                                                           ELSE DestinationNow(m, Decided(pr))
                                      ELSE file[b][k]
    <2>1. \A qr \in Pending : b \in qr => qr = pr
      BY <1>2 DEF Disciplined, JournalExclusion
    <2>2. wal[b] = None
      BY <1>2 DEF Disciplined, JournalExclusion
    <2>3. CASE k = m.kind
      <3>1. JournalsOf(b, k) = {pr}
        BY <1>2, <2>1, <2>3 DEF JournalsOf
      <3>2. (CHOOSE qr \in JournalsOf(b, k) : TRUE) = pr
        BY <3>1
      <3>3. QED
        BY <2>3, <3>1, <3>2 DEF EffectiveImage, SourceNow, DestinationNow
    <2>4. CASE k # m.kind
      <3>1. JournalsOf(b, k) = {}
        BY <2>1, <2>4 DEF JournalsOf
      <3>2. QED
        BY <2>2, <2>4, <3>1 DEF EffectiveImage
    <2>5. QED
      BY <2>3, <2>4
  <1>3. \A b \in Boards : Effective[b][k] = EffectiveImage(b, k)
    BY DEF Effective
  <1> HIDE DEF m
  <1>4. QED
    BY <1>1, <1>2, <1>3 DEF m

\* The process that holds a pair is the only one that can be applying its move.
LEMMA ApplyingMine ==
  Typed /\ Disciplined => \A p \in Procs : \A pr \in Pairs :
    pr \subseteq held[p] => (Applying(pr) <=> AppliesAt(pc[p], job[p], pr))
  <1> SUFFICES ASSUME Typed, Disciplined, NEW p \in Procs, NEW pr \in Pairs,
                      pr \subseteq held[p], NEW q \in Procs, q # p, AppliesAt(pc[q], job[q], pr)
               PROVE  FALSE
    BY ApplyingIs
  <1>1. PairOf(job[q].move) = pr /\ pc[q] \in {"rollback"} \cup MoveStages
    BY DEF AppliesAt, ApplyingStages, MoveStages
  <1>2. pr \subseteq held[q]
    BY <1>1, AtPosted DEF PostedAt
  <1>3. pr # {} /\ held[p] \cap held[q] = {}
    BY DEF Pairs, Disciplined, LockDiscipline, Exclusive
  <1>4. QED
    BY <1>2, <1>3

-----------------------------------------------------------------------------
(* What a rendered image does to each card.                                *)

LEMMA RemovedCards ==
  ASSUME NEW img \in Image, NEW c \in Cards
  PROVE  /\ KeepFocus(img, c).cards = [img.cards EXCEPT ![c] = NoCard]
         /\ Without(img, c).cards = [img.cards EXCEPT ![c] = NoCard]
  <1> DEFINE less == Put(img, c, NoCard)
  <1>1. less \in Image /\ less.cards = [img.cards EXCEPT ![c] = NoCard]
    BY NoCardType, PutType
  <1>2. Without(img, c) = [less EXCEPT !.focus = IF @ = c THEN None ELSE @]
    BY DEF Without
  <1>3. KeepFocus(img, c) = less
    BY DEF KeepFocus
  <1> HIDE DEF less
  <1>4. QED
    BY <1>1, <1>2, <1>3 DEF Image

LEMMA PairCards ==
  ASSUME NEW act \in Image, NEW arc \in Image, NEW from \in Image
  PROVE  /\ Pair(act, CopyMetadata(arc, from))["active"].cards = act.cards
         /\ Pair(act, CopyMetadata(arc, from))["archive"].cards = arc.cards
         /\ Pair(act, arc)["active"].cards = act.cards
         /\ Pair(act, arc)["archive"].cards = arc.cards
  BY CopyMetadataHas, PairType

LEMMA CreatedCards ==
  ASSUME NEW x \in Content, NEW c \in Cards
  PROVE  /\ Created(x, c)["active"].cards =
              [x["active"].cards EXCEPT ![c] = [rev |-> 1, atts |-> {}]]
         /\ Created(x, c)["archive"].cards = x["archive"].cards
  <1> DEFINE card == [rev |-> 1, atts |-> {}]
             act  == Put(x["active"], c, card)
  <1>1. x["active"] \in Image /\ x["archive"] \in Image
    BY ContentImages
  <1>2. card \in Card
    BY DEF Card
  <1>3. act \in Image /\ act.cards = [x["active"].cards EXCEPT ![c] = card]
    BY <1>1, <1>2, PutType
  <1>4. Created(x, c) = Pair(act, x["archive"])
    BY DEF Created
  <1> HIDE DEF act
  <1>5. QED
    BY <1>1, <1>3, <1>4, PairType

LEMMA EditedCards ==
  ASSUME NEW x \in Content, NEW c \in Cards
  PROVE  /\ Edited(x, c)["active"].cards =
              [x["active"].cards EXCEPT ![c] = Bump(x["active"].cards[c])]
         /\ Edited(x, c)["archive"].cards = x["archive"].cards
  <1>1. x["active"] \in Image /\ x["archive"] \in Image
    BY ContentImages
  <1>2. Bump(x["active"].cards[c]) \in Card
    BY <1>1, CardOf, BumpType
  <1>3. QED
    BY <1>1, <1>2, PutType, PairCards DEF Edited

LEMMA AttachedCards ==
  ASSUME NEW x \in Content, NEW c \in Cards, NEW a \in Attachments
  PROVE  /\ Attached(x, c, a)["active"].cards[c] \in Card
         /\ Attached(x, c, a)["active"].cards[c].rev = x["active"].cards[c].rev + 1
         /\ Attached(x, c, a)["active"].cards =
              [x["active"].cards EXCEPT ![c] = Attached(x, c, a)["active"].cards[c]]
         /\ Attached(x, c, a)["archive"].cards = x["archive"].cards
  <1> DEFINE card == x["active"].cards[c]
             new  == [rev |-> card.rev + 1, atts |-> card.atts \cup {a}]
             y    == Attached(x, c, a)
  <1>1. x["active"] \in Image /\ x["archive"] \in Image
    BY ContentImages
  <1>2. card.rev \in Nat /\ card.atts \in SUBSET Attachments
    BY <1>1, CardOf
  <1>3. new \in Card /\ new.rev = card.rev + 1
    BY <1>2 DEF Card
  <1>4. y = Pair(Put(x["active"], c, new), x["archive"])
    BY DEF Attached
  <1> HIDE DEF new, y
  <1>5. /\ Put(x["active"], c, new) \in Image
        /\ Put(x["active"], c, new).cards = [x["active"].cards EXCEPT ![c] = new]
    BY <1>1, <1>3, PutType
  <1>6. /\ y["active"].cards = [x["active"].cards EXCEPT ![c] = new]
        /\ y["archive"].cards = x["archive"].cards
    BY <1>1, <1>4, <1>5, PairCards
  <1>7. y["active"].cards[c] = new
    BY <1>1, <1>6 DEF Image
  <1>8. QED
    BY <1>3, <1>6, <1>7 DEF y

LEMMA DetachedCards ==
  ASSUME NEW x \in Content, NEW c \in Cards, NEW a \in Attachments
  PROVE  /\ Detached(x, c, a)["active"].cards[c] \in Card
         /\ Detached(x, c, a)["active"].cards[c].rev = x["active"].cards[c].rev + 1
         /\ Detached(x, c, a)["active"].cards =
              [x["active"].cards EXCEPT ![c] = Detached(x, c, a)["active"].cards[c]]
         /\ Detached(x, c, a)["archive"].cards = x["archive"].cards
  <1> DEFINE card == x["active"].cards[c]
             new  == [rev |-> card.rev + 1, atts |-> card.atts \ {a}]
             y    == Detached(x, c, a)
  <1>1. x["active"] \in Image /\ x["archive"] \in Image
    BY ContentImages
  <1>2. card.rev \in Nat /\ card.atts \in SUBSET Attachments
    BY <1>1, CardOf
  <1>3. new \in Card /\ new.rev = card.rev + 1
    BY <1>2 DEF Card
  <1>4. y = Pair(Put(x["active"], c, new), x["archive"])
    BY DEF Detached
  <1> HIDE DEF new, y
  <1>5. /\ Put(x["active"], c, new) \in Image
        /\ Put(x["active"], c, new).cards = [x["active"].cards EXCEPT ![c] = new]
    BY <1>1, <1>3, PutType
  <1>6. /\ y["active"].cards = [x["active"].cards EXCEPT ![c] = new]
        /\ y["archive"].cards = x["archive"].cards
    BY <1>1, <1>4, <1>5, PairCards
  <1>7. y["active"].cards[c] = new
    BY <1>1, <1>6 DEF Image
  <1>8. QED
    BY <1>3, <1>6, <1>7 DEF y

LEMMA DeletedCards ==
  ASSUME NEW x \in Content, NEW c \in Cards
  PROVE  /\ Deleted(x, c)["active"].cards = [x["active"].cards EXCEPT ![c] = NoCard]
         /\ Deleted(x, c)["archive"].cards = x["archive"].cards
         /\ DeletedArchived(x, c)["active"].cards = x["active"].cards
         /\ DeletedArchived(x, c)["archive"].cards = [x["archive"].cards EXCEPT ![c] = NoCard]
  <1> DEFINE act == Without(x["active"], c)
             arc == KeepFocus(x["archive"], c)
  <1>1. x["active"] \in Image /\ x["archive"] \in Image
    BY ContentImages
  <1>2. /\ act \in Image /\ act.cards = [x["active"].cards EXCEPT ![c] = NoCard]
        /\ arc \in Image /\ arc.cards = [x["archive"].cards EXCEPT ![c] = NoCard]
    BY <1>1, WithoutHas, KeepFocusHas, RemovedCards
  <1>3. /\ Deleted(x, c) = Pair(act, x["archive"])
        /\ DeletedArchived(x, c) = Pair(x["active"], CopyMetadata(arc, x["active"]))
    BY DEF Deleted, DeletedArchived
  <1> HIDE DEF act, arc
  <1>4. QED
    BY <1>1, <1>2, <1>3, PairCards

LEMMA CompletedCards ==
  ASSUME NEW x \in Content, NEW c \in Cards, ~Has(x["archive"], c)
  PROVE  /\ Completed(x, c)["active"].cards = [x["active"].cards EXCEPT ![c] = NoCard]
         /\ Completed(x, c)["archive"].cards =
              [x["archive"].cards EXCEPT ![c] = Bump(x["active"].cards[c])]
  <1> DEFINE act  == Without(x["active"], c)
             card == Bump(x["active"].cards[c])
             arc  == Put(x["archive"], c, card)
  <1>1. x["active"] \in Image /\ x["archive"] \in Image
    BY ContentImages
  <1>2. card \in Card
    BY <1>1, CardOf, BumpType
  <1>3. /\ act \in Image /\ act.cards = [x["active"].cards EXCEPT ![c] = NoCard]
        /\ arc \in Image /\ arc.cards = [x["archive"].cards EXCEPT ![c] = card]
    BY <1>1, <1>2, WithoutHas, PutType, RemovedCards
  <1>4. Completed(x, c) = Pair(act, CopyMetadata(arc, act))
    BY DEF Completed
  <1> HIDE DEF act, arc
  <1>5. QED
    BY <1>3, <1>4, PairCards

LEMMA RestoredCards ==
  ASSUME NEW x \in Content, NEW c \in Cards
  PROVE  /\ Restored(x, c)["active"].cards =
              [x["active"].cards EXCEPT ![c] = Bump(x["archive"].cards[c])]
         /\ Restored(x, c)["archive"].cards = [x["archive"].cards EXCEPT ![c] = NoCard]
  <1> DEFINE card == Bump(x["archive"].cards[c])
             act  == Put(x["active"], c, card)
             arc  == KeepFocus(x["archive"], c)
  <1>1. x["active"] \in Image /\ x["archive"] \in Image
    BY ContentImages
  <1>2. card \in Card
    BY <1>1, CardOf, BumpType
  <1>3. /\ act \in Image /\ act.cards = [x["active"].cards EXCEPT ![c] = card]
        /\ arc \in Image /\ arc.cards = [x["archive"].cards EXCEPT ![c] = NoCard]
    BY <1>1, <1>2, KeepFocusHas, PutType, RemovedCards
  <1>4. Restored(x, c) = Pair(act, CopyMetadata(arc, act))
    BY DEF Restored
  <1> HIDE DEF act, arc
  <1>5. QED
    BY <1>3, <1>4, PairCards

LEMMA SettledCards ==
  ASSUME NEW x \in Content, NEW focus \in Cards \cup {None}, NEW archived \in BOOLEAN
  PROVE  /\ Settled(x, focus, archived)["active"].cards = x["active"].cards
         /\ Settled(x, focus, archived)["archive"].cards = x["archive"].cards
  <1> DEFINE act == [x["active"] EXCEPT !.focus = IF archived THEN None ELSE focus,
                                        !.archived = archived]
  <1>1. x["active"] \in Image /\ x["archive"] \in Image
    BY ContentImages
  <1>2. act \in Image /\ act.cards = x["active"].cards
    BY <1>1 DEF Image
  <1>3. Settled(x, focus, archived) = Pair(act, CopyMetadata(x["archive"], act))
    BY DEF Settled
  <1> HIDE DEF act
  <1>4. QED
    BY <1>1, <1>2, <1>3, PairCards

LEMMA MovedOutCards ==
  ASSUME NEW x \in Content, NEW c \in Cards, NEW kind \in Kinds
  PROVE  MovedOut(x, c, kind).cards = [x[kind].cards EXCEPT ![c] = NoCard]
  <1>1. x["active"] \in Image /\ x["archive"] \in Image
    BY ContentImages
  <1>2. CASE kind = "active"
    BY <1>1, <1>2, RemovedCards DEF MovedOut
  <1>3. CASE kind = "archive"
    <2> DEFINE less == KeepFocus(x["archive"], c)
    <2>1. less \in Image /\ less.cards = [x["archive"].cards EXCEPT ![c] = NoCard]
      BY <1>1, KeepFocusHas, RemovedCards
    <2>2. MovedOut(x, c, kind) = CopyMetadata(less, x["active"])
      BY <1>3 DEF MovedOut
    <2> HIDE DEF less
    <2>3. QED
      BY <1>1, <1>3, <2>1, <2>2, CopyMetadataHas
  <1>4. QED
    BY <1>2, <1>3 DEF Kinds

LEMMA MovedInCards ==
  ASSUME NEW x \in Content, NEW c \in Cards, NEW kind \in Kinds, NEW card \in Card
  PROVE  MovedIn(x, c, kind, card).cards = [x[kind].cards EXCEPT ![c] = Bump(card)]
  <1>1. x["active"] \in Image /\ x["archive"] \in Image
    BY ContentImages
  <1>2. Bump(card) \in Card
    BY BumpType
  <1>3. CASE kind = "active"
    BY <1>1, <1>2, <1>3, PutType DEF MovedIn
  <1>4. CASE kind = "archive"
    <2> DEFINE more == Put(x["archive"], c, Bump(card))
    <2>1. more \in Image /\ more.cards = [x["archive"].cards EXCEPT ![c] = Bump(card)]
      BY <1>1, <1>2, PutType
    <2>2. MovedIn(x, c, kind, card) = CopyMetadata(more, x["active"])
      BY <1>4 DEF MovedIn
    <2> HIDE DEF more
    <2>3. QED
      BY <1>1, <1>4, <2>1, <2>2, CopyMetadataHas
  <1>5. QED
    BY <1>3, <1>4 DEF Kinds

AtLeast(board, c, n) == \E k \in Kinds : board[k].cards[c].rev >= n

OnSome(board, c) == \E k \in Kinds : Has(board[k], c)

LEMMA ListCards ==
  ASSUME NEW x \in Content, NEW k \in Kinds
  PROVE  /\ x[k].cards \in [Cards -> Card]
         /\ \A c \in Cards : x[k].cards[c].rev \in Nat
  <1>1. x[k] \in Image
    BY ContentImages
  <1>2. QED
    BY <1>1, CardOf DEF Image

\* One card is written on one list; the other list stays.
LEMMA WriteKeeps ==
  ASSUME NEW old \in Content, NEW new \in Content, NEW c \in Cards, NEW card \in Card,
         NEW k \in Kinds, card.rev >= old[k].cards[c].rev,
         new[k].cards = [old[k].cards EXCEPT ![c] = card],
         \A l \in Kinds \ {k} : new[l].cards = old[l].cards
  PROVE  /\ \A d \in Cards, n \in Nat : AtLeast(old, d, n) => AtLeast(new, d, n)
         /\ \A d \in Cards \ {c} : OnSome(new, d) => OnSome(old, d)
         /\ AtLeast(new, c, card.rev)
  <1>1. /\ \A l \in Kinds : old[l].cards \in [Cards -> Card]
        /\ \A l \in Kinds, d \in Cards : old[l].cards[d].rev \in Nat
    BY ListCards
  <1>2. card.rev \in Nat
    BY DEF Card
  <1>3. \A d \in Cards : new[k].cards[d] = IF d = c THEN card ELSE old[k].cards[d]
    BY <1>1
  <1>4. \A l \in Kinds, d \in Cards : new[l].cards[d].rev >= old[l].cards[d].rev
    BY <1>1, <1>2, <1>3
  <1>5. \A l \in Kinds, d \in Cards : new[l].cards[d].rev \in Nat
    BY ListCards
  <1>6. ASSUME NEW d \in Cards, NEW n \in Nat, AtLeast(old, d, n) PROVE AtLeast(new, d, n)
    <2>1. PICK l \in Kinds : old[l].cards[d].rev >= n
      BY <1>6 DEF AtLeast
    <2>2. new[l].cards[d].rev >= n
      BY <1>1, <1>4, <1>5, <2>1
    <2>3. QED
      BY <2>2 DEF AtLeast
  <1>7. ASSUME NEW d \in Cards \ {c}, NEW l \in Kinds PROVE new[l].cards[d] = old[l].cards[d]
    BY <1>3
  <1>8. AtLeast(new, c, card.rev)
    <2>1. new[k].cards[c] = card /\ card.rev >= card.rev
      BY <1>2, <1>3
    <2>2. QED
      BY <2>1 DEF AtLeast
  <1>9. ASSUME NEW d \in Cards \ {c}, OnSome(new, d) PROVE OnSome(old, d)
    <2>1. PICK l \in Kinds : Has(new[l], d)
      BY <1>9 DEF OnSome
    <2>2. Has(old[l], d)
      BY <1>7, <2>1 DEF Has
    <2>3. QED
      BY <2>2 DEF OnSome
  <1>10. QED
    BY <1>6, <1>8, <1>9

\* One card changes lists.
LEMMA ShiftKeeps ==
  ASSUME NEW old \in Content, NEW new \in Content, NEW c \in Cards, NEW card \in Card,
         NEW k \in Kinds, NEW l \in Kinds, k # l,
         ~Has(old[l], c), card.rev >= old[k].cards[c].rev,
         new[k].cards = [old[k].cards EXCEPT ![c] = NoCard],
         new[l].cards = [old[l].cards EXCEPT ![c] = card]
  PROVE  /\ \A d \in Cards, n \in Nat : AtLeast(old, d, n) => AtLeast(new, d, n)
         /\ \A d \in Cards \ {c} : OnSome(new, d) => OnSome(old, d)
         /\ AtLeast(new, c, card.rev)
  <1>1. /\ \A m \in Kinds : old[m].cards \in [Cards -> Card]
        /\ \A m \in Kinds, d \in Cards : old[m].cards[d].rev \in Nat
    BY ListCards
  <1>2. card.rev \in Nat
    BY DEF Card
  <1>3. /\ \A d \in Cards : new[l].cards[d] = IF d = c THEN card ELSE old[l].cards[d]
        /\ \A d \in Cards \ {c} : new[k].cards[d] = old[k].cards[d]
    BY <1>1
  <1>4. \A m \in Kinds : m = k \/ m = l
    BY DEF Kinds
  <1>5. AtLeast(new, c, card.rev)
    <2>1. new[l].cards[c] = card /\ card.rev >= card.rev
      BY <1>2, <1>3
    <2>2. QED
      BY <2>1 DEF AtLeast
  <1>6. ASSUME NEW d \in Cards, NEW n \in Nat, AtLeast(old, d, n) PROVE AtLeast(new, d, n)
    <2>1. PICK m \in Kinds : old[m].cards[d].rev >= n
      BY <1>6 DEF AtLeast
    <2>2. CASE d # c
      <3>1. new[m].cards[d] = old[m].cards[d]
        BY <1>3, <1>4, <2>2
      <3>2. QED
        BY <2>1, <3>1 DEF AtLeast
    <2>3. CASE d = c
      <3>1. old[l].cards[c].rev = 0
        BY <1>1 DEF Has
      <3>2. card.rev >= n
        BY <1>1, <1>2, <1>4, <2>1, <2>3, <3>1
      <3>3. QED
        BY <1>3, <2>3, <3>2 DEF AtLeast
    <2>4. QED
      BY <2>2, <2>3
  <1>7. \A d \in Cards \ {c}, m \in Kinds : new[m].cards[d] = old[m].cards[d]
    BY <1>3, <1>4
  <1>8. ASSUME NEW d \in Cards \ {c}, OnSome(new, d) PROVE OnSome(old, d)
    <2>1. PICK m \in Kinds : Has(new[m], d)
      BY <1>8 DEF OnSome
    <2>2. Has(old[m], d)
      BY <1>7, <2>1 DEF Has
    <2>3. QED
      BY <2>2 DEF OnSome
  <1>9. QED
    BY <1>5, <1>6, <1>8

\* One card is removed.
LEMMA RemoveKeeps ==
  ASSUME NEW old \in Content, NEW new \in Content, NEW c \in Cards, NEW k \in Kinds,
         new[k].cards = [old[k].cards EXCEPT ![c] = NoCard],
         \A l \in Kinds \ {k} : new[l].cards = old[l].cards
  PROVE  /\ \A d \in Cards \ {c}, n \in Nat : AtLeast(old, d, n) => AtLeast(new, d, n)
         /\ \A d \in Cards : OnSome(new, d) => OnSome(old, d)
  <1>1. \A l \in Kinds : old[l].cards \in [Cards -> Card]
    BY ListCards
  <1>2. \A l \in Kinds, d \in Cards \ {c} : new[l].cards[d] = old[l].cards[d]
    BY <1>1
  <1>3. \A l \in Kinds : new[l].cards[c] \in {NoCard, old[l].cards[c]}
    BY <1>1
  <1>4. NoCard.rev = 0
    BY DEF NoCard
  <1>5. \A l \in Kinds, d \in Cards : Has(new[l], d) => Has(old[l], d)
    BY <1>2, <1>3, <1>4 DEF Has
  <1>6. QED
    BY <1>2, <1>5 DEF AtLeast, OnSome

\* What an operation on one board renders keeps every card it does not delete,
\* at its revision or a later one, and has no card that was not there, but for
\* the one it creates.
Keeps(old, new, j) ==
  /\ \A d \in Cards, n \in Nat :
       AtLeast(old, d, n) /\ ~(Deletes(j) /\ d = j.card) => AtLeast(new, d, n)
  /\ \A d \in Cards : OnSome(new, d) => OnSome(old, d) \/ (j.rev = 1 /\ d = j.card)
  /\ j.card \in Cards /\ ~Deletes(j) => AtLeast(new, j.card, j.rev)

LEMMA RenderedKeeps ==
  ASSUME NEW old \in Content, NEW j, RenderedFrom(old, j),
         \A c \in Cards : ~(Has(old["active"], c) /\ Has(old["archive"], c)),
         j.rev = 1 => ~OnSome(old, j.card)
  PROVE  j.after \in Content /\ Keeps(old, j.after, j)
  <1> DEFINE c       == j.card
             active  == old["active"]
             archive == old["archive"]
             Changed == j.rev = active.cards[c].rev + 1
  <1>1. "active" \in Kinds /\ "archive" \in Kinds /\ \A k \in Kinds : k \in {"active", "archive"}
    BY DEF Kinds
  <1>2. \A k \in Kinds, d \in Cards : old[k].cards[d] \in Card /\ old[k].cards[d].rev \in Nat
    BY ContentImages, CardOf
  <1>3. \A d \in Cards : d # None
    BY NoneAssumption
  <1>4. ASSUME NEW focus \in Cards \cup {None}, NEW archived \in BOOLEAN, c = None, j.rev = 0,
               j.after = Settled(old, focus, archived)
        PROVE  j.after \in Content /\ Keeps(old, j.after, j)
    <2>1. j.after \in Content
      BY <1>4, SettledContent
    <2>2. \A k \in Kinds : j.after[k].cards = old[k].cards
      BY <1>1, <1>4, SettledCards
    <2>3. QED
      BY <1>3, <1>4, <2>1, <2>2 DEF Keeps, AtLeast, OnSome, Has, Deletes
  <1>5. ASSUME c \in Cards, j.rev = 1, j.after = Created(old, c), ~Has(active, c)
        PROVE  j.after \in Content /\ Keeps(old, j.after, j)
    <2> DEFINE card == [rev |-> 1, atts |-> {}]
    <2>1. card \in Card /\ card.rev = 1 /\ old["active"].cards[c].rev = 0
      BY <1>1, <1>2, <1>5 DEF Card, Has
    <2>2. /\ j.after \in Content
          /\ j.after["active"].cards = [old["active"].cards EXCEPT ![c] = card]
          /\ j.after["archive"].cards = old["archive"].cards
      BY <1>5, CreatedContent, CreatedCards
    <2> HIDE DEF card
    <2>3. /\ \A d \in Cards, n \in Nat : AtLeast(old, d, n) => AtLeast(j.after, d, n)
          /\ \A d \in Cards \ {c} : OnSome(j.after, d) => OnSome(old, d)
          /\ AtLeast(j.after, c, card.rev)
      BY <1>1, <1>5, <2>1, <2>2, WriteKeeps
    <2>4. QED
      BY <1>5, <2>1, <2>2, <2>3 DEF Keeps, Deletes
  <1>6. ASSUME c \in Cards, Has(active, c), Changed, NEW card \in Card, j.after \in Content,
               card.rev = active.cards[c].rev + 1,
               j.after["active"].cards = [old["active"].cards EXCEPT ![c] = card],
               j.after["archive"].cards = old["archive"].cards
        PROVE  Keeps(old, j.after, j)
    <2>1. card.rev >= old["active"].cards[c].rev
      BY <1>1, <1>2, <1>6
    <2>2. /\ \A d \in Cards, n \in Nat : AtLeast(old, d, n) => AtLeast(j.after, d, n)
          /\ \A d \in Cards \ {c} : OnSome(j.after, d) => OnSome(old, d)
          /\ AtLeast(j.after, c, card.rev)
      BY <1>1, <1>6, <2>1, WriteKeeps
    <2>3. OnSome(old, c)
      BY <1>1, <1>6 DEF OnSome
    <2>4. QED
      BY <1>6, <2>2, <2>3 DEF Keeps, Deletes
  <1>7. ASSUME c \in Cards, Has(active, c), Changed, j.after = Edited(old, c)
        PROVE  j.after \in Content /\ Keeps(old, j.after, j)
    <2> DEFINE card == Bump(active.cards[c])
    <2>1. card \in Card /\ card.rev = active.cards[c].rev + 1
      BY <1>1, <1>2, <1>7 DEF Bump, Card
    <2>2. /\ j.after \in Content
          /\ j.after["active"].cards = [old["active"].cards EXCEPT ![c] = card]
          /\ j.after["archive"].cards = old["archive"].cards
      BY <1>7, EditedContent, EditedCards
    <2> HIDE DEF card
    <2>3. QED
      BY <1>6, <1>7, <2>1, <2>2
  <1>8. ASSUME c \in Cards, Has(active, c), Changed, j.att \in Attachments,
               j.after \in {Attached(old, c, j.att), Detached(old, c, j.att)}
        PROVE  j.after \in Content /\ Keeps(old, j.after, j)
    <2>1. j.after \in Content
      BY <1>8, AttachedContent
    <2> DEFINE card == j.after["active"].cards[c]
    <2>2. /\ card \in Card /\ card.rev = old["active"].cards[c].rev + 1
          /\ j.after["active"].cards = [old["active"].cards EXCEPT ![c] = card]
          /\ j.after["archive"].cards = old["archive"].cards
      <3>1. CASE j.after = Attached(old, c, j.att)
        BY <1>8, <3>1, AttachedCards
      <3>2. CASE j.after = Detached(old, c, j.att)
        BY <1>8, <3>2, DetachedCards
      <3>3. QED
        BY <1>8, <3>1, <3>2
    <2> HIDE DEF card
    <2>3. QED
      BY <1>6, <1>8, <2>1, <2>2
  <1>9. ASSUME c \in Cards, NEW k \in Kinds, NEW l \in Kinds, k # l, Has(old[k], c), ~Has(old[l], c),
               j.rev = old[k].cards[c].rev + 1, j.after \in Content,
               j.after[k].cards = [old[k].cards EXCEPT ![c] = NoCard],
               j.after[l].cards = [old[l].cards EXCEPT ![c] = Bump(old[k].cards[c])]
        PROVE  Keeps(old, j.after, j)
    <2> DEFINE card == Bump(old[k].cards[c])
    <2>1. card \in Card /\ card.rev = old[k].cards[c].rev + 1
      BY <1>2, <1>9 DEF Bump, Card
    <2> HIDE DEF card
    <2>2. card.rev >= old[k].cards[c].rev
      BY <1>2, <1>9, <2>1
    <2>3. /\ \A d \in Cards, n \in Nat : AtLeast(old, d, n) => AtLeast(j.after, d, n)
          /\ \A d \in Cards \ {c} : OnSome(j.after, d) => OnSome(old, d)
          /\ AtLeast(j.after, c, card.rev)
      BY <1>9, <2>1, <2>2, ShiftKeeps DEF card
    <2>4. OnSome(old, c)
      BY <1>9 DEF OnSome
    <2>5. QED
      BY <1>9, <2>1, <2>3, <2>4, <1>2 DEF Keeps, Deletes
  <1>10. ASSUME c \in Cards, Has(active, c), Changed, j.after = Completed(old, c)
         PROVE  j.after \in Content /\ Keeps(old, j.after, j)
    <2>1. ~Has(archive, c)
      BY <1>10
    <2>2. /\ j.after \in Content
          /\ j.after["active"].cards = [old["active"].cards EXCEPT ![c] = NoCard]
          /\ j.after["archive"].cards =
               [old["archive"].cards EXCEPT ![c] = Bump(old["active"].cards[c])]
      BY <1>10, <2>1, CompletedContent, CompletedCards
    <2>3. QED
      BY <1>1, <1>9, <1>10, <2>1, <2>2
  <1>11. ASSUME c \in Cards, CanRestore(old, c), j.rev = archive.cards[c].rev + 1,
                j.after = Restored(old, c)
         PROVE  j.after \in Content /\ Keeps(old, j.after, j)
    <2>1. Has(archive, c) /\ ~Has(active, c)
      BY <1>11 DEF CanRestore
    <2>2. /\ j.after \in Content
          /\ j.after["archive"].cards = [old["archive"].cards EXCEPT ![c] = NoCard]
          /\ j.after["active"].cards =
               [old["active"].cards EXCEPT ![c] = Bump(old["archive"].cards[c])]
      BY <1>11, <2>1, RestoredContent, RestoredCards
    <2>3. QED
      BY <1>1, <1>9, <1>11, <2>1, <2>2
  <1>12. ASSUME c \in Cards, j.rev = 0,
                j.after = Deleted(old, c) \/ j.after = DeletedArchived(old, c)
         PROVE  j.after \in Content /\ Keeps(old, j.after, j)
    <2>1. j.after \in Content
      BY <1>12, DeletedContent, DeletedArchivedContent
    <2>2. PICK k \in Kinds : /\ j.after[k].cards = [old[k].cards EXCEPT ![c] = NoCard]
                             /\ \A l \in Kinds \ {k} : j.after[l].cards = old[l].cards
      <3>1. CASE j.after = Deleted(old, c)
        <4>1. /\ j.after["active"].cards = [old["active"].cards EXCEPT ![c] = NoCard]
              /\ j.after["archive"].cards = old["archive"].cards
          <5>1. /\ Deleted(old, c)["active"].cards = [old["active"].cards EXCEPT ![c] = NoCard]
                /\ Deleted(old, c)["archive"].cards = old["archive"].cards
            BY <1>12, DeletedCards
          <5>2. QED
            BY <3>1, <5>1
        <4>2. QED
          BY <1>1, <4>1
      <3>2. CASE j.after = DeletedArchived(old, c)
        <4>1. /\ j.after["archive"].cards = [old["archive"].cards EXCEPT ![c] = NoCard]
              /\ j.after["active"].cards = old["active"].cards
          <5>1. /\ DeletedArchived(old, c)["archive"].cards =
                     [old["archive"].cards EXCEPT ![c] = NoCard]
                /\ DeletedArchived(old, c)["active"].cards = old["active"].cards
            BY <1>12, DeletedCards
          <5>2. QED
            BY <3>2, <5>1
        <4>2. QED
          BY <1>1, <4>1
      <3>3. QED
        BY <1>12, <3>1, <3>2
    <2>3. /\ \A d \in Cards \ {c}, n \in Nat : AtLeast(old, d, n) => AtLeast(j.after, d, n)
          /\ \A d \in Cards : OnSome(j.after, d) => OnSome(old, d)
      BY <1>12, <2>1, <2>2, RemoveKeeps
    <2>4. Deletes(j)
      BY <1>3, <1>12 DEF Deletes
    <2>5. QED
      BY <2>1, <2>3, <2>4 DEF Keeps
  <1>13. j.rev = 1 => ~Has(active, c)
    BY <1>1 DEF OnSome
  <1>14. CASE \E focus \in Cards \cup {None}, archived \in BOOLEAN :
                 c = None /\ j.rev = 0 /\ j.after = Settled(old, focus, archived)
    BY <1>4, <1>14
  <1>15. \/ \E focus \in Cards \cup {None}, archived \in BOOLEAN :
              c = None /\ j.rev = 0 /\ j.after = Settled(old, focus, archived)
         \/ c \in Cards /\ j.rev = 1 /\ j.after = Created(old, c)
         \/ c \in Cards /\ Has(active, c) /\ Changed /\ j.after \in {Edited(old, c), Completed(old, c)}
         \/ /\ c \in Cards /\ CanRestore(old, c) /\ j.rev = archive.cards[c].rev + 1
            /\ j.after = Restored(old, c)
         \/ /\ c \in Cards /\ Has(active, c) /\ Changed /\ j.att \in Attachments
            /\ j.after = Attached(old, c, j.att)
         \/ /\ c \in Cards /\ Has(active, c) /\ Changed /\ j.att \in active.cards[c].atts
            /\ j.after = Detached(old, c, j.att)
         \/ /\ c \in Cards /\ j.rev = 0
            /\ j.after = Deleted(old, c) \/ j.after = DeletedArchived(old, c)
    BY DEF RenderedFrom, CanAttach
  <1>16. c \in Cards /\ j.att \in active.cards[c].atts => j.att \in Attachments
    BY ContentImages, CardOf
  <1>17. QED
    BY <1>5, <1>7, <1>8, <1>10, <1>11, <1>12, <1>13, <1>14, <1>15, <1>16

\* No list names an attachment of a card it does not have.
Tidy(board) == \A k \in Kinds, c \in Cards : Has(board[k], c) \/ board[k].cards[c].atts = {}

NamedOn(board, c, a) == \E k \in Kinds : a \in board[k].cards[c].atts

\* What is rendered names no attachment the board did not name, but for the one
\* that was uploaded.
Names(old, new, j) ==
  /\ Tidy(old) => Tidy(new)
  /\ \A c \in Cards : \A a :
       NamedOn(new, c, a) =>
         NamedOn(old, c, a) \/ (j.undo = "upload" /\ c = j.card /\ a = j.att)

LEMMA RenderedNames ==
  ASSUME NEW old \in Content, NEW j, RenderedFrom(old, j), j.after \in Content,
         \A c \in Cards : ~(Has(old["active"], c) /\ Has(old["archive"], c))
  PROVE  Names(old, j.after, j)
  <1> DEFINE c       == j.card
             active  == old["active"]
             archive == old["archive"]
             new     == j.after
  <1>1. "active" \in Kinds /\ "archive" \in Kinds /\ \A k \in Kinds : k \in {"active", "archive"}
    BY DEF Kinds
  <1>2. \A k \in Kinds, d \in Cards : old[k].cards[d] \in Card /\ old[k].cards[d].rev \in Nat
    BY ContentImages, CardOf
  <1>3. ASSUME NEW extra, c \in Cards, extra = {} \/ (j.undo = "upload" /\ extra = {j.att}),
               \A k \in Kinds : \E card :
                 /\ new[k].cards \in {old[k].cards, [old[k].cards EXCEPT ![c] = card]}
                 /\ card.rev > 0 \/ card.atts = {}
                 /\ \A a : a \in card.atts => NamedOn(old, c, a) \/ a \in extra
        PROVE  Names(old, new, j)
    <2>0. PICK e \in Cards : e = c
      BY <1>3
    <2>1. ASSUME NEW k \in Kinds, NEW d \in Cards
          PROVE  /\ Tidy(old) => Has(new[k], d) \/ new[k].cards[d].atts = {}
                 /\ \A a : a \in new[k].cards[d].atts => NamedOn(old, d, a) \/ (d = c /\ a \in extra)
      <3>1. PICK card : /\ new[k].cards \in {old[k].cards, [old[k].cards EXCEPT ![c] = card]}
                        /\ card.rev > 0 \/ card.atts = {}
                        /\ \A a : a \in card.atts => NamedOn(old, c, a) \/ a \in extra
        BY <1>3
      <3>2. old[k].cards \in [Cards -> Card]
        BY ListCards
      <3>3. CASE new[k].cards[d] = old[k].cards[d]
        BY <3>3 DEF Tidy, Has, NamedOn
      <3>4. CASE d = c /\ new[k].cards[d] = card
        <4>1. Has(new[k], d) \/ new[k].cards[d].atts = {}
          BY <3>1, <3>4 DEF Has
        <4>2. \A a : a \in new[k].cards[d].atts => NamedOn(old, d, a) \/ (d = c /\ a \in extra)
          BY <3>1, <3>4
        <4>3. QED
          BY <4>1, <4>2
      <3>5. new[k].cards[d] = old[k].cards[d] \/ (d = c /\ new[k].cards[d] = card)
        BY <2>0, <3>1, <3>2
      <3>6. QED
        BY <3>3, <3>4, <3>5
    <2>2. Tidy(old) => Tidy(new)
      BY <2>1 DEF Tidy
    <2>3. \A d \in Cards : \A a : NamedOn(new, d, a) => NamedOn(old, d, a) \/ (d = c /\ a \in extra)
      BY <2>1 DEF NamedOn
    <2>4. QED
      BY <1>3, <2>2, <2>3 DEF Names
  <1>4. NoCard.atts = {} /\ NoCard.rev = 0
    BY DEF NoCard
  <1>5. ASSUME NEW k \in Kinds, NEW d \in Cards
        PROVE  /\ Bump(old[k].cards[d]).rev > 0
               /\ \A a : a \in Bump(old[k].cards[d]).atts => NamedOn(old, d, a)
    <2>1. PICK x \in Card : x = old[k].cards[d]
      BY <1>2
    <2>2. Bump(x).rev = x.rev + 1 /\ Bump(x).atts = x.atts /\ x.rev \in Nat
      BY DEF Bump, Card
    <2>3. QED
      BY <2>1, <2>2 DEF NamedOn
  <1>6. ASSUME c \in Cards, NEW m \in Kinds,
               \A k \in Kinds :
                 new[k].cards \in {old[k].cards, [old[k].cards EXCEPT ![c] = NoCard],
                                   [old[k].cards EXCEPT ![c] = Bump(old[m].cards[c])]}
        PROVE  Names(old, new, j)
    <2>1. \A x \in {NoCard, Bump(old[m].cards[c])} :
            (x.rev > 0 \/ x.atts = {}) /\ \A a : a \in x.atts => NamedOn(old, c, a)
      BY <1>4, <1>5, <1>6
    <2>2. \A n \in Kinds : \E card \in {NoCard, Bump(old[m].cards[c])} :
            new[n].cards \in {old[n].cards, [old[n].cards EXCEPT ![c] = card]}
      BY <1>6
    <2>3. \A n \in Kinds : \E card :
            /\ new[n].cards \in {old[n].cards, [old[n].cards EXCEPT ![c] = card]}
            /\ card.rev > 0 \/ card.atts = {}
            /\ \A a : a \in card.atts => NamedOn(old, c, a) \/ a \in {}
      BY <2>1, <2>2
    <2>4. QED
      BY <1>3, <1>6, <2>3
  <1>7. ASSUME c \in Cards, new = Attached(old, c, j.att), j.att \in Attachments, j.undo = "upload"
        PROVE  Names(old, new, j)
    <2>1. PICK x \in Card : x = old["active"].cards[c]
      BY <1>1, <1>2, <1>7
    <2>2. PICK card : card = [rev |-> x.rev + 1, atts |-> x.atts \cup {j.att}]
      OBVIOUS
    <2>3. card.rev > 0 /\ \A a : a \in card.atts => NamedOn(old, c, a) \/ a \in {j.att}
      BY <1>1, <2>1, <2>2 DEF Card, NamedOn
    <2>4. /\ new["active"].cards = [old["active"].cards EXCEPT ![c] = card]
          /\ new["archive"].cards = old["archive"].cards
      <3>1. active \in Image /\ archive \in Image /\ card \in Card
        BY <1>7, <2>1, <2>2, ContentImages DEF Card
      <3>2. /\ Put(active, c, card) \in Image
            /\ Put(active, c, card).cards = [active.cards EXCEPT ![c] = card]
        BY <1>7, <3>1, PutType
      <3>3. new = Pair(Put(active, c, card), archive)
        BY <1>7, <2>1, <2>2 DEF Attached
      <3>4. QED
        BY <3>1, <3>2, <3>3, PairCards
    <2>5. \A n \in Kinds : \E y :
            /\ new[n].cards \in {old[n].cards, [old[n].cards EXCEPT ![c] = y]}
            /\ y.rev > 0 \/ y.atts = {}
            /\ \A a : a \in y.atts => NamedOn(old, c, a) \/ a \in {j.att}
      BY <1>1, <2>3, <2>4
    <2>6. QED
      BY <1>3, <1>7, <2>5
  <1>8. ASSUME c \in Cards, new = Detached(old, c, j.att)
        PROVE  Names(old, new, j)
    <2>1. PICK x \in Card : x = old["active"].cards[c]
      BY <1>1, <1>2, <1>8
    <2>2. PICK card : card = [rev |-> x.rev + 1, atts |-> x.atts \ {j.att}]
      OBVIOUS
    <2>3. card.rev > 0 /\ \A a : a \in card.atts => NamedOn(old, c, a) \/ a \in {}
      BY <1>1, <2>1, <2>2 DEF Card, NamedOn
    <2>4. /\ new["active"].cards = [old["active"].cards EXCEPT ![c] = card]
          /\ new["archive"].cards = old["archive"].cards
      <3>1. active \in Image /\ archive \in Image /\ card \in Card
        BY <1>8, <2>1, <2>2, ContentImages DEF Card
      <3>2. /\ Put(active, c, card) \in Image
            /\ Put(active, c, card).cards = [active.cards EXCEPT ![c] = card]
        BY <1>8, <3>1, PutType
      <3>3. new = Pair(Put(active, c, card), archive)
        BY <1>8, <2>1, <2>2 DEF Detached
      <3>4. QED
        BY <3>1, <3>2, <3>3, PairCards
    <2>5. \A n \in Kinds : \E y :
            /\ new[n].cards \in {old[n].cards, [old[n].cards EXCEPT ![c] = y]}
            /\ y.rev > 0 \/ y.atts = {}
            /\ \A a : a \in y.atts => NamedOn(old, c, a) \/ a \in {}
      BY <1>1, <2>3, <2>4
    <2>6. QED
      BY <1>3, <1>8, <2>5
  <1>9. ASSUME c \in Cards, new = Created(old, c) PROVE Names(old, new, j)
    <2>1. PICK card : card = [rev |-> 1, atts |-> {}]
      OBVIOUS
    <2>2. /\ new["active"].cards = [old["active"].cards EXCEPT ![c] = card]
          /\ new["archive"].cards = old["archive"].cards
      BY <1>9, <2>1, CreatedCards
    <2>3. \A n \in Kinds : \E y :
            /\ new[n].cards \in {old[n].cards, [old[n].cards EXCEPT ![c] = y]}
            /\ y.rev > 0 \/ y.atts = {}
            /\ \A a : a \in y.atts => NamedOn(old, c, a) \/ a \in {}
      BY <1>1, <2>1, <2>2
    <2>4. QED
      BY <1>3, <1>9, <2>3
  <1>10. ASSUME NEW focus \in Cards \cup {None}, NEW archived \in BOOLEAN,
                new = Settled(old, focus, archived)
         PROVE  Names(old, new, j)
    <2>1. \A k \in Kinds : new[k].cards = old[k].cards
      BY <1>1, <1>10, SettledCards
    <2>2. QED
      BY <2>1 DEF Names, Tidy, NamedOn, Has
  <1>11. ASSUME c \in Cards, new = Edited(old, c) PROVE Names(old, new, j)
    <2>1. /\ new["active"].cards = [old["active"].cards EXCEPT ![c] = Bump(old["active"].cards[c])]
          /\ new["archive"].cards = old["archive"].cards
      BY <1>11, EditedCards
    <2>2. QED
      BY <1>1, <1>6, <1>11, <2>1
  <1>12. ASSUME c \in Cards, Has(active, c), new = Completed(old, c) PROVE Names(old, new, j)
    <2>1. ~Has(archive, c)
      BY <1>12
    <2>2. /\ new["active"].cards = [old["active"].cards EXCEPT ![c] = NoCard]
          /\ new["archive"].cards = [old["archive"].cards EXCEPT ![c] = Bump(old["active"].cards[c])]
      BY <1>12, <2>1, CompletedCards
    <2>3. QED
      BY <1>1, <1>6, <1>12, <2>2
  <1>13. ASSUME c \in Cards, new = Restored(old, c) PROVE Names(old, new, j)
    <2>1. /\ new["active"].cards = [old["active"].cards EXCEPT ![c] = Bump(old["archive"].cards[c])]
          /\ new["archive"].cards = [old["archive"].cards EXCEPT ![c] = NoCard]
      BY <1>13, RestoredCards
    <2>2. QED
      BY <1>1, <1>6, <1>13, <2>1
  <1>14. ASSUME c \in Cards, new = Deleted(old, c) PROVE Names(old, new, j)
    <2>1. /\ new["active"].cards = [old["active"].cards EXCEPT ![c] = NoCard]
          /\ new["archive"].cards = old["archive"].cards
      <3>1. /\ Deleted(old, c)["active"].cards = [old["active"].cards EXCEPT ![c] = NoCard]
            /\ Deleted(old, c)["archive"].cards = old["archive"].cards
        BY <1>14, DeletedCards
      <3>2. QED
        BY <1>14, <3>1
    <2>2. \A n \in Kinds : \E y :
            /\ new[n].cards \in {old[n].cards, [old[n].cards EXCEPT ![c] = y]}
            /\ y.rev > 0 \/ y.atts = {}
            /\ \A a : a \in y.atts => NamedOn(old, c, a) \/ a \in {}
      BY <1>1, <1>4, <2>1
    <2>3. QED
      BY <1>3, <1>14, <2>2
  <1>15. ASSUME c \in Cards, new = DeletedArchived(old, c) PROVE Names(old, new, j)
    <2>1. /\ new["active"].cards = old["active"].cards
          /\ new["archive"].cards = [old["archive"].cards EXCEPT ![c] = NoCard]
      <3>1. /\ DeletedArchived(old, c)["active"].cards = old["active"].cards
            /\ DeletedArchived(old, c)["archive"].cards = [old["archive"].cards EXCEPT ![c] = NoCard]
        BY <1>15, DeletedCards
      <3>2. QED
        BY <1>15, <3>1
    <2>2. \A n \in Kinds : \E y :
            /\ new[n].cards \in {old[n].cards, [old[n].cards EXCEPT ![c] = y]}
            /\ y.rev > 0 \/ y.atts = {}
            /\ \A a : a \in y.atts => NamedOn(old, c, a) \/ a \in {}
      BY <1>1, <1>4, <2>1
    <2>3. QED
      BY <1>3, <1>15, <2>2
  <1> HIDE DEF new
  <1>16. QED
    BY <1>7, <1>8, <1>9, <1>10, <1>11, <1>12, <1>13, <1>14, <1>15 DEF RenderedFrom, new
-----------------------------------------------------------------------------
(* One whole operation, or nothing, on the boards as recovery finds them.  *)

\* Some list names attachment a of card c.
NamedBy(c, a) == \E b \in Boards : NamedOn(Effective[b], c, a)

Bare == \A b \in Boards : Tidy(Effective[b])

\* p is about to name the attachment it has stored.
Attaching(p, c, a) ==
  /\ pc[p] \in {"write", "journal"}
  /\ job[p].undo = "upload" /\ c = job[p].card /\ a = job[p].att

\* What a step of p may do to them: nothing, or one operation of the abstract
\* store, which keeps every card nobody asked to delete, brings no card but the
\* one p creates, names no attachment but the one p has stored, and touches the
\* boards p holds.
Lawful(p) ==
  /\ [Promise!Next]_Effective
  /\ [Abstract!Next]_Effective
  /\ \A c \in Cards \ doomed, n \in Nat : Holds(c, n) => Holds(c, n)'
  /\ \A c \in Cards : Somewhere(c)' => Somewhere(c) \/ (Creating(p) /\ c = job[p].card)
  /\ \A b \in Boards \ held[p] : Effective'[b] = Effective[b]
  /\ Bare => Bare'
  /\ \A c \in Cards : \A a : NamedBy(c, a)' => NamedBy(c, a) \/ Attaching(p, c, a)

LEMMA StutterLawful ==
  ASSUME NEW p, Effective' = Effective
  PROVE  Lawful(p)
  <1>1. \A c \in Cards, n \in Nat : Holds(c, n) => Holds(c, n)'
    BY DEF Holds
  <1>2. \A c \in Cards : Somewhere(c)' => Somewhere(c)
    BY DEF Somewhere, Has
  <1>3. Bare => Bare'
    BY DEF Bare, Tidy, Has
  <1>4. \A c \in Cards : \A a : NamedBy(c, a)' => NamedBy(c, a)
    BY DEF NamedBy, NamedOn
  <1>5. QED
    BY <1>1, <1>2, <1>3, <1>4 DEF Lawful

LEMMA EffectiveType ==
  Abstract!Sound =>
    /\ Effective \in [Boards -> Content]
    /\ \A b \in Boards : Effective[b] \in Content
    /\ \A b \in Boards, c \in Cards :
         ~(Has(Effective[b]["active"], c) /\ Has(Effective[b]["archive"], c))
  <1> SUFFICES ASSUME Abstract!Sound
               PROVE  /\ Effective \in [Boards -> Content]
                      /\ \A b \in Boards : Effective[b] \in Content
                      /\ \A b \in Boards, c \in Cards :
                           ~(Has(Effective[b]["active"], c) /\ Has(Effective[b]["archive"], c))
    OBVIOUS
  <1>1. Abstract!Content = Content
    BY DEF Abstract!Content, Abstract!Image, Abstract!Card, Abstract!Kinds,
           Content, Image, Card, Kinds
  <1>2. Effective \in [Boards -> Content]
    BY <1>1 DEF Abstract!Sound, Abstract!TypeOK
  <1>3. ASSUME NEW b \in Boards, NEW c \in Cards
        PROVE  ~(Has(Effective[b]["active"], c) /\ Has(Effective[b]["archive"], c))
    BY DEF Abstract!Sound, Abstract!OneList, Abstract!Kinds, Abstract!Has, Has
  <1>4. QED
    BY <1>2, <1>3

LEMMA RenderedStep ==
  ASSUME Abstract!Sound, NEW b \in Boards, NEW j, RenderedFrom(Effective[b], j),
         j.rev = 1 => ~Somewhere(j.card), Effective' = [Effective EXCEPT ![b] = j.after]
  PROVE  Promise!Next /\ Abstract!Next
  <1> DEFINE old == Effective[b]
             c   == j.card
             new == j.after
  <1>1. old \in Content
    BY EffectiveType
  <1>2. \A img : Promise!Become(b, img) /\ Abstract!Become(b, img)
                   <=> Effective' = [Effective EXCEPT ![b] = img]
    BY DEF Promise!Become, Abstract!Become
  <1>3. \A f : Has(old["active"], f) => "active" \in Kinds
    BY DEF Kinds
  <1>4. ASSUME NEW focus \in Cards \cup {None}, NEW archived \in BOOLEAN,
               CanSettle(old, focus, archived), new = Settled(old, focus, archived)
        PROVE  Promise!Next /\ Abstract!Next
    <2>1. /\ Promise!PatchBoardSettings(b, focus, archived)
          /\ Abstract!PatchBoardSettings(b, focus, archived)
      <3>1. /\ Promise!CanSettle(old, focus, archived) /\ Abstract!CanSettle(old, focus, archived)
            /\ Promise!Settled(old, focus, archived) = new
            /\ Abstract!Settled(old, focus, archived) = new
        BY <1>4, PromiseOperators, AbstractOperators
      <3>2. QED
        BY <1>2, <3>1 DEF Promise!PatchBoardSettings, Abstract!PatchBoardSettings
    <2>2. QED
      BY <2>1 DEF Promise!Next, Abstract!Next
  <1>5. ASSUME c \in Cards, CanCreate(old), j.rev = 1, new = Created(old, c)
        PROVE  Promise!Next /\ Abstract!Next
    <2>1. ~Somewhere(c)
      BY <1>5
    <2>2. ~Promise!Present(c) /\ ~Abstract!Present(c)
      BY <2>1 DEF Somewhere, Promise!Present, Promise!HomesOf, Promise!Has, Promise!Kinds,
                  Abstract!Present, Abstract!HomesOf, Abstract!Has, Abstract!Kinds, Has, Kinds
    <2>3. Promise!CreateCard(b, c) /\ Abstract!CreateCard(b, c)
      <3>1. /\ Promise!CanCreate(old) /\ Abstract!CanCreate(old)
            /\ Promise!Created(old, c) = new /\ Abstract!Created(old, c) = new
        BY <1>5, PromiseOperators, AbstractOperators
      <3>2. QED
        BY <1>2, <2>2, <3>1 DEF Promise!CreateCard, Abstract!CreateCard
    <2>4. QED
      BY <1>5, <2>3 DEF Promise!Next, Abstract!Next
  <1>6. ASSUME c \in Cards, Has(old["active"], c), new = Edited(old, c)
        PROVE  Promise!Next /\ Abstract!Next
    <2>1. Promise!EditCard(b, c) /\ Abstract!EditCard(b, c)
      BY <1>2, <1>6, PromiseOperators, AbstractOperators DEF Promise!EditCard, Abstract!EditCard
    <2>2. QED
      BY <1>6, <2>1 DEF Promise!Next, Abstract!Next
  <1>7. ASSUME c \in Cards, Has(old["active"], c), new = Completed(old, c)
        PROVE  Promise!Next /\ Abstract!Next
    <2>1. Promise!CompleteCard(b, c) /\ Abstract!CompleteCard(b, c)
      BY <1>2, <1>7, PromiseOperators, AbstractOperators
         DEF Promise!CompleteCard, Abstract!CompleteCard
    <2>2. QED
      BY <1>7, <2>1 DEF Promise!Next, Abstract!Next
  <1>8. ASSUME c \in Cards, CanRestore(old, c), new = Restored(old, c)
        PROVE  Promise!Next /\ Abstract!Next
    <2>1. Promise!RestoreCard(b, c) /\ Abstract!RestoreCard(b, c)
      BY <1>2, <1>8, PromiseOperators, AbstractOperators
         DEF Promise!RestoreCard, Abstract!RestoreCard
    <2>2. QED
      BY <1>8, <2>1 DEF Promise!Next, Abstract!Next
  <1>9. ASSUME c \in Cards, CanAttach(old, c), j.att \in Attachments, new = Attached(old, c, j.att)
        PROVE  Promise!Next /\ Abstract!Next
    <2>1. Promise!AddAttachment(b, c, j.att) /\ Abstract!AddAttachment(b, c, j.att)
      <3>1. /\ Promise!CanAttach(old, c) /\ Abstract!CanAttach(old, c)
            /\ Promise!Attached(old, c, j.att) = new /\ Abstract!Attached(old, c, j.att) = new
        BY <1>9, PromiseOperators, AbstractOperators
      <3>2. QED
        BY <1>2, <3>1 DEF Promise!AddAttachment, Abstract!AddAttachment
    <2>2. QED
      BY <1>9, <2>1 DEF Promise!Next, Abstract!Next
  <1>10. ASSUME c \in Cards, Has(old["active"], c), j.att \in old["active"].cards[c].atts,
                new = Detached(old, c, j.att)
         PROVE  Promise!Next /\ Abstract!Next
    <2>1. j.att \in Attachments
      BY <1>1, <1>10, ContentImages, CardOf
    <2>2. Promise!DeleteAttachment(b, c, j.att) /\ Abstract!DeleteAttachment(b, c, j.att)
      <3>1. /\ Promise!Has(old["active"], c) /\ Abstract!Has(old["active"], c)
            /\ Promise!Detached(old, c, j.att) = new /\ Abstract!Detached(old, c, j.att) = new
        BY <1>10, PromiseOperators, AbstractOperators
      <3>2. QED
        BY <1>2, <1>10, <3>1 DEF Promise!DeleteAttachment, Abstract!DeleteAttachment
    <2>3. QED
      BY <1>10, <2>1, <2>2 DEF Promise!Next, Abstract!Next
  <1>11. ASSUME c \in Cards,
                \/ Has(old["active"], c) /\ new = Deleted(old, c)
                \/ /\ ~Has(old["active"], c) /\ Has(old["archive"], c)
                   /\ new = DeletedArchived(old, c)
         PROVE  Promise!Next /\ Abstract!Next
    <2>1. Promise!DeleteCard(b, c) /\ Abstract!DeleteCard(b, c)
      BY <1>2, <1>11, PromiseOperators, AbstractOperators
         DEF Promise!DeleteCard, Abstract!DeleteCard
    <2>2. QED
      BY <1>11, <2>1 DEF Promise!Next, Abstract!Next
  <1>12. QED
    BY <1>4, <1>5, <1>6, <1>7, <1>8, <1>9, <1>10, <1>11 DEF RenderedFrom

LEMMA CommitLawful ==
  ASSUME Typed, Abstract!Sound, Fresh, NEW p \in Procs, NEW b \in Boards, b \in held[p],
         pc[p] \in {"write", "journal"}, RenderedFrom(Effective[b], job[p]),
         Deletes(job[p]) => job[p].card \in doomed,
         Effective' = [Effective EXCEPT ![b] = job[p].after]
  PROVE  /\ Lawful(p)
         /\ Effective'[b] = job[p].after
         /\ \A c \in Cards, n \in Nat :
              c = job[p].card /\ n = job[p].rev /\ ~Deletes(job[p]) => Holds(c, n)'
  <1> DEFINE j == job[p]
  <1>1. j.rev = 1 => Creating(p) /\ ~Somewhere(j.card)
    BY DEF Fresh, Creating, Creates, RenderStages
  <1>2. PICK old, new : old = Effective[b] /\ new = j.after
    OBVIOUS
  <1>3. old \in Content /\ \A c \in Cards : ~(Has(old["active"], c) /\ Has(old["archive"], c))
    BY <1>2, EffectiveType
  <1>4. j.rev = 1 => ~OnSome(old, j.card)
    BY <1>1, <1>2 DEF OnSome, Somewhere
  <1>5. new \in Content /\ Keeps(old, new, j)
    BY <1>2, <1>3, <1>4, RenderedKeeps
  <1>6. /\ Effective'[b] = new
        /\ \A e \in Boards \ {b} : Effective'[e] = Effective[e]
    BY <1>2, EffectiveType
  <1>7. ASSUME NEW c \in Cards \ doomed, NEW n \in Nat, Holds(c, n) PROVE Holds(c, n)'
    <2>1. PICK e \in Boards, k \in Kinds : Effective[e][k].cards[c].rev >= n
      BY <1>7 DEF Holds
    <2>2. CASE e # b
      BY <1>6, <2>1, <2>2 DEF Holds
    <2>3. CASE e = b
      <3>1. AtLeast(old, c, n)
        BY <1>2, <2>1, <2>3 DEF AtLeast
      <3>2. ~(Deletes(j) /\ c = j.card)
        BY <1>7
      <3>3. PICK l \in Kinds : new[l].cards[c].rev >= n
        BY <1>5, <1>7, <3>1, <3>2 DEF Keeps, AtLeast
      <3>4. QED
        BY <1>6, <3>3 DEF Holds
    <2>4. QED
      BY <2>2, <2>3
  <1>8. ASSUME NEW c \in Cards, Somewhere(c)'
        PROVE  Somewhere(c) \/ (Creating(p) /\ c = j.card)
    <2>1. PICK e \in Boards, k \in Kinds : Has(Effective'[e][k], c)
      BY <1>8 DEF Somewhere, Has
    <2>2. CASE e # b
      BY <1>6, <2>1, <2>2 DEF Somewhere
    <2>3. CASE e = b
      <3>1. OnSome(new, c)
        BY <1>6, <2>1, <2>3 DEF OnSome
      <3>2. OnSome(old, c) \/ (j.rev = 1 /\ c = j.card)
        BY <1>5, <3>1 DEF Keeps
      <3>3. OnSome(old, c) => Somewhere(c)
        BY <1>2 DEF OnSome, Somewhere
      <3>4. QED
        BY <1>1, <3>2, <3>3
    <2>4. QED
      BY <2>2, <2>3
  <1>9. ASSUME NEW c \in Cards, NEW n \in Nat, c = j.card, n = j.rev, ~Deletes(j)
        PROVE  Holds(c, n)'
    <2>1. PICK l \in Kinds : new[l].cards[c].rev >= n
      BY <1>5, <1>9 DEF Keeps, AtLeast
    <2>2. \E e \in Boards, k \in Kinds : Effective'[e][k].cards[c].rev >= n
      BY <1>6, <2>1
    <2>3. QED
      BY <2>2 DEF Holds
  <1>10. Promise!Next /\ Abstract!Next
    BY <1>1, RenderedStep
  <1>11. Names(old, new, j)
    BY <1>2, <1>3, <1>5, RenderedNames
  <1>12. Bare => Bare'
    BY <1>2, <1>6, <1>11 DEF Bare, Names, Tidy, Has
  <1>13. ASSUME NEW c \in Cards, NEW a, NamedBy(c, a)'
         PROVE  NamedBy(c, a) \/ Attaching(p, c, a)
    <2>1. PICK e \in Boards, k \in Kinds : a \in Effective'[e][k].cards[c].atts
      BY <1>13 DEF NamedBy, NamedOn
    <2>2. CASE e # b
      BY <1>6, <2>1, <2>2 DEF NamedBy, NamedOn
    <2>3. CASE e = b
      <3>1. NamedOn(new, c, a)
        BY <1>6, <2>1, <2>3 DEF NamedOn
      <3>2. NamedOn(old, c, a) \/ (j.undo = "upload" /\ c = j.card /\ a = j.att)
        BY <1>11, <3>1 DEF Names
      <3>3. NamedOn(old, c, a) => NamedBy(c, a)
        BY <1>2 DEF NamedBy
      <3>4. QED
        BY <3>2, <3>3 DEF Attaching
    <2>4. QED
      BY <2>2, <2>3
  <1>14. QED
    BY <1>2, <1>6, <1>7, <1>8, <1>9, <1>10, <1>12, <1>13 DEF Lawful
-----------------------------------------------------------------------------
(* A move takes effect at once, on both boards.                            *)

\* The boards after a card has moved.
MovedBoards(s, d, c, k) ==
  [Effective EXCEPT
     ![s][k] = MovedOut(Effective[s], c, k),
     ![d][k] = MovedIn(Effective[d], c, k, Effective[s][k].cards[c])]

LEMMA MoveLawful ==
  ASSUME Abstract!Sound, NEW p, NEW s \in Boards, NEW d \in Boards, NEW c \in Cards,
         NEW k \in Kinds, s # d, s \in held[p], d \in held[p],
         CanMove(Effective[s], Effective[d], c, k),
         Effective' = MovedBoards(s, d, c, k)
  PROVE  /\ Lawful(p)
         /\ \A n \in Nat : n = Effective[s][k].cards[c].rev + 1 => Holds(c, n)'
  <1> DEFINE card == Effective[s][k].cards[c]
             out  == MovedOut(Effective[s], c, k)
             in   == MovedIn(Effective[d], c, k, card)
  <1>1. /\ Effective \in [Boards -> Content]
        /\ Effective[s] \in Content /\ Effective[d] \in Content
    BY EffectiveType
  <1>2. card \in Card /\ card.rev \in Nat
    BY <1>1, ContentImages, CardOf
  <1>3. /\ out.cards = [Effective[s][k].cards EXCEPT ![c] = NoCard]
        /\ in.cards = [Effective[d][k].cards EXCEPT ![c] = Bump(card)]
    <2> HIDE DEF card
    <2>1. MovedOut(Effective[s], c, k).cards = [Effective[s][k].cards EXCEPT ![c] = NoCard]
      BY <1>1, MovedOutCards
    <2>2. MovedIn(Effective[d], c, k, card).cards = [Effective[d][k].cards EXCEPT ![c] = Bump(card)]
      BY <1>1, <1>2, MovedInCards
    <2>3. QED
      BY <2>1, <2>2
  <1>4. Bump(card).rev = card.rev + 1
    BY <1>2 DEF Bump, Card
  <1>5. Promise!MoveCardToBoard(s, d, c, k) /\ Abstract!MoveCardToBoard(s, d, c, k)
    <2>1. /\ Promise!CanMove(Effective[s], Effective[d], c, k)
          /\ Abstract!CanMove(Effective[s], Effective[d], c, k)
          /\ Promise!MovedOut(Effective[s], c, k) = out
          /\ Abstract!MovedOut(Effective[s], c, k) = out
          /\ Promise!MovedIn(Effective[d], c, k, card) = in
          /\ Abstract!MovedIn(Effective[d], c, k, card) = in
      BY PromiseOperators, AbstractOperators
    <2>2. QED
      BY <2>1 DEF Promise!MoveCardToBoard, Abstract!MoveCardToBoard, MovedBoards
  <1>6. Promise!Next /\ Abstract!Next
    <2>1. Promise!Kinds = Kinds /\ Abstract!Kinds = Kinds
      BY DEF Promise!Kinds, Abstract!Kinds, Kinds
    <2>2. QED
      BY <1>5, <2>1 DEF Promise!Next, Abstract!Next
  <1>7. Effective' = [Effective EXCEPT ![s][k] = out, ![d][k] = in]
    BY DEF MovedBoards
  <1>8. /\ \A l \in Kinds, f \in Cards : Effective[s][l].cards[f].rev \in Nat
        /\ \A l \in Kinds, f \in Cards : Effective[d][l].cards[f].rev \in Nat
    BY <1>1, ListCards
  <1>9. /\ Effective[s][k].cards \in [Cards -> Card]
        /\ Effective[d][k].cards \in [Cards -> Card]
    BY <1>1, ListCards
  <1> HIDE DEF card, out, in
  <1>10. /\ Effective'[s][k] = out /\ Effective'[d][k] = in
         /\ \A b \in Boards \ {s, d} : Effective'[b] = Effective[b]
         /\ \A b \in Boards, l \in Kinds :
              ~(b \in {s, d} /\ l = k) => Effective'[b][l] = Effective[b][l]
    BY <1>1, <1>7 DEF Content
  <1>11. \A f \in Cards \ {c}, b \in Boards, l \in Kinds :
           Effective'[b][l].cards[f] = Effective[b][l].cards[f]
    <2>1. \A f \in Cards \ {c} : /\ out.cards[f] = Effective[s][k].cards[f]
                               /\ in.cards[f] = Effective[d][k].cards[f]
      BY <1>3, <1>9
    <2>2. ASSUME NEW f \in Cards \ {c}, NEW b \in Boards, NEW l \in Kinds
          PROVE  Effective'[b][l].cards[f] = Effective[b][l].cards[f]
      <3>1. CASE b = s /\ l = k
        BY <1>10, <2>1, <3>1
      <3>2. CASE b = d /\ l = k
        BY <1>10, <2>1, <3>2
      <3>3. CASE ~(b \in {s, d} /\ l = k)
        BY <1>10, <3>3
      <3>4. QED
        BY <3>1, <3>2, <3>3
    <2>3. QED
      BY <2>2
  <1>12. in.cards[c].rev = card.rev + 1
    BY <1>3, <1>4, <1>9
  <1>13. \A l \in Kinds : Effective[d][l].cards[c].rev = 0
    BY <1>8 DEF CanMove, Has
  <1>14. Has(Effective[s][k], c)
    BY DEF CanMove
  <1>15. ASSUME NEW n \in Nat, n = card.rev + 1 PROVE Holds(c, n)'
    <2>1. Effective'[d][k].cards[c].rev >= n
      BY <1>2, <1>10, <1>12, <1>15
    <2>2. QED
      BY <2>1 DEF Holds
  <1>16. ASSUME NEW f \in Cards, NEW n \in Nat, Holds(f, n) PROVE Holds(f, n)'
    <2>1. PICK b \in Boards, l \in Kinds : Effective[b][l].cards[f].rev >= n
      BY <1>16 DEF Holds
    <2>2. CASE f # c
      <3>1. Effective'[b][l].cards[f].rev >= n
        BY <1>11, <2>1, <2>2
      <3>2. QED
        BY <3>1 DEF Holds
    <2>3. CASE f = c /\ b = s /\ l = k
      <3>1. Effective'[d][k].cards[f].rev >= n
        BY <1>2, <1>10, <1>12, <2>1, <2>3 DEF card
      <3>2. QED
        BY <3>1 DEF Holds
    <2>4. CASE f = c /\ b = d
      <3>1. Effective'[d][k].cards[f].rev >= n
        BY <1>2, <1>10, <1>12, <1>13, <2>1, <2>4
      <3>2. QED
        BY <3>1 DEF Holds
    <2>5. CASE f = c /\ b # d /\ ~(b = s /\ l = k)
      <3>1. Effective'[b][l].cards[f].rev >= n
        BY <1>10, <2>1, <2>5
      <3>2. QED
        BY <3>1 DEF Holds
    <2>6. QED
      BY <2>2, <2>3, <2>4, <2>5
  <1>17. ASSUME NEW f \in Cards, Somewhere(f)' PROVE Somewhere(f)
    <2>1. PICK b \in Boards, l \in Kinds : Effective'[b][l].cards[f].rev > 0
      BY <1>17 DEF Somewhere, Has
    <2>2. CASE f = c
      BY <1>14, <2>2 DEF Somewhere
    <2>3. CASE f # c
      <3>1. Has(Effective[b][l], f)
        BY <1>11, <2>1, <2>3 DEF Has
      <3>2. QED
        BY <3>1 DEF Somewhere
    <2>4. QED
      BY <2>2, <2>3
  <1>18. \A n \in Nat : n = Effective[s][k].cards[c].rev + 1 => Holds(c, n)'
    BY <1>15 DEF card
  <1>19. in.cards[c].atts = card.atts /\ out.cards[c].atts = {}
    BY <1>2, <1>3, <1>9 DEF Bump, Card, NoCard
  <1>20. Bare => Bare'
    <2> SUFFICES ASSUME Bare, NEW b \in Boards, NEW l \in Kinds, NEW f \in Cards
                 PROVE  Effective'[b][l].cards[f].rev > 0 \/ Effective'[b][l].cards[f].atts = {}
      BY DEF Bare, Tidy, Has
    <2>1. CASE f = c /\ b = s /\ l = k
      BY <1>10, <1>19, <2>1
    <2>2. CASE f = c /\ b = d /\ l = k
      BY <1>2, <1>10, <1>12, <2>2
    <2>3. CASE f # c \/ ~(b \in {s, d} /\ l = k)
      BY <1>10, <1>11, <2>3 DEF Bare, Tidy, Has
    <2>4. QED
      BY <2>1, <2>2, <2>3
  <1>21. ASSUME NEW f \in Cards, NEW a, NamedBy(f, a)' PROVE NamedBy(f, a)
    <2>1. PICK b \in Boards, l \in Kinds : a \in Effective'[b][l].cards[f].atts
      BY <1>21 DEF NamedBy, NamedOn
    <2>2. CASE f = c /\ b = s /\ l = k
      BY <1>10, <1>19, <2>1, <2>2
    <2>3. CASE f = c /\ b = d /\ l = k
      <3>1. a \in Effective[s][k].cards[f].atts
        BY <1>10, <1>19, <2>1, <2>3 DEF card
      <3>2. QED
        BY <3>1 DEF NamedBy, NamedOn
    <2>4. CASE f # c \/ ~(b \in {s, d} /\ l = k)
      <3>1. a \in Effective[b][l].cards[f].atts
        BY <1>10, <1>11, <2>1, <2>4
      <3>2. QED
        BY <3>1 DEF NamedBy, NamedOn
    <2>5. QED
      BY <2>2, <2>3, <2>4
  <1>22. QED
    BY <1>6, <1>10, <1>16, <1>17, <1>18, <1>20, <1>21 DEF Lawful

\* The boards have the images from before the move.
Undone(m) ==
  \A l \in Kinds :
    /\ Effective[m.source][l] = IF l = m.kind THEN m.sourceBefore ELSE file[m.source][l]
    /\ Effective[m.destination][l] =
         IF l = m.kind THEN m.destinationBefore ELSE file[m.destination][l]

\* A step writes at most the files the move is about, and no other board
\* changes by it.
Within(m) ==
  /\ \A b \in PairOf(m), l \in Kinds : l # m.kind => file'[b][l] = file[b][l]
  /\ \A b \in Boards \ PairOf(m) : Effective'[b] = Effective[b]

\* The step that decides a move: from then on its journal counts.
LEMMA MoveDecided ==
  ASSUME Typed, Disciplined, Typed', Disciplined', Abstract!Sound, NEW p \in Procs,
         NEW m \in MoveJournal, m.state = "commit", Movable(m), PairOf(m) \subseteq held[p],
         Undone(m), Within(m), moveWal'[PairOf(m)] = m, ~Applying(PairOf(m))'
  PROVE  /\ Lawful(p)
         /\ \A n \in Nat : n = m.sourceBefore.cards[m.card].rev + 1 => Holds(m.card, n)'
         /\ Effective'[m.source][m.kind] = m.sourceAfter
         /\ Effective'[m.destination][m.kind] = m.destinationAfter
  <1>1. PICK s \in Boards, d \in Boards, c \in Cards, k \in Kinds :
          s = m.source /\ d = m.destination /\ c = m.card /\ k = m.kind /\ s # d
    BY DEF MoveJournal
  <1> DEFINE pr == PairOf(m)
             x  == [file[s] EXCEPT ![k] = m.sourceBefore]
             y  == [file[d] EXCEPT ![k] = m.destinationBefore]
             new == [Effective EXCEPT ![s][k] = m.sourceAfter, ![d][k] = m.destinationAfter]
  <1>2. pr \in Pairs /\ pr = {s, d}
    BY <1>1 DEF PairOf, Pairs
  <1>3. /\ Effective \in [Boards -> [Kinds -> Image]]
        /\ Effective[s] \in [Kinds -> Image] /\ Effective[d] \in [Kinds -> Image]
        /\ file[s] \in [Kinds -> Image] /\ file[d] \in [Kinds -> Image]
    BY <1>1, EffectiveType DEF Typed, TypeOK, Content
  <1>4. Effective[s] = x /\ Effective[d] = y
    BY <1>1, <1>3 DEF Undone
  <1>5. x[k] = m.sourceBefore
    BY <1>1, <1>3
  <1>6. /\ CanMove(x, y, c, k)
        /\ m.sourceAfter = MovedOut(x, c, k)
        /\ m.destinationAfter = MovedIn(y, c, k, x[k].cards[c])
    BY <1>1, <1>5 DEF Movable
  <1>7. pr \in Pending' /\ Decided(pr)'
    BY <1>2, NoneIsNoRecord DEF Pending, Decided
  <1>8. \A l \in Kinds :
          /\ Effective'[s][l] = IF l = k THEN m.sourceAfter ELSE file'[s][l]
          /\ Effective'[d][l] = IF l = k THEN m.destinationAfter ELSE file'[d][l]
    <2>1. PairsViewed'
      BY EffectivePair, PTL
    <2>2. QED
      BY <1>1, <1>7, <2>1 DEF PairsViewed, SourceNow, DestinationNow
  <1>9. Effective' = [b \in Boards |-> [l \in Kinds |-> EffectiveImage(b, l)']]
    BY DEF Effective
  <1>10. /\ Effective'[s] = [Effective[s] EXCEPT ![k] = m.sourceAfter]
         /\ Effective'[d] = [Effective[d] EXCEPT ![k] = m.destinationAfter]
    <2>1. Effective'[s] = [l \in Kinds |-> Effective'[s][l]]
      BY <1>1, <1>9
    <2>2. Effective'[d] = [l \in Kinds |-> Effective'[d][l]]
      BY <1>1, <1>9
    <2>3. \A l \in Kinds : /\ l # k => Effective'[s][l] = Effective[s][l]
                           /\ l # k => Effective'[d][l] = Effective[d][l]
      BY <1>1, <1>2, <1>8 DEF Within, Undone
    <2>4. QED
      BY <1>1, <1>3, <1>8, <2>1, <2>2, <2>3
  <1>11. Effective' = new
    <2>1. /\ new[s] = [Effective[s] EXCEPT ![k] = m.sourceAfter]
          /\ new[d] = [Effective[d] EXCEPT ![k] = m.destinationAfter]
          /\ \A b \in Boards \ {s, d} : new[b] = Effective[b]
          /\ new = [b \in Boards |-> new[b]]
      BY <1>1, <1>3
    <2> HIDE DEF new
    <2>2. \A b \in Boards : Effective'[b] = new[b]
      BY <1>2, <1>10, <2>1 DEF Within
    <2>3. Effective' = [b \in Boards |-> Effective'[b]]
      BY <1>9
    <2>4. QED
      BY <2>1, <2>2, <2>3
  <1>12. Effective' = MovedBoards(s, d, c, k)
    BY <1>4, <1>6, <1>11 DEF MovedBoards
  <1>13. CanMove(Effective[s], Effective[d], c, k) /\ s \in held[p] /\ d \in held[p]
    BY <1>2, <1>4, <1>6
  <1>14. Effective[s][k].cards[c].rev = m.sourceBefore.cards[m.card].rev
    BY <1>1, <1>4, <1>5
  <1> HIDE DEF x, y, pr, new
  <1>15. /\ Lawful(p)
         /\ \A n \in Nat : n = Effective[s][k].cards[c].rev + 1 => Holds(c, n)'
    BY <1>1, <1>12, <1>13, MoveLawful
  <1>16. QED
    BY <1>1, <1>8, <1>14, <1>15
-----------------------------------------------------------------------------
(* A step of one process and what the others know.                         *)

OwnedBy == \A p \in Procs : \A stage, j : stage = pc[p] /\ j = job[p] => OwnAt(stage, j, p)

ToldBy == \A p \in Procs : \A stage, j : stage = pc[p] /\ j = job[p] => ToldAt(stage, j)

FreshCards ==
  /\ \A c \in Cards : Somewhere(c) => c \in issued
  /\ \A p \in Procs : \A stage, j :
       stage = pc[p] /\ j = job[p] /\ Creates(stage, j) => j.card \in issued /\ ~Somewhere(j.card)
  /\ \A p, q \in Procs : p # q /\ Creating(p) /\ Creating(q) => job[p].card # job[q].card

AckedHeld == \A c \in Cards \ doomed, n \in Nat : n = acked[c] /\ n > 0 => Holds(c, n)

\* Kept with what each process has in memory named.
LEMMA KeptIs == Typed => (Kept <=> OwnedBy /\ ToldBy /\ FreshCards /\ AckedHeld)
  <1> SUFFICES ASSUME Typed PROVE Kept <=> OwnedBy /\ ToldBy /\ FreshCards /\ AckedHeld
    OBVIOUS
  <1>1. acked \in [Cards -> Nat]
    BY DEF Typed, TypeOK
  <1>2. Owned <=> OwnedBy
    BY DEF Owned, OwnedBy
  <1>3. Told <=> ToldBy
    BY DEF Told, ToldBy
  <1>4. Fresh <=> FreshCards
    BY DEF Fresh, FreshCards, Creating
  <1>5. NoLostUpdate <=> AckedHeld
    BY <1>1 DEF NoLostUpdate, AckedHeld, Holds
  <1>6. QED
    BY <1>2, <1>3, <1>4, <1>5 DEF Kept

\* What a step of p leaves alone.
Local(p) ==
  /\ \A q \in Procs \ {p} : held'[q] = held[q]
  /\ \A b \in Boards \ held[p] : file'[b] = file[b] /\ wal'[b] = wal[b]
  /\ \A pr \in Pairs : ~(pr \subseteq held[p]) => moveWal'[pr] = moveWal[pr]
  /\ doomed \subseteq doomed' /\ issued \subseteq issued'

LEMMA OthersOwn ==
  ASSUME Typed, Disciplined, NEW p \in Procs, Local(p), Lawful(p), NEW q \in Procs, q # p,
         NEW stage, NEW j, stage = pc[q], j = job[q], OwnAt(stage, j, q)
  PROVE  OwnAt(stage, j, q)'
  <1>1. held[p] \cap held[q] = {} /\ held'[q] = held[q]
    BY DEF Disciplined, LockDiscipline, Exclusive, Local
  <1>2. PostedAt(stage, j, q)
    BY AtPosted
  <1>3. \A b \in Boards : b \in held[q] =>
          file'[b] = file[b] /\ wal'[b] = wal[b] /\ Effective'[b] = Effective[b]
    BY <1>1 DEF Local, Lawful
  <1>4. \A pr \in Pairs : pr \subseteq held[q] => moveWal'[pr] = moveWal[pr]
    BY <1>1 DEF Local, Pairs
  <1>5. stage \notin {"idle", "recover"} =>
          j \in Job /\ j.board \in Boards /\ j.move \in MoveJournal \cup {None}
    BY AtCall
  <1>6. RenderedAt(stage, j)'
    <2> SUFFICES ASSUME stage \in RenderStages PROVE RenderedAt(stage, j)'
      BY DEF RenderedAt
    <2>1. stage \in {"upload", "quarantine", "write", "journal"} /\ RenderedAt(stage, j)
      BY DEF RenderStages, OwnAt
    <2>2. j.board \in Boards /\ file'[j.board] = file[j.board]
      BY <1>2, <1>3, <1>5, <2>1 DEF PostedAt
    <2>3. doomed \subseteq doomed'
      BY DEF Local
    <2>4. QED
      BY <2>1, <2>2, <2>3 DEF RenderedAt, RenderStages
  <1>7. JournalledAt(stage, j)'
    <2> SUFFICES ASSUME stage \in ArchiveStages PROVE JournalledAt(stage, j)'
      BY DEF JournalledAt
    <2>1. stage \notin {"idle", "recover"} /\ JournalledAt(stage, j)
      BY DEF ArchiveStages, OwnAt
    <2>2. file'[j.board] = file[j.board] /\ wal'[j.board] = wal[j.board]
      BY <1>2, <1>3, <1>5, <2>1 DEF PostedAt
    <2>3. QED
      BY <2>1, <2>2 DEF JournalledAt
  <1>8. MovingAt(stage, j)'
    <2> SUFFICES ASSUME stage \in {"moveJournal", "rollback"} \cup MoveStages
                 PROVE  MovingAt(stage, j)'
      BY DEF MovingAt, MoveStages
    <2>1. MovingAt(stage, j)
      BY DEF OwnAt
    <2>2. /\ j.move.source \in Boards /\ j.move.destination \in Boards
          /\ PairOf(j.move) \in Pairs /\ PairOf(j.move) \subseteq held[q]
      BY <1>2, AtMoveCall DEF PostedAt
    <2>3. /\ file'[j.move.source] = file[j.move.source]
          /\ file'[j.move.destination] = file[j.move.destination]
          /\ moveWal'[PairOf(j.move)] = moveWal[PairOf(j.move)]
      BY <1>3, <1>4, <2>2 DEF PairOf
    <2>4. Movable(j.move) => Movable(j.move)'
      BY <2>3 DEF Movable
    <2>5. QED
      BY <2>1, <2>3, <2>4 DEF MovingAt
  <1>9. DoneAt(stage, j, q)'
    <2> SUFFICES ASSUME stage \in {"purge", "ok"} PROVE DoneAt(stage, j, q)'
      BY DEF DoneAt
    <2>1. DoneAt(stage, j, q)
      BY DEF OwnAt
    <2>2. j.board \in Boards /\ j.move \in MoveJournal \cup {None}
      BY <1>5
    <2>3. CASE j.move = None
      BY <1>1, <1>3, <2>1, <2>2, <2>3 DEF DoneAt
    <2>4. CASE j.move # None
      <3>1. j.move.source \in Boards /\ j.move.destination \in Boards
        BY <2>2, <2>4 DEF MoveJournal
      <3>2. PairOf(j.move) \subseteq held[q]
        BY <2>1, <2>4 DEF DoneAt
      <3>3. j.move.source \in held[q] /\ j.move.destination \in held[q]
        BY <3>2 DEF PairOf
      <3>4. QED
        BY <1>1, <1>3, <2>1, <2>4, <3>1, <3>2, <3>3 DEF DoneAt, PairOf
    <2>5. QED
      BY <2>3, <2>4
  <1>10. QED
    BY <1>6, <1>7, <1>8, <1>9 DEF OwnAt

LEMMA OthersTold ==
  ASSUME Typed, NEW p \in Procs, Local(p), Lawful(p), NEW q \in Procs,
         NEW stage, NEW j, stage = pc[q], j = job[q], ToldAt(stage, j)
  PROVE  ToldAt(stage, j)'
  <1> SUFFICES ASSUME stage \in {"removeMove", "purge", "ok"} \cup ArchiveStages,
                      j.mode = "live", j.card \in Cards \ doomed'
               PROVE  Holds(j.card, j.rev)'
    BY DEF ToldAt
  <1>1. stage \notin {"idle", "recover"}
    BY DEF ArchiveStages
  <1>2. j.rev \in Nat
    BY <1>1, AtCall DEF Job
  <1>3. j.card \in Cards \ doomed
    BY DEF Local
  <1>4. Holds(j.card, j.rev)
    BY <1>3 DEF ToldAt
  <1>5. QED
    BY <1>2, <1>3, <1>4 DEF Lawful

\* What one step has to show of the process that takes it.
Starts(p, stage, j) ==
  Creates(stage, j) =>
    /\ Effective' = Effective
    /\ \/ Creating(p) /\ j.card = job[p].card
       \/ j.card \in issued' \ issued

LEMMA StillFresh ==
  ASSUME Typed, Fresh, Typed', NEW p \in Procs, NEW stage, NEW j,
         Goto(p, stage), job' = [job EXCEPT ![p] = j], Local(p), Lawful(p), Starts(p, stage, j)
  PROVE  FreshCards'
  <1>1. pc \in [Procs -> Stages] /\ job \in [Procs -> Job \cup {None}] /\ issued' \subseteq Cards
    BY DEF Typed, TypeOK
  <1>2. /\ pc'[p] = stage /\ job'[p] = j
        /\ \A q \in Procs \ {p} : pc'[q] = pc[q] /\ job'[q] = job[q]
    BY <1>1 DEF Goto
  <1>3. ASSUME NEW c \in Cards, Somewhere(c)' PROVE c \in issued'
    BY <1>3 DEF Lawful, Fresh, Local
  <1>4. ASSUME NEW q \in Procs, q # p, NEW e, e = job[q].card, Creating(q)
        PROVE  e \in issued' /\ ~Somewhere(e)'
    <2>1. e \in issued /\ ~Somewhere(e) /\ ~(Creating(p) /\ e = job[p].card)
      BY <1>4 DEF Fresh
    <2>2. e \in issued' /\ e \in Cards
      BY <1>1, <2>1 DEF Local
    <2>3. QED
      BY <2>1, <2>2 DEF Lawful
  <1>5. ASSUME Creates(stage, j)
        PROVE  /\ j.card \in issued' /\ ~Somewhere(j.card)'
               /\ \A q \in Procs \ {p} : Creating(q) => job[q].card # j.card
    <2>1. \A c : Somewhere(c)' <=> Somewhere(c)
      BY <1>5 DEF Starts, Somewhere, Has
    <2>2. CASE Creating(p) /\ j.card = job[p].card
      BY <2>1, <2>2 DEF Fresh, Local
    <2>3. CASE j.card \in issued' \ issued
      <3>1. j.card \in Cards
        BY <1>1, <2>3
      <3>2. ~Somewhere(j.card)
        BY <2>3, <3>1 DEF Fresh
      <3>3. QED
        BY <2>1, <2>3, <3>2 DEF Fresh
    <2>4. QED
      BY <1>5, <2>2, <2>3 DEF Starts
  <1>6. ASSUME NEW q \in Procs, NEW s, NEW k, s = pc'[q], k = job'[q], Creates(s, k)
        PROVE  k.card \in issued' /\ ~Somewhere(k.card)'
    <2>1. CASE q = p
      BY <1>2, <1>5, <1>6, <2>1
    <2>2. CASE q # p
      <3>1. s = pc[q] /\ k = job[q]
        BY <1>2, <1>6, <2>2
      <3>2. Creating(q)
        BY <1>6, <3>1 DEF Creating
      <3>3. PICK e : e = job[q].card
        OBVIOUS
      <3>4. e \in issued' /\ ~Somewhere(e)'
        BY <1>4, <2>2, <3>2, <3>3
      <3>5. QED
        BY <3>1, <3>3, <3>4
    <2>3. QED
      BY <2>1, <2>2
  <1>7. ASSUME NEW q \in Procs PROVE Creating(q)' <=> Creates(pc'[q], job'[q])
    BY DEF Creating, Creates
  <1>8. ASSUME NEW q \in Procs, NEW r \in Procs, q # r, Creating(q)', Creating(r)'
        PROVE  job'[q].card # job'[r].card
    <2>1. CASE q = p
      BY <1>2, <1>5, <1>7, <1>8, <2>1 DEF Creating
    <2>2. CASE r = p
      BY <1>2, <1>5, <1>7, <1>8, <2>2 DEF Creating
    <2>3. CASE q # p /\ r # p
      BY <1>2, <1>7, <1>8, <2>3 DEF Creating, Fresh
    <2>4. QED
      BY <2>1, <2>2, <2>3
  <1>9. QED
    BY <1>3, <1>6, <1>8 DEF FreshCards

LEMMA Assemble ==
  ASSUME Typed, Disciplined, Kept, Typed', NEW p \in Procs, NEW stage, NEW j,
         Goto(p, stage), job' = [job EXCEPT ![p] = j], Local(p), Lawful(p),
         OwnAt(stage, j, p)', ToldAt(stage, j)', Starts(p, stage, j),
         acked' = acked \/ AckedHeld'
  PROVE  Kept'
  <1>1. pc \in [Procs -> Stages] /\ job \in [Procs -> Job \cup {None}]
    BY DEF Typed, TypeOK
  <1>2. /\ pc'[p] = stage /\ job'[p] = j
        /\ \A q \in Procs \ {p} : pc'[q] = pc[q] /\ job'[q] = job[q]
    BY <1>1 DEF Goto
  <1>3. OwnedBy /\ ToldBy /\ AckedHeld /\ Fresh
    BY KeptIs DEF Kept
  <1>4. ASSUME NEW q \in Procs, NEW s, NEW k, s = pc'[q], k = job'[q]
        PROVE  OwnAt(s, k, q)' /\ ToldAt(s, k)'
    <2>1. CASE q = p
      BY <1>2, <1>4, <2>1
    <2>2. CASE q # p
      <3>1. s = pc[q] /\ k = job[q]
        BY <1>2, <1>4, <2>2
      <3>2. OwnAt(s, k, q) /\ ToldAt(s, k)
        BY <1>3, <3>1 DEF OwnedBy, ToldBy
      <3>3. QED
        BY <2>2, <3>1, <3>2, OthersOwn, OthersTold
    <2>3. QED
      BY <2>1, <2>2
  <1>5. OwnedBy' /\ ToldBy'
    BY <1>4 DEF OwnedBy, ToldBy
  <1>6. FreshCards'
    BY <1>3, StillFresh
  <1>7. AckedHeld'
    <2> SUFFICES ASSUME acked' = acked, NEW c \in Cards \ doomed', NEW n \in Nat, n = acked[c], n > 0
                 PROVE  Holds(c, n)'
      BY DEF AckedHeld
    <2>1. c \in Cards \ doomed
      BY DEF Local
    <2>2. Holds(c, n)
      BY <1>3, <2>1 DEF AckedHeld
    <2>3. QED
      BY <2>1, <2>2 DEF Lawful
  <1>8. (Kept <=> OwnedBy /\ ToldBy /\ FreshCards /\ AckedHeld)'
    BY KeptIs, PTL
  <1>9. QED
    BY <1>5, <1>6, <1>7, <1>8

-----------------------------------------------------------------------------
(***************************************************************************)
(* One lemma per kind of step: it is lawful and keeps the invariant.       *)
(***************************************************************************)

LEMMA AtOwn ==
  ASSUME Inv, NEW p \in Procs, NEW stage, NEW j, stage = pc[p], j = job[p]
  PROVE  /\ RenderedAt(stage, j) /\ JournalledAt(stage, j) /\ MovingAt(stage, j)
         /\ DoneAt(stage, j, p) /\ ToldAt(stage, j)
  BY DEF Inv, Kept, Owned, Told, OwnAt

LEMMA SameEffective ==
  ASSUME \A b \in Boards : Effective'[b] = Effective[b]
  PROVE  Effective' = Effective
  BY DEF Effective

\* A step of p on no data file and no journal that neither begins nor ends the
\* applying of a move.
LEMMA NothingChanges ==
  ASSUME Typed, NEW p \in Procs, NEW stage, NEW j,
         Goto(p, stage), job' = [job EXCEPT ![p] = j], UNCHANGED <<file, wal, moveWal>>,
         \A pr \in Pairs : AppliesAt(stage, j, pr) <=> AppliesAt(pc[p], job[p], pr)
  PROVE  Effective' = Effective
  <1>1. \A pr \in Pairs : Applying(pr)' <=> Applying(pr)
    BY ApplyingKept
  <1>2. \A b \in Boards : Effective'[b] = Effective[b]
    BY <1>1, SameBoard
  <1>3. QED
    BY <1>2, SameEffective

LEMMA IdleOwn ==
  ASSUME NEW p, NEW j, NEW stage \in {"idle", "recover", "undo", "error"}
  PROVE  OwnAt(stage, j, p)' /\ ToldAt(stage, j)' /\ Starts(p, stage, j)
  BY DEF OwnAt, RenderedAt, RenderStages, JournalledAt, MovingAt, DoneAt, ToldAt, Starts,
         Creates, ArchiveStages, MoveStages

\* A call keeps the job.
LEMMA SameJob ==
  ASSUME Typed, NEW p \in Procs, job' = job, NEW j, j = job[p]
  PROVE  job' = [job EXCEPT ![p] = j]
  BY DEF Typed, TypeOK

-----------------------------------------------------------------------------
(* Locks, crashes, recovery.                                               *)

LEMMA EnterKept ==
  ASSUME Inv, Typed', NEW p \in Procs, NEW names, Enter(p, names)
  PROVE  Lawful(p) /\ Kept'
  <1>1. PICK j : j = job[p]
    OBVIOUS
  <1>2. /\ pc[p] = "idle" /\ Goto(p, "recover") /\ UNCHANGED <<file, wal, moveWal, job>>
        /\ UNCHANGED <<issued, doomed, acked>>
        /\ \E C : held' = [held EXCEPT ![p] = C]
    BY DEF Enter, disk, ghosts
  <1>3. job' = [job EXCEPT ![p] = j] /\ Typed /\ Disciplined /\ Kept
    BY <1>1, <1>2, SameJob DEF Inv
  <1>4. \A pr \in Pairs : ~AppliesAt("recover", j, pr) /\ ~AppliesAt(pc[p], job[p], pr)
    BY <1>2 DEF AppliesAt, ApplyingStages
  <1>5. Effective' = Effective
    BY <1>2, <1>3, <1>4, NothingChanges
  <1>6. Local(p)
    BY <1>2, <1>3 DEF Local, Typed, TypeOK
  <1>7. QED
    BY <1>2, <1>3, <1>5, <1>6, StutterLawful, IdleOwn, Assemble

\* p gives its locks back, or dies, at a point where this decides nothing.
LEMMA ForgetKept ==
  ASSUME Inv, Typed', NEW p \in Procs, Forget(p), UNCHANGED <<file, wal, moveWal, issued, doomed>>,
         \A pr \in Pairs : ~AppliesAt(pc[p], job[p], pr),
         Effective' = Effective => acked' = acked \/ AckedHeld'
  PROVE  Lawful(p) /\ Kept'
  <1>1. /\ Goto(p, "idle") /\ job' = [job EXCEPT ![p] = None]
        /\ held' = [held EXCEPT ![p] = {}]
    BY DEF Forget
  <1>2. Typed /\ Disciplined /\ Kept
    BY DEF Inv
  <1>3. \A pr \in Pairs : ~AppliesAt("idle", None, pr)
    BY DEF AppliesAt
  <1>4. Effective' = Effective
    BY <1>1, <1>2, <1>3, NothingChanges
  <1>5. Local(p)
    BY <1>1, <1>2 DEF Local, Typed, TypeOK
  <1>6. QED
    BY <1>1, <1>2, <1>4, <1>5, StutterLawful, IdleOwn, Assemble

LEMMA ReturnKept ==
  ASSUME Inv, Typed', NEW p \in Procs, Return(p)
  PROVE  Lawful(p) /\ Kept'
  <1>1. PICK j : j = job[p]
    OBVIOUS
  <1>2. /\ pc[p] \in {"ok", "error"} /\ Forget(p)
        /\ UNCHANGED <<file, wal, moveWal, issued, doomed>>
    BY DEF Return, disk
  <1>3. \A pr \in Pairs : ~AppliesAt(pc[p], job[p], pr)
    BY <1>2 DEF AppliesAt, ApplyingStages
  <1>4. ASSUME Effective' = Effective PROVE acked' = acked \/ AckedHeld'
    <2> SUFFICES ASSUME acked' # acked, NEW c \in Cards \ doomed', NEW n \in Nat,
                        n = acked'[c], n > 0
                 PROVE  Holds(c, n)'
      BY DEF AckedHeld
    <2>1. /\ pc[p] = "ok" /\ j.card # None
          /\ acked' = [acked EXCEPT ![j.card] = Larger(@, j.rev)]
      BY <1>1 DEF Return
    <2>2. /\ acked \in [Cards -> Nat] /\ c \in Cards \ doomed
          /\ j \in Job
      BY <1>1, <1>2, <2>1, AtCall DEF Inv, Typed, TypeOK
    <2>3. j.card \in Cards /\ j.rev \in Nat
      BY <2>1, <2>2 DEF Job
    <2>4. n = acked[c] \/ (c = j.card /\ n = j.rev)
      BY <2>1, <2>2, <2>3 DEF Larger
    <2>5. n = acked[c] => Holds(c, n)
      BY <2>2, KeptIs DEF AckedHeld, Inv
    <2>6. ToldAt("ok", j) /\ DoneAt("ok", j, p)
      BY <1>1, <2>1, AtOwn
    <2>7. c = j.card /\ n = j.rev => Holds(c, n)
      BY <2>2, <2>6 DEF ToldAt, DoneAt
    <2>8. Holds(c, n)
      BY <2>4, <2>5, <2>7
    <2>9. QED
      BY <1>4, <2>8 DEF Holds
  <1>5. QED
    BY <1>2, <1>3, <1>4, ForgetKept

LEMMA LeaveKept ==
  ASSUME Inv, Typed', NEW p \in Procs, Leave(p)
  PROVE  Lawful(p) /\ Kept'
  <1>1. /\ pc[p] = "recover" /\ Forget(p) /\ acked' = acked
        /\ UNCHANGED <<file, wal, moveWal, issued, doomed>>
    BY DEF Leave, Recovered, disk, ghosts
  <1>2. \A pr \in Pairs : ~AppliesAt(pc[p], job[p], pr)
    BY <1>1 DEF AppliesAt, ApplyingStages
  <1>3. QED
    BY <1>1, <1>2, ForgetKept

LEMMA RecoverArchiveKept ==
  ASSUME Inv, Typed', NEW p \in Procs, NEW b \in Boards, RecoverArchive(p, b)
  PROVE  Lawful(p) /\ Kept'
  <1>1. PICK w : w = wal[b]
    OBVIOUS
  <1>2. PICK j : j = Recovery(b, w, None)
    OBVIOUS
  <1>3. /\ pc[p] = "recover" /\ UNCHANGED <<file, wal, moveWal, held, issued, doomed, acked>>
        /\ Goto(p, "applyDone") /\ job' = [job EXCEPT ![p] = j]
    BY <1>1, <1>2 DEF RecoverArchive, disk, locks, ghosts
  <1>4. Typed /\ Disciplined /\ Kept
    BY DEF Inv
  <1>5. j.board = b /\ j.after = w /\ j.move = None /\ j.mode = "recovery"
    BY <1>2 DEF Recovery
  <1>6. \A pr \in Pairs : ~AppliesAt("applyDone", j, pr) /\ ~AppliesAt(pc[p], job[p], pr)
    BY <1>3 DEF AppliesAt, ApplyingStages
  <1>7. Effective' = Effective
    BY <1>3, <1>4, <1>6, NothingChanges
  <1>8. Local(p)
    BY <1>3 DEF Local
  <1>9. OwnAt("applyDone", j, p)' /\ ToldAt("applyDone", j)' /\ Starts(p, "applyDone", j)
    BY <1>1, <1>3, <1>5 DEF OwnAt, RenderedAt, RenderStages, JournalledAt, MovingAt, DoneAt, ToldAt,
       Starts, Creates, ArchiveStages, MoveStages
  <1>10. QED
    BY <1>3, <1>4, <1>7, <1>8, <1>9, StutterLawful, Assemble

LEMMA RecoverMoveKept ==
  ASSUME Inv, Typed', NEW p \in Procs, NEW pr \in Pairs, RecoverMove(p, pr)
  PROVE  Lawful(p) /\ Kept'
  <1>1. PICK m : m = moveWal[pr]
    OBVIOUS
  <1>2. PICK j, stage : j = Recovery(m.source, EmptyContent, m) /\ stage = FirstMoveStage(m)
    OBVIOUS
  <1>3. /\ pc[p] = "recover" /\ UNCHANGED <<file, wal, moveWal, held, issued, doomed, acked>>
        /\ Goto(p, stage) /\ job' = [job EXCEPT ![p] = j] /\ pr \in Pending
    BY <1>1, <1>2 DEF RecoverMove, disk, locks, ghosts
  <1>4. Typed /\ Disciplined /\ Kept
    BY DEF Inv
  <1>5. j.move = m /\ j.mode = "recovery" /\ stage \in {"place", "writeDestination"}
    BY <1>2, FirstMoveStageIs DEF Recovery
  <1>6. \A qr \in Pairs : ~AppliesAt(stage, j, qr) /\ ~AppliesAt(pc[p], job[p], qr)
    BY <1>3, <1>5 DEF AppliesAt, ApplyingStages
  <1>7. Effective' = Effective
    BY <1>3, <1>4, <1>6, NothingChanges
  <1>8. Local(p)
    BY <1>3 DEF Local
  <1>9. moveWal[PairOf(m)] = m
    BY <1>1, <1>3, <1>4 DEF Disciplined, LockDiscipline, Named
  <1>10. OwnAt(stage, j, p)' /\ ToldAt(stage, j)' /\ Starts(p, stage, j)
    BY <1>3, <1>5, <1>9 DEF OwnAt, RenderedAt, RenderStages, JournalledAt, MovingAt, DoneAt, ToldAt,
       Starts, Creates, ArchiveStages, MoveStages
  <1>11. QED
    BY <1>3, <1>4, <1>7, <1>8, <1>10, StutterLawful, Assemble

-----------------------------------------------------------------------------
(* An operation begins: nothing is written, and what it renders it has     *)
(* read from files that no journal will change.                            *)

LEMMA BeginKept ==
  ASSUME Inv, Typed', NEW p \in Procs, NEW b, NEW c, NEW a, NEW undo, NEW after, NEW move,
         NEW rev, NEW stage \in QuietStages, NEW j,
         j = [mode |-> "live", board |-> b, card |-> c, att |-> a, undo |-> undo,
              after |-> after, move |-> move, rev |-> rev],
         pc[p] = "recover", Begin(p, b, c, a, undo, after, move, rev, stage),
         doomed \subseteq doomed', issued \subseteq issued',
         Creates(stage, j) => c \in issued' \ issued,
         RenderedAt(stage, j)', MovingAt(stage, j)'
  PROVE  Lawful(p) /\ Kept'
  <1>1. Typed /\ Disciplined /\ Kept
    BY DEF Inv
  <1>2. /\ UNCHANGED <<file, wal, moveWal, held, acked>>
        /\ Goto(p, stage) /\ job' = [job EXCEPT ![p] = j]
    BY DEF Begin, disk, locks
  <1>3. \A pr \in Pairs : ~AppliesAt(stage, j, pr) /\ ~AppliesAt(pc[p], job[p], pr)
    BY DEF AppliesAt, ApplyingStages, QuietStages
  <1>4. Effective' = Effective
    BY <1>1, <1>2, <1>3, NothingChanges
  <1>5. Local(p)
    BY <1>2 DEF Local
  <1>6. j.card = c
    OBVIOUS
  <1>7. OwnAt(stage, j, p)' /\ ToldAt(stage, j)' /\ Starts(p, stage, j)
    BY <1>4, <1>6 DEF OwnAt, JournalledAt, DoneAt, ToldAt, Starts, QuietStages, ArchiveStages
  <1>8. QED
    BY <1>1, <1>2, <1>4, <1>5, <1>7, StutterLawful, Assemble

\* An operation on the cards of one board.
LEMMA CardBegins ==
  ASSUME Inv, Typed', NEW p \in Procs, NEW b \in Boards, NEW c, NEW a, NEW undo, NEW after,
         NEW rev, NEW stage \in RenderStages, NEW j,
         j = [mode |-> "live", board |-> b, card |-> c, att |-> a, undo |-> undo,
              after |-> after, move |-> None, rev |-> rev],
         OnBoard(p, b), Begin(p, b, c, a, undo, after, None, rev, stage),
         doomed \subseteq doomed', issued \subseteq issued',
         rev = 1 => c \in issued' \ issued,
         Deletes(j) => c \in doomed',
         RenderedFrom(file[b], j),
         OneFile(file[b], j, stage) => after["archive"] = file[b]["archive"]
  PROVE  Lawful(p) /\ Kept'
  <1>1. pc[p] = "recover" /\ stage \in QuietStages
    BY DEF OnBoard, Recovered, RenderStages, QuietStages
  <1>2. file' = file
    BY DEF Begin, disk
  <1>3. /\ j.mode = "live" /\ j.move = None /\ j.board = b /\ j.card = c
        /\ j.rev = rev /\ j.after = after
    OBVIOUS
  <1>4. RenderedAt(stage, j)'
    BY <1>2, <1>3 DEF RenderedAt
  <1>5. MovingAt(stage, j)'
    BY DEF MovingAt, RenderStages, MoveStages
  <1>6. Creates(stage, j) => c \in issued' \ issued
    BY <1>3 DEF Creates
  <1>7. QED
    BY <1>1, <1>4, <1>5, <1>6, BeginKept

LEMMA PairSides ==
  ASSUME NEW active, NEW archive
  PROVE  Pair(active, archive)["active"] = active /\ Pair(active, archive)["archive"] = archive
  BY DEF Pair, Kinds

LEMMA CardReadWritten ==
  ASSUME Inv, Typed', NEW p \in Procs, NEW b \in Boards, NEW c \in Cards,
         \/ CreateCard(p, b, c) \/ EditCard(p, b, c) \/ CompleteCard(p, b, c)
         \/ RestoreCard(p, b, c)
  PROVE  Lawful(p) /\ Kept'
  <1>1. c # None /\ OnBoard(p, b)
    BY NoneAssumption DEF CreateCard, EditCard, CompleteCard, RestoreCard
  <1>2. \A card \in {Active(b).cards[c], Archive(b).cards[c]} :
          card.rev \in Nat /\ (card.rev > 0 => card.rev + 1 # 0 /\ card.rev + 1 # 1)
    BY ReadType DEF Inv
  <1>3. Active(b) = file[b]["active"] /\ Archive(b) = file[b]["archive"]
    BY DEF Active, Archive
  <1>4. CASE CreateCard(p, b, c)
    <2>1. PICK j : j = [mode |-> "live", board |-> b, card |-> c, att |-> None,
                        undo |-> "nothing", after |-> Created(file[b], c), move |-> None,
                        rev |-> 1]
      OBVIOUS
    <2>2. /\ j.card = c /\ j.undo = "nothing" /\ j.rev = 1 /\ j.after = Created(file[b], c)
      BY <2>1
    <2>3. RenderedFrom(file[b], j) /\ ~Deletes(j)
      BY <1>4, <2>2 DEF RenderedFrom, Deletes, CreateCard
    <2>4. Created(file[b], c)["archive"] = file[b]["archive"]
      BY PairSides DEF Created
    <2>5. /\ Begin(p, b, c, None, "nothing", Created(file[b], c), None, 1, "write")
          /\ c \in issued' \ issued /\ doomed \subseteq doomed' /\ issued \subseteq issued'
      BY <1>4 DEF CreateCard
    <2>6. QED
      BY <1>1, <2>1, <2>3, <2>4, <2>5, CardBegins DEF RenderStages
  <1>5. CASE EditCard(p, b, c)
    <2>1. PICK rev : rev = Active(b).cards[c].rev + 1
      OBVIOUS
    <2>2. PICK j : j = [mode |-> "live", board |-> b, card |-> c, att |-> None,
                        undo |-> "nothing", after |-> Edited(file[b], c), move |-> None,
                        rev |-> rev]
      OBVIOUS
    <2>3. /\ j.card = c /\ j.undo = "nothing" /\ j.rev = rev /\ j.after = Edited(file[b], c)
      BY <2>2
    <2>4. Has(Active(b), c) /\ rev # 0 /\ rev # 1
      BY <1>2, <1>5, <2>1 DEF EditCard, Has
    <2>5. RenderedFrom(file[b], j) /\ ~Deletes(j)
      BY <1>3, <2>1, <2>3, <2>4 DEF RenderedFrom, Deletes
    <2>6. Edited(file[b], c)["archive"] = file[b]["archive"]
      BY PairSides DEF Edited
    <2>7. /\ Begin(p, b, c, None, "nothing", Edited(file[b], c), None, rev, "write")
          /\ doomed \subseteq doomed' /\ issued \subseteq issued'
      BY <1>5, <2>1 DEF EditCard
    <2>8. QED
      BY <1>1, <2>2, <2>4, <2>5, <2>6, <2>7, CardBegins DEF RenderStages
  <1>6. CASE CompleteCard(p, b, c)
    <2>1. PICK rev : rev = Active(b).cards[c].rev + 1
      OBVIOUS
    <2>2. PICK j : j = [mode |-> "live", board |-> b, card |-> c, att |-> None,
                        undo |-> "nothing", after |-> Completed(file[b], c), move |-> None,
                        rev |-> rev]
      OBVIOUS
    <2>3. /\ j.card = c /\ j.undo = "nothing" /\ j.rev = rev /\ j.after = Completed(file[b], c)
      BY <2>2
    <2>4. Has(Active(b), c) /\ rev # 0 /\ rev # 1
      BY <1>2, <1>6, <2>1 DEF CompleteCard, Has
    <2>5. RenderedFrom(file[b], j) /\ ~Deletes(j) /\ ~OneFile(file[b], j, "journal")
      BY <1>3, <2>1, <2>3, <2>4 DEF RenderedFrom, Deletes, OneFile
    <2>6. /\ Begin(p, b, c, None, "nothing", Completed(file[b], c), None, rev, "journal")
          /\ doomed \subseteq doomed' /\ issued \subseteq issued'
      BY <1>6, <2>1 DEF CompleteCard
    <2>7. QED
      BY <1>1, <2>2, <2>4, <2>5, <2>6, CardBegins DEF RenderStages
  <1>7. CASE RestoreCard(p, b, c)
    <2>1. PICK rev : rev = Archive(b).cards[c].rev + 1
      OBVIOUS
    <2>2. PICK j : j = [mode |-> "live", board |-> b, card |-> c, att |-> None,
                        undo |-> "nothing", after |-> Restored(file[b], c), move |-> None,
                        rev |-> rev]
      OBVIOUS
    <2>3. /\ j.card = c /\ j.undo = "nothing" /\ j.rev = rev /\ j.after = Restored(file[b], c)
      BY <2>2
    <2>4. CanRestore(file[b], c) /\ rev # 0 /\ rev # 1
      BY <1>2, <1>3, <1>7, <2>1 DEF RestoreCard, CanRestore, Has
    <2>5. RenderedFrom(file[b], j) /\ ~Deletes(j) /\ ~OneFile(file[b], j, "journal")
      BY <1>3, <2>1, <2>3, <2>4 DEF RenderedFrom, Deletes, OneFile
    <2>6. /\ Begin(p, b, c, None, "nothing", Restored(file[b], c), None, rev, "journal")
          /\ doomed \subseteq doomed' /\ issued \subseteq issued'
      BY <1>7, <2>1 DEF RestoreCard
    <2>7. QED
      BY <1>1, <2>2, <2>4, <2>5, <2>6, CardBegins DEF RenderStages
  <1>8. QED
    BY <1>4, <1>5, <1>6, <1>7

LEMMA SettingsKept ==
  ASSUME Inv, Typed', NEW p \in Procs, NEW b \in Boards, NEW focus \in Cards \cup {None},
         NEW archived \in BOOLEAN, PatchBoardSettings(p, b, focus, archived)
  PROVE  Lawful(p) /\ Kept'
  <1>1. PICK new : new = Settled(file[b], focus, archived)
    OBVIOUS
  <1>2. PICK j : j = [mode |-> "live", board |-> b, card |-> None, att |-> None,
                      undo |-> "nothing", after |-> new, move |-> None, rev |-> 0]
    OBVIOUS
  <1>3. /\ j.card = None /\ j.undo = "nothing" /\ j.rev = 0 /\ j.after = new
    BY <1>2
  <1>4. /\ OnBoard(p, b) /\ CanSettle(file[b], focus, archived)
        /\ Begin(p, b, None, None, "nothing", new, None, 0, "journal")
        /\ doomed \subseteq doomed' /\ issued \subseteq issued'
    BY <1>1 DEF PatchBoardSettings
  <1>5. RenderedFrom(file[b], j) /\ ~Deletes(j) /\ ~OneFile(file[b], j, "journal")
    BY <1>1, <1>3, <1>4 DEF RenderedFrom, Deletes, OneFile
  <1>6. QED
    BY <1>2, <1>4, <1>5, CardBegins DEF RenderStages

LEMMA AttachmentsKept ==
  ASSUME Inv, Typed', NEW p \in Procs, NEW b \in Boards, NEW c \in Cards, NEW a \in Attachments,
         AddAttachment(p, b, c, a) \/ DeleteAttachment(p, b, c, a)
  PROVE  Lawful(p) /\ Kept'
  <1>1. c # None /\ OnBoard(p, b) /\ Has(Active(b), c) /\ Active(b) = file[b]["active"]
    BY NoneAssumption DEF AddAttachment, DeleteAttachment, CanAttach, Active
  <1>2. PICK rev : rev = Active(b).cards[c].rev + 1
    OBVIOUS
  <1>3. rev # 0 /\ rev # 1
    BY <1>1, <1>2, ReadType DEF Has, Inv
  <1>4. CASE AddAttachment(p, b, c, a)
    <2>1. PICK new : new = Attached(file[b], c, a)
      OBVIOUS
    <2>2. PICK j : j = [mode |-> "live", board |-> b, card |-> c, att |-> a,
                        undo |-> "upload", after |-> new, move |-> None, rev |-> rev]
      OBVIOUS
    <2>3. /\ j.card = c /\ j.undo = "upload" /\ j.rev = rev /\ j.after = new /\ j.att = a
      BY <2>2
    <2>4. /\ CanAttach(file[b], c) /\ doomed \subseteq doomed' /\ issued \subseteq issued'
          /\ Begin(p, b, c, a, "upload", new, None, rev, "upload")
      BY <1>2, <1>4, <2>1 DEF AddAttachment
    <2>5. RenderedFrom(file[b], j) /\ ~Deletes(j)
      BY <1>1, <1>2, <1>3, <2>1, <2>3, <2>4 DEF RenderedFrom, Deletes
    <2>6. new["archive"] = file[b]["archive"]
      BY <2>1, PairSides DEF Attached
    <2>7. QED
      BY <1>1, <1>3, <2>2, <2>4, <2>5, <2>6, CardBegins DEF RenderStages
  <1>5. CASE DeleteAttachment(p, b, c, a)
    <2>1. PICK new : new = Detached(file[b], c, a)
      OBVIOUS
    <2>2. PICK j : j = [mode |-> "live", board |-> b, card |-> c, att |-> a,
                        undo |-> "file", after |-> new, move |-> None, rev |-> rev]
      OBVIOUS
    <2>3. /\ j.card = c /\ j.undo = "file" /\ j.rev = rev /\ j.after = new /\ j.att = a
      BY <2>2
    <2>4. /\ a \in file[b]["active"].cards[c].atts
          /\ doomed \subseteq doomed' /\ issued \subseteq issued'
          /\ Begin(p, b, c, a, "file", new, None, rev, "quarantine")
      BY <1>1, <1>2, <1>5, <2>1 DEF DeleteAttachment
    <2>5. RenderedFrom(file[b], j) /\ ~Deletes(j)
      BY <1>1, <1>2, <1>3, <2>1, <2>3, <2>4 DEF RenderedFrom, Deletes
    <2>6. new["archive"] = file[b]["archive"]
      BY <2>1, PairSides DEF Detached
    <2>7. QED
      BY <1>1, <1>3, <2>2, <2>4, <2>5, <2>6, CardBegins DEF RenderStages
  <1>6. QED
    BY <1>4, <1>5

LEMMA DeletionsKept ==
  ASSUME Inv, Typed', NEW p \in Procs, NEW b \in Boards, NEW c \in Cards,
         DeleteCard(p, b, c) \/ DeleteArchivedCard(p, b, c)
  PROVE  Lawful(p) /\ Kept'
  <1>1. /\ c # None /\ OnBoard(p, b) /\ Active(b) = file[b]["active"]
        /\ Archive(b) = file[b]["archive"] /\ c \in doomed'
        /\ doomed \subseteq doomed' /\ issued \subseteq issued'
    BY NoneAssumption DEF DeleteCard, DeleteArchivedCard, Active, Archive
  <1>2. CASE DeleteCard(p, b, c)
    <2>1. PICK q : q = Quarantined(b, c, Active(b).cards[c], "write")
      OBVIOUS
    <2>2. PICK new, undo, stage :
            new = Deleted(file[b], c) /\ undo = q.undo /\ stage = q.stage
      OBVIOUS
    <2>3. PICK j : j = [mode |-> "live", board |-> b, card |-> c, att |-> None,
                        undo |-> undo, after |-> new, move |-> None, rev |-> 0]
      OBVIOUS
    <2>4. /\ j.card = c /\ j.undo = undo /\ j.rev = 0 /\ j.after = new
      BY <2>3
    <2>5. undo \in {"nothing", "directory"} /\ stage \in {"write", "quarantine"}
      BY <2>1, <2>2 DEF Quarantined
    <2>6. /\ Has(file[b]["active"], c)
          /\ Begin(p, b, c, None, undo, new, None, 0, stage)
      BY <1>1, <1>2, <2>1, <2>2 DEF DeleteCard
    <2>7. RenderedFrom(file[b], j)
      BY <1>1, <2>2, <2>4, <2>5, <2>6 DEF RenderedFrom
    <2>8. new["archive"] = file[b]["archive"]
      BY <2>2, PairSides DEF Deleted
    <2>9. QED
      BY <1>1, <2>3, <2>5, <2>6, <2>7, <2>8, CardBegins DEF RenderStages
  <1>3. CASE DeleteArchivedCard(p, b, c)
    <2>1. PICK q : q = Quarantined(b, c, Archive(b).cards[c], "journal")
      OBVIOUS
    <2>2. PICK new, undo, stage :
            new = DeletedArchived(file[b], c) /\ undo = q.undo /\ stage = q.stage
      OBVIOUS
    <2>3. PICK j : j = [mode |-> "live", board |-> b, card |-> c, att |-> None,
                        undo |-> undo, after |-> new, move |-> None, rev |-> 0]
      OBVIOUS
    <2>4. /\ j.card = c /\ j.undo = undo /\ j.rev = 0 /\ j.after = new
      BY <2>3
    <2>5. \/ undo = "nothing" /\ stage = "journal"
          \/ undo = "directory" /\ stage = "quarantine"
      BY <2>1, <2>2 DEF Quarantined
    <2>6. /\ ~Has(file[b]["active"], c) /\ Has(file[b]["archive"], c)
          /\ Begin(p, b, c, None, undo, new, None, 0, stage)
      BY <1>1, <1>3, <2>1, <2>2 DEF DeleteArchivedCard
    <2>7. RenderedFrom(file[b], j) /\ ~OneFile(file[b], j, stage)
      BY <1>1, <2>2, <2>4, <2>5, <2>6 DEF RenderedFrom, OneFile
    <2>8. QED
      BY <1>1, <2>3, <2>5, <2>6, <2>7, CardBegins DEF RenderStages
  <1>4. QED
    BY <1>2, <1>3

LEMMA MoveBegins ==
  ASSUME Inv, Typed', NEW p \in Procs, NEW s \in Boards, NEW d \in Boards, NEW c \in Cards,
         NEW kind \in Kinds, MoveCardToBoard(p, s, d, c, kind)
  PROVE  Lawful(p) /\ Kept'
  <1>1. PICK m, rev :
          /\ m = [state |-> "commit", kind |-> kind, source |-> s, destination |-> d,
                  card |-> c, atts |-> file[s][kind].cards[c].atts # {},
                  sourceBefore |-> file[s][kind],
                  sourceAfter |-> MovedOut(file[s], c, kind),
                  destinationBefore |-> file[d][kind],
                  destinationAfter |-> MovedIn(file[d], c, kind, file[s][kind].cards[c])]
          /\ rev = file[s][kind].cards[c].rev + 1
    OBVIOUS
  <1>2. PICK j : j = [mode |-> "live", board |-> s, card |-> c, att |-> None,
                      undo |-> "nothing", after |-> EmptyContent, move |-> m, rev |-> rev]
    OBVIOUS
  <1>3. /\ Recovered(p) /\ s # d /\ CanMove(file[s], file[d], c, kind)
        /\ Begin(p, s, c, None, "nothing", EmptyContent, m, rev, "moveJournal")
        /\ doomed \subseteq doomed' /\ issued \subseteq issued'
    BY <1>1 DEF MoveCardToBoard
  <1>4. /\ m.state = "commit" /\ m.kind = kind /\ m.source = s /\ m.destination = d /\ m.card = c
        /\ m.sourceBefore = file[s][kind] /\ m.sourceAfter = MovedOut(file[s], c, kind)
        /\ m.destinationBefore = file[d][kind]
        /\ m.destinationAfter = MovedIn(file[d], c, kind, file[s][kind].cards[c])
    BY <1>1
  <1>5. j.mode = "live" /\ j.card = c /\ j.rev = rev /\ j.move = m
    BY <1>2
  <1>6. file[s] \in [Kinds -> Image] /\ file[d] \in [Kinds -> Image]
    BY ReadType DEF Inv, Content
  <1>7. file' = file
    BY <1>3 DEF Begin, disk
  <1>8. /\ [file'[s] EXCEPT ![kind] = file[s][kind]] = file[s]
        /\ [file'[d] EXCEPT ![kind] = file[d][kind]] = file[d]
    BY <1>6, <1>7
  <1>9. Movable(m)'
    BY <1>3, <1>4, <1>8 DEF Movable
  <1>10. MovingAt("moveJournal", j)'
    BY <1>1, <1>4, <1>5, <1>7, <1>9 DEF MovingAt, MoveStages
  <1>11. RenderedAt("moveJournal", j)' /\ ~Creates("moveJournal", j)
    BY DEF RenderedAt, Creates, RenderStages
  <1>12. pc[p] = "recover" /\ "moveJournal" \in QuietStages
    BY <1>3 DEF Recovered, QuietStages
  <1>13. QED
    BY <1>2, <1>3, <1>10, <1>11, <1>12, BeginKept

LEMMA OperationKept ==
  ASSUME Inv, Typed', NEW p \in Procs, Operation(p)
  PROVE  Lawful(p) /\ Kept'
  BY CardReadWritten, SettingsKept, AttachmentsKept, DeletionsKept, MoveBegins DEF Operation

-----------------------------------------------------------------------------
(* A call that writes neither a board file nor a journal.                  *)

LEMMA AsideKept ==
  ASSUME Inv, Typed', NEW p \in Procs, NEW stage, NEW j, j = job[p], Goto(p, stage),
         UNCHANGED <<file, wal, moveWal, held, job, issued, doomed, acked>>,
         \A pr \in Pairs : AppliesAt(stage, j, pr) <=> AppliesAt(pc[p], j, pr),
         Creates(stage, j) => Creates(pc[p], j),
         Effective' = Effective => OwnAt(stage, j, p)' /\ ToldAt(stage, j)'
  PROVE  Lawful(p) /\ Kept'
  <1>1. Typed /\ Disciplined /\ Kept /\ job' = [job EXCEPT ![p] = j]
    BY SameJob DEF Inv
  <1>2. Effective' = Effective
    BY <1>1, NothingChanges
  <1>3. Local(p)
    BY DEF Local
  <1>4. Starts(p, stage, j)
    BY <1>2 DEF Starts, Creating
  <1>5. QED
    BY <1>1, <1>2, <1>3, <1>4, StutterLawful, Assemble

\* On to an error, or to putting attachments back.
LEMMA GivenUpKept ==
  ASSUME Inv, Typed', NEW p \in Procs, NEW stage \in {"undo", "error"}, Goto(p, stage),
         UNCHANGED <<file, wal, moveWal, held, job, issued, doomed, acked>>,
         \A pr \in Pairs : ~AppliesAt(pc[p], job[p], pr)
  PROVE  Lawful(p) /\ Kept'
  <1>1. PICK j : j = job[p]
    OBVIOUS
  <1>2. \A pr \in Pairs : AppliesAt(stage, j, pr) <=> AppliesAt(pc[p], j, pr)
    BY <1>1 DEF AppliesAt, ApplyingStages
  <1>3. ~Creates(stage, j)
    BY DEF Creates, RenderStages
  <1>4. OwnAt(stage, j, p)' /\ ToldAt(stage, j)'
    BY IdleOwn
  <1>5. QED
    BY <1>1, <1>2, <1>3, <1>4, AsideKept

\* On to the commit, with what was rendered.
LEMMA PreparedKept ==
  ASSUME Inv, Typed', NEW p \in Procs, NEW stage \in {"write", "journal"}, Goto(p, stage),
         pc[p] \in {"upload", "quarantine"},
         UNCHANGED <<file, wal, moveWal, held, job, issued, doomed, acked>>,
         stage = "write" => OneFile(file[job[p].board], job[p], pc[p])
  PROVE  Lawful(p) /\ Kept'
  <1>1. PICK j, from : j = job[p] /\ from = pc[p]
    OBVIOUS
  <1>2. \A pr \in Pairs : ~AppliesAt(stage, j, pr) /\ ~AppliesAt(from, j, pr)
    BY <1>1 DEF AppliesAt, ApplyingStages
  <1>3. Creates(stage, j) => Creates(from, j)
    BY <1>1 DEF Creates, RenderStages
  <1>4. RenderedAt(from, j)
    BY <1>1, AtOwn
  <1>5. OneFile(file[j.board], j, stage) => OneFile(file[j.board], j, from)
    BY <1>1 DEF OneFile
  <1>6. RenderedAt(stage, j)'
    BY <1>1, <1>4, <1>5 DEF RenderedAt, RenderStages
  <1>7. OwnAt(stage, j, p)' /\ ToldAt(stage, j)'
    BY <1>6 DEF OwnAt, JournalledAt, MovingAt, DoneAt, ToldAt, ArchiveStages, MoveStages
  <1>8. QED
    BY <1>1, <1>2, <1>3, <1>7, AsideKept

LEMMA AttachmentCallKept ==
  ASSUME Inv, Typed', NEW p \in Procs, NEW o \in Outcomes,
         \/ Upload(p) \/ UploadRefused(p)
         \/ QuarantineFile(p, o) \/ QuarantineDirectory(p, o) \/ Undo(p, o) \/ Purge(p, o)
  PROVE  Lawful(p) /\ Kept'
  <1>1. /\ UNCHANGED <<file, wal, moveWal, held, job, issued, doomed, acked>>
        /\ pc[p] \in {"upload", "quarantine", "undo", "purge"}
    BY DEF Upload, UploadRefused, QuarantineFile, QuarantineDirectory, Undo, Purge,
           IoOnly, locks, ghosts
  <1>2. \A pr \in Pairs : ~AppliesAt(pc[p], job[p], pr)
    BY <1>1 DEF AppliesAt, ApplyingStages
  <1>3. CASE Goto(p, "error")
    BY <1>1, <1>2, <1>3, GivenUpKept
  <1>4. CASE Upload(p)
    BY <1>1, <1>4, PreparedKept DEF Upload, OneFile
  <1>5. CASE UploadRefused(p) \/ Undo(p, o)
    BY <1>3, <1>5 DEF UploadRefused, Undo
  <1>6. CASE QuarantineFile(p, o)
    <2>1. CASE Goto(p, "write")
      <3>1. pc[p] = "quarantine" /\ job[p].undo = "file"
        BY <1>6 DEF QuarantineFile
      <3>2. OneFile(file[job[p].board], job[p], pc[p])
        BY <3>1 DEF OneFile
      <3>3. QED
        BY <1>1, <2>1, <3>1, <3>2, PreparedKept
    <2>2. QED
      BY <1>3, <1>6, <2>1 DEF QuarantineFile
  <1>7. CASE QuarantineDirectory(p, o)
    <2>1. pc[p] = "quarantine"
      BY <1>7 DEF QuarantineDirectory
    <2>2. CASE Goto(p, "write") /\ Has(Active(job[p].board), job[p].card)
      <3>1. OneFile(file[job[p].board], job[p], pc[p])
        BY <2>1, <2>2 DEF OneFile, Active
      <3>2. QED
        BY <1>1, <2>1, <2>2, <3>1, PreparedKept
    <2>3. CASE Goto(p, "journal")
      BY <1>1, <2>1, <2>3, PreparedKept
    <2>4. QED
      BY <1>3, <1>7, <2>2, <2>3 DEF QuarantineDirectory
  <1>8. CASE Purge(p, o)
    <2>1. pc[p] = "purge" /\ (Goto(p, "ok") \/ Goto(p, "error"))
      BY <1>8 DEF Purge
    <2>2. CASE Goto(p, "ok")
      <3>1. PICK j : j = job[p]
        OBVIOUS
      <3>2. DoneAt("purge", j, p) /\ ToldAt("purge", j)
        BY <2>1, <3>1, AtOwn
      <3>3. ASSUME Effective' = Effective PROVE OwnAt("ok", j, p)' /\ ToldAt("ok", j)'
        <4>1. DoneAt("ok", j, p)'
          BY <1>1, <3>2, <3>3 DEF DoneAt
        <4>2. ToldAt("ok", j)'
          BY <1>1, <3>2, <3>3 DEF ToldAt, Holds
        <4>3. QED
          BY <4>1, <4>2 DEF OwnAt, RenderedAt, RenderStages, JournalledAt, MovingAt,
                            ArchiveStages, MoveStages
      <3>4. \A pr \in Pairs : AppliesAt("ok", j, pr) <=> AppliesAt(pc[p], j, pr)
        BY <2>1 DEF AppliesAt, ApplyingStages
      <3>5. ~Creates("ok", j)
        BY DEF Creates, RenderStages
      <3>6. QED
        BY <1>1, <2>2, <3>1, <3>3, <3>4, <3>5, AsideKept
    <2>3. QED
      BY <1>3, <2>1, <2>2
  <1>9. QED
    BY <1>4, <1>5, <1>6, <1>7, <1>8

-----------------------------------------------------------------------------
(* The commits on one board.                                               *)

LEMMA OneBoard ==
  ASSUME NEW b \in Boards, NEW new, Effective'[b] = new,
         \A e \in Boards \ {b} : Effective'[e] = Effective[e]
  PROVE  Effective' = [Effective EXCEPT ![b] = new]
  <1>1. Effective' = [e \in Boards |-> Effective'[e]]
    BY DEF Effective
  <1>2. [Effective EXCEPT ![b] = new] = [e \in Boards |-> IF e = b THEN new ELSE Effective[e]]
    BY DEF Effective
  <1>3. QED
    BY <1>1, <1>2

\* A step of p away from any move.
LEMMA NoneApplied ==
  ASSUME Typed, NEW p \in Procs, NEW stage, NEW j,
         Goto(p, stage), job' = [job EXCEPT ![p] = j],
         stage \notin ApplyingStages, pc[p] \notin ApplyingStages
  PROVE  \A pr \in Pairs : Applying(pr)' <=> Applying(pr)
  <1>1. \A pr \in Pairs : AppliesAt(stage, j, pr) <=> AppliesAt(pc[p], job[p], pr)
    BY DEF AppliesAt
  <1>2. QED
    BY <1>1, ApplyingKept

\* The call that commits: board.md, or the journal of both files.
LEMMA CommitKept ==
  ASSUME Inv, Typed', NEW p \in Procs, NEW j, j = job[p], pc[p] \in {"write", "journal"},
         NEW stage \in {"undo", "error", "purge", "ok", "applyDone"}, Goto(p, stage),
         UNCHANGED <<moveWal, held, job, issued, doomed, acked>>,
         \A e \in Boards \ {j.board} : file'[e] = file[e] /\ wal'[e] = wal[e],
         Effective[j.board] = file[j.board], Effective'[j.board] = j.after,
         JournalledAt(stage, j)'
  PROVE  Lawful(p) /\ Kept'
  <1>1. Typed /\ Disciplined /\ Kept /\ Fresh /\ Abstract!Sound /\ job' = [job EXCEPT ![p] = j]
    BY SameJob DEF Inv, Kept
  <1>2. /\ j.board \in Boards /\ j.board \in held[p] /\ j.rev \in Nat
    BY <1>1, AtCall, AtPosted DEF PostedAt, Job
  <1>3. /\ pc[p] \in RenderStages /\ RenderedFrom(Effective[j.board], j)
        /\ j.mode = "live" /\ j.move = None /\ (Deletes(j) => j.card \in doomed)
    BY AtOwn DEF RenderedAt, RenderStages
  <1>4. stage \notin ApplyingStages /\ pc[p] \notin ApplyingStages
    BY DEF ApplyingStages
  <1>5. Effective' = [Effective EXCEPT ![j.board] = j.after]
    <2>1. PICK b \in Boards : b = j.board
      BY <1>2
    <2>2. \A pr \in Pairs : Applying(pr)' <=> Applying(pr)
      BY <1>1, <1>4, NoneApplied
    <2>3. \A e \in Boards \ {b} : Effective'[e] = Effective[e]
      BY <2>1, <2>2, SameBoard
    <2>4. QED
      BY <1>2, <2>1, <2>3, OneBoard
  <1>6. /\ Lawful(p)
        /\ \A c \in Cards, n \in Nat :
             c = j.card /\ n = j.rev /\ ~Deletes(j) => Holds(c, n)'
    BY <1>1, <1>2, <1>3, <1>5, CommitLawful
  <1>7. Local(p)
    BY <1>2 DEF Local
  <1>8. DoneAt(stage, j, p)'
    BY <1>2, <1>3 DEF DoneAt
  <1>9. ToldAt(stage, j)'
    <2> SUFFICES ASSUME j.card \in Cards \ doomed PROVE Holds(j.card, j.rev)'
      BY DEF ToldAt
    <2>1. PICK c \in Cards, n \in Nat : c = j.card /\ n = j.rev
      BY <1>2
    <2>2. Holds(c, n)'
      BY <1>3, <1>6, <2>1
    <2>3. QED
      BY <2>1, <2>2
  <1>10. OwnAt(stage, j, p)' /\ Starts(p, stage, j)
    BY <1>8 DEF OwnAt, RenderedAt, MovingAt, Starts, Creates, RenderStages, MoveStages
  <1>11. QED
    BY <1>1, <1>6, <1>7, <1>9, <1>10, Assemble

LEMMA WriteActiveKept ==
  ASSUME Inv, Typed', NEW p \in Procs, NEW o \in Outcomes, WriteActive(p, o)
  PROVE  Lawful(p) /\ Kept'
  <1>1. PICK j : j = job[p]
    OBVIOUS
  <1>2. PICK stage : stage = IF o = "ok" THEN Succeeded(j) ELSE Failed(j)
    OBVIOUS
  <1>3. /\ pc[p] = "write" /\ Goto(p, stage)
        /\ UNCHANGED <<wal, moveWal, held, job, issued, doomed, acked>>
        /\ file' = IF Installs(o)
                   THEN [file EXCEPT ![j.board]["active"] = j.after["active"]] ELSE file
    BY <1>1, <1>2 DEF WriteActive, WalOnly, locks, ghosts
  <1>4. /\ j.board \in Boards /\ j.board \in held[p] /\ Clear(p)
        /\ j.after \in [Kinds -> Image] /\ file \in [Boards -> [Kinds -> Image]]
    BY <1>1, <1>3, AtCall, AtPosted DEF PostedAt, QuietStages, Inv, Typed, TypeOK, Content
  <1>5. j.mode = "live" /\ j.after["archive"] = file[j.board]["archive"]
    BY <1>1, <1>3, AtOwn DEF RenderedAt, RenderStages, OneFile
  <1>6. stage \in {"undo", "error", "purge", "ok"} /\ (o # "ok" => stage \in {"undo", "error"})
    BY <1>2, <1>5 DEF Succeeded, Failed
  <1>7. CASE ~Installs(o)
    <2>1. file' = file /\ stage \in {"undo", "error"}
      BY <1>3, <1>6, <1>7 DEF Installs
    <2>2. \A pr \in Pairs : ~AppliesAt(pc[p], job[p], pr)
      BY <1>3 DEF AppliesAt, ApplyingStages
    <2>3. QED
      BY <1>3, <2>1, <2>2, GivenUpKept
  <1>8. CASE Installs(o)
    <2>1. wal[j.board] = None /\ \A pr \in Pending : j.board \notin pr
      BY <1>4 DEF Clear
    <2>2. Pending' = Pending
      BY <1>3 DEF Pending
    <2>3. ClearViewed'
      BY EffectiveClear, PTL
    <2>4. Effective[j.board] = file[j.board] /\ Effective'[j.board] = file'[j.board]
      BY <1>3, <1>4, <2>1, <2>2, <2>3, EffectiveClear DEF Inv, ClearViewed
    <2>5. /\ file'[j.board] = [file[j.board] EXCEPT !["active"] = j.after["active"]]
          /\ \A e \in Boards \ {j.board} : file'[e] = file[e]
      BY <1>3, <1>4, <1>8
    <2>6. file'[j.board] = j.after
      BY <1>4, <1>5, <2>5 DEF Kinds
    <2>7. JournalledAt(stage, j)'
      BY <1>6 DEF JournalledAt, ArchiveStages
    <2>8. QED
      BY <1>1, <1>3, <1>6, <2>4, <2>5, <2>6, <2>7, CommitKept
  <1>9. QED
    BY <1>7, <1>8

LEMMA CommitArchiveKept ==
  ASSUME Inv, Typed', Disciplined', NEW p \in Procs, NEW o \in Outcomes, CommitArchive(p, o)
  PROVE  Lawful(p) /\ Kept'
  <1>1. PICK j : j = job[p]
    OBVIOUS
  <1>2. PICK stage : stage = IF o = "ok" THEN "applyDone" ELSE Failed(j)
    OBVIOUS
  <1>3. /\ pc[p] = "journal" /\ Goto(p, stage)
        /\ UNCHANGED <<file, moveWal, held, job, issued, doomed, acked>>
        /\ wal' = IF Installs(o) THEN [wal EXCEPT ![j.board] = j.after] ELSE wal
    BY <1>1, <1>2 DEF CommitArchive, WalOnly, locks, ghosts
  <1>4. /\ j.board \in Boards /\ j.board \in held[p] /\ Clear(p) /\ j.after \in Content
    BY <1>1, <1>3, AtCall, AtPosted DEF PostedAt, QuietStages, Inv
  <1>5. j.mode = "live" /\ j.move = None
    BY <1>1, <1>3, AtOwn DEF RenderedAt, RenderStages
  <1>6. stage \in {"undo", "error", "applyDone"} /\ (o # "ok" => stage \in {"undo", "error"})
    BY <1>2 DEF Failed
  <1>7. CASE ~Installs(o)
    <2>1. wal' = wal /\ stage \in {"undo", "error"}
      BY <1>3, <1>6, <1>7 DEF Installs
    <2>2. \A pr \in Pairs : ~AppliesAt(pc[p], job[p], pr)
      BY <1>3 DEF AppliesAt, ApplyingStages
    <2>3. QED
      BY <1>3, <2>1, <2>2, GivenUpKept
  <1>8. CASE Installs(o)
    <2>1. wal[j.board] = None /\ \A pr \in Pending : j.board \notin pr
      BY <1>4 DEF Clear
    <2>2. Effective[j.board] = file[j.board]
      BY <1>4, <2>1, EffectiveClear DEF Inv, ClearViewed
    <2>3. /\ wal'[j.board] = j.after /\ j.after # None
          /\ \A e \in Boards \ {j.board} : wal'[e] = wal[e]
      BY <1>3, <1>4, <1>8, NoneIsNoRecord DEF Inv, Typed, TypeOK
    <2>4. WalViewed'
      BY EffectiveWal, PTL
    <2>5. Effective'[j.board] = j.after
      BY <1>4, <2>3, <2>4 DEF WalViewed
    <2>6. JournalledAt(stage, j)'
      BY <1>5, <1>6, <2>3 DEF JournalledAt, ArchiveStages
    <2>7. QED
      BY <1>1, <1>3, <1>6, <2>2, <2>3, <2>5, <2>6, CommitKept
  <1>9. QED
    BY <1>7, <1>8

\* Applying the journal of both files, by its owner or in recovery.
LEMMA ArchiveKept ==
  ASSUME Inv, Typed', NEW p \in Procs, NEW j, j = job[p], pc[p] \in ArchiveStages,
         NEW stage \in {"undo", "error", "purge", "ok", "recover"} \cup ArchiveStages,
         Goto(p, stage), UNCHANGED <<moveWal, held, job, issued, doomed, acked>>,
         \A e \in Boards \ {j.board} : file'[e] = file[e] /\ wal'[e] = wal[e],
         Effective[j.board] = j.after, Effective'[j.board] = j.after,
         stage \in {"purge", "ok"} => j.mode = "live", JournalledAt(stage, j)'
  PROVE  Lawful(p) /\ Kept'
  <1>1. Typed /\ Disciplined /\ Kept /\ job' = [job EXCEPT ![p] = j]
    BY SameJob DEF Inv
  <1>2. j.board \in Boards /\ j.board \in held[p]
    BY <1>1, AtCall, AtPosted DEF PostedAt, ArchiveStages
  <1>3. stage \notin ApplyingStages /\ pc[p] \notin ApplyingStages
    BY DEF ApplyingStages, ArchiveStages
  <1>4. Effective' = Effective
    <2>1. PICK b \in Boards : b = j.board
      BY <1>2
    <2>2. \A pr \in Pairs : Applying(pr)' <=> Applying(pr)
      BY <1>1, <1>3, NoneApplied
    <2>3. \A e \in Boards \ {b} : Effective'[e] = Effective[e]
      BY <2>1, <2>2, SameBoard
    <2>4. QED
      BY <2>1, <2>3, SameEffective
  <1>5. Local(p)
    BY <1>2 DEF Local
  <1>6. JournalledAt(pc[p], j) /\ ToldAt(pc[p], j)
    BY AtOwn
  <1>7. DoneAt(stage, j, p)'
    BY <1>2, <1>6 DEF DoneAt, JournalledAt
  <1>8. ToldAt(stage, j)'
    BY <1>4, <1>6 DEF ToldAt, Holds
  <1>9. OwnAt(stage, j, p)' /\ Starts(p, stage, j)
    BY <1>7 DEF OwnAt, RenderedAt, MovingAt, Starts, Creates, RenderStages, MoveStages,
                ArchiveStages
  <1>10. QED
    BY <1>1, <1>4, <1>5, <1>8, <1>9, StutterLawful, Assemble

LEMMA ApplyFileKept ==
  ASSUME Inv, Typed', Disciplined', NEW p \in Procs, NEW o \in Outcomes,
         ApplyDone(p, o) \/ ApplyBoard(p, o)
  PROVE  Lawful(p) /\ Kept'
  <1>1. PICK j : j = job[p]
    OBVIOUS
  <1>2. PICK k, stage :
          /\ \/ pc[p] = "applyDone" /\ k = "archive" /\ (o = "ok" <=> stage = "applyBoard")
             \/ pc[p] = "applyBoard" /\ k = "active" /\ (o = "ok" <=> stage = "removeArchive")
          /\ stage \in {"undo", "error"} \cup ArchiveStages
          /\ o # "ok" => stage \in {"undo", "error"}
          /\ Goto(p, stage)
          /\ file' = IF Installs(o) THEN [file EXCEPT ![j.board][k] = j.after[k]] ELSE file
          /\ UNCHANGED <<wal, moveWal, held, job, issued, doomed, acked>>
    <2>1. UNCHANGED <<wal, moveWal, held, job, issued, doomed, acked>>
      BY DEF ApplyDone, ApplyBoard, WalOnly, locks, ghosts
    <2>2. Failed(j) \in {"undo", "error"}
      BY DEF Failed
    <2>3. CASE ApplyDone(p, o)
      <3>1. PICK stage : stage = IF o = "ok" THEN "applyBoard" ELSE Failed(j)
        OBVIOUS
      <3>2. /\ pc[p] = "applyDone" /\ Goto(p, stage)
            /\ file' = IF Installs(o)
                       THEN [file EXCEPT ![j.board]["archive"] = j.after["archive"]] ELSE file
        BY <1>1, <2>3, <3>1 DEF ApplyDone
      <3>3. QED
        BY <2>1, <2>2, <3>1, <3>2 DEF Kinds, ArchiveStages
    <2>4. CASE ApplyBoard(p, o)
      <3>1. PICK stage : stage = IF o = "ok" THEN "removeArchive" ELSE Failed(j)
        OBVIOUS
      <3>2. /\ pc[p] = "applyBoard" /\ Goto(p, stage)
            /\ file' = IF Installs(o)
                       THEN [file EXCEPT ![j.board]["active"] = j.after["active"]] ELSE file
        BY <1>1, <2>4, <3>1 DEF ApplyBoard
      <3>3. QED
        BY <2>1, <2>2, <3>1, <3>2 DEF Kinds, ArchiveStages
    <2>5. QED
      BY <2>3, <2>4
  <1>3. pc[p] \in ArchiveStages
    BY <1>2 DEF ArchiveStages
  <1>4. /\ j.board \in Boards /\ j.after \in Content
        /\ file \in [Boards -> [Kinds -> Image]]
    BY <1>1, <1>3, AtCall DEF ArchiveStages, Inv, Typed, TypeOK, Content
  <1>5. JournalledAt(pc[p], j)
    BY <1>1, AtOwn
  <1>6. wal[j.board] = j.after /\ j.after # None
    BY <1>3, <1>4, <1>5, NoneIsNoRecord DEF JournalledAt
  <1>7. WalViewed'
    BY EffectiveWal, PTL
  <1>8. Effective[j.board] = j.after /\ Effective'[j.board] = j.after
    BY <1>2, <1>4, <1>6, <1>7, EffectiveWal DEF Inv, WalViewed
  <1>9. /\ \A e \in Boards \ {j.board} : file'[e] = file[e]
        /\ Installs(o) => file'[j.board] = [file[j.board] EXCEPT ![k] = j.after[k]]
    BY <1>2, <1>4
  <1>10. stage \in ArchiveStages => o = "ok" /\ Installs(o)
    BY <1>2 DEF Installs, ArchiveStages
  <1>11. Installs(o) => /\ file'[j.board][k] = j.after[k]
                        /\ \A l \in Kinds \ {k} : file'[j.board][l] = file[j.board][l]
    <2>1. k \in Kinds
      BY <1>2 DEF Kinds
    <2>2. QED
      BY <1>4, <1>9, <2>1
  <1>12. JournalledAt(stage, j)'
    BY <1>2, <1>3, <1>5, <1>10, <1>11 DEF JournalledAt, ArchiveStages, Kinds
  <1>13. stage \notin {"purge", "ok"}
    BY <1>2 DEF ArchiveStages
  <1>14. QED
    BY <1>1, <1>2, <1>3, <1>8, <1>9, <1>12, <1>13, ArchiveKept

LEMMA RemoveArchiveKept ==
  ASSUME Inv, Typed', NEW p \in Procs, NEW o \in Outcomes, RemoveArchive(p, o)
  PROVE  Lawful(p) /\ Kept'
  <1>1. PICK j : j = job[p]
    OBVIOUS
  <1>2. PICK stage : stage = IF o = "ok" THEN Succeeded(j) ELSE Failed(j)
    OBVIOUS
  <1>3. /\ pc[p] = "removeArchive" /\ pc[p] \in ArchiveStages /\ Goto(p, stage)
        /\ UNCHANGED <<file, moveWal, held, job, issued, doomed, acked>>
        /\ wal' = IF Installs(o) THEN [wal EXCEPT ![j.board] = None] ELSE wal
    BY <1>1, <1>2 DEF RemoveArchive, WalOnly, locks, ghosts, ArchiveStages
  <1>4. /\ j.board \in Boards /\ j.after \in Content /\ j.after \in [Kinds -> Image]
        /\ file[j.board] \in [Kinds -> Image] /\ wal \in [Boards -> Content \cup {None}]
    BY <1>1, <1>3, AtCall DEF Inv, Typed, TypeOK, Content
  <1>5. JournalledAt("removeArchive", j)
    BY <1>1, <1>3, AtOwn
  <1>6. /\ j.mode \in {"live", "recovery"} /\ wal[j.board] = j.after /\ j.after # None
        /\ file[j.board]["archive"] = j.after["archive"]
        /\ file[j.board]["active"] = j.after["active"]
    BY <1>4, <1>5, NoneIsNoRecord DEF JournalledAt, ArchiveStages
  <1>7. file[j.board] = j.after
    BY <1>4, <1>6 DEF Kinds
  <1>8. /\ stage \in {"undo", "error", "purge", "ok", "recover"}
        /\ stage \in {"purge", "ok"} => j.mode = "live"
    BY <1>2, <1>6 DEF Succeeded, Failed
  <1>9. Effective[j.board] = j.after
    BY <1>4, <1>6, EffectiveWal DEF Inv, WalViewed
  <1>10. Effective'[j.board] = j.after
    <2>1. Pending' = Pending /\ \A pr \in Pending : j.board \notin pr
      BY <1>3, <1>4, <1>6 DEF Pending, Inv, Disciplined, JournalExclusion
    <2>2. CASE ~Installs(o)
      <3>1. wal' = wal /\ \A pr \in Pairs : ~AppliesAt(stage, j, pr) /\ ~AppliesAt(pc[p], j, pr)
        BY <1>3, <1>8, <2>2 DEF AppliesAt, ApplyingStages
      <3>2. Effective' = Effective
        BY <1>1, <1>3, <3>1, SameJob, NothingChanges DEF Inv
      <3>3. QED
        BY <1>9, <3>2
    <2>3. CASE Installs(o)
      <3>1. wal'[j.board] = None
        BY <1>3, <1>4, <2>3
      <3>2. ClearViewed'
        BY EffectiveClear, PTL
      <3>3. Effective'[j.board] = file'[j.board]
        BY <1>4, <2>1, <3>1, <3>2 DEF ClearViewed
      <3>4. QED
        BY <1>3, <1>7, <3>3
    <2>4. QED
      BY <2>2, <2>3
  <1>11. \A e \in Boards \ {j.board} : file'[e] = file[e] /\ wal'[e] = wal[e]
    BY <1>3, <1>4
  <1>12. JournalledAt(stage, j)'
    BY <1>8 DEF JournalledAt, ArchiveStages
  <1>13. QED
    BY <1>1, <1>3, <1>8, <1>9, <1>10, <1>11, <1>12, ArchiveKept

-----------------------------------------------------------------------------
(* The calls of a move.                                                    *)

\* A step writes nothing beside a pair of boards.
Beside(pr) ==
  /\ wal' = wal
  /\ \A b \in Boards \ pr : file'[b] = file[b]
  /\ \A qr \in Pairs \ {pr} : moveWal'[qr] = moveWal[qr]

\* A process works on no other move than the one of this pair.
WorksOn(stage, j, pr) == stage \in ApplyingStages => PairOf(j.move) = pr

\* p goes on, and works on this pair.
OnPair(p, stage, j, pr) ==
  /\ Goto(p, stage) /\ job' = [job EXCEPT ![p] = j]
  /\ pr \subseteq held[p] /\ Beside(pr)
  /\ WorksOn(pc[p], job[p], pr) /\ WorksOn(stage, j, pr)

LEMMA PairStep ==
  ASSUME Typed, Disciplined, NEW p \in Procs, NEW stage, NEW j, NEW pr \in Pairs,
         OnPair(p, stage, j, pr)
  PROVE  /\ Applying(pr) <=> AppliesAt(pc[p], job[p], pr)
         /\ Applying(pr)' <=> AppliesAt(stage, j, pr)
         /\ \A b \in Boards \ pr : Effective'[b] = Effective[b]
  <1>1. pc \in [Procs -> Stages] /\ job \in [Procs -> Job \cup {None}]
    BY DEF Typed, TypeOK
  <1>2. /\ pc'[p] = stage /\ job'[p] = j
        /\ \A q \in Procs \ {p} : pc'[q] = pc[q] /\ job'[q] = job[q]
    BY <1>1 DEF OnPair, Goto
  <1>3. ASSUME NEW q \in Procs, q # p, AppliesAt(pc[q], job[q], pr) PROVE FALSE
    <2>1. PairOf(job[q].move) = pr /\ pc[q] \in {"rollback"} \cup MoveStages
      BY <1>3 DEF AppliesAt, ApplyingStages, MoveStages
    <2>2. pr \subseteq held[q]
      BY <2>1, AtPosted DEF PostedAt
    <2>3. pr # {} /\ held[p] \cap held[q] = {}
      BY <1>3 DEF OnPair, Pairs, Disciplined, LockDiscipline, Exclusive
    <2>4. QED
      BY <2>2, <2>3 DEF OnPair
  <1>4. Applying(pr) <=> AppliesAt(pc[p], job[p], pr)
    BY <1>3, ApplyingIs
  <1>5. Applying(pr)' <=> \E q \in Procs : AppliesAt(pc'[q], job'[q], pr)
    BY DEF Applying, AppliesAt, ApplyingStages, PairOf
  <1>6. Applying(pr)' <=> AppliesAt(stage, j, pr)
    BY <1>2, <1>3, <1>5
  <1>7. \A qr \in Pairs \ {pr} : ~AppliesAt(stage, j, qr) /\ ~AppliesAt(pc[p], job[p], qr)
    BY DEF OnPair, WorksOn, AppliesAt
  <1>8. \A qr \in Pairs \ {pr} : Applying(qr)' <=> Applying(qr)
    BY <1>7, ApplyingKept DEF OnPair
  <1>9. \A b \in Boards \ pr : Effective'[b] = Effective[b]
    BY <1>8, SameBoard DEF OnPair, Beside
  <1>10. QED
    BY <1>4, <1>6, <1>9

LEMMA SameLists ==
  ASSUME NEW b \in Boards, \A l \in Kinds : Effective'[b][l] = Effective[b][l]
  PROVE  Effective'[b] = Effective[b]
  <1>1. Effective[b] = [l \in Kinds |-> EffectiveImage(b, l)]
    BY DEF Effective
  <1>2. Effective'[b] = [l \in Kinds |-> EffectiveImage(b, l)']
    BY DEF Effective
  <1>3. \A l \in Kinds : EffectiveImage(b, l)' = EffectiveImage(b, l)
    BY <1>1, <1>2
  <1>4. QED
    BY <1>1, <1>2, <1>3

\* The images a journal stands for, before and after a step.
LEMMA SameJournal ==
  ASSUME Typed, Disciplined, Typed', Disciplined', NEW pr \in Pairs,
         NEW m \in MoveJournal, NEW n \in MoveJournal, moveWal[pr] = m, moveWal'[pr] = n,
         n = m \/ n = [m EXCEPT !.state = "rollback"],
         Decided(pr)' <=> Decided(pr),
         pr = PairOf(m), Within(m)
  PROVE  Effective' = Effective
  <1>1. pr \in Pending /\ pr \in Pending'
    BY NoneIsNoRecord DEF Pending
  <1>2. PairsViewed /\ PairsViewed'
    <2>1. PairsViewed
      BY EffectivePair
    <2>2. PairsViewed'
      BY EffectivePair, PTL
    <2>3. QED
      BY <2>1, <2>2
  <1>3. /\ pr = {m.source, m.destination}
        /\ m.source \in Boards /\ m.destination \in Boards
    BY <1>1, PendingMove
  <1>4. /\ n.source = m.source /\ n.destination = m.destination /\ n.kind = m.kind
        /\ n.sourceBefore = m.sourceBefore /\ n.sourceAfter = m.sourceAfter
        /\ n.destinationBefore = m.destinationBefore /\ n.destinationAfter = m.destinationAfter
    BY DEF MoveJournal
  <1>5. \A l \in Kinds :
          /\ Effective[m.source][l] = IF l = m.kind THEN SourceNow(m, Decided(pr))
                                                    ELSE file[m.source][l]
          /\ Effective[m.destination][l] = IF l = m.kind THEN DestinationNow(m, Decided(pr))
                                                         ELSE file[m.destination][l]
    BY <1>1, <1>2 DEF PairsViewed
  <1>6. \A l \in Kinds :
          /\ Effective'[n.source][l] = IF l = n.kind THEN SourceNow(n, Decided(pr)')
                                                     ELSE file'[n.source][l]
          /\ Effective'[n.destination][l] = IF l = n.kind THEN DestinationNow(n, Decided(pr)')
                                                          ELSE file'[n.destination][l]
    BY <1>1, <1>2 DEF PairsViewed, SourceNow, DestinationNow
  <1>7. \A l \in Kinds : /\ Effective'[m.source][l] = Effective[m.source][l]
                         /\ Effective'[m.destination][l] = Effective[m.destination][l]
    BY <1>3, <1>4, <1>5, <1>6 DEF SourceNow, DestinationNow, Within
  <1>8. \A b \in Boards : Effective'[b] = Effective[b]
    <2>1. PICK s, d : s = m.source /\ d = m.destination
      OBVIOUS
    <2>2. /\ \A l \in Kinds : Effective'[s][l] = Effective[s][l]
          /\ \A l \in Kinds : Effective'[d][l] = Effective[d][l]
      BY <1>7, <2>1
    <2>3. Effective'[s] = Effective[s] /\ Effective'[d] = Effective[d]
      BY <1>3, <2>1, <2>2, SameLists
    <2>4. QED
      BY <1>3, <2>1, <2>3 DEF Within
  <1>9. QED
    BY <1>8, SameEffective

LEMMA MoveCallKept ==
  ASSUME Inv, Typed', NEW p \in Procs, NEW j, NEW pr \in Pairs,
         NEW stage \in {"idle", "recover", "ok", "error", "rollback"} \cup MoveStages,
         OnPair(p, stage, j, pr), \A q \in Procs \ {p} : held'[q] = held[q],
         UNCHANGED <<issued, doomed, acked>>, Lawful(p),
         MovingAt(stage, j)', DoneAt(stage, j, p)', ToldAt(stage, j)'
  PROVE  Kept'
  <1>1. Typed /\ Disciplined /\ Kept
    BY DEF Inv
  <1>2. Local(p)
    BY DEF Local, OnPair, Beside
  <1>3. OwnAt(stage, j, p)' /\ Starts(p, stage, j)
    BY DEF OwnAt, RenderedAt, JournalledAt, Starts, Creates, RenderStages, MoveStages,
           ArchiveStages
  <1>4. QED
    BY <1>1, <1>2, <1>3, Assemble DEF OnPair

\* Nothing is done yet, or the move is not told of.
LEMMA MovesOn ==
  ASSUME NEW p, NEW j, NEW stage \in {"idle", "recover", "error", "rollback"} \cup MoveStages,
         stage = "removeMove" => j.mode # "live"
  PROVE  DoneAt(stage, j, p)' /\ ToldAt(stage, j)'
  BY DEF DoneAt, ToldAt, MoveStages, ArchiveStages

\* What a process at a call of a move knows.
LEMMA AtMove ==
  ASSUME Inv, NEW p \in Procs, pc[p] \in {"moveJournal", "rollback"} \cup MoveStages,
         NEW j, j = job[p], NEW m, m = j.move, NEW pr, pr = PairOf(m)
  PROVE  /\ j \in Job /\ j # None /\ m # None
         /\ m \in MoveJournal /\ pr \in Pairs /\ pr \subseteq held[p]
         /\ pr = {m.source, m.destination} /\ m.source # m.destination
         /\ m.source \in Boards /\ m.destination \in Boards /\ m.kind \in Kinds
         /\ m.card \in Cards
         /\ MovingAt(pc[p], j) /\ ToldAt(pc[p], j)
         /\ pc[p] # "moveJournal" => moveWal[pr] = m /\ pr \in Pending
         /\ WorksOn(pc[p], j, pr)
  <1>1. Typed /\ Disciplined
    BY DEF Inv
  <1>2. MovingAt(pc[p], j) /\ ToldAt(pc[p], j)
    BY AtOwn
  <1>3. PostedAt(pc[p], j, p)
    BY <1>1, AtPosted
  <1>4. /\ m \in MoveJournal /\ m.source \in Boards /\ m.destination \in Boards
        /\ m.source # m.destination /\ m.kind \in Kinds /\ m.card \in Cards /\ pr \in Pairs
    BY <1>1, AtMoveCall
  <1>5. j \in Job /\ j # None
    BY <1>1, AtCall DEF MoveStages
  <1>6. pr \subseteq held[p]
    BY <1>3 DEF PostedAt
  <1>7. pc[p] # "moveJournal" => moveWal[pr] = m /\ pr \in Pending
    BY <1>2, <1>3 DEF MovingAt, PostedAt
  <1>8. m # None
    BY <1>4, NoneIsNoRecord
  <1>9. QED
    BY <1>2, <1>4, <1>5, <1>6, <1>7, <1>8 DEF PairOf, WorksOn

LEMMA PlaceAttachmentsKept ==
  ASSUME Inv, Typed', NEW p \in Procs, NEW o \in Outcomes, PlaceAttachments(p, o)
  PROVE  Lawful(p) /\ Kept'
  <1>1. PICK j, m, pr : j = job[p] /\ m = j.move /\ pr = PairOf(m)
    OBVIOUS
  <1>2. PICK stage : stage \in {"writeDestination", MoveFailed(j)} /\ Goto(p, stage)
    BY <1>1 DEF PlaceAttachments
  <1>3. /\ pc[p] = "place"
        /\ UNCHANGED <<file, wal, moveWal, held, job, issued, doomed, acked>>
    BY DEF PlaceAttachments, MoveOnly, locks, ghosts
  <1>4. MovingAt("place", j) /\ moveWal[pr] = m
    BY <1>1, <1>3, AtMove DEF MoveStages
  <1>5. /\ stage \in {"writeDestination", "rollback", "error"}
        /\ stage = "rollback" => j.mode = "live"
        /\ stage = "error" => j.mode # "live"
    BY <1>2 DEF MoveFailed
  <1>6. Movable(m)' <=> Movable(m)
    BY <1>3 DEF Movable
  <1>7. MovingAt(stage, j)'
    BY <1>1, <1>3, <1>4, <1>5, <1>6 DEF MovingAt, MoveStages
  <1>8. OwnAt(stage, j, p)' /\ ToldAt(stage, j)' /\ ~Creates(stage, j)
    BY <1>5, <1>7 DEF OwnAt, RenderedAt, RenderStages, JournalledAt, DoneAt, ToldAt,
                      ArchiveStages, MoveStages, Creates
  <1>9. \A qr \in Pairs : AppliesAt(stage, j, qr) <=> AppliesAt(pc[p], j, qr)
    BY <1>3, <1>5 DEF AppliesAt, ApplyingStages
  <1>10. QED
    BY <1>1, <1>2, <1>3, <1>8, <1>9, AsideKept

LEMMA WriteMoveJournalKept ==
  ASSUME Inv, Typed', Disciplined', NEW p \in Procs, NEW o \in Outcomes, WriteMoveJournal(p, o)
  PROVE  Lawful(p) /\ Kept'
  <1>1. PICK j, m, pr : j = job[p] /\ m = j.move /\ pr = PairOf(m)
    OBVIOUS
  <1>2. PICK stage : stage = IF o = "ok" THEN FirstMoveStage(m) ELSE "error"
    OBVIOUS
  <1>3. /\ pc[p] = "moveJournal" /\ Goto(p, stage)
        /\ UNCHANGED <<file, wal, held, job, issued, doomed, acked>>
        /\ moveWal' = IF Installs(o) THEN [moveWal EXCEPT ![pr] = m] ELSE moveWal
    BY <1>1, <1>2 DEF WriteMoveJournal, MoveOnly, locks, ghosts
  <1>4. /\ m \in MoveJournal /\ pr \in Pairs /\ pr \subseteq held[p]
        /\ pr = {m.source, m.destination} /\ m.source # m.destination
        /\ m.source \in Boards /\ m.destination \in Boards /\ m.kind \in Kinds
        /\ j # None /\ m # None /\ MovingAt("moveJournal", j) /\ WorksOn(pc[p], j, pr)
    BY <1>1, <1>3, AtMove
  <1>5. /\ j.mode = "live" /\ m.state = "commit" /\ Movable(m)
        /\ file[m.source][m.kind] = m.sourceBefore
        /\ file[m.destination][m.kind] = m.destinationBefore
        /\ j.card = m.card /\ j.rev = m.sourceBefore.cards[m.card].rev + 1
    BY <1>1, <1>4 DEF MovingAt
  <1>6. stage \in {"place", "writeDestination", "error"} /\ (stage # "error" <=> o = "ok")
    BY <1>2, FirstMoveStageIs
  <1>7. Typed /\ Disciplined /\ Abstract!Sound /\ job' = [job EXCEPT ![p] = j]
    BY <1>1, <1>3, SameJob DEF Inv
  <1>8. CASE ~Installs(o)
    <2>1. stage = "error" /\ moveWal' = moveWal
      BY <1>3, <1>6, <1>8 DEF Installs
    <2>2. \A qr \in Pairs : ~AppliesAt(pc[p], job[p], qr)
      BY <1>3 DEF AppliesAt, ApplyingStages
    <2>3. QED
      BY <1>3, <2>1, <2>2, GivenUpKept
  <1>9. CASE Installs(o)
    <2>1. /\ moveWal'[pr] = m /\ \A qr \in Pairs \ {pr} : moveWal'[qr] = moveWal[qr]
      BY <1>3, <1>4, <1>7, <1>9 DEF Typed, TypeOK
    <2>2. OnPair(p, stage, j, pr)
      BY <1>1, <1>3, <1>4, <1>7, <2>1 DEF OnPair, Beside, WorksOn
    <2>3. /\ Applying(pr)' <=> AppliesAt(stage, j, pr)
          /\ \A b \in Boards \ pr : Effective'[b] = Effective[b]
      BY <1>1, <1>4, <1>7, <2>2, PairStep
    <2>4. \A b \in held[p] : wal[b] = None /\ \A qr \in Pending : b \notin qr
      BY <1>3, <1>7, AtPosted DEF PostedAt, QuietStages, Clear
    <2>5. Effective[m.source] = file[m.source] /\ Effective[m.destination] = file[m.destination]
      BY <1>4, <1>7, <2>4, EffectiveClear DEF ClearViewed
    <2>6. Undone(m) /\ Within(m)
      BY <1>1, <1>3, <1>5, <2>3, <2>5 DEF Undone, Within
    <2>7. CASE o # "ok"
      <3>1. stage = "error" /\ ~Applying(pr)'
        BY <1>6, <2>3, <2>7 DEF AppliesAt, ApplyingStages
      <3>2. Lawful(p)
        BY <1>1, <1>3, <1>4, <1>5, <1>7, <2>1, <2>3, <2>6, <3>1, MoveDecided
      <3>3. MovingAt(stage, j)' /\ DoneAt(stage, j, p)' /\ ToldAt(stage, j)'
        BY <3>1, IdleOwn DEF OwnAt
      <3>4. QED
        BY <1>3, <1>4, <1>7, <2>2, <3>1, <3>2, <3>3, MoveCallKept
    <2>8. CASE o = "ok"
      <3>1. stage \in {"place", "writeDestination"} /\ Applying(pr)'
        BY <1>1, <1>4, <1>5, <1>6, <2>3, <2>8 DEF AppliesAt, ApplyingStages
      <3>2. PairsViewed'
        BY EffectivePair, PTL
      <3>3. pr \in Pending' /\ ~Decided(pr)'
        BY <1>4, <2>1, <3>1 DEF Pending, Decided
      <3>4. \A l \in Kinds :
             /\ Effective'[m.source][l] = IF l = m.kind THEN m.sourceBefore
                                                        ELSE file[m.source][l]
             /\ Effective'[m.destination][l] = IF l = m.kind THEN m.destinationBefore
                                                             ELSE file[m.destination][l]
        BY <1>3, <2>1, <3>2, <3>3 DEF PairsViewed, SourceNow, DestinationNow
      <3>5. PICK s, d : s = m.source /\ d = m.destination
        OBVIOUS
      <3>6. \A l \in Kinds : /\ Effective'[s][l] = Effective[s][l]
                             /\ Effective'[d][l] = Effective[d][l]
        BY <2>6, <3>4, <3>5 DEF Undone
      <3>7. Effective'[s] = Effective[s] /\ Effective'[d] = Effective[d]
        BY <1>4, <3>5, <3>6, SameLists
      <3>8. Effective' = Effective
        BY <1>4, <2>3, <3>5, <3>7, SameEffective
      <3>9. Movable(m)' <=> Movable(m)
        BY <1>3 DEF Movable
      <3>10. MovingAt(stage, j)'
        BY <1>1, <1>5, <2>1, <3>1, <3>9 DEF MovingAt, MoveStages
      <3>11. DoneAt(stage, j, p)' /\ ToldAt(stage, j)'
        BY <3>1, MovesOn DEF MoveStages
      <3>12. stage \in MoveStages
        BY <3>1 DEF MoveStages
      <3>13. QED
        BY <1>3, <1>4, <1>7, <2>2, <3>8, <3>10, <3>11, <3>12, StutterLawful, MoveCallKept
    <2>9. QED
      BY <2>7, <2>8
  <1>10. QED
    BY <1>8, <1>9

LEMMA WriteDestinationKept ==
  ASSUME Inv, Typed', Disciplined', NEW p \in Procs, NEW o \in Outcomes, WriteDestination(p, o)
  PROVE  Lawful(p) /\ Kept'
  <1>1. PICK j, m, pr : j = job[p] /\ m = j.move /\ pr = PairOf(m)
    OBVIOUS
  <1>2. PICK stage : stage = IF o = "ok" THEN "writeSource" ELSE MoveFailed(j)
    OBVIOUS
  <1>3. /\ pc[p] = "writeDestination" /\ Goto(p, stage)
        /\ UNCHANGED <<wal, moveWal, held, job, issued, doomed, acked>>
        /\ file' = IF Installs(o)
                   THEN [file EXCEPT ![m.destination][m.kind] = DestinationImage(m)] ELSE file
    BY <1>1, <1>2 DEF WriteDestination, MoveOnly, locks, ghosts
  <1>4. /\ m \in MoveJournal /\ pr \in Pairs /\ pr \subseteq held[p]
        /\ pr = {m.source, m.destination} /\ m.source # m.destination
        /\ m.source \in Boards /\ m.destination \in Boards /\ m.kind \in Kinds
        /\ MovingAt("writeDestination", j) /\ WorksOn(pc[p], j, pr)
        /\ moveWal[pr] = m /\ pr \in Pending
    BY <1>1, <1>3, AtMove DEF MoveStages
  <1>5. Typed /\ Disciplined /\ job' = [job EXCEPT ![p] = j] /\ file \in [Boards -> [Kinds -> Image]]
    BY <1>1, <1>3, SameJob DEF Inv, Typed, TypeOK, Content
  <1>6. /\ stage \in {"writeSource", "rollback", "error"}
        /\ stage = "writeSource" <=> o = "ok"
        /\ stage = "rollback" => j.mode = "live"
        /\ stage = "error" => j.mode # "live"
    BY <1>2 DEF MoveFailed
  <1>7. OnPair(p, stage, j, pr)
    BY <1>1, <1>3, <1>4, <1>5 DEF OnPair, Beside, WorksOn
  <1>8. /\ Applying(pr) <=> AppliesAt(pc[p], j, pr)
        /\ Applying(pr)' <=> AppliesAt(stage, j, pr)
        /\ \A b \in Boards \ pr : Effective'[b] = Effective[b]
    BY <1>1, <1>4, <1>5, <1>7, PairStep
  <1>9. Decided(pr)' <=> Decided(pr)
    BY <1>3, <1>6, <1>8 DEF Decided, AppliesAt, ApplyingStages
  <1>10. /\ \A b \in Boards, l \in Kinds :
              ~(b = m.destination /\ l = m.kind) => file'[b][l] = file[b][l]
         /\ Installs(o) => file'[m.destination][m.kind] = DestinationImage(m)
    BY <1>3, <1>4, <1>5
  <1>11. Within(m)
    BY <1>1, <1>4, <1>8, <1>10 DEF Within
  <1>12. Effective' = Effective
    BY <1>1, <1>3, <1>4, <1>5, <1>9, <1>11, SameJournal
  <1>13. Movable(m)' <=> Movable(m)
    <2>1. /\ [file'[m.source] EXCEPT ![m.kind] = m.sourceBefore]
               = [file[m.source] EXCEPT ![m.kind] = m.sourceBefore]
          /\ [file'[m.destination] EXCEPT ![m.kind] = m.destinationBefore]
               = [file[m.destination] EXCEPT ![m.kind] = m.destinationBefore]
      BY <1>3, <1>4, <1>5
    <2>2. QED
      BY <2>1 DEF Movable
  <1>14. MovingAt(stage, j)'
    BY <1>1, <1>3, <1>4, <1>6, <1>10, <1>13 DEF MovingAt, MoveStages, Installs, DestinationImage
  <1>15. DoneAt(stage, j, p)' /\ ToldAt(stage, j)'
    BY <1>6, MovesOn DEF MoveStages
  <1>16. stage \in {"error", "rollback"} \cup MoveStages
    BY <1>6 DEF MoveStages
  <1>17. QED
    BY <1>3, <1>4, <1>7, <1>12, <1>14, <1>15, <1>16, StutterLawful, MoveCallKept

LEMMA WriteSourceKept ==
  ASSUME Inv, Typed', Disciplined', NEW p \in Procs, NEW o \in Outcomes, WriteSource(p, o)
  PROVE  Lawful(p) /\ Kept'
  <1>1. PICK j, m, pr : j = job[p] /\ m = j.move /\ pr = PairOf(m)
    OBVIOUS
  <1>2. PICK stage : stage = IF o = "ok" THEN "removeMove" ELSE MoveFailed(j)
    OBVIOUS
  <1>3. /\ pc[p] = "writeSource" /\ Goto(p, stage)
        /\ UNCHANGED <<wal, moveWal, held, job, issued, doomed, acked>>
        /\ file' = IF Installs(o)
                   THEN [file EXCEPT ![m.source][m.kind] = SourceImage(m)] ELSE file
    BY <1>1, <1>2 DEF WriteSource, MoveOnly, locks, ghosts
  <1>4. /\ m \in MoveJournal /\ pr \in Pairs /\ pr \subseteq held[p]
        /\ pr = {m.source, m.destination} /\ m.source # m.destination
        /\ m.source \in Boards /\ m.destination \in Boards /\ m.kind \in Kinds /\ m.card \in Cards
        /\ j \in Job /\ j # None /\ m # None
        /\ MovingAt("writeSource", j) /\ WorksOn(pc[p], j, pr)
        /\ moveWal[pr] = m /\ pr \in Pending
    BY <1>1, <1>3, AtMove DEF MoveStages
  <1>5. /\ Typed /\ Disciplined /\ Abstract!Sound /\ job' = [job EXCEPT ![p] = j]
        /\ file \in [Boards -> [Kinds -> Image]]
    BY <1>1, <1>3, SameJob DEF Inv, Typed, TypeOK, Content
  <1>6. /\ stage \in {"removeMove", "rollback", "error"}
        /\ stage = "removeMove" <=> o = "ok"
        /\ stage = "rollback" => j.mode = "live"
        /\ stage = "error" => j.mode # "live"
    BY <1>2 DEF MoveFailed
  <1>7. OnPair(p, stage, j, pr)
    BY <1>1, <1>3, <1>4, <1>5 DEF OnPair, Beside, WorksOn
  <1>8. /\ Applying(pr) <=> AppliesAt(pc[p], j, pr)
        /\ Applying(pr)' <=> AppliesAt(stage, j, pr)
        /\ \A b \in Boards \ pr : Effective'[b] = Effective[b]
    BY <1>1, <1>4, <1>5, <1>7, PairStep
  <1>9. /\ \A b \in Boards, l \in Kinds :
             ~(b = m.source /\ l = m.kind) => file'[b][l] = file[b][l]
        /\ Installs(o) => file'[m.source][m.kind] = SourceImage(m)
    BY <1>3, <1>4, <1>5
  <1>10. Within(m)
    BY <1>1, <1>4, <1>8, <1>9 DEF Within
  <1>11. Movable(m)' <=> Movable(m)
    <2>1. /\ [file'[m.source] EXCEPT ![m.kind] = m.sourceBefore]
               = [file[m.source] EXCEPT ![m.kind] = m.sourceBefore]
          /\ [file'[m.destination] EXCEPT ![m.kind] = m.destinationBefore]
               = [file[m.destination] EXCEPT ![m.kind] = m.destinationBefore]
      BY <1>3, <1>4, <1>5
    <2>2. QED
      BY <2>1 DEF Movable
  <1>12. MovingAt(stage, j)'
    BY <1>1, <1>3, <1>4, <1>6, <1>9, <1>11 DEF MovingAt, MoveStages, Installs,
       DestinationImage, SourceImage
  <1>13. DoneAt(stage, j, p)'
    BY <1>6 DEF DoneAt
  <1>14. CASE j.mode = "live" /\ o = "ok"
    <2>1. m.state = "commit" /\ Movable(m)
          /\ j.card = m.card /\ j.rev = m.sourceBefore.cards[m.card].rev + 1
      BY <1>1, <1>4, <1>14 DEF MovingAt, MoveStages
    <2>2. Applying(pr) /\ ~Applying(pr)'
      BY <1>1, <1>3, <1>4, <1>6, <1>8, <1>14 DEF AppliesAt, ApplyingStages
    <2>3. PairsViewed /\ ~Decided(pr)
      BY <1>5, <2>2, EffectivePair DEF Decided
    <2>4. Undone(m)
      BY <1>4, <2>3 DEF PairsViewed, SourceNow, DestinationNow, Undone
    <2>5. /\ Lawful(p)
          /\ \A n \in Nat : n = m.sourceBefore.cards[m.card].rev + 1 => Holds(m.card, n)'
      BY <1>1, <1>3, <1>4, <1>5, <1>10, <2>1, <2>2, <2>4, MoveDecided
    <2>6. ToldAt(stage, j)'
      <3>1. j.rev \in Nat
        BY <1>4 DEF Job
      <3>2. PICK n \in Nat : n = j.rev
        BY <3>1
      <3>3. Holds(m.card, n)'
        BY <2>1, <2>5, <3>2
      <3>4. Holds(j.card, j.rev)'
        BY <2>1, <3>2, <3>3
      <3>5. QED
        BY <3>4 DEF ToldAt
    <2>7. stage \in MoveStages
      BY <1>6, <1>14 DEF MoveStages
    <2>8. QED
      BY <1>3, <1>4, <1>7, <1>12, <1>13, <2>5, <2>6, <2>7, MoveCallKept
  <1>15. CASE ~(j.mode = "live" /\ o = "ok")
    <2>1. Decided(pr)' <=> Decided(pr)
      BY <1>3, <1>6, <1>8, <1>15 DEF Decided, AppliesAt, ApplyingStages
    <2>2. Effective' = Effective
      BY <1>1, <1>3, <1>4, <1>5, <1>10, <2>1, SameJournal
    <2>3. ToldAt(stage, j)'
      BY <1>6, <1>15 DEF ToldAt, ArchiveStages
    <2>4. stage \in {"error", "rollback"} \cup MoveStages
      BY <1>6 DEF MoveStages
    <2>5. QED
      BY <1>3, <1>4, <1>7, <1>12, <1>13, <2>2, <2>3, <2>4, StutterLawful, MoveCallKept
  <1>16. QED
    BY <1>14, <1>15

LEMMA DecideRollbackKept ==
  ASSUME Inv, Typed', Disciplined', NEW p \in Procs, NEW o \in Outcomes, DecideRollback(p, o)
  PROVE  Lawful(p) /\ Kept'
  <1>1. PICK j, m, pr : j = job[p] /\ m = j.move /\ pr = PairOf(m)
    OBVIOUS
  <1>2. PICK back, k, stage :
          /\ back = [m EXCEPT !.state = "rollback"]
          /\ k = [j EXCEPT !.mode = "rollback", !.move = back]
          /\ stage = IF o = "ok" THEN FirstMoveStage(back) ELSE "error"
    OBVIOUS
  <1>3. /\ m \in MoveJournal /\ pr \in Pairs /\ pr \subseteq held[p]
        /\ pr = {m.source, m.destination} /\ m.source # m.destination
        /\ m.source \in Boards /\ m.destination \in Boards
        /\ j \in Job /\ j # None /\ m # None
        /\ MovingAt("rollback", j) /\ WorksOn(pc[p], j, pr)
        /\ moveWal[pr] = m /\ pr \in Pending /\ pc[p] = "rollback"
    <2>1. pc[p] = "rollback"
      BY DEF DecideRollback
    <2>2. QED
      BY <1>1, <2>1, AtMove
  <1>4. Typed /\ Disciplined /\ Abstract!Sound
    BY DEF Inv
  <1>5. /\ back \in MoveJournal /\ back.source = m.source /\ back.destination = m.destination
        /\ back.state = "rollback" /\ PairOf(back) = pr
    BY <1>1, <1>2, <1>3 DEF MoveJournal, PairOf
  <1>6. k.mode = "rollback" /\ k.move = back
    BY <1>2, <1>3 DEF Job
  <1>7. /\ Goto(p, stage) /\ job' = [job EXCEPT ![p] = k]
        /\ UNCHANGED <<file, wal, held, issued, doomed, acked>>
        /\ moveWal' = IF Installs(o) THEN [moveWal EXCEPT ![pr] = back] ELSE moveWal
    <2>1. job' = [job EXCEPT ![p].mode = "rollback", ![p].move = back]
      BY <1>1, <1>2 DEF DecideRollback
    <2>2. job \in [Procs -> Job \cup {None}]
      BY <1>4 DEF Typed, TypeOK
    <2>3. job' = [job EXCEPT ![p] = k]
      BY <1>1, <1>2, <2>1, <2>2
    <2>4. QED
      BY <1>1, <1>2, <1>5, <2>3 DEF DecideRollback, MoveOnly, locks, ghosts
  <1>8. /\ stage \in {"place", "writeDestination", "error"} /\ (stage = "error" <=> o # "ok")
    BY <1>2, FirstMoveStageIs
  <1>9. /\ moveWal'[pr] = IF Installs(o) THEN back ELSE m
        /\ \A qr \in Pairs \ {pr} : moveWal'[qr] = moveWal[qr]
    BY <1>3, <1>4, <1>7 DEF Typed, TypeOK
  <1>10. OnPair(p, stage, k, pr)
    BY <1>1, <1>3, <1>5, <1>6, <1>7, <1>9 DEF OnPair, Beside, WorksOn
  <1>11. /\ Applying(pr) <=> AppliesAt(pc[p], j, pr)
         /\ Applying(pr)' <=> AppliesAt(stage, k, pr)
         /\ \A b \in Boards \ pr : Effective'[b] = Effective[b]
    BY <1>1, <1>3, <1>4, <1>10, PairStep
  <1>12. /\ j.mode = "live" /\ m.state = "commit" /\ Movable(m)
    BY <1>1, <1>3 DEF MovingAt
  <1>13. Applying(pr) /\ ~Applying(pr)'
    BY <1>1, <1>3, <1>6, <1>11, <1>12 DEF AppliesAt, ApplyingStages
  <1>14. Within(m)
    BY <1>1, <1>7, <1>11 DEF Within
  <1>15. MovingAt(stage, k)'
    BY <1>5, <1>6, <1>8, <1>9 DEF MovingAt, MoveStages, Installs
  <1>16. DoneAt(stage, k, p)' /\ ToldAt(stage, k)'
    BY <1>8, MovesOn DEF MoveStages
  <1>17. stage \in {"error"} \cup MoveStages
    BY <1>8 DEF MoveStages
  <1>18. Lawful(p)
    <2>1. CASE Installs(o)
      <3>1. ~Decided(pr) /\ ~Decided(pr)'
        BY <1>5, <1>9, <1>13, <2>1 DEF Decided
      <3>2. moveWal'[pr] = back
        BY <1>9, <2>1
      <3>3. Effective' = Effective
        BY <1>1, <1>2, <1>3, <1>4, <1>5, <1>14, <3>1, <3>2, SameJournal
      <3>4. QED
        BY <3>3, StutterLawful
    <2>2. CASE ~Installs(o)
      <3>1. PairsViewed /\ ~Decided(pr)
        BY <1>4, <1>13, EffectivePair DEF Decided
      <3>2. Undone(m)
        BY <1>3, <3>1 DEF PairsViewed, SourceNow, DestinationNow, Undone
      <3>3. moveWal'[pr] = m
        BY <1>9, <2>2
      <3>4. QED
        BY <1>1, <1>3, <1>4, <1>12, <1>13, <1>14, <3>2, <3>3, MoveDecided
    <2>3. QED
      BY <2>1, <2>2
  <1>19. QED
    BY <1>3, <1>7, <1>10, <1>15, <1>16, <1>17, <1>18, MoveCallKept

LEMMA RemoveMoveKept ==
  ASSUME Inv, Typed', Disciplined', NEW p \in Procs, NEW o \in Outcomes, RemoveMove(p, o)
  PROVE  Lawful(p) /\ Kept'
  <1>1. PICK j, m, pr : j = job[p] /\ m = j.move /\ pr = PairOf(m)
    OBVIOUS
  <1>2. PICK stage :
          /\ stage = IF o = "ok" THEN CASE j.mode = "recovery" -> "recover"
                                        [] j.mode = "live"     -> "ok"
                                        [] j.mode = "rollback" -> "error"
                                 ELSE "error"
    OBVIOUS
  <1>3. /\ pc[p] = "removeMove" /\ Goto(p, stage)
        /\ UNCHANGED <<file, wal, held, job, issued, doomed, acked>>
        /\ moveWal' = IF Installs(o) THEN [moveWal EXCEPT ![pr] = None] ELSE moveWal
    BY <1>1, <1>2 DEF RemoveMove, MoveOnly, locks, ghosts
  <1>4. /\ m \in MoveJournal /\ pr \in Pairs /\ pr \subseteq held[p]
        /\ pr = {m.source, m.destination} /\ m.source # m.destination
        /\ m.source \in Boards /\ m.destination \in Boards /\ m.kind \in Kinds
        /\ j \in Job /\ j # None /\ m # None
        /\ MovingAt("removeMove", j) /\ ToldAt("removeMove", j) /\ WorksOn(pc[p], j, pr)
        /\ moveWal[pr] = m /\ pr \in Pending
    BY <1>1, <1>3, AtMove DEF MoveStages
  <1>5. Typed /\ Disciplined /\ job' = [job EXCEPT ![p] = j]
    BY <1>1, <1>3, SameJob DEF Inv
  <1>6. stage \in {"recover", "ok", "error"} /\ (stage = "ok" => j.mode = "live")
    BY <1>2, <1>4 DEF Job
  <1>7. \A qr \in Pairs \ {pr} : moveWal'[qr] = moveWal[qr]
    BY <1>3, <1>4, <1>5 DEF Typed, TypeOK
  <1>8. OnPair(p, stage, j, pr)
    BY <1>1, <1>3, <1>4, <1>5, <1>7 DEF OnPair, Beside, WorksOn
  <1>9. /\ ~Applying(pr) /\ ~Applying(pr)'
        /\ \A b \in Boards \ pr : Effective'[b] = Effective[b]
    <2>1. /\ Applying(pr) <=> AppliesAt(pc[p], j, pr)
          /\ Applying(pr)' <=> AppliesAt(stage, j, pr)
          /\ \A b \in Boards \ pr : Effective'[b] = Effective[b]
      BY <1>1, <1>4, <1>5, <1>8, PairStep
    <2>2. QED
      BY <1>3, <1>6, <2>1 DEF AppliesAt, ApplyingStages
  <1>10. /\ file[m.source][m.kind] = SourceImage(m)
         /\ file[m.destination][m.kind] = DestinationImage(m)
    BY <1>1, <1>4 DEF MovingAt
  <1>11. PairsViewed
    BY <1>5, EffectivePair
  <1>12. /\ SourceNow(m, Decided(pr)) = SourceImage(m)
         /\ DestinationNow(m, Decided(pr)) = DestinationImage(m)
    BY <1>4, <1>9 DEF Decided, SourceNow, DestinationNow, SourceImage, DestinationImage
  <1>13. \A l \in Kinds : /\ Effective[m.source][l] = file[m.source][l]
                          /\ Effective[m.destination][l] = file[m.destination][l]
    BY <1>4, <1>10, <1>11, <1>12 DEF PairsViewed
  <1>14. Effective' = Effective
    <2>1. CASE ~Installs(o)
      <3>1. moveWal' = moveWal
        BY <1>3, <2>1
      <3>2. \A qr \in Pairs : AppliesAt(stage, j, qr) <=> AppliesAt(pc[p], job[p], qr)
        BY <1>3, <1>6 DEF AppliesAt, ApplyingStages
      <3>3. QED
        BY <1>3, <1>5, <3>1, <3>2, NothingChanges
    <2>2. CASE Installs(o)
      <3>1. moveWal'[pr] = None
        BY <1>3, <1>4, <1>5, <2>2 DEF Typed, TypeOK
      <3>2. \A b \in pr : wal'[b] = None /\ \A qr \in Pending' : b \notin qr
        BY <1>3, <1>4, <1>5, <1>7, <3>1 DEF Pending, Disciplined, JournalExclusion
      <3>3. ClearViewed'
        BY EffectiveClear, PTL
      <3>4. PICK s, d : s = m.source /\ d = m.destination
        OBVIOUS
      <3>5. Effective'[s] = file[s] /\ Effective'[d] = file[d]
        BY <1>3, <1>4, <3>2, <3>3, <3>4 DEF ClearViewed
      <3>6. \A l \in Kinds : Effective'[s][l] = Effective[s][l] /\ Effective'[d][l] = Effective[d][l]
        BY <1>13, <3>4, <3>5
      <3>7. Effective'[s] = Effective[s] /\ Effective'[d] = Effective[d]
        BY <1>4, <3>4, <3>6, SameLists
      <3>8. QED
        BY <1>4, <1>9, <3>4, <3>7, SameEffective
    <2>3. QED
      BY <2>1, <2>2
  <1>15. DoneAt(stage, j, p)'
    <2>1. SUFFICES ASSUME stage = "ok" PROVE DoneAt(stage, j, p)'
      BY <1>6 DEF DoneAt
    <2>2. m.state = "commit" /\ j.mode = "live"
      BY <1>1, <1>4, <1>6, <2>1 DEF MovingAt, MoveStages
    <2>3. /\ Effective'[m.source][m.kind] = m.sourceAfter
          /\ Effective'[m.destination][m.kind] = m.destinationAfter
      BY <1>4, <1>10, <1>13, <1>14, <2>2 DEF SourceImage, DestinationImage
    <2>4. QED
      BY <1>1, <1>3, <1>4, <2>2, <2>3 DEF DoneAt
  <1>16. ToldAt(stage, j)'
    BY <1>3, <1>4, <1>6, <1>14 DEF ToldAt, Holds, ArchiveStages
  <1>17. MovingAt(stage, j)'
    BY <1>6 DEF MovingAt, MoveStages
  <1>18. QED
    BY <1>3, <1>4, <1>6, <1>8, <1>14, <1>15, <1>16, <1>17, StutterLawful, MoveCallKept

\* A process dies: the move it was applying is decided by its journal.
LEMMA CrashKept ==
  ASSUME Inv, Typed', Disciplined', NEW p \in Procs, Crash(p)
  PROVE  Lawful(p) /\ Kept'
  <1>1. /\ Forget(p) /\ UNCHANGED <<file, wal, moveWal, issued, doomed, acked>>
    BY DEF Crash, disk, ghosts
  <1>2. CASE \A pr \in Pairs : ~AppliesAt(pc[p], job[p], pr)
    BY <1>1, <1>2, ForgetKept
  <1>3. CASE \E pr \in Pairs : AppliesAt(pc[p], job[p], pr)
    <2>1. PICK j, m, pr : j = job[p] /\ m = j.move /\ pr = PairOf(m)
      OBVIOUS
    <2>2. pc[p] \in ApplyingStages /\ AppliesAt(pc[p], j, pr) /\ j.mode = "live"
      BY <1>3, <2>1 DEF AppliesAt
    <2>3. /\ pc[p] \in {"moveJournal", "rollback"} \cup MoveStages
          /\ pc[p] \notin {"moveJournal", "removeMove"}
      BY <2>2 DEF ApplyingStages, MoveStages
    <2>4. /\ m \in MoveJournal /\ pr \in Pairs /\ pr \subseteq held[p]
          /\ MovingAt(pc[p], j) /\ WorksOn(pc[p], j, pr)
          /\ moveWal[pr] = m /\ pr \in Pending
      BY <2>1, <2>3, AtMove
    <2>5. m.state = "commit" /\ Movable(m)
      BY <2>1, <2>2, <2>3, <2>4 DEF MovingAt
    <2>6. Typed /\ Disciplined /\ Abstract!Sound
      BY DEF Inv
    <2>7. /\ Goto(p, "idle") /\ job' = [job EXCEPT ![p] = None]
          /\ held' = [held EXCEPT ![p] = {}]
      BY <1>1 DEF Forget
    <2>8. \A q \in Procs \ {p} : held'[q] = held[q]
      BY <2>6, <2>7 DEF Typed, TypeOK
    <2>9. OnPair(p, "idle", None, pr)
      BY <1>1, <2>1, <2>4, <2>7 DEF OnPair, Beside, WorksOn, ApplyingStages
    <2>10. /\ Applying(pr) <=> AppliesAt(pc[p], job[p], pr)
           /\ Applying(pr)' <=> AppliesAt("idle", None, pr)
           /\ \A b \in Boards \ pr : Effective'[b] = Effective[b]
      BY <2>4, <2>6, <2>9, PairStep
    <2>11. Applying(pr) /\ ~Applying(pr)'
      BY <2>1, <2>2, <2>10 DEF AppliesAt
    <2>12. PairsViewed /\ ~Decided(pr)
      BY <2>6, <2>11, EffectivePair DEF Decided
    <2>13. Undone(m) /\ Within(m)
      BY <1>1, <2>1, <2>4, <2>10, <2>12 DEF PairsViewed, SourceNow, DestinationNow, Undone, Within
    <2>14. Lawful(p)
      BY <1>1, <2>1, <2>4, <2>5, <2>6, <2>11, <2>13, MoveDecided
    <2>15. MovingAt("idle", None)' /\ DoneAt("idle", None, p)' /\ ToldAt("idle", None)'
      BY IdleOwn DEF OwnAt
    <2>16. QED
      BY <1>1, <2>4, <2>8, <2>9, <2>14, <2>15, MoveCallKept
  <1>4. QED
    BY <1>2, <1>3

-----------------------------------------------------------------------------
(* The invariant, and what it shows.                                       *)

LEMMA StepKept ==
  ASSUME Inv, Typed', Disciplined', NEW p \in Procs, Step(p)
  PROVE  Lawful(p) /\ Kept'
  <1>1. ASSUME NEW b \in Boards, RecoverArchive(p, b) PROVE Lawful(p) /\ Kept'
    BY <1>1, RecoverArchiveKept
  <1>2. ASSUME NEW pr \in Pairs, RecoverMove(p, pr) PROVE Lawful(p) /\ Kept'
    BY <1>2, RecoverMoveKept
  <1>3. ASSUME NEW o \in Outcomes,
               \/ Upload(p) \/ UploadRefused(p)
               \/ QuarantineFile(p, o) \/ QuarantineDirectory(p, o) \/ Undo(p, o) \/ Purge(p, o)
        PROVE  Lawful(p) /\ Kept'
    BY <1>3, AttachmentCallKept
  <1>4. "ok" \in Outcomes
    BY DEF Outcomes
  <1>5. ASSUME NEW o \in Outcomes,
               \/ WriteActive(p, o) \/ CommitArchive(p, o)
               \/ ApplyDone(p, o) \/ ApplyBoard(p, o) \/ RemoveArchive(p, o)
        PROVE  Lawful(p) /\ Kept'
    BY <1>5, WriteActiveKept, CommitArchiveKept, ApplyFileKept, RemoveArchiveKept
  <1>6. ASSUME NEW o \in Outcomes,
               \/ WriteMoveJournal(p, o) \/ PlaceAttachments(p, o) \/ WriteDestination(p, o)
               \/ WriteSource(p, o) \/ DecideRollback(p, o) \/ RemoveMove(p, o)
        PROVE  Lawful(p) /\ Kept'
    BY <1>6, WriteMoveJournalKept, PlaceAttachmentsKept, WriteDestinationKept, WriteSourceKept,
       DecideRollbackKept, RemoveMoveKept
  <1>7. CASE Return(p)
    BY <1>7, ReturnKept
  <1>8. QED
    BY <1>1, <1>2, <1>3, <1>4, <1>5, <1>6, <1>7 DEF Step

\* The step of a process is one operation of the abstract store, or none.
OneOperation == [Promise!Next]_Effective /\ [Abstract!Next]_Effective

LEMMA StutterKept ==
  ASSUME Inv, UNCHANGED vars
  PROVE  OneOperation /\ Kept'
  <1>1. UNCHANGED <<file, wal, moveWal, held, pc, job, issued, doomed, acked>>
    BY DEF vars, disk, locks, ghosts
  <1>2. \A pr \in Pairs : Applying(pr)' <=> Applying(pr)
    BY <1>1 DEF Applying
  <1>3. \A b \in Boards : Effective'[b] = Effective[b]
    BY <1>1, <1>2, SameBoard
  <1>4. Effective' = Effective
    BY <1>3, SameEffective
  <1>5. Kept
    BY DEF Inv
  <1>6. Owned'
    <2>1. ASSUME NEW p \in Procs, NEW stage, NEW j, stage = pc[p], j = job[p]
          PROVE  OwnAt(stage, j, p)'
      <3>1. OwnAt(stage, j, p)
        BY <1>5, <2>1 DEF Kept, Owned
      <3>2. Movable(j.move)' <=> Movable(j.move)
        BY <1>1 DEF Movable
      <3>3. QED
        BY <1>1, <1>4, <3>1, <3>2 DEF OwnAt, RenderedAt, JournalledAt, MovingAt, DoneAt
    <2>2. QED
      BY <1>1, <2>1 DEF Owned
  <1>7. Told' /\ Fresh' /\ NoLostUpdate'
    BY <1>1, <1>4, <1>5 DEF Kept, Told, ToldAt, Fresh, Creating, Creates, Holds, Somewhere,
                            NoLostUpdate
  <1>8. QED
    BY <1>4, <1>6, <1>7 DEF Kept, OneOperation

LEMMA NextKept ==
  ASSUME Inv, [Next]_vars
  PROVE  Inv' /\ OneOperation /\ Abstract!NoneTaken
  <1>1. Typed /\ Disciplined /\ Abstract!Sound
    BY DEF Inv
  <1>2. Typed' /\ Disciplined'
    BY <1>1, NextTyped, NextDisciplined
  <1>3. ASSUME NEW p \in Procs, Lawful(p) PROVE OneOperation
    BY <1>3 DEF Lawful, OneOperation
  <1>4. OneOperation /\ Kept'
    <2>1. CASE UNCHANGED vars
      BY <2>1, StutterKept
    <2>2. ASSUME NEW p \in Procs, NEW names \in Requests, Enter(p, names)
          PROVE  OneOperation /\ Kept'
      BY <1>2, <1>3, <2>2, EnterKept
    <2>3. ASSUME NEW p \in Procs, Leave(p) \/ Crash(p) PROVE OneOperation /\ Kept'
      BY <1>2, <1>3, <2>3, LeaveKept, CrashKept
    <2>4. ASSUME NEW p \in Procs, Operation(p) PROVE OneOperation /\ Kept'
      BY <1>2, <1>3, <2>4, OperationKept
    <2>5. ASSUME NEW p \in Procs, Step(p) PROVE OneOperation /\ Kept'
      BY <1>2, <1>3, <2>5, StepKept
    <2>6. QED
      BY <2>1, <2>2, <2>3, <2>4, <2>5 DEF Next, Rest
  <1>5. Abstract!Sound' /\ Abstract!NoneTaken
    <2>1. [Abstract!Next]_Effective
      BY <1>4 DEF OneOperation
    <2>2. QED
      BY <1>1, <2>1, NoneAssumption, Abstract!NextSound
  <1>6. QED
    BY <1>2, <1>4, <1>5 DEF Inv

LEMMA InitInv == Init => Inv
  <1> SUFFICES ASSUME Init PROVE Inv
    OBVIOUS
  <1>1. Typed /\ Disciplined
    BY InitTyped, InitDisciplined
  <1>2. /\ wal = [b \in Boards |-> None] /\ moveWal = [pr \in Pairs |-> None]
        /\ pc = [p \in Procs |-> "idle"] /\ issued = Seeded
        /\ acked = [c \in Cards |-> IF c \in Seeded THEN 1 ELSE 0]
    BY DEF Init
  <1>3. \A b \in Boards : Effective[b] = file[b]
    BY <1>1, <1>2, EffectiveClear DEF ClearViewed, Pending
  <1>4. PICK home \in [Seeded -> Boards \X Kinds], carried \in [Seeded -> SUBSET Attachments] :
          file = [b \in Boards |-> [k \in Kinds |->
                    [EmptyImage EXCEPT !.cards = [c \in Cards |->
                       IF c \in Seeded /\ home[c] = <<b, k>>
                       THEN [rev |-> 1, atts |-> carried[c]] ELSE NoCard]]]]
    BY DEF Init
  <1>5. \A b \in Boards, k \in Kinds :
          /\ Effective[b][k].focus = None
          /\ \A c \in Cards : Effective[b][k].cards[c].rev =
                                IF c \in Seeded /\ home[c] = <<b, k>> THEN 1 ELSE 0
    <2> SUFFICES ASSUME NEW b \in Boards, NEW k \in Kinds
                 PROVE  /\ Effective[b][k].focus = None
                        /\ \A c \in Cards : Effective[b][k].cards[c].rev =
                                              IF c \in Seeded /\ home[c] = <<b, k>> THEN 1 ELSE 0
      OBVIOUS
    <2> DEFINE cards == [c \in Cards |-> IF c \in Seeded /\ home[c] = <<b, k>>
                                       THEN [rev |-> 1, atts |-> carried[c]] ELSE NoCard]
    <2>1. file[b][k] = [EmptyImage EXCEPT !.cards = cards]
      BY <1>4
    <2>2. Effective[b] = file[b]
      BY <1>3
    <2>4. \A c \in Cards : cards[c].rev = IF c \in Seeded /\ home[c] = <<b, k>> THEN 1 ELSE 0
      BY DEF NoCard
    <2> HIDE DEF cards
    <2>3. Effective[b][k].focus = None /\ Effective[b][k].cards = cards
      BY <2>1, <2>2 DEF EmptyImage
    <2>5. QED
      BY <2>3, <2>4
  <1>6. \A b \in Boards, k \in Kinds, c \in Cards :
          Has(Effective[b][k], c) <=> c \in Seeded /\ home[c] = <<b, k>>
    BY <1>5 DEF Has
  <1>7. Abstract!Sound
    <2>1. Effective \in [Boards -> Content]
      <3>1. \A b \in Boards : Effective[b] \in Content
        BY <1>1, <1>3 DEF Typed, TypeOK
      <3>2. Effective = [b \in Boards |-> Effective[b]]
        BY DEF Effective
      <3>3. QED
        BY <3>1, <3>2
    <2>2. Abstract!Content = Content
      BY DEF Abstract!Content, Abstract!Image, Abstract!Card, Abstract!Kinds,
             Content, Image, Card, Kinds
    <2>3. Abstract!OneList
      <3>1. \A b, e \in Boards : \A k, l \in Kinds : \A c \in Cards :
              Has(Effective[b][k], c) /\ Has(Effective[e][l], c) => b = e /\ k = l
        BY <1>6
      <3>2. QED
        BY <3>1 DEF Abstract!OneList, Abstract!Has, Abstract!Kinds, Has, Kinds
    <2>4. \A b \in Boards : Abstract!FocusOf(Effective[b])
      BY <1>5 DEF Abstract!FocusOf, Kinds
    <2>5. QED
      BY <2>1, <2>2, <2>3, <2>4 DEF Abstract!Sound, Abstract!TypeOK
  <1>8. Owned /\ Told
    BY <1>2 DEF Owned, OwnAt, RenderedAt, RenderStages, JournalledAt, MovingAt, DoneAt,
                Told, ToldAt, ArchiveStages, MoveStages
  <1>9. Fresh
    BY <1>2, <1>6 DEF Fresh, Somewhere, Creating, Creates, RenderStages
  <1>10. NoLostUpdate
    <2> SUFFICES ASSUME NEW c \in Cards, acked[c] > 0
                 PROVE  \E b \in Boards, k \in Kinds : Effective[b][k].cards[c].rev >= acked[c]
      BY DEF NoLostUpdate
    <2>1. c \in Seeded /\ acked[c] = 1
      BY <1>2
    <2>2. PICK b \in Boards, k \in Kinds : home[c] = <<b, k>>
      BY <2>1
    <2>3. Effective[b][k].cards[c].rev = 1
      BY <1>5, <2>1, <2>2
    <2>4. QED
      BY <2>1, <2>3
  <1>11. QED
    BY <1>1, <1>7, <1>8, <1>9, <1>10 DEF Inv, Kept

LEMMA PromisedState == Abstract!Sound => Promise!Consistent
  <1> SUFFICES ASSUME Abstract!Sound PROVE Promise!Consistent
    OBVIOUS
  <1>1. Abstract!Consistent
    BY NoneAssumption, Abstract!SoundIsConsistent
  <1>2. Promise!TypeOK <=> Abstract!TypeOK
    BY DEF Promise!TypeOK, Abstract!TypeOK, Promise!Content, Abstract!Content, Promise!Image,
           Abstract!Image, Promise!Card, Abstract!Card, Promise!Kinds, Abstract!Kinds
  <1>3. Promise!OneHome <=> Abstract!OneHome
    BY DEF Promise!OneHome, Abstract!OneHome, Promise!HomesOf, Abstract!HomesOf,
           Promise!Has, Abstract!Has, Promise!Kinds, Abstract!Kinds
  <1>4. Promise!FocusIsActive <=> Abstract!FocusIsActive
    BY DEF Promise!FocusIsActive, Abstract!FocusIsActive, Promise!Has, Abstract!Has
  <1>5. QED
    BY <1>1, <1>2, <1>3, <1>4 DEF Promise!Consistent, Abstract!Consistent

LEMMA InvIsInvariant == Spec => []Inv
  <1>1. Inv /\ [Next]_vars => Inv'
    BY NextKept
  <1>2. QED
    BY <1>1, InitInv, PTL DEF Spec

\* Whatever fails and whoever dies between two file-system calls, the boards as
\* the next process to lock them will find them (journals replayed) change by
\* one whole operation of the abstract store at a time: the journaled commits of
\* store.go, commitArchiveBoard and commitBoardMove, with their recoveries.
THEOREM StoreImplements == Spec => Implements
  <1>1. Init => Promise!Init
    BY InitInv, PromisedState DEF Inv, Promise!Init
  <1>2. Inv /\ [Next]_vars => Inv' /\ [Promise!Next]_Effective
    BY NextKept DEF OneOperation
  <1>3. QED
    BY <1>1, <1>2, InitInv, PTL DEF Spec, Implements, Promise!Spec

\* No card is ever on two lists, whatever journals are still to be replayed:
\* neither a completion, a restore nor a cross-board move cut short anywhere
\* leaves a copy behind.
THEOREM StoreOneHome == Spec => []OneHome
  <1>1. Inv => OneHome
    BY PromisedState DEF Inv, OneHome, Promise!Consistent
  <1>2. QED
    BY <1>1, InvIsInvariant, PTL

\* The focus of a board is one of its active cards, through completions,
\* deletions, moves and settings, and an archived board has none.
THEOREM StoreFocusIsActive == Spec => []FocusIsActive
  <1>1. Inv => FocusIsActive
    BY PromisedState DEF Inv, FocusIsActive, Promise!Consistent
  <1>2. QED
    BY <1>1, InvIsInvariant, PTL

\* A card a caller was told of stays, with at least the changes it was told of,
\* until some caller asks to delete it: no crash, error, rollback or concurrent
\* operation loses an acknowledged change.
THEOREM StoreNoLostUpdate == Spec => []NoLostUpdate
  <1>1. Inv => NoLostUpdate
    BY DEF Inv, Kept
  <1>2. QED
    BY <1>1, InvIsInvariant, PTL

\* When an operation returns without error, the boards hold what it rendered:
\* the error of no call that decides this is dropped.
THEOREM StoreSuccessIsInstalled == Spec => []SuccessIsInstalled
  <1>1. Inv => SuccessIsInstalled
    <2> SUFFICES ASSUME Inv, NEW p \in Procs, pc[p] = "ok"
                 PROVE  IF job[p].move = None
                        THEN Effective[job[p].board] = job[p].after
                        ELSE /\ Effective[job[p].move.source][job[p].move.kind]
                                  = job[p].move.sourceAfter
                             /\ Effective[job[p].move.destination][job[p].move.kind]
                                  = job[p].move.destinationAfter
      BY DEF SuccessIsInstalled
    <2>1. DoneAt("ok", job[p], p)
      BY AtOwn
    <2>2. QED
      BY <2>1 DEF DoneAt
  <1>2. QED
    BY <1>1, InvIsInvariant, PTL

\* An archived board takes in no card by creation, restore or move, even when
\* the operation is finished by the recovery of another process.
THEOREM StoreTakesNoCard == Spec => ArchivedTakesNoCard
  <1> DEFINE TakesNone ==
        \A b \in Boards :
          Effective[b]["active"].archived /\ Effective'[b]["active"].archived =>
            /\ \A c \in Cards :
                 Promise!Has(Effective'[b]["active"], c) => Promise!Has(Effective[b]["active"], c)
            /\ \A c \in Cards :
                 Promise!Has(Effective'[b]["archive"], c) =>
                   \E k \in Promise!Kinds : Promise!Has(Effective[b][k], c)
  <1>1. Abstract!NoneTaken => TakesNone
    BY DEF Abstract!NoneTaken, Abstract!TakesNone, Abstract!CardsOn, Abstract!Has, Promise!Has,
           Promise!Kinds
  <1>2. Inv /\ [Next]_vars => [TakesNone]_Effective
    BY <1>1, NextKept
  <1> HIDE DEF TakesNone
  <1>3. Spec => [][TakesNone]_Effective
    BY <1>2, InvIsInvariant, PTL DEF Spec
  <1>4. QED
    BY <1>3 DEF TakesNone, ArchivedTakesNoCard, Promise!ArchivedTakesNoCard

-----------------------------------------------------------------------------
(* Attachment directories under a pending move.                            *)

\* The directory of the card is on exactly one board of the pair.
OneDirectory(pr) ==
  LET m == moveWal[pr]
  IN  m.atts => (dir[m.source][m.card] = None) # (dir[m.destination][m.card] = None)

\* Before the journal of a move is written the directory is on the source only;
\* and what is put back or destroyed after a commit is on a board held, which no
\* move claims.
PlacedAt(stage, j, p) ==
  /\ stage = "moveJournal" /\ j.move.atts =>
       /\ dir[j.move.source][j.move.card] # None
       /\ dir[j.move.destination][j.move.card] = None
  /\ stage \in {"undo", "purge"} => j.board \in held[p] /\ \A pr \in Pending : j.board \notin pr

Placed ==
  /\ \A pr \in Pending : OneDirectory(pr)
  /\ \A p \in Procs : \A stage, j : stage = pc[p] /\ j = job[p] => PlacedAt(stage, j, p)

\* A step of p leaves alone what p does not hold.
TreeLocal(p) ==
  /\ \A q \in Procs \ {p} : held'[q] = held[q]
  /\ \A b \in Boards \ held[p] : dir'[b] = dir[b]
  /\ \A pr \in Pairs : ~(pr \subseteq held[p]) => moveWal'[pr] = moveWal[pr]

\* p goes on; the other processes know what they knew.
LEMMA PlacedStep ==
  ASSUME Typed, Disciplined, Placed, NEW p \in Procs, NEW stage, NEW j,
         Goto(p, stage), job' = [job EXCEPT ![p] = j], TreeLocal(p), PlacedAt(stage, j, p)',
         \A pr \in Pairs : pr \subseteq held[p] /\ pr \in Pending' => OneDirectory(pr)'
  PROVE  Placed'
  <1>1. pc \in [Procs -> Stages] /\ job \in [Procs -> Job \cup {None}]
    BY DEF Typed, TypeOK
  <1>2. /\ pc'[p] = stage /\ job'[p] = j
        /\ \A q \in Procs \ {p} : pc'[q] = pc[q] /\ job'[q] = job[q]
    BY <1>1 DEF Goto
  <1>3. ASSUME NEW pr \in Pairs, pr \in Pending', ~(pr \subseteq held[p])
        PROVE  pr \in Pending /\ pr \cap held[p] = {} /\ moveWal'[pr] = moveWal[pr]
    <2>1. moveWal'[pr] = moveWal[pr]
      BY <1>3 DEF TreeLocal
    <2>2. pr \in Pending
      BY <1>3, <2>1 DEF Pending
    <2>3. pr \cap held[p] = {}
      BY <1>3, <2>2 DEF Disciplined, LockDiscipline, HeldClosed, Closed
    <2>4. QED
      BY <2>1, <2>2, <2>3
  <1>4. ASSUME NEW pr \in Pending' PROVE OneDirectory(pr)'
    <2>1. pr \in Pairs
      BY DEF Pending
    <2>2. CASE ~(pr \subseteq held[p])
      <3>1. PICK m : m = moveWal[pr]
        OBVIOUS
      <3>2. pr \in Pending /\ pr \cap held[p] = {} /\ moveWal'[pr] = m
        BY <1>3, <2>1, <2>2, <3>1
      <3>3. m \in MoveJournal /\ PairOf(m) = pr
        BY <3>1, <3>2 DEF Pending, Typed, TypeOK, Disciplined, LockDiscipline, Named
      <3>4. /\ m.source \in Boards \ held[p] /\ m.destination \in Boards \ held[p]
        BY <3>2, <3>3 DEF MoveJournal, PairOf
      <3>5. dir'[m.source] = dir[m.source] /\ dir'[m.destination] = dir[m.destination]
        BY <3>4 DEF TreeLocal
      <3>6. OneDirectory(pr)
        BY <3>2 DEF Placed
      <3>7. QED
        BY <3>1, <3>2, <3>5, <3>6 DEF OneDirectory
    <2>3. QED
      BY <2>1, <2>2
  <1>5. ASSUME NEW q \in Procs \ {p}, NEW s, NEW k, s = pc[q], k = job[q] PROVE PlacedAt(s, k, q)'
    <2>1. PlacedAt(s, k, q) /\ PostedAt(s, k, q)
      BY <1>5, AtPosted DEF Placed
    <2>2. held'[q] = held[q] /\ held[p] \cap held[q] = {}
      BY DEF TreeLocal, Disciplined, LockDiscipline, Exclusive
    <2>3. ASSUME s = "moveJournal", k.move.atts
          PROVE  /\ dir'[k.move.source][k.move.card] # None
                 /\ dir'[k.move.destination][k.move.card] = None
      <3>1. PairOf(k.move) \subseteq held[q]
        BY <2>1, <2>3 DEF PostedAt
      <3>2. k.move.source \in Boards /\ k.move.destination \in Boards
        BY <1>5, <2>3, AtMoveCall
      <3>3. k.move.source \in Boards \ held[p] /\ k.move.destination \in Boards \ held[p]
        BY <2>2, <3>1, <3>2 DEF PairOf
      <3>4. QED
        BY <2>1, <2>3, <3>3 DEF TreeLocal, PlacedAt
    <2>4. ASSUME s \in {"undo", "purge"}
          PROVE  k.board \in held'[q] /\ \A pr \in Pending' : k.board \notin pr
      <3>1. k.board \in held[q] /\ \A pr \in Pending : k.board \notin pr
        BY <2>1, <2>4 DEF PlacedAt
      <3>2. ASSUME NEW pr \in Pending' PROVE k.board \notin pr
        <4>1. pr \in Pairs
          BY DEF Pending
        <4>2. QED
          BY <1>3, <2>2, <3>1, <4>1
      <3>3. QED
        BY <2>2, <3>1, <3>2
    <2>5. QED
      BY <2>3, <2>4 DEF PlacedAt
  <1>6. ASSUME NEW q \in Procs, NEW s, NEW k, s = pc'[q], k = job'[q] PROVE PlacedAt(s, k, q)'
    <2>1. CASE q = p
      BY <1>2, <1>6, <2>1
    <2>2. CASE q # p
      BY <1>2, <1>5, <1>6, <2>2
    <2>3. QED
      BY <2>1, <2>2
  <1>7. QED
    BY <1>4, <1>6 DEF Placed

\* A step of p that leaves the directories and the move journals alone.
LEMMA PlacedAside ==
  ASSUME Typed, Disciplined, Placed, NEW p \in Procs, NEW stage, NEW j,
         Goto(p, stage), job' = [job EXCEPT ![p] = j], UNCHANGED <<dir, moveWal>>,
         \A q \in Procs \ {p} : held'[q] = held[q], PlacedAt(stage, j, p)'
  PROVE  TreeLocal(p) /\ Placed'
  <1>1. TreeLocal(p)
    BY DEF TreeLocal
  <1>2. \A pr \in Pending' : OneDirectory(pr)'
    BY DEF Placed, Pending, OneDirectory
  <1>3. QED
    BY <1>1, <1>2, PlacedStep

LEMMA PlacedElsewhere ==
  ASSUME NEW stage, stage \notin {"moveJournal", "undo", "purge"}, NEW j, NEW p
  PROVE  PlacedAt(stage, j, p)'
  BY DEF PlacedAt

LEMMA PlacedPlain ==
  ASSUME Typed, Disciplined, Placed, NEW p \in Procs, NEW stage,
         stage \notin {"moveJournal", "undo", "purge"}, NEW j,
         Goto(p, stage), job' = [job EXCEPT ![p] = j], UNCHANGED <<dir, moveWal>>,
         \A q \in Procs \ {p} : held'[q] = held[q]
  PROVE  TreeLocal(p) /\ Placed'
  BY PlacedElsewhere, PlacedAside

LEMMA EnterForgetPlaced ==
  ASSUME Typed, Disciplined, Placed, NEW p \in Procs,
         \/ \E names \in Requests : Enter(p, names)
         \/ Leave(p) \/ Crash(p) \/ Return(p)
  PROVE  TreeLocal(p) /\ Placed'
  <1>1. held \in [Procs -> SUBSET Boards]
    BY DEF Typed, TypeOK
  <1>2. ASSUME NEW names, Enter(p, names) PROVE TreeLocal(p) /\ Placed'
    <2>1. PICK j : j = job[p]
      OBVIOUS
    <2>2. /\ Goto(p, "recover") /\ UNCHANGED <<dir, moveWal>> /\ job' = job
          /\ \A q \in Procs \ {p} : held'[q] = held[q]
      BY <1>1, <1>2 DEF Enter, disk
    <2>3. job' = [job EXCEPT ![p] = j]
      BY <2>1, <2>2, SameJob
    <2>4. QED
      BY <2>2, <2>3, PlacedPlain
  <1>3. ASSUME Leave(p) \/ Crash(p) \/ Return(p) PROVE TreeLocal(p) /\ Placed'
    <2>1. /\ Goto(p, "idle") /\ UNCHANGED <<dir, moveWal>> /\ job' = [job EXCEPT ![p] = None]
          /\ \A q \in Procs \ {p} : held'[q] = held[q]
      BY <1>1, <1>3 DEF Leave, Crash, Return, Forget, disk
    <2>2. QED
      BY <2>1, PlacedPlain
  <1>4. QED
    BY <1>2, <1>3

LEMMA RecoverPlaced ==
  ASSUME Typed, Disciplined, Placed, NEW p \in Procs,
         \/ \E b \in Boards : RecoverArchive(p, b)
         \/ \E pr \in Pairs : RecoverMove(p, pr)
  PROVE  TreeLocal(p) /\ Placed'
  <1>1. PICK stage, j : /\ stage \in {"applyDone", "place", "writeDestination"}
                        /\ Goto(p, stage) /\ job' = [job EXCEPT ![p] = j]
    BY FirstMoveStageIs DEF RecoverArchive, RecoverMove
  <1>2. UNCHANGED <<dir, moveWal, held>>
    BY DEF RecoverArchive, RecoverMove, disk, locks
  <1>3. QED
    BY <1>1, <1>2, PlacedPlain

\* The operations, but for the move, begin with nothing to say of directories.
LEMMA BeginPlaced ==
  ASSUME Typed, Disciplined, Placed, NEW p \in Procs, NEW b, NEW c, NEW a, NEW undo, NEW after,
         NEW move, NEW rev, NEW stage \in RenderStages,
         Begin(p, b, c, a, undo, after, move, rev, stage)
  PROVE  TreeLocal(p) /\ Placed'
  <1>1. PICK j : job' = [job EXCEPT ![p] = j]
    BY DEF Begin
  <1>2. Goto(p, stage) /\ UNCHANGED <<dir, moveWal, held>>
    BY DEF Begin, disk, locks
  <1>3. stage \notin {"moveJournal", "undo", "purge"}
    BY DEF RenderStages
  <1>4. QED
    BY <1>1, <1>2, <1>3, PlacedPlain

LEMMA MoveCardPlaced ==
  ASSUME Typed, Disciplined, Placed, NEW p \in Procs, NEW s \in Boards, NEW d \in Boards,
         NEW c \in Cards, NEW k \in Kinds, MoveCardToBoard(p, s, d, c, k)
  PROVE  TreeLocal(p) /\ Placed'
  <1>1. PICK m : m = [state |-> "commit", kind |-> k, source |-> s, destination |-> d,
                      card |-> c, atts |-> file[s][k].cards[c].atts # {},
                      sourceBefore |-> file[s][k],
                      sourceAfter |-> MovedOut(file[s], c, k),
                      destinationBefore |-> file[d][k],
                      destinationAfter |-> MovedIn(file[d], c, k, file[s][k].cards[c])]
    OBVIOUS
  <1>2. PICK rev : rev = file[s][k].cards[c].rev + 1
    OBVIOUS
  <1>3. /\ Begin(p, s, c, None, "nothing", EmptyContent, m, rev, "moveJournal")
        /\ m.atts => AttachmentsCanMove(s, d, c)
    BY <1>1, <1>2 DEF MoveCardToBoard
  <1>4. PICK j : j = [mode |-> "live", board |-> s, card |-> c, att |-> None,
                      undo |-> "nothing", after |-> EmptyContent, move |-> m, rev |-> rev]
    OBVIOUS
  <1>5. /\ Goto(p, "moveJournal") /\ job' = [job EXCEPT ![p] = j]
        /\ UNCHANGED <<dir, moveWal, held>>
    BY <1>3, <1>4 DEF Begin, disk, locks
  <1>6. /\ j.move = m /\ m.source = s /\ m.destination = d /\ m.card = c
    BY <1>1, <1>4
  <1>7. PlacedAt("moveJournal", j, p)'
    BY <1>3, <1>5, <1>6 DEF PlacedAt, AttachmentsCanMove
  <1>8. QED
    BY <1>5, <1>7, PlacedAside

LEMMA OperationPlaced ==
  ASSUME Typed, Disciplined, Placed, NEW p \in Procs, Operation(p)
  PROVE  TreeLocal(p) /\ Placed'
  <1>1. ASSUME NEW b \in Boards, NEW c \in Cards,
               \/ CreateCard(p, b, c) \/ EditCard(p, b, c)
               \/ CompleteCard(p, b, c) \/ RestoreCard(p, b, c)
        PROVE  TreeLocal(p) /\ Placed'
    <2>1. "write" \in RenderStages /\ "journal" \in RenderStages
      BY DEF RenderStages
    <2>2. QED
      BY <1>1, <2>1, BeginPlaced DEF CreateCard, EditCard, CompleteCard, RestoreCard
  <1>2. ASSUME NEW b \in Boards, NEW c \in Cards, DeleteCard(p, b, c) \/ DeleteArchivedCard(p, b, c)
        PROVE  TreeLocal(p) /\ Placed'
    <2>1. ASSUME NEW x, NEW commit \in {"write", "journal"}, NEW after, NEW q,
                 q = Quarantined(b, c, x, commit),
                 Begin(p, b, c, None, q.undo, after, None, 0, q.stage)
          PROVE  TreeLocal(p) /\ Placed'
      <3>1. q.stage \in RenderStages
        BY <2>1 DEF Quarantined, RenderStages
      <3>2. QED
        BY <2>1, <3>1, BeginPlaced
    <2>2. CASE DeleteCard(p, b, c)
      BY <2>1, <2>2 DEF DeleteCard
    <2>3. CASE DeleteArchivedCard(p, b, c)
      BY <2>1, <2>3 DEF DeleteArchivedCard
    <2>4. QED
      BY <1>2, <2>2, <2>3
  <1>3. ASSUME NEW b \in Boards, NEW c \in Cards, NEW a \in Attachments,
               AddAttachment(p, b, c, a) \/ DeleteAttachment(p, b, c, a)
        PROVE  TreeLocal(p) /\ Placed'
    <2>1. "upload" \in RenderStages /\ "quarantine" \in RenderStages
      BY DEF RenderStages
    <2>2. QED
      BY <1>3, <2>1, BeginPlaced DEF AddAttachment, DeleteAttachment
  <1>4. ASSUME NEW b \in Boards, NEW focus, NEW archived, PatchBoardSettings(p, b, focus, archived)
        PROVE  TreeLocal(p) /\ Placed'
    <2>1. "journal" \in RenderStages
      BY DEF RenderStages
    <2>2. QED
      BY <1>4, <2>1, BeginPlaced DEF PatchBoardSettings
  <1>5. QED
    BY <1>1, <1>2, <1>3, <1>4, MoveCardPlaced DEF Operation

\* The board an operation on one board works on: p holds it, and no move claims it.
LEMMA OwnBoard ==
  ASSUME Inv, Placed, NEW p \in Procs, NEW j, j = job[p],
         pc[p] \in RenderStages \cup ArchiveStages \cup {"undo", "purge"}
  PROVE  /\ j.board \in Boards /\ j.board \in held[p]
         /\ \A pr \in Pending : j.board \notin pr
  <1>1. Typed /\ Disciplined
    BY DEF Inv
  <1>2. j.board \in Boards /\ j.after \in Content /\ PostedAt(pc[p], j, p)
    BY <1>1, AtCall, AtPosted DEF RenderStages, ArchiveStages
  <1>3. CASE pc[p] \in RenderStages
    BY <1>2, <1>3 DEF PostedAt, RenderStages, QuietStages, Clear
  <1>4. CASE pc[p] \in ArchiveStages
    <2>1. wal[j.board] # None
      BY <1>2, <1>4, AtOwn, NoneIsNoRecord DEF JournalledAt
    <2>2. QED
      BY <1>1, <1>2, <1>4, <2>1 DEF PostedAt, Disciplined, JournalExclusion
  <1>5. CASE pc[p] \in {"undo", "purge"}
    BY <1>2, <1>5 DEF Placed, PlacedAt
  <1>6. QED
    BY <1>3, <1>4, <1>5

LEMMA CommitPlaced ==
  ASSUME Inv, Placed, NEW p \in Procs, NEW o \in Outcomes,
         \/ WriteActive(p, o) \/ CommitArchive(p, o)
         \/ ApplyDone(p, o) \/ ApplyBoard(p, o) \/ RemoveArchive(p, o)
  PROVE  TreeLocal(p) /\ Placed'
  <1>1. PICK j : j = job[p]
    OBVIOUS
  <1>2. Typed /\ Disciplined
    BY DEF Inv
  <1>3. /\ pc[p] \in RenderStages \cup ArchiveStages
        /\ UNCHANGED <<dir, moveWal, held, job>>
    BY DEF WriteActive, CommitArchive, ApplyDone, ApplyBoard, RemoveArchive, WalOnly, locks,
           RenderStages, ArchiveStages
  <1>4. PICK stage : Goto(p, stage) /\ stage # "moveJournal"
    <2>1. Succeeded(j) \in {"recover", "purge", "ok"} /\ Failed(j) \in {"undo", "error"}
      BY DEF Succeeded, Failed
    <2>2. QED
      BY <1>1, <2>1 DEF WriteActive, CommitArchive, ApplyDone, ApplyBoard, RemoveArchive
  <1>5. j.board \in held[p] /\ \A pr \in Pending : j.board \notin pr
    BY <1>1, <1>3, OwnBoard
  <1>6. Pending' = Pending
    BY <1>3 DEF Pending
  <1>7. PlacedAt(stage, j, p)'
    BY <1>3, <1>4, <1>5, <1>6 DEF PlacedAt
  <1>8. job' = [job EXCEPT ![p] = j]
    BY <1>1, <1>2, <1>3, SameJob
  <1>9. QED
    BY <1>2, <1>3, <1>4, <1>7, <1>8, PlacedAside

LEMMA AttachmentCallPlaced ==
  ASSUME Inv, Placed, NEW p \in Procs, NEW o \in Outcomes,
         \/ Upload(p) \/ UploadRefused(p)
         \/ QuarantineFile(p, o) \/ QuarantineDirectory(p, o) \/ Undo(p, o) \/ Purge(p, o)
  PROVE  TreeLocal(p) /\ Placed'
  <1>1. PICK j : j = job[p]
    OBVIOUS
  <1>2. Typed /\ Disciplined
    BY DEF Inv
  <1>3. /\ pc[p] \in {"upload", "quarantine", "undo", "purge"}
        /\ UNCHANGED <<moveWal, held, job>>
    BY DEF Upload, UploadRefused, QuarantineFile, QuarantineDirectory, Undo, Purge, IoOnly, locks
  <1>4. PICK stage \in {"write", "journal", "error", "ok"} : Goto(p, stage)
    BY DEF Upload, UploadRefused, QuarantineFile, QuarantineDirectory, Undo, Purge
  <1>5. j.board \in Boards /\ j.board \in held[p] /\ \A pr \in Pending : j.board \notin pr
    BY <1>1, <1>3, OwnBoard DEF RenderStages
  <1>6. \A b \in Boards : b # j.board => dir'[b] = dir[b]
    <2>1. dir \in [Boards -> [Cards -> Directory \cup {None}]]
      BY <1>2 DEF Typed, TypeOK
    <2>2. PICK d : dir' = dir \/ SetDir(j.board, j.card, d)
      BY <1>1 DEF Upload, UploadRefused, QuarantineFile, QuarantineDirectory, Undo, Purge
    <2>3. QED
      BY <2>1, <2>2 DEF SetDir
  <1>7. TreeLocal(p)
    BY <1>3, <1>5, <1>6 DEF TreeLocal
  <1>8. PlacedAt(stage, j, p)'
    BY <1>4 DEF PlacedAt
  <1>9. job' = [job EXCEPT ![p] = j]
    BY <1>1, <1>2, <1>3, SameJob
  <1>10. ASSUME NEW pr \in Pairs, pr \in Pending' PROVE OneDirectory(pr)'
    <2>1. PICK m : m = moveWal[pr]
      OBVIOUS
    <2>2. pr \in Pending /\ moveWal'[pr] = m
      BY <1>3, <1>10, <2>1 DEF Pending
    <2>3. m \in MoveJournal /\ PairOf(m) = pr
      BY <1>2, <2>1, <2>2 DEF Pending, Typed, TypeOK, Disciplined, LockDiscipline, Named
    <2>4. /\ m.source \in Boards /\ m.destination \in Boards
          /\ m.source # j.board /\ m.destination # j.board
      BY <1>5, <2>2, <2>3 DEF MoveJournal, PairOf
    <2>5. dir'[m.source] = dir[m.source] /\ dir'[m.destination] = dir[m.destination]
      BY <1>6, <2>4
    <2>6. OneDirectory(pr)
      BY <2>2 DEF Placed
    <2>7. QED
      BY <2>1, <2>2, <2>5, <2>6 DEF OneDirectory
  <1>11. QED
    BY <1>2, <1>4, <1>7, <1>8, <1>9, <1>10, PlacedStep

\* Where a call of a move leads.
LEMMA MoveCallGoes ==
  ASSUME Typed, NEW p \in Procs, NEW o \in Outcomes,
         \/ WriteMoveJournal(p, o) \/ PlaceAttachments(p, o) \/ WriteDestination(p, o)
         \/ WriteSource(p, o) \/ DecideRollback(p, o) \/ RemoveMove(p, o)
  PROVE  \E stage, k :
           /\ stage \in {"recover", "ok", "error", "rollback"} \cup MoveStages
           /\ Goto(p, stage) /\ job' = [job EXCEPT ![p] = k]
  <1>1. PICK j, m : j = job[p] /\ m = j.move
    OBVIOUS
  <1>2. MoveFailed(j) \in {"rollback", "error"} /\ \A x : FirstMoveStage(x) \in MoveStages
    BY FirstMoveStageIs DEF MoveFailed, MoveStages
  <1>3. CASE DecideRollback(p, o)
    <2>1. /\ job' = [job EXCEPT ![p].mode = "rollback", ![p].move = [m EXCEPT !.state = "rollback"]]
          /\ \E x : Goto(p, IF o = "ok" THEN FirstMoveStage(x) ELSE "error")
      BY <1>1, <1>3 DEF DecideRollback
    <2>2. job' = [job EXCEPT ![p] =
                    [job[p] EXCEPT !.mode = "rollback", !.move = [m EXCEPT !.state = "rollback"]]]
      BY <2>1 DEF Typed, TypeOK
    <2>3. QED
      BY <1>2, <2>1, <2>2
  <1>4. CASE ~DecideRollback(p, o)
    <2>1. job' = [job EXCEPT ![p] = j]
      BY <1>1, <1>4, SameJob DEF WriteMoveJournal, PlaceAttachments, WriteDestination,
         WriteSource, RemoveMove
    <2>2. \E s \in {"recover", "ok", "error", "rollback"} \cup MoveStages : Goto(p, s)
      <3>1. CASE WriteMoveJournal(p, o)
        BY <1>1, <1>2, <3>1 DEF WriteMoveJournal
      <3>2. CASE PlaceAttachments(p, o) \/ WriteDestination(p, o) \/ WriteSource(p, o)
        BY <1>1, <1>2, <3>2 DEF PlaceAttachments, WriteDestination, WriteSource, MoveStages
      <3>3. CASE RemoveMove(p, o)
        <4>1. j.mode \in {"recovery", "live", "rollback"}
          BY <1>1, <3>3, AtCall DEF RemoveMove, Job
        <4>2. QED
          BY <1>1, <3>3, <4>1 DEF RemoveMove
      <3>4. QED
        BY <1>4, <3>1, <3>2, <3>3
    <2>3. QED
      BY <2>1, <2>2
  <1>5. QED
    BY <1>3, <1>4

\* A call of a move: what it leaves of its own pair.
LEMMA MoveCallPlaced ==
  ASSUME Inv, Placed, NEW p \in Procs, NEW o \in Outcomes,
         \/ WriteMoveJournal(p, o) \/ PlaceAttachments(p, o) \/ WriteDestination(p, o)
         \/ WriteSource(p, o) \/ DecideRollback(p, o) \/ RemoveMove(p, o)
  PROVE  TreeLocal(p) /\ Placed'
  <1>1. PICK j, m, pr : j = job[p] /\ m = j.move /\ pr = PairOf(m)
    OBVIOUS
  <1>2. Typed /\ Disciplined /\ pc[p] \in {"moveJournal", "rollback"} \cup MoveStages
    BY DEF Inv, WriteMoveJournal, PlaceAttachments, WriteDestination, WriteSource, DecideRollback,
           RemoveMove, MoveStages
  <1>3. /\ m \in MoveJournal /\ pr \in Pairs /\ pr \subseteq held[p]
        /\ pr = {m.source, m.destination} /\ m.source # m.destination
        /\ m.source \in Boards /\ m.destination \in Boards /\ m.card \in Cards
        /\ pc[p] # "moveJournal" => moveWal[pr] = m /\ pr \in Pending
    BY <1>1, <1>2, AtMove
  <1>4. PICK stage, k :
          /\ stage \in {"recover", "ok", "error", "rollback"} \cup MoveStages
          /\ Goto(p, stage) /\ job' = [job EXCEPT ![p] = k]
    BY <1>2, MoveCallGoes
  <1>5. PlacedAt(stage, k, p)'
    BY <1>4 DEF PlacedAt, MoveStages
  <1>6. held' = held /\ \A qr \in Pairs \ {pr} : moveWal'[qr] = moveWal[qr]
    <2>1. moveWal \in [Pairs -> MoveJournal \cup {None}]
      BY <1>2 DEF Typed, TypeOK
    <2>2. PairOf([m EXCEPT !.state = "rollback"]) = pr
      BY <1>1, <1>3 DEF PairOf, MoveJournal
    <2>3. QED
      BY <1>1, <1>3, <2>1, <2>2 DEF WriteMoveJournal, PlaceAttachments, WriteDestination, WriteSource,
         DecideRollback, RemoveMove, MoveOnly, locks
  <1>7. /\ \A b \in Boards \ pr : dir'[b] = dir[b]
        /\ pr \in Pending' => OneDirectory(pr)'
    <2>1. ASSUME dir' = dir, moveWal'[pr] = m
          PROVE  pr \in Pending' => OneDirectory(pr)'
      <3>1. CASE pc[p] = "moveJournal"
        <4>1. PlacedAt("moveJournal", j, p)
          BY <1>1, <3>1 DEF Placed
        <4>2. QED
          BY <1>1, <2>1, <4>1 DEF PlacedAt, OneDirectory
      <3>2. CASE pc[p] # "moveJournal"
        BY <1>3, <2>1, <3>2 DEF Placed, OneDirectory
      <3>3. QED
        BY <3>1, <3>2
    <2>2. moveWal \in [Pairs -> MoveJournal \cup {None}]
      BY <1>2 DEF Typed, TypeOK
    <2>3. CASE WriteMoveJournal(p, o)
      <3>1. dir' = dir /\ (moveWal'[pr] = m \/ (moveWal' = moveWal /\ moveWal[pr] = None))
        BY <1>1, <1>3, <2>2, <2>3 DEF WriteMoveJournal, MoveOnly
      <3>2. QED
        BY <2>1, <3>1 DEF Pending
    <2>4. CASE WriteDestination(p, o) \/ WriteSource(p, o)
      <3>1. dir' = dir /\ moveWal' = moveWal /\ pc[p] # "moveJournal"
        BY <2>4 DEF WriteDestination, WriteSource
      <3>2. QED
        BY <1>3, <2>1, <3>1
    <2>5. CASE RemoveMove(p, o)
      <3>1. dir' = dir /\ (moveWal'[pr] = None \/ moveWal' = moveWal) /\ pc[p] # "moveJournal"
        BY <1>1, <1>3, <2>2, <2>5 DEF RemoveMove
      <3>2. QED
        BY <1>3, <2>1, <3>1 DEF Pending
    <2>6. CASE DecideRollback(p, o)
      <3>1. PICK back : back = [m EXCEPT !.state = "rollback"]
        OBVIOUS
      <3>2. /\ back.source = m.source /\ back.destination = m.destination
            /\ back.card = m.card /\ back.atts = m.atts /\ PairOf(back) = pr
        BY <1>1, <1>3, <3>1 DEF PairOf, MoveJournal
      <3>3. dir' = dir /\ moveWal'[pr] \in {m, back} /\ pc[p] # "moveJournal"
        BY <1>1, <1>3, <2>2, <2>6, <3>1, <3>2 DEF DecideRollback
      <3>4. OneDirectory(pr)
        BY <1>3, <3>3 DEF Placed
      <3>5. QED
        BY <1>3, <3>2, <3>3, <3>4 DEF OneDirectory
    <2>7. CASE PlaceAttachments(p, o)
      <3>1. PICK s, d : s = m.source /\ d = m.destination
        OBVIOUS
      <3>2. PICK from, to : /\ from = IF m.state = "commit" THEN s ELSE d
                            /\ to = IF m.state = "commit" THEN d ELSE s
        OBVIOUS
      <3>3. PICK c \in Cards : c = m.card
        BY <1>3
      <3>4. /\ moveWal' = moveWal /\ pc[p] # "moveJournal"
            /\ \/ dir' = dir
               \/ /\ (dir[from][c] = None) # (dir[to][c] = None) /\ dir[from][c] # None
                  /\ dir' = [dir EXCEPT ![from][c] = None, ![to][c] = dir[from][c]]
        BY <1>1, <2>7, <3>1, <3>2, <3>3 DEF PlaceAttachments
      <3>5. CASE dir' = dir
        BY <1>3, <2>1, <3>4, <3>5
      <3>6. CASE dir' # dir
        <4>1. /\ from \in Boards /\ to \in Boards /\ from # to /\ {from, to} = pr
              /\ dir \in [Boards -> [Cards -> Directory \cup {None}]]
          BY <1>2, <1>3, <3>1, <3>2 DEF Typed, TypeOK
        <4>2. dir' = [dir EXCEPT ![from][c] = None, ![to][c] = dir[from][c]]
          BY <3>4, <3>6
        <4>3. /\ dir'[from][c] = None /\ dir'[to][c] = dir[from][c] /\ dir[from][c] # None
              /\ \A b \in Boards \ {from, to} : dir'[b] = dir[b]
          BY <3>3, <3>4, <3>6, <4>1, <4>2
        <4>4. (dir'[s][c] = None) # (dir'[d][c] = None)
          BY <3>2, <4>3
        <4>5. OneDirectory(pr)'
          BY <1>3, <3>1, <3>3, <3>4, <4>4 DEF OneDirectory
        <4>6. QED
          BY <4>1, <4>3, <4>5
      <3>7. QED
        BY <3>5, <3>6
    <2>8. QED
      BY <2>3, <2>4, <2>5, <2>6, <2>7 DEF WriteMoveJournal, WriteDestination, WriteSource,
         DecideRollback, RemoveMove
  <1>8. TreeLocal(p)
    BY <1>3, <1>6, <1>7 DEF TreeLocal
  <1>9. ASSUME NEW qr \in Pairs, qr \subseteq held[p], qr \in Pending' PROVE OneDirectory(qr)'
    <2>1. CASE qr = pr
      BY <1>7, <1>9, <2>1
    <2>2. CASE qr # pr
      <3>1. PICK n : n = moveWal[qr]
        OBVIOUS
      <3>2. qr \in Pending /\ moveWal'[qr] = n /\ OneDirectory(qr)
        BY <1>6, <1>9, <2>2, <3>1 DEF Pending, Placed
      <3>3. qr \cap pr = {}
        <4>1. pc[p] # "moveJournal"
          <5>1. PostedAt(pc[p], j, p)
            BY <1>1, <1>2, AtPosted
          <5>2. qr # {}
            BY <1>9 DEF Pairs
          <5>3. QED
            BY <1>9, <3>2, <5>1, <5>2 DEF PostedAt, QuietStages, Clear
        <4>2. QED
          BY <1>2, <1>3, <2>2, <3>2, <4>1 DEF Disciplined, JournalExclusion
      <3>4. n \in MoveJournal /\ PairOf(n) = qr
        BY <1>2, <3>1, <3>2 DEF Pending, Typed, TypeOK, Disciplined, LockDiscipline, Named
      <3>5. n.source \in Boards \ pr /\ n.destination \in Boards \ pr
        BY <3>3, <3>4 DEF PairOf, MoveJournal
      <3>6. QED
        BY <1>7, <3>1, <3>2, <3>5 DEF OneDirectory
    <2>3. QED
      BY <2>1, <2>2
  <1>10. QED
    BY <1>2, <1>4, <1>5, <1>8, <1>9, PlacedStep

LEMMA ProcessPlaced ==
  ASSUME Inv, Placed, NEW p \in Procs,
         \/ \E names \in Requests : Enter(p, names)
         \/ Leave(p) \/ Operation(p) \/ Step(p) \/ Crash(p)
  PROVE  TreeLocal(p) /\ Placed'
  <1>1. Typed /\ Disciplined
    BY DEF Inv
  <1>2. CASE \/ \E names \in Requests : Enter(p, names)
             \/ Leave(p) \/ Crash(p) \/ Return(p)
    BY <1>1, <1>2, EnterForgetPlaced
  <1>3. CASE Operation(p)
    BY <1>1, <1>3, OperationPlaced
  <1>4. CASE \/ \E b \in Boards : RecoverArchive(p, b)
             \/ \E pr \in Pairs : RecoverMove(p, pr)
    BY <1>1, <1>4, RecoverPlaced
  <1>5. "ok" \in Outcomes
    BY DEF Outcomes
  <1>6. ASSUME NEW o \in Outcomes,
               \/ Upload(p) \/ UploadRefused(p)
               \/ QuarantineFile(p, o) \/ QuarantineDirectory(p, o) \/ Undo(p, o) \/ Purge(p, o)
        PROVE  TreeLocal(p) /\ Placed'
    BY <1>6, AttachmentCallPlaced
  <1>7. ASSUME NEW o \in Outcomes,
               \/ WriteActive(p, o) \/ CommitArchive(p, o)
               \/ ApplyDone(p, o) \/ ApplyBoard(p, o) \/ RemoveArchive(p, o)
        PROVE  TreeLocal(p) /\ Placed'
    BY <1>7, CommitPlaced
  <1>8. ASSUME NEW o \in Outcomes,
               \/ WriteMoveJournal(p, o) \/ PlaceAttachments(p, o) \/ WriteDestination(p, o)
               \/ WriteSource(p, o) \/ DecideRollback(p, o) \/ RemoveMove(p, o)
        PROVE  TreeLocal(p) /\ Placed'
    BY <1>8, MoveCallPlaced
  <1>9. QED
    BY <1>2, <1>3, <1>4, <1>5, <1>6, <1>7, <1>8 DEF Step

LEMMA NextPlaced ==
  ASSUME Inv, Placed, [Next]_vars
  PROVE  Placed'
  <1>1. CASE UNCHANGED vars
    BY <1>1 DEF vars, disk, locks, Placed, PlacedAt, OneDirectory, Pending
  <1>2. ASSUME NEW p \in Procs,
               \/ \E names \in Requests : Enter(p, names)
               \/ Leave(p) \/ Operation(p) \/ Step(p) \/ Crash(p)
        PROVE  Placed'
    BY <1>2, ProcessPlaced
  <1>3. QED
    BY <1>1, <1>2 DEF Next, Rest

LEMMA InitPlaced == Init => Placed
  BY DEF Init, Placed, PlacedAt, Pending

\* A pending move of a card with attachments finds its directory on exactly one
\* of the two boards, whoever died or failed at whichever call before: its replay
\* by placeMoveAttachmentsUnlocked is not refused for ever, and the boards with it.
THEOREM StoreMoveIsReplayable == Spec => []MoveIsReplayable
  <1>1. Placed => MoveIsReplayable
    BY DEF Placed, OneDirectory, MoveIsReplayable
  <1>2. QED
    BY <1>1, InvIsInvariant, InitPlaced, NextPlaced, PTL DEF Spec

-----------------------------------------------------------------------------
(* The bytes of attachments.                                               *)

Stored(c, a) == \E d \in Boards : a \in FilesAt(dir[d][c]) \cup FilesAt(bin[d][c])

\* No list has the card and nobody is about to create it: identifiers are drawn
\* once, so no list ever will.
Dead(c) ==
  /\ c \in issued /\ ~Somewhere(c)
  /\ \A q \in Procs : \A stage, j : stage = pc[q] /\ j = job[q] /\ Creates(stage, j) => j.card # c

\* The process is about one attachment of a card.
Busy(stage, j) ==
  stage \in {"upload", "quarantine", "write", "undo", "purge"} /\ j.undo \in {"upload", "file"}

\* What is removed on the way is named by no list: an upload until it is
\* committed, an attachment or a card from the commit of its deletion on.
AttAt(stage, j) ==
  /\ Busy(stage, j) =>
       /\ j.card \in Cards /\ j.att \in issuedAtts[j.card]
       /\ j.undo = "upload" \/ stage = "purge" => ~NamedBy(j.card, j.att)
       /\ j.undo = "upload" /\ stage = "write" => j.att \in FilesAt(dir[j.board][j.card])
  /\ stage \in {"journal"} \cup ArchiveStages => j.undo \notin {"upload", "file"}
  /\ stage \in {"write", "journal", "undo"} \cup ArchiveStages /\ j.undo = "directory" =>
       j.card \in Cards /\ dir[j.board][j.card] = None
  /\ stage \in {"purge"} \cup ArchiveStages /\ j.undo = "directory" => Dead(j.card)

\* Nobody deletes or uploads the attachment another one is uploading.
Apart(s, j, t, k) ==
  Busy(s, j) /\ Busy(t, k) /\ "upload" \in {j.undo, k.undo} /\ j.card = k.card => j.att # k.att

\* Uploads and deletions have no journal: files are made, moved aside, put back
\* and destroyed around the write of the board.  Whatever a list names is
\* stored, what a process may yet remove is named by no list (AttAt), for a card
\* that is gone stays gone (Dead), and nobody is about an attachment that
\* somebody else is still uploading (Apart).
Tended ==
  /\ Bare
  /\ \A c \in Cards : \A a : NamedBy(c, a) => a \in issuedAtts[c] /\ Stored(c, a)
  /\ \A p \in Procs : \A stage, j : stage = pc[p] /\ j = job[p] => AttAt(stage, j)
  /\ \A p, q \in Procs : p # q =>
       \A s, j, t, k : s = pc[p] /\ j = job[p] /\ t = pc[q] /\ k = job[q] => Apart(s, j, t, k)

\* A step of p, with what is known of it already.
Steady(p) == Inv /\ Inv' /\ Placed /\ Tended /\ TreeLocal(p) /\ Lawful(p)

LEMMA AttachingIs ==
  ASSUME Inv, Tended, NEW p \in Procs, NEW stage, NEW j, stage = pc[p], j = job[p],
         NEW c \in Cards, NEW a, Attaching(p, c, a)
  PROVE  /\ stage = "write" /\ Busy(stage, j) /\ j.undo = "upload" /\ c = j.card /\ a = j.att
         /\ AttAt(stage, j) /\ j.board \in Boards
  <1>1. AttAt(stage, j)
    BY DEF Tended
  <1>2. stage \in {"write", "journal"} /\ j.undo = "upload" /\ c = j.card /\ a = j.att
    BY DEF Attaching
  <1>3. stage = "write"
    BY <1>1, <1>2 DEF AttAt
  <1>4. j.board \in Boards
    BY <1>3, AtCall DEF Inv
  <1>5. QED
    BY <1>1, <1>2, <1>3, <1>4 DEF Busy

\* What is named after the step had its bytes before it.
LEMMA NamesHeld ==
  ASSUME NEW p \in Procs, Steady(p), NEW c \in Cards, NEW a, NamedBy(c, a)'
  PROVE  a \in issuedAtts[c] /\ Stored(c, a)
  <1>1. CASE NamedBy(c, a)
    BY <1>1 DEF Steady, Tended
  <1>2. CASE Attaching(p, c, a)
    <2>1. PICK stage, j : stage = pc[p] /\ j = job[p]
      OBVIOUS
    <2>2. /\ stage = "write" /\ Busy(stage, j) /\ j.undo = "upload" /\ c = j.card /\ a = j.att
          /\ AttAt(stage, j) /\ j.board \in Boards
      BY <1>2, <2>1, AttachingIs DEF Steady
    <2>3. QED
      BY <2>2 DEF AttAt, Stored
  <1>3. QED
    BY <1>1, <1>2 DEF Steady, Lawful

LEMMA DeadStays ==
  ASSUME NEW p \in Procs, Steady(p), NEW stage, NEW j,
         Goto(p, stage), job' = [job EXCEPT ![p] = j], issued \subseteq issued',
         Creates(stage, j) => (Creating(p) /\ j.card = job[p].card) \/ j.card \notin issued,
         NEW c, Dead(c)
  PROVE  Dead(c)'
  <1>1. Typed /\ issued \subseteq Cards
    BY DEF Steady, Inv, Typed, TypeOK
  <1>2. /\ pc'[p] = stage /\ job'[p] = j
        /\ \A q \in Procs \ {p} : pc'[q] = pc[q] /\ job'[q] = job[q]
    BY <1>1 DEF Goto, Typed, TypeOK
  <1>3. Creates(stage, j) => j.card # c
    BY DEF Dead, Creating
  <1>4. c \in Cards /\ ~(Creating(p) /\ c = job[p].card)
    BY <1>1 DEF Dead, Creating
  <1>5. c \in issued' /\ ~Somewhere(c)'
    BY <1>4 DEF Dead, Steady, Lawful
  <1>6. ASSUME NEW q \in Procs, NEW s, NEW k, s = pc'[q], k = job'[q], Creates(s, k)
        PROVE  k.card # c
    <2>1. CASE q = p
      BY <1>2, <1>3, <1>6, <2>1
    <2>2. CASE q # p
      BY <1>2, <1>6, <2>2 DEF Dead
    <2>3. QED
      BY <2>1, <2>2
  <1>7. QED
    BY <1>5, <1>6 DEF Dead

\* The attachments p turns to: those it was about, one just drawn, one that is named.
Turns(p, stage, j) ==
  /\ Creates(stage, j) => (Creating(p) /\ j.card = job[p].card) \/ j.card \notin issued
  /\ Busy(stage, j) => \/ Busy(pc[p], job[p]) /\ j = job[p]
                       \/ j.undo = "upload" /\ j.att \notin issuedAtts[j.card]
                       \/ j.undo = "file" /\ NamedBy(j.card, j.att)

\* p goes on; what the others know stays so.
LEMMA TendedStep ==
  ASSUME NEW p \in Procs, Steady(p), NEW stage, NEW j,
         Goto(p, stage), job' = [job EXCEPT ![p] = j], issued \subseteq issued',
         \A c \in Cards : issuedAtts[c] \subseteq issuedAtts'[c],
         \A c \in Cards : \A a : NamedBy(c, a)' /\ Stored(c, a) => Stored(c, a)',
         AttAt(stage, j)', Turns(p, stage, j)
  PROVE  Tended'
  <1>1. /\ Typed /\ Disciplined /\ Inv /\ Placed /\ Tended
        /\ pc \in [Procs -> Stages] /\ job \in [Procs -> Job \cup {None}]
    BY DEF Steady, Inv, Typed, TypeOK
  <1>2. /\ pc'[p] = stage /\ job'[p] = j
        /\ \A q \in Procs \ {p} : pc'[q] = pc[q] /\ job'[q] = job[q]
    BY <1>1 DEF Goto
  <1>3. Bare'
    BY DEF Steady, Tended, Lawful
  <1>4. ASSUME NEW c \in Cards, NEW a, NamedBy(c, a)' PROVE a \in issuedAtts'[c] /\ Stored(c, a)'
    BY <1>4, NamesHeld
  <1>5. PICK from, i : from = pc[p] /\ i = job[p]
    OBVIOUS
  <1>6. ASSUME NEW q \in Procs, q # p, NEW s, NEW k, s = pc[q], k = job[q]
        PROVE  AttAt(s, k)'
    <2>1. AttAt(s, k) /\ Apart(from, i, s, k)
      BY <1>1, <1>5, <1>6 DEF Tended
    <2>2. ASSUME Busy(s, k), k.card \in Cards, NamedBy(k.card, k.att)',
                 k.undo = "upload" \/ s = "purge", ~NamedBy(k.card, k.att)
          PROVE  FALSE
      <3>1. PICK c, a : c = k.card /\ a = k.att /\ c \in Cards
        BY <2>2
      <3>2. Attaching(p, c, a)
        BY <2>2, <3>1 DEF Steady, Lawful
      <3>3. Busy(from, i) /\ i.undo = "upload" /\ c = i.card /\ a = i.att
        BY <1>1, <1>5, <3>1, <3>2, AttachingIs
      <3>4. i.card = k.card /\ i.att = k.att /\ "upload" \in {i.undo, k.undo}
        BY <3>1, <3>3
      <3>5. QED
        BY <2>1, <2>2, <3>3, <3>4 DEF Apart
    <2>3. ASSUME s \in {"write", "journal", "undo"} \cup ArchiveStages
          PROVE  dir'[k.board] = dir[k.board]
      <3>1. s \in RenderStages \cup ArchiveStages \cup {"undo", "purge"}
        BY <2>3 DEF RenderStages
      <3>2. k.board \in Boards /\ k.board \in held[q]
        BY <1>1, <1>6, <3>1, OwnBoard
      <3>3. k.board \notin held[p]
        BY <1>1, <1>6, <3>2 DEF Disciplined, LockDiscipline, Exclusive
      <3>4. QED
        BY <3>2, <3>3 DEF Steady, TreeLocal
    <2>4. ASSUME Busy(s, k)
          PROVE  /\ k.card \in Cards /\ k.att \in issuedAtts'[k.card]
                 /\ k.undo = "upload" \/ s = "purge" => ~NamedBy(k.card, k.att)'
                 /\ k.undo = "upload" /\ s = "write" => k.att \in FilesAt(dir'[k.board][k.card])
      <3>1. /\ k.card \in Cards /\ k.att \in issuedAtts[k.card]
            /\ k.undo = "upload" \/ s = "purge" => ~NamedBy(k.card, k.att)
            /\ k.undo = "upload" /\ s = "write" => k.att \in FilesAt(dir[k.board][k.card])
        BY <2>1, <2>4 DEF AttAt
      <3>2. k.undo = "upload" \/ s = "purge" => ~NamedBy(k.card, k.att)'
        BY <2>2, <2>4, <3>1
      <3>3. QED
        BY <2>3, <3>1, <3>2
    <2>5. ASSUME s \in {"purge"} \cup ArchiveStages, k.undo = "directory" PROVE Dead(k.card)'
      <3>1. PICK c : c = k.card
        OBVIOUS
      <3>2. Dead(c)
        BY <2>1, <2>5, <3>1 DEF AttAt
      <3>3. Dead(c)'
        BY <3>2, DeadStays DEF Turns
      <3>4. QED
        BY <3>1, <3>3
    <2>6. QED
      BY <2>1, <2>3, <2>4, <2>5 DEF AttAt, Busy
  <1>7. ASSUME NEW q \in Procs, NEW s, NEW k, s = pc'[q], k = job'[q] PROVE AttAt(s, k)'
    <2>1. CASE q = p
      BY <1>2, <1>7, <2>1
    <2>2. CASE q # p
      BY <1>2, <1>6, <1>7, <2>2
    <2>3. QED
      BY <2>1, <2>2
  <1>8. ASSUME NEW q \in Procs, q # p, NEW s, NEW k, s = pc[q], k = job[q]
        PROVE  Apart(stage, j, s, k)
    <2>1. SUFFICES ASSUME Busy(stage, j), Busy(s, k), "upload" \in {j.undo, k.undo}, j.card = k.card
                   PROVE  j.att # k.att
      BY DEF Apart
    <2>2. AttAt(s, k) /\ Apart(from, i, s, k)
      BY <1>1, <1>5, <1>8 DEF Tended
    <2>3. /\ k.card \in Cards /\ k.att \in issuedAtts[k.card]
          /\ k.undo = "upload" => ~NamedBy(k.card, k.att)
      BY <2>1, <2>2 DEF AttAt
    <2>4. CASE Busy(from, i) /\ j = i
      BY <2>1, <2>2, <2>4 DEF Apart
    <2>5. CASE j.undo = "upload" /\ j.att \notin issuedAtts[j.card]
      BY <2>1, <2>3, <2>5
    <2>6. CASE j.undo = "file" /\ NamedBy(j.card, j.att)
      BY <2>1, <2>3, <2>6
    <2>7. QED
      BY <1>5, <2>1, <2>4, <2>5, <2>6 DEF Turns
  <1>9. ASSUME NEW q \in Procs, NEW r \in Procs, q # r, NEW s, NEW k, NEW t, NEW l,
               s = pc'[q], k = job'[q], t = pc'[r], l = job'[r]
        PROVE  Apart(s, k, t, l)
    <2>1. CASE q = p
      BY <1>2, <1>8, <1>9, <2>1
    <2>2. CASE r = p
      <3>1. Apart(t, l, s, k)
        BY <1>2, <1>8, <1>9, <2>2
      <3>2. QED
        BY <3>1 DEF Apart
    <2>3. CASE q # p /\ r # p
      BY <1>1, <1>2, <1>9, <2>3 DEF Tended
    <2>4. QED
      BY <2>1, <2>2, <2>3
  <1>10. QED
    BY <1>3, <1>4, <1>7, <1>9 DEF Tended

\* p turns to something that is not about attachments, and the tree stays.
Aside(stage, j) ==
  /\ ~Busy(stage, j)
  /\ stage \in {"write", "journal", "undo", "purge"} \cup ArchiveStages => j.undo = "nothing"

LEMMA AsideTended ==
  ASSUME NEW p \in Procs, Steady(p), NEW stage, NEW j,
         Goto(p, stage), job' = [job EXCEPT ![p] = j], UNCHANGED <<dir, bin, issuedAtts>>,
         issued \subseteq issued', Aside(stage, j),
         Creates(stage, j) => (Creating(p) /\ j.card = job[p].card) \/ j.card \notin issued
  PROVE  Tended'
  <1>1. AttAt(stage, j)'
    BY DEF Aside, AttAt, Busy
  <1>2. Turns(p, stage, j)
    BY DEF Turns, Aside
  <1>3. \A c \in Cards : \A a : Stored(c, a) => Stored(c, a)'
    BY DEF Stored
  <1>4. QED
    BY <1>1, <1>2, <1>3, TendedStep

LEMMA EnterForgetTended ==
  ASSUME NEW p \in Procs, Steady(p),
         \/ \E names \in Requests : Enter(p, names)
         \/ Leave(p) \/ Crash(p) \/ Return(p)
  PROVE  Tended'
  <1>1. PICK i : i = job[p]
    OBVIOUS
  <1>2. PICK stage \in {"recover", "idle"}, j \in {i, None} :
          Goto(p, stage) /\ job' = [job EXCEPT ![p] = j]
    <2>1. ASSUME NEW names, Enter(p, names)
          PROVE  Goto(p, "recover") /\ job' = [job EXCEPT ![p] = i]
      BY <1>1, <2>1, SameJob DEF Enter, Steady, Inv
    <2>2. ASSUME Leave(p) \/ Crash(p) \/ Return(p)
          PROVE  Goto(p, "idle") /\ job' = [job EXCEPT ![p] = None]
      BY <2>2 DEF Leave, Crash, Return, Forget
    <2>3. QED
      BY <2>1, <2>2
  <1>3. UNCHANGED <<dir, bin, issuedAtts, issued>>
    BY DEF Enter, Leave, Crash, Return, disk, ghosts
  <1>4. Aside(stage, j) /\ ~Creates(stage, j)
    BY DEF Aside, Busy, Creates, RenderStages, ArchiveStages
  <1>5. QED
    BY <1>2, <1>3, <1>4, AsideTended

LEMMA RecoverTended ==
  ASSUME NEW p \in Procs, Steady(p),
         \/ \E b \in Boards : RecoverArchive(p, b)
         \/ \E pr \in Pairs : RecoverMove(p, pr)
  PROVE  Tended'
  <1>1. UNCHANGED <<dir, bin, issuedAtts, issued>>
    BY DEF RecoverArchive, RecoverMove, disk, ghosts
  <1>2. ASSUME NEW stage, stage \in {"applyDone", "place", "writeDestination"},
               NEW j, j.undo = "nothing", Goto(p, stage), job' = [job EXCEPT ![p] = j]
        PROVE  Tended'
    <2>1. Aside(stage, j) /\ ~Creates(stage, j)
      BY <1>2 DEF Aside, Busy, Creates, RenderStages
    <2>2. QED
      BY <1>1, <1>2, <2>1, AsideTended
  <1>3. \A b, after, move : Recovery(b, after, move).undo = "nothing"
    BY DEF Recovery
  <1>4. ASSUME NEW b \in Boards, RecoverArchive(p, b) PROVE Tended'
    <2>1. PICK j : j = Recovery(b, wal[b], None)
      OBVIOUS
    <2>2. Goto(p, "applyDone") /\ job' = [job EXCEPT ![p] = j]
      BY <1>4, <2>1 DEF RecoverArchive
    <2>3. j.undo = "nothing"
      BY <1>3, <2>1
    <2>4. QED
      BY <1>2, <2>2, <2>3
  <1>5. ASSUME NEW pr \in Pairs, RecoverMove(p, pr) PROVE Tended'
    <2>1. PICK stage, j : /\ stage = FirstMoveStage(moveWal[pr])
                          /\ j = Recovery(moveWal[pr].source, EmptyContent, moveWal[pr])
      OBVIOUS
    <2>2. Goto(p, stage) /\ job' = [job EXCEPT ![p] = j]
      BY <1>5, <2>1 DEF RecoverMove
    <2>3. j.undo = "nothing" /\ stage \in {"place", "writeDestination"}
      BY <1>3, <2>1, FirstMoveStageIs
    <2>4. QED
      BY <1>2, <2>2, <2>3
  <1>6. QED
    BY <1>4, <1>5

\* An operation that is not about one attachment begins.
LEMMA BeginTended ==
  ASSUME NEW p \in Procs, Steady(p), NEW b, NEW c, NEW a, NEW undo, NEW after, NEW move, NEW rev,
         NEW stage, Begin(p, b, c, a, undo, after, move, rev, stage),
         \/ undo = "nothing"
         \/ undo = "directory" /\ stage = "quarantine",
         issuedAtts' = issuedAtts, issued \subseteq issued', rev = 1 => c \notin issued \/ stage = "moveJournal"
  PROVE  Tended'
  <1>1. PICK j : j = [mode |-> "live", board |-> b, card |-> c, att |-> a, undo |-> undo,
                      after |-> after, move |-> move, rev |-> rev]
    OBVIOUS
  <1>2. /\ Goto(p, stage) /\ job' = [job EXCEPT ![p] = j] /\ UNCHANGED <<dir, bin>>
    BY <1>1 DEF Begin, disk
  <1>3. j.undo = undo /\ j.card = c /\ j.rev = rev
    BY <1>1
  <1>4. Aside(stage, j) /\ (Creates(stage, j) => c \notin issued)
    BY <1>3 DEF Aside, Busy, Creates, RenderStages, ArchiveStages
  <1>5. QED
    BY <1>2, <1>3, <1>4, AsideTended

\* What is read under the locks, once everything is replayed, is what the boards are.
LEMMA ReadIs ==
  ASSUME Inv, NEW p \in Procs, NEW b \in Boards, OnBoard(p, b)
  PROVE  Effective[b] = file[b] /\ pc[p] = "recover"
  <1>1. Typed /\ Disciplined
    BY DEF Inv
  <1>2. Clear(p) /\ want[p] \subseteq held[p]
    BY <1>1, RecoveredClear DEF OnBoard
  <1>3. wal[b] = None /\ \A pr \in Pending : b \notin pr
    BY <1>2 DEF OnBoard, Clear
  <1>4. QED
    BY <1>1, <1>3, EffectiveClear DEF ClearViewed, OnBoard, Recovered

LEMMA CardBeginsTended ==
  ASSUME NEW p \in Procs, Steady(p), NEW b \in Boards, NEW c \in Cards,
         \/ CreateCard(p, b, c) \/ EditCard(p, b, c) \/ CompleteCard(p, b, c)
         \/ RestoreCard(p, b, c) \/ DeleteCard(p, b, c) \/ DeleteArchivedCard(p, b, c)
  PROVE  Tended'
  <1>1. Typed
    BY DEF Steady, Inv
  <1>2. /\ Active(b).cards[c].rev \in Nat /\ Archive(b).cards[c].rev \in Nat
        /\ Archive(b) = file[b]["archive"]
    BY <1>1, ReadType
  <1>3. CASE CreateCard(p, b, c)
    BY <1>3, BeginTended DEF CreateCard
  <1>4. CASE EditCard(p, b, c) \/ CompleteCard(p, b, c)
    <2>1. PICK rev : rev = Active(b).cards[c].rev + 1
      OBVIOUS
    <2>2. rev # 1
      BY <1>2, <1>4, <2>1 DEF EditCard, CompleteCard, Has
    <2>3. QED
      BY <1>4, <2>1, <2>2, BeginTended DEF EditCard, CompleteCard
  <1>5. CASE RestoreCard(p, b, c)
    <2>1. PICK rev : rev = Archive(b).cards[c].rev + 1
      OBVIOUS
    <2>2. rev # 1
      BY <1>2, <1>5, <2>1 DEF RestoreCard, CanRestore, Has
    <2>3. QED
      BY <1>5, <2>1, <2>2, BeginTended DEF RestoreCard
  <1>6. CASE DeleteCard(p, b, c)
    <2>1. PICK q : q = Quarantined(b, c, Active(b).cards[c], "write")
      OBVIOUS
    <2>2. q.undo = "nothing" \/ (q.undo = "directory" /\ q.stage = "quarantine")
      BY <2>1 DEF Quarantined
    <2>3. /\ Begin(p, b, c, None, q.undo, Deleted(file[b], c), None, 0, q.stage)
          /\ issuedAtts' = issuedAtts /\ issued \subseteq issued'
      BY <1>6, <2>1 DEF DeleteCard
    <2>4. QED
      BY <2>2, <2>3, BeginTended
  <1>7. CASE DeleteArchivedCard(p, b, c)
    <2>1. PICK q : q = Quarantined(b, c, Archive(b).cards[c], "journal")
      OBVIOUS
    <2>2. q.undo = "nothing" \/ (q.undo = "directory" /\ q.stage = "quarantine")
      BY <2>1 DEF Quarantined
    <2>3. /\ Begin(p, b, c, None, q.undo, DeletedArchived(file[b], c), None, 0, q.stage)
          /\ issuedAtts' = issuedAtts /\ issued \subseteq issued'
      BY <1>7, <2>1 DEF DeleteArchivedCard
    <2>4. QED
      BY <2>2, <2>3, BeginTended
  <1>8. QED
    BY <1>3, <1>4, <1>5, <1>6, <1>7

\* An identifier just drawn is named nowhere; one that is deleted is named.
LEMMA AttachmentBeginsTended ==
  ASSUME NEW p \in Procs, Steady(p), NEW b \in Boards, NEW c \in Cards, NEW a \in Attachments,
         AddAttachment(p, b, c, a) \/ DeleteAttachment(p, b, c, a)
  PROVE  Tended'
  <1>1. /\ Inv /\ Typed /\ Tended
        /\ issuedAtts \in [Cards -> SUBSET Attachments]
    BY DEF Steady, Inv, Typed, TypeOK
  <1>2. OnBoard(p, b)
    BY DEF AddAttachment, DeleteAttachment
  <1>3. Effective[b] = file[b] /\ pc[p] = "recover"
    BY <1>1, <1>2, ReadIs
  <1>4. Active(b).cards[c].rev \in Nat /\ Active(b) = file[b]["active"]
    BY <1>1, ReadType
  <1>5. PICK rev : rev = Active(b).cards[c].rev + 1
    OBVIOUS
  <1>6. rev # 1
    BY <1>4, <1>5 DEF AddAttachment, DeleteAttachment, CanAttach, Has
  <1>7. \A f \in Cards : \A x : NamedBy(f, x)' => NamedBy(f, x)
    BY <1>3 DEF Steady, Lawful, Attaching
  <1>8. \A x : NamedBy(c, x) => x \in issuedAtts[c]
    BY <1>1 DEF Tended
  <1>9. CASE AddAttachment(p, b, c, a)
    <2>1. PICK after : after = Attached(file[b], c, a)
      OBVIOUS
    <2>2. PICK j : j = [mode |-> "live", board |-> b, card |-> c, att |-> a, undo |-> "upload",
                        after |-> after, move |-> None, rev |-> rev]
      OBVIOUS
    <2>3. /\ Goto(p, "upload") /\ job' = [job EXCEPT ![p] = j] /\ UNCHANGED <<dir, bin, issued>>
          /\ a \notin issuedAtts[c] /\ issuedAtts' = [issuedAtts EXCEPT ![c] = @ \cup {a}]
      BY <1>5, <1>9, <2>1, <2>2 DEF AddAttachment, Begin, disk
    <2>4. j.undo = "upload" /\ j.card = c /\ j.rev = rev /\ j.att = a
      BY <2>2
    <2>5. /\ a \in issuedAtts'[c] /\ \A f \in Cards : issuedAtts[f] \subseteq issuedAtts'[f]
      BY <1>1, <2>3
    <2>6. ~NamedBy(c, a)'
      BY <1>7, <1>8, <2>3
    <2>7. AttAt("upload", j)'
      BY <2>4, <2>5, <2>6 DEF AttAt, ArchiveStages
    <2>8. Turns(p, "upload", j)
      BY <1>6, <2>3, <2>4 DEF Turns, Creates
    <2>9. \A f \in Cards : \A x : Stored(f, x) => Stored(f, x)'
      BY <2>3 DEF Stored
    <2>10. QED
      BY <2>3, <2>5, <2>7, <2>8, <2>9, TendedStep
  <1>10. CASE DeleteAttachment(p, b, c, a)
    <2>1. PICK after : after = Detached(file[b], c, a)
      OBVIOUS
    <2>2. PICK j : j = [mode |-> "live", board |-> b, card |-> c, att |-> a, undo |-> "file",
                        after |-> after, move |-> None, rev |-> rev]
      OBVIOUS
    <2>3. /\ Goto(p, "quarantine") /\ job' = [job EXCEPT ![p] = j]
          /\ UNCHANGED <<dir, bin, issued, issuedAtts>>
          /\ a \in Active(b).cards[c].atts
      BY <1>5, <1>10, <2>1, <2>2 DEF DeleteAttachment, Begin, disk
    <2>4. j.undo = "file" /\ j.card = c /\ j.rev = rev /\ j.att = a
      BY <2>2
    <2>5. NamedBy(c, a)
      BY <1>3, <1>4, <2>3 DEF NamedBy, NamedOn, Kinds
    <2>6. AttAt("quarantine", j)'
      BY <1>8, <2>3, <2>4, <2>5 DEF AttAt, ArchiveStages
    <2>7. Turns(p, "quarantine", j)
      BY <1>6, <2>4, <2>5 DEF Turns, Creates
    <2>8. \A f \in Cards : \A x : Stored(f, x) => Stored(f, x)'
      BY <2>3 DEF Stored
    <2>9. QED
      BY <2>3, <2>6, <2>7, <2>8, TendedStep
  <1>11. QED
    BY <1>9, <1>10

LEMMA OperationTended ==
  ASSUME NEW p \in Procs, Steady(p), Operation(p)
  PROVE  Tended'
  <1>1. ASSUME NEW b \in Boards, NEW focus \in Cards \cup {None}, NEW archived \in BOOLEAN,
               PatchBoardSettings(p, b, focus, archived)
        PROVE  Tended'
    BY <1>1, BeginTended DEF PatchBoardSettings
  <1>2. ASSUME NEW s \in Boards, NEW d \in Boards, NEW c \in Cards, NEW k \in Kinds,
               MoveCardToBoard(p, s, d, c, k)
        PROVE  Tended'
    <2>1. PICK m, rev : Begin(p, s, c, None, "nothing", EmptyContent, m, rev, "moveJournal")
      BY <1>2 DEF MoveCardToBoard
    <2>2. issuedAtts' = issuedAtts /\ issued' = issued
      BY <1>2 DEF MoveCardToBoard
    <2>3. QED
      BY <2>1, <2>2, BeginTended
  <1>3. QED
    BY <1>1, <1>2, CardBeginsTended, AttachmentBeginsTended DEF Operation

-----------------------------------------------------------------------------
(* The calls on attachment files.                                          *)

\* None of these calls loses a file, but for the one that is removed.
LEMMA FileMoves ==
  ASSUME NEW d \in Directory \cup {None}, NEW a \in Attachments
  PROVE  /\ FilesAt(Made(d)) = FilesAt(d)
         /\ FilesAt([Made(d) EXCEPT !.live = @ \cup {a}]) = FilesAt(d) \cup {a}
         /\ FilesAt(d) \subseteq FilesAt(RemoveFile(d, a)) \cup {a}
         /\ FilesAt(d) \subseteq FilesAt(RemoveBinned(d, a)) \cup {a}
         /\ d # None => FilesAt(d) \subseteq FilesAt(Binned(d, a))
         /\ FilesAt(d) \subseteq FilesAt(Unbinned(d, a))
  <1>1. \A e \in Directory : e # None /\ FilesAt(e) = e.live \cup e.bin
    BY NoneIsNoRecord DEF FilesAt
  <1>2. FilesAt(None) = {}
    BY DEF FilesAt
  <1>3. PICK made : made = Made(d)
    OBVIOUS
  <1>4. made \in Directory /\ FilesAt(made) = FilesAt(d)
    BY <1>1, <1>2, <1>3 DEF Made, EmptyDir, Directory
  <1>5. PICK up : up = [made EXCEPT !.live = @ \cup {a}]
    OBVIOUS
  <1>6. up \in Directory /\ up.live = made.live \cup {a} /\ up.bin = made.bin
    BY <1>4, <1>5 DEF Directory
  <1>7. FilesAt(up) = FilesAt(d) \cup {a}
    BY <1>1, <1>4, <1>6
  <1>8. CASE d = None
    BY <1>2, <1>3, <1>4, <1>5, <1>7, <1>8
  <1>9. CASE d # None
    <2>1. d \in Directory /\ FilesAt(d) = d.live \cup d.bin
      BY <1>1, <1>9
    <2>2. FilesAt(d) \subseteq FilesAt(RemoveFile(d, a)) \cup {a}
      <3>1. PICK e : e = [d EXCEPT !.live = @ \ {a}]
        OBVIOUS
      <3>2. e \in Directory /\ e.live = d.live \ {a} /\ e.bin = d.bin
        BY <2>1, <3>1 DEF Directory
      <3>3. QED
        BY <1>1, <1>9, <2>1, <3>1, <3>2 DEF RemoveFile
    <2>3. FilesAt(d) \subseteq FilesAt(RemoveBinned(d, a)) \cup {a}
      <3>1. PICK e : e = [d EXCEPT !.bin = @ \ {a}]
        OBVIOUS
      <3>2. e \in Directory /\ e.live = d.live /\ e.bin = d.bin \ {a}
        BY <2>1, <3>1 DEF Directory
      <3>3. QED
        BY <1>1, <1>9, <2>1, <3>1, <3>2 DEF RemoveBinned
    <2>4. FilesAt(d) \subseteq FilesAt(Binned(d, a))
      <3>1. PICK e : e = [d EXCEPT !.live = @ \ {a}, !.bin = @ \cup {a}]
        OBVIOUS
      <3>2. e \in Directory /\ e.live = d.live \ {a} /\ e.bin = d.bin \cup {a}
        BY <2>1, <3>1 DEF Directory
      <3>3. QED
        BY <1>1, <2>1, <3>1, <3>2 DEF Binned
    <2>5. FilesAt(d) \subseteq FilesAt(Unbinned(d, a))
      <3>1. PICK e : e = [d EXCEPT !.live = @ \cup {a}, !.bin = @ \ {a}]
        OBVIOUS
      <3>2. e \in Directory /\ e.live = d.live \cup {a} /\ e.bin = d.bin \ {a}
        BY <2>1, <3>1 DEF Directory
      <3>3. QED
        BY <1>1, <1>9, <2>1, <3>1, <3>2 DEF Unbinned
    <2>6. QED
      BY <1>3, <1>4, <1>5, <1>7, <2>2, <2>3, <2>4, <2>5
  <1>10. QED
    BY <1>8, <1>9

FilesOf(b, c) == FilesAt(dir[b][c]) \cup FilesAt(bin[b][c])

\* What p knows of the attachments it works on.
LEMMA AtFiles ==
  ASSUME NEW p \in Procs, Steady(p), NEW from, from = pc[p], NEW j, j = job[p],
         from \in {"upload", "quarantine", "undo", "purge"}
  PROVE  /\ j.board \in Boards /\ j.card \in Cards /\ j.undo \in {"upload", "file", "directory"}
         /\ j.undo # "directory" => j.att \in Attachments
         /\ from = "upload" => j.undo = "upload"
         /\ AttAt(from, j)
         /\ dir[j.board] \in [Cards -> Directory \cup {None}]
         /\ bin[j.board] \in [Cards -> Directory \cup {None}]
         /\ \A c \in Cards : \A a : NamedBy(c, a)' => NamedBy(c, a)
  <1>1. Typed /\ Inv /\ Tended
    BY DEF Steady, Inv
  <1>2. j \in Job /\ j # None /\ j.board \in Boards /\ JobFits(from, j)
    BY <1>1, AtCall
  <1>3. AttAt(from, j)
    BY <1>1 DEF Tended
  <1>4. \A c \in Cards : \A a : NamedBy(c, a)' => NamedBy(c, a)
    BY DEF Steady, Lawful, Attaching
  <1>5. QED
    BY <1>1, <1>2, <1>3, <1>4 DEF JobFits, Job, Typed, TypeOK

\* A call that loses only what no list names.
LEMMA FilesTended ==
  ASSUME NEW p \in Procs, Steady(p), NEW from, from = pc[p], NEW j, j = job[p],
         from \in {"upload", "quarantine", "undo", "purge"},
         NEW stage, stage \in {"write", "journal", "error", "ok"},
         stage \in {"write", "journal"} => from \in {"upload", "quarantine"},
         Goto(p, stage), UNCHANGED <<job, issued, issuedAtts>>,
         NEW b, NEW c, b = j.board, c = j.card,
         \A e \in Boards : \A f \in Cards :
           e # b \/ f # c => dir'[e][f] = dir[e][f] /\ bin'[e][f] = bin[e][f],
         \A a \in FilesOf(b, c) :
           a \in FilesAt(dir'[b][c]) \cup FilesAt(bin'[b][c]) \/ ~NamedBy(c, a),
         AttAt(stage, j)'
  PROVE  Tended'
  <1>1. /\ j.board \in Boards /\ j.card \in Cards
        /\ \A f \in Cards : \A a : NamedBy(f, a)' => NamedBy(f, a)
    BY AtFiles
  <1>2. job' = [job EXCEPT ![p] = j]
    BY SameJob DEF Steady, Inv
  <1>3. Turns(p, stage, j)
    BY DEF Turns, Creates, Creating, RenderStages, Busy
  <1>4. ASSUME NEW f \in Cards, NEW a, NamedBy(f, a)', Stored(f, a) PROVE Stored(f, a)'
    <2>1. PICK e \in Boards : a \in FilesAt(dir[e][f]) \cup FilesAt(bin[e][f])
      BY <1>4 DEF Stored
    <2>2. NamedBy(f, a)
      BY <1>1, <1>4
    <2>3. a \in FilesAt(dir'[e][f]) \cup FilesAt(bin'[e][f])
      <3>1. CASE e # b \/ f # c
        BY <2>1, <3>1
      <3>2. CASE e = b /\ f = c
        BY <2>1, <2>2, <3>2 DEF FilesOf
      <3>3. QED
        BY <3>1, <3>2
    <2>4. QED
      BY <2>3 DEF Stored
  <1>5. QED
    BY <1>2, <1>3, <1>4, TendedStep

LEMMA SetOne ==
  ASSUME NEW tree \in [Boards -> [Cards -> Directory \cup {None}]], NEW b \in Boards,
         NEW c \in Cards, NEW d
  PROVE  /\ [tree EXCEPT ![b][c] = d][b][c] = d
         /\ \A e \in Boards : \A f \in Cards :
              e # b \/ f # c => [tree EXCEPT ![b][c] = d][e][f] = tree[e][f]
  OBVIOUS

LEMMA UploadTended ==
  ASSUME NEW p \in Procs, Steady(p), Upload(p) \/ UploadRefused(p)
  PROVE  Tended'
  <1>1. PICK j, b, c, a : j = job[p] /\ b = j.board /\ c = j.card /\ a = j.att
    OBVIOUS
  <1>2. pc[p] = "upload" /\ UNCHANGED <<job, issued, issuedAtts, bin>>
    BY DEF Upload, UploadRefused, IoOnly, ghosts
  <1>3. /\ b \in Boards /\ c \in Cards /\ j.undo = "upload" /\ a \in Attachments
        /\ AttAt("upload", j) /\ dir[b] \in [Cards -> Directory \cup {None}]
        /\ \A f \in Cards : \A x : NamedBy(f, x)' => NamedBy(f, x)
    BY <1>1, <1>2, AtFiles
  <1>4. dir \in [Boards -> [Cards -> Directory \cup {None}]]
    BY DEF Steady, Inv, Typed, TypeOK
  <1>5. PICK d : d = dir[b][c] /\ d \in Directory \cup {None}
    BY <1>3
  <1>6. CASE Upload(p)
    <2>1. PICK up : up = [Made(d) EXCEPT !.live = @ \cup {a}]
      OBVIOUS
    <2>2. dir' = [dir EXCEPT ![b][c] = up] /\ Goto(p, "write")
      BY <1>1, <1>5, <1>6, <2>1 DEF Upload, SetDir
    <2>3. /\ dir'[b][c] = up
          /\ \A e \in Boards : \A f \in Cards : e # b \/ f # c => dir'[e][f] = dir[e][f]
      BY <1>3, <1>4, <2>2, SetOne
    <2>4. FilesAt(up) = FilesAt(d) \cup {a}
      BY <1>3, <1>5, <2>1, FileMoves
    <2>5. \A x \in FilesOf(b, c) : x \in FilesAt(dir'[b][c]) \cup FilesAt(bin'[b][c])
      BY <1>2, <1>5, <2>3, <2>4 DEF FilesOf
    <2>6. AttAt("write", j)'
      <3>1. a \in issuedAtts[c] /\ ~NamedBy(c, a)
        BY <1>1, <1>3 DEF AttAt, Busy
      <3>2. a \in issuedAtts'[c] /\ ~NamedBy(c, a)' /\ a \in FilesAt(dir'[b][c])
        BY <1>2, <1>3, <2>3, <2>4, <3>1
      <3>3. ~NamedBy(j.card, j.att)'
        BY <1>1, <3>2
      <3>4. QED
        BY <1>1, <1>3, <3>2, <3>3 DEF AttAt, ArchiveStages
    <2>7. QED
      BY <1>1, <1>2, <2>2, <2>3, <2>5, <2>6, FilesTended
  <1>7. CASE UploadRefused(p)
    <2>1. PICK e \in {d, Made(d)} : dir' = [dir EXCEPT ![b][c] = e] /\ Goto(p, "error")
      BY <1>1, <1>5, <1>7 DEF UploadRefused, SetDir
    <2>2. /\ dir'[b][c] = e
          /\ \A x \in Boards : \A f \in Cards : x # b \/ f # c => dir'[x][f] = dir[x][f]
      BY <1>3, <1>4, <2>1, SetOne
    <2>3. FilesAt(e) = FilesAt(d)
      BY <1>3, <1>5, <2>1, FileMoves
    <2>4. \A x \in FilesOf(b, c) : x \in FilesAt(dir'[b][c]) \cup FilesAt(bin'[b][c])
      BY <1>2, <1>5, <2>2, <2>3 DEF FilesOf
    <2>5. AttAt("error", j)'
      BY DEF AttAt, Busy, ArchiveStages
    <2>6. QED
      BY <1>1, <1>2, <2>1, <2>2, <2>4, <2>5, FilesTended
  <1>8. QED
    BY <1>6, <1>7

\* A call that fails, or finds nothing to do, touches nothing.
LEMMA UntouchedTended ==
  ASSUME NEW p \in Procs, Steady(p), pc[p] \in {"quarantine", "undo", "purge"},
         NEW stage, stage \in {"error", "ok"}, Goto(p, stage),
         UNCHANGED <<job, issued, issuedAtts, dir, bin>>
  PROVE  Tended'
  <1>1. PICK j, b, c : j = job[p] /\ b = j.board /\ c = j.card
    OBVIOUS
  <1>2. AttAt(stage, j)'
    BY DEF AttAt, Busy, ArchiveStages
  <1>3. \A x \in FilesOf(b, c) : x \in FilesAt(dir'[b][c]) \cup FilesAt(bin'[b][c])
    BY DEF FilesOf
  <1>4. QED
    BY <1>1, <1>2, <1>3, FilesTended

LEMMA QuarantineFileTended ==
  ASSUME NEW p \in Procs, Steady(p), NEW o \in Outcomes, QuarantineFile(p, o)
  PROVE  Tended'
  <1>1. PICK j, b, c, a : j = job[p] /\ b = j.board /\ c = j.card /\ a = j.att
    OBVIOUS
  <1>2. pc[p] = "quarantine" /\ j.undo = "file" /\ UNCHANGED <<job, issued, issuedAtts, bin>>
    BY <1>1 DEF QuarantineFile, IoOnly, ghosts
  <1>3. /\ b \in Boards /\ c \in Cards /\ a \in Attachments
        /\ AttAt("quarantine", j) /\ dir[b] \in [Cards -> Directory \cup {None}]
    BY <1>1, <1>2, AtFiles
  <1>4. dir \in [Boards -> [Cards -> Directory \cup {None}]]
    BY DEF Steady, Inv, Typed, TypeOK
  <1>5. PICK d : d = dir[b][c] /\ d \in Directory \cup {None}
    BY <1>3
  <1>6. CASE o = "ok" /\ dir[b][c] # None /\ a \in dir[b][c].live
    <2>1. dir' = [dir EXCEPT ![b][c] = Binned(d, a)] /\ Goto(p, "write") /\ d # None
      BY <1>1, <1>5, <1>6 DEF QuarantineFile, SetDir
    <2>2. /\ dir'[b][c] = Binned(d, a)
          /\ \A e \in Boards : \A f \in Cards : e # b \/ f # c => dir'[e][f] = dir[e][f]
      BY <1>3, <1>4, <2>1, SetOne
    <2>3. FilesAt(d) \subseteq FilesAt(Binned(d, a))
      BY <1>3, <1>5, <2>1, FileMoves
    <2>4. \A x \in FilesOf(b, c) : x \in FilesAt(dir'[b][c]) \cup FilesAt(bin'[b][c])
      BY <1>2, <1>5, <2>2, <2>3 DEF FilesOf
    <2>5. AttAt("write", j)'
      <3>1. a \in issuedAtts[c]
        BY <1>1, <1>2, <1>3 DEF AttAt, Busy
      <3>2. QED
        BY <1>1, <1>2, <1>3, <3>1 DEF AttAt, ArchiveStages
    <2>6. QED
      BY <1>1, <1>2, <2>1, <2>2, <2>4, <2>5, FilesTended
  <1>7. CASE ~(o = "ok" /\ dir[b][c] # None /\ a \in dir[b][c].live)
    <2>1. dir' = dir /\ Goto(p, "error")
      BY <1>1, <1>7 DEF QuarantineFile
    <2>2. QED
      BY <1>2, <2>1, UntouchedTended
  <1>8. QED
    BY <1>6, <1>7

LEMMA QuarantineDirectoryTended ==
  ASSUME NEW p \in Procs, Steady(p), NEW o \in Outcomes, QuarantineDirectory(p, o)
  PROVE  Tended'
  <1>1. PICK j, b, c : j = job[p] /\ b = j.board /\ c = j.card
    OBVIOUS
  <1>2. pc[p] = "quarantine" /\ j.undo = "directory" /\ UNCHANGED <<job, issued, issuedAtts>>
    BY <1>1 DEF QuarantineDirectory, IoOnly, ghosts
  <1>3. b \in Boards /\ c \in Cards
    BY <1>1, <1>2, AtFiles
  <1>4. /\ dir \in [Boards -> [Cards -> Directory \cup {None}]]
        /\ bin \in [Boards -> [Cards -> Directory \cup {None}]]
    BY DEF Steady, Inv, Typed, TypeOK
  <1>5. PICK d : d = dir[b][c]
    OBVIOUS
  <1>6. CASE o = "ok" /\ Replaceable(bin[b][c])
    <2>1. PICK stage \in {"write", "journal"} :
            /\ Goto(p, stage)
            /\ dir' = [dir EXCEPT ![b][c] = None] /\ bin' = [bin EXCEPT ![b][c] = d]
      BY <1>1, <1>5, <1>6 DEF QuarantineDirectory, SetDir, SetBin
    <2>2. /\ dir'[b][c] = None /\ bin'[b][c] = d
          /\ \A e \in Boards : \A f \in Cards :
               e # b \/ f # c => dir'[e][f] = dir[e][f] /\ bin'[e][f] = bin[e][f]
      BY <1>3, <1>4, <2>1, SetOne
    <2>3. FilesAt(bin[b][c]) = {}
      BY <1>6 DEF Replaceable, EmptyDir, FilesAt
    <2>4. \A x \in FilesOf(b, c) : x \in FilesAt(dir'[b][c]) \cup FilesAt(bin'[b][c])
      BY <1>5, <2>2, <2>3 DEF FilesOf
    <2>5. AttAt(stage, j)'
      BY <1>1, <1>2, <1>3, <2>2 DEF AttAt, Busy, ArchiveStages
    <2>6. QED
      BY <1>1, <1>2, <2>1, <2>2, <2>4, <2>5, FilesTended
  <1>7. CASE ~(o = "ok" /\ Replaceable(bin[b][c]))
    <2>1. dir' = dir /\ bin' = bin /\ Goto(p, "error")
      BY <1>1, <1>7 DEF QuarantineDirectory
    <2>2. QED
      BY <1>2, <2>1, UntouchedTended
  <1>8. QED
    BY <1>6, <1>7

\* A card no list will ever have again names nothing.
LEMMA DeadUnnamed ==
  ASSUME Tended, NEW c \in Cards, Dead(c), NEW a
  PROVE  ~NamedBy(c, a)
  <1> SUFFICES ASSUME NEW b \in Boards, NEW k \in Kinds, a \in Effective[b][k].cards[c].atts
               PROVE  FALSE
    BY DEF NamedBy, NamedOn
  <1>1. Has(Effective[b][k], c)
    BY DEF Tended, Bare, Tidy
  <1>2. QED
    BY <1>1 DEF Dead, Somewhere

LEMMA UndoTended ==
  ASSUME NEW p \in Procs, Steady(p), NEW o \in Outcomes, Undo(p, o)
  PROVE  Tended'
  <1>1. PICK j, b, c, a : j = job[p] /\ b = j.board /\ c = j.card /\ a = j.att
    OBVIOUS
  <1>2. pc[p] = "undo" /\ Goto(p, "error") /\ UNCHANGED <<job, issued, issuedAtts>>
    BY DEF Undo, IoOnly, ghosts
  <1>3. /\ b \in Boards /\ c \in Cards /\ (j.undo # "directory" => a \in Attachments)
        /\ AttAt("undo", j)
        /\ dir[b] \in [Cards -> Directory \cup {None}]
    BY <1>1, <1>2, AtFiles
  <1>4. /\ dir \in [Boards -> [Cards -> Directory \cup {None}]]
        /\ bin \in [Boards -> [Cards -> Directory \cup {None}]]
    BY DEF Steady, Inv, Typed, TypeOK
  <1>5. PICK d, q : d = dir[b][c] /\ d \in Directory \cup {None} /\ q = bin[b][c]
    BY <1>3
  <1>6. AttAt("error", j)'
    BY DEF AttAt, Busy, ArchiveStages
  <1>7. CASE o = "fail"
    <2>1. dir' = dir /\ bin' = bin
      BY <1>7 DEF Undo
    <2>2. QED
      BY <1>2, <2>1, UntouchedTended
  <1>8. CASE o # "fail" /\ j.undo = "upload" /\ SetDir(b, c, RemoveFile(d, a)) /\ bin' = bin
    <2>1. ~NamedBy(c, a)
      <3>1. ~NamedBy(j.card, j.att)
        BY <1>3, <1>8 DEF AttAt, Busy
      <3>2. QED
        BY <1>1, <3>1
    <2>2. FilesAt(d) \subseteq FilesAt(RemoveFile(d, a)) \cup {a}
      BY <1>3, <1>5, <1>8, FileMoves
    <2>3. /\ dir'[b][c] = RemoveFile(d, a)
          /\ \A x \in Boards : \A f \in Cards : x # b \/ f # c => dir'[x][f] = dir[x][f]
      BY <1>3, <1>4, <1>8, SetOne DEF SetDir
    <2>4. \A x \in FilesOf(b, c) :
            x \in FilesAt(dir'[b][c]) \cup FilesAt(bin'[b][c]) \/ ~NamedBy(c, x)
      BY <1>5, <1>8, <2>1, <2>2, <2>3 DEF FilesOf
    <2>5. QED
      BY <1>1, <1>2, <1>6, <1>8, <2>3, <2>4, FilesTended
  <1>9. CASE o # "fail" /\ j.undo = "file" /\ SetDir(b, c, Unbinned(d, a)) /\ bin' = bin
    <2>1. \A x \in FilesAt(d) : x \in FilesAt(Unbinned(d, a))
      BY <1>3, <1>5, <1>9, FileMoves
    <2>2. /\ dir'[b][c] = Unbinned(d, a)
          /\ \A x \in Boards : \A f \in Cards : x # b \/ f # c => dir'[x][f] = dir[x][f]
      BY <1>3, <1>4, <1>9, SetOne DEF SetDir
    <2>3. \A x \in FilesOf(b, c) : x \in FilesAt(dir'[b][c]) \cup FilesAt(bin'[b][c])
      BY <1>5, <1>9, <2>1, <2>2 DEF FilesOf
    <2>4. QED
      BY <1>1, <1>2, <1>6, <1>9, <2>2, <2>3, FilesTended
  <1>10. CASE o # "fail" /\ j.undo = "directory" /\ SetDir(b, c, q) /\ SetBin(b, c, None)
    <2>1. d = None
      BY <1>1, <1>3, <1>5, <1>10 DEF AttAt
    <2>2. dir' = [dir EXCEPT ![b][c] = q] /\ bin' = [bin EXCEPT ![b][c] = None]
      BY <1>10 DEF SetDir, SetBin
    <2>3. /\ dir'[b][c] = q /\ bin'[b][c] = None
          /\ \A x \in Boards : \A f \in Cards :
               x # b \/ f # c => dir'[x][f] = dir[x][f] /\ bin'[x][f] = bin[x][f]
      BY <1>3, <1>4, <2>2, SetOne
    <2>4. \A x \in FilesOf(b, c) : x \in FilesAt(dir'[b][c]) \cup FilesAt(bin'[b][c])
      BY <1>5, <2>1, <2>3 DEF FilesOf, FilesAt
    <2>5. QED
      BY <1>1, <1>2, <1>6, <2>3, <2>4, FilesTended
  <1>11. QED
    BY <1>1, <1>5, <1>7, <1>8, <1>9, <1>10 DEF Undo

LEMMA PurgeTended ==
  ASSUME NEW p \in Procs, Steady(p), NEW o \in Outcomes, Purge(p, o)
  PROVE  Tended'
  <1>1. PICK j, b, c, a : j = job[p] /\ b = j.board /\ c = j.card /\ a = j.att
    OBVIOUS
  <1>2. pc[p] = "purge" /\ UNCHANGED <<job, issued, issuedAtts>>
    BY DEF Purge, IoOnly, ghosts
  <1>3. PICK stage \in {"ok", "error"} : Goto(p, stage)
    BY DEF Purge
  <1>4. /\ b \in Boards /\ c \in Cards /\ (j.undo # "directory" => a \in Attachments)
        /\ AttAt("purge", j)
        /\ dir[b] \in [Cards -> Directory \cup {None}]
    BY <1>1, <1>2, AtFiles
  <1>5. /\ dir \in [Boards -> [Cards -> Directory \cup {None}]]
        /\ bin \in [Boards -> [Cards -> Directory \cup {None}]]
    BY DEF Steady, Inv, Typed, TypeOK
  <1>6. PICK d : d = dir[b][c] /\ d \in Directory \cup {None}
    BY <1>4
  <1>7. AttAt(stage, j)'
    BY <1>3 DEF AttAt, Busy, ArchiveStages
  <1>8. CASE o = "fail"
    <2>1. dir' = dir /\ bin' = bin
      BY <1>8 DEF Purge
    <2>2. QED
      BY <1>2, <1>3, <2>1, UntouchedTended
  <1>9. CASE o # "fail" /\ j.undo = "file" /\ SetDir(b, c, RemoveBinned(d, a)) /\ bin' = bin
    <2>1. ~NamedBy(c, a)
      BY <1>1, <1>4, <1>9 DEF AttAt, Busy
    <2>2. FilesAt(d) \subseteq FilesAt(RemoveBinned(d, a)) \cup {a}
      BY <1>4, <1>6, <1>9, FileMoves
    <2>3. /\ dir'[b][c] = RemoveBinned(d, a)
          /\ \A x \in Boards : \A f \in Cards : x # b \/ f # c => dir'[x][f] = dir[x][f]
      BY <1>4, <1>5, <1>9, SetOne DEF SetDir
    <2>4. \A x \in FilesOf(b, c) :
            x \in FilesAt(dir'[b][c]) \cup FilesAt(bin'[b][c]) \/ ~NamedBy(c, x)
      BY <1>6, <1>9, <2>1, <2>2, <2>3 DEF FilesOf
    <2>5. QED
      BY <1>1, <1>2, <1>3, <1>7, <1>9, <2>3, <2>4, FilesTended
  <1>10. CASE o # "fail" /\ j.undo = "directory" /\ SetBin(b, c, None) /\ dir' = dir
    <2>1. Dead(c)
      <3>1. Dead(j.card)
        BY <1>4, <1>10 DEF AttAt
      <3>2. QED
        BY <1>1, <3>1
    <2>2. \A x : ~NamedBy(c, x)
      BY <1>4, <2>1, DeadUnnamed DEF Steady
    <2>3. \A x \in Boards : \A f \in Cards : x # b \/ f # c => bin'[x][f] = bin[x][f]
      BY <1>4, <1>5, <1>10, SetOne DEF SetBin
    <2>4. QED
      BY <1>1, <1>2, <1>3, <1>7, <1>10, <2>2, <2>3, FilesTended
  <1>11. QED
    BY <1>1, <1>6, <1>8, <1>9, <1>10 DEF Purge

LEMMA AttachmentCallTended ==
  ASSUME NEW p \in Procs, Steady(p), NEW o \in Outcomes,
         \/ Upload(p) \/ UploadRefused(p)
         \/ QuarantineFile(p, o) \/ QuarantineDirectory(p, o) \/ Undo(p, o) \/ Purge(p, o)
  PROVE  Tended'
  BY UploadTended, QuarantineFileTended, QuarantineDirectoryTended, UndoTended, PurgeTended

-----------------------------------------------------------------------------
(* The commits on one board.                                               *)

\* The call that commits installs what was rendered, and nothing else.
LEMMA CommitEffect ==
  ASSUME Inv, Inv', NEW p \in Procs, NEW o \in Outcomes, Installs(o), NEW j, j = job[p],
         WriteActive(p, o) \/ CommitArchive(p, o)
  PROVE  /\ j.board \in Boards /\ j.mode = "live"
         /\ RenderedFrom(Effective[j.board], j)
         /\ Effective'[j.board] = j.after
         /\ \A e \in Boards : e # j.board => Effective'[e] = Effective[e]
  <1>1. Typed /\ Disciplined /\ job' = job /\ moveWal' = moveWal /\ pc[p] \in {"write", "journal"}
    BY DEF Inv, WriteActive, CommitArchive, WalOnly
  <1>2. PICK b : b = j.board
    OBVIOUS
  <1>3. /\ b \in Boards /\ Clear(p) /\ b \in held[p] /\ j.after \in Content
        /\ file \in [Boards -> [Kinds -> Image]] /\ wal \in [Boards -> Content \cup {None}]
    BY <1>1, <1>2, AtCall, AtPosted DEF PostedAt, QuietStages, Typed, TypeOK, Content
  <1>4. RenderedAt(pc[p], j)
    BY AtOwn
  <1>5. wal[b] = None /\ \A pr \in Pending : b \notin pr
    BY <1>3 DEF Clear
  <1>6. Effective[b] = file[b]
    BY <1>1, <1>3, <1>5, EffectiveClear DEF ClearViewed
  <1>7. RenderedFrom(Effective[b], j) /\ j.mode = "live"
    BY <1>1, <1>2, <1>4, <1>6 DEF RenderedAt, RenderStages
  <1>8. PICK stage : Goto(p, stage) /\ stage \notin ApplyingStages
    <2>1. Succeeded(j) \in {"recover", "purge", "ok"} /\ Failed(j) \in {"undo", "error"}
      BY DEF Succeeded, Failed
    <2>2. QED
      BY <2>1 DEF WriteActive, CommitArchive, ApplyingStages
  <1>9. \A pr \in Pairs : Applying(pr)' <=> Applying(pr)
    <2>1. job' = [job EXCEPT ![p] = j] /\ pc[p] \notin ApplyingStages
      BY <1>1, SameJob DEF ApplyingStages
    <2>2. QED
      BY <1>1, <1>8, <2>1, NoneApplied
  <1>10. CASE WriteActive(p, o)
    <2>1. /\ wal' = wal /\ pc[p] = "write"
          /\ file' = [file EXCEPT ![b]["active"] = j.after["active"]]
      BY <1>2, <1>10 DEF WriteActive, WalOnly
    <2>2. /\ file'[b] = [file[b] EXCEPT !["active"] = j.after["active"]]
          /\ \A e \in Boards : e # b => file'[e] = file[e]
      BY <1>3, <2>1
    <2>3. j.after["archive"] = file[b]["archive"]
      BY <1>2, <1>4, <2>1 DEF RenderedAt, RenderStages, OneFile
    <2>4. file'[b] = j.after
      BY <1>3, <2>2, <2>3 DEF Kinds, Content
    <2>5. ClearViewed'
      BY EffectiveClear, PTL DEF Inv
    <2>6. Pending' = Pending
      BY <1>1 DEF Pending
    <2>7. Effective'[b] = j.after
      BY <1>3, <1>5, <2>1, <2>4, <2>5, <2>6 DEF ClearViewed
    <2>8. \A e \in Boards : e # b => Effective'[e] = Effective[e]
      BY <1>1, <1>9, <2>1, <2>2, SameBoard
    <2>9. QED
      BY <1>2, <1>3, <1>7, <2>7, <2>8
  <1>11. CASE CommitArchive(p, o)
    <2>1. file' = file /\ wal' = [wal EXCEPT ![b] = j.after]
      BY <1>2, <1>11 DEF CommitArchive, WalOnly
    <2>2. /\ wal'[b] = j.after /\ j.after # None
          /\ \A e \in Boards : e # b => wal'[e] = wal[e]
      BY <1>3, <2>1, NoneIsNoRecord
    <2>3. WalViewed'
      BY EffectiveWal, PTL DEF Inv
    <2>4. Effective'[b] = j.after
      BY <1>3, <2>2, <2>3 DEF WalViewed
    <2>5. \A e \in Boards : e # b => Effective'[e] = Effective[e]
      BY <1>1, <1>9, <2>1, <2>2, SameBoard
    <2>6. QED
      BY <1>2, <1>3, <1>7, <2>4, <2>5
  <1>12. QED
    BY <1>10, <1>11

\* Every card is on one list.
LEMMA ListedOnce ==
  ASSUME Inv, NEW b \in Boards, NEW k \in Kinds, NEW c \in Cards, Has(Effective[b][k], c)
  PROVE  \A e \in Boards : \A l \in Kinds : Has(Effective[e][l], c) => e = b /\ l = k
  BY DEF Inv, Abstract!Sound, Abstract!OneList, Abstract!Has, Abstract!Kinds, Has, Kinds

\* From the commit of its deletion on, a card is on no list and will be on none.
LEMMA DeletionKills ==
  ASSUME NEW p \in Procs, Steady(p), NEW o \in Outcomes, Installs(o),
         WriteActive(p, o) \/ CommitArchive(p, o),
         NEW j, j = job[p], j.undo = "directory", NEW c, c = j.card,
         NEW stage, Goto(p, stage), ~Creates(stage, j), issued' = issued
  PROVE  c \in Cards /\ Dead(c)'
  <1>1. Inv /\ Inv' /\ Typed /\ Fresh /\ job' = job
    BY DEF Steady, Inv, Kept, WriteActive, CommitArchive, WalOnly
  <1>2. PICK b, old : b = j.board /\ old = Effective[b]
    OBVIOUS
  <1>3. /\ b \in Boards /\ RenderedFrom(old, j) /\ Effective'[b] = j.after
        /\ \A e \in Boards : e # b => Effective'[e] = Effective[e]
    BY <1>1, <1>2, CommitEffect
  <1>4. /\ c \in Cards
        /\ \/ Has(old["active"], c) /\ j.after = Deleted(old, c)
           \/ ~Has(old["active"], c) /\ Has(old["archive"], c) /\ j.after = DeletedArchived(old, c)
    BY <1>3 DEF RenderedFrom
  <1>5. old \in Content
    BY <1>1, <1>2, <1>3, EffectiveType DEF Inv
  <1>6. PICK k \in Kinds : Has(Effective[b][k], c) /\ j.after[k].cards = [old[k].cards EXCEPT ![c] = NoCard]
    <2>1. CASE Has(old["active"], c) /\ j.after = Deleted(old, c)
      <3>1. Deleted(old, c)["active"].cards = [old["active"].cards EXCEPT ![c] = NoCard]
        BY <1>4, <1>5, DeletedCards
      <3>2. QED
        BY <1>2, <2>1, <3>1 DEF Kinds
    <2>2. CASE Has(old["archive"], c) /\ j.after = DeletedArchived(old, c)
      <3>1. DeletedArchived(old, c)["archive"].cards = [old["archive"].cards EXCEPT ![c] = NoCard]
        BY <1>4, <1>5, DeletedCards
      <3>2. QED
        BY <1>2, <2>2, <3>1 DEF Kinds
    <2>3. QED
      BY <1>4, <2>1, <2>2
  <1>7. \A l \in Kinds : l # k => j.after[l].cards = old[l].cards
    <2>1. /\ Deleted(old, c)["archive"].cards = old["archive"].cards
          /\ DeletedArchived(old, c)["active"].cards = old["active"].cards
      BY <1>4, <1>5, DeletedCards
    <2>2. Has(old[k], c) /\ \A l \in Kinds : Has(old[l], c) => l = k
      BY <1>1, <1>2, <1>3, <1>4, <1>6, ListedOnce
    <2>3. QED
      BY <1>4, <2>1, <2>2 DEF Kinds
  <1>8. Somewhere(c) /\ c \in issued
    BY <1>1, <1>3, <1>4, <1>6 DEF Somewhere, Fresh
  <1>9. ~Somewhere(c)'
    <2> SUFFICES ASSUME NEW e \in Boards, NEW l \in Kinds, Has(Effective'[e][l], c) PROVE FALSE
      BY DEF Somewhere, Has
    <2>1. \A x \in Boards : \A y \in Kinds : Has(Effective[x][y], c) => x = b /\ y = k
      BY <1>1, <1>3, <1>4, <1>6, ListedOnce
    <2>2. CASE e # b
      BY <1>3, <2>1, <2>2
    <2>3. CASE e = b /\ l # k
      BY <1>2, <1>3, <1>7, <2>1, <2>3 DEF Has
    <2>4. CASE e = b /\ l = k
      <3>1. old[k].cards \in [Cards -> Card]
        BY <1>5, ContentImages DEF Image
      <3>2. j.after[k].cards[c].rev = 0
        BY <1>4, <1>6, <3>1 DEF NoCard
      <3>3. QED
        BY <1>3, <2>4, <3>2 DEF Has
    <2>5. QED
      BY <2>2, <2>3, <2>4
  <1>10. ASSUME NEW q \in Procs, NEW s, NEW i, s = pc'[q], i = job'[q], Creates(s, i)
         PROVE  i.card # c
    <2>1. pc \in [Procs -> Stages]
      BY <1>1 DEF Typed, TypeOK
    <2>2. CASE q = p
      BY <1>1, <1>10, <2>1, <2>2 DEF Goto
    <2>3. CASE q # p
      <3>1. s = pc[q] /\ i = job[q]
        BY <1>1, <1>10, <2>1, <2>3 DEF Goto
      <3>2. QED
        BY <1>1, <1>8, <1>10, <3>1 DEF Fresh, Creating
    <2>4. QED
      BY <2>2, <2>3
  <1>11. QED
    BY <1>4, <1>8, <1>9, <1>10 DEF Dead

\* The list an attachment is deleted from.
LEMMA DetachedNames ==
  ASSUME NEW x \in Content, NEW c \in Cards, NEW a \in Attachments
  PROVE  /\ a \notin Detached(x, c, a)["active"].cards[c].atts
         /\ Detached(x, c, a)["archive"].cards = x["archive"].cards
  <1>1. x["active"] \in Image /\ x["archive"] \in Image
    BY ContentImages
  <1>2. PICK card : card = [rev |-> x["active"].cards[c].rev + 1,
                            atts |-> x["active"].cards[c].atts \ {a}]
    OBVIOUS
  <1>3. card \in Card /\ a \notin card.atts
    BY <1>1, <1>2, CardOf DEF Card
  <1>4. Detached(x, c, a) = Pair(Put(x["active"], c, card), x["archive"])
    BY <1>2 DEF Detached
  <1>5. /\ Put(x["active"], c, card) \in Image
        /\ Put(x["active"], c, card).cards = [x["active"].cards EXCEPT ![c] = card]
    BY <1>1, <1>3, PutType
  <1>6. /\ Detached(x, c, a)["active"].cards = [x["active"].cards EXCEPT ![c] = card]
        /\ Detached(x, c, a)["archive"].cards = x["archive"].cards
    BY <1>1, <1>4, <1>5, PairCards
  <1>7. Detached(x, c, a)["active"].cards[c] = card
    BY <1>1, <1>6 DEF Image
  <1>8. QED
    BY <1>3, <1>6, <1>7

\* From the commit of its deletion on, an attachment is named by no list.
LEMMA DetachUnnames ==
  ASSUME NEW p \in Procs, Steady(p), NEW o \in Outcomes, Installs(o), WriteActive(p, o),
         NEW j, j = job[p], j.undo = "file", NEW c, c = j.card, NEW a, a = j.att
  PROVE  c \in Cards /\ ~NamedBy(c, a)'
  <1>1. Inv /\ Inv' /\ Tended
    BY DEF Steady
  <1>2. PICK b, old : b = j.board /\ old = Effective[b]
    OBVIOUS
  <1>3. /\ b \in Boards /\ RenderedFrom(old, j) /\ Effective'[b] = j.after
        /\ \A e \in Boards : e # b => Effective'[e] = Effective[e]
    BY <1>1, <1>2, CommitEffect
  <1>4. /\ c \in Cards /\ Has(old["active"], c) /\ a \in old["active"].cards[c].atts
        /\ j.after = Detached(old, c, a)
    BY <1>3 DEF RenderedFrom
  <1>5. old \in Content
    BY <1>1, <1>2, <1>3, EffectiveType DEF Inv
  <1>6. a \in Attachments /\ "active" \in Kinds /\ \A k \in Kinds : k \in {"active", "archive"}
    <2>1. "active" \in Kinds /\ \A k \in Kinds : k \in {"active", "archive"}
      BY DEF Kinds
    <2>2. QED
      BY <1>4, <1>5, <2>1, ContentImages, CardOf
  <1>7. /\ a \notin j.after["active"].cards[c].atts
        /\ j.after["archive"].cards = old["archive"].cards
    <2>1. a \notin Detached(old, c, a)["active"].cards[c].atts
      BY <1>4, <1>5, <1>6, DetachedNames
    <2>2. Detached(old, c, a)["archive"].cards = old["archive"].cards
      BY <1>4, <1>5, <1>6, DetachedNames
    <2>3. QED
      BY <1>4, <2>1, <2>2
  <1>8. ASSUME NEW e \in Boards, NEW k \in Kinds, e # b \/ k = "archive"
        PROVE  Effective[e][k].cards[c].atts = {}
    <2>1. ~Has(Effective[e][k], c)
      BY <1>1, <1>2, <1>3, <1>4, <1>6, <1>8, ListedOnce
    <2>2. QED
      BY <1>1, <1>4, <2>1 DEF Tended, Bare, Tidy
  <1>9. ASSUME NEW e \in Boards, NEW k \in Kinds, a \in Effective'[e][k].cards[c].atts PROVE FALSE
    <2>1. CASE e # b
      BY <1>3, <1>8, <1>9, <2>1
    <2>2. CASE e = b /\ k = "archive"
      BY <1>2, <1>3, <1>7, <1>8, <1>9, <2>2
    <2>3. CASE e = b /\ k = "active"
      BY <1>3, <1>7, <1>9, <2>3
    <2>4. QED
      BY <1>6, <2>1, <2>2, <2>3
  <1>10. QED
    BY <1>4, <1>9 DEF NamedBy, NamedOn

\* A call of a commit leaves the attachment files alone.
LEMMA CommitStep ==
  ASSUME NEW p \in Procs, Steady(p), NEW from, from = pc[p], NEW j, j = job[p],
         from \in {"write", "journal"} \cup ArchiveStages,
         NEW stage, stage \in {"undo", "error", "purge", "ok", "recover"} \cup ArchiveStages,
         Goto(p, stage), UNCHANGED <<job, issued, issuedAtts, dir, bin>>, AttAt(stage, j)'
  PROVE  Tended'
  <1>1. job' = [job EXCEPT ![p] = j]
    BY SameJob DEF Steady, Inv
  <1>2. AttAt(from, j)
    BY DEF Steady, Tended
  <1>3. Turns(p, stage, j)
    BY <1>2 DEF Turns, Creates, RenderStages, ArchiveStages, Busy, AttAt
  <1>4. \A c \in Cards : \A a : Stored(c, a) => Stored(c, a)'
    BY DEF Stored
  <1>5. QED
    BY <1>1, <1>3, <1>4, TendedStep

\* A write that failed installed nothing.
LEMMA Plainly ==
  ASSUME SyncMayFail = FALSE, NEW o \in Outcomes, Io(o)
  PROVE  o # "ok" => ~Installs(o)
  BY DEF Outcomes, Io, Installs

LEMMA WriteActiveTended ==
  ASSUME SyncMayFail = FALSE, NEW p \in Procs, Steady(p), NEW o \in Outcomes, WriteActive(p, o)
  PROVE  Tended'
  <1>1. PICK j : j = job[p]
    OBVIOUS
  <1>2. PICK stage : stage = IF o = "ok" THEN Succeeded(j) ELSE Failed(j)
    OBVIOUS
  <1>3. /\ pc[p] = "write" /\ Goto(p, stage) /\ Io(o)
        /\ UNCHANGED <<wal, moveWal, job, issued, issuedAtts, dir, bin>>
        /\ file' = IF Installs(o)
                   THEN [file EXCEPT ![j.board]["active"] = j.after["active"]] ELSE file
    BY <1>1, <1>2 DEF WriteActive, WalOnly, ghosts
  <1>4. j.mode = "live" /\ AttAt("write", j) /\ Typed
    BY <1>1, <1>3, AtOwn DEF Steady, Inv, Tended, RenderedAt, RenderStages
  <1>5. AttAt(stage, j)'
    <2>1. CASE o # "ok"
      <3>1. stage \in {"undo", "error"} /\ file' = file
        BY <1>2, <1>3, <2>1, Plainly DEF Failed
      <3>2. \A pr \in Pairs : AppliesAt(stage, j, pr) <=> AppliesAt(pc[p], job[p], pr)
        BY <1>3, <3>1 DEF AppliesAt, ApplyingStages
      <3>3. Effective' = Effective
        BY <1>1, <1>3, <1>4, <3>1, <3>2, SameJob, NothingChanges
      <3>4. NamedBy(j.card, j.att)' => NamedBy(j.card, j.att)
        BY <3>3 DEF NamedBy, NamedOn
      <3>5. QED
        BY <1>3, <1>4, <3>1, <3>4 DEF AttAt, Busy, ArchiveStages
    <2>2. CASE o = "ok" /\ j.undo = "file"
      <3>1. stage = "purge" /\ Installs(o)
        BY <1>2, <1>4, <2>2 DEF Succeeded, Installs
      <3>2. PICK c, a : c = j.card /\ a = j.att
        OBVIOUS
      <3>3. c \in Cards /\ ~NamedBy(c, a)'
        BY <1>1, <2>2, <3>1, <3>2, DetachUnnames
      <3>4. ~NamedBy(j.card, j.att)'
        BY <3>2, <3>3
      <3>5. QED
        BY <1>3, <1>4, <2>2, <3>1, <3>4 DEF AttAt, Busy, ArchiveStages
    <2>3. CASE o = "ok" /\ j.undo = "directory"
      <3>1. stage = "purge" /\ Installs(o)
        BY <1>2, <1>4, <2>3 DEF Succeeded, Installs
      <3>2. PICK c : c = j.card
        OBVIOUS
      <3>3. ~Creates(stage, j)
        BY <3>1 DEF Creates, RenderStages
      <3>4. Dead(c)'
        BY <1>1, <1>3, <2>3, <3>1, <3>2, <3>3, DeletionKills
      <3>5. Dead(j.card)'
        BY <3>2, <3>4
      <3>6. QED
        BY <1>3, <1>4, <2>3, <3>1, <3>5 DEF AttAt, Busy, ArchiveStages
    <2>4. CASE o = "ok" /\ j.undo \notin {"file", "directory"}
      <3>1. stage = "ok"
        BY <1>2, <1>4, <2>4 DEF Succeeded
      <3>2. QED
        BY <3>1 DEF AttAt, Busy, ArchiveStages
    <2>5. QED
      BY <2>1, <2>2, <2>3, <2>4
  <1>6. stage \in {"undo", "error", "purge", "ok"}
    BY <1>2, <1>4 DEF Succeeded, Failed
  <1>7. QED
    BY <1>1, <1>3, <1>5, <1>6, CommitStep

LEMMA CommitArchiveTended ==
  ASSUME SyncMayFail = FALSE, NEW p \in Procs, Steady(p), NEW o \in Outcomes, CommitArchive(p, o)
  PROVE  Tended'
  <1>1. PICK j : j = job[p]
    OBVIOUS
  <1>2. PICK stage : stage = IF o = "ok" THEN "applyDone" ELSE Failed(j)
    OBVIOUS
  <1>3. /\ pc[p] = "journal" /\ Goto(p, stage) /\ Io(o)
        /\ UNCHANGED <<job, issued, issuedAtts, dir, bin>>
    BY <1>1, <1>2 DEF CommitArchive, WalOnly, ghosts
  <1>4. AttAt("journal", j) /\ j.undo \notin {"upload", "file"}
    BY <1>1, <1>3 DEF Steady, Tended, AttAt
  <1>5. stage \in {"undo", "error", "applyDone"}
    BY <1>2 DEF Failed
  <1>6. AttAt(stage, j)'
    <2>1. CASE o # "ok" \/ j.undo # "directory"
      BY <1>2, <1>3, <1>4, <1>5, <2>1 DEF AttAt, Busy, ArchiveStages, Failed
    <2>2. CASE o = "ok" /\ j.undo = "directory"
      <3>1. stage = "applyDone" /\ Installs(o)
        BY <1>2, <2>2 DEF Installs
      <3>2. PICK c : c = j.card
        OBVIOUS
      <3>3. ~Creates(stage, j)
        BY <3>1 DEF Creates, RenderStages
      <3>4. Dead(c)'
        BY <1>1, <1>3, <2>2, <3>1, <3>2, <3>3, DeletionKills
      <3>5. Dead(j.card)'
        BY <3>2, <3>4
      <3>6. QED
        BY <1>3, <1>4, <2>2, <3>1, <3>5 DEF AttAt, Busy, ArchiveStages
    <2>3. QED
      BY <2>1, <2>2
  <1>7. QED
    BY <1>1, <1>3, <1>5, <1>6, CommitStep DEF ArchiveStages

LEMMA ApplyArchiveTended ==
  ASSUME NEW p \in Procs, Steady(p), NEW o \in Outcomes,
         ApplyDone(p, o) \/ ApplyBoard(p, o) \/ RemoveArchive(p, o)
  PROVE  Tended'
  <1>1. PICK j, from : j = job[p] /\ from = pc[p]
    OBVIOUS
  <1>2. from \in ArchiveStages /\ UNCHANGED <<job, issued, issuedAtts, dir, bin>>
    BY <1>1 DEF ApplyDone, ApplyBoard, RemoveArchive, WalOnly, ghosts, ArchiveStages
  <1>3. AttAt(from, j) /\ j.undo \notin {"upload", "file"} /\ Typed
    BY <1>1, <1>2 DEF Steady, Inv, Tended, AttAt
  <1>4. PICK stage : /\ stage \in {"undo", "error", "purge", "ok", "recover"} \cup ArchiveStages
                     /\ Goto(p, stage)
    <2>1. Succeeded(j) \in {"recover", "purge", "ok"} /\ Failed(j) \in {"undo", "error"}
      BY DEF Succeeded, Failed
    <2>2. QED
      BY <1>1, <2>1 DEF ApplyDone, ApplyBoard, RemoveArchive, ArchiveStages
  <1>5. ASSUME j.undo = "directory" PROVE Dead(j.card)'
    <2>1. PICK c : c = j.card
      OBVIOUS
    <2>2. Dead(c)
      <3>1. Dead(j.card)
        BY <1>2, <1>3, <1>5 DEF AttAt
      <3>2. QED
        BY <2>1, <3>1
    <2>3. ~Creates(stage, j) /\ job' = [job EXCEPT ![p] = j]
      BY <1>1, <1>2, <1>3, <1>4, SameJob DEF Creates, RenderStages, ArchiveStages
    <2>4. Dead(c)'
      BY <1>2, <1>4, <2>2, <2>3, DeadStays
    <2>5. QED
      BY <2>1, <2>4
  <1>6. AttAt(stage, j)'
    BY <1>2, <1>3, <1>4, <1>5 DEF AttAt, Busy, ArchiveStages
  <1>7. QED
    BY <1>1, <1>2, <1>4, <1>6, CommitStep

-----------------------------------------------------------------------------
(* The calls of a move.                                                    *)

\* A directory that is carried over keeps its files.
LEMMA PlaceKeepsFiles ==
  ASSUME Inv, NEW p \in Procs, NEW o \in Outcomes, PlaceAttachments(p, o),
         NEW f \in Cards, NEW a, Stored(f, a)
  PROVE  Stored(f, a)'
  <1>1. PICK j, m : j = job[p] /\ m = j.move
    OBVIOUS
  <1>2. /\ m.source \in Boards /\ m.destination \in Boards /\ m.source # m.destination
        /\ m.card \in Cards
    <2>1. pc[p] \in {"moveJournal", "rollback"} \cup MoveStages
      BY DEF PlaceAttachments, MoveStages
    <2>2. QED
      BY <1>1, <2>1, AtMove
  <1>3. PICK c, from, to :
          /\ c = m.card
          /\ from = IF m.state = "commit" THEN m.source ELSE m.destination
          /\ to = IF m.state = "commit" THEN m.destination ELSE m.source
    OBVIOUS
  <1>4. /\ bin' = bin
        /\ \/ dir' = dir
           \/ /\ dir[to][c] = None
              /\ dir' = [dir EXCEPT ![from][c] = None, ![to][c] = dir[from][c]]
    BY <1>1, <1>3 DEF PlaceAttachments, MoveOnly
  <1>5. PICK e \in Boards : a \in FilesAt(dir[e][f]) \cup FilesAt(bin[e][f])
    BY DEF Stored
  <1>6. CASE dir' = dir
    BY <1>4, <1>5, <1>6 DEF Stored
  <1>7. CASE dir' # dir
    <2>1. /\ from \in Boards /\ to \in Boards /\ from # to /\ c \in Cards
          /\ dir \in [Boards -> [Cards -> Directory \cup {None}]]
      BY <1>2, <1>3 DEF Inv, Typed, TypeOK
    <2>2. dir[to][c] = None /\ dir' = [dir EXCEPT ![from][c] = None, ![to][c] = dir[from][c]]
      BY <1>4, <1>7
    <2>3. /\ dir'[to][c] = dir[from][c]
          /\ \A b \in Boards : \A g \in Cards : (b # from /\ b # to) \/ g # c => dir'[b][g] = dir[b][g]
      BY <2>1, <2>2
    <2>4. CASE f = c /\ e = from
      BY <1>4, <1>5, <2>1, <2>3, <2>4 DEF Stored
    <2>5. CASE f = c /\ e = to
      BY <1>4, <1>5, <2>1, <2>2, <2>5 DEF Stored, FilesAt
    <2>6. CASE f # c \/ (e # from /\ e # to)
      BY <1>4, <1>5, <2>3, <2>6 DEF Stored
    <2>7. QED
      BY <2>4, <2>5, <2>6
  <1>8. QED
    BY <1>6, <1>7

LEMMA MoveCallTended ==
  ASSUME NEW p \in Procs, Steady(p), NEW o \in Outcomes,
         \/ WriteMoveJournal(p, o) \/ PlaceAttachments(p, o) \/ WriteDestination(p, o)
         \/ WriteSource(p, o) \/ DecideRollback(p, o) \/ RemoveMove(p, o)
  PROVE  Tended'
  <1>1. Inv /\ Typed
    BY DEF Steady, Inv
  <1>2. PICK stage, k :
          /\ stage \in {"recover", "ok", "error", "rollback"} \cup MoveStages
          /\ Goto(p, stage) /\ job' = [job EXCEPT ![p] = k]
    BY <1>1, MoveCallGoes
  <1>3. UNCHANGED <<bin, issued, issuedAtts>>
    BY DEF WriteMoveJournal, PlaceAttachments, WriteDestination, WriteSource, DecideRollback,
           RemoveMove, MoveOnly, ghosts
  <1>4. AttAt(stage, k)' /\ Turns(p, stage, k)
    BY <1>2 DEF AttAt, Turns, Busy, Creates, RenderStages, ArchiveStages, MoveStages
  <1>5. ASSUME NEW f \in Cards, NEW a, Stored(f, a) PROVE Stored(f, a)'
    <2>1. CASE PlaceAttachments(p, o)
      BY <1>1, <1>5, <2>1, PlaceKeepsFiles
    <2>2. CASE ~PlaceAttachments(p, o)
      <3>1. dir' = dir
        BY <2>2 DEF WriteMoveJournal, WriteDestination, WriteSource, DecideRollback, RemoveMove
      <3>2. QED
        BY <1>3, <1>5, <3>1 DEF Stored
    <2>3. QED
      BY <2>1, <2>2
  <1>6. QED
    BY <1>2, <1>3, <1>4, <1>5, TendedStep

-----------------------------------------------------------------------------
(* The invariant.                                                          *)

LEMMA ProcessTended ==
  ASSUME SyncMayFail = FALSE, NEW p \in Procs, Steady(p),
         \/ \E names \in Requests : Enter(p, names)
         \/ Leave(p) \/ Operation(p) \/ Step(p) \/ Crash(p)
  PROVE  Tended'
  <1>1. CASE \/ \E names \in Requests : Enter(p, names)
             \/ Leave(p) \/ Crash(p) \/ Return(p)
    BY <1>1, EnterForgetTended
  <1>2. CASE Operation(p)
    BY <1>2, OperationTended
  <1>3. CASE \/ \E b \in Boards : RecoverArchive(p, b)
             \/ \E pr \in Pairs : RecoverMove(p, pr)
    BY <1>3, RecoverTended
  <1>4. "ok" \in Outcomes
    BY DEF Outcomes
  <1>5. ASSUME NEW o \in Outcomes,
               \/ Upload(p) \/ UploadRefused(p)
               \/ QuarantineFile(p, o) \/ QuarantineDirectory(p, o) \/ Undo(p, o) \/ Purge(p, o)
        PROVE  Tended'
    BY <1>5, AttachmentCallTended
  <1>6. ASSUME NEW o \in Outcomes, WriteActive(p, o) PROVE Tended'
    BY <1>6, WriteActiveTended
  <1>7. ASSUME NEW o \in Outcomes, CommitArchive(p, o) PROVE Tended'
    BY <1>7, CommitArchiveTended
  <1>8. ASSUME NEW o \in Outcomes, ApplyDone(p, o) \/ ApplyBoard(p, o) \/ RemoveArchive(p, o)
        PROVE  Tended'
    BY <1>8, ApplyArchiveTended
  <1>9. ASSUME NEW o \in Outcomes,
               \/ WriteMoveJournal(p, o) \/ PlaceAttachments(p, o) \/ WriteDestination(p, o)
               \/ WriteSource(p, o) \/ DecideRollback(p, o) \/ RemoveMove(p, o)
        PROVE  Tended'
    BY <1>9, MoveCallTended
  <1>10. QED
    BY <1>1, <1>2, <1>3, <1>4, <1>5, <1>6, <1>7, <1>8, <1>9 DEF Step

\* A step of a process is lawful.
LEMMA ProcessLawful ==
  ASSUME Inv, Inv', NEW p \in Procs,
         \/ \E names \in Requests : Enter(p, names)
         \/ Leave(p) \/ Operation(p) \/ Step(p) \/ Crash(p)
  PROVE  Lawful(p)
  <1>1. Typed' /\ Disciplined'
    BY DEF Inv
  <1>2. QED
    BY <1>1, EnterKept, LeaveKept, OperationKept, StepKept, CrashKept

LEMMA NextTended ==
  ASSUME SyncMayFail = FALSE, Inv, Placed, Tended, [Next]_vars
  PROVE  Tended'
  <1>1. Inv'
    BY NextKept
  <1>2. ASSUME NEW p \in Procs,
               \/ \E names \in Requests : Enter(p, names)
               \/ Leave(p) \/ Operation(p) \/ Step(p) \/ Crash(p)
        PROVE  Tended'
    <2>1. TreeLocal(p) /\ Lawful(p)
      BY <1>1, <1>2, ProcessPlaced, ProcessLawful
    <2>2. Steady(p)
      BY <1>1, <2>1 DEF Steady
    <2>3. QED
      BY <1>2, <2>2, ProcessTended
  <1>3. CASE UNCHANGED vars
    <2>1. UNCHANGED <<file, wal, moveWal, dir, bin, pc, job, issued, issuedAtts>>
      BY <1>3 DEF vars, disk, ghosts
    <2>2. \A pr \in Pairs : Applying(pr)' <=> Applying(pr)
      BY <2>1 DEF Applying
    <2>3. \A b \in Boards : Effective'[b] = Effective[b]
      BY <2>1, <2>2, SameBoard
    <2>4. Effective' = Effective
      BY <2>3, SameEffective
    <2>5. QED
      BY <2>1, <2>4 DEF Tended, Bare, Tidy, Has, NamedBy, NamedOn, Stored, AttAt, Busy, Apart,
                        Dead, Somewhere, Creates
  <1>4. QED
    BY <1>2, <1>3 DEF Next, Rest

LEMMA InitTended == Init => Tended
  <1> SUFFICES ASSUME Init PROVE Tended
    OBVIOUS
  <1>1. Typed /\ wal = [b \in Boards |-> None] /\ moveWal = [pr \in Pairs |-> None]
        /\ pc = [p \in Procs |-> "idle"]
    BY InitTyped DEF Init
  <1>2. \A b \in Boards : Effective[b] = file[b]
    BY <1>1, EffectiveClear DEF ClearViewed, Pending
  <1>3. PICK home \in [Seeded -> Boards \X Kinds], carried \in [Seeded -> SUBSET Attachments] :
          /\ file = [b \in Boards |-> [k \in Kinds |->
                       [EmptyImage EXCEPT !.cards = [c \in Cards |->
                          IF c \in Seeded /\ home[c] = <<b, k>>
                          THEN [rev |-> 1, atts |-> carried[c]] ELSE NoCard]]]]
          /\ dir = [b \in Boards |-> [c \in Cards |->
                      IF c \in Seeded /\ home[c][1] = b /\ carried[c] # {}
                      THEN [live |-> carried[c], bin |-> {}] ELSE None]]
          /\ issuedAtts = [c \in Cards |-> IF c \in Seeded THEN carried[c] ELSE {}]
    BY DEF Init
  <1>4. ASSUME NEW b \in Boards, NEW k \in Kinds, NEW c \in Cards, NEW card,
               card = Effective[b][k].cards[c]
        PROVE  IF c \in Seeded /\ home[c] = <<b, k>> THEN card.rev = 1 /\ card.atts = carried[c]
                                                     ELSE card.atts = {}
    <2> DEFINE cards == [x \in Cards |-> IF x \in Seeded /\ home[x] = <<b, k>>
                                         THEN [rev |-> 1, atts |-> carried[x]] ELSE NoCard]
    <2>1. file[b][k] = [EmptyImage EXCEPT !.cards = cards]
      BY <1>3
    <2>2. cards[c] = IF c \in Seeded /\ home[c] = <<b, k>>
                     THEN [rev |-> 1, atts |-> carried[c]] ELSE NoCard
      OBVIOUS
    <2> HIDE DEF cards
    <2>3. card = cards[c]
      BY <1>2, <1>4, <2>1 DEF EmptyImage
    <2>4. CASE c \in Seeded /\ home[c] = <<b, k>>
      BY <2>2, <2>3, <2>4
    <2>5. CASE ~(c \in Seeded /\ home[c] = <<b, k>>)
      BY <2>2, <2>3, <2>5 DEF NoCard
    <2>6. QED
      BY <2>4, <2>5
  <1>5. Bare
    <2> SUFFICES ASSUME NEW b \in Boards, NEW k \in Kinds, NEW c \in Cards
                 PROVE  Has(Effective[b][k], c) \/ Effective[b][k].cards[c].atts = {}
      BY DEF Bare, Tidy
    <2>1. PICK card : card = Effective[b][k].cards[c]
      OBVIOUS
    <2>2. card.rev = 1 \/ card.atts = {}
      BY <1>4, <2>1
    <2>3. QED
      BY <2>1, <2>2 DEF Has
  <1>6. ASSUME NEW c \in Cards, NEW a, NamedBy(c, a) PROVE a \in issuedAtts[c] /\ Stored(c, a)
    <2>1. PICK b \in Boards, k \in Kinds : a \in Effective[b][k].cards[c].atts
      BY <1>6 DEF NamedBy, NamedOn
    <2>2. c \in Seeded /\ home[c] = <<b, k>> /\ a \in carried[c]
      BY <1>4, <2>1
    <2>3. PICK d : d = [live |-> carried[c], bin |-> {}]
      OBVIOUS
    <2>4. d \in Directory /\ d # None /\ a \in d.live
      BY <1>3, <2>2, <2>3, NoneIsNoRecord DEF Directory
    <2>5. dir[b][c] = d
      BY <1>3, <2>2, <2>3
    <2>6. a \in FilesAt(dir[b][c])
      BY <2>4, <2>5 DEF FilesAt
    <2>7. QED
      BY <1>3, <2>2, <2>6 DEF Stored
  <1>7. \A p \in Procs : \A stage, j : stage = pc[p] /\ j = job[p] => AttAt(stage, j) /\ ~Busy(stage, j)
    BY <1>1 DEF AttAt, Busy, ArchiveStages
  <1>8. QED
    BY <1>5, <1>6, <1>7 DEF Tended, Apart

\* While no directory sync fails, the bytes of an attachment that some card names
\* are in the tree, whoever died or failed at whichever call: an upload is undone
\* only before its commit (AddAttachment), and what a deletion moved
\* aside is destroyed only after its own (DeleteAttachment, DeleteCard).
THEOREM StoreRetainsAttachments ==
  ASSUME SyncMayFail = FALSE
  PROVE  Spec => []AttachmentsRetained
  <1>1. Tended => AttachmentsRetained
    BY DEF Tended, AttachmentsRetained, NamedBy, NamedOn, Stored
  <1>2. Init => Inv /\ Placed /\ Tended
    BY InitInv, InitPlaced, InitTended
  <1>3. Inv /\ Placed /\ Tended /\ [Next]_vars => (Inv /\ Placed /\ Tended)'
    BY NextKept, NextPlaced, NextTended
  <1>4. QED
    BY <1>1, <1>2, <1>3, PTL DEF Spec

=============================================================================
