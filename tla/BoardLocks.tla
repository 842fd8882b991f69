----------------------------- MODULE BoardLocks -----------------------------
(***************************************************************************)
(* How a Kanban store operation comes to hold its boards                   *)
(* (internal/kanban/board/store.go, withBoardLocksMode) and how boards     *)
(* come and go (CreateBoard, EnsureBoard, DeleteBoard).                    *)
(*                                                                         *)
(* Threads share a store and its mutex; several stores, each in a process  *)
(* of its own, share the directory tree.  A board is a directory; its lock *)
(* is a flock on the file .lock inside, so it belongs to one generation of *)
(* the directory and goes with it.  Names are numbers: the store sorts     *)
(* them.  The content of the boards is the subject of BoardStore, which    *)
(* takes the locks of an operation in one step.                            *)
(***************************************************************************)
EXTENDS Naturals, FiniteSets, LockClosure

CONSTANTS
  Boards,          \* board names
  Existing,        \* the boards there are at the start
  Threads, Stores, StoreOf,
  None,
  MaxOps,          \* bound: operations begun
  MaxMishaps,      \* bound: failing writes and replays, and processes that die
  MaxGenerations   \* bound: how often one board's directory is made

ASSUME LocksAssumption ==
  /\ Boards \subseteq Nat /\ Existing \subseteq Boards
  /\ StoreOf \in [Threads -> Stores]
  /\ None \notin Threads
  /\ MaxOps \in Nat /\ MaxMishaps \in Nat /\ MaxGenerations \in Nat \ {0}

VARIABLES
  mutex,      \* mutex[s]: the thread that holds the mutex of store s
  gen,        \* gen[b]: generation of the directory of b, 0 when there is none
  made,       \* made[b]: generations of it so far
  files,      \* files[b]: which of board.md ("active"), done.md ("archive") it has
  pending,    \* pairs of boards with a cross-board move journal
  owner,      \* owner[b][g]: the thread with the flock on generation g of b
  pc, op, names,
  lockNames,  \* lockNames[t]: the boards t is about to lock or has locked
  got,        \* got[t]: the locks it has, <<board, generation>>
  opened,     \* opened[t]: the generation whose .lock it has just opened
  todo,       \* todo[t]: the journals it has yet to replay
  orphaned,   \* has any thread gone on with the lock of a deleted directory?
  ops, mishaps

tree   == <<gen, made, files, pending>>
locks  == <<mutex, owner>>
local  == <<op, names, lockNames, got, opened, todo>>
bounds == <<ops, mishaps>>
vars   == <<tree, locks, pc, local, orphaned, bounds>>

Kinds == {"active", "archive"}

Pairs == {pr \in SUBSET Boards : Cardinality(pr) = 2}

Operations == {"load", "edit", "move", "create", "ensure", "delete"}

Inside == {"in", "moving", "createArchive", "createActive", "ensureArchive"}

TypeOK ==
  /\ mutex \in [Stores -> Threads \cup {None}]
  /\ gen \in [Boards -> 0..MaxGenerations] /\ made \in [Boards -> 0..MaxGenerations]
  /\ files \in [Boards -> SUBSET Kinds]
  /\ pending \subseteq Pairs
  /\ owner \in [Boards -> [1..MaxGenerations -> Threads \cup {None}]]
  /\ pc \in [Threads -> Inside \cup {"idle", "mutex", "stat", "scan", "open", "flock",
                                     "rescan", "recover"}]
  /\ op \in [Threads -> Operations \cup {None}]
  /\ names \in [Threads -> SUBSET Boards]
  /\ lockNames \in [Threads -> SUBSET Boards]
  /\ got \in [Threads -> SUBSET (Boards \X (1..MaxGenerations))]
  /\ opened \in [Threads -> 0..MaxGenerations]
  /\ todo \in [Threads -> SUBSET Pairs]
  /\ orphaned \in BOOLEAN
  /\ ops \in 0..MaxOps /\ mishaps \in 0..MaxMishaps

\* The tree is quiet; some boards exist.
Init ==
  /\ mutex = [s \in Stores |-> None]
  /\ gen = [b \in Boards |-> IF b \in Existing THEN 1 ELSE 0]
  /\ made = gen
  /\ files = [b \in Boards |-> IF gen[b] = 0 THEN {} ELSE Kinds]
  /\ pending = {}
  /\ owner = [b \in Boards |-> [g \in 1..MaxGenerations |-> None]]
  /\ pc = [t \in Threads |-> "idle"]
  /\ op = [t \in Threads |-> None]
  /\ names = [t \in Threads |-> {}]
  /\ lockNames = [t \in Threads |-> {}]
  /\ got = [t \in Threads |-> {}]
  /\ opened = [t \in Threads |-> 0]
  /\ todo = [t \in Threads |-> {}]
  /\ orphaned = FALSE
  /\ ops = 0 /\ mishaps = 0

-----------------------------------------------------------------------------

Goto(t, stage) == pc' = [pc EXCEPT ![t] = stage]

Mishap == mishaps < MaxMishaps /\ mishaps' = mishaps + 1 /\ UNCHANGED ops

\* The flocks after the threads of ts have closed their descriptors.
Unlocked(ts) ==
  [b \in Boards |-> [g \in 1..MaxGenerations |->
     IF owner[b][g] \in ts THEN None ELSE owner[b][g]]]

Forget(ts) ==
  /\ owner' = Unlocked(ts)
  /\ mutex' = [s \in Stores |-> IF mutex[s] \in ts THEN None ELSE mutex[s]]
  /\ pc' = [t \in Threads |-> IF t \in ts THEN "idle" ELSE pc[t]]
  /\ op' = [t \in Threads |-> IF t \in ts THEN None ELSE op[t]]
  /\ opened' = [t \in Threads |-> IF t \in ts THEN 0 ELSE opened[t]]
  /\ names' = [t \in Threads |-> IF t \in ts THEN {} ELSE names[t]]
  /\ lockNames' = [t \in Threads |-> IF t \in ts THEN {} ELSE lockNames[t]]
  /\ got' = [t \in Threads |-> IF t \in ts THEN {} ELSE got[t]]
  /\ todo' = [t \in Threads |-> IF t \in ts THEN {} ELSE todo[t]]

\* The operation returns, with or without an error.
Return(t) == Forget({t})

\* A process dies with all the threads of its store.
Crash(s) ==
  /\ Mishap
  /\ mutex[s] # None
  /\ Forget({t \in Threads : StoreOf[t] = s})
  /\ UNCHANGED <<tree, orphaned>>

-----------------------------------------------------------------------------
(* Getting in.                                                             *)

Begin(t, kind, ns) ==
  /\ pc[t] = "idle"
  /\ ops < MaxOps
  /\ ops' = ops + 1
  /\ op' = [op EXCEPT ![t] = kind]
  /\ names' = [names EXCEPT ![t] = ns]
  /\ lockNames' = [lockNames EXCEPT ![t] = ns]
  /\ Goto(t, "mutex")
  /\ UNCHANGED <<tree, locks, got, opened, todo, orphaned, mishaps>>

TakeMutex(t) ==
  /\ pc[t] = "mutex"
  /\ mutex[StoreOf[t]] = None
  /\ mutex' = [mutex EXCEPT ![StoreOf[t]] = t]
  /\ Goto(t, "stat")
  /\ UNCHANGED <<tree, owner, local, orphaned, bounds>>

\* withLock makes the directory of a board it does not find.
Creates(t) == op[t] \in {"edit", "create", "ensure"}

Missing(t) == {b \in names[t] : gen[b] = 0}

MakeDirectories(bs) ==
  /\ \A b \in bs : made[b] < MaxGenerations
  /\ made' = [b \in Boards |-> IF b \in bs THEN made[b] + 1 ELSE made[b]]
  /\ gen' = [b \in Boards |-> IF b \in bs THEN made[b] + 1 ELSE gen[b]]

Stat(t) ==
  /\ pc[t] = "stat"
  /\ Missing(t) = {} \/ Creates(t)
  /\ MakeDirectories(Missing(t))
  /\ Goto(t, "scan")
  /\ UNCHANGED <<files, pending, locks, local, orphaned, bounds>>

\* There is no such board, or its directory cannot be made (here: not again).
StatMissing(t) ==
  /\ pc[t] = "stat"
  /\ \E b \in Missing(t) : Creates(t) => made[b] = MaxGenerations
  /\ Return(t)
  /\ UNCHANGED <<tree, orphaned, bounds>>

Scan(t) ==
  /\ pc[t] = "scan"
  /\ lockNames' = [lockNames EXCEPT ![t] = Closure(@, pending)]
  /\ Goto(t, "open")
  /\ UNCHANGED <<tree, locks, op, names, got, opened, todo, orphaned, bounds>>

Unowned(t) == lockNames[t] \ {lock[1] : lock \in got[t]}

\* Variant: the locks are taken in no particular order.
AnyOf(bs) == bs

\* The locks are taken in the order of the names.
FirstOf(bs) == {b \in bs : \A c \in bs : b <= c}

Open(t) ==
  /\ pc[t] = "open"
  /\ \E b \in FirstOf(Unowned(t)) :
       /\ gen[b] # 0
       /\ opened' = [opened EXCEPT ![t] = gen[b]]
  /\ Goto(t, "flock")
  /\ UNCHANGED <<tree, locks, op, names, lockNames, got, todo, orphaned, bounds>>

OpenMissing(t) ==
  /\ pc[t] = "open"
  /\ \E b \in FirstOf(Unowned(t)) : gen[b] = 0
  /\ Return(t)
  /\ UNCHANGED <<tree, orphaned, bounds>>

\* Variant: the lock is shared.
FlockShared(t) ==
  /\ pc[t] = "flock"
  /\ \E b \in FirstOf(Unowned(t)) :
       /\ owner' = [owner EXCEPT ![b][opened[t]] = t]
       /\ got' = [got EXCEPT ![t] = @ \cup {<<b, opened[t]>>}]
       /\ Goto(t, IF Unowned(t) = {b} THEN "rescan" ELSE "open")
  /\ opened' = [opened EXCEPT ![t] = 0]
  /\ UNCHANGED <<tree, mutex, op, names, lockNames, todo, orphaned, bounds>>

Flock(t) ==
  /\ pc[t] = "flock"
  /\ \E b \in FirstOf(Unowned(t)) :
       /\ owner[b][opened[t]] = None
       /\ owner' = [owner EXCEPT ![b][opened[t]] = t]
       /\ got' = [got EXCEPT ![t] = @ \cup {<<b, opened[t]>>}]
       /\ Goto(t, IF Unowned(t) = {b} THEN "rescan" ELSE "open")
  /\ opened' = [opened EXCEPT ![t] = 0]
  /\ UNCHANGED <<tree, mutex, op, names, lockNames, todo, orphaned, bounds>>

\* Variant: the journals are not looked at again under the locks.
RequiredByName(t) == names[t]

Required(t) == Closure(names[t], pending)

Covered(t) == Required(t) \subseteq lockNames[t]

Rescan(t) ==
  /\ pc[t] = "rescan"
  /\ Covered(t)
  /\ todo' = [todo EXCEPT ![t] = {pr \in pending : pr \subseteq Required(t)}]
  /\ orphaned' = (orphaned \/ \E lock \in got[t] : gen[lock[1]] # lock[2])
  /\ Goto(t, IF todo'[t] = {} THEN "in" ELSE "recover")
  /\ UNCHANGED <<tree, locks, op, names, lockNames, got, opened, bounds>>

\* A journal appeared while the locks were taken: start over with its boards.
Retry(t) ==
  /\ pc[t] = "rescan"
  /\ ~Covered(t)
  /\ owner' = Unlocked({t})
  /\ got' = [got EXCEPT ![t] = {}]
  /\ lockNames' = [lockNames EXCEPT ![t] = Required(t)]
  /\ Goto(t, "scan")
  /\ UNCHANGED <<tree, mutex, op, names, opened, todo, orphaned, bounds>>

Recover(t, pr) ==
  /\ pc[t] = "recover"
  /\ pr \in todo[t]
  /\ \A b \in pr : gen[b] # 0
  /\ pending' = pending \ {pr}
  /\ todo' = [todo EXCEPT ![t] = @ \ {pr}]
  /\ Goto(t, IF todo[t] = {pr} THEN "in" ELSE "recover")
  /\ UNCHANGED <<gen, made, files, locks, op, names, lockNames, got, opened, orphaned, bounds>>

\* A replay fails; the journal stays and the operation is not begun.
RecoverFails(t) ==
  /\ pc[t] = "recover"
  /\ \/ Mishap
     \/ (\E b \in UNION todo[t] : gen[b] = 0) /\ UNCHANGED bounds
  /\ Return(t)
  /\ UNCHANGED <<tree, orphaned>>

-----------------------------------------------------------------------------
(* What is done inside.  Files are reached by path: an operation acts on   *)
(* the directory that has the board's name now, whatever it has locked.    *)

Board(t) == CHOOSE b \in Boards : names[t] = {b}

Writable(b) == gen[b] # 0

Write(b, kind) == files' = [files EXCEPT ![b] = @ \cup {kind}]

\* Load, UpdateCard and the other operations on the content of one board, and
\* any operation that a check or an error ends.
Leave(t) ==
  /\ pc[t] \in Inside
  /\ Return(t)
  /\ \/ (pc[t] = "in" \/ \E b \in names[t] : gen[b] = 0) /\ UNCHANGED bounds
     \/ pc[t] # "in" /\ Mishap
  /\ IF pc[t] = "createActive"
     THEN files' = [files EXCEPT ![Board(t)] = @ \ {"archive"}]
     ELSE UNCHANGED files
  /\ UNCHANGED <<gen, made, pending, orphaned>>

\* MoveCardToBoard: the journal is written, and removed once it is applied.
WriteMoveJournal(t) ==
  /\ pc[t] = "in" /\ op[t] = "move"
  /\ \A b \in names[t] : files[b] = Kinds
  /\ names[t] \notin pending
  /\ pending' = pending \cup {names[t]}
  /\ Goto(t, "moving")
  /\ UNCHANGED <<gen, made, files, locks, local, orphaned, bounds>>

RemoveMoveJournal(t) ==
  /\ pc[t] = "moving"
  /\ \A b \in names[t] : Writable(b)
  /\ pending' = pending \ {names[t]}
  /\ Return(t)
  /\ UNCHANGED <<gen, made, files, orphaned, bounds>>

\* Variant: only board.md is looked for.
NoBoardFile(b) == "active" \notin files[b]

NoFiles(b) == files[b] = {}

CreateBoard(t) ==
  /\ pc[t] = "in" /\ op[t] = "create"
  /\ NoFiles(Board(t))
  /\ Goto(t, "createArchive")
  /\ UNCHANGED <<tree, locks, local, orphaned, bounds>>

CreateArchive(t) ==
  /\ pc[t] = "createArchive"
  /\ Writable(Board(t))
  /\ Write(Board(t), "archive")
  /\ Goto(t, "createActive")
  /\ UNCHANGED <<gen, made, pending, locks, local, orphaned, bounds>>

CreateActive(t) ==
  /\ pc[t] = "createActive"
  /\ Writable(Board(t))
  /\ Write(Board(t), "active")
  /\ Return(t)
  /\ UNCHANGED <<gen, made, pending, orphaned, bounds>>

EnsureActive(t) ==
  /\ pc[t] = "in" /\ op[t] = "ensure"
  /\ MakeDirectories(Missing(t))
  /\ Write(Board(t), "active")
  /\ Goto(t, "ensureArchive")
  /\ UNCHANGED <<pending, locks, local, orphaned, bounds>>

EnsureArchive(t) ==
  /\ pc[t] = "ensureArchive"
  /\ Writable(Board(t))
  /\ Write(Board(t), "archive")
  /\ Return(t)
  /\ UNCHANGED <<gen, made, pending, orphaned, bounds>>

\* The directory of a board without cards is renamed away and removed.
DeleteBoard(t) ==
  /\ pc[t] = "in" /\ op[t] = "delete"
  /\ files[Board(t)] = Kinds
  /\ gen' = [gen EXCEPT ![Board(t)] = 0]
  /\ files' = [files EXCEPT ![Board(t)] = {}]
  /\ Return(t)
  /\ UNCHANGED <<made, pending, orphaned, bounds>>

-----------------------------------------------------------------------------

\* Variant: a card may be moved to the board it is on.
RequestsUnchecked(kind) ==
  IF kind = "move" THEN Pairs \cup {{b} : b \in Boards} ELSE {{b} : b \in Boards}

Requests(kind) == IF kind = "move" THEN Pairs ELSE {{b} : b \in Boards}

Step(t) ==
  \/ TakeMutex(t) \/ Stat(t) \/ StatMissing(t) \/ Scan(t)
  \/ Open(t) \/ OpenMissing(t) \/ Flock(t) \/ Rescan(t) \/ Retry(t)
  \/ \E pr \in Pairs : Recover(t, pr)
  \/ RecoverFails(t) \/ Leave(t)
  \/ WriteMoveJournal(t) \/ RemoveMoveJournal(t)
  \/ CreateBoard(t) \/ CreateArchive(t) \/ CreateActive(t)
  \/ EnsureActive(t) \/ EnsureArchive(t)
  \/ DeleteBoard(t)

Next ==
  \/ \E t \in Threads :
       \/ \E kind \in Operations : \E ns \in Requests(kind) : Begin(t, kind, ns)
       \/ Step(t)
  \/ \E s \in Stores : Crash(s)

\* Threads are scheduled; nothing obliges a caller to call or a process to die.
\* sync.Mutex and flock need no more than weak fairness here, for only finitely
\* many operations compete.
Fairness == \A t \in Threads : WF_vars(Step(t))

Spec == Init /\ [][Next]_vars /\ Fairness

-----------------------------------------------------------------------------
(* Until a lock is taken on a directory that is no longer the board's, the *)
(* protocol gives what BoardStore assumes of it.                           *)

\* No two operations are on the same board at once, from one store or from
\* two, whatever boards a retry or a journal adds to those they name.
Exclusion ==
  orphaned \/ \A t, u \in Threads :
    t # u /\ pc[t] \in Inside /\ pc[u] \in Inside => lockNames[t] \cap lockNames[u] = {}

\* While an operation runs, no move is pending on a board it names but its own:
\* a journal written between the scan and the locks has sent it back.
JournalsSettled ==
  orphaned \/ \A t \in Threads :
    pc[t] \in Inside =>
      \A pr \in pending : pr \cap names[t] # {} => pc[t] = "moving" /\ pr = names[t]

\* t writes a file of a new board over one that is there.
Overwrites(t) ==
  \/ pc[t] = "createArchive" /\ pc'[t] = "createActive" /\ "archive" \in files[Board(t)]
  \/ pc[t] = "createActive" /\ pc'[t] = "idle" /\ ops' = ops /\ mishaps' = mishaps
       /\ "active" \in files[Board(t)]

\* CreateBoard, "unlike EnsureBoard, never adopts or overwrites an existing
\* board": no file it writes is there when it writes it.
NeverOverwrites == [][\A t \in Threads : ~Overwrites(t)]_vars

\* The same until a lock is taken on a deleted directory.
OverwritesOnlyOrphaned == [][\A t \in Threads : Overwrites(t) => orphaned]_vars

\* Every operation returns: the order of the locks leaves no cycle of waiting,
\* and a retry waits for no one for ever.
EveryoneReturns == \A t \in Threads : pc[t] # "idle" ~> pc[t] = "idle"
=============================================================================
