-------------------------- MODULE BoardLocks_proofs --------------------------
(***************************************************************************)
(* The lock protocol of withBoardLocksMode keeps operations apart, for any *)
(* boards, threads and stores.  Until a thread goes on with the lock of a  *)
(* deleted directory, the lock it holds is that of the directory there is; *)
(* a flock has one owner; and the boards an operation names are among      *)
(* those it has locked.  So two that are inside have no board in common,   *)
(* and what one of them knows of its boards stays true.                    *)
(***************************************************************************)
EXTENDS BoardLocks, FiniteSetTheorems, TLAPS

-----------------------------------------------------------------------------
(* The closure holds the boards it is asked for, adds only boards that     *)
(* some journal names, and splits no journal.                              *)

LEMMA ClosureContains ==
  ASSUME NEW asked, NEW ties
  PROVE  asked \subseteq Closure(asked, ties)
  BY DEF Closure

LEMMA ClosureBounded ==
  ASSUME NEW B, NEW asked \in SUBSET B, NEW ties \in SUBSET SUBSET B
  PROVE  Closure(asked, ties) \in SUBSET B
  BY DEF Closure

\* No journal is split by the boards that are locked.
LEMMA ClosureClosed ==
  ASSUME NEW asked, NEW ties
  PROVE  Closed(Closure(asked, ties), ties)
  <1> SUFFICES ASSUME NEW pr \in ties, NEW x \in pr, x \in Closure(asked, ties), NEW y \in pr
               PROVE  y \in Closure(asked, ties)
    BY DEF Closed
  <1>1. y \in UNION ties
    OBVIOUS
  <1>2. ASSUME NEW S \in SUBSET (asked \cup UNION ties), asked \subseteq S, Closed(S, ties)
        PROVE  y \in S
    <2>1. x \in S
      BY <1>2 DEF Closure
    <2>2. pr \subseteq S
      BY <1>2, <2>1 DEF Closed
    <2>3. QED
      BY <2>2
  <1>3. QED
    BY <1>1, <1>2 DEF Closure

-----------------------------------------------------------------------------
(* The inductive invariant.                                                *)

\* Inside, or replaying journals: the locks are complete and looked at again.
Holding == Inside \cup {"recover"}

\* What thread t knows of its own request and locks.
Grip(t) ==
  /\ names[t] \subseteq lockNames[t]
  /\ pc[t] # "idle" => names[t] \in Requests(op[t])
  /\ pc[t] \in {"idle", "mutex", "stat", "scan"} => got[t] = {}
  /\ pc[t] = "flock" => opened[t] # 0
  /\ pc[t] \in {"open", "flock"} => Unowned(t) # {}
  /\ pc[t] \in Holding \cup {"rescan"} => Unowned(t) = {}
  /\ pc[t] \in {"createArchive", "createActive"} => op[t] = "create"
  /\ pc[t] = "ensureArchive" => op[t] = "ensure"
  /\ \A lock \in got[t] : owner[lock[1]][lock[2]] = t

\* The journals that name its boards are those it is to replay, or its own.
Settles(t) ==
  \A pr \in pending : pr \cap names[t] # {} =>
    /\ pc[t] = "recover" => pr \in todo[t]
    /\ pc[t] \in Inside => pc[t] = "moving" /\ pr = names[t]

\* While nobody has gone on with the lock of a deleted directory.
Sound(t) ==
  /\ pc[t] \in Holding => \A lock \in got[t] : gen[lock[1]] = lock[2]
  /\ Settles(t)
  /\ pc[t] = "createArchive" => files[Board(t)] = {}
  /\ pc[t] = "createActive" => "active" \notin files[Board(t)]

Protocol ==
  /\ TypeOK
  /\ \A t \in Threads : Grip(t)
  /\ orphaned \/ \A t \in Threads : Sound(t)

-----------------------------------------------------------------------------
(* The boards of a request.                                                *)

LEMMA RequestsAreBoards ==
  ASSUME NEW kind
  PROVE  Requests(kind) \subseteq SUBSET Boards
  BY DEF Requests, Pairs

LEMMA NamesOneBoard ==
  ASSUME NEW t \in Threads, names[t] \in Requests(op[t]), op[t] # "move"
  PROVE  Board(t) \in Boards /\ names[t] = {Board(t)}
  BY DEF Requests, Board

\* Two threads that hold locks have no board in common.
LEMMA Apart ==
  ASSUME Protocol, ~orphaned, NEW t \in Threads, NEW u \in Threads, t # u,
         pc[t] \in Holding, pc[u] \in Holding
  PROVE  lockNames[t] \cap lockNames[u] = {}
  <1> SUFFICES ASSUME NEW b \in lockNames[t], b \in lockNames[u] PROVE FALSE
    OBVIOUS
  <1>1. Grip(t) /\ Grip(u) /\ Sound(t) /\ Sound(u)
    BY DEF Protocol
  <1>2. PICK l \in got[t] : l[1] = b
    BY <1>1 DEF Grip, Unowned
  <1>3. PICK k \in got[u] : k[1] = b
    BY <1>1 DEF Grip, Unowned
  <1>4. l[2] = gen[b] /\ k[2] = gen[b]
    BY <1>1, <1>2, <1>3 DEF Sound
  <1>5. owner[b][gen[b]] = t /\ owner[b][gen[b]] = u
    BY <1>1, <1>2, <1>3, <1>4 DEF Grip
  <1>6. QED
    BY <1>5

LEMMA BoardsApart ==
  ASSUME Protocol, ~orphaned, NEW t \in Threads, NEW u \in Threads, t # u,
         pc[t] \in Holding, pc[u] \in Holding
  PROVE  names[t] \cap names[u] = {}
  BY Apart DEF Protocol, Grip

-----------------------------------------------------------------------------
(* A thread that a step leaves alone.                                      *)

Kept(u) ==
  /\ pc'[u] = pc[u] /\ op'[u] = op[u] /\ names'[u] = names[u] /\ lockNames'[u] = lockNames[u]
  /\ got'[u] = got[u] /\ opened'[u] = opened[u] /\ todo'[u] = todo[u]

LEMMA GripKept ==
  ASSUME NEW u \in Threads, Grip(u), Kept(u),
         \A lock \in got[u] : owner'[lock[1]][lock[2]] = owner[lock[1]][lock[2]]
  PROVE  Grip(u)'
  BY DEF Grip, Kept, Unowned, Requests

\* What the others may do to the tree while u works.
Spares(u) ==
  /\ pc[u] \in Holding =>
       /\ \A lock \in got[u] : gen[lock[1]] = lock[2] => gen'[lock[1]] = lock[2]
       /\ \A pr \in pending' \ pending : pr \cap names[u] = {}
  /\ pc[u] \in {"createArchive", "createActive"} => files'[Board(u)] \subseteq files[Board(u)]

LEMMA SoundKept ==
  ASSUME NEW u \in Threads, Sound(u), Kept(u), Spares(u)
  PROVE  Sound(u)'
  <1>1. Board(u)' = Board(u)
    BY DEF Board, Kept
  <1>2. Settles(u)'
    BY DEF Sound, Settles, Kept, Spares, Holding
  <1>3. pc[u] \in Holding => \A lock \in got[u] : gen'[lock[1]] = lock[2]
    BY DEF Sound, Spares
  <1>4. QED
    BY <1>1, <1>2, <1>3 DEF Sound, Kept, Spares

\* A step of t.
LEMMA ThreadStep ==
  ASSUME Protocol, NEW t \in Threads, TypeOK', Grip(t)', orphaned' \/ Sound(t)',
         orphaned => orphaned',
         \A u \in Threads \ {t} :
           /\ Kept(u)
           /\ \A lock \in got[u] : owner'[lock[1]][lock[2]] = owner[lock[1]][lock[2]]
           /\ orphaned' \/ Spares(u)
  PROVE  Protocol'
  <1>1. ASSUME NEW u \in Threads PROVE Grip(u)'
    BY GripKept DEF Protocol
  <1>2. ASSUME NEW u \in Threads, ~orphaned' PROVE Sound(u)'
    BY <1>2, SoundKept DEF Protocol
  <1>3. QED
    BY <1>1, <1>2 DEF Protocol

\* The threads of ts return or die.
LEMMA ForgetStep ==
  ASSUME Protocol, NEW ts \in SUBSET Threads, Forget(ts), UNCHANGED <<made, orphaned>>,
         gen' \in [Boards -> 0..MaxGenerations], files' \in [Boards -> SUBSET Kinds],
         pending' \subseteq pending, ops' \in 0..MaxOps, mishaps' \in 0..MaxMishaps,
         \A u \in Threads \ ts : orphaned \/ Spares(u)
  PROVE  Protocol'
  <1>1. TypeOK'
    <2>1. owner' \in [Boards -> [1..MaxGenerations -> Threads \cup {None}]]
      BY DEF Protocol, TypeOK, Forget, Unlocked
    <2>2. mutex' \in [Stores -> Threads \cup {None}]
      BY DEF Protocol, TypeOK, Forget
    <2>3. /\ pc' \in [Threads -> Inside \cup {"idle", "mutex", "stat", "scan", "open", "flock",
                                              "rescan", "recover"}]
          /\ op' \in [Threads -> Operations \cup {None}]
          /\ opened' \in [Threads -> 0..MaxGenerations]
      BY LocksAssumption DEF Protocol, TypeOK, Forget
    <2>4. /\ names' \in [Threads -> SUBSET Boards] /\ lockNames' \in [Threads -> SUBSET Boards]
          /\ got' \in [Threads -> SUBSET (Boards \X (1..MaxGenerations))]
          /\ todo' \in [Threads -> SUBSET Pairs]
      BY DEF Protocol, TypeOK, Forget
    <2>5. QED
      BY <2>1, <2>2, <2>3, <2>4 DEF Protocol, TypeOK
  <1>2. ASSUME NEW u \in ts
        PROVE  Grip(u)' /\ Sound(u)'
    <2>1. /\ pc'[u] = "idle" /\ op'[u] = None /\ names'[u] = {} /\ lockNames'[u] = {}
          /\ got'[u] = {} /\ opened'[u] = 0 /\ todo'[u] = {}
      BY DEF Forget
    <2>2. QED
      BY <2>1 DEF Grip, Sound, Settles, Holding, Inside
  <1>3. ASSUME NEW u \in Threads \ ts
        PROVE  Grip(u)' /\ (orphaned' \/ Sound(u)')
    <2>1. Kept(u)
      BY DEF Forget, Kept
    <2>2. Grip(u) /\ (orphaned \/ Sound(u))
      BY DEF Protocol
    <2>3. ASSUME NEW lock \in got[u]
          PROVE  owner'[lock[1]][lock[2]] = owner[lock[1]][lock[2]]
      <3>1. got[u] \subseteq Boards \X (1..MaxGenerations)
        BY DEF Protocol, TypeOK
      <3>2. lock[1] \in Boards /\ lock[2] \in 1..MaxGenerations
        BY <3>1
      <3>3. owner[lock[1]][lock[2]] = u
        BY <2>2 DEF Grip
      <3>4. QED
        BY <3>2, <3>3 DEF Forget, Unlocked
    <2>4. QED
      BY <2>1, <2>2, <2>3, GripKept, SoundKept
  <1>4. QED
    BY <1>1, <1>2, <1>3 DEF Protocol

\* A return that leaves the tree as it is, or takes a journal away.
LEMMA PlainReturn ==
  ASSUME Protocol, NEW ts \in SUBSET Threads, Forget(ts), UNCHANGED <<gen, made, orphaned>>,
         files' \in [Boards -> SUBSET Kinds], \A b \in Boards : files'[b] \subseteq files[b],
         pending' \subseteq pending, ops' \in 0..MaxOps, mishaps' \in 0..MaxMishaps
  PROVE  Protocol'
  <1>1. ASSUME NEW u \in Threads \ ts
        PROVE  Spares(u)
    <2>1. pc[u] \in {"createArchive", "createActive"} => Board(u) \in Boards
      BY NamesOneBoard DEF Protocol, Grip
    <2>2. QED
      BY <2>1 DEF Spares
  <1>2. gen' \in [Boards -> 0..MaxGenerations]
    BY DEF Protocol, TypeOK
  <1>3. QED
    BY <1>1, <1>2, ForgetStep

LEMMA MishapBounds ==
  ASSUME Protocol, Mishap \/ UNCHANGED bounds
  PROVE  ops' \in 0..MaxOps /\ mishaps' \in 0..MaxMishaps
  BY LocksAssumption DEF Protocol, TypeOK, Mishap, bounds

-----------------------------------------------------------------------------
(* The steps that end an operation.                                        *)

LEMMA CrashStep ==
  ASSUME Protocol, NEW s \in Stores, Crash(s)
  PROVE  Protocol'
  <1>1. ops' \in 0..MaxOps /\ mishaps' \in 0..MaxMishaps
    BY MishapBounds DEF Crash
  <1>2. Forget({t \in Threads : StoreOf[t] = s}) /\ UNCHANGED <<tree, orphaned>>
    BY DEF Crash
  <1>3. QED
    BY <1>1, <1>2, PlainReturn DEF tree, Protocol, TypeOK

LEMMA GivesUpStep ==
  ASSUME Protocol, NEW t \in Threads, StatMissing(t) \/ OpenMissing(t) \/ RecoverFails(t)
  PROVE  Protocol'
  <1>1. Forget({t}) /\ UNCHANGED <<tree, orphaned>>
    BY DEF StatMissing, OpenMissing, RecoverFails, Return
  <1>2. ops' \in 0..MaxOps /\ mishaps' \in 0..MaxMishaps
    BY MishapBounds DEF StatMissing, OpenMissing, RecoverFails
  <1>3. QED
    BY <1>1, <1>2, PlainReturn DEF tree, Protocol, TypeOK

LEMMA LeaveStep ==
  ASSUME Protocol, NEW t \in Threads, Leave(t)
  PROVE  Protocol'
  <1>1. Forget({t}) /\ UNCHANGED <<gen, made, pending, orphaned>>
    BY DEF Leave, Return
  <1>2. ops' \in 0..MaxOps /\ mishaps' \in 0..MaxMishaps
    BY MishapBounds DEF Leave
  <1>3. files' \in [Boards -> SUBSET Kinds] /\ \A b \in Boards : files'[b] \subseteq files[b]
    BY DEF Leave, Protocol, TypeOK
  <1>4. QED
    BY <1>1, <1>2, <1>3, PlainReturn

LEMMA RemoveMoveJournalStep ==
  ASSUME Protocol, NEW t \in Threads, RemoveMoveJournal(t)
  PROVE  Protocol'
  <1>1. Forget({t}) /\ UNCHANGED <<gen, made, files, orphaned, bounds>> /\ pending' \subseteq pending
    BY DEF RemoveMoveJournal, Return
  <1>2. QED
    BY <1>1, MishapBounds, PlainReturn DEF Protocol, TypeOK

\* t writes a file of its own board: nobody else creates that board.
LEMMA WriteSpares ==
  ASSUME Protocol, ~orphaned, NEW t \in Threads, pc[t] \in Inside, op[t] # "move", NEW kind,
         NEW u \in Threads \ {t},
         files' = [files EXCEPT ![Board(t)] = @ \cup {kind}],
         pc[u] \in {"createArchive", "createActive"}
  PROVE  files'[Board(u)] = files[Board(u)]
  <1>1. Grip(t) /\ Grip(u)
    BY DEF Protocol
  <1>2. op[u] # "move" /\ pc[t] # "idle" /\ pc[u] # "idle"
    BY <1>1 DEF Grip, Inside
  <1>3. /\ names[t] = {Board(t)} /\ Board(t) \in Boards
        /\ names[u] = {Board(u)} /\ Board(u) \in Boards
    BY <1>1, <1>2, NamesOneBoard DEF Grip
  <1>4. names[t] \cap names[u] = {}
    BY BoardsApart DEF Holding, Inside
  <1>5. QED
    BY <1>3, <1>4 DEF Protocol, TypeOK

LEMMA LastWriteStep ==
  ASSUME Protocol, NEW t \in Threads, CreateActive(t) \/ EnsureArchive(t)
  PROVE  Protocol'
  <1>1. PICK kind \in Kinds : files' = [files EXCEPT ![Board(t)] = @ \cup {kind}]
    BY DEF CreateActive, EnsureArchive, Write, Kinds
  <1>2. Forget({t}) /\ UNCHANGED <<gen, made, pending, orphaned, bounds>>
    BY DEF CreateActive, EnsureArchive, Return
  <1>3. pc[t] \in Inside /\ op[t] # "move"
    BY DEF CreateActive, EnsureArchive, Inside, Protocol, Grip
  <1>4. ASSUME NEW u \in Threads \ {t}, ~orphaned
        PROVE  Spares(u)
    BY <1>1, <1>2, <1>3, <1>4, WriteSpares DEF Spares
  <1>5. files' \in [Boards -> SUBSET Kinds]
    BY <1>1 DEF Protocol, TypeOK
  <1>6. QED
    BY <1>2, <1>4, <1>5, MishapBounds, ForgetStep DEF Protocol, TypeOK

LEMMA DeleteBoardStep ==
  ASSUME Protocol, NEW t \in Threads, DeleteBoard(t)
  PROVE  Protocol'
  <1>1. Forget({t}) /\ UNCHANGED <<made, pending, orphaned, bounds>>
    BY DEF DeleteBoard, Return
  <1>2. pc[t] = "in" /\ op[t] = "delete" /\ Grip(t)
    BY DEF DeleteBoard, Protocol
  <1>3. names[t] = {Board(t)} /\ Board(t) \in Boards
    BY <1>2, NamesOneBoard DEF Grip
  <1>4. /\ gen' = [gen EXCEPT ![Board(t)] = 0]
        /\ files' = [files EXCEPT ![Board(t)] = {}]
    BY DEF DeleteBoard
  <1>5. /\ gen' \in [Boards -> 0..MaxGenerations]
        /\ files' \in [Boards -> SUBSET Kinds]
    <2>1. 0 \in 0..MaxGenerations
      BY LocksAssumption
    <2>2. gen \in [Boards -> 0..MaxGenerations] /\ files \in [Boards -> SUBSET Kinds]
      BY DEF Protocol, TypeOK
    <2>3. QED
      BY <1>4, <2>1, <2>2
  <1>6. ASSUME NEW u \in Threads \ {t}, ~orphaned
        PROVE  Spares(u)
    <2>1. ASSUME pc[u] \in Holding, NEW lock \in got[u]
          PROVE  lock[1] # Board(t) /\ lock[1] \in Boards
      <3>1. Board(t) \in lockNames[t] /\ pc[t] \in Holding
        BY <1>2, <1>3 DEF Grip, Holding, Inside
      <3>2. Board(t) \notin lockNames[u]
        BY <1>6, <2>1, <3>1, Apart
      <3>3. owner[lock[1]][lock[2]] = u /\ lock[1] \in Boards /\ lock[2] \in 1..MaxGenerations
        BY <2>1 DEF Protocol, Grip, TypeOK
      <3>4. CASE lock[1] = Board(t)
        <4>1. PICK k \in got[t] : k[1] = Board(t)
          BY <1>2, <3>1 DEF Grip, Unowned, Inside, Holding
        <4>2. k[2] = gen[Board(t)] /\ owner[k[1]][k[2]] = t
          BY <1>2, <1>6, <3>1, <4>1 DEF Protocol, Grip, Sound
        <4>3. lock[2] = gen[Board(t)]
          BY <1>6, <2>1, <3>4 DEF Protocol, Sound
        <4>4. QED
          BY <3>3, <3>4, <4>1, <4>2, <4>3
      <3>5. QED
        BY <3>3, <3>4
    <2>2. pending' \ pending = {}
      BY <1>1
    <2>3. pc[u] \in {"createArchive", "createActive"} => Board(u) \in Boards
      BY NamesOneBoard DEF Protocol, Grip
    <2>4. QED
      BY <1>4, <2>1, <2>2, <2>3 DEF Spares, Protocol, TypeOK
  <1>7. QED
    BY <1>1, <1>5, <1>6, MishapBounds, ForgetStep

-----------------------------------------------------------------------------
(* The steps of a thread that goes on.                                     *)

LEMMA BeginStep ==
  ASSUME Protocol, NEW t \in Threads, NEW kind \in Operations, NEW ns \in Requests(kind),
         Begin(t, kind, ns)
  PROVE  Protocol'
  <1>1. ns \in SUBSET Boards
    BY RequestsAreBoards
  <1>2. TypeOK'
    BY <1>1, LocksAssumption DEF Begin, Goto, tree, locks, Protocol, TypeOK
  <1>3. \A u \in Threads \ {t} : Kept(u) /\ Spares(u)
    BY DEF Begin, Goto, Kept, Spares, tree, Protocol, TypeOK
  <1>4. /\ pc'[t] = "mutex" /\ op'[t] = kind /\ names'[t] = ns /\ lockNames'[t] = ns
        /\ got'[t] = {} /\ owner' = owner /\ orphaned' = orphaned
    BY DEF Begin, Goto, locks, Protocol, TypeOK, Grip
  <1>5. Grip(t)'
    BY <1>4 DEF Grip, Requests, Holding, Inside
  <1>6. Sound(t)'
    BY <1>4 DEF Sound, Settles, Holding, Inside
  <1>7. QED
    BY <1>2, <1>3, <1>4, <1>5, <1>6, ThreadStep

LEMMA TakeMutexStep ==
  ASSUME Protocol, NEW t \in Threads, TakeMutex(t)
  PROVE  Protocol'
  <1>1. TypeOK'
    BY LocksAssumption DEF TakeMutex, Goto, tree, local, bounds, Protocol, TypeOK
  <1>2. \A u \in Threads \ {t} : Kept(u) /\ Spares(u)
    BY DEF TakeMutex, Goto, Kept, Spares, tree, local, Protocol, TypeOK
  <1>3. pc'[t] = "stat" /\ pc[t] = "mutex" /\ UNCHANGED <<owner, local, tree, orphaned>>
    BY DEF TakeMutex, Goto, Protocol, TypeOK
  <1>4. Grip(t)' /\ Sound(t)'
    BY <1>3 DEF Protocol, Grip, Sound, Settles, Holding, Inside, Requests, local
  <1>5. QED
    BY <1>1, <1>2, <1>3, <1>4, ThreadStep

\* A directory is made only where there is none, so no lock of those inside is lost.
LEMMA DirectoriesSpare ==
  ASSUME Protocol, NEW bs \in SUBSET Boards, MakeDirectories(bs), \A b \in bs : gen[b] = 0
  PROVE  /\ gen' \in [Boards -> 0..MaxGenerations] /\ made' \in [Boards -> 0..MaxGenerations]
         /\ \A u \in Threads : \A lock \in got[u] : gen[lock[1]] = lock[2] => gen'[lock[1]] = lock[2]
  <1>1. /\ gen' \in [Boards -> 0..MaxGenerations] /\ made' \in [Boards -> 0..MaxGenerations]
    BY LocksAssumption DEF Protocol, TypeOK, MakeDirectories
  <1>2. ASSUME NEW u \in Threads, NEW lock \in got[u], gen[lock[1]] = lock[2]
        PROVE  gen'[lock[1]] = lock[2]
    <2>1. lock[1] \in Boards /\ lock[2] \in 1..MaxGenerations
      BY DEF Protocol, TypeOK
    <2>2. lock[1] \notin bs
      <3>1. 0 \notin 1..MaxGenerations
        BY LocksAssumption
      <3>2. lock[2] # 0
        BY <2>1, <3>1
      <3>3. QED
        BY <1>2, <3>2
    <2>3. QED
      BY <1>2, <2>1, <2>2 DEF MakeDirectories
  <1>3. QED
    BY <1>1, <1>2

LEMMA MissingAreBoards ==
  ASSUME Protocol, NEW t \in Threads
  PROVE  Missing(t) \in SUBSET Boards /\ \A b \in Missing(t) : gen[b] = 0
  BY DEF Missing, Protocol, TypeOK

LEMMA StatStep ==
  ASSUME Protocol, NEW t \in Threads, Stat(t)
  PROVE  Protocol'
  <1>1. /\ gen' \in [Boards -> 0..MaxGenerations] /\ made' \in [Boards -> 0..MaxGenerations]
        /\ \A u \in Threads : \A lock \in got[u] : gen[lock[1]] = lock[2] => gen'[lock[1]] = lock[2]
    BY MissingAreBoards, DirectoriesSpare DEF Stat
  <1>2. TypeOK'
    BY <1>1 DEF Stat, Goto, locks, local, bounds, Protocol, TypeOK
  <1>3. \A u \in Threads \ {t} : Kept(u) /\ Spares(u)
    BY <1>1 DEF Stat, Goto, Kept, Spares, local, Protocol, TypeOK
  <1>4. pc'[t] = "scan" /\ pc[t] = "stat" /\ UNCHANGED <<owner, local, files, pending, orphaned>>
    BY DEF Stat, Goto, locks, Protocol, TypeOK
  <1>5. Grip(t)' /\ Sound(t)'
    BY <1>4 DEF Protocol, Grip, Sound, Settles, Holding, Inside, Requests, local
  <1>6. QED
    BY <1>2, <1>3, <1>4, <1>5, ThreadStep

LEMMA NamesSome ==
  ASSUME NEW t \in Threads, names[t] \in Requests(op[t])
  PROVE  names[t] # {}
  <1>1. {} \notin Pairs
    BY FS_EmptySet DEF Pairs
  <1>2. names[t] \in Pairs \/ \E b \in Boards : names[t] = {b}
    BY DEF Requests
  <1>3. QED
    BY <1>1, <1>2

LEMMA ScanStep ==
  ASSUME Protocol, NEW t \in Threads, Scan(t)
  PROVE  Protocol'
  <1> DEFINE C == Closure(lockNames[t], pending)
  <1>1. lockNames[t] \in SUBSET Boards /\ pending \in SUBSET SUBSET Boards
    BY DEF Protocol, TypeOK, Pairs
  <1>2. C \in SUBSET Boards /\ lockNames[t] \subseteq C
    BY <1>1, ClosureBounded, ClosureContains
  <1>3. /\ lockNames' = [lockNames EXCEPT ![t] = C]
        /\ UNCHANGED <<tree, locks, op, names, got, opened, todo, orphaned, bounds>>
        /\ pc[t] = "scan" /\ pc' = [pc EXCEPT ![t] = "open"]
    BY DEF Scan, Goto
  <1>4. TypeOK'
    <2> HIDE DEF C
    <2> QED
      BY <1>2, <1>3 DEF tree, locks, bounds, Protocol, TypeOK
  <1>5. \A u \in Threads \ {t} : Kept(u) /\ Spares(u)
    BY <1>3 DEF Kept, Spares, tree, Protocol, TypeOK
  <1>6. pc'[t] = "open" /\ lockNames'[t] = C
    BY <1>3 DEF Protocol, TypeOK
  <1>7. got[t] = {} /\ names[t] # {} /\ names[t] \subseteq C /\ names[t] \in Requests(op[t])
    BY <1>2, <1>3, NamesSome DEF Protocol, Grip
  <1>8. Grip(t)' /\ Sound(t)'
    <2> HIDE DEF C
    <2> QED
      BY <1>3, <1>6, <1>7 DEF Grip, Sound, Settles, Unowned, Holding, Inside, Requests
  <1>9. QED
    BY <1>3, <1>4, <1>5, <1>8, ThreadStep DEF locks

LEMMA OpenStep ==
  ASSUME Protocol, NEW t \in Threads, Open(t)
  PROVE  Protocol'
  <1>1. PICK b \in Unowned(t) : gen[b] # 0 /\ opened' = [opened EXCEPT ![t] = gen[b]]
    BY DEF Open, FirstOf
  <1>2. b \in Boards /\ gen[b] \in 0..MaxGenerations
    BY <1>1 DEF Unowned, Protocol, TypeOK
  <1>3. /\ UNCHANGED <<tree, locks, op, names, lockNames, got, todo, orphaned, bounds>>
        /\ pc[t] = "open" /\ pc' = [pc EXCEPT ![t] = "flock"]
    BY DEF Open, Goto
  <1>4. TypeOK'
    BY <1>1, <1>2, <1>3 DEF tree, locks, bounds, Protocol, TypeOK
  <1>5. \A u \in Threads \ {t} : Kept(u) /\ Spares(u)
    BY <1>1, <1>3 DEF Kept, Spares, tree, Protocol, TypeOK
  <1>6. pc'[t] = "flock" /\ opened'[t] # 0
    BY <1>1, <1>3 DEF Protocol, TypeOK
  <1>7. Grip(t)' /\ Sound(t)'
    BY <1>3, <1>6 DEF Protocol, Grip, Sound, Settles, Unowned, Holding, Inside, Requests, locks
  <1>8. QED
    BY <1>3, <1>4, <1>5, <1>7, ThreadStep DEF locks

LEMMA FlockStep ==
  ASSUME Protocol, NEW t \in Threads, Flock(t)
  PROVE  Protocol'
  <1> DEFINE g == opened[t]
  <1>1. PICK b \in Unowned(t) :
          /\ owner[b][g] = None
          /\ owner' = [owner EXCEPT ![b][g] = t]
          /\ got' = [got EXCEPT ![t] = @ \cup {<<b, g>>}]
          /\ pc' = [pc EXCEPT ![t] = IF Unowned(t) = {b} THEN "rescan" ELSE "open"]
    BY DEF Flock, FirstOf, Goto
  <1>2. /\ pc[t] = "flock" /\ opened' = [opened EXCEPT ![t] = 0]
        /\ UNCHANGED <<tree, mutex, op, names, lockNames, todo, orphaned, bounds>>
    BY DEF Flock
  <1>3. b \in Boards /\ g \in 1..MaxGenerations
    <2>1. g \in 0..MaxGenerations /\ g # 0
      BY <1>2 DEF Protocol, Grip, TypeOK
    <2>2. QED
      BY <1>1, <2>1, LocksAssumption DEF Unowned, Protocol, TypeOK
  <1> HIDE DEF g
  <1>4. TypeOK'
    <2>1. owner' \in [Boards -> [1..MaxGenerations -> Threads \cup {None}]]
      BY <1>1, <1>3 DEF Protocol, TypeOK
    <2>2. got' \in [Threads -> SUBSET (Boards \X (1..MaxGenerations))]
      BY <1>1, <1>3 DEF Protocol, TypeOK
    <2>3. 0 \in 0..MaxGenerations
      BY LocksAssumption
    <2>4. QED
      BY <1>1, <1>2, <2>1, <2>2, <2>3 DEF tree, bounds, Protocol, TypeOK
  <1>5. \A u \in Threads \ {t} : Kept(u) /\ Spares(u)
    BY <1>1, <1>2 DEF Kept, Spares, tree, Protocol, TypeOK
  <1>6. ASSUME NEW u \in Threads, NEW lock \in got[u]
        PROVE  owner'[lock[1]][lock[2]] = owner[lock[1]][lock[2]] /\ owner[lock[1]][lock[2]] = u
    <2>1. lock[1] \in Boards /\ lock[2] \in 1..MaxGenerations
      BY DEF Protocol, TypeOK
    <2>2. owner[lock[1]][lock[2]] = u /\ u # None
      BY LocksAssumption DEF Protocol, Grip
    <2>3. ~ (lock[1] = b /\ lock[2] = g)
      BY <1>1, <2>2
    <2>4. owner \in [Boards -> [1..MaxGenerations -> Threads \cup {None}]]
      BY DEF Protocol, TypeOK
    <2>5. QED
      BY <1>1, <1>3, <2>1, <2>2, <2>3, <2>4
  <1>7. owner'[b][g] = t /\ got'[t] = got[t] \cup {<<b, g>>}
    BY <1>1, <1>3 DEF Protocol, TypeOK
  <1>8. \A lock \in got'[t] : owner'[lock[1]][lock[2]] = t
    BY <1>6, <1>7
  <1>9. Unowned(t)' = Unowned(t) \ {b}
    <2>1. {lock[1] : lock \in got'[t]} = {lock[1] : lock \in got[t]} \cup {b}
      <3>1. <<b, g>>[1] = b
        OBVIOUS
      <3>2. got'[t] = got[t] \cup {<<b, g>>}
        BY <1>7
      <3>3. ASSUME NEW x PROVE x \in {lock[1] : lock \in got'[t]} <=> x \in {lock[1] : lock \in got[t]} \cup {b}
        BY <3>1, <3>2
      <3>4. QED
        BY <3>3
    <2>2. QED
      BY <1>2, <2>1 DEF Unowned
  <1>10. pc'[t] = IF Unowned(t) = {b} THEN "rescan" ELSE "open"
    BY <1>1 DEF Protocol, TypeOK
  <1>11. Grip(t)'
    <2>1. names'[t] \subseteq lockNames'[t] /\ names'[t] \in Requests(op'[t])
      BY <1>2 DEF Protocol, Grip
    <2>2. pc'[t] = "rescan" => Unowned(t)' = {}
      BY <1>9, <1>10
    <2>3. pc'[t] = "open" => Unowned(t)' # {}
      BY <1>1, <1>9, <1>10
    <2>4. pc'[t] \in {"rescan", "open"}
      BY <1>10
    <2>5. QED
      BY <1>8, <2>1, <2>2, <2>3, <2>4 DEF Grip, Holding, Inside, Requests
  <1>12. Sound(t)'
    BY <1>10 DEF Sound, Settles, Holding, Inside
  <1>13. QED
    BY <1>2, <1>4, <1>5, <1>6, <1>11, <1>12, ThreadStep

\* Looking at the journals again: those that name its boards are all to be
\* replayed, and every lock it has is that of the directory there is.
LEMMA RescanStep ==
  ASSUME Protocol, NEW t \in Threads, Rescan(t)
  PROVE  Protocol'
  <1>1. /\ pc[t] = "rescan"
        /\ todo' = [todo EXCEPT ![t] = {pr \in pending : pr \subseteq Required(t)}]
        /\ orphaned' = (orphaned \/ \E lock \in got[t] : gen[lock[1]] # lock[2])
        /\ pc' = [pc EXCEPT ![t] = IF todo'[t] = {} THEN "in" ELSE "recover"]
        /\ UNCHANGED <<tree, locks, op, names, lockNames, got, opened, bounds>>
    BY DEF Rescan, Goto
  <1>2. TypeOK'
    <2>1. todo' \in [Threads -> SUBSET Pairs]
      BY <1>1 DEF Protocol, TypeOK
    <2>2. pc' \in [Threads -> Inside \cup {"idle", "mutex", "stat", "scan", "open", "flock",
                                           "rescan", "recover"}]
      BY <1>1 DEF Protocol, TypeOK, Inside
    <2>3. orphaned' \in BOOLEAN
      BY <1>1, Zenon
    <2>4. QED
      BY <1>1, <2>1, <2>2, <2>3 DEF tree, locks, bounds, Protocol, TypeOK
  <1>3. \A u \in Threads \ {t} : Kept(u) /\ Spares(u)
    BY <1>1 DEF Kept, Spares, tree, Protocol, TypeOK
  <1>4. /\ pc'[t] = IF todo'[t] = {} THEN "in" ELSE "recover"
        /\ todo'[t] = {pr \in pending : pr \subseteq Required(t)}
    BY <1>1 DEF Protocol, TypeOK
  <1>5. Grip(t)'
    <2>1. names'[t] \subseteq lockNames'[t] /\ names'[t] \in Requests(op'[t])
      BY <1>1 DEF Protocol, Grip
    <2>2. Unowned(t)' = {} /\ \A lock \in got'[t] : owner'[lock[1]][lock[2]] = t
      BY <1>1 DEF Protocol, Grip, Unowned, locks
    <2>3. pc'[t] \in {"in", "recover"}
      BY <1>4
    <2>4. QED
      BY <2>1, <2>2, <2>3 DEF Grip, Requests
  <1>6. ASSUME NEW pr \in pending, pr \cap names[t] # {}
        PROVE  pr \in todo'[t]
    <2>1. names[t] \subseteq Required(t) /\ Closed(Required(t), pending)
      BY ClosureContains, ClosureClosed DEF Required
    <2>2. pr \subseteq Required(t)
      BY <1>6, <2>1 DEF Closed
    <2>3. QED
      BY <1>4, <2>2
  <1>7. orphaned' \/ Sound(t)'
    <2>1. SUFFICES ASSUME ~orphaned' PROVE Sound(t)'
      OBVIOUS
    <2>2. \A lock \in got'[t] : gen'[lock[1]] = lock[2]
      BY <1>1, <2>1 DEF tree
    <2>3. pending' = pending /\ names'[t] = names[t]
      BY <1>1 DEF tree
    <2>4. Settles(t)'
      BY <1>4, <1>6, <2>3 DEF Settles, Inside
    <2>5. pc'[t] \in {"in", "recover"}
      BY <1>4
    <2>6. QED
      BY <2>2, <2>4, <2>5 DEF Sound
  <1>8. QED
    BY <1>1, <1>2, <1>3, <1>5, <1>7, ThreadStep DEF locks

LEMMA RetryStep ==
  ASSUME Protocol, NEW t \in Threads, Retry(t)
  PROVE  Protocol'
  <1> DEFINE R == Required(t)
  <1>1. /\ pc[t] = "rescan" /\ pc' = [pc EXCEPT ![t] = "scan"]
        /\ owner' = Unlocked({t}) /\ got' = [got EXCEPT ![t] = {}]
        /\ lockNames' = [lockNames EXCEPT ![t] = R]
        /\ UNCHANGED <<tree, mutex, op, names, opened, todo, orphaned, bounds>>
    BY DEF Retry, Goto
  <1>2. names[t] \in SUBSET Boards /\ pending \in SUBSET SUBSET Boards
    BY DEF Protocol, TypeOK, Pairs
  <1>3. R \in SUBSET Boards /\ names[t] \subseteq R
    BY <1>2, ClosureBounded, ClosureContains DEF Required
  <1> HIDE DEF R
  <1>4. TypeOK'
    <2>1. owner' \in [Boards -> [1..MaxGenerations -> Threads \cup {None}]]
      BY <1>1 DEF Unlocked, Protocol, TypeOK
    <2>2. QED
      BY <1>1, <1>3, <2>1 DEF tree, bounds, Protocol, TypeOK
  <1>5. \A u \in Threads \ {t} : Kept(u) /\ Spares(u)
    BY <1>1 DEF Kept, Spares, tree, Protocol, TypeOK
  <1>6. ASSUME NEW u \in Threads \ {t}, NEW lock \in got[u]
        PROVE  owner'[lock[1]][lock[2]] = owner[lock[1]][lock[2]]
    <2>1. lock[1] \in Boards /\ lock[2] \in 1..MaxGenerations
      BY DEF Protocol, TypeOK
    <2>2. owner[lock[1]][lock[2]] = u
      BY DEF Protocol, Grip
    <2>3. QED
      BY <1>1, <2>1, <2>2 DEF Unlocked
  <1>7. pc'[t] = "scan" /\ got'[t] = {} /\ lockNames'[t] = R /\ names'[t] = names[t] /\ op'[t] = op[t]
    BY <1>1 DEF Protocol, TypeOK
  <1>8. Grip(t)' /\ Sound(t)'
    BY <1>1, <1>3, <1>7 DEF Protocol, Grip, Sound, Settles, Holding, Inside, Requests
  <1>9. QED
    BY <1>1, <1>4, <1>5, <1>6, <1>8, ThreadStep

LEMMA RecoverStep ==
  ASSUME Protocol, NEW t \in Threads, NEW pr \in Pairs, Recover(t, pr)
  PROVE  Protocol'
  <1>1. /\ pc[t] = "recover" /\ pr \in todo[t]
        /\ pending' = pending \ {pr} /\ todo' = [todo EXCEPT ![t] = @ \ {pr}]
        /\ pc' = [pc EXCEPT ![t] = IF todo[t] = {pr} THEN "in" ELSE "recover"]
        /\ UNCHANGED <<gen, made, files, locks, op, names, lockNames, got, opened, orphaned, bounds>>
    BY DEF Recover, Goto
  <1>2. TypeOK'
    BY <1>1 DEF locks, bounds, Protocol, TypeOK, Inside
  <1>3. \A u \in Threads \ {t} : Kept(u) /\ Spares(u)
    BY <1>1 DEF Kept, Spares, Protocol, TypeOK
  <1>4. todo'[t] = todo[t] \ {pr} /\ pc'[t] = IF todo[t] = {pr} THEN "in" ELSE "recover"
    BY <1>1 DEF Protocol, TypeOK
  <1>5. Grip(t)'
    <2>1. names'[t] \subseteq lockNames'[t] /\ names'[t] \in Requests(op'[t])
      BY <1>1 DEF Protocol, Grip
    <2>2. Unowned(t)' = {} /\ \A lock \in got'[t] : owner'[lock[1]][lock[2]] = t
      BY <1>1 DEF Protocol, Grip, Unowned, locks, Holding
    <2>3. pc'[t] \in {"in", "recover"}
      BY <1>4
    <2>4. QED
      BY <2>1, <2>2, <2>3 DEF Grip, Requests
  <1>6. ASSUME ~orphaned PROVE Sound(t)'
    <2>1. Sound(t) /\ names'[t] = names[t] /\ got' = got /\ gen' = gen
      BY <1>1, <1>6 DEF Protocol
    <2>2. \A lock \in got'[t] : gen'[lock[1]] = lock[2]
      BY <1>1, <2>1 DEF Sound, Holding
    <2>3. \A p \in pending' : p \cap names[t] # {} => p \in todo'[t]
      BY <1>1, <1>4, <2>1 DEF Sound, Settles
    <2>4. Settles(t)'
      BY <1>4, <2>1, <2>3 DEF Settles, Inside
    <2>5. pc'[t] \in {"in", "recover"}
      BY <1>4
    <2>6. QED
      BY <2>2, <2>4, <2>5 DEF Sound
  <1>7. QED
    BY <1>1, <1>2, <1>3, <1>5, <1>6, ThreadStep DEF locks

\* Two moves that share a board are not inside at once, so the journal is no
\* news to anybody else.
LEMMA WriteMoveJournalStep ==
  ASSUME Protocol, NEW t \in Threads, WriteMoveJournal(t)
  PROVE  Protocol'
  <1>1. /\ pc[t] = "in" /\ op[t] = "move" /\ pending' = pending \cup {names[t]}
        /\ pc' = [pc EXCEPT ![t] = "moving"]
        /\ UNCHANGED <<gen, made, files, locks, local, orphaned, bounds>>
    BY DEF WriteMoveJournal, Goto
  <1>2. names[t] \in Pairs
    BY <1>1 DEF Protocol, Grip, Requests
  <1>3. TypeOK'
    BY <1>1, <1>2 DEF locks, local, bounds, Protocol, TypeOK, Inside
  <1>4. \A u \in Threads \ {t} : Kept(u)
    BY <1>1 DEF Kept, local, Protocol, TypeOK
  <1>5. ASSUME NEW u \in Threads \ {t}, ~orphaned PROVE Spares(u)
    <2>1. pc[u] \in Holding => names[t] \cap names[u] = {}
      BY <1>1, <1>5, BoardsApart DEF Holding, Inside
    <2>2. QED
      BY <1>1, <2>1 DEF Spares
  <1>6. pc'[t] = "moving"
    BY <1>1 DEF Protocol, TypeOK
  <1>7. Grip(t)'
    BY <1>1, <1>6 DEF Protocol, Grip, Unowned, Requests, local, locks, Holding, Inside
  <1>8. ASSUME ~orphaned PROVE Sound(t)'
    BY <1>1, <1>6, <1>8 DEF Protocol, Sound, Settles, local, Holding, Inside
  <1>9. QED
    BY <1>1, <1>3, <1>4, <1>5, <1>7, <1>8, ThreadStep DEF locks

LEMMA CreateBoardStep ==
  ASSUME Protocol, NEW t \in Threads, CreateBoard(t)
  PROVE  Protocol'
  <1>1. /\ pc[t] = "in" /\ op[t] = "create" /\ files[Board(t)] = {}
        /\ pc' = [pc EXCEPT ![t] = "createArchive"]
        /\ UNCHANGED <<tree, locks, local, orphaned, bounds>>
    BY DEF CreateBoard, NoFiles, Goto
  <1>2. TypeOK'
    BY <1>1 DEF tree, locks, local, bounds, Protocol, TypeOK, Inside
  <1>3. \A u \in Threads \ {t} : Kept(u) /\ Spares(u)
    BY <1>1 DEF Kept, Spares, tree, local, Protocol, TypeOK
  <1>4. pc'[t] = "createArchive" /\ Board(t)' = Board(t)
    BY <1>1 DEF Protocol, TypeOK, Board, local
  <1>5. Grip(t)'
    BY <1>1, <1>4 DEF Protocol, Grip, Unowned, Requests, local, locks, Holding, Inside
  <1>6. ASSUME ~orphaned PROVE Sound(t)'
    BY <1>1, <1>4, <1>6 DEF Protocol, Sound, Settles, local, tree, Holding, Inside
  <1>7. QED
    BY <1>1, <1>2, <1>3, <1>5, <1>6, ThreadStep DEF locks

LEMMA CreateArchiveStep ==
  ASSUME Protocol, NEW t \in Threads, CreateArchive(t)
  PROVE  Protocol'
  <1>1. /\ pc[t] = "createArchive" /\ files' = [files EXCEPT ![Board(t)] = @ \cup {"archive"}]
        /\ pc' = [pc EXCEPT ![t] = "createActive"]
        /\ UNCHANGED <<gen, made, pending, locks, local, orphaned, bounds>>
    BY DEF CreateArchive, Write, Goto
  <1>2. op[t] = "create" /\ names[t] \in Requests(op[t])
    BY <1>1 DEF Protocol, Grip
  <1>3. Board(t) \in Boards
    BY <1>2, NamesOneBoard
  <1>4. TypeOK'
    BY <1>1 DEF locks, local, bounds, Protocol, TypeOK, Inside, Kinds
  <1>5. \A u \in Threads \ {t} : Kept(u)
    BY <1>1 DEF Kept, local, Protocol, TypeOK
  <1>6. ASSUME NEW u \in Threads \ {t}, ~orphaned PROVE Spares(u)
    <2>1. pc[u] \in {"createArchive", "createActive"} => files'[Board(u)] = files[Board(u)]
      BY <1>1, <1>2, <1>6, WriteSpares DEF Inside
    <2>2. QED
      BY <1>1, <2>1 DEF Spares
  <1>7. pc'[t] = "createActive" /\ Board(t)' = Board(t)
    BY <1>1 DEF Protocol, TypeOK, Board, local
  <1>8. Grip(t)'
    BY <1>1, <1>7 DEF Protocol, Grip, Unowned, Requests, local, locks, Holding, Inside
  <1>9. ASSUME ~orphaned PROVE Sound(t)'
    <2>1. files'[Board(t)] = {"archive"}
      BY <1>1, <1>3, <1>9 DEF Protocol, Sound, TypeOK
    <2>2. QED
      BY <1>1, <1>7, <1>9, <2>1 DEF Protocol, Sound, Settles, local, Holding, Inside
  <1>10. QED
    BY <1>1, <1>4, <1>5, <1>6, <1>8, <1>9, ThreadStep DEF locks

LEMMA EnsureActiveStep ==
  ASSUME Protocol, NEW t \in Threads, EnsureActive(t)
  PROVE  Protocol'
  <1>1. /\ pc[t] = "in" /\ op[t] = "ensure" /\ MakeDirectories(Missing(t))
        /\ files' = [files EXCEPT ![Board(t)] = @ \cup {"active"}]
        /\ pc' = [pc EXCEPT ![t] = "ensureArchive"]
        /\ UNCHANGED <<pending, locks, local, orphaned, bounds>>
    BY DEF EnsureActive, Write, Goto
  <1>2. /\ gen' \in [Boards -> 0..MaxGenerations] /\ made' \in [Boards -> 0..MaxGenerations]
        /\ \A u \in Threads : \A lock \in got[u] : gen[lock[1]] = lock[2] => gen'[lock[1]] = lock[2]
    BY <1>1, MissingAreBoards, DirectoriesSpare
  <1>3. TypeOK'
    BY <1>1, <1>2 DEF locks, local, bounds, Protocol, TypeOK, Inside, Kinds
  <1>4. \A u \in Threads \ {t} : Kept(u)
    BY <1>1 DEF Kept, local, Protocol, TypeOK
  <1>5. ASSUME NEW u \in Threads \ {t}, ~orphaned PROVE Spares(u)
    <2>1. pc[u] \in {"createArchive", "createActive"} => files'[Board(u)] = files[Board(u)]
      BY <1>1, <1>5, WriteSpares DEF Inside
    <2>2. QED
      BY <1>1, <1>2, <2>1 DEF Spares
  <1>6. pc'[t] = "ensureArchive"
    BY <1>1 DEF Protocol, TypeOK
  <1>7. Grip(t)'
    BY <1>1, <1>6 DEF Protocol, Grip, Unowned, Requests, local, locks, Holding, Inside
  <1>8. ASSUME ~orphaned PROVE Sound(t)'
    <2>1. \A lock \in got'[t] : gen'[lock[1]] = lock[2]
      BY <1>1, <1>2, <1>8 DEF Protocol, Sound, local, Holding, Inside
    <2>2. QED
      BY <1>1, <1>6, <1>8, <2>1 DEF Protocol, Sound, Settles, local, Holding, Inside
  <1>9. QED
    BY <1>1, <1>3, <1>4, <1>5, <1>7, <1>8, ThreadStep DEF locks

-----------------------------------------------------------------------------
(* The protocol as a whole.                                                *)

LEMMA InitProtocol ==
  ASSUME Init
  PROVE  Protocol
  <1>1. gen \in [Boards -> 0..MaxGenerations]
    <2>1. 0 \in 0..MaxGenerations /\ 1 \in 0..MaxGenerations
      BY LocksAssumption
    <2>2. QED
      BY <2>1 DEF Init
  <1>2. TypeOK
    <2>1. 0 \in 0..MaxGenerations /\ 0 \in 0..MaxOps /\ 0 \in 0..MaxMishaps
      BY LocksAssumption
    <2>2. owner \in [Boards -> [1..MaxGenerations -> Threads \cup {None}]]
      BY DEF Init
    <2>3. files \in [Boards -> SUBSET Kinds]
      BY DEF Init
    <2>4. QED
      BY <1>1, <2>1, <2>2, <2>3 DEF Init, TypeOK
  <1>3. \A t \in Threads : Grip(t) /\ Sound(t)
    BY DEF Init, Grip, Sound, Settles, Holding, Inside
  <1>4. QED
    BY <1>2, <1>3 DEF Protocol

LEMMA StutterProtocol ==
  ASSUME Protocol, UNCHANGED vars
  PROVE  Protocol'
  <1> USE DEF vars, tree, locks, local, bounds
  <1>1. TypeOK'
    BY DEF Protocol, TypeOK
  <1>2. ASSUME NEW t \in Threads
        PROVE  Grip(t)' /\ (orphaned' \/ Sound(t)')
    <2>1. Kept(t) /\ Spares(t) /\ owner' = owner
      BY DEF Kept, Spares
    <2>2. QED
      BY <2>1, GripKept, SoundKept DEF Protocol
  <1>3. QED
    BY <1>1, <1>2 DEF Protocol

LEMMA NextProtocol ==
  ASSUME Protocol, [Next]_vars
  PROVE  Protocol'
  <1>1. ASSUME NEW t \in Threads, NEW kind \in Operations, NEW ns \in Requests(kind),
               Begin(t, kind, ns)
        PROVE  Protocol'
    BY <1>1, BeginStep
  <1>2. ASSUME NEW t \in Threads, Step(t)
        PROVE  Protocol'
    <2>1. CASE TakeMutex(t) \/ Stat(t) \/ Scan(t) \/ Open(t) \/ Flock(t) \/ Rescan(t) \/ Retry(t)
      BY <2>1, TakeMutexStep, StatStep, ScanStep, OpenStep, FlockStep, RescanStep, RetryStep
    <2>2. CASE StatMissing(t) \/ OpenMissing(t) \/ RecoverFails(t)
      BY <2>2, GivesUpStep
    <2>3. CASE \E pr \in Pairs : Recover(t, pr)
      BY <2>3, RecoverStep
    <2>4. CASE Leave(t)
      BY <2>4, LeaveStep
    <2>5. CASE WriteMoveJournal(t) \/ RemoveMoveJournal(t)
      BY <2>5, WriteMoveJournalStep, RemoveMoveJournalStep
    <2>6. CASE CreateBoard(t) \/ CreateArchive(t) \/ CreateActive(t)
      BY <2>6, CreateBoardStep, CreateArchiveStep, LastWriteStep
    <2>7. CASE EnsureActive(t) \/ EnsureArchive(t)
      BY <2>7, EnsureActiveStep, LastWriteStep
    <2>8. CASE DeleteBoard(t)
      BY <2>8, DeleteBoardStep
    <2>9. QED
      BY <1>2, <2>1, <2>2, <2>3, <2>4, <2>5, <2>6, <2>7, <2>8 DEF Step
  <1>3. ASSUME NEW s \in Stores, Crash(s)
        PROVE  Protocol'
    BY <1>3, CrashStep
  <1>4. CASE UNCHANGED vars
    BY <1>4, StutterProtocol
  <1>5. QED
    BY <1>1, <1>2, <1>3, <1>4 DEF Next

LEMMA AlwaysProtocol == Spec => []Protocol
  <1>1. Init => Protocol
    BY InitProtocol
  <1>2. Protocol /\ [Next]_vars => Protocol'
    BY NextProtocol
  <1>3. QED
    BY <1>1, <1>2, PTL DEF Spec

\* Type correctness of withBoardLocksMode and of the operations under it.
THEOREM LocksTyped == Spec => []TypeOK
  <1>1. Protocol => TypeOK
    BY DEF Protocol
  <1>2. QED
    BY <1>1, AlwaysProtocol, PTL

\* Whatever boards the journals add to a request and however often it starts
\* over, no two operations are on one board at once, until a thread goes on
\* with the lock of a directory that has been deleted.
THEOREM LocksExclusion == Spec => []Exclusion
  <1>1. Protocol => Exclusion
    BY Apart DEF Protocol, Exclusion, Holding
  <1>2. QED
    BY <1>1, AlwaysProtocol, PTL

\* An operation finds its boards as a finished move left them: it has replayed
\* the journals there were, and nobody writes another while it runs.
THEOREM LocksJournalsSettled == Spec => []JournalsSettled
  <1>1. Protocol => JournalsSettled
    BY DEF Protocol, Sound, Settles, JournalsSettled
  <1>2. QED
    BY <1>1, AlwaysProtocol, PTL

\* CreateBoard writes over no file of a board, though it looks only once, two
\* writes before the last: short of the lock of a deleted directory.
THEOREM LocksOverwriteOnlyOrphaned == Spec => OverwritesOnlyOrphaned
  <1>1. Protocol => \A t \in Threads : Overwrites(t) => orphaned
    BY DEF Protocol, Sound, Overwrites
  <1>2. QED
    BY <1>1, AlwaysProtocol, PTL DEF OverwritesOnlyOrphaned

=============================================================================
