-------------------------- MODULE RenderIndex_proofs --------------------------
(***************************************************************************)
(* Theorems about the index of rendered notes: the types, that the note of *)
(* an upload stays published, that a stale page is always noticed, that a  *)
(* write that was acknowledged is indexed, and that a page that is served  *)
(* is as new as the note was when its view began.                          *)
(*                                                                         *)
(* The last three rest on one invariant, Fresh: what a row, a rendering, a *)
(* snapshot and a request know of a note is never newer than its file, and *)
(* a hash that still holds was taken of what the page was made of.         *)
(***************************************************************************)
EXTENDS RenderIndex, FiniteSetTheorems, WellFoundedInduction, TLAPS

-----------------------------------------------------------------------------
(* Facts about numbers: Min and Max are choices, made from a well-order.   *)

LEMMA WellOrdered ==
  ASSUME NEW T \in SUBSET Nat, T # {}
  PROVE  \E x \in T : \A y \in T : x <= y
  <1> DEFINE R == OpToRel(<, Nat)
  <1>1. IsWellFoundedOn(R, Nat)
    BY NatLessThanWellFounded
  <1>2. PICK x \in T : \A y \in T : ~ (<<y, x>> \in R)
    <2> HIDE DEF R
    <2>1. QED
      BY <1>1, WFMin
  <1>3. \A y \in T : ~ (y < x)
    BY <1>2 DEF OpToRel
  <1>4. QED
    BY <1>3

LEMMA FiniteHasLargest ==
  ASSUME NEW S \in SUBSET Nat, IsFiniteSet(S), S # {}
  PROVE  \E x \in S : \A y \in S : x >= y
  <1> DEFINE Largest(T) == \E x \in T : \A y \in T : x >= y
             Sizes == {k \in Nat : \E T \in SUBSET S : T # {} /\ Cardinality(T) = k /\ ~ Largest(T)}
  <1>1. \A T \in SUBSET S : IsFiniteSet(T) /\ Cardinality(T) \in Nat
    BY FS_Subset, FS_CardinalityType
  <1>2. SUFFICES ASSUME ~ Largest(S) PROVE FALSE
    OBVIOUS
  <1>3. Cardinality(S) \in Sizes
    BY <1>1, <1>2
  <1>4. PICK k \in Sizes : \A n \in Sizes : k <= n
    BY <1>3, WellOrdered
  <1>5. PICK T \in SUBSET S : T # {} /\ Cardinality(T) = k /\ ~ Largest(T)
    BY <1>4
  <1>6. PICK x \in T : TRUE
    BY <1>5
  <1> DEFINE U == T \ {x}
  <1>7. Cardinality(U) = k - 1 /\ U \in SUBSET S
    BY <1>1, <1>5, <1>6, FS_RemoveElement
  <1>8. k \in Nat /\ Cardinality(U) \in Nat
    BY <1>1, <1>4, <1>7
  <1>9. Largest(U) \/ U = {}
    BY <1>4, <1>7, <1>8
  <1>10. CASE U = {}
    <2>1. T = {x} /\ x \in Nat
      BY <1>6, <1>10
    <2>2. QED
      BY <2>1, <1>5
  <1>11. CASE Largest(U)
    <2>1. PICK m \in U : \A y \in U : m >= y
      BY <1>11
    <2>2. m \in T /\ m \in Nat /\ x \in Nat
      BY <1>6, <1>5
    <2>3. CASE m >= x
      <3>1. \A y \in T : m >= y
        BY <2>1, <2>3
      <3>2. QED
        BY <3>1, <2>2, <1>5
    <2>4. CASE ~ (m >= x)
      <3>1. \A y \in T : x >= y
        <4> SUFFICES ASSUME NEW y \in T PROVE x >= y
          OBVIOUS
        <4>1. y \in Nat
          BY <1>5
        <4>2. CASE y = x
          BY <4>1, <4>2
        <4>3. CASE y \in U
          BY <2>1, <2>2, <2>4, <4>1, <4>3
        <4>4. QED
          BY <4>2, <4>3
      <3>2. QED
        BY <3>1, <1>6, <1>5
    <2>5. QED
      BY <2>3, <2>4
  <1>12. QED
    BY <1>9, <1>10, <1>11

LEMMA MaxIs ==
  ASSUME NEW S \in SUBSET Nat, IsFiniteSet(S), S # {}
  PROVE  Max(S) \in S /\ \A y \in S : Max(S) >= y
  BY FiniteHasLargest DEF Max

LEMMA MinIs ==
  ASSUME NEW S \in SUBSET Nat, S # {}
  PROVE  Min(S) \in S /\ \A y \in S : Min(S) <= y
  BY WellOrdered DEF Min

-----------------------------------------------------------------------------
(* Types, and who may be doing what.                                       *)

\* What a pass does to the index for the one note of an upload.
Uploading == pass # None /\ pass.by \in Clients /\ pc[pass.by] = "index"

Owned ==
  /\ ~up => bg = "off" /\ \A c \in Clients : pc[c] = "idle"
  /\ pass # None =>
       /\ pass.by = "start" <=> ~up
       /\ pass.by = "background" => bg = "rescan"
       /\ pass.by \in Clients => pc[pass.by] \in {"reindex", "refresh", "index"}
       /\ Uploading => pass.stage \in {"uploadRender", "uploadCommit", "publish"}
       /\ pass.stage \in {"uploadRender", "uploadCommit"} => Uploading
       /\ pass.stage = "uploadCommit" =>
            LET row == pass.batch[job[pass.by].path] IN row # None /\ row.hash # None
       /\ pass.stage \in {"diff", "uploadRender", "publish"} => Rendered = {} /\ pass.unread = {}

Typed == TypeOK /\ Owned

LEMMA NoneIs ==
  /\ None \notin Hash /\ None \notin Rows /\ None \notin Pass /\ None \notin Job
  /\ None \notin Callers
  BY NoneIsNoRecord, IndexAssumption DEF Callers

LEMMA MaxPaths ==
  Max(Paths) \in Nat /\ \A p \in Paths : p \in Nat /\ p <= Max(Paths)
  <1>1. Paths \in SUBSET Nat /\ IsFiniteSet(Paths) /\ Paths # {}
    BY IndexAssumption
  <1>2. Max(Paths) \in Paths /\ \A y \in Paths : Max(Paths) >= y
    BY <1>1, MaxIs
  <1>3. QED
    BY <1>1, <1>2

LEMMA NewestType ==
  ASSUME TypeOK
  PROVE  Newest \in Nat \ {0}
  BY MaxPaths DEF Newest, TypeOK

LEMMA NewPassType ==
  ASSUME NEW c \in Callers, NEW stage \in Stages, NEW v \in Snapshot
  PROVE  NewPass(c, stage, v) \in Pass
  <1>1. [p \in Paths |-> None] \in [Paths -> Rows \cup {None}]
    OBVIOUS
  <1>2. 0 \in Nat /\ {} \in SUBSET Paths /\ {} \in SUBSET Slugs
    OBVIOUS
  <1>3. QED
    BY <1>1, <1>2 DEF NewPass, Pass

LEMMA VersionedHashType ==
  ASSUME NEW v \in Snapshot, NEW p \in Paths, NEW salt \in Nat
  PROVE  VersionedHash(v, p, salt) \in Hash
  <1>1. v[p] \in Nat /\ OnlyOf(Embeds[p], v) \in Snapshot
    BY DEF Snapshot, OnlyOf
  <1>2. QED
    BY <1>1 DEF VersionedHash, Hash

LEMMA RowType ==
  ASSUME TypeOK, NEW v \in Snapshot, NEW p \in Paths, NEW salt \in Nat
  PROVE  Row(p, v, salt) \in Rows
  <1>1. disk[p] \in Nat /\ OnlyOf(Embeds[p] \cap Present(v), disk) \in Snapshot /\ boards \in Nat
    BY DEF Snapshot, OnlyOf, TypeOK
  <1>2. Links[p] \cap Present(v) \in SUBSET Paths
    BY DEF Present
  <1>3. RenderBody(p, v) \in Page
    BY <1>1, <1>2 DEF RenderBody, Page
  <1>4. QED
    BY <1>3, VersionedHashType DEF Row, Rows

LEMMA PassType ==
  ASSUME TypeOK, pass # None
  PROVE  pass \in Pass
  BY DEF TypeOK

LEMMA PassFields ==
  ASSUME TypeOK, pass # None
  PROVE  /\ pass.by \in Callers /\ pass.stage \in Stages /\ pass.v \in Snapshot
         /\ pass.salt \in Nat /\ pass.work \in SUBSET Paths /\ pass.deleted \in SUBSET Slugs
         /\ pass.batch \in [Paths -> Rows \cup {None}] /\ pass.unread \in SUBSET Paths
  BY PassType DEF Pass

LEMMA JobType ==
  ASSUME TypeOK, NEW c \in Clients, pc[c] # "idle"
  PROVE  job[c] \in Job /\ job[c].path \in Paths /\ job[c].since \in Nat
         /\ job[c].failed \in BOOLEAN /\ job[c].got \in Nat
  <1>1. job[c] \in Job
    BY DEF TypeOK
  <1>2. QED
    BY <1>1 DEF Job

LEMMA RowsType ==
  ASSUME TypeOK, NEW p \in Paths
  PROVE  Slug[p] \in Slugs /\ rows[Slug[p]] \in Rows \cup {None}
  BY DEF TypeOK, Slugs

LEMMA SlugsAre ==
  \A p \in Paths : Slug[p] \in Slugs
  BY DEF Slugs

\* A request goes on that holds no pass.
LEMMA ClientOwned ==
  ASSUME Typed, up, NEW c \in Clients, pass = None \/ pass.by # c,
         pass' = pass, up' = up, bg' = bg \/ bg = "off", NEW x, NEW j,
         pc' = [pc EXCEPT ![c] = x], job' = [job EXCEPT ![c] = j]
  PROVE  Owned'
  <1>1. pc \in [Clients -> {"idle", "reindex", "refresh", "page", "served", "index", "plugins"}]
        /\ job \in [Clients -> Job \cup {None}]
    BY DEF Typed, TypeOK
  <1>2. \A d \in Clients : d # c => pc'[d] = pc[d] /\ job'[d] = job[d]
    BY <1>1
  <1>3. pass # None =>
          (pass.by \in Clients => pc'[pass.by] = pc[pass.by] /\ job'[pass.by] = job[pass.by])
    BY <1>2
  <1>4. Uploading' <=> Uploading
    BY <1>3 DEF Uploading
  <1>5. Rendered' = Rendered
    BY DEF Rendered
  <1>6. QED
    BY <1>3, <1>4, <1>5 DEF Owned, Uploading, Typed

\* No pass is left.
LEMMA NoPassOwned ==
  ASSUME pass' = None, ~up' => bg' = "off" /\ \A c \in Clients : pc'[c] = "idle"
  PROVE  Owned'
  BY DEF Owned, Uploading

LEMMA SnapshotUpdate ==
  ASSUME NEW v \in Snapshot, NEW p \in Paths, NEW x \in Nat
  PROVE  [v EXCEPT ![p] = x] \in Snapshot
  BY DEF Snapshot

LEMMA EditTyped ==
  ASSUME Typed, NEW p \in Paths, Edit(p) \/ RemoveFile(p) \/ ChangeBoards
  PROVE  Typed'
  <1>1. UNCHANGED <<rows, vault, locks, up, later, client, ghosts>>
    BY DEF Edit, RemoveFile, ChangeBoards
  <1>2. Owned'
    <2>1. (Uploading' <=> Uploading) /\ Rendered' = Rendered
      BY <1>1 DEF Uploading, locks, client, Rendered
    <2>2. QED
      BY <1>1, <2>1 DEF Owned, Typed, locks, client, later
  <1>3. disk' \in Snapshot /\ boards' \in Nat
    <2>1. disk \in Snapshot /\ boards \in Nat /\ Newest \in Nat
      BY NewestType DEF Typed, TypeOK
    <2>2. QED
      BY <2>1, SnapshotUpdate DEF Edit, RemoveFile, ChangeBoards, NewVersion
  <1>4. acked' \in Snapshot /\ answered' \subseteq Paths /\ events' \in Nat /\ mishaps' \in Nat
    BY SnapshotUpdate DEF Edit, RemoveFile, ChangeBoards, Typed, TypeOK, told, Event
  <1>5. TypeOK'
    BY <1>1, <1>3, <1>4 DEF Typed, TypeOK, locks, later, client, ghosts
  <1>6. QED
    BY <1>2, <1>5 DEF Typed

LEMMA RescanTyped ==
  ASSUME Typed, NEW c \in Callers, Rescan(c)
  PROVE  Typed'
  <1>1. pass' = NewPass(c, "diff", disk) /\ vaultLock' = c /\ Wants(c)
        /\ UNCHANGED <<world, rows, vault, up, later, client, told, ghosts, mishaps>>
    BY DEF Rescan, BeginPass
  <1>2. pass' \in Pass
    BY <1>1, NewPassType DEF Typed, TypeOK, Stages
  <1>3. TypeOK'
    BY <1>1, <1>2 DEF Typed, TypeOK, world, later, client, told, ghosts
  <1>4. pass'.by = c /\ pass'.stage = "diff" /\ Rendered' = {} /\ pass'.unread = {}
    BY <1>1 DEF NewPass, Rendered
  <1>5. c = "start" <=> ~up
    BY <1>1, IndexAssumption DEF Wants, Owned, Typed
  <1>6. (c \in Clients => pc[c] \in {"reindex", "refresh"}) /\ (c = "background" => bg = "rescan")
    BY <1>1, IndexAssumption DEF Wants
  <1>7. Owned'
    BY <1>1, <1>4, <1>5, <1>6 DEF Owned, Typed, Uploading, later, client
  <1>8. QED
    BY <1>3, <1>7 DEF Typed

LEMMA ToPublishType ==
  ASSUME Typed, pass # None, ToPublish
  PROVE  pass' \in Pass /\ pass'.by = pass.by /\ pass'.stage = "publish" /\ pass'.v = pass.v
         /\ Rendered' = {} /\ pass'.unread = {} /\ pass'.work = {} /\ pass'.deleted = {}
         /\ pass'.salt = 0
  <1>1. pass' \in Pass
    BY NewPassType, PassFields DEF ToPublish, Typed, Stages
  <1>2. QED
    BY <1>1 DEF ToPublish, NewPass, Rendered

\* The pass of a request goes on to its next stage.
LEMMA PassOwned ==
  ASSUME Typed, pass # None, pass' # None, pass'.by = pass.by, UNCHANGED <<up, later, client>>,
         pass'.stage \in {"diff", "begin", "render"} => ~Uploading,
         pass'.stage \in {"uploadRender", "uploadCommit"} => Uploading,
         pass'.stage = "uploadCommit" => pass'.batch[job[pass.by].path] # None
                                         /\ pass'.batch[job[pass.by].path].hash # None,
         pass'.stage \in {"diff", "uploadRender", "publish"} => Rendered' = {} /\ pass'.unread = {},
         pass' \in Pass
  PROVE  Owned'
  <1>1. Uploading' <=> Uploading
    BY DEF Uploading, client
  <1>2. pass'.stage \in Stages
    BY DEF Pass
  <1>3. QED
    BY <1>1, <1>2 DEF Owned, Typed, client, later, Stages

LEMMA DiffTyped ==
  ASSUME Typed, Diff
  PROVE  Typed'
  <1>1. PICK work : work = Work(pass.v, Indexed \ SlugsOf(pass.v))
    OBVIOUS
  <1>2. pass # None /\ pass.stage = "diff"
        /\ UNCHANGED <<world, rows, vault, vaultLock, up, later, client, told, ghosts, mishaps>>
    BY DEF Diff, At
  <1>3. \/ ToPublish
        \/ pass' = [pass EXCEPT !.stage = "begin", !.salt = boards, !.work = work,
                                !.deleted = Indexed \ SlugsOf(pass.v)]
    BY <1>1 DEF Diff
  <1>4. ~Uploading
    BY <1>2 DEF Typed, Owned
  <1>5. work \in SUBSET Paths /\ Indexed \in SUBSET Slugs
    BY <1>1 DEF Work, Present, Indexed
  <1>6. pass' \in Pass /\ pass' # None /\ pass'.by = pass.by /\ pass'.stage \in {"begin", "publish"}
        /\ (pass'.stage = "publish" => Rendered' = {} /\ pass'.unread = {})
    <2>1. CASE ToPublish
      BY <1>2, <2>1, ToPublishType, NoneIs
    <2>2. CASE ~ToPublish
      <3>1. pass \in Pass /\ boards \in Nat
        BY <1>2 DEF Typed, TypeOK
      <3>2. pass' \in Pass
        BY <1>3, <1>5, <2>2, <3>1 DEF Pass, Stages
      <3>3. QED
        BY <1>3, <2>2, <3>1, <3>2, NoneIs DEF Pass
    <2>3. QED
      BY <2>1, <2>2
  <1>7. Owned'
    BY <1>2, <1>4, <1>6, PassOwned
  <1>8. TypeOK'
    BY <1>2, <1>6 DEF Typed, TypeOK, world, later, client, told, ghosts
  <1>9. QED
    BY <1>7, <1>8 DEF Typed

\* What the turn of a note makes of the pass.
LEMMA RenderNoteIs ==
  ASSUME Typed, NEW o \in Outcomes, RenderNote(o)
  PROVE  /\ pass # None /\ pass.stage \in {"begin", "render"} /\ ~Uploading
         /\ Min(pass.work) \in pass.work
         /\ pass' \in Pass /\ pass'.by = pass.by /\ pass'.stage = "render" /\ pass'.v = pass.v
         /\ pass'.salt = pass.salt /\ pass'.deleted = pass.deleted
         /\ pass'.work = pass.work \ {Min(pass.work)}
         /\ \/ /\ disk[Min(pass.work)] # 0
               /\ pass'.batch = [pass.batch EXCEPT ![Min(pass.work)] =
                                   Row(Min(pass.work), pass.v, pass.salt)]
               /\ pass'.unread = pass.unread
            \/ /\ pass'.batch = [pass.batch EXCEPT ![Min(pass.work)] = None]
               /\ pass'.unread = pass.unread \cup {Min(pass.work)}
  <1>1. pass # None /\ pass.stage \in {"begin", "render"} /\ pass.work # {}
    BY DEF RenderNote, At
  <1>2. PICK p : p = Min(pass.work)
    OBVIOUS
  <1>3. pass \in Pass /\ pass.work \in SUBSET Paths /\ pass.batch \in [Paths -> Rows \cup {None}]
        /\ pass.v \in Snapshot /\ pass.salt \in Nat /\ pass.unread \in SUBSET Paths
    BY <1>1, PassFields, PassType DEF Typed
  <1>4. p \in pass.work
    <2>1. pass.work \in SUBSET Nat
      BY <1>3, IndexAssumption
    <2>2. QED
      BY <1>1, <1>2, <2>1, MinIs
  <1>5. PICK good : good = (o = "ok" /\ disk[p] # 0)
    OBVIOUS
  <1>6. PICK row : row = IF good THEN Row(p, pass.v, pass.salt) ELSE None
    OBVIOUS
  <1>7. row \in Rows \cup {None}
    BY <1>3, <1>4, <1>6, RowType DEF Typed
  <1>8. PICK unread : unread = IF good THEN pass.unread ELSE pass.unread \cup {p}
    OBVIOUS
  <1>9. pass' = [pass EXCEPT !.stage = "render", !.work = pass.work \ {p},
                             !.batch = [pass.batch EXCEPT ![p] = row], !.unread = unread]
    BY <1>2, <1>3, <1>5, <1>6, <1>8 DEF RenderNote, Pass
  <1>10. [pass.batch EXCEPT ![p] = row] \in [Paths -> Rows \cup {None}] /\ unread \in SUBSET Paths
    BY <1>3, <1>4, <1>7, <1>8
  <1>11. pass' \in Pass
    BY <1>3, <1>9, <1>10 DEF Pass, Stages
  <1>12. pass'.by = pass.by /\ pass'.stage = "render" /\ pass'.v = pass.v
         /\ pass'.salt = pass.salt /\ pass'.deleted = pass.deleted
         /\ pass'.work = pass.work \ {p} /\ pass'.batch = [pass.batch EXCEPT ![p] = row]
         /\ pass'.unread = unread
    BY <1>3, <1>9 DEF Pass
  <1>13. ~Uploading
    BY <1>1 DEF Typed, Owned
  <1>14. CASE good
    BY <1>1, <1>2, <1>4, <1>5, <1>6, <1>8, <1>11, <1>12, <1>13, <1>14
  <1>15. CASE ~good
    BY <1>1, <1>2, <1>4, <1>5, <1>6, <1>8, <1>11, <1>12, <1>13, <1>15
  <1>16. QED
    BY <1>5, <1>14, <1>15

LEMMA RenderNoteTyped ==
  ASSUME Typed, NEW o \in Outcomes, RenderNote(o)
  PROVE  Typed'
  <1>1. UNCHANGED <<world, rows, vault, vaultLock, up, later, client, told, ghosts>>
    BY DEF RenderNote
  <1>2. mishaps' \in Nat
    BY DEF RenderNote, Mishap, Typed, TypeOK, Outcomes
  <1>3. pass # None /\ pass' \in Pass /\ pass' # None /\ pass'.by = pass.by
        /\ pass'.stage = "render" /\ ~Uploading
    BY RenderNoteIs, NoneIs
  <1>4. Owned'
    BY <1>1, <1>3, PassOwned
  <1>5. TypeOK'
    BY <1>1, <1>2, <1>3 DEF Typed, TypeOK, world, later, client, told, ghosts
  <1>6. QED
    BY <1>4, <1>5 DEF Typed

\* The row that a transaction leaves for a slug.
LEMMA WrittenType ==
  ASSUME Typed, pass # None, NEW s \in Slugs
  PROVE  /\ Written(s) \in Rows \cup {None}
         /\ \/ \E q \in Paths : Slug[q] = s /\ pass.batch[q] # None /\ Written(s) = pass.batch[q]
            \/ /\ \A q \in Paths : Slug[q] = s => pass.batch[q] = None
               /\ Written(s) = IF s \in pass.deleted THEN None ELSE rows[s]
  <1>1. pass.batch \in [Paths -> Rows \cup {None}] /\ rows[s] \in Rows \cup {None}
    BY PassFields DEF Typed, TypeOK
  <1>2. PICK ps : ps = {p \in Paths : Slug[p] = s /\ pass.batch[p] # None}
    OBVIOUS
  <1>3. Written(s) = CASE ps # {} -> pass.batch[Max(ps)]
                       [] ps = {} /\ s \in pass.deleted -> None
                       [] OTHER -> rows[s]
    BY <1>2 DEF Written
  <1>4. CASE ps # {}
    <2>1. ps \in SUBSET Nat /\ IsFiniteSet(ps)
      BY <1>2, IndexAssumption, FS_Subset
    <2>2. Max(ps) \in ps
      BY <1>4, <2>1, MaxIs
    <2>3. Written(s) = pass.batch[Max(ps)]
      BY <1>3, <1>4
    <2>4. QED
      BY <1>1, <1>2, <2>2, <2>3
  <1>5. CASE ps = {}
    <2>1. Written(s) = IF s \in pass.deleted THEN None ELSE rows[s]
      BY <1>3, <1>5
    <2>2. QED
      BY <1>1, <1>2, <1>5, <2>1
  <1>6. QED
    BY <1>4, <1>5

LEMMA CommitTyped ==
  ASSUME Typed, Commit
  PROVE  Typed'
  <1>1. pass # None /\ pass.stage \in {"begin", "render"} /\ rows' = [s \in Slugs |-> Written(s)]
        /\ ToPublish /\ UNCHANGED <<world, vault, vaultLock, up, later, client, told, mishaps>>
    BY DEF Commit, At
  <1>2. rows' \in [Slugs -> Rows \cup {None}]
    BY <1>1, WrittenType
  <1>3. skipped' \subseteq Paths /\ dropped' \subseteq Paths
    <2>1. pass.unread \in SUBSET Paths
      BY <1>1, PassFields DEF Typed
    <2>2. QED
      BY <2>1 DEF Commit, Typed, TypeOK
  <1>4. pass' \in Pass /\ pass' # None /\ pass'.by = pass.by /\ pass'.stage = "publish"
        /\ Rendered' = {} /\ pass'.unread = {}
    BY <1>1, ToPublishType, NoneIs
  <1>5. Owned'
    BY <1>1, <1>4, PassOwned
  <1>6. TypeOK'
    BY <1>1, <1>2, <1>3, <1>4 DEF Typed, TypeOK, world, later, client, told
  <1>7. QED
    BY <1>5, <1>6 DEF Typed

\* How a pass ends, for each kind of caller.
LEMMA EndPassIs ==
  ASSUME Typed, pass # None, NEW ok \in BOOLEAN, EndPass(ok)
  PROVE  /\ pass' = None /\ vaultLock' \in {vaultLock, None} /\ UNCHANGED pending
         /\ \/ /\ ~up /\ up' = ok /\ UNCHANGED <<bg, pc, job, told>>
            \/ /\ up /\ pass.by \in {"loop", "background"} /\ bg' \in {bg, "end"}
               /\ bg # bg' => bg = "rescan"
               /\ UNCHANGED <<up, pc, job, told>>
            \/ /\ up /\ pass.by \in Clients /\ pc[pass.by] = "reindex" /\ WriterReturns(pass.by, ok)
            \/ /\ up /\ pass.by \in Clients /\ pc[pass.by] = "refresh" /\ ViewerGoesOn(pass.by, ok)
            \/ /\ up /\ Uploading /\ UploadReturns(pass.by, ok)
  <1>1. pass' = None /\ vaultLock' \in {vaultLock, None} /\ UNCHANGED pending
        /\ Return(pass.by, ok)
    BY DEF EndPass
  <1>2. pass.by \in Callers /\ (pass.by = "start" <=> ~up)
        /\ (pass.by = "background" => bg = "rescan")
        /\ (pass.by \in Clients => pc[pass.by] \in {"reindex", "refresh", "index"})
    BY PassFields DEF Typed, Owned
  <1>3. PICK c : c = pass.by
    OBVIOUS
  <1>4. "start" \notin Clients /\ "loop" \notin Clients /\ "background" \notin Clients
    BY IndexAssumption
  <1>5. CASE c = "start"
    <2>1. up' = ok /\ UNCHANGED <<bg, pc, job, told>>
      BY <1>1, <1>3, <1>4, <1>5 DEF Return
    <2>2. QED
      BY <1>1, <1>2, <1>3, <1>5, <2>1
  <1>6. CASE c = "loop"
    <2>1. UNCHANGED <<up, bg, pc, job, told>>
      BY <1>1, <1>3, <1>4, <1>6 DEF Return
    <2>2. QED
      BY <1>1, <1>2, <1>3, <1>6, <2>1
  <1>7. CASE c = "background"
    <2>1. bg' = "end" /\ UNCHANGED <<up, pc, job, told>>
      BY <1>1, <1>3, <1>4, <1>7 DEF Return
    <2>2. QED
      BY <1>1, <1>2, <1>3, <1>7, <2>1
  <1>8. CASE c \in Clients /\ pc[c] = "reindex"
    <2>1. WriterReturns(c, ok)
      BY <1>1, <1>3, <1>4, <1>8 DEF Return
    <2>2. QED
      BY <1>1, <1>2, <1>3, <1>4, <1>8, <2>1
  <1>9. CASE c \in Clients /\ pc[c] = "refresh"
    <2>1. ViewerGoesOn(c, ok)
      BY <1>1, <1>3, <1>4, <1>9 DEF Return
    <2>2. QED
      BY <1>1, <1>2, <1>3, <1>4, <1>9, <2>1
  <1>10. CASE c \in Clients /\ pc[c] = "index"
    <2>1. UploadReturns(c, ok)
      BY <1>1, <1>3, <1>4, <1>10 DEF Return
    <2>2. QED
      BY <1>1, <1>2, <1>3, <1>4, <1>10, <2>1 DEF Uploading
  <1>11. QED
    BY <1>2, <1>3, <1>5, <1>6, <1>7, <1>8, <1>9, <1>10 DEF Callers

LEMMA StepOfClientType ==
  ASSUME Typed, NEW c \in Clients, NEW j \in Job,
         NEW x \in {"reindex", "refresh", "page", "served", "index", "plugins"},
         pc' = [pc EXCEPT ![c] = x], job' = [job EXCEPT ![c] = j]
  PROVE  /\ pc' \in [Clients -> {"idle", "reindex", "refresh", "page", "served", "index",
                                "plugins"}]
         /\ job' \in [Clients -> Job \cup {None}]
         /\ \A d \in Clients : pc'[d] = "idle" <=> job'[d] = None
  BY NoneIs DEF Typed, TypeOK

LEMMA IdleType ==
  ASSUME Typed, NEW c \in Clients, Idle(c)
  PROVE  /\ pc' \in [Clients -> {"idle", "reindex", "refresh", "page", "served", "index",
                                "plugins"}]
         /\ job' \in [Clients -> Job \cup {None}]
         /\ \A d \in Clients : pc'[d] = "idle" <=> job'[d] = None
  BY DEF Typed, TypeOK, Idle

LEMMA EndPassTyped ==
  ASSUME Typed, pass # None, NEW ok \in BOOLEAN, EndPass(ok),
         UNCHANGED <<world, rows, ghosts>>, vault' \in Snapshot, mishaps' \in Nat
  PROVE  Typed'
  <1>1. pass' = None /\ vaultLock' \in {vaultLock, None} /\ UNCHANGED pending
    BY EndPassIs
  <1> DEFINE Shape ==
        /\ up' \in BOOLEAN /\ bg' \in {"off", "sleep", "invalidate", "rescan", "end"}
        /\ pc' \in [Clients -> {"idle", "reindex", "refresh", "page", "served", "index", "plugins"}]
        /\ job' \in [Clients -> Job \cup {None}]
        /\ \A d \in Clients : pc'[d] = "idle" <=> job'[d] = None
        /\ acked' \in Snapshot /\ answered' \subseteq Paths
        /\ ~up' => bg' = "off" /\ \A c \in Clients : pc'[c] = "idle"
  <1>2. ASSUME ~up /\ up' = ok /\ UNCHANGED <<bg, pc, job, told>> PROVE Shape
    BY <1>2 DEF Typed, TypeOK, Owned, told
  <1>3. ASSUME up /\ pass.by \in {"loop", "background"} /\ bg' \in {bg, "end"}
               /\ UNCHANGED <<up, pc, job, told>>
        PROVE  Shape
    BY <1>3 DEF Typed, TypeOK, Owned, told
  <1>4. ASSUME up /\ pass.by \in Clients /\ pc[pass.by] = "reindex" /\ WriterReturns(pass.by, ok)
        PROVE  Shape
    <2>1. job[pass.by] \in Job /\ job[pass.by].path \in Paths /\ job[pass.by].since \in Nat
      BY <1>4, JobType DEF Typed
    <2>2. UNCHANGED <<answered, up, bg>> /\ Idle(pass.by)
      BY <1>4 DEF WriterReturns
    <2>3. acked' \in Snapshot
      <3>1. PICK x : x = IF acked[job[pass.by].path] > job[pass.by].since
                         THEN acked[job[pass.by].path] ELSE job[pass.by].since
        OBVIOUS
      <3>2. acked \in Snapshot /\ x \in Nat
        BY <2>1, <3>1 DEF Typed, TypeOK, Snapshot
      <3>3. acked' \in {acked, [acked EXCEPT ![job[pass.by].path] = x]}
        BY <1>4, <2>1, <3>1, <3>2 DEF WriterReturns, Snapshot
      <3>4. QED
        BY <2>1, <3>2, <3>3, SnapshotUpdate
    <2>4. Shape
      BY <1>4, <2>2, <2>3, IdleType DEF Typed, TypeOK
    <2>5. QED
      BY <2>4
  <1>5. ASSUME up /\ pass.by \in Clients /\ pc[pass.by] = "refresh" /\ ViewerGoesOn(pass.by, ok)
        PROVE  Shape
    <2>1. job[pass.by] \in Job
      BY <1>5, JobType DEF Typed
    <2>2. UNCHANGED <<told, up, bg>>
      BY <1>5 DEF ViewerGoesOn
    <2>3. CASE Idle(pass.by)
      BY <1>5, <2>2, <2>3, IdleType DEF Typed, TypeOK, told
    <2>4. CASE ~Idle(pass.by)
      <3>1. PICK j : j = [job[pass.by] EXCEPT !.failed = ~ok]
        OBVIOUS
      <3>2. j \in Job
        BY <2>1, <3>1 DEF Job
      <3>3. pc' = [pc EXCEPT ![pass.by] = "page"] /\ job' = [job EXCEPT ![pass.by] = j]
        BY <1>5, <2>4, <3>1 DEF ViewerGoesOn, Typed, TypeOK
      <3>4. QED
        BY <1>5, <2>2, <3>2, <3>3, StepOfClientType DEF Typed, TypeOK, told
    <2>5. QED
      BY <2>3, <2>4
  <1>6. ASSUME up /\ Uploading /\ UploadReturns(pass.by, ok)
        PROVE  Shape
    <2>1. pass.by \in Clients /\ pc[pass.by] = "index"
      BY <1>6 DEF Uploading
    <2>2. job[pass.by] \in Job /\ job[pass.by].path \in Paths
      BY <2>1, JobType DEF Typed
    <2>3. UNCHANGED <<acked, up, bg>> /\ answered' \subseteq Paths
      BY <1>6, <2>2 DEF UploadReturns, Typed, TypeOK
    <2>4. CASE Idle(pass.by)
      BY <1>6, <2>1, <2>3, <2>4, IdleType DEF Typed, TypeOK
    <2>5. CASE ~Idle(pass.by)
      <3>1. pc' = [pc EXCEPT ![pass.by] = "plugins"]
            /\ job' = [job EXCEPT ![pass.by] = job[pass.by]]
        BY <1>6, <2>5 DEF UploadReturns, Typed, TypeOK
      <3>2. QED
        BY <1>6, <2>1, <2>2, <2>3, <3>1, StepOfClientType DEF Typed, TypeOK
    <2>6. QED
      BY <2>4, <2>5
  <1>7. Shape
    BY <1>2, <1>3, <1>4, <1>5, <1>6, EndPassIs
  <1>8. Owned'
    BY <1>1, <1>7, NoPassOwned
  <1>9. TypeOK'
    BY <1>1, <1>7 DEF Typed, TypeOK, world, ghosts
  <1>10. QED
    BY <1>8, <1>9 DEF Typed

LEMMA PublishTyped ==
  ASSUME Typed, Publish
  PROVE  Typed'
  <1>1. pass # None /\ EndPass(TRUE) /\ vault' = pass.v
        /\ UNCHANGED <<world, rows, ghosts, mishaps>>
    BY DEF Publish, At
  <1>2. vault' \in Snapshot /\ mishaps' \in Nat
    BY <1>1, PassFields DEF Typed, TypeOK
  <1>3. QED
    BY <1>1, <1>2, EndPassTyped

LEMMA PassFailsTyped ==
  ASSUME Typed, PassFails
  PROVE  Typed'
  <1>1. pass # None /\ EndPass(FALSE) /\ UNCHANGED <<world, rows, vault, ghosts>>
    BY DEF PassFails, At
  <1>2. vault' \in Snapshot /\ mishaps' \in Nat
    BY <1>1 DEF Typed, TypeOK, PassFails, Mishap
  <1>3. QED
    BY <1>1, <1>2, EndPassTyped

\* The path of the note that an upload's pass is for.
LEMMA UploadPath ==
  ASSUME Typed, pass # None, pass.stage \in {"uploadRender", "uploadCommit"} \/ Uploading
  PROVE  /\ Uploading /\ pass.by \in Clients /\ job[pass.by] \in Job /\ job[pass.by].path \in Paths
         /\ pass.by # "start" /\ up
         /\ pass.stage = "uploadCommit" => pass.batch[job[pass.by].path] \in Rows
                                          /\ pass.batch[job[pass.by].path].hash # None
  <1>1. Uploading
    BY DEF Typed, Owned
  <1>2. pass.by \in Clients /\ pc[pass.by] = "index"
    BY <1>1 DEF Uploading
  <1>3. job[pass.by] \in Job /\ job[pass.by].path \in Paths
    BY <1>2, JobType DEF Typed
  <1>4. pass.by # "start"
    BY <1>2, IndexAssumption
  <1>5. up
    BY <1>4 DEF Typed, Owned
  <1>6. pass.batch \in [Paths -> Rows \cup {None}]
    BY PassFields DEF Typed
  <1>7. pass.stage = "uploadCommit" => pass.batch[job[pass.by].path] # None
                                       /\ pass.batch[job[pass.by].path].hash # None
    BY DEF Typed, Owned
  <1>8. QED
    BY <1>1, <1>2, <1>3, <1>4, <1>5, <1>6, <1>7

\* The three steps of the pass of an upload, with its note.
UploadRenders(p) ==
  /\ pass.stage = "uploadRender" /\ disk[p] # 0
  /\ pass' = [pass EXCEPT !.stage = "uploadCommit", !.batch[p] = Row(p, pass.v, 0)]
  /\ UNCHANGED <<world, rows, vault, vaultLock, up, later, client, told, ghosts, mishaps>>

UploadFindsNothing(p) ==
  /\ pass.stage = "uploadRender" /\ disk[p] = 0
  /\ EndPass(FALSE)
  /\ UNCHANGED <<world, rows, vault, ghosts, mishaps>>

UploadCommits(p) ==
  /\ pass.stage = "uploadCommit"
  /\ rows' = [rows EXCEPT ![Slug[p]] = [pass.batch[p] EXCEPT !.hash.salt = boards]]
  /\ ToPublish
  /\ UNCHANGED <<world, vault, vaultLock, up, later, client, told, ghosts, mishaps>>

LEMMA IndexNoteIs ==
  ASSUME Typed, IndexNote
  PROVE  /\ pass # None
         /\ LET p == job[pass.by].path
            IN  UploadRenders(p) \/ UploadFindsNothing(p) \/ UploadCommits(p)
  <1>1. pass # None
    BY DEF IndexNote, At
  <1>2. PICK p : p = job[pass.by].path
    OBVIOUS
  <1>3. UploadRenders(p) \/ UploadFindsNothing(p) \/ UploadCommits(p)
    BY <1>2 DEF IndexNote, At, UploadRenders, UploadFindsNothing, UploadCommits
  <1>4. QED
    BY <1>1, <1>2, <1>3

LEMMA UploadRendersIs ==
  ASSUME Typed, pass # None, UploadRenders(job[pass.by].path)
  PROVE  LET p == job[pass.by].path
         IN  /\ Row(p, pass.v, 0) \in Rows
             /\ pass' \in Pass /\ pass'.by = pass.by /\ pass'.stage = "uploadCommit"
             /\ pass'.v = pass.v /\ pass'.salt = pass.salt /\ pass'.deleted = pass.deleted
             /\ pass'.batch = [pass.batch EXCEPT ![p] = Row(p, pass.v, 0)]
             /\ Rendered' = {p}
  <1>1. PICK p : p = job[pass.by].path
    OBVIOUS
  <1>2. p \in Paths
    BY <1>1, UploadPath DEF UploadRenders
  <1>3. pass \in Pass /\ pass.batch \in [Paths -> Rows \cup {None}] /\ pass.v \in Snapshot
    BY PassFields, PassType DEF Typed
  <1>4. Row(p, pass.v, 0) \in Rows
    BY <1>2, <1>3, RowType DEF Typed
  <1>5. PICK row : row = Row(p, pass.v, 0)
    OBVIOUS
  <1>6. pass' = [pass EXCEPT !.stage = "uploadCommit", !.batch = [pass.batch EXCEPT ![p] = row]]
    BY <1>1, <1>3, <1>5 DEF UploadRenders, Pass
  <1>7. [pass.batch EXCEPT ![p] = row] \in [Paths -> Rows \cup {None}]
    BY <1>2, <1>3, <1>4, <1>5
  <1>8. pass' \in Pass
    BY <1>3, <1>6, <1>7 DEF Pass, Stages
  <1>9. pass'.by = pass.by /\ pass'.stage = "uploadCommit" /\ pass'.v = pass.v
        /\ pass'.salt = pass.salt /\ pass'.deleted = pass.deleted
        /\ pass'.batch = [pass.batch EXCEPT ![p] = row]
    BY <1>3, <1>6 DEF Pass
  <1>10. Rendered = {}
    BY DEF Typed, Owned, UploadRenders
  <1>11. Rendered' = {p}
    <2>1. \A q \in Paths : pass'.batch[q] = IF q = p THEN row ELSE pass.batch[q]
      BY <1>2, <1>3, <1>9
    <2>2. row # None
      BY <1>4, <1>5, NoneIs
    <2>3. QED
      BY <1>2, <1>10, <2>1, <2>2 DEF Rendered
  <1>12. QED
    BY <1>1, <1>4, <1>5, <1>8, <1>9, <1>11

LEMMA SaltedType ==
  ASSUME NEW r \in Rows, r.hash # None, NEW salt \in Nat
  PROVE  /\ [r EXCEPT !.hash.salt = salt] \in Rows
         /\ [r EXCEPT !.hash.salt = salt].html = r.html
         /\ [r EXCEPT !.hash.salt = salt].hash \in Hash
         /\ [r EXCEPT !.hash.salt = salt].hash.body = r.hash.body
         /\ [r EXCEPT !.hash.salt = salt].hash.deps = r.hash.deps
         /\ [r EXCEPT !.hash.salt = salt].hash.salt = salt
  <1>1. r.hash \in Hash
    BY DEF Rows
  <1>2. PICK h : h = [r.hash EXCEPT !.salt = salt]
    OBVIOUS
  <1>3. h \in Hash /\ h.body = r.hash.body /\ h.deps = r.hash.deps /\ h.salt = salt
    BY <1>1, <1>2 DEF Hash
  <1>4. [r EXCEPT !.hash.salt = salt] = [r EXCEPT !.hash = h]
    BY <1>2 DEF Rows
  <1>5. [r EXCEPT !.hash = h] \in Rows
    BY <1>3 DEF Rows
  <1>6. [r EXCEPT !.hash = h].html = r.html /\ [r EXCEPT !.hash = h].hash = h
    BY DEF Rows
  <1>7. QED
    BY <1>3, <1>4, <1>5, <1>6

LEMMA IndexNoteTyped ==
  ASSUME Typed, IndexNote
  PROVE  Typed'
  <1>1. PICK p : p = job[pass.by].path
    OBVIOUS
  <1>2. pass # None /\ (UploadRenders(p) \/ UploadFindsNothing(p) \/ UploadCommits(p))
    BY <1>1, IndexNoteIs
  <1>3. CASE UploadRenders(p)
    <2>1. Uploading /\ p \in Paths
      BY <1>1, <1>2, <1>3, UploadPath DEF UploadRenders
    <2>2. PICK row : row = Row(p, pass.v, 0)
      OBVIOUS
    <2>3. pass' \in Pass /\ pass'.by = pass.by /\ pass'.stage = "uploadCommit"
          /\ pass'.batch = [pass.batch EXCEPT ![p] = row] /\ row \in Rows
      BY <1>1, <1>2, <1>3, <2>2, UploadRendersIs
    <2>4. row.hash # None
      <3>1. pass.v \in Snapshot
        BY <1>2, PassFields DEF Typed
      <3>2. VersionedHash(pass.v, p, 0) \in Hash
        BY <2>1, <3>1, VersionedHashType
      <3>3. QED
        BY <2>2, <3>2, NoneIs DEF Row
    <2>5. pass'.batch[p] = row
      <3>1. pass.batch \in [Paths -> Rows \cup {None}]
        BY <1>2, PassFields DEF Typed
      <3>2. QED
        BY <2>1, <2>3, <3>1
    <2>6. UNCHANGED <<world, rows, vault, vaultLock, up, later, client, told, ghosts, mishaps>>
      BY <1>3 DEF UploadRenders
    <2>7. Owned'
      BY <1>1, <1>2, <2>1, <2>3, <2>4, <2>5, <2>6, NoneIs, PassOwned
    <2>8. TypeOK'
      BY <2>3, <2>6 DEF Typed, TypeOK, world, later, client, told, ghosts
    <2>9. QED
      BY <2>7, <2>8 DEF Typed
  <1>4. CASE UploadFindsNothing(p)
    <2>1. vault' \in Snapshot /\ mishaps' \in Nat
      BY <1>4 DEF Typed, TypeOK, UploadFindsNothing
    <2>2. QED
      BY <1>2, <1>4, <2>1, EndPassTyped DEF UploadFindsNothing
  <1>5. CASE UploadCommits(p)
    <2>1. Uploading /\ p \in Paths /\ pass.batch[p] \in Rows /\ pass.batch[p].hash # None
      BY <1>1, <1>2, <1>5, UploadPath DEF UploadCommits
    <2>2. PICK row : row = [pass.batch[p] EXCEPT !.hash.salt = boards]
      OBVIOUS
    <2>3. row \in Rows
      BY <2>1, <2>2, SaltedType DEF Typed, TypeOK
    <2>4. rows' = [rows EXCEPT ![Slug[p]] = row]
          /\ UNCHANGED <<world, vault, vaultLock, up, later, client, told, ghosts, mishaps>>
          /\ ToPublish
      BY <1>5, <2>2 DEF UploadCommits
    <2>5. rows' \in [Slugs -> Rows \cup {None}]
      BY <2>3, <2>4 DEF Typed, TypeOK
    <2>6. pass' \in Pass /\ pass' # None /\ pass'.by = pass.by /\ pass'.stage = "publish"
          /\ Rendered' = {} /\ pass'.unread = {}
      BY <1>2, <2>4, ToPublishType, NoneIs
    <2>7. Owned'
      BY <1>2, <2>1, <2>4, <2>6, PassOwned
    <2>8. TypeOK'
      BY <2>4, <2>5, <2>6 DEF Typed, TypeOK, world, later, client, told, ghosts
    <2>9. QED
      BY <2>7, <2>8 DEF Typed
  <1>6. QED
    BY <1>2, <1>3, <1>4, <1>5

LEMMA ServePageTyped ==
  ASSUME Typed, NEW c \in Clients, ServePage(c) \/ PageRead(c) \/ UploadVanished(c) \/ Schedule(c)
  PROVE  Typed'
  <1>1. pc[c] \in {"page", "served", "index", "plugins"} /\ (pc[c] = "index" => pass = None)
        /\ UNCHANGED <<world, rows, vault, locks, up, told, ghosts, mishaps>>
    BY DEF ServePage, PageRead, UploadVanished, Schedule, later
  <1>2. up /\ (pass = None \/ pass.by # c) /\ job[c] \in Job
    BY <1>1, JobType DEF Typed, Owned
  <1> bg' = bg \/ bg = "off"
    BY DEF ServePage, PageRead, UploadVanished, Schedule, later
  <1>3. pending' \in BOOLEAN /\ bg' \in {"off", "sleep", "invalidate", "rescan", "end"}
    BY DEF ServePage, PageRead, UploadVanished, Schedule, later, Typed, TypeOK
  <1>4. \/ Idle(c)
        \/ \E j \in Job : pc' = [pc EXCEPT ![c] = "served"] /\ job' = [job EXCEPT ![c] = j]
    <2>1. CASE ~ServePage(c)
      BY <2>1 DEF PageRead, UploadVanished, Schedule
    <2>2. CASE ServePage(c) /\ ~Idle(c)
      <3>1. PICK p : p = job[c].path
        OBVIOUS
      <3>2. p \in Paths
        BY <1>2, <3>1 DEF Job
      <3>3. PICK got : got = IF rows[Slug[p]] = None THEN disk[p] ELSE rows[Slug[p]].html.body
        OBVIOUS
      <3>4. got \in Nat
        <4>1. rows[Slug[p]] \in Rows \cup {None} /\ disk[p] \in Nat
          BY <3>2, RowsType DEF Typed, TypeOK, Snapshot
        <4>2. QED
          BY <3>3, <4>1 DEF Rows, Page
      <3>5. PICK failed : failed = (job[c].failed \/ p \in skipped)
        OBVIOUS
      <3>6. PICK j : j = [job[c] EXCEPT !.got = got, !.failed = failed]
        OBVIOUS
      <3>7. j \in Job
        BY <1>2, <3>4, <3>5, <3>6 DEF Job
      <3>8. pc' = [pc EXCEPT ![c] = "served"]
            /\ job' = [job EXCEPT ![c].got = got, ![c].failed = @ \/ p \in skipped]
        BY <2>2, <3>1, <3>3 DEF ServePage
      <3>9. job' = [job EXCEPT ![c] = j]
        BY <1>2, <3>5, <3>6, <3>8 DEF Typed, TypeOK, Job
      <3>10. QED
        BY <3>7, <3>8, <3>9
    <2>3. QED
      BY <2>1, <2>2
  <1>5. CASE Idle(c)
    <2>1. pc' = [pc EXCEPT ![c] = "idle"] /\ job' = [job EXCEPT ![c] = None]
      BY <1>5 DEF Idle
    <2>2. Owned'
      BY <1>1, <1>2, <2>1, ClientOwned DEF locks
    <2>3. TypeOK'
      BY <1>1, <1>3, <1>5, IdleType DEF Typed, TypeOK, world, locks, told, ghosts
    <2>4. QED
      BY <2>2, <2>3 DEF Typed
  <1>6. CASE ~Idle(c)
    <2>1. PICK j \in Job : pc' = [pc EXCEPT ![c] = "served"] /\ job' = [job EXCEPT ![c] = j]
      BY <1>4, <1>6
    <2>2. Owned'
      BY <1>1, <1>2, <2>1, ClientOwned DEF locks
    <2>3. TypeOK'
      BY <1>1, <1>3, <2>1, StepOfClientType DEF Typed, TypeOK, world, locks, told, ghosts
    <2>4. QED
      BY <2>2, <2>3 DEF Typed
  <1>7. QED
    BY <1>5, <1>6

\* A request begins: its kind, its note and the version that it begins with.
LEMMA RequestIs ==
  ASSUME Typed, NEW c \in Clients, NEW p \in Paths,
         WriteNote(c, p) \/ ViewNote(c, p) \/ Upload(c, p)
  PROVE  /\ up /\ pc[c] = "idle" /\ (pass = None \/ pass.by # c)
         /\ events' = events + 1 /\ events \in Nat
         /\ UNCHANGED <<boards, rows, vault, pass, up, later, told, ghosts, mishaps>>
         /\ vaultLock' \in {vaultLock, c}
         /\ \E x \in {"reindex", "refresh", "page", "index"}, since \in Nat :
              /\ pc' = [pc EXCEPT ![c] = x] /\ job' = [job EXCEPT ![c] = NewJob(p, since)]
              /\ NewJob(p, since) \in Job
              /\ x \in {"reindex", "index"} =>
                   since = Newest /\ disk' = [disk EXCEPT ![p] = Newest]
              /\ x = "reindex" => WriteNote(c, p)
              /\ x \in {"refresh", "page"} =>
                   since = disk[p] /\ disk' = disk /\ vault[p] # 0
              /\ x = "page" => disk[p] = vault[p]
              /\ x = "index" => p \in Uploads /\ disk[p] = 0
  <1>1. up /\ pc[c] = "idle" /\ Event
    BY DEF WriteNote, ViewNote, Upload, Request
  <1>2. pass = None \/ pass.by # c
    BY <1>1 DEF Typed, Owned
  <1>3. UNCHANGED <<boards, rows, vault, pass, up, later, told, ghosts, mishaps>>
        /\ vaultLock' \in {vaultLock, c}
    BY DEF WriteNote, ViewNote, Upload, locks, NewVersion
  <1>4. Newest \in Nat /\ disk[p] \in Nat
    BY NewestType DEF Typed, TypeOK, Snapshot
  <1>5. NewJob(p, Newest) \in Job /\ NewJob(p, disk[p]) \in Job
    BY <1>4 DEF NewJob, Job
  <1>6. events' = events + 1 /\ events \in Nat
    BY <1>1 DEF Event, Typed, TypeOK
  <1>7. CASE WriteNote(c, p)
    BY <1>1, <1>2, <1>3, <1>4, <1>5, <1>6, <1>7 DEF WriteNote, NewVersion
  <1>8. CASE ViewNote(c, p)
    BY <1>1, <1>2, <1>3, <1>4, <1>5, <1>6, <1>8 DEF ViewNote
  <1>9. CASE Upload(c, p)
    BY <1>1, <1>2, <1>3, <1>4, <1>5, <1>6, <1>9 DEF Upload, NewVersion
  <1>10. QED
    BY <1>7, <1>8, <1>9

LEMMA RequestTyped ==
  ASSUME Typed, NEW c \in Clients, NEW p \in Paths,
         WriteNote(c, p) \/ ViewNote(c, p) \/ Upload(c, p)
  PROVE  Typed'
  <1>1. up /\ (pass = None \/ pass.by # c)
        /\ events' \in Nat
        /\ UNCHANGED <<boards, rows, vault, pass, up, later, told, ghosts, mishaps>>
        /\ vaultLock' \in {vaultLock, c}
    BY RequestIs
  <1> bg' = bg
    BY <1>1 DEF later
  <1>2. PICK x \in {"reindex", "refresh", "page", "index"}, since \in Nat :
          /\ pc' = [pc EXCEPT ![c] = x] /\ job' = [job EXCEPT ![c] = NewJob(p, since)]
          /\ NewJob(p, since) \in Job
          /\ disk' \in {disk, [disk EXCEPT ![p] = Newest]}
    BY RequestIs
  <1>3. disk' \in Snapshot
    BY <1>2, NewestType, SnapshotUpdate DEF Typed, TypeOK
  <1>4. Owned'
    BY <1>1, <1>2, ClientOwned
  <1>5. TypeOK'
    BY <1>1, <1>2, <1>3, StepOfClientType DEF Typed, TypeOK, later, told, ghosts, Callers
  <1>6. QED
    BY <1>4, <1>5 DEF Typed

LEMMA IndexUploadTyped ==
  ASSUME Typed, NEW c \in Clients, IndexUpload(c)
  PROVE  Typed'
  <1>1. PICK v : v = WithFiles(job[c].path)
    OBVIOUS
  <1>2. pc[c] = "index" /\ pass = None /\ pass' = NewPass(c, "uploadRender", v)
        /\ UNCHANGED <<world, rows, vault, vaultLock, up, later, client, told, ghosts, mishaps>>
    BY <1>1 DEF IndexUpload, BeginPass
  <1>3. v \in Snapshot
    <2>1. job[c].path \in Paths
      BY <1>2, JobType DEF Typed
    <2>2. disk[job[c].path] \in Nat /\ vault \in Snapshot
      BY <2>1 DEF Typed, TypeOK, Snapshot
    <2>3. QED
      BY <1>1, <2>1, <2>2, SnapshotUpdate DEF WithFiles
  <1>4. pass' \in Pass
    BY <1>2, <1>3, NewPassType DEF Stages, Callers
  <1>5. pass'.by = c /\ pass'.stage = "uploadRender" /\ Rendered' = {} /\ pass'.unread = {}
    BY <1>2 DEF NewPass, Rendered
  <1>6. c # "start" /\ c # "background" /\ up
    BY <1>2, IndexAssumption DEF Typed, Owned
  <1>7. Owned'
    BY <1>2, <1>4, <1>5, <1>6, NoneIs DEF Typed, Owned, Uploading, client
  <1>8. TypeOK'
    BY <1>2, <1>4 DEF Typed, TypeOK, world, later, client, told, ghosts
  <1>9. QED
    BY <1>7, <1>8 DEF Typed

LEMMA ForgottenIs ==
  ASSUME NEW r \in Rows
  PROVE  /\ Forgotten(r) \in Rows /\ Forgotten(r).hash = None /\ Forgotten(r).html = r.html
         /\ Forgotten(r).path = r.path
  BY NoneIs DEF Forgotten, Rows

LEMMA BackgroundTyped ==
  ASSUME Typed, Background
  PROVE  Typed'
  <1>1. UNCHANGED <<world, vault, locks, up, client, told, skipped>> /\ bg # "off"
    BY DEF Background, Wake, InvalidateRenderCache, LoopEnds, ghosts
  <1>2. up /\ bg # "rescan"
    BY <1>1 DEF Typed, Owned, Background, Wake, InvalidateRenderCache, LoopEnds
  <1>3. Owned'
    <2>1. (Uploading' <=> Uploading) /\ Rendered' = Rendered
      BY <1>1 DEF Uploading, locks, client, Rendered
    <2>2. QED
      BY <1>1, <1>2, <2>1 DEF Owned, Typed, locks, client
  <1>4. pending' \in BOOLEAN /\ bg' \in {"off", "sleep", "invalidate", "rescan", "end"}
        /\ mishaps' \in Nat /\ dropped' \subseteq Paths
    <2>1. CASE Wake \/ LoopEnds
      BY <2>1 DEF Wake, LoopEnds, Typed, TypeOK, ghosts
    <2>2. CASE \E o \in Outcomes : InvalidateRenderCache(o)
      <3>1. UNCHANGED pending /\ bg' \in {"rescan", "end"} /\ dropped' \in {dropped, Paths}
        BY <2>2 DEF InvalidateRenderCache
      <3>2. mishaps' \in {mishaps, mishaps + 1}
        BY <2>2 DEF InvalidateRenderCache, Mishap
      <3>3. QED
        BY <3>1, <3>2 DEF Typed, TypeOK
    <2>3. QED
      BY <2>1, <2>2 DEF Background
  <1>5. rows' \in [Slugs -> Rows \cup {None}]
    <2>1. rows \in [Slugs -> Rows \cup {None}]
      BY DEF Typed, TypeOK
    <2>2. \A s \in Slugs : Forgotten(rows[s]) \in Rows \cup {None}
      <3>1. Forgotten(None) = None
        BY DEF Forgotten
      <3>2. QED
        BY <2>1, <3>1, ForgottenIs
    <2>3. rows' = rows \/ rows' = [s \in Slugs |-> Forgotten(rows[s])]
      BY DEF Background, Wake, InvalidateRenderCache, LoopEnds
    <2>4. QED
      BY <2>1, <2>2, <2>3
  <1>6. TypeOK'
    BY <1>1, <1>4, <1>5 DEF Typed, TypeOK, world, locks, client, told
  <1>7. QED
    BY <1>3, <1>6 DEF Typed

LEMMA NothingType == Nothing \in Snapshot
  BY DEF Nothing, Snapshot

LEMMA CrashTyped ==
  ASSUME Typed, Crash
  PROVE  Typed'
  <1>1. Owned'
    BY NoPassOwned DEF Crash
  <1>2. TypeOK'
    <2>1. dropped' \in {dropped, Paths} /\ mishaps' = mishaps + 1 /\ vault' \in Snapshot
          /\ UNCHANGED <<world, rows, told, skipped>>
      BY NothingType DEF Crash, Mishap
    <2>2. /\ pass' = None /\ vaultLock' = None /\ up' = FALSE /\ pending' = FALSE /\ bg' = "off"
          /\ pc' = [c \in Clients |-> "idle"] /\ job' = [c \in Clients |-> None]
      BY DEF Crash
    <2>3. /\ pc' \in [Clients -> {"idle", "reindex", "refresh", "page", "served", "index",
                                 "plugins"}]
          /\ job' \in [Clients -> Job \cup {None}]
          /\ \A c \in Clients : pc'[c] = "idle" <=> job'[c] = None
      BY <2>2
    <2>4. mishaps' \in Nat /\ dropped' \in SUBSET Paths /\ skipped' \in SUBSET Paths
      BY <2>1 DEF Typed, TypeOK
    <2>5. disk' \in Snapshot /\ acked' \in Snapshot /\ boards' \in Nat /\ events' \in Nat
          /\ rows' \in [Slugs -> Rows \cup {None}] /\ answered' \in SUBSET Paths
      BY <2>1 DEF Typed, TypeOK, world, told
    <2>6. QED
      BY <2>1, <2>2, <2>3, <2>4, <2>5 DEF TypeOK
  <1>3. QED
    BY <1>1, <1>2 DEF Typed

LEMMA InitTyped ==
  ASSUME Init
  PROVE  Typed
  <1>1. disk \in Snapshot
    BY IndexAssumption DEF Init, Snapshot
  <1>2. TypeOK
    BY <1>1, NothingType DEF Init, TypeOK
  <1>3. Owned
    BY DEF Init, Owned, Uploading
  <1>4. QED
    BY <1>2, <1>3 DEF Typed

LEMMA StutterTyped ==
  ASSUME Typed, UNCHANGED vars
  PROVE  Typed'
  <1>1. (Uploading' <=> Uploading) /\ Rendered' = Rendered
    BY DEF Uploading, vars, locks, client, Rendered
  <1>2. QED
    BY <1>1 DEF Typed, TypeOK, Owned, vars, world, locks, later, client, told, ghosts

\* The steps, each with what it is about.
LEMMA StepIs ==
  ASSUME [Next]_vars
  PROVE  \/ \E p \in Paths : Edit(p) \/ RemoveFile(p) \/ ChangeBoards
         \/ \E c \in Callers : Rescan(c)
         \/ Diff
         \/ \E o \in Outcomes : RenderNote(o)
         \/ Commit
         \/ Publish
         \/ PassFails
         \/ IndexNote
         \/ \E c \in Clients : ServePage(c) \/ PageRead(c) \/ UploadVanished(c) \/ Schedule(c)
         \/ \E c \in Clients : IndexUpload(c)
         \/ \E c \in Clients, p \in Paths : WriteNote(c, p) \/ ViewNote(c, p) \/ Upload(c, p)
         \/ Background
         \/ Crash
         \/ UNCHANGED vars
  <1>1. Paths # {}
    BY IndexAssumption
  <1>2. QED
    BY <1>1, Zenon DEF Next, PassStep, ClientStep

LEMMA NextTyped ==
  ASSUME Typed, [Next]_vars
  PROVE  Typed'
  BY StepIs, EditTyped, RescanTyped, DiffTyped, RenderNoteTyped, CommitTyped, PublishTyped,
     PassFailsTyped, IndexNoteTyped, ServePageTyped, IndexUploadTyped, RequestTyped,
     BackgroundTyped, CrashTyped, StutterTyped

LEMMA AlwaysTyped == Spec => []Typed
  BY InitTyped, NextTyped, PTL DEF Spec

\* The state is well typed whatever requests, passes and deaths of the server do:
\* a snapshot has a version for every path, a row is one of a note, a request that
\* is over leaves no work behind (Idle).
THEOREM IndexTyped == Spec => []TypeOK
  <1>1. Typed => TypeOK
    BY DEF Typed
  <1>2. QED
    BY <1>1, AlwaysTyped, PTL

-----------------------------------------------------------------------------
(* An upload's note stays published: every scan and every snapshot since   *)
(* the answer has it, so no pass takes its slug for a removed one.         *)

RowOf(p) == rows[Slug[p]]

Answered ==
  \A p \in answered :
    /\ disk[p] # 0 /\ RowOf(p) # None
    /\ up => vault[p] # 0
    /\ pass # None => pass.v[p] # 0

UploadKept ==
  /\ Answered
  /\ pass # None => pass.deleted \cap SlugsOf(pass.v) = {}
  /\ Uploading =>
       /\ pass.v[job[pass.by].path] # 0
       /\ pass.stage = "publish" => RowOf(job[pass.by].path) # None

\* Rows, snapshot and pass stay, or rows only come and are marked.
LEMMA QuietKept ==
  ASSUME Typed, UploadKept, UNCHANGED <<vault, pass, up>>, answered' \subseteq answered,
         \A p \in answered' : disk[p] # 0 => disk'[p] # 0,
         \A s \in Slugs : rows[s] # None => rows'[s] # None,
         pass # None /\ pass.by \in Clients =>
           pc'[pass.by] = pc[pass.by] /\ job'[pass.by] = job[pass.by]
  PROVE  UploadKept'
  <1>1. Uploading' <=> Uploading
    BY DEF Uploading
  <1>2. answered \subseteq Paths
    BY DEF Typed, TypeOK
  <1>3. \A p \in Paths : RowOf(p) # None => RowOf(p)' # None
    BY SlugsAre DEF RowOf
  <1>4. Answered'
    BY <1>2, <1>3 DEF UploadKept, Answered
  <1>5. pass # None => (pass.deleted \cap SlugsOf(pass.v) = {})'
    BY DEF UploadKept, SlugsOf, Present
  <1>6. ASSUME Uploading
        PROVE  (/\ pass.v[job[pass.by].path] # 0
                /\ pass.stage = "publish" => RowOf(job[pass.by].path) # None)'
    <2>1. PICK p : p = job[pass.by].path
      OBVIOUS
    <2>2. pass # None /\ pass.by \in Clients /\ p \in Paths
      BY <1>6, <2>1, UploadPath DEF Uploading
    <2>3. pass' = pass /\ job'[pass.by].path = p
      BY <2>1, <2>2
    <2>4. pass.v[p] # 0 /\ (pass.stage = "publish" => RowOf(p) # None)
      BY <1>6, <2>1 DEF UploadKept
    <2>5. pass.stage = "publish" => RowOf(p)' # None
      BY <1>3, <2>2, <2>4
    <2>6. QED
      BY <2>3, <2>4, <2>5 DEF RowOf
  <1>7. QED
    BY <1>1, <1>4, <1>5, <1>6 DEF UploadKept

LEMMA EditKept ==
  ASSUME Typed, UploadKept, NEW p \in Paths, Edit(p) \/ RemoveFile(p) \/ ChangeBoards
  PROVE  UploadKept'
  <1>1. UNCHANGED <<rows, vault, locks, up, client>> /\ answered' \subseteq answered
    BY DEF Edit, RemoveFile, ChangeBoards, told
  <1>2. \A q \in answered' : disk[q] # 0 => disk'[q] # 0
    <2>1. Newest # 0 /\ disk \in [Paths -> Nat] /\ answered \subseteq Paths
      BY NewestType DEF Typed, TypeOK, Snapshot
    <2>2. CASE Edit(p)
      BY <1>1, <2>1, <2>2 DEF Edit, NewVersion
    <2>3. CASE RemoveFile(p)
      BY <1>1, <2>1, <2>3 DEF RemoveFile
    <2>4. CASE ChangeBoards
      BY <2>4 DEF ChangeBoards
    <2>5. QED
      BY <2>2, <2>3, <2>4
  <1>3. QED
    BY <1>1, <1>2, QuietKept DEF locks, client

LEMMA RequestKept ==
  ASSUME Typed, UploadKept, NEW c \in Clients, NEW p \in Paths,
         WriteNote(c, p) \/ ViewNote(c, p) \/ Upload(c, p)
  PROVE  UploadKept'
  <1>1. pass = None \/ pass.by # c
    BY RequestIs
  <1>2. UNCHANGED <<rows, vault, pass, up, answered>>
    BY RequestIs DEF told
  <1>3. PICK x \in {"reindex", "refresh", "page", "index"}, since \in Nat :
          /\ pc' = [pc EXCEPT ![c] = x] /\ job' = [job EXCEPT ![c] = NewJob(p, since)]
          /\ disk' \in {disk, [disk EXCEPT ![p] = Newest]}
    BY RequestIs
  <1>4. \A q \in answered' : disk[q] # 0 => disk'[q] # 0
    <2>1. Newest # 0 /\ disk \in [Paths -> Nat] /\ answered \subseteq Paths
      BY NewestType DEF Typed, TypeOK, Snapshot
    <2>2. QED
      BY <1>2, <1>3, <2>1
  <1>5. \A d \in Clients : d # c => pc'[d] = pc[d] /\ job'[d] = job[d]
    BY <1>3 DEF Typed, TypeOK
  <1>6. QED
    BY <1>1, <1>2, <1>4, <1>5, QuietKept

LEMMA ServePageKept ==
  ASSUME Typed, UploadKept, NEW c \in Clients,
         ServePage(c) \/ PageRead(c) \/ UploadVanished(c) \/ Schedule(c)
  PROVE  UploadKept'
  <1>1. pc[c] \in {"page", "served", "index", "plugins"} /\ (pc[c] = "index" => pass = None)
        /\ UNCHANGED <<world, rows, vault, locks, up, told>>
    BY DEF ServePage, PageRead, UploadVanished, Schedule
  <1>2. pass = None \/ pass.by # c
    BY <1>1 DEF Typed, Owned
  <1>3. \A d \in Clients : d # c => pc'[d] = pc[d] /\ job'[d] = job[d]
    BY DEF Typed, TypeOK, ServePage, PageRead, UploadVanished, Schedule, Idle
  <1>4. QED
    BY <1>1, <1>2, <1>3, QuietKept DEF locks, told, world

LEMMA BackgroundKept ==
  ASSUME Typed, UploadKept, Background
  PROVE  UploadKept'
  <1>1. UNCHANGED <<world, vault, locks, up, client, told>>
    BY DEF Background, Wake, InvalidateRenderCache, LoopEnds
  <1>2. \A s \in Slugs : rows[s] # None => rows'[s] # None
    <2>1. rows' = rows \/ rows' = [s \in Slugs |-> Forgotten(rows[s])]
      BY DEF Background, Wake, InvalidateRenderCache, LoopEnds
    <2>2. \A s \in Slugs : rows[s] \in Rows \cup {None}
      BY DEF Typed, TypeOK
    <2>3. QED
      BY <2>1, <2>2, ForgottenIs, NoneIs
  <1>3. QED
    BY <1>1, <1>2, QuietKept DEF locks, client, told, world

LEMMA StutterKept ==
  ASSUME Typed, UploadKept, UNCHANGED vars
  PROVE  UploadKept'
  BY QuietKept DEF vars, world, locks, client, told

LEMMA RescanKept ==
  ASSUME Typed, UploadKept, NEW c \in Callers, Rescan(c)
  PROVE  UploadKept'
  <1>1. pass' = NewPass(c, "diff", disk) /\ UNCHANGED <<world, rows, vault, up, client, told>>
    BY DEF Rescan, BeginPass
  <1>2. pass'.by = c /\ pass'.stage = "diff" /\ pass'.v = disk /\ pass'.deleted = {}
    BY <1>1 DEF NewPass
  <1>3. Answered'
    BY <1>1, <1>2 DEF UploadKept, Answered, RowOf, world, told
  <1>4. ~Uploading'
    <2>1. Owned'
      BY RescanTyped DEF Typed
    <2>2. QED
      BY <1>2, <2>1 DEF Owned, Uploading
  <1>5. QED
    BY <1>2, <1>3, <1>4 DEF UploadKept, Uploading

LEMMA IndexUploadKept ==
  ASSUME Typed, UploadKept, NEW c \in Clients, IndexUpload(c)
  PROVE  UploadKept'
  <1>1. PICK p : p = job[c].path
    OBVIOUS
  <1>2. pc[c] = "index" /\ disk[p] # 0 /\ pass' = NewPass(c, "uploadRender", WithFiles(p))
        /\ UNCHANGED <<world, rows, vault, up, client, told>>
    BY <1>1 DEF IndexUpload, BeginPass
  <1>3. p \in Paths
    BY <1>1, <1>2, JobType DEF Typed
  <1>4. pass'.by = c /\ pass'.stage = "uploadRender" /\ pass'.v = WithFiles(p) /\ pass'.deleted = {}
    BY <1>2 DEF NewPass
  <1>5. \A q \in Paths : WithFiles(p)[q] = IF q = p THEN disk[p] ELSE vault[q]
    BY <1>3 DEF WithFiles, Typed, TypeOK, Snapshot
  <1>6. up
    BY <1>2 DEF Typed, Owned
  <1>7. answered \subseteq Paths
    BY DEF Typed, TypeOK
  <1>8. Answered'
    BY <1>2, <1>3, <1>4, <1>5, <1>6, <1>7 DEF UploadKept, Answered, RowOf, world, told
  <1>9. pass'.v[job'[pass'.by].path] # 0
    BY <1>1, <1>2, <1>3, <1>4, <1>5 DEF client
  <1>10. QED
    BY <1>4, <1>8, <1>9 DEF UploadKept

LEMMA DiffKept ==
  ASSUME Typed, UploadKept, Diff
  PROVE  UploadKept'
  <1>1. PICK work : work = Work(pass.v, Indexed \ SlugsOf(pass.v))
    OBVIOUS
  <1>2. pass # None /\ pass.stage = "diff" /\ ~Uploading
        /\ UNCHANGED <<world, rows, vault, up, client, told>>
    BY DEF Diff, At, Typed, Owned
  <1>3. \/ ToPublish
        \/ pass' = [pass EXCEPT !.stage = "begin", !.salt = boards, !.work = work,
                                !.deleted = Indexed \ SlugsOf(pass.v)]
    BY <1>1 DEF Diff
  <1>4. pass'.v = pass.v /\ pass'.by = pass.by
        /\ (pass'.deleted = {} \/ pass'.deleted = Indexed \ SlugsOf(pass.v))
    <2>1. CASE ToPublish
      BY <1>2, <2>1, ToPublishType
    <2>2. CASE ~ToPublish
      <3>1. pass \in Pass
        BY <1>2, PassType DEF Typed
      <3>2. QED
        BY <1>3, <2>2, <3>1 DEF Pass
    <2>3. QED
      BY <2>1, <2>2
  <1>5. Answered'
    BY <1>2, <1>4 DEF UploadKept, Answered, RowOf, world, told
  <1>6. ~Uploading'
    BY <1>2, <1>4 DEF Uploading, client
  <1>7. QED
    BY <1>4, <1>5, <1>6 DEF UploadKept

LEMMA RenderNoteKept ==
  ASSUME Typed, UploadKept, NEW o \in Outcomes, RenderNote(o)
  PROVE  UploadKept'
  <1>1. UNCHANGED <<world, rows, vault, up, client, told>>
    BY DEF RenderNote
  <1>2. pass # None /\ ~Uploading /\ pass'.by = pass.by /\ pass'.v = pass.v
        /\ pass'.deleted = pass.deleted
    BY RenderNoteIs
  <1>3. Answered'
    BY <1>1, <1>2 DEF UploadKept, Answered, RowOf, world, told
  <1>4. ~Uploading'
    BY <1>1, <1>2 DEF Uploading, client
  <1>5. QED
    BY <1>2, <1>3, <1>4 DEF UploadKept

LEMMA CommitKept ==
  ASSUME Typed, UploadKept, Commit
  PROVE  UploadKept'
  <1>1. pass # None /\ pass.stage \in {"begin", "render"} /\ rows' = [s \in Slugs |-> Written(s)]
        /\ ToPublish /\ UNCHANGED <<world, vault, up, client, told>>
    BY DEF Commit, At
  <1>2. pass'.by = pass.by /\ pass'.v = pass.v /\ pass'.deleted = {}
    BY <1>1, ToPublishType
  <1>3. ~Uploading /\ ~Uploading'
    BY <1>1, <1>2 DEF Typed, Owned, Uploading, client
  <1>4. ASSUME NEW p \in answered
        PROVE  RowOf(p)' # None
    <2>1. p \in Paths /\ pass.v[p] # 0 /\ rows[Slug[p]] # None
      BY <1>1 DEF Typed, TypeOK, UploadKept, Answered, RowOf
    <2>2. Slug[p] \in Slugs /\ Slug[p] \notin pass.deleted
      BY <1>1, <2>1 DEF UploadKept, SlugsOf, Present, Slugs
    <2>3. RowOf(p)' = Written(Slug[p])
      BY <1>1, <2>2 DEF RowOf
    <2>4. Written(Slug[p]) # None
      BY <1>1, <2>1, <2>2, WrittenType
    <2>5. QED
      BY <2>3, <2>4
  <1>5. Answered'
    BY <1>1, <1>2, <1>4 DEF UploadKept, Answered, world, told
  <1>6. QED
    BY <1>2, <1>3, <1>5 DEF UploadKept

\* The answer of an upload's pass is the only one that adds to the answered.
LEMMA EndPassKept ==
  ASSUME Typed, UploadKept, pass # None, NEW ok \in BOOLEAN, EndPass(ok),
         UNCHANGED <<world, rows>>,
         \/ ok /\ pass.stage = "publish" /\ vault' = pass.v
         \/ ~ok /\ vault' = vault
  PROVE  UploadKept'
  <1>1. pass' = None /\ (up' => up \/ ok)
    BY EndPassIs DEF WriterReturns, ViewerGoesOn, UploadReturns
  <1>2. answered' = answered \/ (Uploading /\ UploadReturns(pass.by, ok))
    BY EndPassIs DEF WriterReturns, ViewerGoesOn, told
  <1>3. ASSUME NEW p \in answered
        PROVE  disk'[p] # 0 /\ RowOf(p)' # None /\ (up' => vault'[p] # 0)
    BY <1>1 DEF UploadKept, Answered, RowOf, world
  <1>4. ASSUME NEW p \in answered', p \notin answered
        PROVE  disk'[p] # 0 /\ RowOf(p)' # None /\ (up' => vault'[p] # 0)
    <2>1. Uploading /\ ok /\ p = job[pass.by].path /\ disk[p] # 0
      BY <1>2, <1>4 DEF UploadReturns
    <2>2. QED
      BY <2>1 DEF UploadKept, RowOf, world
  <1>5. Answered'
    BY <1>1, <1>3, <1>4 DEF Answered
  <1>6. QED
    BY <1>1, <1>5 DEF UploadKept, Uploading

LEMMA PublishKept ==
  ASSUME Typed, UploadKept, Publish
  PROVE  UploadKept'
  BY EndPassKept DEF Publish, At

LEMMA PassFailsKept ==
  ASSUME Typed, UploadKept, PassFails
  PROVE  UploadKept'
  BY EndPassKept DEF PassFails, At

LEMMA IndexNoteKept ==
  ASSUME Typed, UploadKept, IndexNote
  PROVE  UploadKept'
  <1>1. PICK p : p = job[pass.by].path
    OBVIOUS
  <1>2. pass # None /\ (UploadRenders(p) \/ UploadFindsNothing(p) \/ UploadCommits(p))
    BY <1>1, IndexNoteIs
  <1>3. CASE UploadRenders(p)
    <2>1. Uploading
      BY <1>2, <1>3, UploadPath DEF UploadRenders
    <2>2. pass'.by = pass.by /\ pass'.stage = "uploadCommit" /\ pass'.v = pass.v
          /\ pass'.deleted = pass.deleted
      BY <1>1, <1>2, <1>3, UploadRendersIs
    <2>3. UNCHANGED <<world, rows, vault, up, client, told>>
      BY <1>3 DEF UploadRenders
    <2>4. Answered'
      BY <1>2, <2>2, <2>3 DEF UploadKept, Answered, RowOf, world, told
    <2>5. QED
      BY <1>2, <2>1, <2>2, <2>3, <2>4 DEF UploadKept, client
  <1>4. CASE UploadFindsNothing(p)
    BY <1>2, <1>4, EndPassKept DEF UploadFindsNothing
  <1>5. CASE UploadCommits(p)
    <2>1. Uploading /\ p \in Paths /\ pass.batch[p] \in Rows /\ pass.batch[p].hash # None
      BY <1>1, <1>2, <1>5, UploadPath DEF UploadCommits
    <2>2. PICK row : row = [pass.batch[p] EXCEPT !.hash.salt = boards]
      OBVIOUS
    <2>3. row # None
      <3>1. row \in Rows
        BY <2>1, <2>2, SaltedType DEF Typed, TypeOK
      <3>2. QED
        BY <3>1, NoneIs
    <2>4. rows' = [rows EXCEPT ![Slug[p]] = row] /\ ToPublish
          /\ UNCHANGED <<world, vault, up, client, told>>
      BY <1>5, <2>2 DEF UploadCommits
    <2>5. \A s \in Slugs : rows'[s] = IF s = Slug[p] THEN row ELSE rows[s]
      BY <2>4 DEF Typed, TypeOK
    <2>6. pass'.by = pass.by /\ pass'.v = pass.v /\ pass'.deleted = {}
      BY <1>2, <2>4, ToPublishType
    <2>7. \A q \in Paths : RowOf(q) # None => RowOf(q)' # None
      BY <2>3, <2>5, SlugsAre DEF RowOf
    <2>8. answered \subseteq Paths
      BY DEF Typed, TypeOK
    <2>9. Answered'
      BY <1>2, <2>4, <2>6, <2>7, <2>8 DEF UploadKept, Answered, world, told
    <2>10. RowOf(p)' # None
      BY <2>1, <2>3, <2>5, SlugsAre DEF RowOf
    <2>11. (pass.v[job[pass.by].path] # 0 /\ RowOf(job[pass.by].path) # None)'
      <3>1. job'[pass'.by].path = p /\ pass.v[p] # 0
        BY <1>1, <2>1, <2>4, <2>6 DEF UploadKept, client
      <3>2. QED
        BY <2>6, <2>10, <3>1 DEF RowOf
    <2>12. QED
      BY <2>6, <2>9, <2>11 DEF UploadKept
  <1>6. QED
    BY <1>2, <1>3, <1>4, <1>5

LEMMA CrashKept ==
  ASSUME Typed, UploadKept, Crash
  PROVE  UploadKept'
  BY DEF Crash, UploadKept, Answered, Uploading, RowOf, world, told

LEMMA InitKept ==
  ASSUME Init
  PROVE  UploadKept
  BY DEF Init, UploadKept, Answered, Uploading

LEMMA NextKept ==
  ASSUME Typed, UploadKept, [Next]_vars
  PROVE  UploadKept'
  BY StepIs, EditKept, RescanKept, DiffKept, RenderNoteKept, CommitKept, PublishKept,
     PassFailsKept, IndexNoteKept, ServePageKept, IndexUploadKept, RequestKept,
     BackgroundKept, CrashKept, StutterKept

\* A URL that an upload was answered with names a note that is in the snapshot and
\* in the index for as long as its file is there and the server is up: IndexNote
\* puts it there under rescanMu, so that no pass that began before takes it out.
THEOREM IndexUploadStaysPublished == Spec => []UploadStaysPublished
  <1>1. Typed /\ UploadKept /\ [Next]_vars => (Typed /\ UploadKept)'
    BY NextTyped, NextKept
  <1>2. Spec => [](Typed /\ UploadKept)
    BY <1>1, InitTyped, InitKept, PTL DEF Spec
  <1>3. Typed /\ UploadKept => UploadStaysPublished
    BY DEF UploadKept, Answered, UploadStaysPublished, RowOf
  <1>4. QED
    BY <1>2, <1>3, PTL

-----------------------------------------------------------------------------
(* Freshness.  Every note has a slug of its own: of two notes with one     *)
(* slug the row is the one's or the other's, see LaterNoteWins.            *)

SlugsDiffer == \A p, q \in Paths : Slug[p] = Slug[q] => p = q

\* The newest version there has been.
Top == events + Max(Paths)

\* x is no newer than the file, whose version is d.
NoNewer(x, d, top) == x <= top /\ (d = 0 \/ d >= x)

\* A row of p whose hash still holds was made of what the hash was taken of: what
\* was rendered is not older, and if it is another version then the hash is stale.
Made(r, p, d, b, top) ==
  r.hash # None =>
    /\ r.hash.body # 0 /\ r.hash.body <= top /\ r.html.body >= r.hash.body
    /\ r.html.body = r.hash.body \/ d[p] # r.hash.body
    /\ \A e \in Paths :
         /\ r.hash.deps[e] <= top
         /\ \/ r.html.embeds[e] = r.hash.deps[e]
            \/ r.hash.deps[e] # 0 /\ d[e] # r.hash.deps[e]
    /\ r.hash.salt <= b /\ r.html.boards <= b

\* A row is as new as version x of its note, or its last rendering was passed over.
Recent(row, x, excused) == row = None \/ row.html.body >= x \/ excused

Excused(p) == Owed \/ p \in skipped \cup dropped

LinksIndexed(p) == {q \in Links[p] : Slug[q] \in Indexed}

NoteOrdered(p) ==
  /\ NoNewer(disk[p], disk[p], Top) /\ NoNewer(vault[p], disk[p], Top)
  /\ NoNewer(acked[p], disk[p], Top)
  /\ pass # None => NoNewer(pass.v[p], disk[p], Top)

RowSound(p) ==
  RowOf(p) # None =>
    /\ Made(RowOf(p), p, disk, boards, Top)
    /\ RowOf(p).hash # None =>
         \/ RowOf(p).hash.salt <= RowOf(p).html.boards /\ RowOf(p).html.links = LinksIndexed(p)
         \/ Excused(p)

RowRecent(p) ==
  Recent(RowOf(p), vault[p], p \in skipped) /\ Recent(RowOf(p), acked[p], p \in skipped)

\* What a pass has rendered of p.
DrawnSound(p) ==
  pass # None /\ pass.batch[p] # None =>
    /\ Made(pass.batch[p], p, disk, boards, Top)
    /\ pass.batch[p].hash # None /\ pass.v[p] # 0
    /\ pass.batch[p].html.body >= pass.v[p]
    /\ pass.batch[p].html.body >= vault[p]
    /\ pass.batch[p].html.body >= acked[p]
    /\ pass.batch[p].html.links = Links[p] \cap Present(pass.v)
    /\ ~Uploading => pass.batch[p].hash.salt <= pass.batch[p].html.boards

\* A request's page is not older than the note was when it began.
JobSound(c, j, stage) ==
  /\ NoNewer(j.since, disk[j.path], Top)
  /\ stage = "page" =>
       /\ Recent(RowOf(j.path), j.since, j.failed \/ j.path \in skipped)
       /\ pass # None /\ pass.batch[j.path] # None => pass.batch[j.path].html.body >= j.since
  /\ stage = "served" => j.got >= j.since \/ j.failed
  /\ pass # None /\ pass.by = c /\ stage \in {"reindex", "refresh"} =>
       pass.v[j.path] = 0 \/ pass.v[j.path] >= j.since

ClientSound(c) == pc[c] # "idle" => JobSound(c, job[c], pc[c])

\* The notes a pass has dealt with or will.
Handled == pass.work \cup Rendered \cup pass.unread

\* A pass renders every note when slugs come or go, and otherwise those that changed.
Rendering ==
  /\ Handled \subseteq Present(pass.v)
  /\ pass.deleted = Indexed \ SlugsOf(pass.v)
  /\ Handled = Present(pass.v) \/ Indexed = SlugsOf(pass.v)
  /\ \A p \in Present(pass.v) \ Handled : RowOf(p) # None /\ RowOf(p).html.body >= pass.v[p]

\* The rows are those of the snapshot that is about to be published.
Publishing ==
  \A p \in Paths :
    /\ Recent(RowOf(p), pass.v[p], p \in skipped)
    /\ RowOf(p) # None /\ ~Uploading => pass.v[p] # 0

PassSound ==
  pass # None =>
    /\ pass.salt <= boards
    /\ pass.stage \in {"begin", "render"} => Rendering
    /\ pass.stage = "publish" => Publishing
    /\ Uploading => \A p \in Paths \ {job[pass.by].path} : pass.v[p] = vault[p]

Fresh ==
  /\ \A p \in Paths : NoteOrdered(p) /\ RowSound(p) /\ RowRecent(p) /\ DrawnSound(p)
  /\ \A c \in Clients : ClientSound(c)
  /\ PassSound

\* Versions and boards only become newer; a new version is newer than any before.
Ages ==
  /\ events \in Nat /\ events' \in Nat /\ boards \in Nat /\ boards' \in Nat
  /\ boards <= boards' /\ Top \in Nat /\ Top' \in Nat /\ Top <= Top'
  /\ \A p \in Paths :
       /\ disk[p] \in Nat /\ disk'[p] \in Nat
       /\ disk'[p] = disk[p] \/ disk'[p] = 0 \/ (disk'[p] > Top /\ disk'[p] <= Top')

LEMMA AgesOfStep ==
  ASSUME Typed, Typed', events' \in {events, events + 1}, boards' \in {boards, boards + 1},
         \/ disk' = disk
         \/ /\ events' = events + 1
            /\ \E p \in Paths : \E x \in {0, Newest} : disk' = [disk EXCEPT ![p] = x]
  PROVE  Ages
  <1>1. events \in Nat /\ boards \in Nat /\ Max(Paths) \in Nat /\ disk \in [Paths -> Nat]
        /\ disk' \in [Paths -> Nat]
    BY MaxPaths DEF Typed, TypeOK, Snapshot
  <1>2. Top = events + Max(Paths) /\ Top' = events' + Max(Paths) /\ Newest = Top + 1
    BY DEF Top, Newest
  <1>3. Top \in Nat /\ Top' \in Nat /\ Top <= Top'
        /\ (events' = events + 1 => Newest = Top' /\ Newest > Top)
    BY <1>1, <1>2
  <1>4. CASE disk' = disk
    BY <1>1, <1>3, <1>4 DEF Ages
  <1>5. CASE disk' # disk
    <2>1. PICK p \in Paths, x \in {0, Newest} :
            disk' = [disk EXCEPT ![p] = x] /\ events' = events + 1
      BY <1>5
    <2>2. \A q \in Paths : disk'[q] = IF q = p THEN x ELSE disk[q]
      BY <1>1, <2>1
    <2>3. x = 0 \/ (x > Top /\ x <= Top')
      BY <1>3, <2>1
    <2>4. QED
      BY <1>1, <1>3, <2>2, <2>3 DEF Ages
  <1>6. QED
    BY <1>4, <1>5

LEMMA AgesUnchanged ==
  ASSUME Typed, Typed', UNCHANGED world
  PROVE  Ages
  BY AgesOfStep DEF world

LEMMA NoNewerStays ==
  ASSUME Ages, NEW p \in Paths, NEW x \in Nat, NoNewer(x, disk[p], Top)
  PROVE  NoNewer(x, disk'[p], Top')
  BY DEF Ages, NoNewer

LEMMA ZeroIsNoNewer ==
  ASSUME Ages, NEW p \in Paths
  PROVE  NoNewer(0, disk[p], Top) /\ NoNewer(0, disk'[p], Top')
  BY DEF Ages, NoNewer

LEMMA RowFields ==
  ASSUME NEW r \in Rows
  PROVE  /\ r # None /\ r.html.body \in Nat /\ r.html.boards \in Nat
         /\ r.html.embeds \in [Paths -> Nat] /\ r.html.links \in SUBSET Paths
         /\ r.hash # None => /\ r.hash \in Hash /\ r.hash.body \in Nat /\ r.hash.salt \in Nat
                             /\ r.hash.deps \in [Paths -> Nat]
  BY NoneIs DEF Rows, Page, Hash, Snapshot

LEMMA MadeStays ==
  ASSUME Ages, NEW p \in Paths, NEW r \in Rows, Made(r, p, disk, boards, Top)
  PROVE  Made(r, p, disk', boards', Top')
  <1> SUFFICES ASSUME r.hash # None
               PROVE  /\ r.hash.body # 0 /\ r.hash.body <= Top' /\ r.html.body >= r.hash.body
                      /\ r.html.body = r.hash.body \/ disk'[p] # r.hash.body
                      /\ \A e \in Paths :
                           /\ r.hash.deps[e] <= Top'
                           /\ \/ r.html.embeds[e] = r.hash.deps[e]
                              \/ r.hash.deps[e] # 0 /\ disk'[e] # r.hash.deps[e]
                      /\ r.hash.salt <= boards' /\ r.html.boards <= boards'
    BY DEF Made
  <1>1. /\ r.html.body \in Nat /\ r.html.boards \in Nat /\ r.html.embeds \in [Paths -> Nat]
        /\ r.hash.body \in Nat /\ r.hash.salt \in Nat /\ r.hash.deps \in [Paths -> Nat]
    BY RowFields
  <1>2. /\ r.hash.body # 0 /\ r.hash.body <= Top /\ r.html.body >= r.hash.body
        /\ r.html.body = r.hash.body \/ disk[p] # r.hash.body
        /\ \A e \in Paths :
             /\ r.hash.deps[e] <= Top
             /\ \/ r.html.embeds[e] = r.hash.deps[e]
                \/ r.hash.deps[e] # 0 /\ disk[e] # r.hash.deps[e]
        /\ r.hash.salt <= boards /\ r.html.boards <= boards
    BY DEF Made
  <1>3. r.hash.body <= Top' /\ (r.html.body = r.hash.body \/ disk'[p] # r.hash.body)
    BY <1>1, <1>2 DEF Ages
  <1>4. r.hash.salt <= boards' /\ r.html.boards <= boards'
    BY <1>1, <1>2 DEF Ages
  <1>5. ASSUME NEW e \in Paths
        PROVE  /\ r.hash.deps[e] <= Top'
               /\ \/ r.html.embeds[e] = r.hash.deps[e]
                  \/ r.hash.deps[e] # 0 /\ disk'[e] # r.hash.deps[e]
    <2>1. r.hash.deps[e] \in Nat /\ r.hash.deps[e] <= Top
          /\ (r.html.embeds[e] = r.hash.deps[e]
              \/ (r.hash.deps[e] # 0 /\ disk[e] # r.hash.deps[e]))
      BY <1>1, <1>2
    <2>2. QED
      BY <2>1 DEF Ages
  <1>6. QED
    BY <1>2, <1>3, <1>4, <1>5

\* The rows show the same pages as before.
SamePages ==
  \A p \in Paths :
    /\ RowOf(p)' = None <=> RowOf(p) = None
    /\ RowOf(p) # None => RowOf(p)'.html = RowOf(p).html

LEMMA SamePagesUnchanged ==
  ASSUME rows' = rows
  PROVE  SamePages
  BY DEF SamePages, RowOf

LEMMA SamePagesKeepSlugs ==
  ASSUME SamePages
  PROVE  Indexed' = Indexed
  <1>1. \A s \in Slugs : \E p \in Paths : s = Slug[p]
    BY DEF Slugs
  <1>2. \A s \in Slugs : rows'[s] = None <=> rows[s] = None
    BY <1>1 DEF SamePages, RowOf
  <1>3. QED
    BY <1>2 DEF Indexed

LEMMA RecentStays ==
  ASSUME SamePages, NEW p \in Paths, NEW x, NEW e, NEW f, Recent(RowOf(p), x, e), e => f
  PROVE  Recent(RowOf(p)', x, f)
  <1>1. CASE RowOf(p) = None
    BY <1>1 DEF SamePages, Recent
  <1>2. CASE RowOf(p) # None
    <2>1. RowOf(p)'.html = RowOf(p).html
      BY <1>2 DEF SamePages
    <2>2. QED
      BY <1>2, <2>1 DEF Recent
  <1>3. QED
    BY <1>1, <1>2

LEMMA ZeroIsRecent ==
  ASSUME TypeOK, NEW p \in Paths, NEW e
  PROVE  Recent(RowOf(p), 0, e)
  <1>1. RowOf(p) # None => RowOf(p).html.body \in Nat
    BY RowsType, RowFields DEF RowOf
  <1>2. QED
    BY <1>1 DEF Recent

\* A row that stays is as sound as it was.
LEMMA RowSoundStays ==
  ASSUME Typed, Ages, NEW p \in Paths, RowSound(p), rows' = rows, Excused(p) => Excused(p)'
  PROVE  RowSound(p)'
  <1>1. RowOf(p)' = RowOf(p)
    BY DEF RowOf
  <1>2. LinksIndexed(p)' = LinksIndexed(p)
    BY DEF LinksIndexed, Indexed
  <1>3. RowOf(p) # None => RowOf(p) \in Rows
    BY RowsType DEF Typed, RowOf
  <1>4. RowOf(p) # None => Made(RowOf(p), p, disk', boards', Top')
    BY <1>3, MadeStays DEF RowSound
  <1>5. PICK r : r = RowOf(p)
    OBVIOUS
  <1>6. r # None => Made(r, p, disk', boards', Top')
    BY <1>4, <1>5
  <1>7. r # None /\ r.hash # None =>
          (r.hash.salt <= r.html.boards /\ r.html.links = LinksIndexed(p)) \/ Excused(p)
    BY <1>5 DEF RowSound
  <1>8. RowOf(p)' = r
    BY <1>1, <1>5
  <1>9. QED
    BY <1>2, <1>6, <1>7, <1>8 DEF RowSound

LEMMA NoteOrderedStays ==
  ASSUME Typed, Typed', Ages, NEW p \in Paths,
         NoNewer(disk[p], disk[p], Top),
         NoNewer(vault'[p], disk[p], Top), NoNewer(acked'[p], disk[p], Top),
         pass' # None => NoNewer(pass'.v[p], disk[p], Top)
  PROVE  NoteOrdered(p)'
  <1>1. vault'[p] \in Nat /\ acked'[p] \in Nat
    BY DEF Typed, TypeOK, Snapshot
  <1>2. pass' # None => pass'.v[p] \in Nat
    BY DEF Typed, TypeOK, Pass, Snapshot
  <1>3. NoNewer(disk'[p], disk'[p], Top')
    BY DEF Ages, NoNewer
  <1>4. NoNewer(vault'[p], disk'[p], Top')
    BY <1>1, NoNewerStays
  <1>5. NoNewer(acked'[p], disk'[p], Top')
    BY <1>1, NoNewerStays
  <1>6. pass' # None => NoNewer(pass'.v[p], disk'[p], Top')
    BY <1>2, NoNewerStays
  <1>7. QED
    BY <1>3, <1>4, <1>5, <1>6 DEF NoteOrdered

LEMMA RowRecentStays ==
  ASSUME Typed, Typed', SamePages, NEW p \in Paths, RowRecent(p), skipped \subseteq skipped',
         vault'[p] \in {vault[p], 0} \/ Recent(RowOf(p), vault'[p], p \in skipped),
         acked'[p] \in {acked[p], 0} \/ Recent(RowOf(p), acked'[p], p \in skipped)
  PROVE  RowRecent(p)'
  <1>1. Recent(RowOf(p), 0, p \in skipped)
    BY ZeroIsRecent DEF Typed
  <1>2. Recent(RowOf(p), vault'[p], p \in skipped) /\ Recent(RowOf(p), acked'[p], p \in skipped)
    BY <1>1 DEF RowRecent
  <1>3. p \in skipped => p \in skipped'
    OBVIOUS
  <1>4. Recent(RowOf(p)', vault'[p], p \in skipped')
    BY <1>2, <1>3, RecentStays
  <1>5. Recent(RowOf(p)', acked'[p], p \in skipped')
    BY <1>2, <1>3, RecentStays
  <1>6. QED
    BY <1>4, <1>5 DEF RowRecent

\* What a pass has rendered stays what it is.
LEMMA DrawnStays ==
  ASSUME Typed, Typed', Ages, NEW p \in Paths, DrawnSound(p), pass' = pass,
         vault'[p] = vault[p], acked'[p] \in {acked[p], 0}, Uploading => Uploading'
  PROVE  DrawnSound(p)'
  <1> SUFFICES ASSUME pass # None, pass.batch[p] # None PROVE DrawnSound(p)'
    BY DEF DrawnSound
  <1>1. PICK r : r = pass.batch[p]
    OBVIOUS
  <1>2. r \in Rows
    <2>1. pass.batch \in [Paths -> Rows \cup {None}]
      BY PassFields DEF Typed
    <2>2. QED
      BY <1>1, <2>1
  <1>3. r.html.body \in Nat
    BY <1>2, RowFields
  <1>4. Made(r, p, disk, boards, Top)
    BY <1>1 DEF DrawnSound
  <1>5. Made(r, p, disk', boards', Top')
    BY <1>2, <1>4, MadeStays
  <1>6. /\ r.hash # None /\ pass.v[p] # 0
        /\ r.html.body >= pass.v[p] /\ r.html.body >= vault[p] /\ r.html.body >= acked[p]
        /\ r.html.links = Links[p] \cap Present(pass.v)
        /\ ~Uploading => r.hash.salt <= r.html.boards
    BY <1>1 DEF DrawnSound
  <1>7. r.html.body >= vault'[p] /\ r.html.body >= acked'[p]
    BY <1>3, <1>6
  <1>8. pass'.batch[p] = r /\ pass'.v = pass.v
    BY <1>1
  <1>9. QED
    BY <1>5, <1>6, <1>7, <1>8 DEF DrawnSound, Present

LEMMA PassSoundStays ==
  ASSUME Typed, Ages, PassSound, SamePages, pass' = pass, vault' = vault,
         skipped \subseteq skipped', Uploading' <=> Uploading,
         Uploading => job'[pass.by] = job[pass.by]
  PROVE  PassSound'
  <1> SUFFICES ASSUME pass # None PROVE PassSound'
    BY DEF PassSound
  <1>1. pass.salt <= boards'
    <2>1. pass.salt \in Nat
      BY PassFields DEF Typed
    <2>2. QED
      BY <2>1 DEF PassSound, Ages
  <1>2. Rendering => Rendering'
    <2>1. Indexed' = Indexed
      BY SamePagesKeepSlugs
    <2>2. Handled' = Handled /\ Present(pass.v)' = Present(pass.v)
          /\ SlugsOf(pass.v)' = SlugsOf(pass.v)
      BY DEF Handled, Rendered, Present, SlugsOf
    <2>3. Present(pass.v) \subseteq Paths
      BY DEF Present
    <2>4. ASSUME Rendering, NEW p \in Present(pass.v) \ Handled
          PROVE  (RowOf(p) # None /\ RowOf(p).html.body >= pass.v[p])'
      <3>1. p \in Paths /\ RowOf(p) # None /\ RowOf(p).html.body >= pass.v[p]
        BY <2>3, <2>4 DEF Rendering
      <3>2. RowOf(p)' # None /\ RowOf(p)'.html = RowOf(p).html
        BY <3>1 DEF SamePages
      <3>3. QED
        BY <3>1, <3>2
    <2>5. QED
      BY <2>1, <2>2, <2>4 DEF Rendering
  <1>3. Publishing => Publishing'
    <2>1. ASSUME Publishing, NEW p \in Paths
          PROVE  /\ Recent(RowOf(p)', pass'.v[p], p \in skipped')
                 /\ RowOf(p)' # None /\ ~Uploading' => pass'.v[p] # 0
      <3>1. Recent(RowOf(p), pass.v[p], p \in skipped)
        BY <2>1 DEF Publishing
      <3>2. p \in skipped => p \in skipped'
        OBVIOUS
      <3>3. Recent(RowOf(p)', pass.v[p], p \in skipped')
        BY <3>1, <3>2, RecentStays
      <3>4. QED
        BY <2>1, <3>3 DEF Publishing, SamePages
    <2>2. QED
      BY <2>1 DEF Publishing
  <1>4. Uploading' => \A p \in Paths \ {job'[pass'.by].path} : pass'.v[p] = vault'[p]
    BY DEF PassSound
  <1>5. QED
    BY <1>1, <1>2, <1>3, <1>4 DEF PassSound

\* A request that does nothing meanwhile.
LEMMA JobStays ==
  ASSUME Typed, Ages, SamePages, skipped \subseteq skipped', pass' = pass,
         NEW c \in Clients, pc[c] # "idle", ClientSound(c), pc'[c] = pc[c], job'[c] = job[c]
  PROVE  ClientSound(c)'
  <1>1. PICK j, stage : j = job[c] /\ stage = pc[c]
    OBVIOUS
  <1>2. JobSound(c, j, stage)
    BY <1>1 DEF ClientSound
  <1>3. j.path \in Paths /\ j.since \in Nat
    BY <1>1, JobType DEF Typed
  <1>4. NoNewer(j.since, disk'[j.path], Top')
    BY <1>2, <1>3, NoNewerStays DEF JobSound
  <1>5. j.failed \/ j.path \in skipped => j.failed \/ j.path \in skipped'
    OBVIOUS
  <1>6. stage = "page" => Recent(RowOf(j.path)', j.since, j.failed \/ j.path \in skipped')
    BY <1>2, <1>3, <1>5, RecentStays DEF JobSound
  <1>7. PICK p : p = j.path
    OBVIOUS
  <1>8. RowOf(p)' = RowOf(j.path)'
    BY <1>7
  <1>9. JobSound(c, j, stage)'
    BY <1>2, <1>4, <1>6 DEF JobSound, RowOf
  <1>10. QED
    BY <1>1, <1>9 DEF ClientSound

\* The pass and the pages stay: what a step of somebody else has to show.
LEMMA QuietFresh ==
  ASSUME Typed, Typed', Fresh, Ages, SamePages, UNCHANGED <<pass, vault>>,
         skipped \subseteq skipped', \A p \in Paths : acked'[p] \in {acked[p], 0},
         \A p \in Paths : RowSound(p)',
         \A c \in Clients :
           \/ pc'[c] = pc[c] /\ job'[c] = job[c]
           \/ (pass = None \/ pass.by # c) /\ ClientSound(c)'
  PROVE  Fresh'
  <1>1. pass # None /\ pass.by \in Clients /\ ~ClientSound(pass.by)' =>
           pc'[pass.by] = pc[pass.by] /\ job'[pass.by] = job[pass.by]
    OBVIOUS
  <1>2. pass # None /\ pass.by \in Clients =>
           pc'[pass.by] = pc[pass.by] /\ job'[pass.by] = job[pass.by]
    OBVIOUS
  <1>3. Uploading' <=> Uploading
    BY <1>2 DEF Uploading
  <1>4. Uploading => job'[pass.by] = job[pass.by]
    BY <1>2 DEF Uploading
  <1>5. PassSound'
    BY <1>3, <1>4, PassSoundStays DEF Fresh
  <1>6. ASSUME NEW p \in Paths
        PROVE  NoteOrdered(p)' /\ RowRecent(p)' /\ DrawnSound(p)'
    <2>1. NoteOrdered(p) /\ RowRecent(p) /\ DrawnSound(p)
      BY DEF Fresh
    <2>2. NoNewer(0, disk[p], Top)
      BY ZeroIsNoNewer
    <2>3. acked'[p] \in {acked[p], 0} /\ vault'[p] = vault[p]
      OBVIOUS
    <2>4. NoNewer(acked'[p], disk[p], Top) /\ NoNewer(vault'[p], disk[p], Top)
      BY <2>1, <2>2, <2>3 DEF NoteOrdered
    <2>5. NoteOrdered(p)'
      BY <2>1, <2>4, NoteOrderedStays DEF NoteOrdered
    <2>6. RowRecent(p)'
      BY <2>1, <2>3, RowRecentStays
    <2>7. DrawnSound(p)'
      BY <1>3, <2>1, <2>3, DrawnStays
    <2>8. QED
      BY <2>5, <2>6, <2>7
  <1>7. ASSUME NEW c \in Clients
        PROVE  ClientSound(c)'
    <2>1. CASE pc'[c] = pc[c] /\ job'[c] = job[c]
      <3>1. CASE pc[c] = "idle"
        BY <2>1, <3>1 DEF ClientSound
      <3>2. CASE pc[c] # "idle"
        BY <2>1, <3>2, JobStays DEF Fresh
      <3>3. QED
        BY <3>1, <3>2
    <2>2. QED
      BY <2>1
  <1>8. QED
    BY <1>5, <1>6, <1>7 DEF Fresh

LEMMA ExcusedOf ==
  ASSUME NEW p \in Paths, Excused(p), Owed => Owed' \/ dropped' = Paths,
         skipped \subseteq skipped', dropped \subseteq dropped'
  PROVE  Excused(p)'
  BY DEF Excused

LEMMA EditFresh ==
  ASSUME Typed, Typed', Fresh, NEW q \in Paths, Edit(q) \/ RemoveFile(q) \/ ChangeBoards
  PROVE  Fresh'
  <1>1. UNCHANGED <<rows, vault, pass, later, client, ghosts>>
    BY DEF Edit, RemoveFile, ChangeBoards, locks
  <1>2. Ages
    <2>1. events' = events + 1
      BY DEF Edit, RemoveFile, ChangeBoards, Event
    <2>2. CASE Edit(q)
      BY <2>1, <2>2, AgesOfStep DEF Edit, NewVersion
    <2>3. CASE RemoveFile(q)
      BY <2>1, <2>3, AgesOfStep DEF RemoveFile
    <2>4. CASE ChangeBoards
      BY <2>1, <2>4, AgesOfStep DEF ChangeBoards
    <2>5. QED
      BY <2>2, <2>3, <2>4
  <1>3. \A p \in Paths : acked'[p] \in {acked[p], 0}
    BY DEF Edit, RemoveFile, ChangeBoards, told, Typed, TypeOK, Snapshot
  <1>4. Owed => Owed'
    BY <1>1 DEF Owed, At, later, client
  <1>5. \A p \in Paths : RowSound(p)'
    <2>1. ASSUME NEW p \in Paths PROVE RowSound(p)'
      <3>1. Excused(p) => Excused(p)'
        BY <1>1, <1>4, ExcusedOf DEF ghosts
      <3>2. QED
        BY <1>1, <1>2, <3>1, RowSoundStays DEF Fresh
    <2>2. QED
      BY <2>1
  <1>6. SamePages
    BY <1>1, SamePagesUnchanged
  <1>7. QED
    BY <1>1, <1>2, <1>3, <1>5, <1>6, QuietFresh DEF client, ghosts

LEMMA NewJobSound ==
  ASSUME Typed, Typed', Fresh, Ages, NEW c \in Clients, NEW p \in Paths, NEW since \in Nat,
         NEW x \in {"reindex", "refresh", "page", "index"},
         pc' = [pc EXCEPT ![c] = x], job' = [job EXCEPT ![c] = NewJob(p, since)],
         UNCHANGED <<rows, pass, skipped>>, pass = None \/ pass.by # c,
         NoNewer(since, disk'[p], Top'), x = "page" => since = vault[p]
  PROVE  ClientSound(c)'
  <1>1. PICK j : j = NewJob(p, since)
    OBVIOUS
  <1>2. j.path = p /\ j.since = since
    BY <1>1 DEF NewJob
  <1>3. x = "page" => Recent(RowOf(p)', since, p \in skipped')
    BY DEF Fresh, RowRecent, RowOf
  <1>4. x = "page" /\ pass # None /\ pass.batch[p] # None => pass.batch[p].html.body >= since
    BY DEF Fresh, DrawnSound
  <1>5. x = "page" => Recent(RowOf(p)', since, j.failed \/ p \in skipped')
    BY <1>3 DEF Recent
  <1>6. JobSound(c, j, x)'
    BY <1>2, <1>4, <1>5 DEF JobSound
  <1>7. pc'[c] = x /\ job'[c] = j
    BY <1>1 DEF Typed, TypeOK
  <1>8. QED
    BY <1>6, <1>7 DEF ClientSound

LEMMA RequestFresh ==
  ASSUME Typed, Typed', Fresh, NEW c \in Clients, NEW p \in Paths,
         WriteNote(c, p) \/ ViewNote(c, p) \/ Upload(c, p)
  PROVE  Fresh'
  <1>1. /\ pc[c] = "idle" /\ (pass = None \/ pass.by # c)
        /\ events' = events + 1 /\ events \in Nat
        /\ UNCHANGED <<boards, rows, vault, pass, up, later, told, ghosts, mishaps>>
    BY RequestIs
  <1>2. PICK x \in {"reindex", "refresh", "page", "index"}, since \in Nat :
          /\ pc' = [pc EXCEPT ![c] = x] /\ job' = [job EXCEPT ![c] = NewJob(p, since)]
          /\ x \in {"reindex", "index"} => since = Newest /\ disk' = [disk EXCEPT ![p] = Newest]
          /\ x \in {"refresh", "page"} => since = disk[p] /\ disk' = disk
          /\ x = "page" => disk[p] = vault[p]
    BY RequestIs
  <1>3. Ages
    <2>1. disk' = disk \/ disk' = [disk EXCEPT ![p] = Newest]
      BY <1>2
    <2>2. QED
      BY <1>1, <2>1, AgesOfStep
  <1>4. NoNewer(since, disk'[p], Top')
    <2>1. CASE x \in {"reindex", "index"}
      <3>1. since = Newest /\ disk'[p] = Newest
        BY <1>2, <2>1 DEF Typed, TypeOK, Snapshot
      <3>2. Top' = Newest
        BY <1>1, MaxPaths DEF Top, Newest
      <3>3. QED
        BY <3>1, <3>2 DEF NoNewer
    <2>2. CASE x \in {"refresh", "page"}
      <3>1. NoNewer(since, disk[p], Top)
        BY <1>2, <2>2 DEF Fresh, NoteOrdered
      <3>2. QED
        BY <1>3, <3>1, NoNewerStays
    <2>3. QED
      BY <2>1, <2>2
  <1>5. ClientSound(c)'
    <2>1. x = "page" => since = vault[p]
      BY <1>2
    <2>2. UNCHANGED <<rows, pass, skipped>>
      BY <1>1 DEF ghosts
    <2>3. QED
      BY <1>1, <1>2, <1>3, <1>4, <2>1, <2>2, NewJobSound
  <1>6. \A d \in Clients : d # c => pc'[d] = pc[d] /\ job'[d] = job[d]
    BY <1>2 DEF Typed, TypeOK
  <1>7. Owed => Owed'
    BY <1>1, <1>6 DEF Owed, At, later
  <1>8. \A q \in Paths : RowSound(q)'
    <2>1. ASSUME NEW q \in Paths PROVE RowSound(q)'
      <3>1. Excused(q) => Excused(q)'
        BY <1>1, <1>7, ExcusedOf DEF ghosts
      <3>2. QED
        BY <1>1, <1>3, <3>1, RowSoundStays DEF Fresh
    <2>2. QED
      BY <2>1
  <1>9. SamePages
    BY <1>1, SamePagesUnchanged
  <1>10. UNCHANGED <<pass, vault>> /\ skipped \subseteq skipped'
         /\ \A q \in Paths : acked'[q] \in {acked[q], 0}
    BY <1>1 DEF told, ghosts
  <1>11. \A d \in Clients : \/ pc'[d] = pc[d] /\ job'[d] = job[d]
                            \/ (pass = None \/ pass.by # d) /\ ClientSound(d)'
    BY <1>1, <1>5, <1>6
  <1>12. QED
    BY <1>3, <1>8, <1>9, <1>10, <1>11, QuietFresh

\* The page that is served is the row's, or else made for the request.
LEMMA ServedSound ==
  ASSUME Typed, Typed', Fresh, Ages, NEW c \in Clients, ServePage(c), UNCHANGED world
  PROVE  ClientSound(c)'
  <1>1. PICK p, j : p = job[c].path /\ j = job[c]
    OBVIOUS
  <1>2. pc[c] = "page" /\ p \in Paths /\ j \in Job /\ j.path = p /\ j.since \in Nat
    BY <1>1, JobType DEF ServePage, Typed
  <1>3. JobSound(c, j, "page")
    BY <1>1, <1>2 DEF Fresh, ClientSound
  <1>4. PICK row : row = RowOf(p)
    OBVIOUS
  <1>5. CASE row = None /\ disk[p] = 0
    <2>1. Idle(c)
      BY <1>1, <1>4, <1>5 DEF ServePage, RowOf
    <2>2. QED
      BY <2>1 DEF Idle, ClientSound, Typed, TypeOK
  <1>6. CASE ~(row = None /\ disk[p] = 0)
    <2>1. PICK got, failed : /\ got = IF row = None THEN disk[p] ELSE row.html.body
                             /\ failed = (j.failed \/ p \in skipped)
      OBVIOUS
    <2>2. PICK jj : jj = [j EXCEPT !.got = got, !.failed = failed]
      OBVIOUS
    <2>3. pc' = [pc EXCEPT ![c] = "served"]
          /\ job' = [job EXCEPT ![c].got = got, ![c].failed = @ \/ p \in skipped]
      BY <1>1, <1>4, <1>6, <2>1 DEF ServePage, RowOf
    <2>4. pc'[c] = "served" /\ job'[c] = jj
      BY <1>1, <1>2, <2>1, <2>2, <2>3 DEF Typed, TypeOK, Job
    <2>5. jj.path = p /\ jj.since = j.since /\ jj.got = got /\ jj.failed = failed
      BY <1>2, <2>2 DEF Job
    <2>6. NoNewer(j.since, disk[p], Top) /\ Recent(row, j.since, j.failed \/ p \in skipped)
      BY <1>2, <1>3, <1>4 DEF JobSound
    <2>7. got >= j.since \/ failed
      <3>1. CASE row = None
        <4>1. got = disk[p] /\ disk[p] # 0
          BY <1>6, <2>1, <3>1
        <4>2. QED
          BY <2>6, <4>1 DEF NoNewer
      <3>2. CASE row # None
        BY <2>1, <2>6, <3>2 DEF Recent
      <3>3. QED
        BY <3>1, <3>2
    <2>8. NoNewer(j.since, disk'[p], Top')
      BY <1>2, <2>6, NoNewerStays
    <2>9. JobSound(c, jj, "served")'
      BY <2>5, <2>7, <2>8 DEF JobSound
    <2>10. QED
      BY <2>4, <2>9 DEF ClientSound
  <1>7. QED
    BY <1>5, <1>6

LEMMA ServePageFresh ==
  ASSUME Typed, Typed', Fresh, NEW c \in Clients,
         ServePage(c) \/ PageRead(c) \/ UploadVanished(c) \/ Schedule(c)
  PROVE  Fresh'
  <1>1. pc[c] \in {"page", "served", "index", "plugins"} /\ (pc[c] = "index" => pass = None)
        /\ UNCHANGED <<world, rows, vault, locks, up, told, ghosts>>
    BY DEF ServePage, PageRead, UploadVanished, Schedule
  <1>2. pass = None \/ pass.by # c
    BY <1>1 DEF Typed, Owned
  <1>3. Ages
    BY <1>1, AgesUnchanged
  <1>4. \A d \in Clients : d # c => pc'[d] = pc[d] /\ job'[d] = job[d]
    BY DEF Typed, TypeOK, ServePage, PageRead, UploadVanished, Schedule, Idle
  <1>5. ClientSound(c)'
    <2>1. CASE ServePage(c)
      BY <1>1, <1>3, <2>1, ServedSound
    <2>2. CASE ~ServePage(c)
      <3>1. Idle(c)
        BY <2>2 DEF PageRead, UploadVanished, Schedule
      <3>2. QED
        BY <3>1 DEF Idle, ClientSound, Typed, TypeOK
    <2>3. QED
      BY <2>1, <2>2
  <1>6. Owed => Owed'
    <2>1. pc[c] = "plugins" => pending'
      BY DEF ServePage, PageRead, UploadVanished, Schedule
    <2>2. (pending => pending') /\ (bg = "invalidate" => bg' = "invalidate") /\ pass' = pass
      BY <1>1 DEF ServePage, PageRead, UploadVanished, Schedule, later, locks
    <2>3. QED
      BY <1>2, <1>4, <2>1, <2>2 DEF Owed, At
  <1>7. \A q \in Paths : RowSound(q)'
    <2>1. ASSUME NEW q \in Paths PROVE RowSound(q)'
      <3>1. Excused(q) => Excused(q)'
        BY <1>1, <1>6, ExcusedOf DEF ghosts
      <3>2. QED
        BY <1>1, <1>3, <3>1, RowSoundStays DEF Fresh
    <2>2. QED
      BY <2>1
  <1>8. SamePages
    BY <1>1, SamePagesUnchanged
  <1>9. UNCHANGED <<pass, vault>> /\ skipped \subseteq skipped'
        /\ \A q \in Paths : acked'[q] \in {acked[q], 0}
    BY <1>1 DEF told, ghosts, locks
  <1>10. \A d \in Clients : \/ pc'[d] = pc[d] /\ job'[d] = job[d]
                            \/ (pass = None \/ pass.by # d) /\ ClientSound(d)'
    BY <1>2, <1>4, <1>5
  <1>11. QED
    BY <1>3, <1>7, <1>8, <1>9, <1>10, QuietFresh

LEMMA ForgottenSound ==
  ASSUME Typed, NEW p \in Paths, rows' = [s \in Slugs |-> Forgotten(rows[s])]
  PROVE  /\ RowSound(p)'
         /\ RowOf(p)' = None <=> RowOf(p) = None
         /\ RowOf(p) # None => RowOf(p)'.html = RowOf(p).html
  <1>1. RowOf(p)' = Forgotten(RowOf(p))
    BY SlugsAre DEF RowOf
  <1>2. CASE RowOf(p) = None
    BY <1>1, <1>2 DEF Forgotten, RowSound
  <1>3. CASE RowOf(p) # None
    <2>1. RowOf(p) \in Rows
      BY <1>3, RowsType DEF RowOf, Typed
    <2>2. PICK r, f : r = RowOf(p) /\ f = Forgotten(r)
      OBVIOUS
    <2>3. f \in Rows /\ f.hash = None /\ f.html = r.html
      BY <2>1, <2>2, ForgottenIs
    <2>4. RowOf(p)' = f
      BY <1>1, <2>2
    <2>5. Made(f, p, disk', boards', Top')
      BY <2>3 DEF Made
    <2>6. RowSound(p)'
      BY <2>3, <2>4, <2>5 DEF RowSound
    <2>7. QED
      BY <1>3, <2>2, <2>3, <2>4, <2>6, NoneIs
  <1>4. QED
    BY <1>2, <1>3

LEMMA BackgroundFresh ==
  ASSUME Typed, Typed', Fresh, Background
  PROVE  Fresh'
  <1>1. UNCHANGED <<world, vault, locks, client, told, skipped>>
    BY DEF Background, Wake, InvalidateRenderCache, LoopEnds, ghosts
  <1>2. Ages
    BY <1>1, AgesUnchanged
  <1>3. SamePages /\ \A p \in Paths : RowSound(p)'
    <2>1. CASE rows' = [s \in Slugs |-> Forgotten(rows[s])]
      BY <2>1, ForgottenSound DEF SamePages
    <2>2. CASE rows' = rows /\ dropped \subseteq dropped' /\ (Owed => Owed' \/ dropped' = Paths)
      <3>1. ASSUME NEW p \in Paths PROVE RowSound(p)'
        <4>1. Excused(p) => Excused(p)'
          BY <1>1, <2>2, ExcusedOf
        <4>2. QED
          BY <1>2, <2>2, <4>1, RowSoundStays DEF Fresh
      <3>2. QED
        BY <2>2, <3>1, SamePagesUnchanged
    <2>3. CASE Wake
      <3>1. rows' = rows /\ dropped' = dropped /\ Owed'
        BY <2>3 DEF Wake, Owed, ghosts
      <3>2. QED
        BY <2>2, <3>1
    <2>4. CASE LoopEnds
      <3>1. rows' = rows /\ dropped' = dropped /\ (Owed => Owed')
        BY <2>4 DEF LoopEnds, Owed, At, locks, client, ghosts
      <3>2. QED
        BY <2>2, <3>1
    <2>5. CASE \E o \in Outcomes : InvalidateRenderCache(o)
      <3>1. \/ rows' = [s \in Slugs |-> Forgotten(rows[s])]
            \/ rows' = rows /\ dropped' = Paths
        BY <2>5 DEF InvalidateRenderCache
      <3>2. dropped \subseteq Paths
        BY DEF Typed, TypeOK
      <3>3. QED
        BY <2>1, <2>2, <3>1, <3>2
    <2>6. QED
      BY <2>3, <2>4, <2>5 DEF Background
  <1>4. QED
    BY <1>1, <1>2, <1>3, QuietFresh DEF locks, client, told

LEMMA StutterFresh ==
  ASSUME Typed, Typed', Fresh, UNCHANGED vars
  PROVE  Fresh'
  <1>1. UNCHANGED <<world, rows, vault, pass, later, client, told, ghosts>>
    BY DEF vars, locks
  <1>2. Ages
    BY <1>1, AgesUnchanged
  <1>3. Owed => Owed'
    BY <1>1 DEF Owed, At, later, client
  <1>4. \A q \in Paths : RowSound(q)'
    <2>1. ASSUME NEW q \in Paths PROVE RowSound(q)'
      <3>1. Excused(q) => Excused(q)'
        BY <1>1, <1>3, ExcusedOf DEF ghosts
      <3>2. QED
        BY <1>1, <1>2, <3>1, RowSoundStays DEF Fresh
    <2>2. QED
      BY <2>1
  <1>5. SamePages
    BY <1>1, SamePagesUnchanged
  <1>6. QED
    BY <1>1, <1>2, <1>4, <1>5, QuietFresh DEF client, ghosts, told

\* A step of a pass that leaves rows, snapshot and requests alone.
LEMMA StageFresh ==
  ASSUME Typed, Typed', Fresh, UNCHANGED <<world, rows, vault, later, client, told, ghosts>>,
         pass' # None, \A p \in Paths : NoNewer(pass'.v[p], disk[p], Top),
         \A p \in Paths : DrawnSound(p)', PassSound', Owed => Owed',
         \A c \in Clients : pc[c] = "page" /\ pass'.batch[job[c].path] # None =>
           pass'.batch[job[c].path].html.body >= job[c].since,
         \A c \in Clients : pc[c] \in {"reindex", "refresh"} /\ pass'.by = c =>
           pass'.v[job[c].path] = 0 \/ pass'.v[job[c].path] >= job[c].since
  PROVE  Fresh'
  <1>1. Ages
    BY AgesUnchanged
  <1>2. SamePages
    BY SamePagesUnchanged
  <1>3. ASSUME NEW p \in Paths
        PROVE  NoteOrdered(p)' /\ RowSound(p)' /\ RowRecent(p)'
    <2>1. NoteOrdered(p) /\ RowSound(p) /\ RowRecent(p)
      BY DEF Fresh
    <2>2. NoteOrdered(p)'
      <3>1. vault'[p] = vault[p] /\ acked'[p] = acked[p]
        BY DEF told
      <3>2. NoNewer(vault'[p], disk[p], Top) /\ NoNewer(acked'[p], disk[p], Top)
        BY <2>1, <3>1 DEF NoteOrdered
      <3>3. NoNewer(disk[p], disk[p], Top)
        BY <2>1 DEF NoteOrdered
      <3>4. QED
        BY <1>1, <3>2, <3>3, NoteOrderedStays
    <2>3. RowSound(p)'
      <3>1. Excused(p) => Excused(p)'
        BY ExcusedOf DEF ghosts
      <3>2. QED
        BY <1>1, <2>1, <3>1, RowSoundStays
    <2>4. RowRecent(p)'
      BY <1>2, <2>1, RowRecentStays DEF told, ghosts
    <2>5. QED
      BY <2>2, <2>3, <2>4
  <1>4. ASSUME NEW c \in Clients
        PROVE  ClientSound(c)'
    <2>1. CASE pc[c] = "idle"
      BY <2>1 DEF ClientSound, client
    <2>2. CASE pc[c] # "idle"
      <3>1. PICK j, stage : j = job[c] /\ stage = pc[c]
        OBVIOUS
      <3>2. JobSound(c, j, stage) /\ j.path \in Paths /\ j.since \in Nat
        BY <2>2, <3>1, JobType DEF Fresh, ClientSound, Typed
      <3>3. NoNewer(j.since, disk'[j.path], Top')
        BY <1>1, <3>2, NoNewerStays DEF JobSound
      <3>4. stage = "page" => Recent(RowOf(j.path)', j.since, j.failed \/ j.path \in skipped')
        BY <3>2 DEF JobSound, RowOf, ghosts
      <3>5. stage = "page" /\ pass'.batch[j.path] # None =>
              pass'.batch[j.path].html.body >= j.since
        BY <3>1
      <3>6. pass'.by = c /\ stage \in {"reindex", "refresh"} =>
              pass'.v[j.path] = 0 \/ pass'.v[j.path] >= j.since
        BY <3>1
      <3>7. stage = "served" => j.got >= j.since \/ j.failed
        BY <3>2 DEF JobSound
      <3>8. JobSound(c, j, stage)'
        BY <3>3, <3>4, <3>5, <3>6, <3>7 DEF JobSound, RowOf
      <3>9. pc'[c] = stage /\ job'[c] = j
        BY <3>1 DEF client
      <3>10. QED
        BY <3>8, <3>9 DEF ClientSound
    <2>3. QED
      BY <2>1, <2>2
  <1>5. QED
    BY <1>3, <1>4 DEF Fresh

\* A pass that has rendered nothing.
LEMMA NothingDrawn ==
  ASSUME Rendered' = {}, NEW p \in Paths
  PROVE  DrawnSound(p)' /\ (pass' # None => pass'.batch[p] = None)
  BY DEF Rendered, DrawnSound

LEMMA RescanFresh ==
  ASSUME Typed, Typed', Fresh, NEW c \in Callers, Rescan(c)
  PROVE  Fresh'
  <1>1. /\ pass = None /\ pass' = NewPass(c, "diff", disk)
        /\ UNCHANGED <<world, rows, vault, later, client, told, ghosts>>
    BY DEF Rescan, BeginPass
  <1>2. /\ pass'.by = c /\ pass'.stage = "diff" /\ pass'.v = disk /\ pass'.salt = 0
        /\ Rendered' = {} /\ pass' # None
    <2>1. pass' \in Pass
      BY <1>1, NewPassType DEF Typed, TypeOK, Stages
    <2>2. QED
      BY <1>1, <2>1, NoneIs DEF NewPass, Rendered
  <1>3. \A p \in Paths : DrawnSound(p)' /\ pass'.batch[p] = None
    BY <1>2, NothingDrawn
  <1>4. ~Uploading'
    BY <1>2 DEF Typed, Owned, Uploading
  <1>5. PassSound'
    <2>1. pass'.salt <= boards'
      BY <1>2 DEF Typed, TypeOK
    <2>2. QED
      BY <1>2, <1>4, <2>1 DEF PassSound
  <1>6. Owed => Owed'
    BY <1>1 DEF Owed, At, later, client
  <1>7. \A p \in Paths : NoNewer(pass'.v[p], disk[p], Top)
    BY <1>2 DEF Fresh, NoteOrdered
  <1>8. \A d \in Clients : pc[d] # "idle" => job[d].path \in Paths
    BY JobType DEF Typed
  <1>9. \A d \in Clients : pc[d] = "page" => pass'.batch[job[d].path] = None
    BY <1>3, <1>8
  <1>10. ASSUME NEW d \in Clients, pc[d] \in {"reindex", "refresh"}
         PROVE  pass'.v[job[d].path] = 0 \/ pass'.v[job[d].path] >= job[d].since
    BY <1>2, <1>10 DEF Fresh, ClientSound, JobSound, NoNewer
  <1>11. QED
    BY <1>1, <1>2, <1>3, <1>5, <1>6, <1>7, <1>9, <1>10, StageFresh

LEMMA IndexUploadFresh ==
  ASSUME Typed, Typed', Fresh, NEW c \in Clients, IndexUpload(c)
  PROVE  Fresh'
  <1>1. PICK q : q = job[c].path
    OBVIOUS
  <1>2. /\ pc[c] = "index" /\ pass = None /\ pass' = NewPass(c, "uploadRender", WithFiles(q))
        /\ UNCHANGED <<world, rows, vault, later, client, told, ghosts>>
    BY <1>1 DEF IndexUpload, BeginPass
  <1>3. q \in Paths
    BY <1>1, <1>2, JobType DEF Typed
  <1>4. \A p \in Paths : WithFiles(q)[p] = IF p = q THEN disk[q] ELSE vault[p]
    BY <1>3 DEF WithFiles, Typed, TypeOK, Snapshot
  <1>5. /\ pass'.by = c /\ pass'.stage = "uploadRender" /\ pass'.v = WithFiles(q)
        /\ pass'.salt = 0 /\ Rendered' = {}
    BY <1>2 DEF NewPass, Rendered
  <1>6. Uploading' /\ pass' # None
    <2>1. WithFiles(q) \in Snapshot
      <3>1. disk[q] \in Nat /\ vault \in Snapshot
        BY <1>3 DEF Typed, TypeOK, Snapshot
      <3>2. QED
        BY <1>3, <3>1, SnapshotUpdate DEF WithFiles
    <2>2. pass' # None
      BY <1>2, <2>1, NewPassType, NoneIs DEF Stages, Callers
    <2>3. QED
      BY <1>5, <2>2 DEF Typed, Owned
  <1>7. \A p \in Paths : DrawnSound(p)' /\ pass'.batch[p] = None
    BY <1>5, <1>6, NothingDrawn
  <1>8. PassSound'
    <2>1. pass'.salt <= boards'
      BY <1>5 DEF Typed, TypeOK
    <2>2. \A p \in Paths \ {job'[pass'.by].path} : pass'.v[p] = vault'[p]
      BY <1>1, <1>2, <1>4, <1>5 DEF client
    <2>3. QED
      BY <1>5, <2>1, <2>2 DEF PassSound
  <1>9. Owed => Owed'
    BY <1>2 DEF Owed, At, later, client
  <1>10. \A p \in Paths : NoNewer(pass'.v[p], disk[p], Top)
    BY <1>4, <1>5 DEF Fresh, NoteOrdered
  <1>11. \A d \in Clients : pc[d] = "page" => pass'.batch[job[d].path] = None
    <2>1. \A d \in Clients : pc[d] # "idle" => job[d].path \in Paths
      BY JobType DEF Typed
    <2>2. QED
      BY <1>7, <2>1
  <1>12. \A d \in Clients : pass'.by = d => pc[d] = "index"
    BY <1>2, <1>5
  <1>13. QED
    BY <1>2, <1>6, <1>7, <1>8, <1>9, <1>10, <1>11, <1>12, StageFresh

\* A note that is not worked on has a row as new as the scan.
LEMMA NotWorkedOn ==
  ASSUME Typed, Fresh, pass # None,
         NEW p \in Present(pass.v) \ Work(pass.v, Indexed \ SlugsOf(pass.v))
  PROVE  RowOf(p) # None /\ RowOf(p).html.body >= pass.v[p]
  <1>1. PICK v : v = pass.v
    OBVIOUS
  <1>2. v \in Snapshot
    BY <1>1, PassFields DEF Typed
  <1>3. p \in Paths /\ v[p] # 0
    BY <1>1 DEF Present
  <1>4. SlugsOf(v) \subseteq Indexed /\ RowOf(p).hash = VersionedHash(v, p, boards)
    BY <1>1 DEF Work, RowOf
  <1>5. RowOf(p) # None
    <2>1. Slug[p] \in SlugsOf(v)
      BY <1>1, <1>3 DEF SlugsOf
    <2>2. QED
      BY <1>4, <2>1 DEF Indexed, RowOf
  <1>6. RowOf(p).hash # None
    <2>1. VersionedHash(v, p, boards) \in Hash
      BY <1>2, <1>3, VersionedHashType DEF Typed, TypeOK
    <2>2. QED
      BY <1>4, <2>1, NoneIs
  <1>7. RowOf(p).hash.body = v[p]
    BY <1>4 DEF VersionedHash
  <1>8. Made(RowOf(p), p, disk, boards, Top)
    BY <1>3, <1>5 DEF Fresh, RowSound
  <1>9. RowOf(p).html.body >= RowOf(p).hash.body
    BY <1>6, <1>8 DEF Made
  <1>10. QED
    BY <1>1, <1>5, <1>7, <1>9

LEMMA SlugIsItsOwn ==
  ASSUME SlugsDiffer, NEW v, NEW p \in Paths, Slug[p] \in SlugsOf(v)
  PROVE  v[p] # 0
  BY DEF SlugsDiffer, SlugsOf, Present

LEMMA DiffFresh ==
  ASSUME SlugsDiffer, Typed, Typed', Fresh, Diff
  PROVE  Fresh'
  <1>1. PICK work, deleted : /\ deleted = Indexed \ SlugsOf(pass.v)
                             /\ work = Work(pass.v, deleted)
    OBVIOUS
  <1>2. /\ pass # None /\ pass.stage = "diff"
        /\ UNCHANGED <<world, rows, vault, later, client, told, ghosts>>
    BY DEF Diff, At
  <1>3. IF work = {} /\ deleted = {}
        THEN ToPublish
        ELSE pass' = [pass EXCEPT !.stage = "begin", !.salt = boards, !.work = work,
                                  !.deleted = deleted]
    BY <1>1 DEF Diff
  <1>4. ~Uploading /\ Rendered = {} /\ pass.unread = {}
    BY <1>2 DEF Typed, Owned
  <1>5. pass.v \in Snapshot /\ boards \in Nat
    BY <1>2, PassFields DEF Typed, TypeOK
  <1>6. \A p \in Present(pass.v) \ work : RowOf(p) # None /\ RowOf(p).html.body >= pass.v[p]
    BY <1>1, <1>2, NotWorkedOn
  <1>7. work \subseteq Present(pass.v)
    BY <1>1 DEF Work
  <1>8. work = Present(pass.v) \/ (deleted = {} /\ SlugsOf(pass.v) \subseteq Indexed)
    BY <1>1 DEF Work
  <1>9. /\ pass' # None /\ pass'.by = pass.by /\ pass'.v = pass.v /\ Rendered' = {}
        /\ PassSound'
    <2>1. CASE work = {} /\ deleted = {}
      <3>1. ToPublish
        BY <1>3, <2>1
      <3>2. pass' \in Pass /\ pass'.by = pass.by /\ pass'.stage = "publish" /\ pass'.v = pass.v
            /\ Rendered' = {} /\ pass'.salt = 0
        BY <1>2, <3>1, ToPublishType
      <3>3. pass' # None
        BY <3>2, NoneIs
      <3>4. ~Uploading'
        BY <1>2, <1>4, <3>2 DEF Uploading, client
      <3>5. ASSUME NEW p \in Paths
            PROVE  /\ Recent(RowOf(p), pass.v[p], p \in skipped)
                   /\ RowOf(p) # None => pass.v[p] # 0
        <4>1. RowOf(p) # None => Slug[p] \in SlugsOf(pass.v)
          BY <1>1, <2>1, SlugsAre DEF Indexed, RowOf
        <4>2. RowOf(p) # None => pass.v[p] # 0
          BY <4>1, SlugIsItsOwn
        <4>3. CASE pass.v[p] = 0
          BY <4>2, <4>3 DEF Recent
        <4>4. CASE pass.v[p] # 0
          BY <1>6, <2>1, <4>2, <4>4 DEF Recent, Present
        <4>5. QED
          BY <4>2, <4>3, <4>4
      <3>6. Publishing'
        <4>1. ASSUME NEW p \in Paths
              PROVE  (/\ Recent(RowOf(p), pass.v[p], p \in skipped)
                      /\ RowOf(p) # None /\ ~Uploading => pass.v[p] # 0)'
          <5>1. RowOf(p)' = RowOf(p) /\ pass'.v[p] = pass.v[p] /\ skipped' = skipped
            BY <1>2, <3>2 DEF RowOf, ghosts
          <5>2. QED
            BY <3>5, <5>1
        <4>2. QED
          BY <4>1 DEF Publishing
      <3>7. PassSound'
        BY <1>2, <1>5, <3>2, <3>4, <3>6 DEF PassSound, world
      <3>8. QED
        BY <3>2, <3>3, <3>7
    <2>2. CASE ~(work = {} /\ deleted = {})
      <3>1. pass' = [pass EXCEPT !.stage = "begin", !.salt = boards, !.work = work,
                                 !.deleted = deleted]
        BY <1>3, <2>2
      <3>2. pass \in Pass
        BY <1>2, PassType DEF Typed
      <3>3. /\ pass'.by = pass.by /\ pass'.v = pass.v
            /\ pass'.stage = "begin" /\ pass'.salt = boards
            /\ pass'.work = work /\ pass'.deleted = deleted /\ pass'.batch = pass.batch
            /\ pass'.unread = {}
        BY <1>4, <3>1, <3>2 DEF Pass
      <3>4. pass' # None
        <4>1. pass' \in Pass \/ pass' = None
          BY DEF Typed, TypeOK
        <4>2. work \in SUBSET Paths /\ deleted \in SUBSET Slugs
          BY <1>1, <1>7 DEF Present, Indexed
        <4>3. pass' \in Pass
          BY <1>5, <3>1, <3>2, <4>2 DEF Pass, Stages
        <4>4. QED
          BY <4>3, NoneIs
      <3>5. Rendered' = {}
        BY <1>4, <3>3 DEF Rendered
      <3>6. Handled' = work
        BY <3>3, <3>5 DEF Handled
      <3>7. Rendering'
        <4>1. Present(pass.v)' = Present(pass.v) /\ SlugsOf(pass.v)' = SlugsOf(pass.v)
              /\ Indexed' = Indexed
          BY <1>2, <3>3 DEF Present, SlugsOf, Indexed
        <4>2. (\A p \in Present(pass.v) \ Handled :
                 RowOf(p) # None /\ RowOf(p).html.body >= pass.v[p])'
          BY <1>2, <1>6, <3>3, <3>6, <4>1 DEF RowOf
        <4>3. work = Present(pass.v) \/ Indexed = SlugsOf(pass.v)
          BY <1>1, <1>8
        <4>4. QED
          BY <1>1, <1>7, <3>3, <3>6, <4>1, <4>2, <4>3 DEF Rendering
      <3>8. ~Uploading'
        BY <1>2, <1>4, <3>3 DEF Uploading, client
      <3>9. PassSound'
        BY <1>2, <1>5, <3>3, <3>7, <3>8 DEF PassSound, world
      <3>10. QED
        BY <3>3, <3>4, <3>5, <3>9
    <2>3. QED
      BY <2>1, <2>2
  <1>10. \A p \in Paths : DrawnSound(p)' /\ pass'.batch[p] = None
    BY <1>9, NothingDrawn
  <1>11. Owed => Owed'
    BY <1>2 DEF Owed, At, later, client
  <1>12. \A p \in Paths : NoNewer(pass'.v[p], disk[p], Top)
    BY <1>2, <1>9 DEF Fresh, NoteOrdered
  <1>13. \A d \in Clients : pc[d] = "page" => pass'.batch[job[d].path] = None
    <2>1. \A d \in Clients : pc[d] # "idle" => job[d].path \in Paths
      BY JobType DEF Typed
    <2>2. QED
      BY <1>10, <2>1
  <1>14. ASSUME NEW d \in Clients, pc[d] \in {"reindex", "refresh"}, pass'.by = d
         PROVE  pass'.v[job[d].path] = 0 \/ pass'.v[job[d].path] >= job[d].since
    BY <1>2, <1>9, <1>14 DEF Fresh, ClientSound, JobSound
  <1>15. QED
    BY <1>2, <1>9, <1>10, <1>11, <1>12, <1>13, <1>14, StageFresh

\* What is rendered of p is as new as anything that is known of p.
LEMMA RowMade ==
  ASSUME Typed, Fresh, pass # None, NEW p \in Paths, pass.v[p] # 0, disk[p] # 0,
         NEW salt \in Nat, salt <= boards
  PROVE  LET r == Row(p, pass.v, salt)
         IN  /\ r \in Rows /\ r # None
             /\ Made(r, p, disk, boards, Top) /\ r.hash # None
             /\ r.html.body = disk[p] /\ r.html.body >= pass.v[p]
             /\ r.html.body >= vault[p] /\ r.html.body >= acked[p]
             /\ r.html.links = Links[p] \cap Present(pass.v)
             /\ r.hash.salt = salt /\ r.html.boards = boards
  <1>1. PICK v, r : v = pass.v /\ r = Row(p, v, salt)
    OBVIOUS
  <1>2. v \in Snapshot /\ disk \in Snapshot /\ boards \in Nat
    BY <1>1, PassFields DEF Typed, TypeOK
  <1>3. r \in Rows /\ VersionedHash(v, p, salt) \in Hash
    BY <1>1, <1>2, RowType, VersionedHashType DEF Typed
  <1>4. /\ r.hash = VersionedHash(v, p, salt) /\ r.html = RenderBody(p, v)
    BY <1>1 DEF Row
  <1>5. /\ r.hash.body = v[p] /\ r.hash.deps = OnlyOf(Embeds[p], v) /\ r.hash.salt = salt
        /\ r.html.body = disk[p] /\ r.html.embeds = OnlyOf(Embeds[p] \cap Present(v), disk)
        /\ r.html.links = Links[p] \cap Present(v) /\ r.html.boards = boards
    BY <1>4 DEF VersionedHash, RenderBody
  <1>6. r.hash # None /\ r # None
    BY <1>3, <1>4, NoneIs
  <1>7. NoNewer(v[p], disk[p], Top) /\ NoNewer(vault[p], disk[p], Top)
        /\ NoNewer(acked[p], disk[p], Top)
    BY <1>1 DEF Fresh, NoteOrdered
  <1>8. disk[p] >= v[p] /\ disk[p] >= vault[p] /\ disk[p] >= acked[p] /\ v[p] <= Top
    BY <1>7 DEF NoNewer
  <1>9. ASSUME NEW e \in Paths
        PROVE  /\ r.hash.deps[e] <= Top
               /\ \/ r.html.embeds[e] = r.hash.deps[e]
                  \/ r.hash.deps[e] # 0 /\ disk[e] # r.hash.deps[e]
    <2>1. r.hash.deps[e] = IF e \in Embeds[p] THEN v[e] ELSE 0
      BY <1>5 DEF OnlyOf
    <2>2. r.html.embeds[e] = IF e \in Embeds[p] /\ v[e] # 0 THEN disk[e] ELSE 0
      BY <1>5 DEF OnlyOf, Present
    <2>3. v[e] <= Top
      BY <1>1 DEF Fresh, NoteOrdered, NoNewer
    <2>4. 0 <= Top
      BY MaxPaths DEF Top, Typed, TypeOK
    <2>5. QED
      BY <2>1, <2>2, <2>3, <2>4
  <1>10. boards <= boards
    BY <1>2
  <1>11. Made(r, p, disk, boards, Top)
    BY <1>1, <1>5, <1>8, <1>9, <1>10 DEF Made
  <1>12. QED
    BY <1>1, <1>3, <1>5, <1>6, <1>8, <1>11

\* What a pass renders of p while nothing else happens.
LEMMA DrawnOfRow ==
  ASSUME Typed, Fresh, UNCHANGED <<world, vault, told>>, pass # None, pass' # None,
         pass'.v = pass.v, NEW p \in Paths, pass.v[p] # 0, disk[p] # 0,
         NEW salt \in Nat, salt <= boards, pass'.batch[p] = Row(p, pass.v, salt),
         ~Uploading' => salt <= boards
  PROVE  DrawnSound(p)'
  <1>1. PICK r : r = Row(p, pass.v, salt)
    OBVIOUS
  <1>2. /\ r # None /\ Made(r, p, disk, boards, Top) /\ r.hash # None
        /\ r.html.body >= pass.v[p] /\ r.html.body >= vault[p] /\ r.html.body >= acked[p]
        /\ r.html.links = Links[p] \cap Present(pass.v)
        /\ r.hash.salt = salt /\ r.html.boards = boards
    BY <1>1, RowMade
  <1>3. Top' = Top /\ disk' = disk /\ boards' = boards /\ vault' = vault /\ acked' = acked
    BY DEF Top, world, told
  <1>4. pass'.batch[p] = r
    BY <1>1
  <1>5. QED
    BY <1>2, <1>3, <1>4 DEF DrawnSound, Present

LEMMA RenderNoteFresh ==
  ASSUME Typed, Typed', Fresh, NEW o \in Outcomes, RenderNote(o)
  PROVE  Fresh'
  <1>1. UNCHANGED <<world, rows, vault, later, client, told, ghosts>>
    BY DEF RenderNote
  <1>2. PICK p : p = Min(pass.work)
    OBVIOUS
  <1>3. /\ pass # None /\ pass.stage \in {"begin", "render"} /\ ~Uploading
        /\ p \in pass.work
        /\ pass' \in Pass /\ pass'.by = pass.by /\ pass'.stage = "render" /\ pass'.v = pass.v
        /\ pass'.salt = pass.salt /\ pass'.deleted = pass.deleted
        /\ pass'.work = pass.work \ {p}
        /\ \/ /\ disk[p] # 0
              /\ pass'.batch = [pass.batch EXCEPT ![p] = Row(p, pass.v, pass.salt)]
              /\ pass'.unread = pass.unread
           \/ /\ pass'.batch = [pass.batch EXCEPT ![p] = None]
              /\ pass'.unread = pass.unread \cup {p}
    BY <1>2, RenderNoteIs
  <1>4. pass' # None /\ pass.batch \in [Paths -> Rows \cup {None}] /\ pass.v \in Snapshot
        /\ p \in Paths /\ pass.salt \in Nat /\ pass.salt <= boards
    BY <1>3, PassFields, NoneIs DEF Typed, Fresh, PassSound
  <1>5. Rendering
    BY <1>3 DEF Fresh, PassSound
  <1>6. pass.v[p] # 0
    BY <1>3, <1>5 DEF Rendering, Handled, Present
  <1>7. \A q \in Paths : q # p => pass'.batch[q] = pass.batch[q]
    BY <1>3, <1>4
  <1>8. pass'.batch[p] = None \/ (disk[p] # 0 /\ pass'.batch[p] = Row(p, pass.v, pass.salt))
    BY <1>3, <1>4
  <1>9. ~Uploading'
    BY <1>1, <1>3 DEF Uploading, client
  <1>10. Ages
    BY <1>1, AgesUnchanged
  <1>11. ASSUME NEW q \in Paths
         PROVE  DrawnSound(q)'
    <2>1. CASE q = p /\ pass'.batch[p] = None
      BY <2>1 DEF DrawnSound
    <2>2. CASE q = p /\ disk[p] # 0 /\ pass'.batch[p] = Row(p, pass.v, pass.salt)
      BY <1>1, <1>3, <1>4, <1>6, <2>2, DrawnOfRow
    <2>3. CASE q # p
      <3>1. pass'.batch[q] = pass.batch[q]
        BY <1>7, <2>3
      <3>2. Top' = Top /\ disk' = disk /\ boards' = boards /\ vault' = vault /\ acked' = acked
        BY <1>1 DEF Top, world, told
      <3>3. DrawnSound(q)
        BY DEF Fresh
      <3>4. QED
        BY <1>3, <1>4, <1>9, <3>1, <3>2, <3>3 DEF DrawnSound, Present
    <2>4. QED
      BY <1>8, <2>1, <2>2, <2>3
  <1>12. Handled' = Handled
    <2>1. Rendered \subseteq Paths /\ \A q \in Paths : q \in Rendered <=> pass.batch[q] # None
      BY DEF Rendered
    <2>2. Rendered' \subseteq Paths /\ \A q \in Paths : q \in Rendered' <=> pass'.batch[q] # None
      BY DEF Rendered
    <2>3. CASE /\ disk[p] # 0 /\ pass'.batch[p] = Row(p, pass.v, pass.salt)
               /\ pass'.unread = pass.unread
      <3>1. pass'.batch[p] # None
        BY <1>3, <1>4, <1>6, <2>3, RowMade
      <3>2. Rendered' = Rendered \cup {p}
        BY <1>4, <1>7, <2>1, <2>2, <3>1
      <3>3. QED
        BY <1>3, <2>3, <3>2 DEF Handled
    <2>4. CASE pass'.batch[p] = None /\ pass'.unread = pass.unread \cup {p}
      <3>1. Rendered' = Rendered \ {p}
        BY <1>4, <1>7, <2>1, <2>2, <2>4
      <3>2. QED
        BY <1>3, <2>4, <3>1 DEF Handled
    <2>5. QED
      BY <1>3, <1>4, <2>3, <2>4
  <1>13. PassSound'
    <2>1. Present(pass.v)' = Present(pass.v) /\ SlugsOf(pass.v)' = SlugsOf(pass.v)
          /\ Indexed' = Indexed
      BY <1>1, <1>3 DEF Present, SlugsOf, Indexed
    <2>2. Rendering'
      BY <1>1, <1>3, <1>5, <1>12, <2>1 DEF Rendering, RowOf
    <2>3. QED
      BY <1>1, <1>3, <1>4, <1>9, <2>2 DEF PassSound, world
  <1>14. Owed => Owed'
    BY <1>1, <1>3 DEF Owed, At, later, client
  <1>15. \A q \in Paths : NoNewer(pass'.v[q], disk[q], Top)
    BY <1>3 DEF Fresh, NoteOrdered
  <1>16. ASSUME NEW c \in Clients, pc[c] = "page", pass'.batch[job[c].path] # None
         PROVE  pass'.batch[job[c].path].html.body >= job[c].since
    <2>1. PICK q : q = job[c].path
      OBVIOUS
    <2>2. q \in Paths /\ NoNewer(job[c].since, disk[q], Top)
      BY <1>16, <2>1, JobType DEF Typed, Fresh, ClientSound, JobSound
    <2>3. CASE q = p
      <3>1. disk[p] # 0 /\ pass'.batch[p] = Row(p, pass.v, pass.salt)
        BY <1>8, <1>16, <2>1, <2>3
      <3>2. pass'.batch[p].html.body = disk[p]
        BY <1>3, <1>4, <1>6, <3>1, RowMade
      <3>3. disk[p] >= job[c].since
        BY <2>2, <2>3, <3>1 DEF NoNewer
      <3>4. QED
        BY <2>1, <2>3, <3>2, <3>3
    <2>4. CASE q # p
      <3>1. pass'.batch[q] = pass.batch[q] /\ pass.batch[q] # None
        BY <1>7, <1>16, <2>1, <2>2, <2>4
      <3>2. pass.batch[q].html.body >= job[c].since
        BY <1>3, <1>16, <2>1, <3>1 DEF Fresh, ClientSound, JobSound
      <3>3. QED
        BY <2>1, <3>1, <3>2
    <2>5. QED
      BY <2>3, <2>4
  <1>17. ASSUME NEW d \in Clients, pc[d] \in {"reindex", "refresh"}, pass'.by = d
         PROVE  pass'.v[job[d].path] = 0 \/ pass'.v[job[d].path] >= job[d].since
    BY <1>3, <1>17 DEF Fresh, ClientSound, JobSound
  <1>18. QED
    BY <1>1, <1>4, <1>11, <1>13, <1>14, <1>15, <1>16, <1>17, StageFresh

\* What a transaction does to the row of each note.
LEMMA CommitIs ==
  ASSUME SlugsDiffer, Typed, Typed', Fresh, Commit
  PROVE  /\ pass # None /\ ~Uploading /\ Rendering /\ pass.work = {}
         /\ UNCHANGED <<world, vault, later, client, told>>
         /\ pass' # None /\ pass'.by = pass.by /\ pass'.stage = "publish" /\ pass'.v = pass.v
         /\ pass'.salt = 0 /\ Rendered' = {} /\ ~Uploading'
         /\ skipped' = (skipped \ Rendered) \cup pass.unread
         /\ dropped' = IF Vanished THEN Paths ELSE dropped \ Rendered
         /\ \A p \in Paths :
              RowOf(p)' = IF p \in Rendered THEN pass.batch[p]
                          ELSE IF Slug[p] \in pass.deleted THEN None ELSE RowOf(p)
  <1>1. /\ pass # None /\ pass.stage \in {"begin", "render"} /\ pass.work = {}
        /\ rows' = [s \in Slugs |-> Written(s)] /\ ToPublish
        /\ skipped' = (skipped \ Rendered) \cup pass.unread
        /\ dropped' = IF Vanished THEN Paths ELSE dropped \ Rendered
        /\ UNCHANGED <<world, vault, later, client, told>>
    BY DEF Commit, At
  <1>2. ~Uploading
    BY <1>1 DEF Typed, Owned
  <1>3. Rendering
    BY <1>1 DEF Fresh, PassSound
  <1>4. /\ pass' # None /\ pass'.by = pass.by /\ pass'.stage = "publish" /\ pass'.v = pass.v
        /\ pass'.salt = 0 /\ Rendered' = {}
    BY <1>1, ToPublishType, NoneIs
  <1>5. ~Uploading'
    BY <1>1, <1>2, <1>4 DEF Uploading, client
  <1>6. ASSUME NEW p \in Paths
        PROVE  RowOf(p)' = IF p \in Rendered THEN pass.batch[p]
                           ELSE IF Slug[p] \in pass.deleted THEN None ELSE RowOf(p)
    <2>1. PICK s : s = Slug[p]
      OBVIOUS
    <2>2. s \in Slugs /\ rows'[s] = Written(s) /\ \A q \in Paths : Slug[q] = s => q = p
      BY <1>1, <2>1, SlugsAre DEF SlugsDiffer
    <2>3. \/ pass.batch[p] # None /\ Written(s) = pass.batch[p]
          \/ pass.batch[p] = None /\ Written(s) = IF s \in pass.deleted THEN None ELSE rows[s]
      <3>1. \/ \E q \in Paths : Slug[q] = s /\ pass.batch[q] # None /\ Written(s) = pass.batch[q]
            \/ /\ \A q \in Paths : Slug[q] = s => pass.batch[q] = None
               /\ Written(s) = IF s \in pass.deleted THEN None ELSE rows[s]
        BY <1>1, <2>2, WrittenType
      <3>2. QED
        BY <2>1, <2>2, <3>1
    <2>4. QED
      BY <2>1, <2>2, <2>3 DEF RowOf, Rendered
  <1>7. QED
    BY <1>1, <1>2, <1>3, <1>4, <1>5, <1>6

\* Afterwards a row is there for each note of the scan, but for one that vanished.
LEMMA CommitLeaves ==
  ASSUME SlugsDiffer, Typed, Typed', Fresh, Commit, NEW p \in Paths
  PROVE  /\ RowOf(p)' # None => pass.v[p] # 0
         /\ pass.v[p] # 0 /\ ~Vanished => RowOf(p)' # None
         /\ RowOf(p)' # None /\ p \notin Rendered =>
              /\ RowOf(p)' = RowOf(p)
              /\ p \in pass.unread \/ (p \notin Handled /\ RowOf(p).html.body >= pass.v[p])
  <1>1. /\ pass # None /\ Rendering /\ pass.work = {}
        /\ RowOf(p)' = IF p \in Rendered THEN pass.batch[p]
                       ELSE IF Slug[p] \in pass.deleted THEN None ELSE RowOf(p)
    BY CommitIs
  <1>2. Handled = Rendered \cup pass.unread
    BY <1>1 DEF Handled
  <1>3. pass.deleted = Indexed \ SlugsOf(pass.v) /\ Handled \subseteq Present(pass.v)
    BY <1>1 DEF Rendering
  <1>4. pass.v[p] # 0 => p \in Present(pass.v) /\ Slug[p] \in SlugsOf(pass.v)
    BY DEF Present, SlugsOf
  <1>5. p \in Present(pass.v) => pass.v[p] # 0
    BY DEF Present
  <1>6. p \in Rendered => pass.batch[p] # None
    BY DEF Rendered
  <1>7. p \in Present(pass.v) /\ p \notin Handled =>
          RowOf(p) # None /\ RowOf(p).html.body >= pass.v[p]
    BY <1>1 DEF Rendering
  <1>8. RowOf(p) # None => Slug[p] \in Indexed
    BY SlugsAre DEF Indexed, RowOf
  <1>9. RowOf(p)' # None => pass.v[p] # 0
    <2>1. CASE p \in Rendered
      BY <1>2, <1>3, <1>5, <2>1
    <2>2. CASE p \notin Rendered
      <3>1. RowOf(p)' # None => Slug[p] \in SlugsOf(pass.v)
        BY <1>1, <1>3, <1>8, <2>2
      <3>2. QED
        BY <3>1, SlugIsItsOwn
    <2>3. QED
      BY <2>1, <2>2
  <1>10. ~Vanished => (p \in pass.unread => RowOf(p) # None)
    BY DEF Vanished, RowOf
  <1>11. pass.v[p] # 0 /\ ~Vanished => RowOf(p)' # None
    <2>1. CASE p \in Rendered
      BY <1>1, <1>6, <2>1
    <2>2. CASE p \notin Rendered
      BY <1>1, <1>2, <1>3, <1>4, <1>7, <1>10, <2>2
    <2>3. QED
      BY <2>1, <2>2
  <1>12. ASSUME RowOf(p)' # None, p \notin Rendered
         PROVE  /\ RowOf(p)' = RowOf(p)
                /\ p \in pass.unread \/ (p \notin Handled /\ RowOf(p).html.body >= pass.v[p])
    <2>1. RowOf(p)' = RowOf(p)
      BY <1>1, <1>12
    <2>2. p \in Present(pass.v)
      BY <1>4, <1>9, <1>12
    <2>3. QED
      BY <1>2, <1>7, <1>12, <2>1, <2>2
  <1>13. QED
    BY <1>9, <1>11, <1>12

LEMMA CommitIndexes ==
  ASSUME SlugsDiffer, Typed, Typed', Fresh, Commit, ~Vanished
  PROVE  Indexed' = SlugsOf(pass.v)
  <1>1. \A p \in Paths : RowOf(p)' # None <=> pass.v[p] # 0
    BY CommitLeaves
  <1>2. \A p \in Paths : rows'[Slug[p]] # None <=> pass.v[p] # 0
    BY <1>1 DEF RowOf
  <1>3. \A s \in Slugs : s \in Indexed' <=> rows'[s] # None
    BY DEF Indexed
  <1>4. \A s \in Slugs : s \in SlugsOf(pass.v) <=> rows'[s] # None
    <2>1. ASSUME NEW s \in Slugs
          PROVE  s \in SlugsOf(pass.v) <=> rows'[s] # None
      <3>1. PICK p \in Paths : s = Slug[p]
        BY DEF Slugs
      <3>2. s \in SlugsOf(pass.v) => pass.v[p] # 0
        BY <3>1, SlugIsItsOwn
      <3>3. pass.v[p] # 0 => s \in SlugsOf(pass.v)
        BY <3>1 DEF SlugsOf, Present
      <3>4. QED
        BY <1>2, <3>1, <3>2, <3>3
    <2>2. QED
      BY <2>1
  <1>5. Indexed' \subseteq Slugs /\ SlugsOf(pass.v) \subseteq Slugs
    BY DEF Indexed, SlugsOf, Present, Slugs
  <1>6. QED
    BY <1>3, <1>4, <1>5

LEMMA CommitRowSound ==
  ASSUME SlugsDiffer, Typed, Typed', Fresh, Commit, NEW p \in Paths
  PROVE  RowSound(p)'
  <1>1. /\ pass # None /\ ~Uploading /\ Rendering
        /\ UNCHANGED <<world, vault, later, client, told>>
        /\ skipped' = (skipped \ Rendered) \cup pass.unread
        /\ dropped' = IF Vanished THEN Paths ELSE dropped \ Rendered
        /\ RowOf(p)' = IF p \in Rendered THEN pass.batch[p]
                       ELSE IF Slug[p] \in pass.deleted THEN None ELSE RowOf(p)
        /\ pass'.by = pass.by /\ pass.work = {}
    BY CommitIs
  <1>2. Top' = Top /\ disk' = disk /\ boards' = boards
    BY <1>1 DEF Top, world
  <1>3. Vanished => Excused(p)'
    BY <1>1 DEF Excused
  <1>4. LinksIndexed(p)' = {q \in Links[p] : Slug[q] \in Indexed'}
    BY DEF LinksIndexed
  <1>5. Links[p] \subseteq Paths
    BY IndexAssumption
  <1>6. CASE p \in Rendered
    <2>1. PICK r : r = pass.batch[p]
      OBVIOUS
    <2>2. r # None
      BY <1>6, <2>1 DEF Rendered
    <2>3. /\ Made(r, p, disk, boards, Top) /\ r.hash.salt <= r.html.boards
          /\ r.html.links = Links[p] \cap Present(pass.v)
      BY <1>1, <2>1, <2>2 DEF Fresh, DrawnSound
    <2>4. ~Vanished => LinksIndexed(p)' = Links[p] \cap Present(pass.v)
      <3>1. \A q \in Paths : Slug[q] \in SlugsOf(pass.v) <=> pass.v[q] # 0
        BY SlugIsItsOwn DEF SlugsOf, Present
      <3>2. \A q \in Paths : Slug[q] \in SlugsOf(pass.v) <=> q \in Present(pass.v)
        BY <3>1 DEF Present
      <3>3. QED
        BY <1>4, <1>5, <3>2, CommitIndexes
    <2>5. RowOf(p)' = r
      BY <1>1, <1>6, <2>1
    <2>6. QED
      BY <1>2, <1>3, <2>3, <2>4, <2>5 DEF RowSound
  <1>7. CASE p \notin Rendered /\ RowOf(p)' # None
    <2>1. PICK r : r = RowOf(p)
      OBVIOUS
    <2>2. RowOf(p)' = r /\ r # None
          /\ (p \in pass.unread \/ p \notin Handled)
      BY <1>7, <2>1, CommitLeaves
    <2>3. /\ Made(r, p, disk, boards, Top)
          /\ r.hash # None =>
               \/ r.hash.salt <= r.html.boards /\ r.html.links = LinksIndexed(p)
               \/ Excused(p)
      BY <2>1, <2>2 DEF Fresh, RowSound
    <2>4. Owed => Owed'
      BY <1>1 DEF Owed, Uploading, later, client
    <2>5. Excused(p) => Excused(p)'
      BY <1>1, <1>7, <2>4 DEF Excused
    <2>6. LinksIndexed(p)' = LinksIndexed(p) \/ Excused(p)'
      <3>1. CASE Vanished
        BY <1>3, <3>1
      <3>2. CASE ~Vanished /\ Indexed = SlugsOf(pass.v)
        <4>1. Indexed' = Indexed
          BY <3>2, CommitIndexes
        <4>2. QED
          BY <4>1 DEF LinksIndexed
      <3>3. CASE Handled = Present(pass.v)
        <4>1. pass.v[p] # 0
          BY <1>7, CommitLeaves
        <4>2. p \in Handled
          BY <3>3, <4>1 DEF Present
        <4>3. p \in skipped'
          BY <1>1, <2>2, <4>2
        <4>4. QED
          BY <4>3 DEF Excused
      <3>4. QED
        BY <1>1, <3>1, <3>2, <3>3 DEF Rendering
    <2>7. QED
      BY <1>2, <2>2, <2>3, <2>5, <2>6 DEF RowSound
  <1>8. CASE RowOf(p)' = None
    BY <1>8 DEF RowSound
  <1>9. QED
    BY <1>6, <1>7, <1>8

\* A version that both the old row and the new rendering reach is reached.
LEMMA CommitRecent ==
  ASSUME SlugsDiffer, Typed, Typed', Fresh, Commit, NEW p \in Paths, NEW x, NEW failed,
         Recent(RowOf(p), x, failed \/ p \in skipped),
         p \in Rendered => pass.batch[p].html.body >= x
  PROVE  Recent(RowOf(p)', x, failed \/ p \in skipped')
  <1>1. /\ skipped' = (skipped \ Rendered) \cup pass.unread
        /\ RowOf(p)' = IF p \in Rendered THEN pass.batch[p]
                       ELSE IF Slug[p] \in pass.deleted THEN None ELSE RowOf(p)
    BY CommitIs
  <1>2. CASE p \in Rendered
    BY <1>1, <1>2 DEF Recent
  <1>3. CASE p \notin Rendered
    BY <1>1, <1>3 DEF Recent
  <1>4. QED
    BY <1>2, <1>3

LEMMA CommitFresh ==
  ASSUME SlugsDiffer, Typed, Typed', Fresh, Commit
  PROVE  Fresh'
  <1>1. /\ pass # None /\ ~Uploading /\ Rendering
        /\ UNCHANGED <<world, vault, later, client, told>>
        /\ pass' # None /\ pass'.by = pass.by /\ pass'.stage = "publish" /\ pass'.v = pass.v
        /\ pass'.salt = 0 /\ Rendered' = {} /\ ~Uploading'
        /\ skipped' = (skipped \ Rendered) \cup pass.unread
    BY CommitIs
  <1>2. Ages
    BY <1>1, AgesUnchanged
  <1>3. \A p \in Paths : DrawnSound(p)' /\ pass'.batch[p] = None
    BY <1>1, NothingDrawn
  <1>4. ASSUME NEW p \in Paths
        PROVE  NoteOrdered(p)' /\ RowRecent(p)'
    <2>1. NoteOrdered(p) /\ RowRecent(p) /\ DrawnSound(p)
      BY DEF Fresh
    <2>2. vault'[p] = vault[p] /\ acked'[p] = acked[p] /\ pass'.v[p] = pass.v[p]
      BY <1>1 DEF told
    <2>3. NoteOrdered(p)'
      <3>1. NoNewer(disk[p], disk[p], Top) /\ NoNewer(vault'[p], disk[p], Top)
            /\ NoNewer(acked'[p], disk[p], Top) /\ NoNewer(pass'.v[p], disk[p], Top)
        BY <1>1, <2>1, <2>2 DEF NoteOrdered
      <3>2. QED
        BY <1>2, <3>1, NoteOrderedStays
    <2>4. p \in Rendered =>
            pass.batch[p].html.body >= vault[p] /\ pass.batch[p].html.body >= acked[p]
      BY <1>1, <2>1 DEF DrawnSound, Rendered
    <2>5. Recent(RowOf(p), vault[p], FALSE \/ p \in skipped)
          /\ Recent(RowOf(p), acked[p], FALSE \/ p \in skipped)
      BY <2>1 DEF RowRecent
    <2>6. Recent(RowOf(p)', vault[p], FALSE \/ p \in skipped')
      BY <2>4, <2>5, CommitRecent
    <2>7. Recent(RowOf(p)', acked[p], FALSE \/ p \in skipped')
      BY <2>4, <2>5, CommitRecent
    <2>8. RowRecent(p)'
      BY <2>2, <2>6, <2>7 DEF RowRecent
    <2>9. QED
      BY <2>3, <2>8
  <1>5. ASSUME NEW c \in Clients, pc[c] # "idle"
        PROVE  ClientSound(c)'
    <2>1. PICK j, stage : j = job[c] /\ stage = pc[c]
      OBVIOUS
    <2>2. JobSound(c, j, stage) /\ j.path \in Paths /\ j.since \in Nat
      BY <1>5, <2>1, JobType DEF Fresh, ClientSound, Typed
    <2>3. PICK p : p = j.path
      OBVIOUS
    <2>4. NoNewer(j.since, disk'[p], Top')
      BY <1>2, <2>2, <2>3, NoNewerStays DEF JobSound
    <2>5. stage = "page" => Recent(RowOf(p)', j.since, j.failed \/ p \in skipped')
      <3>1. ASSUME stage = "page"
            PROVE  Recent(RowOf(p)', j.since, j.failed \/ p \in skipped')
        <4>1. Recent(RowOf(p), j.since, j.failed \/ p \in skipped)
          BY <2>2, <2>3, <3>1 DEF JobSound
        <4>2. p \in Rendered => pass.batch[p].html.body >= j.since
          BY <1>1, <2>2, <2>3, <3>1 DEF JobSound, Rendered
        <4>3. p \in Paths
          BY <2>2, <2>3
        <4>4. QED
          BY <4>1, <4>2, <4>3, CommitRecent
      <3>2. QED
        BY <3>1
    <2>6. JobSound(c, j, stage)'
      BY <1>1, <1>3, <2>2, <2>3, <2>4, <2>5 DEF JobSound
    <2>7. pc'[c] = stage /\ job'[c] = j
      BY <1>1, <2>1 DEF client
    <2>8. QED
      BY <2>6, <2>7 DEF ClientSound
  <1>6. PassSound'
    <2>1. ASSUME NEW p \in Paths
          PROVE  (/\ Recent(RowOf(p), pass.v[p], p \in skipped)
                  /\ RowOf(p) # None /\ ~Uploading => pass.v[p] # 0)'
      <3>1. PICK r : r = RowOf(p)'
        OBVIOUS
      <3>2. Recent(r, pass.v[p], p \in skipped')
        <4>1. CASE r = None
          BY <4>1 DEF Recent
        <4>2. CASE p \in Rendered
          <5>1. r = pass.batch[p]
            BY <3>1, <4>2, CommitIs
          <5>2. pass.batch[p].html.body >= pass.v[p]
            BY <1>1, <4>2 DEF Fresh, DrawnSound, Rendered
          <5>3. QED
            BY <5>1, <5>2 DEF Recent
        <4>3. CASE r # None /\ p \notin Rendered
          <5>1. r = RowOf(p) /\ (p \in pass.unread \/ RowOf(p).html.body >= pass.v[p])
            BY <3>1, <4>3, CommitLeaves
          <5>2. QED
            BY <1>1, <5>1 DEF Recent
        <4>4. QED
          BY <4>1, <4>2, <4>3
      <3>3. r # None => pass.v[p] # 0
        BY <3>1, CommitLeaves
      <3>4. QED
        BY <1>1, <3>1, <3>2, <3>3
    <2>2. Publishing'
      BY <2>1 DEF Publishing
    <2>3. 0 <= boards'
      BY DEF Typed, TypeOK
    <2>4. QED
      BY <1>1, <2>2, <2>3 DEF PassSound
  <1>7. \A p \in Paths : RowSound(p)'
    BY CommitRowSound
  <1>8. \A c \in Clients : ClientSound(c)'
    BY <1>1, <1>5 DEF ClientSound, client
  <1>9. QED
    BY <1>3, <1>4, <1>6, <1>7, <1>8 DEF Fresh

\* A request after the end of a pass.
LEMMA EndedJob ==
  ASSUME Ages, pass' = None, UNCHANGED <<rows, skipped>>,
         NEW c \in Clients, NEW j \in Job, NEW stage,
         pc'[c] = stage, job'[c] = j, NoNewer(j.since, disk[j.path], Top),
         stage = "page" => Recent(RowOf(j.path), j.since, j.failed \/ j.path \in skipped),
         stage = "served" => j.got >= j.since \/ j.failed
  PROVE  ClientSound(c)'
  <1>1. j.path \in Paths /\ j.since \in Nat
    BY DEF Job
  <1>2. NoNewer(j.since, disk'[j.path], Top')
    BY <1>1, NoNewerStays
  <1>3. JobSound(c, j, stage)'
    BY <1>2 DEF JobSound, RowOf
  <1>4. QED
    BY <1>3 DEF ClientSound

LEMMA OwnJobSound ==
  ASSUME Typed, Fresh, NEW c \in Clients, pc[c] # "idle"
  PROVE  job[c] \in Job /\ JobSound(c, job[c], pc[c])
  BY JobType DEF Fresh, ClientSound, Typed

\* What the scan of one's own pass has seen is in the rows when it ends.
LEMMA OwnPassShows ==
  ASSUME Typed, Fresh, pass # None, pass.stage = "publish", pass.by \in Clients,
         pc[pass.by] \in {"reindex", "refresh"}
  PROVE  LET j == job[pass.by]
         IN  \/ RowOf(j.path) = None
             \/ pass.v[j.path] # 0 /\ Recent(RowOf(j.path), j.since, j.path \in skipped)
  <1>1. PICK j, p : j = job[pass.by] /\ p = j.path
    OBVIOUS
  <1>2. j \in Job /\ p \in Paths /\ j.since \in Nat
    BY <1>1, JobType DEF Typed
  <1>3. pass.v[p] = 0 \/ pass.v[p] >= j.since
    BY <1>1, OwnJobSound DEF JobSound
  <1>4. Recent(RowOf(p), pass.v[p], p \in skipped) /\ (RowOf(p) # None => pass.v[p] # 0)
    BY <1>2 DEF Fresh, PassSound, Publishing, Uploading
  <1>5. CASE RowOf(p) = None
    BY <1>1, <1>5
  <1>6. CASE RowOf(p) # None
    <2>1. pass.v[p] # 0 /\ pass.v[p] >= j.since
      BY <1>3, <1>4, <1>6
    <2>2. RowOf(p).html.body \in Nat /\ pass.v[p] \in Nat
      <3>1. pass.v \in Snapshot
        BY PassFields DEF Typed
      <3>2. QED
        BY <1>2, <1>6, <3>1, RowsType, RowFields DEF Typed, RowOf, Snapshot
    <2>3. RowOf(p).html.body >= j.since \/ p \in skipped
      BY <1>2, <1>4, <1>6, <2>1, <2>2 DEF Recent
    <2>4. QED
      BY <1>1, <2>1, <2>3 DEF Recent
  <1>7. QED
    BY <1>5, <1>6

\* The request whose pass ends.
LEMMA ReturnSound ==
  ASSUME Typed, Fresh, Ages, pass # None, NEW ok \in BOOLEAN, EndPass(ok),
         UNCHANGED <<rows, skipped>>, ok => pass.stage = "publish",
         NEW c \in Clients, c = pass.by
  PROVE  ClientSound(c)'
  <1>1. c = pass.by
    OBVIOUS
  <1>2. pass' = None /\ c \in Clients /\ "start" \notin Clients /\ "loop" \notin Clients
        /\ "background" \notin Clients /\ up /\ pc[c] # "idle"
    BY <1>1, EndPassIs, IndexAssumption DEF Typed, Owned
  <1>3. PICK j : j = job[c]
    OBVIOUS
  <1>4. j \in Job /\ NoNewer(j.since, disk[j.path], Top)
    BY <1>2, <1>3, OwnJobSound DEF JobSound
  <1>5. ASSUME Idle(c)
        PROVE  ClientSound(c)'
    BY <1>2, <1>5 DEF Idle, ClientSound, Typed, TypeOK
  <1>6. \/ pc[c] = "reindex" /\ WriterReturns(c, ok)
        \/ pc[c] = "refresh" /\ ViewerGoesOn(c, ok)
        \/ Uploading /\ UploadReturns(c, ok)
    BY <1>1, <1>2, EndPassIs
  <1>7. CASE pc[c] = "reindex" /\ WriterReturns(c, ok)
    BY <1>1, <1>5, <1>7 DEF WriterReturns
  <1>8. CASE pc[c] = "refresh" /\ ViewerGoesOn(c, ok) /\ ~Idle(c)
    <2>1. ok => pass.v[j.path] # 0
      BY <1>1, <1>3, <1>8 DEF ViewerGoesOn
    <2>2. PICK jj : jj = [j EXCEPT !.failed = ~ok]
      OBVIOUS
    <2>3. jj \in Job /\ jj.path = j.path /\ jj.since = j.since /\ jj.failed = ~ok
      BY <1>4, <2>2 DEF Job
    <2>4. pc'[c] = "page" /\ job'[c] = jj
      <3>1. pc' = [pc EXCEPT ![c] = "page"] /\ job' = [job EXCEPT ![c].failed = ~ok]
        BY <1>1, <1>3, <1>8 DEF ViewerGoesOn
      <3>2. QED
        BY <1>2, <1>3, <1>4, <2>2, <3>1 DEF Typed, TypeOK
    <2>5. Recent(RowOf(j.path), j.since, ~ok \/ j.path \in skipped)
      <3>1. CASE ok
        <4>1. RowOf(j.path) = None \/ Recent(RowOf(j.path), j.since, j.path \in skipped)
          BY <1>1, <1>2, <1>3, <1>8, <3>1, OwnPassShows
        <4>2. QED
          BY <4>1 DEF Recent
      <3>2. CASE ~ok
        BY <3>2 DEF Recent
      <3>3. QED
        BY <3>1, <3>2
    <2>6. ClientSound(c)'
      BY <1>2, <1>4, <2>3, <2>4, <2>5, EndedJob
    <2>7. QED
      BY <1>1, <2>6
  <1>9. CASE Uploading /\ UploadReturns(c, ok) /\ ~Idle(c)
    <2>1. pc'[c] = "plugins" /\ job'[c] = j
      BY <1>1, <1>2, <1>3, <1>9 DEF UploadReturns, Typed, TypeOK
    <2>2. ClientSound(c)'
      BY <1>2, <1>4, <2>1, EndedJob
    <2>3. QED
      BY <1>1, <2>2
  <1>10. QED
    BY <1>1, <1>5, <1>6, <1>7, <1>8, <1>9

\* An acknowledgement names a version that the rows show.
LEMMA AckedSound ==
  ASSUME Typed, Fresh, pass # None, NEW ok \in BOOLEAN, EndPass(ok),
         ok => pass.stage = "publish", NEW p \in Paths
  PROVE  /\ NoNewer(acked'[p], disk[p], Top)
         /\ acked'[p] = acked[p] \/ Recent(RowOf(p), acked'[p], p \in skipped)
  <1>1. NoNewer(acked[p], disk[p], Top)
    BY DEF Fresh, NoteOrdered
  <1>2. CASE acked'[p] = acked[p]
    BY <1>1, <1>2
  <1>3. CASE acked'[p] # acked[p]
    <2>1. PICK c : c = pass.by
      OBVIOUS
    <2>2. c \in Clients /\ pc[c] = "reindex" /\ WriterReturns(c, ok)
      BY <1>3, <2>1, EndPassIs DEF ViewerGoesOn, UploadReturns, told
    <2>3. PICK j : j = job[c]
      OBVIOUS
    <2>4. j \in Job /\ JobSound(c, j, "reindex")
      BY <2>2, <2>3, OwnJobSound
    <2>5. acked \in Snapshot
      BY DEF Typed, TypeOK
    <2>6. ok /\ p = j.path /\ acked'[p] \in {acked[p], j.since}
      BY <1>3, <2>2, <2>3, <2>5 DEF WriterReturns, Snapshot
    <2>7. acked'[p] = j.since
      BY <1>3, <2>6
    <2>8. NoNewer(j.since, disk[p], Top)
      BY <2>4, <2>6 DEF JobSound
    <2>9. RowOf(p) = None \/ Recent(RowOf(p), j.since, p \in skipped)
      BY <2>1, <2>2, <2>3, <2>6, OwnPassShows
    <2>10. QED
      BY <2>7, <2>8, <2>9 DEF Recent
  <1>4. QED
    BY <1>2, <1>3

LEMMA EndPassFresh ==
  ASSUME Typed, Typed', Fresh, pass # None, NEW ok \in BOOLEAN, EndPass(ok),
         UNCHANGED <<world, rows, ghosts>>,
         \/ ok /\ pass.stage = "publish" /\ vault' = pass.v
         \/ ~ok /\ pass.stage # "publish" /\ vault' = vault
  PROVE  Fresh'
  <1>1. Ages
    BY AgesUnchanged
  <1>2. SamePages
    BY SamePagesUnchanged
  <1>3. pass' = None /\ UNCHANGED pending
    BY EndPassIs
  <1>4. PassSound' /\ \A p \in Paths : DrawnSound(p)'
    BY <1>3 DEF PassSound, DrawnSound
  <1>5. \A c \in Clients : c # pass.by => pc'[c] = pc[c] /\ job'[c] = job[c]
    BY EndPassIs DEF WriterReturns, ViewerGoesOn, UploadReturns, Idle, Typed, TypeOK
  <1>6. \A c \in Clients : pc[c] = "plugins" => pc'[c] = "plugins"
    <2>1. pass.by \in Clients => pc[pass.by] # "plugins"
      BY DEF Typed, Owned
    <2>2. QED
      BY <1>5, <2>1
  <1>7. bg = "invalidate" => bg' = "invalidate"
    <2>1. ~up => bg = "off"
      BY DEF Typed, Owned
    <2>2. QED
      BY <2>1, EndPassIs DEF WriterReturns, ViewerGoesOn, UploadReturns
  <1>8. \A c \in Clients : pc[c] = "index" /\ At({"publish"}) /\ pass.by = c => pc'[c] = "plugins"
    <2>1. ASSUME NEW c \in Clients, pc[c] = "index", At({"publish"}), pass.by = c
          PROVE  pc'[c] = "plugins"
      <3>1. ok
        BY <2>1 DEF At
      <3>2. UploadReturns(c, ok)
        <4>1. "start" \notin Clients /\ "loop" \notin Clients /\ "background" \notin Clients
          BY IndexAssumption
        <4>2. c # "start"
          BY <4>1
        <4>3. up
          BY <2>1, <4>2 DEF Typed, Owned
        <4>4. QED
          BY <2>1, <4>1, <4>3, EndPassIs
      <3>3. pc' = [pc EXCEPT ![c] = "plugins"]
        BY <3>1, <3>2 DEF UploadReturns
      <3>4. QED
        BY <3>3 DEF Typed, TypeOK
    <2>2. QED
      BY <2>1
  <1>9. Owed => Owed'
    BY <1>3, <1>6, <1>7, <1>8 DEF Owed
  <1>10. ASSUME NEW p \in Paths
         PROVE  NoteOrdered(p)' /\ RowSound(p)' /\ RowRecent(p)'
    <2>1. NoteOrdered(p) /\ RowSound(p) /\ RowRecent(p)
      BY DEF Fresh
    <2>2. NoNewer(vault'[p], disk[p], Top)
      BY <2>1 DEF NoteOrdered
    <2>3. NoNewer(acked'[p], disk[p], Top)
          /\ (acked'[p] = acked[p] \/ Recent(RowOf(p), acked'[p], p \in skipped))
      BY AckedSound
    <2>4. NoteOrdered(p)'
      BY <1>1, <1>3, <2>1, <2>2, <2>3, NoteOrderedStays DEF NoteOrdered
    <2>5. RowSound(p)'
      <3>1. Excused(p) => Excused(p)'
        BY <1>9, ExcusedOf DEF ghosts
      <3>2. QED
        BY <1>1, <2>1, <3>1, RowSoundStays
    <2>6. vault'[p] = vault[p] \/ Recent(RowOf(p), vault'[p], p \in skipped)
      BY DEF Fresh, PassSound, Publishing
    <2>7. RowRecent(p)'
      BY <1>2, <2>1, <2>3, <2>6, RowRecentStays DEF ghosts
    <2>8. QED
      BY <2>4, <2>5, <2>7
  <1>11. ASSUME NEW c \in Clients
         PROVE  ClientSound(c)'
    <2>1. CASE c = pass.by
      <3>1. UNCHANGED <<rows, skipped>>
        BY DEF ghosts
      <3>2. QED
        BY <1>1, <2>1, <3>1, ReturnSound
    <2>2. CASE c # pass.by /\ pc[c] = "idle"
      BY <1>5, <2>2 DEF ClientSound
    <2>3. CASE c # pass.by /\ pc[c] # "idle"
      <3>1. PICK j, stage : j = job[c] /\ stage = pc[c]
        OBVIOUS
      <3>2. j \in Job /\ JobSound(c, j, stage)
        BY <2>3, <3>1, OwnJobSound
      <3>3. pc'[c] = stage /\ job'[c] = j
        BY <1>5, <2>3, <3>1
      <3>4. NoNewer(j.since, disk[j.path], Top)
            /\ (stage = "page" => Recent(RowOf(j.path), j.since, j.failed \/ j.path \in skipped))
            /\ (stage = "served" => j.got >= j.since \/ j.failed)
        BY <3>2 DEF JobSound
      <3>5. UNCHANGED <<rows, skipped>>
        BY DEF ghosts
      <3>6. QED
        BY <1>1, <1>3, <3>2, <3>3, <3>4, <3>5, EndedJob
    <2>4. QED
      BY <2>1, <2>2, <2>3
  <1>12. QED
    BY <1>4, <1>10, <1>11 DEF Fresh

LEMMA PublishFresh ==
  ASSUME Typed, Typed', Fresh, Publish
  PROVE  Fresh'
  <1>1. pass # None /\ pass.stage = "publish" /\ vault' = pass.v /\ EndPass(TRUE)
        /\ UNCHANGED <<world, rows, ghosts>>
    BY DEF Publish, At
  <1>2. QED
    BY <1>1, EndPassFresh

LEMMA PassFailsFresh ==
  ASSUME Typed, Typed', Fresh, PassFails
  PROVE  Fresh'
  <1>1. pass # None /\ pass.stage # "publish" /\ EndPass(FALSE)
        /\ UNCHANGED <<world, rows, vault, ghosts>>
    BY DEF PassFails, At
  <1>2. QED
    BY <1>1, EndPassFresh

\* The note of an upload is rendered, resolved with a snapshot that has it.
LEMMA UploadRendersFresh ==
  ASSUME Typed, Typed', UploadKept, Fresh, pass # None, UploadRenders(job[pass.by].path)
  PROVE  Fresh'
  <1>1. PICK p : p = job[pass.by].path
    OBVIOUS
  <1>2. /\ pass.stage = "uploadRender" /\ disk[p] # 0
        /\ UNCHANGED <<world, rows, vault, later, client, told, ghosts>>
    BY <1>1 DEF UploadRenders
  <1>3. Uploading /\ pass.by \in Clients /\ p \in Paths
    BY <1>1, <1>2, UploadPath
  <1>4. /\ pass' \in Pass /\ pass'.by = pass.by /\ pass'.stage = "uploadCommit" /\ pass'.v = pass.v
        /\ pass'.salt = pass.salt /\ pass'.batch = [pass.batch EXCEPT ![p] = Row(p, pass.v, 0)]
        /\ Rendered' = {p}
    BY <1>1, UploadRendersIs
  <1>5. pass' # None /\ pass.batch \in [Paths -> Rows \cup {None}] /\ pass.v[p] # 0
        /\ pass.v \in Snapshot /\ boards \in Nat
    BY <1>1, <1>3, <1>4, PassFields, NoneIs DEF Typed, TypeOK, UploadKept
  <1>6. 0 \in Nat /\ 0 <= boards
    BY <1>5
  <1>7. pass'.batch[p] = Row(p, pass.v, 0)
    BY <1>3, <1>4, <1>5
  <1>8. \A q \in Paths : q # p => pass'.batch[q] = None
    BY <1>4 DEF Rendered
  <1>9. ASSUME NEW q \in Paths
        PROVE  DrawnSound(q)'
    <2>1. CASE q = p
      BY <1>2, <1>3, <1>4, <1>5, <1>6, <1>7, <2>1, DrawnOfRow
    <2>2. CASE q # p
      BY <1>8, <2>2 DEF DrawnSound
    <2>3. QED
      BY <2>1, <2>2
  <1>10. PassSound'
    <2>1. \A q \in Paths \ {job[pass.by].path} : pass.v[q] = vault[q]
      BY <1>3 DEF Fresh, PassSound, Uploading
    <2>2. pass.salt <= boards
      BY DEF Fresh, PassSound
    <2>3. \A q \in Paths \ {job'[pass'.by].path} : pass'.v[q] = vault'[q]
      BY <1>2, <1>4, <2>1 DEF client
    <2>4. pass'.salt <= boards'
      BY <1>2, <1>4, <2>2 DEF world
    <2>5. QED
      BY <1>4, <2>3, <2>4 DEF PassSound
  <1>11. Owed => Owed'
    BY <1>2 DEF Owed, At, later, client
  <1>12. \A q \in Paths : NoNewer(pass'.v[q], disk[q], Top)
    BY <1>4 DEF Fresh, NoteOrdered
  <1>13. ASSUME NEW c \in Clients, pc[c] = "page", pass'.batch[job[c].path] # None
         PROVE  pass'.batch[job[c].path].html.body >= job[c].since
    <2>1. PICK q : q = job[c].path
      OBVIOUS
    <2>2. q \in Paths /\ NoNewer(job[c].since, disk[q], Top)
      BY <1>13, <2>1, JobType DEF Typed, Fresh, ClientSound, JobSound
    <2>3. q = p
      BY <1>8, <1>13, <2>1, <2>2
    <2>4. Row(p, pass.v, 0).html.body = disk[p]
      BY <1>2, <1>3, <1>5, <1>6, RowMade
    <2>5. QED
      BY <1>2, <1>7, <2>1, <2>2, <2>3, <2>4 DEF NoNewer
  <1>14. \A d \in Clients : pass'.by = d => pc[d] = "index"
    BY <1>3, <1>4 DEF Uploading
  <1>15. QED
    BY <1>2, <1>5, <1>9, <1>10, <1>11, <1>12, <1>13, <1>14, StageFresh

\* What the transaction of an upload does to the row of each note.
LEMMA UploadCommitsIs ==
  ASSUME SlugsDiffer, Typed, Typed', Fresh, pass # None,
         NEW p, p = job[pass.by].path, UploadCommits(p)
  PROVE  /\ p \in Paths /\ Uploading /\ Uploading' /\ Owed'
         /\ UNCHANGED <<world, vault, client, told, ghosts>>
         /\ pass' # None /\ pass'.by = pass.by /\ pass'.stage = "publish" /\ pass'.v = pass.v
         /\ pass'.salt = 0 /\ Rendered' = {}
         /\ \A q \in Paths : q # p => RowOf(q)' = RowOf(q)
         /\ pass.batch[p] # None /\ RowOf(p)' # None
         /\ RowOf(p)'.html = pass.batch[p].html
         /\ Made(RowOf(p)', p, disk, boards, Top)
  <1>1. p = job[pass.by].path
    OBVIOUS
  <1>2. PICK r : r = pass.batch[p]
    OBVIOUS
  <1>3. PICK row : row = [r EXCEPT !.hash.salt = boards]
    OBVIOUS
  <1>4. /\ pass.stage = "uploadCommit" /\ rows' = [rows EXCEPT ![Slug[p]] = row] /\ ToPublish
        /\ UNCHANGED <<world, vault, later, client, told, ghosts>>
    BY <1>1, <1>2, <1>3 DEF UploadCommits
  <1>5. /\ Uploading /\ pass.by \in Clients /\ p \in Paths /\ r \in Rows /\ r.hash # None
    BY <1>1, <1>2, <1>4, UploadPath
  <1>6. boards \in Nat
    BY DEF Typed, TypeOK
  <1>7. /\ row \in Rows /\ row.html = r.html /\ row.hash \in Hash
        /\ row.hash.body = r.hash.body /\ row.hash.deps = r.hash.deps /\ row.hash.salt = boards
    BY <1>3, <1>5, <1>6, SaltedType
  <1>8. row # None /\ r # None
    BY <1>5, <1>7, NoneIs
  <1>9. /\ pass' # None /\ pass'.by = pass.by /\ pass'.stage = "publish" /\ pass'.v = pass.v
        /\ pass'.salt = 0 /\ Rendered' = {}
    BY <1>4, ToPublishType, NoneIs
  <1>10. Uploading'
    BY <1>4, <1>5, <1>9 DEF Uploading, client
  <1>11. Owed'
    BY <1>9, <1>10 DEF Uploading, Owed, At
  <1>12. \A s \in Slugs : rows'[s] = IF s = Slug[p] THEN row ELSE rows[s]
    BY <1>4 DEF Typed, TypeOK
  <1>13. RowOf(p)' = row /\ \A q \in Paths : q # p => RowOf(q)' = RowOf(q)
    BY <1>5, <1>12, SlugsAre DEF RowOf, SlugsDiffer
  <1>14. Made(r, p, disk, boards, Top)
    BY <1>2, <1>5, <1>8 DEF Fresh, DrawnSound
  <1>15. Made(row, p, disk, boards, Top)
    BY <1>5, <1>6, <1>7, <1>14 DEF Made
  <1>16. QED
    BY <1>1, <1>2, <1>4, <1>5, <1>7, <1>8, <1>9, <1>10, <1>11, <1>13, <1>15

LEMMA UploadCommitsFresh ==
  ASSUME SlugsDiffer, Typed, Typed', Fresh, pass # None,
         NEW p, p = job[pass.by].path, UploadCommits(p)
  PROVE  Fresh'
  <1>1. p = job[pass.by].path
    OBVIOUS
  <1>2. /\ p \in Paths /\ Uploading /\ Uploading' /\ Owed'
        /\ UNCHANGED <<world, vault, client, told, ghosts>>
        /\ pass' # None /\ pass'.by = pass.by /\ pass'.stage = "publish" /\ pass'.v = pass.v
        /\ pass'.salt = 0 /\ Rendered' = {}
        /\ \A q \in Paths : q # p => RowOf(q)' = RowOf(q)
        /\ pass.batch[p] # None /\ RowOf(p)' # None
        /\ RowOf(p)'.html = pass.batch[p].html
        /\ Made(RowOf(p)', p, disk, boards, Top)
    BY <1>1, UploadCommitsIs
  <1>3. PICK row : row = RowOf(p)'
    OBVIOUS
  <1>4. row.html.body >= pass.v[p] /\ row.html.body >= vault[p] /\ row.html.body >= acked[p]
    BY <1>2, <1>3 DEF Fresh, DrawnSound
  <1>5. Ages
    BY <1>2, AgesUnchanged
  <1>6. \A q \in Paths : DrawnSound(q)' /\ pass'.batch[q] = None
    BY <1>2, NothingDrawn
  <1>7. Top' = Top /\ disk' = disk /\ boards' = boards
    BY <1>2 DEF Top, world
  <1>8. ASSUME NEW q \in Paths
        PROVE  NoteOrdered(q)' /\ RowSound(q)' /\ RowRecent(q)'
    <2>1. NoteOrdered(q) /\ RowSound(q) /\ RowRecent(q)
      BY DEF Fresh
    <2>2. vault'[q] = vault[q] /\ acked'[q] = acked[q] /\ pass'.v[q] = pass.v[q]
          /\ skipped' = skipped
      BY <1>2 DEF told, ghosts
    <2>3. NoteOrdered(q)'
      <3>1. NoNewer(disk[q], disk[q], Top) /\ NoNewer(vault'[q], disk[q], Top)
            /\ NoNewer(acked'[q], disk[q], Top) /\ NoNewer(pass'.v[q], disk[q], Top)
        BY <1>2, <2>1, <2>2 DEF NoteOrdered
      <3>2. QED
        BY <1>5, <3>1, NoteOrderedStays
    <2>4. RowSound(q)'
      <3>1. Made(RowOf(q)', q, disk, boards, Top) \/ RowOf(q)' = None
        BY <1>2, <2>1 DEF RowSound
      <3>2. Excused(q)'
        BY <1>2 DEF Excused
      <3>3. QED
        BY <1>7, <3>1, <3>2 DEF RowSound
    <2>5. RowRecent(q)'
      <3>1. CASE q = p
        BY <1>3, <1>4, <2>2, <3>1 DEF RowRecent, Recent
      <3>2. CASE q # p
        <4>1. RowOf(q)' = RowOf(q)
          BY <1>2, <3>2
        <4>2. QED
          BY <2>1, <2>2, <4>1 DEF RowRecent
      <3>3. QED
        BY <3>1, <3>2
    <2>6. QED
      BY <2>3, <2>4, <2>5
  <1>9. ASSUME NEW c \in Clients, pc[c] # "idle"
        PROVE  ClientSound(c)'
    <2>1. PICK j, stage : j = job[c] /\ stage = pc[c]
      OBVIOUS
    <2>2. JobSound(c, j, stage) /\ j.path \in Paths /\ j.since \in Nat
      BY <1>9, <2>1, JobType DEF Fresh, ClientSound, Typed
    <2>3. PICK q : q = j.path
      OBVIOUS
    <2>4. NoNewer(j.since, disk'[q], Top')
      BY <1>5, <2>2, <2>3, NoNewerStays DEF JobSound
    <2>5. stage = "page" => Recent(RowOf(q)', j.since, j.failed \/ q \in skipped')
      <3>1. CASE q = p
        <4>1. stage = "page" => row.html.body >= j.since
          BY <1>2, <1>3, <2>2, <2>3, <3>1 DEF JobSound
        <4>2. QED
          BY <1>3, <3>1, <4>1 DEF Recent
      <3>2. CASE q # p
        <4>1. RowOf(q)' = RowOf(q) /\ skipped' = skipped
          BY <1>2, <2>2, <2>3, <3>2 DEF ghosts
        <4>2. QED
          BY <2>2, <2>3, <4>1 DEF JobSound
      <3>3. QED
        BY <3>1, <3>2
    <2>6. JobSound(c, j, stage)'
      BY <1>2, <1>6, <2>2, <2>3, <2>4, <2>5 DEF JobSound
    <2>7. pc'[c] = stage /\ job'[c] = j
      BY <1>2, <2>1 DEF client
    <2>8. QED
      BY <2>6, <2>7 DEF ClientSound
  <1>10. \A q \in Paths \ {p} : pass.v[q] = vault[q]
    BY <1>1, <1>2 DEF Fresh, PassSound
  <1>11. PassSound'
    <2>1. ASSUME NEW q \in Paths
          PROVE  Recent(RowOf(q)', pass'.v[q], q \in skipped')
      <3>1. CASE q = p
        BY <1>2, <1>3, <1>4, <3>1 DEF Recent
      <3>2. CASE q # p
        <4>1. RowOf(q)' = RowOf(q) /\ skipped' = skipped /\ pass'.v[q] = vault[q]
          BY <1>2, <1>10, <3>2 DEF ghosts
        <4>2. QED
          BY <4>1 DEF Fresh, RowRecent
      <3>3. QED
        BY <3>1, <3>2
    <2>2. Publishing'
      BY <1>2, <2>1 DEF Publishing
    <2>3. 0 <= boards'
      BY DEF Typed, TypeOK
    <2>4. \A q \in Paths \ {job'[pass'.by].path} : pass'.v[q] = vault'[q]
      BY <1>1, <1>2, <1>10 DEF client
    <2>5. QED
      BY <1>2, <2>2, <2>3, <2>4 DEF PassSound
  <1>12. \A c \in Clients : ClientSound(c)'
    BY <1>2, <1>9 DEF ClientSound, client
  <1>13. QED
    BY <1>6, <1>8, <1>11, <1>12 DEF Fresh

LEMMA IndexNoteFresh ==
  ASSUME SlugsDiffer, Typed, Typed', UploadKept, Fresh, IndexNote
  PROVE  Fresh'
  <1>1. PICK p : p = job[pass.by].path
    OBVIOUS
  <1>2. pass # None /\ (UploadRenders(p) \/ UploadFindsNothing(p) \/ UploadCommits(p))
    BY <1>1, IndexNoteIs
  <1>3. CASE UploadRenders(p)
    BY <1>1, <1>2, <1>3, UploadRendersFresh
  <1>4. CASE UploadFindsNothing(p)
    <2>1. EndPass(FALSE) /\ pass.stage # "publish" /\ UNCHANGED <<world, rows, vault, ghosts>>
      BY <1>4 DEF UploadFindsNothing
    <2>2. QED
      BY <1>2, <2>1, EndPassFresh
  <1>5. CASE UploadCommits(p)
    BY <1>1, <1>2, <1>5, UploadCommitsFresh
  <1>6. QED
    BY <1>2, <1>3, <1>4, <1>5

LEMMA CrashFresh ==
  ASSUME Typed, Typed', Fresh, Crash
  PROVE  Fresh'
  <1>1. /\ pass' = None /\ vault' = Nothing /\ pc' = [c \in Clients |-> "idle"]
        /\ dropped' = IF Owed THEN Paths ELSE dropped
        /\ UNCHANGED <<world, rows, told, skipped>>
    BY DEF Crash
  <1>2. Ages
    BY <1>1, AgesUnchanged
  <1>3. PassSound' /\ (\A p \in Paths : DrawnSound(p)') /\ \A c \in Clients : ClientSound(c)'
    BY <1>1 DEF PassSound, DrawnSound, ClientSound
  <1>4. ASSUME NEW p \in Paths
        PROVE  NoteOrdered(p)' /\ RowSound(p)' /\ RowRecent(p)'
    <2>1. NoteOrdered(p) /\ RowSound(p) /\ RowRecent(p)
      BY DEF Fresh
    <2>2. vault'[p] = 0 /\ acked'[p] = acked[p] /\ rows' = rows /\ skipped' = skipped
      BY <1>1 DEF Nothing, told
    <2>3. NoNewer(0, disk[p], Top)
      BY <1>2, ZeroIsNoNewer
    <2>4. NoteOrdered(p)'
      BY <1>1, <1>2, <2>1, <2>2, <2>3, NoteOrderedStays DEF NoteOrdered
    <2>5. Excused(p) => Excused(p)'
      <3>1. dropped \subseteq Paths
        BY DEF Typed, TypeOK
      <3>2. QED
        BY <1>1, <3>1 DEF Excused
    <2>6. RowSound(p)'
      BY <1>2, <2>1, <2>2, <2>5, RowSoundStays
    <2>7. SamePages
      BY <2>2, SamePagesUnchanged
    <2>8. RowRecent(p)'
      BY <2>1, <2>2, <2>7, RowRecentStays
    <2>9. QED
      BY <2>4, <2>6, <2>8
  <1>5. QED
    BY <1>3, <1>4 DEF Fresh

LEMMA InitFresh ==
  ASSUME Init
  PROVE  Fresh
  <1>1. pass = None /\ pc = [c \in Clients |-> "idle"] /\ rows = [s \in Slugs |-> None]
        /\ vault = Nothing /\ acked = Nothing /\ events = 0
        /\ disk = [p \in Paths |-> IF p \in Existing THEN p ELSE 0]
    BY DEF Init
  <1>2. Top = Max(Paths) /\ Top \in Nat
    BY <1>1, MaxPaths DEF Top
  <1>3. ASSUME NEW p \in Paths
        PROVE  NoteOrdered(p) /\ RowSound(p) /\ RowRecent(p) /\ DrawnSound(p)
    <2>1. RowOf(p) = None
      BY <1>1, SlugsAre DEF RowOf
    <2>2. disk[p] \in {p, 0} /\ vault[p] = 0 /\ acked[p] = 0 /\ p \in Nat /\ p <= Top
      BY <1>1, <1>2, MaxPaths DEF Nothing
    <2>3. NoteOrdered(p)
      BY <1>1, <1>2, <2>2 DEF NoteOrdered, NoNewer
    <2>4. QED
      BY <1>1, <2>1, <2>3 DEF RowSound, RowRecent, Recent, DrawnSound
  <1>4. QED
    BY <1>1, <1>3 DEF Fresh, PassSound, ClientSound

LEMMA NextFresh ==
  ASSUME SlugsDiffer, Typed, Typed', UploadKept, Fresh, [Next]_vars
  PROVE  Fresh'
  BY StepIs, EditFresh, RescanFresh, DiffFresh, RenderNoteFresh, CommitFresh, PublishFresh,
     PassFailsFresh, IndexNoteFresh, ServePageFresh, IndexUploadFresh, RequestFresh,
     BackgroundFresh, CrashFresh, StutterFresh

LEMMA AlwaysFresh ==
  ASSUME SlugsDiffer
  PROVE  Spec => [](Typed /\ Fresh)
  <1>1. Init => Typed /\ UploadKept /\ Fresh
    BY InitTyped, InitKept, InitFresh
  <1>2. Typed /\ UploadKept /\ Fresh /\ [Next]_vars => (Typed /\ UploadKept /\ Fresh)'
    BY NextTyped, NextKept, NextFresh
  <1>3. QED
    BY <1>1, <1>2, PTL DEF Spec

\* The hash of a row that is up to date is what the row was made of.
LEMMA HashTellsPage ==
  ASSUME Typed, SlugsDiffer, NEW p \in Paths, RowSound(p), disk[p] # 0, RowOf(p) # None,
         RowOf(p).hash = VersionedHash(disk, p, boards), Indexed = SlugsOf(disk)
  PROVE  RowOf(p).html = RenderBody(p, disk) \/ Excused(p)
  <1>1. PICK r : r = RowOf(p)
    OBVIOUS
  <1>2. r \in Rows /\ disk \in Snapshot /\ boards \in Nat
    BY <1>1, RowsType DEF Typed, TypeOK, RowOf
  <1>3. r.hash # None /\ r.html \in Page
    <2>1. VersionedHash(disk, p, boards) \in Hash
      BY <1>2, VersionedHashType
    <2>2. QED
      BY <1>1, <1>2, <2>1, NoneIs DEF Rows
  <1>4. r.hash.body = disk[p] /\ r.hash.deps = OnlyOf(Embeds[p], disk) /\ r.hash.salt = boards
    BY <1>1 DEF VersionedHash
  <1>5. Made(r, p, disk, boards, Top)
        /\ ((r.hash.salt <= r.html.boards /\ r.html.links = LinksIndexed(p)) \/ Excused(p))
    BY <1>1, <1>3 DEF RowSound
  <1>6. r.html.body = disk[p]
    BY <1>3, <1>4, <1>5 DEF Made
  <1>7. r.html.embeds = OnlyOf(Embeds[p] \cap Present(disk), disk)
    <2>1. \A e \in Paths : r.hash.deps[e] = IF e \in Embeds[p] THEN disk[e] ELSE 0
      BY <1>4 DEF OnlyOf
    <2>2. \A e \in Paths : r.html.embeds[e] = IF e \in Embeds[p] THEN disk[e] ELSE 0
      BY <1>3, <1>5, <2>1 DEF Made
    <2>3. \A e \in Paths : r.html.embeds[e] = IF e \in Embeds[p] \cap Present(disk)
                                              THEN disk[e] ELSE 0
      BY <2>2 DEF Present
    <2>4. r.html.embeds \in [Paths -> Nat]
      BY <1>3 DEF Page, Snapshot
    <2>5. QED
      BY <2>3, <2>4 DEF OnlyOf
  <1>8. ASSUME ~Excused(p)
        PROVE  r.html.links = Links[p] \cap Present(disk) /\ r.html.boards = boards
    <2>1. \A q \in Paths : Slug[q] \in SlugsOf(disk) <=> q \in Present(disk)
      BY SlugIsItsOwn DEF SlugsOf, Present
    <2>2. Links[p] \subseteq Paths
      BY IndexAssumption
    <2>3. LinksIndexed(p) = Links[p] \cap Present(disk)
      BY <2>1, <2>2 DEF LinksIndexed
    <2>4. r.html.boards \in Nat /\ boards <= r.html.boards /\ r.html.boards <= boards
      BY <1>2, <1>3, <1>4, <1>5, <1>8, RowFields DEF Made
    <2>5. QED
      BY <1>2, <1>5, <1>8, <2>3, <2>4
  <1>9. CASE ~Excused(p)
    <2>1. RenderBody(p, disk) \in Page /\ RenderBody(p, disk).body = disk[p]
          /\ RenderBody(p, disk).embeds = OnlyOf(Embeds[p] \cap Present(disk), disk)
          /\ RenderBody(p, disk).links = Links[p] \cap Present(disk)
          /\ RenderBody(p, disk).boards = boards
      <3>1. disk[p] \in Nat /\ OnlyOf(Embeds[p] \cap Present(disk), disk) \in Snapshot
            /\ Links[p] \cap Present(disk) \in SUBSET Paths
        BY <1>2 DEF Snapshot, OnlyOf, Present
      <3>2. QED
        BY <1>2, <3>1 DEF RenderBody, Page
    <2>2. r.html = RenderBody(p, disk)
      BY <1>3, <1>6, <1>7, <1>8, <1>9, <2>1 DEF Page
    <2>3. QED
      BY <1>1, <2>2
  <1>10. QED
    BY <1>9

\* With a slug of its own for every note, a page that is not what its note, what
\* it transcludes, its links and the boards would give now has a stale hash, or
\* a pass that renders everything is due, or its rendering was passed over: what
\* the comparison of hashes in reconcile and the InvalidateRenderCache after an
\* upload are for.
THEOREM IndexStaleIsNoticed ==
  ASSUME SlugsDiffer
  PROVE  Spec => []StaleIsNoticed
  <1>1. ASSUME Typed, Fresh
        PROVE  StaleIsNoticed
    <2>1. SUFFICES ASSUME NEW p \in Present(disk), ~Noticed(p)
                   PROVE  UpToDate(p) \/ Excused(p)
      BY DEF StaleIsNoticed, Excused
    <2>2. p \in Paths /\ disk[p] # 0
      BY DEF Present
    <2>3. Indexed = SlugsOf(disk) /\ RowOf(p).hash = VersionedHash(disk, p, boards)
      BY <2>1 DEF Noticed, RowOf
    <2>4. RowOf(p) # None
      BY <2>2, <2>3 DEF SlugsOf, Indexed, RowOf
    <2>5. RowSound(p)
      BY <1>1, <2>2 DEF Fresh
    <2>6. RowOf(p).html = RenderBody(p, disk) \/ Excused(p)
      BY <1>1, <2>2, <2>3, <2>4, <2>5, HashTellsPage
    <2>7. QED
      BY <2>4, <2>6 DEF UpToDate, RowOf
  <1>2. Spec => [](Typed /\ Fresh)
    BY AlwaysFresh
  <1>3. QED
    BY <1>1, <1>2, PTL

\* With a slug of its own for every note, the row of a note that a client was told
\* is written has that version or a newer one, unless its last rendering was
\* passed over: what reindexing under the writer's lock before the answer is for.
THEOREM IndexAcknowledgedIsIndexed ==
  ASSUME SlugsDiffer
  PROVE  Spec => []AcknowledgedIsIndexed
  <1>1. Fresh => AcknowledgedIsIndexed
    BY DEF Fresh, RowRecent, Recent, AcknowledgedIsIndexed, RowOf
  <1>2. Spec => [](Typed /\ Fresh)
    BY AlwaysFresh
  <1>3. QED
    BY <1>1, <1>2, PTL

\* With a slug of its own for every note, a page is not older than the note was
\* when its view began, unless the rescan it asked for has failed: what comparing
\* the file with the snapshot before serving is for.
THEOREM IndexServedIsCurrent ==
  ASSUME SlugsDiffer
  PROVE  Spec => []ServedIsCurrent
  <1>1. Fresh => ServedIsCurrent
    BY DEF Fresh, ClientSound, JobSound, ServedIsCurrent
  <1>2. Spec => [](Typed /\ Fresh)
    BY AlwaysFresh
  <1>3. QED
    BY <1>1, <1>2, PTL

=============================================================================
