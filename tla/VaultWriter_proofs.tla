------------------------- MODULE VaultWriter_proofs -------------------------
(***************************************************************************)
(* Theorems about the writers of a note: the types, that nothing saved is  *)
(* lost, that a task or its card is always there, and that a move is not   *)
(* repeated by accident.                                                   *)
(*                                                                         *)
(* The inductive invariant says, for each stage of a replacement, what the *)
(* note and the temporary file carry of the versions the writer knows.     *)
(***************************************************************************)
EXTENDS VaultWriter, TLAPS

-----------------------------------------------------------------------------
(* The invariant.                                                          *)

\* From the check of the note to the last call.
Busy == Replacing \cup
  {"card", "uncreate", "reindex", "publish", "dispose", "verify", "undispose"}

\* A writer has a temporary file; it has the file it displaced.
Swapped == {"inspect", "unlink", "back", "inspectBack", "unlinkBack"}

Holding == {"exchange", "publish"} \cup Swapped

Disposing == {"dispose", "verify", "undispose"}

\* The lock, the stages and the temporary files belong together.
Owned(p) ==
  /\ pc[p] = "idle" <=> job[p] = None
  /\ pc[p] \in Busy \cup {"ok"} => lock = p
  /\ lock = p => pc[p] \notin {"idle", "waiting"}
  /\ pc[p] = "waiting" => job[p].step = "commit"
  /\ job[p] # None /\ lock # p => job[p].src = None
  /\ file[p] # None <=> pc[p] \in Holding
  /\ fd = p => pc[p] \in Swapped

\* What the writer that holds the lock knows of its request at each stage.
Shaped(stage, j) ==
  /\ j.src = None => j.kind = "write"
  /\ j.kind = "move" => j.src.line = "open"
  /\ j.updated = Rewritten(j, j.src)
  /\ j.step # "commit" => j.kind = "move" /\ stage \in Replacing \cup {"uncreate", "error"}
  /\ stage \in {"card", "uncreate"} => j.kind = "move"
  /\ stage = "uncreate" => j.step # "reapply"
  /\ stage = "publish" => j.src = None
  /\ stage \in Replacing \ {"temp"} => j.src # None
  /\ stage \in Disposing => j.kind = "dispose"
  /\ j.kind = "dispose" => stage \in Disposing \cup {"reindex", "ok", "error"}

Disciplined ==
  /\ \A p \in Procs : Owned(p)
  /\ \A p \in Procs : lock = p => Shaped(pc[p], job[p])
  /\ fd \in Places => file[fd] # None

\* File f has what version v has: its edits, but those that were knowingly
\* replaced, and its task, but when the editor took that away.
Follows(w, v) == dropped \/ w.line = "open" \/ SameTask(w, v)

Carries(f, v) ==
  /\ file[f] # None
  /\ v.edits \subseteq file[f].edits \cup overwritten
  /\ Follows(file[f], v)

\* A version with nothing added to it but results of plugins.
Grown(w, v) == SameTask(w, v) /\ w.edits \subseteq v.edits \cup ({"append"} \X Nat)

\* Some copy has the task as open, or as version v has it.
SomeFollows(v) == dropped \/ \E w \in Copies : Follows(w, v)

CarriedAt(p, stage, j) ==
  /\ stage \in {"card", "temp", "exchange"} /\ j.src # None => Carries("note", Expected(j))
  /\ stage \in {"exchange", "publish"} => file[p] = Prepared(j)
  /\ stage \in {"inspect", "unlink", "back"} =>
       Carries(p, Expected(j)) /\ Carries("note", Prepared(j))
  /\ stage = "unlink" => Grown(file[p], Expected(j))
  /\ stage \in {"inspectBack", "unlinkBack"} => Carries("note", Expected(j))
  /\ stage = "unlinkBack" => Grown(file[p], Prepared(j))
  /\ stage = "current" => file["note"] # None /\ SomeFollows(Expected(j))
  /\ stage \in {"reindex", "ok"} /\ j.kind # "dispose" => Carries("note", j.updated)
  /\ stage = "uncreate" => SomeFollows(j.src)
  /\ stage = "uncreate" /\ j.step = "restore" => Carries("note", j.src)
  /\ j.kind = "move" /\ stage \in Replacing \cup {"uncreate", "reindex"} => CardOf(j) \in cards

\* Only edits of the editor and of clients are ever promised, and a client's
\* only when its request has ended.
Promised ==
  /\ saved \cap ({"append"} \X Nat) = {}
  /\ \A p \in Procs : job[p] # None => <<"op", job[p].op>> \notin saved

Numbered ==
  /\ \A p \in Procs : job[p] # None => job[p].op <= ops
  /\ \A p, q \in Procs : p # q /\ job[p] # None /\ job[q] # None => job[p].op # job[q].op
  /\ \A e \in saved : e[1] = "op" => e[2] <= ops

Secure ==
  /\ Promised /\ Numbered
  /\ NothingSavedIsLost /\ TaskOrCard
  /\ \A p \in Procs : lock = p => CarriedAt(p, pc[p], job[p])

\* An edit that has not been made is in no version anybody has.
Unmade(e) ==
  /\ \A f \in Places : file[f] # None => e \notin file[f].edits
  /\ buffer # None => e \notin buffer.edits
  /\ \A c \in cards : e \notin c.from.edits
  /\ \A p \in Procs : job[p] # None /\ job[p].src # None => e \notin job[p].src.edits

Unused ==
  /\ \A n \in Nat : n > saves => Unmade(<<"save", n>>)
  /\ \A n \in Nat : n > appends => Unmade(<<"append", n>>)
  /\ \A n \in Nat : n > ops => Unmade(<<"op", n>>)
  /\ \A p \in Procs : job[p] # None /\ lock # p => Unmade(<<"op", job[p].op>>)

\* A card is known by its request.
Issued(p, c) ==
  /\ job[p] # None => <<"op", job[p].op>> \notin c.from.edits
  /\ job[p] # None /\ c.op = job[p].op =>
       c = CardOf(job[p]) /\ job[p].kind = "move" /\ pc[p] \notin {"waiting", "card"}

Settled(c) == ~Working(c) /\ c.op \notin abandoned

\* The version a settled card was made from is none that can become the note.
Past(p, c) ==
  /\ file[p] # c.from /\ job[p].src # c.from /\ job[p].updated # c.from
  /\ pc[p] \in {"verify", "undispose"} => file["archive"] # c.from

Retired ==
  /\ \A c \in cards : c.from.line = "open" /\ c.op <= ops
  /\ \A p \in Procs, c \in cards : Issued(p, c)
  /\ \A p \in Procs : lock = p /\ job[p].src # None => <<"op", job[p].op>> \notin job[p].src.edits
  /\ faults <= 1 => \A c \in cards : Settled(c) =>
       file["note"] # c.from /\ \A p \in Procs : lock = p => Past(p, c)

\* As many calls have failed as brought the move to its step.
NoneFailed(j) == faults <= IF j.step = "reapply" THEN 1 ELSE 0

\* Where the version the mover read can be, and cannot, in a move.
NotBackAt(p, stage, j) ==
  LET note == file["note"] # j.src
      temp == file[p] # j.src
  IN
  /\ j.step = "reapply" => faults >= 1
  /\ j.step # "restore" =>
       /\ stage \in {"inspect", "unlink", "back", "reindex", "ok"} => note
       /\ stage = "back" /\ NoneFailed(j) => temp
       /\ stage \in {"inspectBack", "unlinkBack", "current", "uncreate"} /\ NoneFailed(j) => note
  /\ j.step = "restore" =>
       /\ stage \in {"temp", "exchange", "inspectBack", "unlinkBack"} => note
       /\ stage \in {"inspect", "unlink", "back"} => temp
       /\ stage = "current" /\ NoneFailed(j) => note
  /\ stage = "error" /\ faults <= 1 /\ CardOf(j) \in cards => note

NotRepeated ==
  /\ Unused /\ Retired
  /\ \A p \in Procs : lock = p /\ job[p].kind = "move" => NotBackAt(p, pc[p], job[p])

-----------------------------------------------------------------------------
(* Types and discipline.                                                   *)

Typed == TypeOK /\ Disciplined

LEMMA PlacesDiffer ==
  /\ "note" \notin Procs /\ "archive" \notin Procs
  /\ "preserved" \notin Places /\ "removed" \notin Places
  /\ {"note", "archive"} \subseteq Places /\ Procs \subseteq Places
  /\ None \notin Procs /\ None \notin Places
  BY VaultAssumption DEF Places

LEMMA VersionsAndNone ==
  /\ None \notin Version /\ None \notin Job
  /\ Original \in Version
  BY NoneIsNoRecord DEF Version, Original

LEMMA EditedVersion ==
  ASSUME NEW v \in Version, NEW o \in {"op", "save", "append"}, NEW n \in Nat
  PROVE  /\ Edit(v, o, n) \in Version
         /\ Edit(v, o, n).edits = v.edits \cup {<<o, n>>}
         /\ SameTask(Edit(v, o, n), v) /\ Edit(v, o, n).line = v.line
  BY DEF Edit, Version, Edits, SameTask

LEMMA RewrittenVersion ==
  ASSUME NEW j \in Job, NEW src \in Version \cup {None}, src = None => j.kind = "write"
  PROVE  /\ Rewritten(j, src) \in Version
         /\ j.kind \in {"edit", "move", "dispose"} => src.edits \subseteq Rewritten(j, src).edits
         /\ Rewritten(j, src).edits \subseteq
              (IF src = None THEN {} ELSE src.edits) \cup {<<"op", j.op>>}
         /\ j.kind \in {"edit", "write"} => <<"op", j.op>> \in Rewritten(j, src).edits
         /\ j.kind \in {"edit", "dispose"} => SameTask(Rewritten(j, src), src)
         /\ j.kind = "move" => /\ Rewritten(j, src).line = "reference"
                               /\ Rewritten(j, src).card = j.op
                               /\ Rewritten(j, src).edits = src.edits
         /\ j.kind = "write" => /\ Rewritten(j, src).line = "none"
                                /\ Rewritten(j, src).edits = {<<"op", j.op>>}
  <1>1. j.kind \in Kinds /\ j.op \in Nat
    BY DEF Job
  <1>2. CASE j.kind = "write"
    BY <1>1, <1>2 DEF Rewritten, Version, Edits
  <1>3. CASE j.kind = "edit"
    BY <1>1, <1>3, EditedVersion DEF Rewritten
  <1>4. CASE j.kind = "move"
    BY <1>1, <1>4 DEF Rewritten, Version
  <1>5. CASE j.kind = "dispose"
    BY <1>1, <1>5 DEF Rewritten, SameTask
  <1>6. QED
    BY <1>1, <1>2, <1>3, <1>4, <1>5 DEF Kinds

\* What the writer of p does with the files leaves those of the others alone.
Handled(p, stage) ==
  /\ file' \in [Places -> Version \cup {None}]
  /\ preserved' \subseteq Version
  /\ fd' \in Places \cup {"preserved", "removed", None}
  /\ fd' \in Places => file'[fd'] # None
  /\ \A q \in Procs \ {p} : file'[q] = file[q] /\ (fd' = q => fd = q)
  /\ file'[p] # None <=> stage \in Holding
  /\ fd' = p => stage \in Swapped

LEMMA WriterTyped ==
  ASSUME Typed, NEW p \in Procs, lock = p, NEW stage \in Stages \ {"idle", "waiting"},
         NEW j \in Job, Goto(p, stage), job' = [job EXCEPT ![p] = j],
         Handled(p, stage), Shaped(stage, j),
         cards' \subseteq Card, overwritten' \subseteq Edits, dropped' \in BOOLEAN,
         faults' \in Nat, saved' = saved, Quiet
  PROVE  Typed'
  <1>1. /\ pc' \in [Procs -> Stages] /\ pc'[p] = stage
        /\ \A q \in Procs \ {p} : pc'[q] = pc[q]
    BY DEF Typed, TypeOK, Goto
  <1>2. /\ job' \in [Procs -> Job \cup {None}] /\ job'[p] = j /\ j # None
        /\ \A q \in Procs \ {p} : job'[q] = job[q]
    BY VersionsAndNone DEF Typed, TypeOK
  <1>3. TypeOK'
    BY <1>1, <1>2 DEF Typed, TypeOK, Quiet, editor, plugin, Handled
  <1>4. \A q \in Procs : Owned(q)'
    <2>1. Owned(p)'
      BY <1>1, <1>2 DEF Quiet, Handled, Owned
    <2>2. ASSUME NEW q \in Procs \ {p}
          PROVE  Owned(q)'
      <3>1. Owned(q) /\ pc'[q] = pc[q] /\ job'[q] = job[q] /\ lock' = lock
        BY <1>1, <1>2 DEF Typed, Disciplined, Quiet
      <3>2. file'[q] = file[q] /\ (fd' = q => fd = q)
        BY DEF Handled
      <3>3. QED
        BY <3>1, <3>2 DEF Owned
    <2>3. QED
      BY <2>1, <2>2
  <1>5. \A q \in Procs : lock' = q => Shaped(pc[q], job[q])'
    <2>1. Shaped(pc[p], job[p])'
      BY <1>1, <1>2 DEF Shaped
    <2>2. QED
      BY <2>1 DEF Quiet
  <1>6. QED
    BY <1>3, <1>4, <1>5 DEF Typed, Disciplined, Handled

\* What each way of handling the temporary file does, stage by stage.
LEMMA KeepHandled ==
  ASSUME Typed, NEW p \in Procs, NEW stage, UNCHANGED files,
         pc[p] \in Holding <=> stage \in Holding,
         fd = p => stage \in Swapped
  PROVE  Handled(p, stage)
  BY DEF Typed, TypeOK, Disciplined, Owned, files, Handled

LEMMA RemoveHandled ==
  ASSUME Typed, NEW p \in Procs, NEW stage, stage \notin Holding, Remove(p)
  PROVE  /\ Handled(p, stage)
         /\ file' = [file EXCEPT ![p] = None] /\ file'[p] = None
         /\ file'["note"] = file["note"] /\ file'["archive"] = file["archive"]
         /\ \A f \in Places \ {p} : file'[f] = file[f]
         /\ preserved' = preserved
  <1>1. /\ file' = [file EXCEPT ![p] = None]
        /\ fd' = IF fd = p THEN "removed" ELSE fd
        /\ preserved' = preserved
    BY DEF Remove, Follow
  <1>2. \A f \in Places \ {p} : file'[f] = file[f]
    BY <1>1 DEF Typed, TypeOK
  <1>3. /\ file' \in [Places -> Version \cup {None}] /\ file'[p] = None
        /\ preserved' \subseteq Version
    BY <1>1, PlacesDiffer DEF Typed, TypeOK
  <1>4. fd' \in Places \cup {"preserved", "removed", None} /\ fd' # p
    BY <1>1, PlacesDiffer DEF Typed, TypeOK
  <1>5. fd' \in Places => file'[fd'] # None
    BY <1>1, <1>2, <1>4, PlacesDiffer DEF Typed, Disciplined
  <1>6. QED
    BY <1>1, <1>2, <1>3, <1>4, <1>5, PlacesDiffer DEF Handled

LEMMA LeaveHandled ==
  ASSUME Typed, NEW p \in Procs, NEW stage, stage \notin Holding, Leave(p)
  PROVE  /\ Handled(p, stage)
         /\ file' = [file EXCEPT ![p] = None] /\ file'[p] = None
         /\ file'["note"] = file["note"] /\ file'["archive"] = file["archive"]
         /\ \A f \in Places \ {p} : file'[f] = file[f]
         /\ preserved' = IF file[p] = None THEN preserved ELSE preserved \cup {file[p]}
  <1>1. /\ file' = [file EXCEPT ![p] = None]
        /\ fd' = IF fd = p THEN "preserved" ELSE fd
        /\ preserved' = IF file[p] = None THEN preserved ELSE preserved \cup {file[p]}
    BY DEF Leave, Follow
  <1>2. \A f \in Places \ {p} : file'[f] = file[f]
    BY <1>1 DEF Typed, TypeOK
  <1>3. /\ file' \in [Places -> Version \cup {None}] /\ file'[p] = None
        /\ preserved' \subseteq Version
    BY <1>1, PlacesDiffer DEF Typed, TypeOK
  <1>4. fd' \in Places \cup {"preserved", "removed", None} /\ fd' # p
    BY <1>1, PlacesDiffer DEF Typed, TypeOK
  <1>5. fd' \in Places => file'[fd'] # None
    BY <1>1, <1>2, <1>4, PlacesDiffer DEF Typed, Disciplined
  <1>6. QED
    BY <1>1, <1>2, <1>3, <1>4, <1>5, PlacesDiffer DEF Handled

LEMMA SwapHandled ==
  ASSUME Typed, NEW p \in Procs, NEW stage, stage \in Swapped, Swap(p),
         file["note"] # None, file[p] # None
  PROVE  /\ Handled(p, stage)
         /\ file'["note"] = file[p] /\ file'[p] = file["note"] /\ file'["archive"] = file["archive"]
         /\ \A f \in Places \ {p, "note"} : file'[f] = file[f]
         /\ preserved' = preserved
  <1>1. /\ file' = [file EXCEPT !["note"] = file[p], ![p] = file["note"]]
        /\ fd' = CASE fd = "note" -> p [] fd = p -> "note" [] OTHER -> fd
        /\ preserved' = preserved
    BY DEF Swap
  <1>2. /\ \A f \in Places \ {p, "note"} : file'[f] = file[f]
        /\ file'["note"] = file[p] /\ file'[p] = file["note"]
        /\ file' \in [Places -> Version \cup {None}]
    BY <1>1, PlacesDiffer DEF Typed, TypeOK
  <1>3. /\ fd' \in Places \cup {"preserved", "removed", None}
        /\ fd' \in Places \ {p, "note"} => fd' = fd
    BY <1>1, PlacesDiffer DEF Typed, TypeOK
  <1>4. fd' \in Places => file'[fd'] # None
    BY <1>2, <1>3 DEF Typed, Disciplined
  <1>5. QED
    BY <1>1, <1>2, <1>3, <1>4, PlacesDiffer DEF Handled, Typed, TypeOK, Holding

\* A file that is renamed, and the file that is made.
LEMMA RenameHandled ==
  ASSUME Typed, NEW p \in Procs, NEW stage, NEW from \in {"note", "archive", p},
         NEW to \in {"note", "archive"}, from # to, RenameTo(from, to),
         file[from] # None, file[to] = None, stage \notin Holding,
         pc[p] \in Holding <=> from = p
  PROVE  /\ Handled(p, stage)
         /\ file'[to] = file[from] /\ file'[from] = None
         /\ \A f \in Places \ {from, to} : file'[f] = file[f]
         /\ preserved' = preserved
  <1>1. /\ file' = [file EXCEPT ![from] = None, ![to] = file[from]]
        /\ fd' = IF fd = from THEN to ELSE fd
        /\ preserved' = preserved
    BY DEF RenameTo, Follow
  <1>2. /\ \A f \in Places \ {from, to} : file'[f] = file[f]
        /\ file'[to] = file[from] /\ file'[from] = None
        /\ file' \in [Places -> Version \cup {None}]
    BY <1>1, PlacesDiffer DEF Typed, TypeOK
  <1>3. fd' \in Places \cup {"preserved", "removed", None} /\ (fd' # to => fd' = fd) /\ fd' # from
    BY <1>1, PlacesDiffer DEF Typed, TypeOK
  <1>4. fd' \in Places => file'[fd'] # None
    BY <1>2, <1>3 DEF Typed, Disciplined
  <1>5. Owned(p)
    BY DEF Typed, Disciplined
  <1>6. file'[p] = None
    BY <1>2, <1>5, PlacesDiffer DEF Owned
  <1>7. fd' # p
    BY <1>3, <1>5, PlacesDiffer DEF Owned, Holding, Swapped
  <1>8. QED
    BY <1>1, <1>2, <1>3, <1>4, <1>6, <1>7, PlacesDiffer DEF Handled, Typed, TypeOK

LEMMA CreateHandled ==
  ASSUME Typed, NEW p \in Procs, NEW stage, stage \in Holding, NEW v \in Version,
         file' = [file EXCEPT ![p] = v], UNCHANGED <<preserved, fd>>, pc[p] \notin Holding
  PROVE  /\ Handled(p, stage)
         /\ file'[p] = v /\ file'["note"] = file["note"] /\ file'["archive"] = file["archive"]
         /\ \A f \in Places \ {p} : file'[f] = file[f]
  <1>1. /\ \A f \in Places \ {p} : file'[f] = file[f]
        /\ file'[p] = v /\ v # None
        /\ file' \in [Places -> Version \cup {None}]
    BY PlacesDiffer, VersionsAndNone DEF Typed, TypeOK
  <1>2. Owned(p)
    BY DEF Typed, Disciplined
  <1>3. fd # p
    BY <1>2 DEF Owned, Holding
  <1>4. fd \in Places => file'[fd] # None
    BY <1>1, <1>3 DEF Typed, Disciplined
  <1>5. QED
    BY <1>1, <1>3, <1>4, PlacesDiffer DEF Handled, Typed, TypeOK

\* A writer at one of its calls.
LEMMA AtCall ==
  ASSUME Typed, NEW p \in Procs, pc[p] \in Busy \cup {"ok"}
  PROVE  /\ lock = p /\ Owned(p) /\ job[p] \in Job /\ job[p] # None
         /\ Shaped(pc[p], job[p])
  BY VersionsAndNone
  DEF Typed, TypeOK, Disciplined, Owned, Busy, Replacing

\* The versions of a request.
LEMMA JobVersions ==
  ASSUME NEW j \in Job, NEW stage, Shaped(stage, j)
  PROVE  /\ j.kind \in Kinds /\ j.op \in Nat /\ j.updated \in Version
         /\ j.src # None => /\ j.src \in Version /\ Prepared(j) \in Version
                            /\ Expected(j) \in Version
         /\ j.step # "restore" => Prepared(j) = j.updated /\ Expected(j) = j.src
         /\ j.step = "restore" => Prepared(j) = j.src /\ Expected(j) = j.updated
         /\ Prepared(j) \in Version
         /\ j.kind = "move" => CardOf(j) \in Card
  BY DEF Job, Shaped, Prepared, Expected, CardOf, Card

LEMMA ContinueStage ==
  ASSUME NEW j \in Job, NEW stage \in Replacing, Shaped(stage, j),
         NEW installed \in BOOLEAN, NEW clean \in BOOLEAN
  PROVE  /\ Continue(j, installed, clean) \in {"reindex", "uncreate", "error"}
         /\ Shaped(Continue(j, installed, clean), j)
         /\ Continue(j, installed, clean) = "reindex" => j.step = "commit" /\ clean
         /\ Continue(j, installed, clean) = "uncreate" =>
              /\ j.kind = "move"
              /\ \/ j.step = "commit" /\ ~clean /\ ~installed
                 \/ j.step = "restore" /\ installed
         /\ Continue(j, installed, clean) = "error" =>
              /\ j.step = "commit" => ~clean /\ (j.kind = "move" => installed)
              /\ j.step = "restore" => ~installed
  <1>1. j.step \in {"commit", "restore", "reapply"} /\ j.kind \in Kinds
    BY DEF Job
  <1>2. PICK next : next = Continue(j, installed, clean)
    OBVIOUS
  <1>3. /\ next \in {"reindex", "uncreate", "error"}
        /\ next = "reindex" => j.step = "commit" /\ clean
        /\ next = "uncreate" =>
              /\ j.kind = "move"
              /\ \/ j.step = "commit" /\ ~clean /\ ~installed
                 \/ j.step = "restore" /\ installed
        /\ next = "error" =>
              /\ j.step = "commit" => ~clean /\ (j.kind = "move" => installed)
              /\ j.step = "restore" => ~installed
    <2>1. CASE j.step = "commit"
      BY <1>2, <2>1 DEF Continue
    <2>2. CASE j.step = "restore"
      BY <1>2, <2>2 DEF Continue, Shaped
    <2>3. CASE j.step = "reapply"
      BY <1>2, <2>3 DEF Continue
    <2>4. QED
      BY <1>1, <2>1, <2>2, <2>3
  <1>4. Shaped(next, j)
    BY <1>3 DEF Shaped, Replacing, Disposing
  <1>5. QED
    BY <1>2, <1>3, <1>4

\* A job that stays as it is.
LEMMA SameJob ==
  ASSUME Typed, NEW p \in Procs, job' = job
  PROVE  job' = [job EXCEPT ![p] = job[p]]
  BY DEF Typed, TypeOK

LEMMA IoTyped ==
  ASSUME Typed, NEW o, Io(o)
  PROVE  /\ faults' \in Nat /\ faults' >= faults
         /\ o # "ok" => faults' = faults + 1
         /\ o = "ok" => faults' = faults
  BY DEF Io, Fault, Typed, TypeOK

\* The replacement's calls keep the types.
LEMMA ReplacingTyped ==
  ASSUME Typed, NEW p \in Procs, NEW o \in Outcomes,
         \/ CreateTemp(p, o) \/ Exchange(p, o) \/ Inspect(p, o) \/ Unlink(p, o)
         \/ ExchangeBack(p, o) \/ InspectBack(p, o) \/ UnlinkBack(p, o) \/ Current(p, o),
         pc[p] \in Replacing \ {"temp"} => file["note"] # None
  PROVE  Typed'
  <1>1. PICK j : j = job[p]
    OBVIOUS
  <1>2. pc[p] \in Replacing
    BY DEF CreateTemp, Exchange, Inspect, Unlink, ExchangeBack, InspectBack, UnlinkBack, Current,
           Replacing
  <1>3. /\ lock = p /\ Owned(p) /\ j \in Job /\ j # None /\ Shaped(pc[p], j)
        /\ job' = [job EXCEPT ![p] = j]
    <2>1. job' = job
      BY DEF CreateTemp, Exchange, Inspect, Unlink, ExchangeBack, InspectBack, UnlinkBack, Current
    <2>2. QED
      BY <1>1, <1>2, <2>1, AtCall, SameJob DEF Busy
  <1>4. /\ Quiet /\ cards' \subseteq Card /\ saved' = saved
    BY DEF CreateTemp, Exchange, Inspect, Unlink, ExchangeBack, InspectBack, UnlinkBack, Current,
           Typed, TypeOK
  <1>5. faults' \in Nat
    <2>1. Io(o)
      BY DEF CreateTemp, Exchange, Inspect, Unlink, ExchangeBack, InspectBack, UnlinkBack, Current
    <2>2. QED
      BY <2>1, IoTyped
  <1>6. overwritten' \subseteq Edits /\ dropped' \in BOOLEAN
    <2>1. CASE Unlink(p, o)
      <3>1. /\ overwritten' = IF j.kind = "write" THEN overwritten \cup j.src.edits ELSE overwritten
            /\ dropped' = (dropped \/ (j.kind = "write" /\ j.src.line # "none"))
        BY <1>1, <2>1 DEF Unlink, Supersede
      <3>2. j.src \in Version
        BY <1>3, <2>1, JobVersions DEF Unlink, Shaped, Replacing
      <3>3. QED
        BY <3>1, <3>2 DEF Typed, TypeOK, Version
    <2>2. CASE ~Unlink(p, o)
      <3>1. overwritten' = overwritten /\ dropped' = dropped
        BY <2>2 DEF CreateTemp, Exchange, Inspect, ExchangeBack, InspectBack, UnlinkBack, Current,
                    NoFiles
      <3>2. QED
        BY <3>1 DEF Typed, TypeOK
    <2>3. QED
      BY <2>1, <2>2
  <1>7. SUFFICES \E stage \in Stages \ {"idle", "waiting"} :
                   Goto(p, stage) /\ Handled(p, stage) /\ Shaped(stage, j)
    BY <1>3, <1>4, <1>5, <1>6, WriterTyped
  <1>8. \A installed, clean \in BOOLEAN :
          /\ Continue(j, installed, clean) \in {"reindex", "uncreate", "error"}
          /\ Continue(j, installed, clean) \in Stages \ {"idle", "waiting"}
          /\ Continue(j, installed, clean) \notin Holding
          /\ Shaped(Continue(j, installed, clean), j)
    BY <1>2, <1>3, ContinueStage DEF Stages, Replacing, Holding, Swapped
  <1>9. CASE CreateTemp(p, o)
    <2>1. CASE o = "ok"
      <3>1. PICK stage : stage = IF j.src = None THEN "publish" ELSE "exchange"
        OBVIOUS
      <3>2. /\ pc[p] = "temp" /\ file' = [file EXCEPT ![p] = Prepared(j)] /\ Goto(p, stage)
            /\ UNCHANGED <<preserved, fd>>
        BY <1>1, <1>9, <2>1, <3>1 DEF CreateTemp
      <3>3. Handled(p, stage)
        BY <1>3, <3>1, <3>2, JobVersions, CreateHandled DEF Holding, Swapped
      <3>4. Shaped(stage, j)
        BY <1>3, <3>1, <3>2 DEF Shaped, Replacing, Disposing
      <3>5. QED
        BY <3>1, <3>2, <3>3, <3>4 DEF Stages, Replacing
    <2>2. CASE o # "ok"
      <3>1. Goto(p, Continue(j, FALSE, FALSE)) /\ UNCHANGED files /\ pc[p] = "temp"
        BY <1>1, <1>9, <2>2 DEF CreateTemp, files
      <3>2. Handled(p, Continue(j, FALSE, FALSE))
        BY <1>3, <1>8, <3>1, KeepHandled DEF Owned, Holding, Swapped
      <3>3. QED
        BY <1>8, <3>1, <3>2
    <2>3. QED
      BY <2>1, <2>2
  <1>10. CASE Exchange(p, o)
    <2>1. CASE o = "ok"
      <3>1. Swap(p) /\ Goto(p, "inspect") /\ pc[p] = "exchange"
        BY <1>10, <2>1 DEF Exchange
      <3>2. Handled(p, "inspect")
        BY <1>2, <1>3, <3>1, SwapHandled DEF Owned, Holding, Swapped
      <3>3. Shaped("inspect", j)
        BY <1>3, <3>1 DEF Shaped, Replacing, Disposing
      <3>4. QED
        BY <3>1, <3>2, <3>3 DEF Stages, Replacing
    <2>2. CASE o # "ok"
      <3>1. Remove(p) /\ Goto(p, Continue(j, FALSE, FALSE))
        BY <1>1, <1>10, <2>2 DEF Exchange
      <3>2. QED
        BY <1>8, <3>1, RemoveHandled
    <2>3. QED
      BY <2>1, <2>2
  <1>11. CASE Inspect(p, o)
    <2>1. PICK stage \in {"unlink", "back"} : Goto(p, stage) /\ UNCHANGED files /\ pc[p] = "inspect"
      BY <1>11 DEF Inspect, NoFiles
    <2>2. Handled(p, stage)
      BY <2>1, KeepHandled DEF Holding, Swapped
    <2>3. Shaped(stage, j)
      BY <1>3, <2>1 DEF Shaped, Replacing, Disposing
    <2>4. QED
      BY <2>1, <2>2, <2>3 DEF Stages, Replacing
  <1>12. CASE Unlink(p, o)
    <2>1. Goto(p, Continue(j, TRUE, o = "ok")) /\ (Remove(p) \/ Leave(p))
      BY <1>1, <1>12 DEF Unlink
    <2>2. QED
      BY <1>8, <2>1, RemoveHandled, LeaveHandled
  <1>13. CASE ExchangeBack(p, o)
    <2>1. CASE o = "ok"
      <3>1. Swap(p) /\ Goto(p, "inspectBack") /\ pc[p] = "back"
        BY <1>13, <2>1 DEF ExchangeBack
      <3>2. Handled(p, "inspectBack")
        BY <1>2, <1>3, <3>1, SwapHandled DEF Owned, Holding, Swapped
      <3>3. Shaped("inspectBack", j)
        BY <1>3, <3>1 DEF Shaped, Replacing, Disposing
      <3>4. QED
        BY <3>1, <3>2, <3>3 DEF Stages, Replacing
    <2>2. CASE o # "ok"
      <3>1. Leave(p) /\ Goto(p, "current") /\ pc[p] = "back"
        BY <1>13, <2>2 DEF ExchangeBack
      <3>2. Handled(p, "current")
        BY <3>1, LeaveHandled DEF Holding, Swapped
      <3>3. Shaped("current", j)
        BY <1>3, <3>1 DEF Shaped, Replacing, Disposing
      <3>4. QED
        BY <3>1, <3>2, <3>3 DEF Stages, Replacing
    <2>3. QED
      BY <2>1, <2>2
  <1>14. CASE InspectBack(p, o)
    <2>1. /\ pc[p] = "inspectBack"
          /\ \/ UNCHANGED files /\ Goto(p, "unlinkBack")
             \/ Leave(p) /\ Goto(p, "current")
      BY <1>14 DEF InspectBack
    <2>2. Shaped("unlinkBack", j) /\ Shaped("current", j)
      BY <1>3, <2>1 DEF Shaped, Replacing, Disposing
    <2>3. UNCHANGED files => Handled(p, "unlinkBack")
      BY <2>1, KeepHandled DEF Holding, Swapped
    <2>4. Leave(p) => Handled(p, "current")
      BY LeaveHandled DEF Holding, Swapped
    <2>5. QED
      BY <2>1, <2>2, <2>3, <2>4 DEF Stages, Replacing
  <1>15. CASE UnlinkBack(p, o)
    <2>1. /\ pc[p] = "unlinkBack"
          /\ \/ Remove(p) /\ Goto(p, Continue(j, FALSE, FALSE))
             \/ Leave(p) /\ Goto(p, "current")
      BY <1>1, <1>15 DEF UnlinkBack
    <2>2. Shaped("current", j)
      BY <1>3, <2>1 DEF Shaped, Replacing, Disposing
    <2>3. Remove(p) => Handled(p, Continue(j, FALSE, FALSE))
      BY <1>8, RemoveHandled
    <2>4. Leave(p) => Handled(p, "current")
      BY LeaveHandled DEF Holding, Swapped
    <2>5. QED
      BY <1>8, <2>1, <2>2, <2>3, <2>4 DEF Stages, Replacing
  <1>16. CASE Current(p, o)
    <2>1. PICK installed \in BOOLEAN :
            Goto(p, Continue(j, installed, FALSE)) /\ UNCHANGED files /\ pc[p] = "current"
      BY <1>1, <1>16 DEF Current, NoFiles
    <2>2. Handled(p, Continue(j, installed, FALSE))
      BY <1>3, <1>8, <2>1, KeepHandled DEF Owned, Holding, Swapped
    <2>3. QED
      BY <1>8, <2>1, <2>2
  <1>17. QED
    BY <1>9, <1>10, <1>11, <1>12, <1>13, <1>14, <1>15, <1>16

\* The other calls of a writer keep them too.
LEMMA OtherCallsTyped ==
  ASSUME Typed, NEW p \in Procs,
         \/ Reindex(p)
         \/ \E o \in Outcomes : Publish(p, o) \/ Dispose(p, o) \/ Verify(p, o) \/ Undispose(p, o)
         \/ \E o \in Outcomes \cup {"late"} : CreateCard(p, o) \/ DeleteCard(p, o)
  PROVE  Typed'
  <1>1. PICK j : j = job[p]
    OBVIOUS
  <1>2. pc[p] \in Busy \ Replacing
    BY DEF CreateCard, DeleteCard, Reindex, Publish, Dispose, Verify, Undispose, Replacing, Busy
  <1>3. lock = p /\ Owned(p) /\ j \in Job /\ j # None /\ Shaped(pc[p], j)
    BY <1>1, <1>2, AtCall
  <1>4. Quiet /\ saved' = saved /\ overwritten' = overwritten /\ dropped' = dropped
    BY DEF CreateCard, DeleteCard, Reindex, Publish, Dispose, Verify, Undispose, NoFiles
  <1>5. faults' \in Nat
    <2>1. (\E o : Io(o)) \/ faults' = faults
      BY DEF CreateCard, DeleteCard, Reindex, Publish, Dispose, Verify, Undispose
    <2>2. QED
      BY <2>1, IoTyped DEF Typed, TypeOK
  <1>6. SUFFICES \E stage \in Stages \ {"idle", "waiting"}, k \in Job :
                   /\ Goto(p, stage) /\ job' = [job EXCEPT ![p] = k]
                   /\ Handled(p, stage) /\ Shaped(stage, k) /\ cards' \subseteq Card
    BY <1>3, <1>4, <1>5, WriterTyped DEF Typed, TypeOK
  <1>7. job' = job => job' = [job EXCEPT ![p] = j]
    BY <1>1, SameJob
  <1>8. UNCHANGED files /\ pc[p] \notin Holding =>
          \A stage \in Stages \ Holding : Handled(p, stage)
    BY <1>3, KeepHandled DEF Owned, Holding
  <1>9. cards' = cards => cards' \subseteq Card
    BY DEF Typed, TypeOK
  <1>10. CASE Reindex(p)
    <2>1. UNCHANGED files /\ pc[p] = "reindex" /\ cards' = cards
      BY <1>10 DEF Reindex, NoFiles
    <2>2. CASE Goto(p, "ok") /\ UNCHANGED job
      <3>1. Shaped("ok", j)
        BY <1>3, <2>1 DEF Shaped, Replacing, Disposing
      <3>2. QED
        BY <1>3, <1>7, <1>8, <1>9, <2>1, <2>2, <3>1 DEF Stages, Holding, Swapped
    <2>3. CASE job[p].kind # "move" /\ Goto(p, "error") /\ UNCHANGED job
      <3>1. Shaped("error", j)
        BY <1>3, <2>1 DEF Shaped, Replacing, Disposing
      <3>2. QED
        BY <1>3, <1>7, <1>8, <1>9, <2>1, <2>3, <3>1 DEF Stages, Holding, Swapped
    <2>4. CASE /\ job[p].kind = "move" /\ job' = [job EXCEPT ![p].step = "restore"]
               /\ Goto(p, "temp")
      <3>1. PICK k : k = [j EXCEPT !.step = "restore"]
        OBVIOUS
      <3>2. k \in Job /\ job' = [job EXCEPT ![p] = k] /\ Shaped("temp", k)
        BY <1>1, <1>3, <2>1, <2>4, <3>1
        DEF Job, Shaped, Rewritten, Replacing, Disposing, Typed, TypeOK
      <3>3. QED
        BY <1>8, <1>9, <2>1, <2>4, <3>2 DEF Stages, Replacing, Holding, Swapped
    <2>5. QED
      BY <1>10, <2>2, <2>3, <2>4 DEF Reindex
  <1>11. ASSUME NEW o \in Outcomes, Publish(p, o)
         PROVE  \E stage \in Stages \ {"idle", "waiting"}, k \in Job :
                   /\ Goto(p, stage) /\ job' = [job EXCEPT ![p] = k]
                   /\ Handled(p, stage) /\ Shaped(stage, k) /\ cards' \subseteq Card
    <2>1. pc[p] = "publish" /\ job' = job /\ cards' = cards
      BY <1>11 DEF Publish
    <2>2. Shaped("reindex", j) /\ Shaped("error", j)
      BY <1>3, <2>1 DEF Shaped, Replacing, Disposing, Job
    <2>3. CASE o = "ok" /\ file["note"] = None
      <3>1. RenameTo(p, "note") /\ Goto(p, "reindex")
        <4>1. file' = [file EXCEPT !["note"] = file[p], ![p] = None]
          BY <1>11, <2>3 DEF Publish
        <4>2. [file EXCEPT !["note"] = file[p], ![p] = None]
                = [file EXCEPT ![p] = None, !["note"] = file[p]]
          BY PlacesDiffer DEF Typed, TypeOK
        <4>3. QED
          BY <1>11, <2>3, <4>1, <4>2 DEF Publish, RenameTo
      <3>2. Handled(p, "reindex")
        <4>1. file[p] # None
          BY <1>3, <2>1 DEF Owned, Holding
        <4>2. QED
          BY <2>1, <2>3, <3>1, <4>1, RenameHandled, PlacesDiffer DEF Holding, Swapped
      <3>3. QED
        BY <1>3, <1>7, <1>9, <2>1, <2>2, <3>1, <3>2 DEF Stages
    <2>4. CASE ~(o = "ok" /\ file["note"] = None)
      <3>1. Remove(p) /\ Goto(p, "error")
        BY <1>11, <2>4 DEF Publish
      <3>2. Handled(p, "error")
        BY <3>1, RemoveHandled DEF Holding, Swapped
      <3>3. QED
        BY <1>3, <1>7, <1>9, <2>1, <2>2, <3>1, <3>2 DEF Stages
    <2>5. QED
      BY <2>3, <2>4
  <1>12. ASSUME NEW o \in Outcomes, Dispose(p, o) \/ Verify(p, o) \/ Undispose(p, o)
         PROVE  \E stage \in Stages \ {"idle", "waiting"}, k \in Job :
                   /\ Goto(p, stage) /\ job' = [job EXCEPT ![p] = k]
                   /\ Handled(p, stage) /\ Shaped(stage, k) /\ cards' \subseteq Card
    <2>1. pc[p] \in Disposing /\ job' = job /\ cards' = cards
      BY <1>12 DEF Dispose, Verify, Undispose, Disposing
    <2>2. PICK stage \in {"verify", "undispose", "reindex", "error"} :
            /\ Goto(p, stage)
            /\ \/ UNCHANGED files
               \/ RenameTo("note", "archive") /\ file["archive"] = None
               \/ RenameTo("archive", "note") /\ file["note"] = None
      BY <1>12 DEF Dispose, Verify, Undispose, NoFiles
    <2>3. Shaped(stage, j)
      BY <1>3, <2>1 DEF Shaped, Replacing, Disposing
    <2>4. pc[p] \notin Holding /\ stage \notin Holding
      BY <2>1 DEF Disposing, Holding, Swapped
    <2>5. ASSUME NEW from \in {"note", "archive"}, NEW to \in {"note", "archive"}, from # to,
                 RenameTo(from, to), file[to] = None
          PROVE  Handled(p, stage)
      <3>1. CASE file[from] # None
        BY <2>4, <2>5, <3>1, RenameHandled, PlacesDiffer
      <3>2. CASE file[from] = None
        <4>1. file' = file /\ preserved' = preserved
          BY <2>5, <3>2, PlacesDiffer DEF RenameTo, Typed, TypeOK
        <4>2. fd # from
          BY <3>2, PlacesDiffer DEF Typed, Disciplined
        <4>3. fd' = fd
          BY <2>5, <4>2 DEF RenameTo, Follow
        <4>4. QED
          BY <1>8, <2>2, <2>4, <4>1, <4>3 DEF files, Stages
      <3>3. QED
        BY <3>1, <3>2
    <2>6. Handled(p, stage)
      BY <1>8, <2>2, <2>4, <2>5 DEF Stages
    <2>7. QED
      BY <1>3, <1>7, <1>9, <2>1, <2>2, <2>3, <2>6 DEF Stages
  <1>13. ASSUME NEW o \in Outcomes \cup {"late"}, CreateCard(p, o) \/ DeleteCard(p, o)
         PROVE  \E stage \in Stages \ {"idle", "waiting"}, k \in Job :
                   /\ Goto(p, stage) /\ job' = [job EXCEPT ![p] = k]
                   /\ Handled(p, stage) /\ Shaped(stage, k) /\ cards' \subseteq Card
    <2>1. /\ pc[p] \in {"card", "uncreate"} /\ UNCHANGED files
          /\ cards' \subseteq cards \cup {CardOf(j)}
      BY <1>1, <1>13 DEF CreateCard, DeleteCard, NoFiles
    <2>2. cards' \subseteq Card
      BY <1>3, <2>1, JobVersions DEF Shaped, Typed, TypeOK
    <2>3. CASE job' = job /\ (Goto(p, "temp") \/ Goto(p, "error"))
      <3>1. Shaped("error", j)
        BY <1>3, <2>1 DEF Shaped, Replacing, Disposing
      <3>2. Shaped("temp", j)
        BY <1>3, <2>1 DEF Shaped, Replacing, Disposing
      <3>3. Handled(p, "temp") /\ Handled(p, "error")
        BY <1>8, <2>1 DEF Stages, Replacing, Holding, Swapped
      <3>4. QED
        BY <1>3, <1>7, <2>2, <2>3, <3>1, <3>2, <3>3 DEF Stages, Replacing
    <2>4. CASE job' = [job EXCEPT ![p].step = "reapply"] /\ Goto(p, "temp")
      <3>1. PICK k : k = [j EXCEPT !.step = "reapply"]
        OBVIOUS
      <3>2. k \in Job /\ job' = [job EXCEPT ![p] = k] /\ Shaped("temp", k)
        BY <1>1, <1>3, <2>1, <2>4, <3>1
        DEF Job, Shaped, Rewritten, Replacing, Disposing, Typed, TypeOK
      <3>3. Handled(p, "temp")
        BY <1>8, <2>1 DEF Stages, Replacing, Holding, Swapped
      <3>4. QED
        BY <2>2, <2>4, <3>2, <3>3 DEF Stages, Replacing
    <2>5. QED
      BY <1>13, <2>3, <2>4 DEF CreateCard, DeleteCard
  <1>14. QED
    BY <1>10, <1>11, <1>12, <1>13

\* A request that is made, taken up, refused, answered or abandoned: the files
\* are those of before, but for the temporary file of a writer that dies.
LEMMA RequestTyped ==
  ASSUME Typed, NEW p \in Procs, NEW kind \in Kinds, Request(p, kind)
  PROVE  Typed'
  <1>1. PICK seen \in {file["note"], shown[p], None} :
          /\ job' = [job EXCEPT ![p] = [kind |-> kind, op |-> ops + 1, seen |-> seen, src |-> None,
                                        updated |-> Original, step |-> "commit"]]
          /\ shown' = [shown EXCEPT ![p] = seen]
    BY DEF Request
  <1>2. PICK j : j = [kind |-> kind, op |-> ops + 1, seen |-> seen, src |-> None,
                      updated |-> Original, step |-> "commit"]
    OBVIOUS
  <1>3. seen \in Version \cup {None} /\ ops + 1 \in Nat
    BY PlacesDiffer DEF Typed, TypeOK
  <1>4. j \in Job /\ j # None /\ j.src = None
    BY <1>2, <1>3, VersionsAndNone DEF Job
  <1>5. /\ pc[p] = "idle" /\ pc' = [pc EXCEPT ![p] = "waiting"]
        /\ ops' = ops + 1 /\ job' = [job EXCEPT ![p] = j]
        /\ UNCHANGED <<files, cards, lock, editor, plugin, ghosts, faults, crashes>>
    BY <1>1, <1>2 DEF Request, Goto
  <1>6. TypeOK'
    BY <1>1, <1>3, <1>4, <1>5
    DEF Typed, TypeOK, Stages, files, editor, plugin, ghosts
  <1>7. pc'[p] = "waiting" /\ job'[p] = j
    BY <1>5 DEF Typed, TypeOK
  <1>8. \A q \in Procs \ {p} : pc'[q] = pc[q] /\ job'[q] = job[q]
    BY <1>5 DEF Typed, TypeOK
  <1>9. Owned(p) /\ lock # p
    BY <1>5 DEF Typed, Disciplined, Owned
  <1>10. file' = file /\ fd' = fd /\ lock' = lock
    BY <1>5 DEF files
  <1>11. Owned(p)'
    BY <1>2, <1>4, <1>5, <1>7, <1>9, <1>10 DEF Owned, Busy, Replacing, Holding, Swapped
  <1>12. \A q \in Procs \ {p} : Owned(q)'
    BY <1>8, <1>10 DEF Typed, Disciplined, Owned
  <1>13. \A q \in Procs : lock' = q => Shaped(pc[q], job[q])'
    BY <1>8, <1>9, <1>10 DEF Typed, Disciplined, Shaped
  <1>14. QED
    BY <1>6, <1>10, <1>11, <1>12, <1>13 DEF Typed, Disciplined

LEMMA BeginTyped ==
  ASSUME Typed, NEW p \in Procs, Begin(p)
  PROVE  /\ Typed'
         /\ job'[p] \in Job /\ job'[p].src = file["note"] /\ job'[p].op = job[p].op
         /\ job'[p].kind = job[p].kind /\ job'[p].step = "commit"
         /\ pc'[p] = FirstStage(job[p], file["note"])
         /\ \A q \in Procs \ {p} : pc'[q] = pc[q] /\ job'[q] = job[q]
  <1>1. PICK j, src : j = job[p] /\ src = file["note"]
    OBVIOUS
  <1>2. PICK k : k = [j EXCEPT !.src = src, !.updated = Rewritten(j, src)]
    OBVIOUS
  <1>3. /\ pc[p] = "waiting" /\ lock = None /\ lock' = p /\ Accepted(j, src)
        /\ job' = [job EXCEPT ![p].src = src, ![p].updated = Rewritten(j, src)]
        /\ Goto(p, FirstStage(j, src))
        /\ UNCHANGED <<files, cards, shown, editor, plugin, ghosts, bounds>>
    BY <1>1 DEF Begin
  <1>4. Owned(p)
    BY DEF Typed, Disciplined
  <1>5. j \in Job /\ src \in Version \cup {None} /\ lock # p
    BY <1>1, <1>3, <1>4, PlacesDiffer DEF Owned, Typed, TypeOK
  <1>6. src = None => j.kind = "write"
    BY <1>3 DEF Accepted
  <1>7. j.step = "commit"
    BY <1>1, <1>3, <1>4 DEF Owned
  <1>8. /\ Rewritten(j, src) \in Version /\ k \in Job /\ k # None
        /\ job' = [job EXCEPT ![p] = k]
    <2>1. Rewritten(j, src) \in Version
      BY <1>5, <1>6, RewrittenVersion
    <2>2. k \in Job
      BY <1>2, <1>5, <2>1 DEF Job
    <2>3. job' = [job EXCEPT ![p] = k]
      BY <1>1, <1>2, <1>3 DEF Typed, TypeOK
    <2>4. QED
      BY <2>1, <2>2, <2>3, VersionsAndNone
  <1>9. PICK stage : stage = FirstStage(j, src)
    OBVIOUS
  <1>10. /\ stage = IF j.kind = "move" THEN "card"
                    ELSE IF j.kind = "dispose" THEN "dispose" ELSE "temp"
         /\ stage \in Stages \ (Holding \cup {"idle", "waiting"})
    BY <1>9 DEF FirstStage, Stages, Replacing, Holding, Swapped
  <1>11. /\ pc'[p] = stage /\ job'[p] = k
         /\ \A q \in Procs \ {p} : pc'[q] = pc[q] /\ job'[q] = job[q]
         /\ pc' \in [Procs -> Stages]
    BY <1>3, <1>8, <1>9, <1>10 DEF Typed, TypeOK, Goto
  <1>12. Rewritten(k, src) = Rewritten(j, src)
    BY <1>2, <1>5 DEF Rewritten, Job
  <1>13. Shaped(stage, k)
    <2>1. /\ k.src = src /\ k.kind = j.kind /\ k.op = j.op /\ k.step = "commit"
          /\ k.updated = Rewritten(k, k.src)
      BY <1>2, <1>5, <1>7, <1>12 DEF Job
    <2>2. j.kind = "move" => src.line = "open"
      BY <1>3 DEF Accepted
    <2>3. QED
      BY <1>6, <1>10, <2>1, <2>2 DEF Shaped, Replacing, Disposing
  <1>14. TypeOK'
    BY <1>3, <1>8, <1>11 DEF Typed, TypeOK, files, editor, plugin, ghosts, bounds
  <1>15. file' = file /\ fd' = fd
    BY <1>3 DEF files
  <1>16. Owned(p)'
    BY <1>3, <1>4, <1>8, <1>10, <1>11, <1>15 DEF Owned, Holding, Swapped
  <1>17. ASSUME NEW q \in Procs \ {p}
         PROVE  Owned(q)'
    <2>1. Owned(q) /\ lock # q /\ lock' # q
      BY <1>3, PlacesDiffer DEF Typed, Disciplined
    <2>2. QED
      BY <1>11, <1>15, <2>1 DEF Owned
  <1>18. \A q \in Procs : lock' = q => Shaped(pc[q], job[q])'
    <2>1. Shaped(pc[p], job[p])'
      BY <1>11, <1>13 DEF Shaped
    <2>2. QED
      BY <1>3, <2>1
  <1>19. Typed'
    BY <1>14, <1>15, <1>16, <1>17, <1>18 DEF Typed, Disciplined
  <1>20. QED
    <2>1. k.src = src /\ k.op = j.op /\ k.kind = j.kind /\ k.step = "commit"
      BY <1>2, <1>5, <1>7 DEF Job
    <2>2. QED
      BY <1>1, <1>8, <1>9, <1>11, <1>19, <2>1

LEMMA RefuseTyped ==
  ASSUME Typed, NEW p \in Procs, Refuse(p)
  PROVE  Typed'
  <1>1. /\ pc[p] = "waiting" /\ lock = None /\ pc' = [pc EXCEPT ![p] = "error"]
        /\ UNCHANGED <<files, cards, lock, job, shown, editor, plugin, ghosts, bounds>>
    BY DEF Refuse, Goto
  <1>2. TypeOK'
    BY <1>1 DEF Typed, TypeOK, Stages, files, editor, plugin, ghosts, bounds
  <1>3. pc'[p] = "error" /\ \A q \in Procs \ {p} : pc'[q] = pc[q]
    BY <1>1 DEF Typed, TypeOK
  <1>4. file' = file /\ fd' = fd /\ lock' = None /\ job' = job
    BY <1>1 DEF files
  <1>5. \A q \in Procs : Owned(q)'
    BY <1>1, <1>3, <1>4, PlacesDiffer
    DEF Typed, Disciplined, Owned, Busy, Replacing, Holding, Swapped
  <1>6. QED
    BY <1>2, <1>4, <1>5, PlacesDiffer DEF Typed, Disciplined

LEMMA ReturnTyped ==
  ASSUME Typed, NEW p \in Procs, Return(p)
  PROVE  Typed'
  <1>1. /\ pc[p] \in {"ok", "error"} /\ lock' = IF lock = p THEN None ELSE lock
        /\ saved' = IF pc[p] = "ok" /\ job[p].kind \in {"edit", "write"}
                    THEN saved \cup {<<"op", job[p].op>>} ELSE saved
        /\ job' = [job EXCEPT ![p] = None] /\ pc' = [pc EXCEPT ![p] = "idle"]
        /\ UNCHANGED <<files, cards, shown, editor, plugin>>
        /\ UNCHANGED <<overwritten, dropped, abandoned, bounds>>
    BY DEF Return, Release, Goto
  <1>2. Owned(p) /\ job[p] \in Job
    BY <1>1 DEF Typed, TypeOK, Disciplined, Owned
  <1>3. /\ saved' \subseteq Edits /\ lock' \in Procs \cup {None}
        /\ job' \in [Procs -> Job \cup {None}] /\ pc' \in [Procs -> Stages]
        /\ pc'[p] = "idle" /\ job'[p] = None
        /\ \A q \in Procs \ {p} : pc'[q] = pc[q] /\ job'[q] = job[q]
    BY <1>1, <1>2 DEF Typed, TypeOK, Stages, Edits, Job
  <1>4. TypeOK'
    BY <1>1, <1>3 DEF Typed, TypeOK, files, editor, plugin, bounds
  <1>5. file' = file /\ fd' = fd
    BY <1>1 DEF files
  <1>6. Owned(p)'
    BY <1>1, <1>2, <1>3, <1>5, PlacesDiffer DEF Owned, Busy, Replacing, Holding, Swapped
  <1>7. ASSUME NEW q \in Procs \ {p}
        PROVE  Owned(q)' /\ (lock' = q => lock = q)
    BY <1>1, <1>3, <1>5, PlacesDiffer DEF Typed, Disciplined, Owned
  <1>8. \A q \in Procs : lock' = q => Shaped(pc[q], job[q])'
    <2>1. ASSUME NEW q \in Procs, lock' = q
          PROVE  Shaped(pc[q], job[q])'
      <3>1. q # p /\ lock = q
        BY <1>1, <2>1, PlacesDiffer
      <3>2. QED
        BY <1>3, <3>1 DEF Typed, Disciplined, Shaped
    <2>2. QED
      BY <2>1
  <1>9. QED
    BY <1>4, <1>5, <1>6, <1>7, <1>8 DEF Typed, Disciplined

LEMMA CrashTyped ==
  ASSUME Typed, NEW p \in Procs, Crash(p)
  PROVE  Typed'
  <1>1. /\ lock = p /\ lock' = None /\ crashes' = crashes + 1
        /\ abandoned' = abandoned \cup {job[p].op}
        /\ job' = [job EXCEPT ![p] = None] /\ pc' = [pc EXCEPT ![p] = "idle"]
        /\ UNCHANGED <<cards, shown, editor, plugin, saved, overwritten, dropped, ops, faults>>
    BY DEF Crash, Goto
  <1>2. Owned(p) /\ job[p] \in Job
    BY <1>1 DEF Typed, TypeOK, Disciplined, Owned
  <1>3. Handled(p, "idle")
    BY LeaveHandled DEF Crash, Holding, Swapped
  <1>4. /\ job' \in [Procs -> Job \cup {None}] /\ pc' \in [Procs -> Stages]
        /\ pc'[p] = "idle" /\ job'[p] = None /\ abandoned' \subseteq Nat
        /\ \A q \in Procs \ {p} : pc'[q] = pc[q] /\ job'[q] = job[q]
    BY <1>1, <1>2 DEF Typed, TypeOK, Stages, Job
  <1>5. TypeOK'
    BY <1>1, <1>3, <1>4 DEF Typed, TypeOK, editor, plugin, Handled
  <1>6. Owned(p)'
    BY <1>1, <1>3, <1>4, PlacesDiffer DEF Owned, Busy, Replacing, Holding, Swapped, Handled
  <1>7. ASSUME NEW q \in Procs \ {p}
        PROVE  Owned(q)'
    BY <1>1, <1>3, <1>4, PlacesDiffer DEF Typed, Disciplined, Owned, Handled
  <1>8. QED
    BY <1>1, <1>3, <1>5, <1>6, <1>7, PlacesDiffer DEF Typed, Disciplined, Handled

\* Those who take no lock change the note or what is appended to.
LEMMA OpensTyped ==
  ASSUME Typed, EditorOpens \/ AppendOpens \/ Rest
  PROVE  Typed'
  <1>1. /\ file' = file /\ preserved' = preserved
        /\ fd' = fd \/ (fd' = "note" /\ file["note"] # None)
        /\ buffer' \in {buffer, file["note"]}
        /\ UNCHANGED <<cards, lock, pc, job, shown, saves, plugin, ghosts, bounds>>
    BY DEF EditorOpens, AppendOpens, Rest, vars, files, editor
  <1>2. TypeOK'
    BY <1>1, PlacesDiffer DEF Typed, TypeOK, plugin, ghosts, bounds
  <1>3. \A q \in Procs : Owned(q)'
    BY <1>1, PlacesDiffer DEF Typed, Disciplined, Owned
  <1>4. \A q \in Procs : lock' = q => Shaped(pc[q], job[q])'
    BY <1>1 DEF Typed, Disciplined, Shaped
  <1>5. QED
    BY <1>1, <1>2, <1>3, <1>4 DEF Typed, Disciplined

LEMMA EditorSavesTyped ==
  ASSUME Typed, EditorSaves
  PROVE  Typed'
  <1>1. PICK new : new = Edit(buffer, "save", saves + 1)
    OBVIOUS
  <1>2. /\ buffer # None /\ saves' = saves + 1 /\ file' = [file EXCEPT !["note"] = new]
        /\ buffer' = new /\ saved' = saved \cup {<<"save", saves + 1>>}
        /\ overwritten' = IF file["note"] = None THEN overwritten
                          ELSE overwritten \cup (file["note"].edits \ new.edits)
        /\ dropped' \in BOOLEAN
        /\ fd' = IF fd = "note" THEN "removed" ELSE fd
        /\ UNCHANGED <<preserved, cards, lock, pc, job, shown, plugin, abandoned, bounds>>
    BY <1>1 DEF EditorSaves, Follow
  <1>3. new \in Version /\ new # None /\ saves + 1 \in Nat
    BY <1>1, <1>2, EditedVersion, VersionsAndNone DEF Typed, TypeOK
  <1>4. /\ file' \in [Places -> Version \cup {None}] /\ file'["note"] = new
        /\ \A f \in Places \ {"note"} : file'[f] = file[f]
    BY <1>2, <1>3, PlacesDiffer DEF Typed, TypeOK
  <1>5. saved' \subseteq Edits /\ overwritten' \subseteq Edits
    BY <1>2, <1>3, PlacesDiffer DEF Typed, TypeOK, Edits, Version
  <1>6. TypeOK'
    BY <1>2, <1>3, <1>4, <1>5, PlacesDiffer DEF Typed, TypeOK, plugin, bounds
  <1>7. \A q \in Procs : Owned(q)'
    BY <1>2, <1>4, PlacesDiffer DEF Typed, Disciplined, Owned
  <1>8. \A q \in Procs : lock' = q => Shaped(pc[q], job[q])'
    BY <1>2 DEF Typed, Disciplined, Shaped
  <1>9. fd' \in Places => file'[fd'] # None
    BY <1>2, <1>4, PlacesDiffer DEF Typed, Disciplined
  <1>10. QED
    BY <1>6, <1>7, <1>8, <1>9 DEF Typed, Disciplined

LEMMA AppendWritesTyped ==
  ASSUME Typed, AppendWrites
  PROVE  /\ Typed'
         /\ \A f \in Places :
              /\ file'[f] = None <=> file[f] = None
              /\ f # fd => file'[f] = file[f]
              /\ f = fd => file'[f] = Edit(file[f], "append", appends + 1)
  <1>1. /\ appends' = appends + 1 /\ fd # None /\ fd' = None
        /\ file' = IF fd \in Places
                   THEN [file EXCEPT ![fd] = Edit(file[fd], "append", appends + 1)] ELSE file
        /\ preserved' = IF fd = "preserved"
                        THEN preserved \cup {Edit(v, "append", appends + 1) : v \in preserved}
                        ELSE preserved
        /\ appended' = appended \cup {<<"append", appends + 1>>}
        /\ UNCHANGED <<cards, lock, pc, job, shown, editor, ghosts, bounds>>
    BY DEF AppendWrites
  <1>2. appends + 1 \in Nat
    BY DEF Typed, TypeOK
  <1>3. fd \in Places => /\ file[fd] \in Version /\ file[fd] # None
                         /\ Edit(file[fd], "append", appends + 1) \in Version
    BY <1>2, EditedVersion DEF Typed, TypeOK, Disciplined
  <1>4. /\ file' \in [Places -> Version \cup {None}]
        /\ \A f \in Places :
              /\ file'[f] = None <=> file[f] = None
              /\ f # fd => file'[f] = file[f]
              /\ f = fd => file'[f] = Edit(file[f], "append", appends + 1)
    BY <1>1, <1>3, VersionsAndNone DEF Typed, TypeOK
  <1>5. preserved' \subseteq Version
    <2>1. \A v \in preserved : Edit(v, "append", appends + 1) \in Version
      BY <1>2, EditedVersion DEF Typed, TypeOK
    <2>2. QED
      BY <1>1, <2>1 DEF Typed, TypeOK
  <1>6. appended' \subseteq Edits
    BY <1>1, <1>2 DEF Typed, TypeOK, Edits
  <1>7. TypeOK'
    BY <1>1, <1>2, <1>4, <1>5, <1>6 DEF Typed, TypeOK, editor, ghosts, bounds
  <1>8. \A q \in Procs : Owned(q)'
    BY <1>1, <1>4, PlacesDiffer DEF Typed, Disciplined, Owned
  <1>9. \A q \in Procs : lock' = q => Shaped(pc[q], job[q])'
    BY <1>1 DEF Typed, Disciplined, Shaped
  <1>10. fd' \notin Places
    BY <1>1, PlacesDiffer
  <1>11. QED
    BY <1>4, <1>7, <1>8, <1>9, <1>10 DEF Typed, Disciplined

-----------------------------------------------------------------------------
(* What is saved and what is promised.                                     *)

LEMMA CopyIs ==
  ASSUME NEW v
  PROVE  v \in Copies <=> v \in preserved \/ \E f \in Places : file[f] # None /\ v = file[f]
  BY DEF Copies

LEMMA CopyVersion ==
  ASSUME Typed
  PROVE  Copies \subseteq Version
  BY CopyIs DEF Typed, TypeOK

\* A version that holds the task: as open, or as a card that is there.
Good(v) ==
  \/ v.line = "open"
  \/ v.line = "reference" /\ \E c \in cards : c.op = v.card

LEMMA TaskOrCardIs ==
  TaskOrCard <=> dropped \/ \E v \in Copies : Good(v)
  BY DEF TaskOrCard, Good

LEMMA FollowsGood ==
  ASSUME NEW w, NEW v, Follows(w, v), Good(v), ~dropped
  PROVE  Good(w)
  BY DEF Follows, SameTask, Good

\* Both versions of a replacement hold the task, or neither does; a file that
\* is written over holds none.
LEMMA BothGood ==
  ASSUME NEW j \in Job, NEW stage \in Replacing, Shaped(stage, j), j.src # None,
         j.kind = "move" => CardOf(j) \in cards, j.kind # "write"
  PROVE  Good(Prepared(j)) <=> Good(Expected(j))
  <1>1. j.kind \in {"edit", "move"}
    BY DEF Shaped, Job, Kinds, Replacing, Disposing
  <1>2. CASE j.kind = "edit"
    <2>1. SameTask(j.updated, j.src)
      BY <1>2, RewrittenVersion DEF Shaped, Job
    <2>2. QED
      BY <2>1 DEF Prepared, Expected, Good, SameTask
  <1>3. CASE j.kind = "move"
    <2>1. j.updated.line = "reference" /\ j.updated.card = j.op /\ j.src.line = "open"
      <3>1. j.updated = Rewritten(j, j.src) /\ j.src.line = "open" /\ j.src \in Version \cup {None}
        BY <1>3 DEF Shaped, Job
      <3>2. PICK w : w = Rewritten(j, j.src)
        OBVIOUS
      <3>3. w.line = "reference" /\ w.card = j.op
        BY <1>3, <3>1, <3>2, RewrittenVersion
      <3>4. QED
        BY <3>1, <3>2, <3>3
    <2>2. CardOf(j).op = j.op
      BY DEF CardOf
    <2>3. QED
      BY <1>3, <2>1, <2>2 DEF Prepared, Expected, Good
  <1>4. QED
    BY <1>1, <1>2, <1>3

LEMMA OverwriteHoldsNone ==
  ASSUME NEW j \in Job, NEW stage, Shaped(stage, j), j.kind = "write"
  PROVE  ~Good(Prepared(j)) /\ Prepared(j) = j.updated /\ Expected(j) = j.src
  BY RewrittenVersion DEF Shaped, Job, Prepared, Expected, Good

\* The edits of the two versions of a replacement.
LEMMA ReplacedEdits ==
  ASSUME NEW j \in Job, NEW stage \in Replacing, Shaped(stage, j), j.src # None
  PROVE  /\ Prepared(j).edits \subseteq Expected(j).edits \cup {<<"op", j.op>>}
         /\ j.kind # "write" => Expected(j).edits \subseteq Prepared(j).edits
  <1>1. j.kind \in {"edit", "move", "write"} /\ j.src \in Version
    BY DEF Shaped, Job, Kinds, Replacing, Disposing
  <1>2. /\ j.updated.edits \subseteq j.src.edits \cup {<<"op", j.op>>}
        /\ j.kind # "write" => j.src.edits \subseteq j.updated.edits
        /\ j.kind = "move" => j.updated.edits = j.src.edits
    BY <1>1, RewrittenVersion DEF Shaped, Job
  <1>3. QED
    BY <1>1, <1>2 DEF Shaped, Prepared, Expected

\* Steps that take no copy away, and the removal of a temporary file.
LEMMA CopiesStay ==
  ASSUME NothingSavedIsLost, TaskOrCard, Copies \subseteq Copies', saved' = saved,
         overwritten \subseteq overwritten', dropped => dropped', cards \subseteq cards'
  PROVE  NothingSavedIsLost' /\ TaskOrCard'
  <1>1. \A v : v \in Copies => v \in Copies'
    OBVIOUS
  <1>2. \A e : Kept(e) => Kept(e)'
    BY <1>1 DEF Kept
  <1>3. \A v : Good(v) => Good(v)'
    BY DEF Good
  <1>4. TaskOrCard'
    <2>1. TaskOrCard' <=> (dropped \/ \E v \in Copies : Good(v))'
      BY TaskOrCardIs, PTL
    <2>2. QED
      BY <1>1, <1>3, <2>1, TaskOrCardIs
  <1>5. QED
    BY <1>2, <1>4 DEF NothingSavedIsLost

LEMMA TempIsRemoved ==
  ASSUME Typed, NEW p \in Procs, NothingSavedIsLost, TaskOrCard, Remove(p), saved' = saved,
         overwritten \subseteq overwritten', dropped => dropped', cards' = cards,
         file["note"] # None,
         file[p].edits \cap saved \subseteq file["note"].edits \cup overwritten',
         Good(file[p]) => dropped' \/ Good(file["note"])
  PROVE  NothingSavedIsLost' /\ TaskOrCard'
  <1>1. /\ \A f \in Places \ {p} : file'[f] = file[f]
        /\ preserved' = preserved /\ file'["note"] = file["note"]
    <2>1. PICK stage : stage \notin Holding
      BY DEF Holding, Swapped
    <2>2. QED
      BY <2>1, RemoveHandled
  <1>2. \A v : v \in Copies' <=>
               v \in preserved' \/ \E f \in Places : file'[f] # None /\ v = file'[f]
    BY DEF Copies
  <1>3. \A v \in Copies : v \in Copies' \/ v = file[p]
    BY <1>1, <1>2, CopyIs
  <1>4. file["note"] \in Copies'
    BY <1>1, <1>2, PlacesDiffer
  <1>5. NothingSavedIsLost'
    <2>1. ASSUME NEW e \in saved
          PROVE  e \in overwritten' \/ \E v \in Copies' : e \in v.edits
      <3>1. e \in overwritten \/ \E v \in Copies : e \in v.edits
        BY DEF NothingSavedIsLost, Kept
      <3>2. QED
        BY <1>3, <1>4, <3>1
    <2>2. QED
      BY <2>1 DEF NothingSavedIsLost, Kept
  <1>6. TaskOrCard'
    <2>1. TaskOrCard' <=> (dropped \/ \E v \in Copies : Good(v))'
      BY TaskOrCardIs, PTL
    <2>2. \A v : Good(v) => Good(v)'
      BY DEF Good
    <2>3. QED
      BY <1>3, <1>4, <2>1, <2>2, TaskOrCardIs
  <1>7. QED
    BY <1>5, <1>6

\* What the other ways of handling the files do to the copies.
LEMMA FilesKeepCopies ==
  ASSUME Typed, NEW p \in Procs, Owned(p),
         \/ UNCHANGED files
         \/ Swap(p) /\ file["note"] # None
         \/ Leave(p)
         \/ /\ pc[p] \notin Holding
            /\ \E v \in Version : file' = [file EXCEPT ![p] = v] /\ preserved' = preserved
         \/ \E from, to \in Places : RenameTo(from, to) /\ file[to] = None
  PROVE  Copies \subseteq Copies'
  <1>1. \A v : v \in Copies' <=>
               v \in preserved' \/ \E f \in Places : file'[f] # None /\ v = file'[f]
    BY DEF Copies
  <1>2. SUFFICES ASSUME NEW v, v \in preserved \/ \E f \in Places : file[f] # None /\ v = file[f]
                 PROVE  v \in preserved' \/ \E f \in Places : file'[f] # None /\ v = file'[f]
    BY <1>1, CopyIs
  <1>3. file \in [Places -> Version \cup {None}]
    BY DEF Typed, TypeOK
  <1>4. CASE UNCHANGED files
    BY <1>2, <1>4 DEF files
  <1>5. CASE Swap(p) /\ file["note"] # None
    BY <1>2, <1>3, <1>5, PlacesDiffer DEF Swap
  <1>6. CASE Leave(p)
    BY <1>2, <1>3, <1>6, PlacesDiffer DEF Leave
  <1>7. CASE /\ pc[p] \notin Holding
             /\ \E w \in Version : file' = [file EXCEPT ![p] = w] /\ preserved' = preserved
    BY <1>2, <1>3, <1>7, PlacesDiffer DEF Owned
  <1>8. CASE \E from, to \in Places : RenameTo(from, to) /\ file[to] = None
    BY <1>2, <1>3, <1>8, PlacesDiffer DEF RenameTo
  <1>9. QED
    BY <1>4, <1>5, <1>6, <1>7, <1>8

\* Requests keep their numbers from one call to the next.
LEMMA SecureCall ==
  ASSUME Typed, Secure, NEW p \in Procs, lock = p, NEW stage, NEW j \in Job,
         pc' = [pc EXCEPT ![p] = stage], job' = [job EXCEPT ![p] = j], job[p] # None,
         j.op = job[p].op, saved' = saved, ops' = ops, lock' = lock,
         NothingSavedIsLost' /\ TaskOrCard', CarriedAt(p, stage, j)'
  PROVE  Secure'
  <1>1. /\ pc'[p] = stage /\ job'[p] = j /\ j # None
        /\ \A q \in Procs \ {p} : job'[q] = job[q]
    BY VersionsAndNone DEF Typed, TypeOK
  <1>2. \A q \in Procs : /\ job'[q] # None <=> job[q] # None
                         /\ job[q] # None => job'[q].op = job[q].op
    BY <1>1
  <1>3. Promised' /\ Numbered'
    BY <1>2 DEF Secure, Promised, Numbered
  <1>4. CarriedAt(p, pc[p], job[p])'
    BY <1>1 DEF CarriedAt, Carries, SomeFollows
  <1>5. QED
    BY <1>3, <1>4 DEF Secure

\* Where a replacement goes on, and what has to be there.
LEMMA ContinueCarried ==
  ASSUME NEW p \in Procs, NEW j \in Job, NEW stage \in Replacing, Shaped(stage, j),
         NEW installed \in BOOLEAN, NEW clean \in BOOLEAN,
         j.step = "commit" /\ clean => Carries("note", j.updated)',
         j.kind = "move" /\ j.step = "commit" /\ ~clean /\ ~installed => SomeFollows(j.src)',
         j.kind = "move" /\ j.step = "restore" /\ installed => Carries("note", j.src)',
         j.kind = "move" => CardOf(j) \in cards'
  PROVE  CarriedAt(p, Continue(j, installed, clean), j)'
  <1>1. PICK next : next = Continue(j, installed, clean)
    OBVIOUS
  <1>2. /\ next \in {"reindex", "uncreate", "error"}
        /\ next = "reindex" => j.step = "commit" /\ clean
        /\ next = "uncreate" =>
              /\ j.kind = "move"
              /\ \/ j.step = "commit" /\ ~clean /\ ~installed
                 \/ j.step = "restore" /\ installed
    BY <1>1, ContinueStage
  <1>3. Carries("note", j.src)' => SomeFollows(j.src)'
    BY PlacesDiffer DEF Carries, SomeFollows, Copies
  <1>4. CardOf(j)' = CardOf(j)
    BY DEF CardOf
  <1>5. CarriedAt(p, next, j)'
    BY <1>2, <1>3, <1>4 DEF CarriedAt, Replacing
  <1>6. QED
    BY <1>1, <1>5

\* What a writer knows at a call of a replacement.
Knows(p, j) ==
  /\ j = job[p] /\ j \in Job /\ j # None /\ lock = p
  /\ Owned(p) /\ Shaped(pc[p], j) /\ CarriedAt(p, pc[p], j)
  /\ <<"op", j.op>> \notin saved
  /\ saved \cap ({"append"} \X Nat) = {}
  /\ NothingSavedIsLost /\ TaskOrCard

LEMMA AtReplacing ==
  ASSUME Typed, Secure, NEW p \in Procs, pc[p] \in Busy
  PROVE  Knows(p, job[p])
  BY AtCall DEF Secure, Promised, Knows

\* A call that leaves the job and the cards.
LEMMA SecureReplacing ==
  ASSUME Typed, Secure, NEW p \in Procs, NEW stage, NEW j, Knows(p, j),
         Goto(p, stage), job' = job, saved' = saved, Quiet,
         NothingSavedIsLost' /\ TaskOrCard', CarriedAt(p, stage, j)'
  PROVE  Secure'
  <1>1. job' = [job EXCEPT ![p] = j] /\ pc' = [pc EXCEPT ![p] = stage]
    BY SameJob DEF Knows, Goto
  <1>2. j \in Job /\ lock = p /\ j.op = job[p].op /\ job[p] # None /\ lock' = lock /\ ops' = ops
    BY DEF Knows, Quiet
  <1>3. QED
    BY <1>1, <1>2, SecureCall

\* What carries a version goes on to carry it.
LEMMA CarriesOn ==
  ASSUME NEW f, NEW g, NEW v, Carries(f, v), file'[g] = file[f],
         overwritten \subseteq overwritten', dropped => dropped'
  PROVE  Carries(g, v)'
  BY DEF Carries, Follows

LEMMA CarrierFollows ==
  ASSUME Typed, NEW f \in Places, NEW v, Carries(f, v)
  PROVE  SomeFollows(v)
  BY CopyIs DEF Carries, SomeFollows

LEMMA CreateTempSecure ==
  ASSUME Typed, Secure, NEW p \in Procs, NEW o \in Outcomes, CreateTemp(p, o)
  PROVE  Secure'
  <1>1. PICK j : j = job[p]
    OBVIOUS
  <1>2. /\ pc[p] = "temp" /\ job' = job /\ saved' = saved /\ Quiet
        /\ UNCHANGED <<preserved, fd, cards, overwritten, dropped>>
    BY DEF CreateTemp
  <1>3. Knows(p, j)
    BY <1>1, <1>2, AtReplacing DEF Busy, Replacing
  <1>4. j.src # None => Carries("note", Expected(j))
    BY <1>2, <1>3 DEF Knows, CarriedAt
  <1>5. j.kind = "move" => CardOf(j) \in cards
    BY <1>2, <1>3 DEF Knows, CarriedAt, Replacing
  <1>6. CASE o = "ok"
    <2>1. PICK stage : stage = IF j.src = None THEN "publish" ELSE "exchange"
      OBVIOUS
    <2>2. file' = [file EXCEPT ![p] = Prepared(j)] /\ Goto(p, stage)
      BY <1>1, <1>6, <2>1 DEF CreateTemp
    <2>3. /\ Prepared(j) \in Version
          /\ file'["note"] = file["note"] /\ file'[p] = Prepared(j)
      BY <1>3, <2>2, JobVersions, PlacesDiffer DEF Knows, Typed, TypeOK
    <2>4. Copies \subseteq Copies'
      BY <1>2, <1>3, <2>2, <2>3, FilesKeepCopies DEF Knows, Holding, Swapped
    <2>5. NothingSavedIsLost' /\ TaskOrCard'
      BY <1>2, <1>3, <2>4, CopiesStay DEF Knows
    <2>6. Prepared(j)' = Prepared(j) /\ Expected(j)' = Expected(j) /\ CardOf(j)' = CardOf(j)
      BY DEF Prepared, Expected, CardOf
    <2>7. j.src # None => Carries("note", Expected(j))'
      BY <1>2, <1>4, <2>3 DEF Carries, Follows
    <2>8. CarriedAt(p, stage, j)'
      BY <1>2, <1>5, <2>1, <2>3, <2>6, <2>7 DEF CarriedAt, Replacing
    <2>9. QED
      BY <1>2, <1>3, <2>2, <2>5, <2>8, SecureReplacing
  <1>7. CASE o # "ok"
    <2>1. UNCHANGED files /\ Goto(p, Continue(j, FALSE, FALSE))
      BY <1>1, <1>7 DEF CreateTemp, files
    <2>2. Copies \subseteq Copies'
      BY <1>3, <2>1, FilesKeepCopies DEF Knows
    <2>3. NothingSavedIsLost' /\ TaskOrCard'
      BY <1>2, <1>3, <2>2, CopiesStay DEF Knows
    <2>4. j.kind = "move" /\ j.step = "commit" => SomeFollows(j.src)'
      <3>1. j.kind = "move" /\ j.step = "commit" => SomeFollows(j.src)
        BY <1>3, <1>4, CarrierFollows, PlacesDiffer, JobVersions DEF Knows, Shaped
      <3>2. QED
        BY <1>2, <2>1, <2>2, <3>1 DEF SomeFollows, Follows
    <2>5. CarriedAt(p, Continue(j, FALSE, FALSE), j)'
      BY <1>2, <1>3, <1>5, <2>4, ContinueCarried DEF Knows, Replacing
    <2>6. QED
      BY <1>2, <1>3, <2>1, <2>3, <2>5, SecureReplacing
  <1>8. QED
    BY <1>6, <1>7

LEMMA ExchangeSecure ==
  ASSUME Typed, Secure, NEW p \in Procs, NEW o \in Outcomes, Exchange(p, o)
  PROVE  Secure'
  <1>1. PICK j : j = job[p]
    OBVIOUS
  <1>2. /\ pc[p] = "exchange" /\ job' = job /\ saved' = saved /\ Quiet
        /\ UNCHANGED <<cards, overwritten, dropped>>
    BY DEF Exchange
  <1>3. Knows(p, j)
    BY <1>1, <1>2, AtReplacing DEF Busy, Replacing
  <1>4. /\ j.src # None /\ Carries("note", Expected(j)) /\ file["note"] # None
        /\ file[p] = Prepared(j) /\ file[p] # None
    BY <1>2, <1>3 DEF Knows, Shaped, CarriedAt, Replacing, Carries, Owned, Holding
  <1>5. j.kind = "move" => CardOf(j) \in cards
    BY <1>2, <1>3 DEF Knows, CarriedAt, Replacing
  <1>6. Prepared(j)' = Prepared(j) /\ Expected(j)' = Expected(j) /\ CardOf(j)' = CardOf(j)
    BY DEF Prepared, Expected, CardOf
  <1>7. CASE o = "ok"
    <2>1. Swap(p) /\ Goto(p, "inspect")
      BY <1>7 DEF Exchange
    <2>2. file'["note"] = file[p] /\ file'[p] = file["note"]
      BY <1>4, <2>1, SwapHandled DEF Swapped
    <2>3. NothingSavedIsLost' /\ TaskOrCard'
      BY <1>2, <1>3, <1>4, <2>1, FilesKeepCopies, CopiesStay DEF Knows
    <2>4. Carries(p, Expected(j))'
      BY <1>2, <1>4, <1>6, <2>2 DEF Carries, Follows
    <2>5. Carries("note", Prepared(j))'
      BY <1>4, <1>6, <2>2 DEF Carries, Follows, SameTask
    <2>6. CarriedAt(p, "inspect", j)'
      BY <1>2, <1>5, <1>6, <2>4, <2>5 DEF CarriedAt, Replacing
    <2>7. QED
      BY <1>2, <1>3, <2>1, <2>3, <2>6, SecureReplacing
  <1>8. CASE o # "ok"
    <2>1. Remove(p) /\ Goto(p, Continue(j, FALSE, FALSE))
      BY <1>1, <1>8 DEF Exchange
    <2>2. file[p].edits \cap saved \subseteq file["note"].edits \cup overwritten
      BY <1>2, <1>3, <1>4, ReplacedEdits DEF Knows, Carries, Replacing
    <2>3. Good(file[p]) => dropped \/ Good(file["note"])
      <3>1. CASE j.kind = "write"
        BY <1>3, <1>4, <3>1, OverwriteHoldsNone DEF Knows
      <3>2. CASE j.kind # "write"
        <4>1. Good(file[p]) => Good(Expected(j))
          BY <1>2, <1>3, <1>4, <1>5, <3>2, BothGood DEF Knows, Replacing
        <4>2. QED
          BY <1>4, <4>1, FollowsGood DEF Carries
      <3>3. QED
        BY <3>1, <3>2
    <2>4. NothingSavedIsLost' /\ TaskOrCard'
      BY <1>2, <1>3, <1>4, <2>1, <2>2, <2>3, TempIsRemoved DEF Knows
    <2>5. file'["note"] = file["note"]
      BY <2>1, <1>8, RemoveHandled DEF Holding, Swapped, Remove, Typed, TypeOK, Places
    <2>6. Carries("note", Expected(j))'
      BY <1>2, <1>4, <1>6, <2>5 DEF Carries, Follows
    <2>7. j.step = "commit" => SomeFollows(j.src)'
      <3>1. j.step = "commit" => Expected(j) = j.src
        BY <1>3, JobVersions DEF Knows
      <3>2. QED
        BY <2>6, <3>1, PlacesDiffer DEF Carries, SomeFollows, Copies
    <2>8. CarriedAt(p, Continue(j, FALSE, FALSE), j)'
      BY <1>2, <1>3, <1>5, <2>7, ContinueCarried DEF Knows, Replacing
    <2>9. QED
      BY <1>2, <1>3, <2>1, <2>4, <2>8, SecureReplacing
  <1>9. QED
    BY <1>7, <1>8

LEMMA InspectSecure ==
  ASSUME Typed, Secure, NEW p \in Procs, NEW o \in Outcomes, Inspect(p, o)
  PROVE  Secure'
  <1>1. PICK j : j = job[p]
    OBVIOUS
  <1>2. /\ pc[p] = "inspect" /\ job' = job /\ saved' = saved /\ Quiet
        /\ UNCHANGED <<files, cards, overwritten, dropped>>
    BY DEF Inspect, NoFiles
  <1>3. Knows(p, j)
    BY <1>1, <1>2, AtReplacing DEF Busy, Replacing
  <1>4. Carries(p, Expected(j)) /\ Carries("note", Prepared(j))
    BY <1>2, <1>3 DEF Knows, CarriedAt
  <1>5. j.kind = "move" => CardOf(j) \in cards
    BY <1>2, <1>3 DEF Knows, CarriedAt, Replacing
  <1>6. Prepared(j)' = Prepared(j) /\ Expected(j)' = Expected(j) /\ CardOf(j)' = CardOf(j)
    BY DEF Prepared, Expected, CardOf
  <1>7. NothingSavedIsLost' /\ TaskOrCard'
    BY <1>2, <1>3, FilesKeepCopies, CopiesStay DEF Knows
  <1>8. Carries(p, Expected(j))' /\ Carries("note", Prepared(j))'
    BY <1>2, <1>4, <1>6 DEF Carries, Follows, files
  <1>9. PICK stage \in {"unlink", "back"} :
          Goto(p, stage) /\ (stage = "unlink" => file[p] = Expected(j))
    BY <1>1 DEF Inspect
  <1>10. stage = "unlink" => Grown(file[p], Expected(j))'
    BY <1>2, <1>6, <1>9 DEF Grown, SameTask, files
  <1>11. CarriedAt(p, stage, j)'
    BY <1>2, <1>5, <1>6, <1>8, <1>9, <1>10 DEF CarriedAt, Replacing
  <1>12. QED
    BY <1>2, <1>3, <1>7, <1>9, <1>11, SecureReplacing

LEMMA UnlinkSecure ==
  ASSUME Typed, Secure, NEW p \in Procs, NEW o \in Outcomes, Unlink(p, o)
  PROVE  Secure'
  <1>1. PICK j : j = job[p]
    OBVIOUS
  <1>2. /\ pc[p] = "unlink" /\ job' = job /\ saved' = saved /\ Quiet /\ cards' = cards
        /\ Goto(p, Continue(j, TRUE, o = "ok"))
        /\ Remove(p) \/ Leave(p)
        /\ overwritten' = IF j.kind = "write" THEN overwritten \cup j.src.edits ELSE overwritten
        /\ dropped' = (dropped \/ (j.kind = "write" /\ j.src.line # "none"))
    BY <1>1 DEF Unlink, Supersede
  <1>3. Knows(p, j)
    BY <1>1, <1>2, AtReplacing DEF Busy, Replacing
  <1>4. /\ j.src # None /\ Carries("note", Prepared(j)) /\ file["note"] # None
        /\ Grown(file[p], Expected(j)) /\ file[p] # None
    BY <1>2, <1>3 DEF Knows, Shaped, CarriedAt, Replacing, Carries, Owned, Holding, Swapped
  <1>5. j.kind = "move" => CardOf(j) \in cards
    BY <1>2, <1>3 DEF Knows, CarriedAt, Replacing
  <1>6. overwritten \subseteq overwritten' /\ (dropped => dropped')
    BY <1>2
  <1>7. file'["note"] = file["note"]
    BY <1>2, RemoveHandled, LeaveHandled DEF Holding, Swapped, Remove, Leave, Typed, TypeOK, Places
  <1>8. NothingSavedIsLost' /\ TaskOrCard'
    <2>1. CASE Leave(p)
      BY <1>2, <1>3, <1>6, <2>1, FilesKeepCopies, CopiesStay DEF Knows
    <2>2. CASE Remove(p)
      <3>1. file[p].edits \cap saved \subseteq Expected(j).edits
        BY <1>3, <1>4 DEF Grown, Knows
      <3>2. Good(file[p]) <=> Good(Expected(j))
        BY <1>4 DEF Grown, SameTask, Good
      <3>3. CASE j.kind = "write"
        <4>1. Expected(j) = j.src
          BY <1>3, <3>3, OverwriteHoldsNone DEF Knows
        <4>2. Good(j.src) => j.src.line # "none"
          BY DEF Good
        <4>3. QED
          BY <1>2, <1>3, <1>4, <1>6, <2>2, <3>1, <3>2, <3>3, <4>1, <4>2, TempIsRemoved DEF Knows
      <3>4. CASE j.kind # "write"
        <4>1. Expected(j).edits \subseteq Prepared(j).edits
          BY <1>2, <1>3, <1>4, <3>4, ReplacedEdits DEF Knows, Replacing
        <4>2. Good(Expected(j)) => Good(Prepared(j))
          BY <1>2, <1>3, <1>4, <1>5, <3>4, BothGood DEF Knows, Replacing
        <4>3. Good(Prepared(j)) => dropped \/ Good(file["note"])
          BY <1>4, FollowsGood DEF Carries
        <4>4. file[p].edits \cap saved \subseteq file["note"].edits \cup overwritten'
          BY <1>4, <1>6, <3>1, <4>1 DEF Carries
        <4>5. QED
          BY <1>2, <1>3, <1>4, <1>6, <2>2, <3>2, <4>2, <4>3, <4>4, TempIsRemoved DEF Knows
      <3>5. QED
        BY <3>3, <3>4
    <2>3. QED
      BY <1>2, <2>1, <2>2
  <1>9. Carries("note", Prepared(j))'
    <2>1. Prepared(j)' = Prepared(j)
      BY DEF Prepared
    <2>2. QED
      BY <1>4, <1>6, <1>7, <2>1 DEF Carries, Follows
  <1>10. /\ j.step = "commit" => Carries("note", j.updated)'
         /\ j.step = "restore" => Carries("note", j.src)'
    <2>1. /\ j.step = "commit" => Prepared(j) = j.updated
          /\ j.step = "restore" => Prepared(j) = j.src
      BY <1>3, JobVersions DEF Knows
    <2>2. Prepared(j)' = Prepared(j)
      BY DEF Prepared
    <2>3. QED
      BY <1>9, <2>1, <2>2 DEF Carries
  <1>11. CarriedAt(p, Continue(j, TRUE, o = "ok"), j)'
    BY <1>2, <1>3, <1>5, <1>10, ContinueCarried DEF Knows, Replacing
  <1>12. QED
    BY <1>2, <1>3, <1>8, <1>11, SecureReplacing

LEMMA ExchangeBackSecure ==
  ASSUME Typed, Secure, NEW p \in Procs, NEW o \in Outcomes, ExchangeBack(p, o)
  PROVE  Secure'
  <1>1. PICK j : j = job[p]
    OBVIOUS
  <1>2. /\ pc[p] = "back" /\ job' = job /\ saved' = saved /\ Quiet
        /\ UNCHANGED <<cards, overwritten, dropped>>
    BY DEF ExchangeBack
  <1>3. Knows(p, j)
    BY <1>1, <1>2, AtReplacing DEF Busy, Replacing
  <1>4. /\ Carries(p, Expected(j)) /\ Carries("note", Prepared(j))
        /\ file["note"] # None /\ file[p] # None
    BY <1>2, <1>3 DEF Knows, CarriedAt, Carries
  <1>5. j.kind = "move" => CardOf(j) \in cards
    BY <1>2, <1>3 DEF Knows, CarriedAt, Replacing
  <1>6. Expected(j)' = Expected(j) /\ CardOf(j)' = CardOf(j)
    BY DEF Expected, CardOf
  <1>7. CASE o = "ok"
    <2>1. Swap(p) /\ Goto(p, "inspectBack")
      BY <1>7 DEF ExchangeBack
    <2>2. file'["note"] = file[p]
      BY <1>4, <2>1, SwapHandled DEF Swapped
    <2>3. NothingSavedIsLost' /\ TaskOrCard'
      BY <1>2, <1>3, <1>4, <2>1, FilesKeepCopies, CopiesStay DEF Knows
    <2>4. Carries("note", Expected(j))'
      BY <1>2, <1>4, <1>6, <2>2 DEF Carries, Follows
    <2>5. CarriedAt(p, "inspectBack", j)'
      BY <1>2, <1>5, <1>6, <2>4 DEF CarriedAt, Replacing
    <2>6. QED
      BY <1>2, <1>3, <2>1, <2>3, <2>5, SecureReplacing
  <1>8. CASE o # "ok"
    <2>1. Leave(p) /\ Goto(p, "current")
      BY <1>8 DEF ExchangeBack
    <2>2. file'["note"] = file["note"]
      BY <2>1, PlacesDiffer DEF Leave, Typed, TypeOK
    <2>3. Copies \subseteq Copies'
      BY <1>3, <2>1, FilesKeepCopies DEF Knows
    <2>4. NothingSavedIsLost' /\ TaskOrCard'
      BY <1>2, <1>3, <2>3, CopiesStay DEF Knows
    <2>5. SomeFollows(Expected(j))'
      <3>1. SomeFollows(Expected(j))
        BY <1>4, CarrierFollows, PlacesDiffer
      <3>2. QED
        BY <1>2, <1>6, <2>3, <3>1 DEF SomeFollows, Follows
    <2>6. CarriedAt(p, "current", j)'
      BY <1>2, <1>4, <1>5, <1>6, <2>2, <2>5 DEF CarriedAt, Replacing
    <2>7. QED
      BY <1>2, <1>3, <2>1, <2>4, <2>6, SecureReplacing
  <1>9. QED
    BY <1>7, <1>8

LEMMA InspectBackSecure ==
  ASSUME Typed, Secure, NEW p \in Procs, NEW o \in Outcomes, InspectBack(p, o)
  PROVE  Secure'
  <1>1. PICK j : j = job[p]
    OBVIOUS
  <1>2. /\ pc[p] = "inspectBack" /\ job' = job /\ saved' = saved /\ Quiet
        /\ UNCHANGED <<cards, overwritten, dropped>>
    BY DEF InspectBack
  <1>3. Knows(p, j)
    BY <1>1, <1>2, AtReplacing DEF Busy, Replacing
  <1>4. Carries("note", Expected(j)) /\ file["note"] # None
    BY <1>2, <1>3 DEF Knows, CarriedAt, Carries
  <1>5. j.kind = "move" => CardOf(j) \in cards
    BY <1>2, <1>3 DEF Knows, CarriedAt, Replacing
  <1>6. Prepared(j)' = Prepared(j) /\ Expected(j)' = Expected(j) /\ CardOf(j)' = CardOf(j)
    BY DEF Prepared, Expected, CardOf
  <1>7. \/ UNCHANGED files /\ Goto(p, "unlinkBack") /\ file[p] = Prepared(j)
        \/ Leave(p) /\ Goto(p, "current")
    BY <1>1 DEF InspectBack
  <1>8. Copies \subseteq Copies'
    BY <1>3, <1>7, FilesKeepCopies DEF Knows
  <1>9. NothingSavedIsLost' /\ TaskOrCard'
    BY <1>2, <1>3, <1>8, CopiesStay DEF Knows
  <1>10. file'["note"] = file["note"]
    BY <1>7, PlacesDiffer DEF Leave, files, Typed, TypeOK
  <1>11. Carries("note", Expected(j))'
    BY <1>2, <1>4, <1>6, <1>10 DEF Carries, Follows
  <1>12. SomeFollows(Expected(j))'
    <2>1. SomeFollows(Expected(j))
      BY <1>4, CarrierFollows, PlacesDiffer
    <2>2. QED
      BY <1>2, <1>6, <1>8, <2>1 DEF SomeFollows, Follows
  <1>13. UNCHANGED files /\ file[p] = Prepared(j) => CarriedAt(p, "unlinkBack", j)'
    BY <1>2, <1>5, <1>6, <1>11 DEF CarriedAt, Replacing, Grown, SameTask, files
  <1>14. CarriedAt(p, "current", j)'
    BY <1>2, <1>4, <1>5, <1>6, <1>10, <1>12 DEF CarriedAt, Replacing
  <1>15. QED
    BY <1>2, <1>3, <1>7, <1>9, <1>13, <1>14, SecureReplacing

LEMMA UnlinkBackSecure ==
  ASSUME Typed, Secure, NEW p \in Procs, NEW o \in Outcomes, UnlinkBack(p, o)
  PROVE  Secure'
  <1>1. PICK j : j = job[p]
    OBVIOUS
  <1>2. /\ pc[p] = "unlinkBack" /\ job' = job /\ saved' = saved /\ Quiet
        /\ UNCHANGED <<cards, overwritten, dropped>>
    BY DEF UnlinkBack
  <1>3. Knows(p, j)
    BY <1>1, <1>2, AtReplacing DEF Busy, Replacing
  <1>4. /\ j.src # None /\ Carries("note", Expected(j)) /\ file["note"] # None
        /\ Grown(file[p], Prepared(j))
    BY <1>2, <1>3 DEF Knows, Shaped, CarriedAt, Replacing, Carries
  <1>5. j.kind = "move" => CardOf(j) \in cards
    BY <1>2, <1>3 DEF Knows, CarriedAt, Replacing
  <1>6. Expected(j)' = Expected(j) /\ CardOf(j)' = CardOf(j)
    BY DEF Expected, CardOf
  <1>7. \/ Remove(p) /\ Goto(p, Continue(j, FALSE, FALSE))
        \/ Leave(p) /\ Goto(p, "current")
    BY <1>1 DEF UnlinkBack
  <1>8. file'["note"] = file["note"]
    BY <1>7, PlacesDiffer DEF Leave, Remove, Typed, TypeOK
  <1>9. Carries("note", Expected(j))'
    BY <1>2, <1>4, <1>6, <1>8 DEF Carries, Follows
  <1>10. SomeFollows(Expected(j))'
    BY <1>6, <1>9, PlacesDiffer DEF Carries, SomeFollows, Copies
  <1>11. CASE Leave(p) /\ Goto(p, "current")
    <2>1. NothingSavedIsLost' /\ TaskOrCard'
      BY <1>2, <1>3, <1>11, FilesKeepCopies, CopiesStay DEF Knows
    <2>2. CarriedAt(p, "current", j)'
      BY <1>2, <1>4, <1>5, <1>6, <1>8, <1>10 DEF CarriedAt, Replacing
    <2>3. QED
      BY <1>2, <1>3, <1>11, <2>1, <2>2, SecureReplacing
  <1>12. CASE Remove(p) /\ Goto(p, Continue(j, FALSE, FALSE))
    <2>1. file[p].edits \cap saved \subseteq file["note"].edits \cup overwritten'
      <3>1. file[p].edits \cap saved \subseteq Prepared(j).edits
        BY <1>3, <1>4 DEF Grown, Knows
      <3>2. Prepared(j).edits \cap saved \subseteq Expected(j).edits
        BY <1>2, <1>3, <1>4, ReplacedEdits DEF Knows, Replacing
      <3>3. QED
        BY <1>2, <1>4, <3>1, <3>2 DEF Carries
    <2>2. Good(file[p]) => dropped' \/ Good(file["note"])
      <3>1. Good(file[p]) <=> Good(Prepared(j))
        BY <1>4 DEF Grown, SameTask, Good
      <3>2. CASE j.kind = "write"
        BY <1>3, <3>1, <3>2, OverwriteHoldsNone DEF Knows
      <3>3. CASE j.kind # "write"
        <4>1. Good(Prepared(j)) => Good(Expected(j))
          BY <1>2, <1>3, <1>4, <1>5, <3>3, BothGood DEF Knows, Replacing
        <4>2. QED
          BY <1>2, <1>4, <3>1, <4>1, FollowsGood DEF Carries
      <3>4. QED
        BY <3>2, <3>3
    <2>3. NothingSavedIsLost' /\ TaskOrCard'
      BY <1>2, <1>3, <1>4, <1>12, <2>1, <2>2, TempIsRemoved DEF Knows
    <2>4. j.step = "commit" => SomeFollows(j.src)'
      <3>1. j.step = "commit" => Expected(j) = j.src
        BY <1>3, JobVersions DEF Knows
      <3>2. QED
        BY <1>6, <1>10, <3>1 DEF SomeFollows, Follows
    <2>5. CarriedAt(p, Continue(j, FALSE, FALSE), j)'
      BY <1>2, <1>3, <1>5, <2>4, ContinueCarried DEF Knows, Replacing
    <2>6. QED
      BY <1>2, <1>3, <1>12, <2>3, <2>5, SecureReplacing
  <1>13. QED
    BY <1>7, <1>11, <1>12

LEMMA CurrentSecure ==
  ASSUME Typed, Secure, NEW p \in Procs, NEW o \in Outcomes, Current(p, o)
  PROVE  Secure'
  <1>1. PICK j : j = job[p]
    OBVIOUS
  <1>2. /\ pc[p] = "current" /\ job' = job /\ saved' = saved /\ Quiet
        /\ UNCHANGED <<files, cards, overwritten, dropped>>
    BY DEF Current, NoFiles
  <1>3. Knows(p, j)
    BY <1>1, <1>2, AtReplacing DEF Busy, Replacing
  <1>4. SomeFollows(Expected(j)) /\ file["note"] # None
    BY <1>2, <1>3 DEF Knows, CarriedAt
  <1>5. j.kind = "move" => CardOf(j) \in cards
    BY <1>2, <1>3 DEF Knows, CarriedAt, Replacing
  <1>6. PICK installed \in BOOLEAN :
          /\ Goto(p, Continue(j, installed, FALSE))
          /\ installed => file["note"] = Prepared(j)
    BY <1>1 DEF Current
  <1>7. Copies \subseteq Copies'
    BY <1>2, <1>3, FilesKeepCopies DEF Knows
  <1>8. NothingSavedIsLost' /\ TaskOrCard'
    BY <1>2, <1>3, <1>7, CopiesStay DEF Knows
  <1>9. j.step = "commit" => SomeFollows(j.src)'
    <2>1. j.step = "commit" => Expected(j) = j.src
      BY <1>3, JobVersions DEF Knows
    <2>2. QED
      BY <1>2, <1>4, <1>7, <2>1 DEF SomeFollows, Follows
  <1>10. j.step = "restore" /\ installed => Carries("note", j.src)'
    <2>1. j.step = "restore" => Prepared(j) = j.src
      BY <1>3, JobVersions DEF Knows
    <2>2. QED
      BY <1>2, <1>4, <1>6, <2>1 DEF Carries, Follows, SameTask, files
  <1>11. CarriedAt(p, Continue(j, installed, FALSE), j)'
    BY <1>2, <1>3, <1>5, <1>9, <1>10, ContinueCarried DEF Knows, Replacing
  <1>12. QED
    BY <1>2, <1>3, <1>6, <1>8, <1>11, SecureReplacing

LEMMA CreateCardSecure ==
  ASSUME Typed, Secure, NEW p \in Procs, NEW o \in Outcomes \cup {"late"}, CreateCard(p, o)
  PROVE  Secure'
  <1>1. PICK j : j = job[p]
    OBVIOUS
  <1>2. /\ pc[p] = "card" /\ job' = job /\ saved' = saved /\ Quiet
        /\ UNCHANGED <<files, overwritten, dropped>>
    BY DEF CreateCard, NoFiles
  <1>3. Knows(p, j)
    BY <1>1, <1>2, AtReplacing DEF Busy
  <1>4. \/ cards' = cards /\ Goto(p, "error")
        \/ cards' = cards \cup {CardOf(j)} /\ Goto(p, "temp")
    BY <1>1 DEF CreateCard
  <1>5. NothingSavedIsLost' /\ TaskOrCard'
    BY <1>2, <1>3, <1>4, FilesKeepCopies, CopiesStay DEF Knows
  <1>6. CardOf(j)' = CardOf(j) /\ Expected(j)' = Expected(j)
    BY DEF CardOf, Expected
  <1>7. j.src # None => Carries("note", Expected(j))'
    BY <1>2, <1>3, <1>6 DEF Knows, CarriedAt, Carries, Follows, files
  <1>8. CarriedAt(p, "error", j)'
    BY DEF CarriedAt, Replacing
  <1>9. CardOf(j) \in cards' => CarriedAt(p, "temp", j)'
    BY <1>6, <1>7 DEF CarriedAt, Replacing
  <1>10. QED
    BY <1>2, <1>3, <1>4, <1>5, <1>8, <1>9, SecureReplacing

LEMMA ReindexSecure ==
  ASSUME Typed, Secure, NEW p \in Procs, Reindex(p)
  PROVE  Secure'
  <1>1. PICK j : j = job[p]
    OBVIOUS
  <1>2. /\ pc[p] = "reindex" /\ saved' = saved /\ Quiet
        /\ UNCHANGED <<files, cards, overwritten, dropped>>
    BY DEF Reindex, NoFiles
  <1>3. Knows(p, j)
    BY <1>1, <1>2, AtReplacing DEF Busy
  <1>4. NothingSavedIsLost' /\ TaskOrCard'
    BY <1>2, <1>3, FilesKeepCopies, CopiesStay DEF Knows
  <1>5. j.kind # "dispose" => Carries("note", j.updated) /\ Carries("note", j.updated)'
    BY <1>2, <1>3 DEF Knows, CarriedAt, Carries, Follows, files
  <1>6. CASE job' = job /\ (Goto(p, "ok") \/ Goto(p, "error"))
    <2>1. CarriedAt(p, "ok", j)'
      BY <1>5 DEF CarriedAt, Replacing
    <2>2. CarriedAt(p, "error", j)'
      BY DEF CarriedAt, Replacing
    <2>3. QED
      BY <1>2, <1>3, <1>4, <1>6, <2>1, <2>2, SecureReplacing
  <1>7. CASE /\ j.kind = "move" /\ job' = [job EXCEPT ![p].step = "restore"]
             /\ Goto(p, "temp")
    <2>1. PICK k : k = [j EXCEPT !.step = "restore"]
      OBVIOUS
    <2>2. /\ k \in Job /\ job' = [job EXCEPT ![p] = k] /\ k.op = j.op /\ k.src = j.src
          /\ k.kind = j.kind /\ k.updated = j.updated /\ k.step = "restore"
      BY <1>1, <1>3, <1>7, <2>1 DEF Knows, Job, Typed, TypeOK
    <2>3. Expected(k)' = j.updated
      BY <2>2 DEF Expected
    <2>4. CardOf(j) \in cards /\ CardOf(k)' = CardOf(j)
      BY <1>2, <1>3, <1>7, <2>2 DEF Knows, CarriedAt, CardOf
    <2>5. CarriedAt(p, "temp", k)'
      BY <1>2, <1>5, <1>7, <2>2, <2>3, <2>4 DEF CarriedAt, Replacing
    <2>6. pc' = [pc EXCEPT ![p] = "temp"] /\ job[p] # None /\ lock = p
      BY <1>1, <1>3, <1>7 DEF Goto, Knows
    <2>7. QED
      BY <1>1, <1>2, <1>4, <2>2, <2>5, <2>6, SecureCall DEF Quiet
  <1>8. QED
    BY <1>1, <1>6, <1>7 DEF Reindex

LEMMA DeleteCardSecure ==
  ASSUME Typed, Secure, NEW p \in Procs, NEW o \in Outcomes \cup {"late"}, DeleteCard(p, o)
  PROVE  Secure'
  <1>1. PICK j : j = job[p]
    OBVIOUS
  <1>2. /\ pc[p] = "uncreate" /\ saved' = saved /\ Quiet
        /\ UNCHANGED <<files, overwritten, dropped>>
        /\ cards' = IF o = "fail" THEN cards ELSE cards \ {CardOf(j)}
    BY <1>1 DEF DeleteCard, NoFiles
  <1>3. Knows(p, j)
    BY <1>1, <1>2, AtReplacing DEF Busy
  <1>4. /\ j.kind = "move" /\ j.src.line = "open" /\ SomeFollows(j.src)
        /\ CardOf(j) \in cards /\ (j.step = "restore" => Carries("note", j.src))
    BY <1>2, <1>3 DEF Knows, Shaped, CarriedAt
  <1>5. Copies' = Copies
    BY <1>2 DEF Copies, files
  <1>6. NothingSavedIsLost'
    BY <1>2, <1>3, <1>5 DEF Knows, NothingSavedIsLost, Kept
  <1>7. TaskOrCard'
    BY <1>2, <1>4, <1>5 DEF SomeFollows, Follows, SameTask, TaskOrCard
  <1>8. CASE ~(o = "fail" /\ j.step = "restore")
    <2>1. job' = job /\ Goto(p, "error")
      BY <1>1, <1>8 DEF DeleteCard
    <2>2. CarriedAt(p, "error", j)'
      BY DEF CarriedAt, Replacing
    <2>3. QED
      BY <1>2, <1>3, <1>6, <1>7, <2>1, <2>2, SecureReplacing
  <1>9. CASE o = "fail" /\ j.step = "restore"
    <2>1. job' = [job EXCEPT ![p].step = "reapply"] /\ Goto(p, "temp") /\ cards' = cards
      BY <1>1, <1>9 DEF DeleteCard
    <2>2. PICK k : k = [j EXCEPT !.step = "reapply"]
      OBVIOUS
    <2>3. /\ k \in Job /\ job' = [job EXCEPT ![p] = k] /\ k.op = j.op /\ k.src = j.src
          /\ k.kind = j.kind /\ k.step = "reapply"
      BY <1>1, <1>3, <2>1, <2>2 DEF Knows, Job, Typed, TypeOK
    <2>4. Expected(k)' = j.src /\ CardOf(k)' = CardOf(j)
      BY <2>3 DEF Expected, CardOf
    <2>5. Carries("note", j.src)'
      BY <1>2, <1>4, <1>9 DEF Carries, Follows, files
    <2>6. CarriedAt(p, "temp", k)'
      BY <1>4, <2>1, <2>3, <2>4, <2>5 DEF CarriedAt, Replacing
    <2>7. pc' = [pc EXCEPT ![p] = "temp"] /\ job[p] # None /\ lock = p
      BY <1>1, <1>3, <2>1 DEF Goto, Knows
    <2>8. QED
      BY <1>1, <1>2, <1>6, <1>7, <2>3, <2>6, <2>7, SecureCall DEF Quiet
  <1>10. QED
    BY <1>8, <1>9

LEMMA PublishSecure ==
  ASSUME Typed, Secure, NEW p \in Procs, NEW o \in Outcomes, Publish(p, o)
  PROVE  Secure'
  <1>1. PICK j : j = job[p]
    OBVIOUS
  <1>2. /\ pc[p] = "publish" /\ job' = job /\ saved' = saved /\ Quiet
        /\ UNCHANGED <<cards, overwritten, dropped>>
    BY DEF Publish
  <1>3. Knows(p, j)
    BY <1>1, <1>2, AtReplacing DEF Busy
  <1>4. /\ j.kind = "write" /\ file[p] = Prepared(j) /\ file[p] # None
        /\ Prepared(j) = j.updated
    BY <1>2, <1>3, OverwriteHoldsNone
    DEF Knows, Shaped, CarriedAt, Owned, Holding
  <1>5. CASE o = "ok" /\ file["note"] = None
    <2>1. /\ file' = [file EXCEPT !["note"] = file[p], ![p] = None] /\ preserved' = preserved
          /\ Goto(p, "reindex")
      BY <1>5 DEF Publish
    <2>2. /\ file'["note"] = j.updated /\ file'[p] = None
          /\ \A f \in Places \ {p, "note"} : file'[f] = file[f]
      BY <1>4, <2>1, PlacesDiffer DEF Typed, TypeOK
    <2>3. Copies \subseteq Copies'
      <3>1. ASSUME NEW v, v \in preserved \/ \E f \in Places : file[f] # None /\ v = file[f]
            PROVE  v \in preserved' \/ \E f \in Places : file'[f] # None /\ v = file'[f]
        BY <1>4, <1>5, <2>1, <2>2, <3>1, PlacesDiffer
      <3>2. QED
        BY <3>1 DEF Copies
    <2>4. NothingSavedIsLost' /\ TaskOrCard'
      BY <1>2, <1>3, <2>3, CopiesStay DEF Knows
    <2>5. Carries("note", j.updated)'
      BY <1>4, <2>2 DEF Carries, Follows, SameTask
    <2>6. CarriedAt(p, "reindex", j)'
      BY <1>4, <2>5 DEF CarriedAt, Replacing
    <2>7. QED
      BY <1>2, <1>3, <2>1, <2>4, <2>6, SecureReplacing
  <1>6. CASE ~(o = "ok" /\ file["note"] = None)
    <2>1. Remove(p) /\ Goto(p, "error")
      BY <1>6 DEF Publish
    <2>2. file' = [file EXCEPT ![p] = None] /\ preserved' = preserved
      BY <2>1 DEF Remove
    <2>3. \A v \in Copies : v \in Copies' \/ v = j.updated
      <3>1. ASSUME NEW v, v \in preserved \/ \E f \in Places : file[f] # None /\ v = file[f]
            PROVE  \/ v = j.updated \/ v \in preserved'
                   \/ \E f \in Places : file'[f] # None /\ v = file'[f]
        BY <1>4, <2>2, <3>1, PlacesDiffer DEF Typed, TypeOK
      <3>2. QED
        BY <3>1 DEF Copies
    <2>4. j.updated.edits = {<<"op", j.op>>} /\ ~Good(j.updated)
      BY <1>3, <1>4, RewrittenVersion, OverwriteHoldsNone DEF Knows, Shaped, Job
    <2>5. NothingSavedIsLost'
      BY <1>2, <1>3, <2>3, <2>4 DEF Knows, NothingSavedIsLost, Kept
    <2>6. TaskOrCard'
      <3>1. TaskOrCard' <=> (dropped \/ \E v \in Copies : Good(v))'
        BY TaskOrCardIs, PTL
      <3>2. \A v : Good(v) => Good(v)'
        BY <1>2 DEF Good
      <3>3. QED
        BY <1>2, <1>3, <2>3, <2>4, <3>1, <3>2, TaskOrCardIs DEF Knows
    <2>7. CarriedAt(p, "error", j)'
      BY DEF CarriedAt, Replacing
    <2>8. QED
      BY <1>2, <1>3, <2>1, <2>5, <2>6, <2>7, SecureReplacing
  <1>7. QED
    BY <1>5, <1>6

LEMMA DisposingSecure ==
  ASSUME Typed, Secure, NEW p \in Procs, NEW o \in Outcomes,
         Dispose(p, o) \/ Verify(p, o) \/ Undispose(p, o)
  PROVE  Secure'
  <1>1. PICK j : j = job[p]
    OBVIOUS
  <1>2. /\ pc[p] \in Disposing /\ job' = job /\ saved' = saved /\ Quiet
        /\ UNCHANGED <<cards, overwritten, dropped>>
    BY DEF Dispose, Verify, Undispose, NoFiles, Disposing
  <1>3. Knows(p, j) /\ j.kind = "dispose"
    BY <1>1, <1>2, AtReplacing DEF Busy, Disposing, Knows, Shaped
  <1>4. PICK stage \in {"verify", "undispose", "reindex", "error"} :
          /\ Goto(p, stage)
          /\ \/ UNCHANGED files
             \/ RenameTo("note", "archive") /\ file["archive"] = None
             \/ RenameTo("archive", "note") /\ file["note"] = None
    BY DEF Dispose, Verify, Undispose, NoFiles
  <1>5. Copies \subseteq Copies'
    BY <1>3, <1>4, FilesKeepCopies, PlacesDiffer DEF Knows
  <1>6. NothingSavedIsLost' /\ TaskOrCard'
    BY <1>2, <1>3, <1>5, CopiesStay DEF Knows
  <1>7. CarriedAt(p, stage, j)'
    BY <1>3, <1>4 DEF CarriedAt, Replacing
  <1>8. QED
    BY <1>2, <1>3, <1>4, <1>6, <1>7, SecureReplacing

\* Those who do not hold the lock leave what its holder knows.
LEMMA CarriedStays ==
  ASSUME NEW p \in Procs, NEW j \in Job, NEW stage, Shaped(stage, j), CarriedAt(p, stage, j),
         cards' = cards,
         \A f \in {"note", p}, v \in Version : Carries(f, v) => Carries(f, v)',
         \A v \in Version : SomeFollows(v) => SomeFollows(v)',
         \A v \in Version : Grown(file[p], v) => Grown(file'[p], v),
         stage \in {"exchange", "publish"} => file'[p] = file[p],
         file["note"] # None => file'["note"] # None
  PROVE  CarriedAt(p, stage, j)'
  <1>1. Prepared(j)' = Prepared(j) /\ Expected(j)' = Expected(j) /\ CardOf(j)' = CardOf(j)
    BY DEF Prepared, Expected, CardOf
  <1>2. /\ j.updated \in Version /\ Prepared(j) \in Version
        /\ j.src # None => j.src \in Version /\ Expected(j) \in Version
    BY JobVersions
  <1>3. \A v \in Version : Grown(file[p], v)' <=> Grown(file'[p], v)
    BY DEF Grown, SameTask
  <1>4. stage \in {"inspect", "unlink", "back", "inspectBack", "unlinkBack", "current",
                   "uncreate"} => j.src # None
    BY DEF Shaped, Replacing
  <1>5. PICK x : x = Expected(j)
    OBVIOUS
  <1>6. PICK y : y = Prepared(j)
    OBVIOUS
  <1>7. /\ stage \in {"card", "temp", "exchange"} /\ j.src # None => Carries("note", x)
        /\ stage \in {"inspect", "unlink", "back"} => Carries(p, x) /\ Carries("note", y)
        /\ stage \in {"inspectBack", "unlinkBack"} => Carries("note", x)
        /\ stage = "unlink" => Grown(file[p], x)
        /\ stage = "unlinkBack" => Grown(file[p], y)
        /\ stage = "current" => SomeFollows(x)
        /\ stage \in {"reindex", "ok"} /\ j.kind # "dispose" => Carries("note", j.updated)
        /\ stage = "uncreate" => SomeFollows(j.src)
        /\ stage = "uncreate" /\ j.step = "restore" => Carries("note", j.src)
    BY <1>5, <1>6 DEF CarriedAt
  <1>8. y \in Version /\ (j.src # None => x \in Version)
    BY <1>2, <1>5, <1>6
  <1>9. /\ stage \in {"card", "temp", "exchange"} /\ j.src # None => Carries("note", x)'
        /\ stage \in {"inspect", "unlink", "back"} => Carries(p, x)' /\ Carries("note", y)'
        /\ stage \in {"inspectBack", "unlinkBack"} => Carries("note", x)'
        /\ stage = "unlink" => Grown(file'[p], x)
        /\ stage = "unlinkBack" => Grown(file'[p], y)
        /\ stage = "current" => SomeFollows(x)'
        /\ stage \in {"reindex", "ok"} /\ j.kind # "dispose" => Carries("note", j.updated)'
        /\ stage = "uncreate" => SomeFollows(j.src)'
        /\ stage = "uncreate" /\ j.step = "restore" => Carries("note", j.src)'
    BY <1>2, <1>4, <1>7, <1>8
  <1>10. Expected(j)' = x /\ Prepared(j)' = y
    BY <1>1, <1>5, <1>6
  <1>11. /\ Carries("note", x)' => Carries("note", Expected(j))'
         /\ Carries(p, x)' => Carries(p, Expected(j))'
         /\ Carries("note", y)' => Carries("note", Prepared(j))'
         /\ Grown(file'[p], x) => Grown(file[p], Expected(j))'
         /\ Grown(file'[p], y) => Grown(file[p], Prepared(j))'
    BY <1>10 DEF Carries, Follows, SameTask, Grown
  <1>12. SomeFollows(x)' => SomeFollows(Expected(j))'
    BY <1>10 DEF SomeFollows, Follows, SameTask
  <1>13. QED
    BY <1>1, <1>9, <1>11, <1>12 DEF CarriedAt

\* In particular a step that touches neither files nor history.
LEMMA CarriedQuietly ==
  ASSUME Typed, Secure, NEW q \in Procs, lock = q,
         UNCHANGED <<file, preserved, cards, overwritten, dropped>>,
         job'[q] = job[q], pc'[q] = pc[q]
  PROVE  CarriedAt(q, pc[q], job[q])'
  <1>1. PICK j, stage : j = job[q] /\ stage = pc[q]
    OBVIOUS
  <1>2. j \in Job /\ Shaped(stage, j) /\ CarriedAt(q, stage, j)
    BY <1>1, PlacesDiffer DEF Secure, Typed, TypeOK, Disciplined, Owned
  <1>3. \A f, v : Carries(f, v) => Carries(f, v)'
    BY DEF Carries, Follows
  <1>4. \A v : SomeFollows(v) => SomeFollows(v)'
    BY DEF SomeFollows, Follows, Copies
  <1>5. file' = file /\ cards' = cards
    OBVIOUS
  <1>6. CarriedAt(q, stage, j)'
    BY <1>2, <1>3, <1>4, <1>5, CarriedStays
  <1>7. QED
    BY <1>1, <1>6 DEF CarriedAt, Carries, SomeFollows

LEMMA RequestSecure ==
  ASSUME Typed, Secure, Typed', NEW p \in Procs, NEW kind \in Kinds, Request(p, kind)
  PROVE  Secure'
  <1>1. /\ pc[p] = "idle" /\ ops' = ops + 1
        /\ UNCHANGED <<files, cards, lock, ghosts>>
        /\ \A q \in Procs \ {p} : pc'[q] = pc[q] /\ job'[q] = job[q]
    BY DEF Request, Goto, Typed, TypeOK
  <1>2. job'[p].op = ops + 1
    BY DEF Request, Typed, TypeOK
  <1>3. saved' = saved /\ UNCHANGED <<files, file, preserved, cards, overwritten, dropped>>
    BY <1>1 DEF ghosts, files
  <1>4. \A e \in saved : e[1] = "op" => e[2] <= ops
    BY DEF Secure, Numbered
  <1>5. <<"op", ops + 1>> \notin saved
    BY <1>4 DEF Typed, TypeOK
  <1>6. ops \in Nat /\ \A q \in Procs \ {p} : job'[q] # None => job'[q].op \in Nat
    BY <1>1 DEF Typed, TypeOK, Job
  <1>7. Promised'
    BY <1>1, <1>2, <1>3, <1>5 DEF Secure, Promised
  <1>8. Numbered'
    <2>1. \A q \in Procs : job'[q] # None => job'[q].op <= ops'
      BY <1>1, <1>2, <1>6 DEF Secure, Numbered
    <2>2. ASSUME NEW q \in Procs, NEW r \in Procs, q # r, job'[q] # None, job'[r] # None
          PROVE  job'[q].op # job'[r].op
      BY <1>1, <1>2, <1>6, <2>2 DEF Secure, Numbered
    <2>3. \A e \in saved' : e[1] = "op" => e[2] <= ops'
      <3>1. ASSUME NEW e \in saved, e[1] = "op"
            PROVE  e[2] <= ops + 1
        <4>1. e[2] <= ops /\ e[2] \in Nat
          BY <1>4, <3>1 DEF Typed, TypeOK, Edits
        <4>2. QED
          BY <1>6, <4>1
      <3>2. QED
        BY <1>1, <1>3, <3>1
    <2>4. QED
      BY <2>1, <2>2, <2>3 DEF Numbered
  <1>9. NothingSavedIsLost' /\ TaskOrCard'
    BY <1>3 DEF Secure, NothingSavedIsLost, TaskOrCard, Kept, Copies, files
  <1>10. lock # p /\ lock' = lock
    BY <1>1 DEF Typed, Disciplined, Owned
  <1>11. \A q \in Procs : lock' = q => CarriedAt(q, pc[q], job[q])'
    BY <1>1, <1>3, <1>10, CarriedQuietly
  <1>12. QED
    BY <1>7, <1>8, <1>9, <1>11 DEF Secure

\* Taking up, refusing and opening change no file and no history.
LEMMA QuietSecure ==
  ASSUME Typed, Secure, NEW p \in Procs,
         UNCHANGED <<file, preserved, cards, saved, overwritten, dropped, ops>>,
         \A q \in Procs \ {p} : pc'[q] = pc[q] /\ job'[q] = job[q],
         job[p] # None => job'[p] # None /\ job'[p].op = job[p].op,
         job'[p] # None => job[p] # None,
         lock' = p => CarriedAt(p, pc[p], job[p])',
         lock' \in {lock, p}
  PROVE  Secure'
  <1>1. Promised' /\ Numbered'
    BY DEF Secure, Promised, Numbered
  <1>2. NothingSavedIsLost' /\ TaskOrCard'
    BY DEF Secure, NothingSavedIsLost, TaskOrCard, Kept, Copies
  <1>3. ASSUME NEW q \in Procs \ {p}, lock' = q
        PROVE  CarriedAt(q, pc[q], job[q])'
    <2>1. lock = q /\ pc'[q] = pc[q] /\ job'[q] = job[q]
      BY <1>3
    <2>2. QED
      BY <2>1, CarriedQuietly
  <1>4. QED
    BY <1>1, <1>2, <1>3 DEF Secure

LEMMA BeginSecure ==
  ASSUME Typed, Secure, NEW p \in Procs, Begin(p)
  PROVE  Secure'
  <1>1. PICK src : src = file["note"]
    OBVIOUS
  <1>2. PICK k, stage : k = job'[p] /\ stage = pc'[p]
    OBVIOUS
  <1>3. /\ k \in Job /\ k.src = src /\ k.op = job[p].op /\ k.kind = job[p].kind
        /\ k.step = "commit" /\ stage = FirstStage(job[p], src)
        /\ \A q \in Procs \ {p} : pc'[q] = pc[q] /\ job'[q] = job[q]
    BY <1>1, <1>2, BeginTyped
  <1>4. /\ lock' = p /\ pc[p] = "waiting"
        /\ UNCHANGED <<file, preserved, cards, saved, overwritten, dropped, ops>>
    BY DEF Begin, files, ghosts, bounds
  <1>5. job[p] # None /\ k # None
    BY <1>3, <1>4, VersionsAndNone DEF Typed, Disciplined, Owned
  <1>6. stage = IF k.kind = "move" THEN "card" ELSE IF k.kind = "dispose" THEN "dispose" ELSE "temp"
    BY <1>3 DEF FirstStage
  <1>7. Expected(k)' = src
    BY <1>3 DEF Expected
  <1>8. k.src # None => Carries("note", Expected(k))'
    BY <1>1, <1>3, <1>4, <1>7 DEF Carries, Follows, SameTask
  <1>9. CarriedAt(p, stage, k)'
    BY <1>6, <1>8 DEF CarriedAt, Replacing
  <1>10. CarriedAt(p, pc[p], job[p])'
    BY <1>2, <1>9 DEF CarriedAt, Carries, SomeFollows
  <1>11. QED
    BY <1>2, <1>3, <1>4, <1>5, <1>10, QuietSecure

LEMMA RefuseSecure ==
  ASSUME Typed, Secure, NEW p \in Procs, Refuse(p)
  PROVE  Secure'
  <1>1. /\ lock' = None /\ lock = None /\ job' = job
        /\ UNCHANGED <<file, preserved, cards, saved, overwritten, dropped, ops>>
        /\ \A q \in Procs \ {p} : pc'[q] = pc[q]
    BY DEF Refuse, Goto, files, ghosts, bounds, Typed, TypeOK
  <1>2. QED
    BY <1>1, QuietSecure, PlacesDiffer

LEMMA OpensSecure ==
  ASSUME Typed, Secure, EditorOpens \/ AppendOpens \/ Rest
  PROVE  Secure'
  <1>1. /\ UNCHANGED <<lock, pc, job, file, preserved, cards, saved, overwritten, dropped, ops>>
    BY DEF EditorOpens, AppendOpens, Rest, vars, files, ghosts, bounds
  <1>2. Promised' /\ Numbered'
    BY <1>1 DEF Secure, Promised, Numbered
  <1>3. NothingSavedIsLost' /\ TaskOrCard'
    BY <1>1 DEF Secure, NothingSavedIsLost, TaskOrCard, Kept, Copies
  <1>4. ASSUME NEW q \in Procs, lock' = q
        PROVE  CarriedAt(q, pc[q], job[q])'
    BY <1>1, <1>4, CarriedQuietly
  <1>5. QED
    BY <1>2, <1>3, <1>4 DEF Secure

\* An answer keeps the promise it makes: the edit is in the note.
LEMMA ReturnSecure ==
  ASSUME Typed, Secure, NEW p \in Procs, Return(p)
  PROVE  Secure'
  <1>1. PICK j : j = job[p]
    OBVIOUS
  <1>2. /\ pc[p] \in {"ok", "error"} /\ lock' = IF lock = p THEN None ELSE lock
        /\ saved' = IF pc[p] = "ok" /\ j.kind \in {"edit", "write"}
                    THEN saved \cup {<<"op", j.op>>} ELSE saved
        /\ job' = [job EXCEPT ![p] = None] /\ pc' = [pc EXCEPT ![p] = "idle"]
        /\ UNCHANGED <<files, file, preserved, cards, overwritten, dropped, ops>>
    BY <1>1 DEF Return, Release, Goto, bounds, files
  <1>3. Owned(p) /\ j \in Job
    BY <1>1, <1>2 DEF Typed, TypeOK, Disciplined, Owned
  <1>4. /\ job'[p] = None /\ \A q \in Procs \ {p} : job'[q] = job[q] /\ pc'[q] = pc[q]
    BY <1>2 DEF Typed, TypeOK
  <1>5. job[p] # None
    BY <1>2, <1>3 DEF Owned
  <1>6. Promised' /\ Numbered'
    BY <1>1, <1>2, <1>3, <1>4, <1>5 DEF Secure, Promised, Numbered, Job
  <1>7. Copies' = Copies
    BY <1>2 DEF Copies, files
  <1>8. NothingSavedIsLost'
    <2>1. pc[p] = "ok" /\ j.kind \in {"edit", "write"} => Kept(<<"op", j.op>>)
      <3>1. SUFFICES ASSUME pc[p] = "ok", j.kind \in {"edit", "write"}
                     PROVE  Kept(<<"op", j.op>>)
        OBVIOUS
      <3>2. lock = p /\ Shaped(pc[p], j) /\ CarriedAt(p, pc[p], j)
        BY <1>1, <3>1, AtCall DEF Secure
      <3>3. Carries("note", j.updated)
        BY <3>1, <3>2 DEF CarriedAt
      <3>4. <<"op", j.op>> \in j.updated.edits
        <4>1. /\ j.updated = Rewritten(j, j.src) /\ j.src \in Version \cup {None}
              /\ j.src = None => j.kind = "write"
          BY <1>3, <3>2 DEF Shaped, Job
        <4>2. QED
          BY <1>3, <3>1, <4>1, RewrittenVersion
      <3>5. file["note"] \in Copies
        BY <3>3, CopyIs, PlacesDiffer DEF Carries
      <3>6. QED
        BY <3>3, <3>4, <3>5 DEF Carries, Kept
    <2>2. \A e : Kept(e) => Kept(e)'
      BY <1>2, <1>7 DEF Kept
    <2>3. QED
      BY <1>2, <2>1, <2>2 DEF Secure, NothingSavedIsLost
  <1>9. TaskOrCard'
    BY <1>2, <1>7 DEF Secure, TaskOrCard
  <1>10. ASSUME NEW q \in Procs, lock' = q
         PROVE  CarriedAt(q, pc[q], job[q])'
    <2>1. q # p /\ lock = q
      BY <1>2, <1>10, PlacesDiffer
    <2>2. QED
      BY <1>2, <1>4, <2>1, CarriedQuietly
  <1>11. QED
    BY <1>6, <1>8, <1>9, <1>10 DEF Secure

LEMMA CrashSecure ==
  ASSUME Typed, Secure, NEW p \in Procs, Crash(p)
  PROVE  Secure'
  <1>1. /\ Leave(p) /\ lock' = None
        /\ job' = [job EXCEPT ![p] = None]
        /\ UNCHANGED <<cards, saved, overwritten, dropped, ops>>
    BY DEF Crash
  <1>2. Owned(p)
    BY DEF Typed, Disciplined
  <1>3. Promised' /\ Numbered'
    BY <1>1 DEF Secure, Promised, Numbered, Typed, TypeOK
  <1>4. NothingSavedIsLost' /\ TaskOrCard'
    BY <1>1, <1>2, FilesKeepCopies, CopiesStay DEF Secure
  <1>5. QED
    BY <1>1, <1>3, <1>4, PlacesDiffer DEF Secure

-----------------------------------------------------------------------------
(* Those who take no lock.                                                 *)

\* When each copy is followed by a copy that has its edits and its task.
LEMMA SucceededSecure ==
  ASSUME Typed, Secure, UNCHANGED <<cards, lock, pc, job, ops>>,
         overwritten \subseteq overwritten', dropped => dropped',
         \A e \in saved' : e \in saved \/ (e[1] = "save" /\ \E w \in Copies' : e \in w.edits),
         \A v \in Copies : \E w \in Copies' :
           v.edits \subseteq w.edits \cup overwritten' /\ Follows(w, v)',
         \A f \in {"note"} \cup Procs : file[f] # None =>
           /\ file'[f] # None
           /\ file[f].edits \subseteq file'[f].edits \cup overwritten'
           /\ dropped' \/ file'[f].line = "open" \/ SameTask(file'[f], file[f]),
         \A p \in Procs : \A v \in Version : Grown(file[p], v) => Grown(file'[p], v),
         \A p \in Procs : pc[p] \in {"exchange", "publish"} => file'[p] = file[p]
  PROVE  Secure'
  <1>1. Promised'
    BY DEF Secure, Promised
  <1>2. Numbered'
    BY DEF Secure, Numbered
  <1>3. \A v, w : Follows(w, v)' <=> (dropped' \/ w.line = "open" \/ SameTask(w, v))
    BY DEF Follows, SameTask
  <1>4. NothingSavedIsLost'
    <2>1. ASSUME NEW e \in saved
          PROVE  e \in overwritten' \/ \E w \in Copies' : e \in w.edits
      <3>1. e \in overwritten \/ \E v \in Copies : e \in v.edits
        BY DEF Secure, NothingSavedIsLost, Kept
      <3>2. QED
        BY <3>1
    <2>2. QED
      BY <2>1 DEF NothingSavedIsLost, Kept
  <1>5. TaskOrCard'
    <2>1. TaskOrCard' <=> (dropped \/ \E v \in Copies : Good(v))'
      BY TaskOrCardIs, PTL
    <2>2. \A v : Good(v)' <=> Good(v)
      BY DEF Good
    <2>3. dropped \/ \E v \in Copies : Good(v)
      BY TaskOrCardIs DEF Secure
    <2>4. ASSUME NEW v \in Copies, Good(v)
          PROVE  dropped' \/ \E w \in Copies' : Good(w)
      <3>1. PICK w \in Copies' : dropped' \/ w.line = "open" \/ SameTask(w, v)
        BY <1>3
      <3>2. QED
        BY <2>4, <3>1 DEF Good, SameTask
    <2>5. QED
      BY <2>1, <2>2, <2>3, <2>4
  <1>6. ASSUME NEW p \in Procs, lock' = p
        PROVE  CarriedAt(p, pc[p], job[p])'
    <2>1. PICK j, stage : j = job[p] /\ stage = pc[p]
      OBVIOUS
    <2>2. j \in Job /\ Shaped(stage, j) /\ CarriedAt(p, stage, j)
      BY <1>6, <2>1, PlacesDiffer DEF Secure, Typed, TypeOK, Disciplined, Owned
    <2>3. ASSUME NEW f \in {"note", p}, NEW v \in Version, Carries(f, v)
          PROVE  Carries(f, v)'
      <3>1. /\ file'[f] # None /\ v.edits \subseteq file'[f].edits \cup overwritten'
            /\ dropped' \/ file'[f].line = "open" \/ SameTask(file'[f], file[f])
            /\ Follows(file[f], v)
        BY <2>3 DEF Carries
      <3>2. dropped' \/ file'[f].line = "open" \/ SameTask(file'[f], v)
        BY <3>1 DEF Follows, SameTask
      <3>3. QED
        BY <3>1, <3>2 DEF Carries, Follows, SameTask
    <2>4. ASSUME NEW v \in Version, SomeFollows(v)
          PROVE  SomeFollows(v)'
      <3>1. dropped' \/ \E x \in Copies : x.line = "open" \/ SameTask(x, v)
        BY <2>4 DEF SomeFollows, Follows
      <3>2. ASSUME NEW x \in Copies, x.line = "open" \/ SameTask(x, v)
            PROVE  dropped' \/ \E w \in Copies' : w.line = "open" \/ SameTask(w, v)
        <4>1. PICK w \in Copies' : dropped' \/ w.line = "open" \/ SameTask(w, x)
          BY <1>3
        <4>2. QED
          BY <3>2, <4>1 DEF SameTask
      <3>3. QED
        BY <3>1, <3>2 DEF SomeFollows, Follows, SameTask
    <2>5. CarriedAt(p, stage, j)'
      <3>1. cards' = cards /\ (file["note"] # None => file'["note"] # None)
        OBVIOUS
      <3>2. stage \in {"exchange", "publish"} => file'[p] = file[p]
        BY <2>1
      <3>3. \A v \in Version : Grown(file[p], v) => Grown(file'[p], v)
        OBVIOUS
      <3>4. QED
        BY <2>2, <2>3, <2>4, <3>1, <3>2, <3>3, CarriedStays
    <2>6. QED
      BY <2>1, <2>5 DEF CarriedAt, Carries, SomeFollows
  <1>7. QED
    BY <1>1, <1>2, <1>4, <1>5, <1>6 DEF Secure

\* What the editor replaces is taken over, or recorded as replaced by it.
LEMMA EditorSavesSecure ==
  ASSUME Typed, Secure, EditorSaves
  PROVE  Secure'
  <1>1. PICK new : new = Edit(buffer, "save", saves + 1)
    OBVIOUS
  <1>2. PICK old : old = file["note"]
    OBVIOUS
  <1>3. /\ buffer # None /\ file' = [file EXCEPT !["note"] = new]
        /\ saved' = saved \cup {<<"save", saves + 1>>}
        /\ overwritten' = IF old = None THEN overwritten
                          ELSE overwritten \cup (old.edits \ new.edits)
        /\ dropped' = (dropped \/ (old # None /\ new.line # "open" /\ ~SameTask(old, new)))
        /\ UNCHANGED <<preserved, cards, lock, pc, job, ops>>
    BY <1>1, <1>2 DEF EditorSaves, bounds
  <1>4. new \in Version /\ new # None /\ <<"save", saves + 1>> \in new.edits
    <2>1. buffer \in Version /\ saves + 1 \in Nat
      BY <1>3 DEF Typed, TypeOK
    <2>2. QED
      BY <1>1, <2>1, EditedVersion, VersionsAndNone
  <1>5. /\ file'["note"] = new /\ \A f \in Places \ {"note"} : file'[f] = file[f]
        /\ "note" \notin Procs /\ Procs \subseteq Places \ {"note"}
    BY <1>3, PlacesDiffer DEF Typed, TypeOK
  <1>6. \A v : v \in Copies' <=>
               v \in preserved' \/ \E f \in Places : file'[f] # None /\ v = file'[f]
    BY DEF Copies
  <1>7. new \in Copies' /\ \A v \in Copies : v \in Copies' \/ (old # None /\ v = old)
    BY <1>2, <1>3, <1>4, <1>5, <1>6, CopyIs, PlacesDiffer
  <1>8. old # None => /\ old.edits \subseteq new.edits \cup overwritten'
                      /\ dropped' \/ new.line = "open" \/ SameTask(new, old)
    BY <1>3 DEF SameTask
  <1>9. ASSUME NEW v \in Copies
        PROVE  \E w \in Copies' : v.edits \subseteq w.edits \cup overwritten' /\ Follows(w, v)'
    <2>1. \A w : Follows(w, v)' <=> (dropped' \/ w.line = "open" \/ SameTask(w, v))
      BY DEF Follows, SameTask
    <2>2. SameTask(v, v)
      BY DEF SameTask
    <2>3. QED
      BY <1>7, <1>8, <2>1, <2>2
  <1>10. ASSUME NEW f \in {"note"} \cup Procs, file[f] # None
         PROVE  /\ file'[f] # None
                /\ file[f].edits \subseteq file'[f].edits \cup overwritten'
                /\ dropped' \/ file'[f].line = "open" \/ SameTask(file'[f], file[f])
    BY <1>2, <1>4, <1>5, <1>8, <1>10 DEF SameTask
  <1>11. /\ overwritten \subseteq overwritten' /\ (dropped => dropped')
         /\ \A e \in saved' : e \in saved \/ (e[1] = "save" /\ \E w \in Copies' : e \in w.edits)
    <2>1. overwritten \subseteq overwritten' /\ (dropped => dropped')
      BY <1>3
    <2>2. <<"save", saves + 1>>[1] = "save"
      OBVIOUS
    <2>3. saved' = saved \cup {<<"save", saves + 1>>}
      BY <1>3
    <2>4. QED
      BY <1>4, <1>7, <2>1, <2>2, <2>3
  <1>12. UNCHANGED <<cards, lock, pc, job, ops>>
    BY <1>3
  <1>13. /\ \A p \in Procs : \A v \in Version : Grown(file[p], v) => Grown(file'[p], v)
         /\ \A p \in Procs : pc[p] \in {"exchange", "publish"} => file'[p] = file[p]
    BY <1>5
  <1>14. QED
    BY <1>9, <1>10, <1>11, <1>12, <1>13, SucceededSecure

\* A result is added to the file it was opened for, under whatever name.
LEMMA AppendWritesSecure ==
  ASSUME Typed, Secure, AppendWrites
  PROVE  Secure'
  <1>1. PICK n : n = appends + 1
    OBVIOUS
  <1>2. /\ preserved \subseteq preserved'
        /\ UNCHANGED <<cards, lock, pc, job, ops, saved, overwritten, dropped>>
    BY DEF AppendWrites, ghosts, bounds
  <1>3. \A f \in Places : /\ file'[f] = None <=> file[f] = None
                          /\ f # fd => file'[f] = file[f]
                          /\ f = fd => file'[f] = Edit(file[f], "append", n)
    BY <1>1, AppendWritesTyped
  <1>4. n \in Nat
    BY <1>1 DEF Typed, TypeOK
  <1>5. ASSUME NEW f \in Places, file[f] # None
        PROVE  /\ file'[f] # None /\ file[f].edits \subseteq file'[f].edits
               /\ file'[f].edits \subseteq file[f].edits \cup {<<"append", n>>}
               /\ SameTask(file'[f], file[f])
    <2>1. file[f] \in Version
      BY <1>5 DEF Typed, TypeOK
    <2>2. PICK w : w = Edit(file[f], "append", n)
      OBVIOUS
    <2>3. w.edits = file[f].edits \cup {<<"append", n>>} /\ SameTask(w, file[f])
      BY <1>4, <2>1, <2>2, EditedVersion
    <2>4. SameTask(file[f], file[f])
      BY DEF SameTask
    <2>5. QED
      BY <1>3, <1>5, <2>2, <2>3, <2>4
  <1>6. \A v : v \in Copies' <=>
               v \in preserved' \/ \E f \in Places : file'[f] # None /\ v = file'[f]
    BY DEF Copies
  <1>7. ASSUME NEW v \in Copies
        PROVE  \E w \in Copies' : v.edits \subseteq w.edits \cup overwritten' /\ Follows(w, v)'
    <2>1. \A w : SameTask(w, v) => Follows(w, v)'
      BY DEF Follows, SameTask
    <2>2. SameTask(v, v)
      BY DEF SameTask
    <2>3. CASE v \in preserved
      BY <1>2, <1>6, <2>1, <2>2, <2>3
    <2>4. CASE \E f \in Places : file[f] # None /\ v = file[f]
      BY <1>5, <1>6, <2>1, <2>4
    <2>5. QED
      BY <2>3, <2>4, CopyIs
  <1>8. /\ overwritten \subseteq overwritten' /\ (dropped => dropped')
        /\ \A e \in saved' : e \in saved \/ (e[1] = "save" /\ \E w \in Copies' : e \in w.edits)
    BY <1>2
  <1>9. UNCHANGED <<cards, lock, pc, job, ops>>
    BY <1>2
  <1>10. ASSUME NEW f \in {"note"} \cup Procs, file[f] # None
         PROVE  /\ file'[f] # None
                /\ file[f].edits \subseteq file'[f].edits \cup overwritten'
                /\ dropped' \/ file'[f].line = "open" \/ SameTask(file'[f], file[f])
    BY <1>5, <1>10, PlacesDiffer
  <1>11. ASSUME NEW p \in Procs, pc[p] \in {"exchange", "publish"}
         PROVE  file'[p] = file[p]
    <2>1. p # fd
      BY <1>11 DEF Typed, Disciplined, Owned, Swapped
    <2>2. QED
      BY <1>3, <2>1, PlacesDiffer
  <1>12. ASSUME NEW p \in Procs, NEW v \in Version, Grown(file[p], v)
         PROVE  Grown(file'[p], v)
    <2>1. CASE file[p] = None
      <3>1. file'[p] = file[p]
        BY <1>3, <2>1, PlacesDiffer
      <3>2. QED
        BY <1>12, <3>1
    <2>2. CASE file[p] # None
      <3>1. /\ file'[p].edits \subseteq file[p].edits \cup {<<"append", n>>}
            /\ SameTask(file'[p], file[p])
        BY <1>5, <2>2, PlacesDiffer
      <3>2. <<"append", n>> \in {"append"} \X Nat
        BY <1>4
      <3>3. QED
        BY <1>12, <3>1, <3>2 DEF Grown, SameTask
    <2>3. QED
      BY <2>1, <2>2
  <1>13. QED
    BY <1>7, <1>8, <1>9, <1>10, <1>11, <1>12, SucceededSecure

-----------------------------------------------------------------------------
(* A move that left its card is not repeated.                              *)

\* The versions the writer of p can put into a file.
Known(p) ==
  {None, file["note"], file[p], job[p].src, job[p].updated}
    \cup (IF pc[p] \in {"verify", "undispose"} THEN {file["archive"]} ELSE {})

\* What all calls of the lock's holder have in common.
Called(p) ==
  /\ pc[p] \in Busy /\ Quiet
  /\ \A q \in Procs \ {p} : pc'[q] = pc[q] /\ job'[q] = job[q]
  /\ pc'[p] \in Stages \ {"idle", "waiting", "card"}
  /\ job'[p] \in Job
  /\ job'[p].op = job[p].op /\ job'[p].kind = job[p].kind
  /\ job'[p].src = job[p].src /\ job'[p].updated = job[p].updated
  /\ cards' \subseteq cards \cup (IF pc[p] = "card" THEN {CardOf(job[p])} ELSE {})
  /\ faults' >= faults
  /\ \A f \in Places : file'[f] = file[f] \/ file'[f] \in Known(p)
  /\ pc'[p] \in {"verify", "undispose"} => file'["archive"] \in Known(p)

LEMMA MoveVersions ==
  ASSUME NEW stage, NEW j \in Job, Shaped(stage, j), j.kind = "move"
  PROVE  j.src # None /\ j.src \in Version /\ j.updated \in Version /\ j.updated # j.src
  <1>1. j.src \in Version \cup {None} /\ j.src # None /\ j.updated \in Version
    BY DEF Shaped, Job
  <1>2. j.updated.line = "reference" /\ j.src.line = "open"
    <2>1. PICK w : w = Rewritten(j, j.src)
      OBVIOUS
    <2>2. w.line = "reference"
      BY <1>1, <2>1, RewrittenVersion
    <2>3. QED
      BY <2>1, <2>2 DEF Shaped
  <1>3. QED
    BY <1>1, <1>2

\* The lock's holder puts no edit into a file but that of its own request.
LEMMA CalledUnused ==
  ASSUME Typed, Typed', Secure, Unused, NEW p \in Procs, Called(p)
  PROVE  Unused'
  <1>1. PICK j : j = job[p]
    OBVIOUS
  <1>2. /\ lock = p /\ j \in Job /\ j # None /\ Shaped(pc[p], j)
        /\ UNCHANGED <<lock, buffer, saves, appends, ops>>
    BY <1>1, AtCall DEF Called, Quiet, editor, plugin
  <1>3. j.updated.edits \subseteq (IF j.src = None THEN {} ELSE j.src.edits) \cup {<<"op", j.op>>}
    BY <1>2, RewrittenVersion DEF Shaped, Job
  <1>4. ASSUME NEW e, Unmade(e), e # <<"op", j.op>>
        PROVE  Unmade(e)'
    <2>1. \A f \in Places : file[f] # None => e \notin file[f].edits
      BY <1>4 DEF Unmade
    <2>2. j.src # None => e \notin j.src.edits
      BY <1>1, <1>2, <1>4 DEF Unmade
    <2>3. e \notin j.updated.edits
      BY <1>3, <1>4, <2>2
    <2>4. \A v \in Known(p) : v # None => e \notin v.edits
      BY <1>1, <2>1, <2>2, <2>3, PlacesDiffer DEF Known
    <2>5. \A f \in Places : file'[f] # None => e \notin file'[f].edits
      BY <2>1, <2>4 DEF Called
    <2>6. \A c \in cards' : e \notin c.from.edits
      <3>1. ASSUME NEW c \in cards', c \notin cards
            PROVE  e \notin c.from.edits
        <4>1. c = CardOf(j) /\ pc[p] = "card"
          BY <1>1, <3>1 DEF Called
        <4>2. j.src # None
          BY <1>2, <4>1, MoveVersions DEF Shaped
        <4>3. QED
          BY <2>2, <4>1, <4>2 DEF CardOf
      <3>2. QED
        BY <1>4, <3>1 DEF Unmade
    <2>7. \A q \in Procs : /\ job'[q] # None <=> job[q] # None
                           /\ job[q] # None => job'[q].src = job[q].src
      BY <1>1, <1>2, VersionsAndNone DEF Called
    <2>8. QED
      BY <1>2, <1>4, <2>5, <2>6, <2>7 DEF Unmade
  <1>5. j.op <= ops /\ j.op \in Nat /\ ops \in Nat
    BY <1>1, <1>2 DEF Secure, Numbered, Job, Typed, TypeOK
  <1>6. \A n \in Nat : n > ops => <<"op", n>> # <<"op", j.op>>
    BY <1>5
  <1>7. ASSUME NEW q \in Procs, job'[q] # None, lock' # q
        PROVE  Unmade(<<"op", job[q].op>>)'
    <2>1. q # p /\ job'[q] = job[q] /\ job[q] # None /\ lock # q
      BY <1>2, <1>7 DEF Called
    <2>2. job[q].op # j.op
      BY <1>1, <1>2, <2>1 DEF Secure, Numbered
    <2>3. PICK e : e = <<"op", job[q].op>>
      OBVIOUS
    <2>4. e # <<"op", j.op>> /\ Unmade(e)
      BY <2>1, <2>2, <2>3 DEF Unused
    <2>5. Unmade(e)'
      BY <1>4, <2>4
    <2>6. QED
      BY <2>1, <2>3, <2>5 DEF Unmade
  <1>8. \A n \in Nat : n > saves => Unmade(<<"save", n>>)'
    <2>1. SUFFICES ASSUME NEW n \in Nat, n > saves
                   PROVE  Unmade(<<"save", n>>)'
      OBVIOUS
    <2>2. Unmade(<<"save", n>>) /\ <<"save", n>> # <<"op", j.op>>
      BY <2>1 DEF Unused
    <2>3. QED
      BY <1>4, <2>2
  <1>9. \A n \in Nat : n > appends => Unmade(<<"append", n>>)'
    <2>1. SUFFICES ASSUME NEW n \in Nat, n > appends
                   PROVE  Unmade(<<"append", n>>)'
      OBVIOUS
    <2>2. Unmade(<<"append", n>>) /\ <<"append", n>> # <<"op", j.op>>
      BY <2>1 DEF Unused
    <2>3. QED
      BY <1>4, <2>2
  <1>10. \A n \in Nat : n > ops => Unmade(<<"op", n>>)'
    <2>1. SUFFICES ASSUME NEW n \in Nat, n > ops
                   PROVE  Unmade(<<"op", n>>)'
      OBVIOUS
    <2>2. Unmade(<<"op", n>>)
      BY <2>1 DEF Unused
    <2>3. QED
      BY <1>4, <1>6, <2>1, <2>2
  <1>11. /\ \A n \in Nat : n > saves' => Unmade(<<"save", n>>)'
         /\ \A n \in Nat : n > appends' => Unmade(<<"append", n>>)'
         /\ \A n \in Nat : n > ops' => Unmade(<<"op", n>>)'
    BY <1>2, <1>8, <1>9, <1>10
  <1>12. QED
    BY <1>7, <1>11 DEF Unused

\* Nor does it bring back the version a settled card was made from.
LEMMA CalledRetired ==
  ASSUME Typed, Typed', Secure, Unused, Retired, NEW p \in Procs, Called(p)
  PROVE  Retired'
  <1>1. PICK j : j = job[p]
    OBVIOUS
  <1>2. /\ lock = p /\ j \in Job /\ j # None /\ Shaped(pc[p], j)
        /\ UNCHANGED <<lock, ops, abandoned>>
    BY <1>1, AtCall DEF Called, Quiet
  <1>3. \A q \in Procs : /\ job'[q] # None <=> job[q] # None
                         /\ job[q] # None => /\ job'[q].op = job[q].op
                                             /\ job'[q].src = job[q].src
                                             /\ job'[q].kind = job[q].kind
                         /\ pc'[q] \in {"waiting", "card"} => pc[q] \in {"waiting", "card"}
    BY <1>1, <1>2, VersionsAndNone DEF Called
  <1>4. ASSUME NEW c \in cards', c \notin cards
        PROVE  c = CardOf(j) /\ pc[p] = "card" /\ j.kind = "move"
    BY <1>1, <1>2, <1>4 DEF Called, Shaped
  <1>5. ASSUME NEW c \in cards', c \notin cards
        PROVE  /\ c.op = j.op /\ c.from = j.src /\ j.src # None /\ j.src.line = "open"
               /\ j.op <= ops
    BY <1>1, <1>2, <1>4, <1>5, MoveVersions DEF CardOf, Shaped, Secure, Numbered
  <1>6. \A c \in cards' : c.from.line = "open" /\ c.op <= ops'
    BY <1>2, <1>5 DEF Retired
  <1>7. ASSUME NEW q \in Procs, NEW c \in cards'
        PROVE  Issued(q, c)'
    <2>1. CardOf(job[q])' = CardOf(job'[q])
      BY DEF CardOf
    <2>2. job[q] # None => CardOf(job'[q]) = CardOf(job[q])
      BY <1>3 DEF CardOf
    <2>3. CASE c \in cards
      <3>1. Issued(q, c)
        BY <2>3 DEF Retired
      <3>2. QED
        BY <1>3, <2>1, <2>2, <3>1 DEF Issued
    <2>4. CASE c \notin cards /\ q = p
      <3>1. <<"op", j.op>> \notin j.src.edits
        BY <1>1, <1>2, <1>5, <2>4 DEF Retired
      <3>2. pc'[p] \notin {"waiting", "card"}
        BY DEF Called
      <3>3. QED
        BY <1>1, <1>2, <1>3, <1>4, <1>5, <2>1, <2>2, <2>4, <3>1, <3>2 DEF Issued
    <2>5. CASE c \notin cards /\ q # p
      <3>1. SUFFICES ASSUME job[q] # None
                     PROVE  <<"op", job[q].op>> \notin c.from.edits /\ job[q].op # c.op
        BY <1>3 DEF Issued
      <3>2. job[q].op # j.op
        BY <1>1, <1>2, <2>5, <3>1 DEF Secure, Numbered
      <3>3. Unmade(<<"op", job[q].op>>)
        BY <1>2, <2>5, <3>1 DEF Unused
      <3>4. <<"op", job[q].op>> \notin j.src.edits
        BY <1>1, <1>2, <1>5, <2>5, <3>3 DEF Unmade
      <3>5. QED
        BY <1>5, <2>5, <3>2, <3>4
    <2>6. QED
      BY <2>3, <2>4, <2>5
  <1>8. \A q \in Procs : lock' = q /\ job'[q].src # None =>
          <<"op", job'[q].op>> \notin job'[q].src.edits
    BY <1>1, <1>2, <1>3 DEF Retired
  <1>9. ASSUME faults' <= 1, NEW c \in cards', Settled(c)'
        PROVE  file'["note"] # c.from /\ \A q \in Procs : lock' = q => Past(q, c)'
    <2>1. faults <= 1
      BY <1>9 DEF Called, Typed, TypeOK
    <2>2. \A d : Working(d)' <=> Working(d)
      BY <1>3 DEF Working
    <2>3. c \in cards
      <3>1. c \notin cards => Working(c)
        BY <1>1, <1>2, <1>5 DEF Working
      <3>2. QED
        BY <1>9, <2>2, <3>1 DEF Settled
    <2>4. Settled(c)
      BY <1>2, <1>9, <2>2 DEF Settled
    <2>5. file["note"] # c.from /\ Past(p, c)
      BY <1>2, <2>1, <2>3, <2>4 DEF Retired
    <2>6. c.from # None
      BY <2>3, VersionsAndNone DEF Typed, TypeOK, Card
    <2>7. \A v \in Known(p) : v # c.from
      BY <2>5, <2>6 DEF Known, Past
    <2>8. file'["note"] # c.from /\ file'[p] # c.from
      BY <2>5, <2>7, PlacesDiffer DEF Called, Past
    <2>9. pc'[p] \in {"verify", "undispose"} => file'["archive"] # c.from
      BY <2>7 DEF Called
    <2>10. Past(p, c)'
      BY <1>1, <2>5, <2>8, <2>9 DEF Past, Called
    <2>11. QED
      BY <1>2, <2>8, <2>10
  <1>10. QED
    BY <1>6, <1>7, <1>8, <1>9 DEF Retired

\* Every call is one.
LEMMA CallsAre ==
  ASSUME Typed, Typed', NEW p \in Procs,
         \/ Reindex(p)
         \/ \E o \in Outcomes :
              \/ CreateTemp(p, o) \/ Exchange(p, o) \/ Inspect(p, o) \/ Unlink(p, o)
              \/ ExchangeBack(p, o) \/ InspectBack(p, o) \/ UnlinkBack(p, o) \/ Current(p, o)
              \/ Publish(p, o) \/ Dispose(p, o) \/ Verify(p, o) \/ Undispose(p, o)
         \/ \E o \in Outcomes \cup {"late"} : CreateCard(p, o) \/ DeleteCard(p, o)
  PROVE  Called(p)
  <1>1. PICK j : j = job[p]
    OBVIOUS
  <1>2. pc[p] \in Busy /\ Quiet
    BY DEF CreateTemp, Exchange, Inspect, Unlink, ExchangeBack, InspectBack, UnlinkBack, Current,
           Publish, Dispose, Verify, Undispose, CreateCard, DeleteCard, Reindex, Busy, Replacing
  <1>3. lock = p /\ j \in Job /\ j # None /\ Shaped(pc[p], j)
    BY <1>1, <1>2, AtCall
  <1>4. faults' >= faults
    <2>1. (\E o : Io(o)) \/ faults' = faults
      BY DEF CreateTemp, Exchange, Inspect, Unlink, ExchangeBack, InspectBack, UnlinkBack, Current,
             Publish, Dispose, Verify, Undispose, CreateCard, DeleteCard, Reindex
    <2>2. QED
      BY <2>1, IoTyped DEF Typed, TypeOK
  <1> DEFINE Ahead == {stage \in Stages \ {"idle", "waiting", "card"} :
                        stage \in {"verify", "undispose"} => pc[p] \in {"dispose", "verify"}}
  <1>5. \E stage \in Ahead : Goto(p, stage)
    <2>1. \A installed, clean \in BOOLEAN : pc[p] \in Replacing =>
            Continue(j, installed, clean) \in {"reindex", "uncreate", "error"}
      BY <1>3, ContinueStage
    <2>2. ASSUME NEW o \in Outcomes, CreateTemp(p, o)
          PROVE  \E stage \in Ahead : Goto(p, stage)
      BY <1>1, <2>1, <2>2 DEF CreateTemp, Stages, Replacing
    <2>3. ASSUME NEW o \in Outcomes, Exchange(p, o)
          PROVE  \E stage \in Ahead : Goto(p, stage)
      BY <1>1, <2>1, <2>3 DEF Exchange, Stages, Replacing
    <2>4. ASSUME NEW o \in Outcomes, Inspect(p, o)
          PROVE  \E stage \in Ahead : Goto(p, stage)
      BY <2>4 DEF Inspect, Stages, Replacing
    <2>5. ASSUME NEW o \in Outcomes, Unlink(p, o)
          PROVE  \E stage \in Ahead : Goto(p, stage)
      BY <1>1, <2>1, <2>5 DEF Unlink, Stages, Replacing
    <2>6. ASSUME NEW o \in Outcomes, ExchangeBack(p, o) \/ InspectBack(p, o)
          PROVE  \E stage \in Ahead : Goto(p, stage)
      BY <2>6 DEF ExchangeBack, InspectBack, Stages, Replacing
    <2>7. ASSUME NEW o \in Outcomes, UnlinkBack(p, o)
          PROVE  \E stage \in Ahead : Goto(p, stage)
      BY <1>1, <2>1, <2>7 DEF UnlinkBack, Stages, Replacing
    <2>8. ASSUME NEW o \in Outcomes, Current(p, o)
          PROVE  \E stage \in Ahead : Goto(p, stage)
      <3>1. PICK installed \in BOOLEAN : installed = (o = "ok" /\ file["note"] = Prepared(job[p]))
        OBVIOUS
      <3>2. pc[p] \in Replacing /\ Goto(p, Continue(j, installed, FALSE))
        BY <1>1, <2>8, <3>1 DEF Current, Replacing
      <3>3. QED
        BY <2>1, <3>2 DEF Stages, Replacing
    <2>9. ASSUME NEW o \in Outcomes,
                 Publish(p, o) \/ Dispose(p, o) \/ Verify(p, o) \/ Undispose(p, o)
          PROVE  \E stage \in Ahead : Goto(p, stage)
      BY <2>9 DEF Publish, Dispose, Verify, Undispose, Stages, Replacing
    <2>10. ASSUME NEW o \in Outcomes \cup {"late"}, CreateCard(p, o) \/ DeleteCard(p, o)
           PROVE  \E stage \in Ahead : Goto(p, stage)
      BY <2>10 DEF CreateCard, DeleteCard, Stages, Replacing
    <2>11. CASE Reindex(p)
      BY <2>11 DEF Reindex, Stages, Replacing
    <2>12. QED
      BY <2>2, <2>3, <2>4, <2>5, <2>6, <2>7, <2>8, <2>9, <2>10, <2>11
  <1>6. /\ pc'[p] \in Ahead
        /\ \A q \in Procs \ {p} : pc'[q] = pc[q]
    BY <1>5 DEF Goto, Typed, TypeOK
  <1>7. \E step \in {"commit", "restore", "reapply"} : job' = [job EXCEPT ![p].step = step]
    <2>1. job' = job \/ \E step \in {"restore", "reapply"} : job' = [job EXCEPT ![p].step = step]
      BY DEF CreateTemp, Exchange, Inspect, Unlink, ExchangeBack, InspectBack, UnlinkBack, Current,
             Publish, Dispose, Verify, Undispose, CreateCard, DeleteCard, Reindex
    <2>2. job = [job EXCEPT ![p].step = j.step]
      <3>1. j = [j EXCEPT !.step = j.step]
        BY <1>3 DEF Job
      <3>2. job = [job EXCEPT ![p] = j]
        BY <1>1 DEF Typed, TypeOK
      <3>3. QED
        BY <1>1, <3>1, <3>2
    <2>3. j.step \in {"commit", "restore", "reapply"}
      BY <1>3 DEF Job
    <2>4. QED
      BY <2>1, <2>2, <2>3
  <1>8. PICK step \in {"commit", "restore", "reapply"} : job' = [job EXCEPT ![p].step = step]
    BY <1>7
  <1>9. PICK k : k = [j EXCEPT !.step = step]
    OBVIOUS
  <1>10. /\ job'[p] = k /\ \A q \in Procs \ {p} : job'[q] = job[q]
         /\ k \in Job /\ k.op = j.op /\ k.kind = j.kind /\ k.src = j.src /\ k.updated = j.updated
    <2>1. k \in Job /\ k.op = j.op /\ k.kind = j.kind /\ k.src = j.src /\ k.updated = j.updated
      BY <1>3, <1>9 DEF Job
    <2>2. job' = [job EXCEPT ![p] = k]
      BY <1>1, <1>8, <1>9
    <2>3. QED
      BY <2>1, <2>2 DEF Typed, TypeOK
  <1>11. cards' \subseteq cards \cup (IF pc[p] = "card" THEN {CardOf(job[p])} ELSE {})
    BY DEF CreateTemp, Exchange, Inspect, Unlink, ExchangeBack, InspectBack, UnlinkBack, Current,
           Publish, Dispose, Verify, Undispose, CreateCard, DeleteCard, Reindex, NoFiles
  <1>12. {None, file["note"], file[p], Prepared(j)} \subseteq Known(p)
    BY <1>1 DEF Known, Prepared
  <1>13. \A f \in Places : file'[f] = file[f] \/ file'[f] \in Known(p)
    <2>1. file \in [Places -> Version \cup {None}]
      BY DEF Typed, TypeOK
    <2>2. CASE \/ file' = file
               \/ file' = [file EXCEPT ![p] = None]
               \/ file' = [file EXCEPT ![p] = Prepared(j)]
               \/ file' = [file EXCEPT !["note"] = file[p], ![p] = file["note"]]
               \/ file' = [file EXCEPT !["note"] = file[p], ![p] = None]
               \/ file' = [file EXCEPT !["note"] = None, !["archive"] = file["note"]]
      BY <1>12, <2>1, <2>2
    <2>3. CASE pc[p] = "undispose" /\ RenameTo("archive", "note")
      <3>1. file["archive"] \in Known(p)
        BY <2>3 DEF Known
      <3>2. QED
        BY <1>12, <2>1, <2>3, <3>1 DEF RenameTo
    <2>4. \/ file' = file
          \/ file' = [file EXCEPT ![p] = None]
          \/ file' = [file EXCEPT ![p] = Prepared(j)]
          \/ file' = [file EXCEPT !["note"] = file[p], ![p] = file["note"]]
          \/ file' = [file EXCEPT !["note"] = file[p], ![p] = None]
          \/ file' = [file EXCEPT !["note"] = None, !["archive"] = file["note"]]
          \/ pc[p] = "undispose" /\ RenameTo("archive", "note")
      BY <1>1
      DEF CreateTemp, Exchange, Inspect, Unlink, ExchangeBack, InspectBack, UnlinkBack, Current,
          Publish, Dispose, Verify, Undispose, CreateCard, DeleteCard, Reindex, NoFiles, files,
          Remove, Leave, Swap, RenameTo
    <2>5. QED
      BY <2>2, <2>3, <2>4
  <1>14. pc'[p] \in {"verify", "undispose"} => file'["archive"] \in Known(p)
    <2>1. SUFFICES ASSUME pc'[p] \in {"verify", "undispose"}
                   PROVE  file'["archive"] \in Known(p)
      OBVIOUS
    <2>2. pc[p] \in {"dispose", "verify"}
      BY <1>6, <2>1
    <2>3. CASE pc[p] = "verify"
      <3>1. file' = file
        BY <2>3
        DEF CreateTemp, Exchange, Inspect, Unlink, ExchangeBack, InspectBack, UnlinkBack, Current,
            Publish, Dispose, Verify, Undispose, CreateCard, DeleteCard, Reindex, NoFiles, files
      <3>2. QED
        BY <2>3, <3>1 DEF Known
    <2>4. CASE pc[p] = "dispose"
      <3>1. PICK o \in Outcomes : Dispose(p, o)
        BY <2>4
        DEF CreateTemp, Exchange, Inspect, Unlink, ExchangeBack, InspectBack, UnlinkBack, Current,
            Publish, Dispose, Verify, Undispose, CreateCard, DeleteCard, Reindex
      <3>2. RenameTo("note", "archive")
        <4>1. (Goto(p, "verify") /\ RenameTo("note", "archive")) \/ Goto(p, "error")
          BY <3>1 DEF Dispose
        <4>2. ~Goto(p, "error")
          BY <2>1 DEF Goto, Typed, TypeOK
        <4>3. QED
          BY <4>1, <4>2
      <3>3. file'["archive"] = file["note"]
        BY <3>2, PlacesDiffer DEF RenameTo, Typed, TypeOK
      <3>4. QED
        BY <1>12, <3>3
    <2>5. QED
      BY <2>2, <2>3, <2>4
  <1>15. QED
    BY <1>1, <1>2, <1>4, <1>6, <1>10, <1>11, <1>13, <1>14 DEF Called

\* Steps of others than the lock's holder.
LEMMA NotBackStays ==
  ASSUME NEW p, NEW stage, NEW j, NotBackAt(p, stage, j), UNCHANGED <<faults, cards>>,
         file["note"] # j.src => file'["note"] # j.src,
         file[p] # j.src => file'[p] # j.src
  PROVE  NotBackAt(p, stage, j)'
  BY DEF NotBackAt, NoneFailed, CardOf

LEMMA HolderNotBack ==
  ASSUME NotRepeated, NEW q \in Procs, lock = q, job'[q] = job[q], pc'[q] = pc[q],
         UNCHANGED <<faults, cards>>,
         file["note"] # job[q].src => file'["note"] # job[q].src,
         file[q] # job[q].src => file'[q] # job[q].src
  PROVE  (job[q].kind = "move" => NotBackAt(q, pc[q], job[q]))'
  <1>1. PICK j, stage : j = job[q] /\ stage = pc[q]
    OBVIOUS
  <1>2. SUFFICES ASSUME j.kind = "move"
                 PROVE  NotBackAt(q, pc[q], job[q])'
    BY <1>1
  <1>3. NotBackAt(q, stage, j)
    BY <1>1, <1>2 DEF NotRepeated
  <1>4. NotBackAt(q, stage, j)'
    BY <1>1, <1>3, NotBackStays
  <1>5. QED
    BY <1>1, <1>4 DEF NotBackAt, NoneFailed

LEMMA UnmadeQuietly ==
  ASSUME NEW e, Unmade(e), UNCHANGED <<cards, buffer>>,
         \A f \in Places : file'[f] = file[f] \/ file'[f] = None,
         \A q \in Procs : job'[q] # None /\ job'[q].src # None =>
           job'[q] = job[q] \/ job'[q].src = file["note"]
  PROVE  Unmade(e)'
  <1>1. \A q \in Procs : job'[q] # None /\ job'[q].src # None => e \notin job'[q].src.edits
    BY PlacesDiffer DEF Unmade
  <1>2. QED
    BY <1>1 DEF Unmade

LEMMA UnusedQuietly ==
  ASSUME Unused, UNCHANGED <<cards, buffer, saves, appends>>,
         \A f \in Places : file'[f] = file[f] \/ file'[f] = None,
         \A q \in Procs : job'[q] # None /\ job'[q].src # None =>
           job'[q] = job[q] \/ job'[q].src = file["note"],
         \A n \in Nat : n > ops' => n > ops,
         \A q \in Procs : job'[q] # None /\ lock' # q =>
           Unmade(<<"op", job'[q].op>>)
  PROVE  Unused'
  <1>1. ASSUME NEW e, Unmade(e)
        PROVE  Unmade(e)'
    BY <1>1, UnmadeQuietly
  <1>2. /\ \A n \in Nat : n > saves => Unmade(<<"save", n>>)
        /\ \A n \in Nat : n > appends => Unmade(<<"append", n>>)
        /\ \A n \in Nat : n > ops => Unmade(<<"op", n>>)
    BY DEF Unused
  <1>3. \A n \in Nat : n > saves' => Unmade(<<"save", n>>)'
    BY <1>1, <1>2
  <1>4. \A n \in Nat : n > appends' => Unmade(<<"append", n>>)'
    BY <1>1, <1>2
  <1>5. \A n \in Nat : n > ops' => Unmade(<<"op", n>>)'
    BY <1>1, <1>2
  <1>6. ASSUME NEW q \in Procs, job'[q] # None, lock' # q
        PROVE  Unmade(<<"op", job[q].op>>)'
    <2>1. PICK e : e = <<"op", job'[q].op>>
      OBVIOUS
    <2>2. Unmade(e)'
      BY <1>1, <1>6, <2>1
    <2>3. QED
      BY <2>1, <2>2 DEF Unmade
  <1>7. QED
    BY <1>3, <1>4, <1>5, <1>6 DEF Unused

LEMMA RequestNotRepeated ==
  ASSUME Typed, Typed', Secure, NotRepeated, NEW p \in Procs, NEW kind \in Kinds, Request(p, kind)
  PROVE  NotRepeated'
  <1>1. /\ pc[p] = "idle" /\ ops' = ops + 1 /\ pc'[p] = "waiting"
        /\ UNCHANGED <<file, cards, lock, buffer, saves, appends, abandoned, faults>>
        /\ \A q \in Procs \ {p} : pc'[q] = pc[q] /\ job'[q] = job[q]
    BY DEF Request, Goto, Typed, TypeOK, files, editor, plugin, ghosts
  <1>2. job'[p].op = ops + 1 /\ job'[p].src = None
    BY DEF Request, Typed, TypeOK
  <1>3. job[p] = None /\ lock # p
    BY <1>1 DEF Typed, Disciplined, Owned
  <1>4. ops \in Nat /\ \A c \in cards : c.op \in Nat /\ c.op <= ops
    BY DEF Typed, TypeOK, Card, NotRepeated, Retired
  <1>5. Unmade(<<"op", ops + 1>>)
    BY <1>4 DEF NotRepeated, Unused
  <1>6. Unused'
    <2>1. \A q \in Procs : job'[q] # None /\ lock' # q => Unmade(<<"op", job'[q].op>>)
      BY <1>1, <1>2, <1>5 DEF NotRepeated, Unused
    <2>2. \A n \in Nat : n > ops' => n > ops
      BY <1>1, <1>4
    <2>3. \A q \in Procs : job'[q] # None /\ job'[q].src # None =>
            job'[q] = job[q] \/ job'[q].src = file["note"]
      BY <1>1, <1>2
    <2>4. QED
      BY <1>1, <2>1, <2>2, <2>3, UnusedQuietly DEF NotRepeated
  <1>7. \A c \in cards' : c.from.line = "open" /\ c.op <= ops'
    BY <1>1, <1>4 DEF NotRepeated, Retired
  <1>8. ASSUME NEW q \in Procs, NEW c \in cards'
        PROVE  Issued(q, c)'
    <2>1. CASE q = p
      <3>1. <<"op", ops + 1>> \notin c.from.edits
        BY <1>1, <1>5, <1>8 DEF Unmade
      <3>2. c.op # ops + 1
        BY <1>1, <1>4, <1>8
      <3>3. QED
        BY <1>2, <2>1, <3>1, <3>2 DEF Issued
    <2>2. CASE q # p
      <3>1. Issued(q, c)
        BY <1>1, <1>8 DEF NotRepeated, Retired
      <3>2. QED
        BY <1>1, <2>2, <3>1 DEF Issued, CardOf
    <2>3. QED
      BY <2>1, <2>2
  <1>9. \A q \in Procs : lock' = q /\ job'[q].src # None =>
          <<"op", job'[q].op>> \notin job'[q].src.edits
    BY <1>1, <1>2 DEF NotRepeated, Retired
  <1>10. ASSUME faults' <= 1, NEW c \in cards', Settled(c)'
         PROVE  file'["note"] # c.from /\ \A q \in Procs : lock' = q => Past(q, c)'
    <2>1. Working(c) => Working(c)'
      BY <1>1, <1>3 DEF Working
    <2>2. file["note"] # c.from /\ \A q \in Procs : lock = q => Past(q, c)
      BY <1>1, <1>10, <2>1 DEF Settled, NotRepeated, Retired
    <2>3. QED
      BY <1>1, <1>3, <2>2 DEF Past
  <1>11. ASSUME NEW q \in Procs, lock' = q
         PROVE  (job[q].kind = "move" => NotBackAt(q, pc[q], job[q]))'
    BY <1>1, <1>3, <1>11, HolderNotBack
  <1>12. QED
    BY <1>6, <1>7, <1>8, <1>9, <1>10, <1>11 DEF NotRepeated, Retired

\* The version that is read is none a settled card was made from, nor is what
\* is made of it.
LEMMA BeginNotRepeated ==
  ASSUME Typed, Typed', Secure, NotRepeated, NEW p \in Procs, Begin(p)
  PROVE  NotRepeated'
  <1>1. PICK src, j, k : src = file["note"] /\ j = job[p] /\ k = job'[p]
    OBVIOUS
  <1>2. /\ k \in Job /\ k.src = src /\ k.op = j.op /\ k.kind = j.kind /\ k.step = "commit"
        /\ \A q \in Procs \ {p} : pc'[q] = pc[q] /\ job'[q] = job[q]
        /\ pc'[p] = FirstStage(j, src)
    BY <1>1, BeginTyped
  <1>3. /\ lock' = p /\ lock = None /\ pc[p] = "waiting"
        /\ UNCHANGED <<file, cards, ops, buffer, saves, appends, abandoned, faults>>
    BY DEF Begin, files, editor, plugin, ghosts, bounds
  <1>4. /\ j # None /\ j \in Job /\ file[p] = None /\ lock # p /\ k # None
        /\ Shaped(pc'[p], k)
    <2>1. j # None /\ lock # p /\ file[p] = None
      BY <1>1, <1>3, PlacesDiffer DEF Typed, Disciplined, Owned, Holding, Swapped
    <2>2. j \in Job
      BY <1>1, <2>1 DEF Typed, TypeOK
    <2>3. Shaped(pc[p], job[p])'
      BY <1>3 DEF Typed, Disciplined
    <2>4. Shaped(pc'[p], k)
      BY <1>1, <2>3 DEF Shaped
    <2>5. QED
      BY <1>2, <2>1, <2>2, <2>4, VersionsAndNone
  <1>5. Unmade(<<"op", j.op>>)
    BY <1>1, <1>4 DEF NotRepeated, Unused
  <1>6. pc'[p] \in {"card", "dispose", "temp"}
    BY <1>2 DEF FirstStage
  <1>7. Unused'
    <2>1. \A q \in Procs : job'[q] # None /\ lock' # q => Unmade(<<"op", job'[q].op>>)
      BY <1>2, <1>3, PlacesDiffer DEF NotRepeated, Unused
    <2>2. \A q \in Procs : job'[q] # None /\ job'[q].src # None =>
            job'[q] = job[q] \/ job'[q].src = file["note"]
      BY <1>1, <1>2
    <2>3. QED
      BY <1>3, <2>1, <2>2, UnusedQuietly DEF NotRepeated
  <1>8. \A c \in cards' : c.from.line = "open" /\ c.op <= ops'
    BY <1>3 DEF NotRepeated, Retired
  <1>9. \A q \in Procs, c \in cards : Issued(q, c)
    BY DEF NotRepeated, Retired
  <1>10. \A c \in cards : c.op # j.op /\ <<"op", j.op>> \notin c.from.edits
    BY <1>1, <1>3, <1>4, <1>9 DEF Issued
  <1>11. ASSUME NEW q \in Procs, NEW c \in cards'
         PROVE  Issued(q, c)'
    <2>1. CASE q = p
      BY <1>1, <1>2, <1>3, <1>10, <2>1 DEF Issued
    <2>2. CASE q # p
      BY <1>2, <1>3, <1>9, <2>2 DEF Issued, CardOf
    <2>3. QED
      BY <2>1, <2>2
  <1>12. \A q \in Procs : lock' = q /\ job'[q].src # None =>
           <<"op", job'[q].op>> \notin job'[q].src.edits
    BY <1>1, <1>2, <1>3, <1>5, PlacesDiffer DEF Unmade
  <1>13. ASSUME faults' <= 1, NEW c \in cards', Settled(c)'
         PROVE  file'["note"] # c.from /\ \A q \in Procs : lock' = q => Past(q, c)'
    <2>1. Working(c) => Working(c)'
      BY <1>1, <1>2, <1>4 DEF Working
    <2>2. file["note"] # c.from
      BY <1>3, <1>13, <2>1 DEF Settled, NotRepeated, Retired
    <2>3. c.from \in Version /\ c.from # None /\ c.from.line = "open"
      BY <1>8, <1>3, <1>13, VersionsAndNone DEF Typed, TypeOK, Card
    <2>4. k.updated # c.from
      <3>1. PICK w : w = Rewritten(k, k.src)
        OBVIOUS
      <3>2. k.src \in Version \cup {None} /\ (k.src = None => k.kind = "write") /\ k.kind \in Kinds
        BY <1>2, <1>4 DEF Job, Shaped
      <3>3. /\ k.kind \in {"edit", "write"} => <<"op", k.op>> \in w.edits
            /\ k.kind = "move" => w.line = "reference"
        BY <1>2, <3>1, <3>2, RewrittenVersion
      <3>4. <<"op", k.op>> \notin c.from.edits
        BY <1>2, <1>3, <1>10, <1>13
      <3>5. k.kind = "dispose" => w = k.src
        BY <3>1 DEF Rewritten
      <3>6. w # c.from
        BY <1>1, <1>2, <2>2, <2>3, <3>2, <3>3, <3>4, <3>5 DEF Kinds
      <3>7. QED
        BY <1>4, <3>1, <3>6 DEF Shaped
    <2>5. file'[p] = None /\ pc'[p] \notin {"verify", "undispose"}
      BY <1>3, <1>4, <1>6
    <2>6. Past(p, c)'
      BY <1>1, <1>2, <2>2, <2>3, <2>4, <2>5 DEF Past
    <2>7. QED
      BY <1>3, <2>2, <2>6
  <1>14. NotBackAt(p, pc[p], job[p])'
    BY <1>1, <1>2, <1>6 DEF NotBackAt
  <1>15. QED
    BY <1>3, <1>7, <1>8, <1>11, <1>12, <1>13, <1>14 DEF NotRepeated, Retired

LEMMA RefuseNotRepeated ==
  ASSUME Typed, Typed', Secure, NotRepeated, NEW p \in Procs, Refuse(p)
  PROVE  NotRepeated'
  <1>1. /\ lock' = None /\ lock = None /\ pc'[p] = "error" /\ pc[p] = "waiting"
        /\ \A q \in Procs \ {p} : pc'[q] = pc[q]
        /\ UNCHANGED <<file, cards, ops, job, buffer, saves, appends, abandoned, faults>>
    BY DEF Refuse, Goto, Typed, TypeOK, files, editor, plugin, ghosts, bounds
  <1>2. Unused'
    <2>1. \A q \in Procs : job'[q] # None /\ lock' # q => Unmade(<<"op", job'[q].op>>)
      BY <1>1, PlacesDiffer DEF NotRepeated, Unused
    <2>2. QED
      BY <1>1, <2>1, UnusedQuietly DEF NotRepeated
  <1>3. \A c \in cards' : c.from.line = "open" /\ c.op <= ops'
    BY <1>1 DEF NotRepeated, Retired
  <1>4. ASSUME NEW q \in Procs, NEW c \in cards'
        PROVE  Issued(q, c)'
    <2>1. Issued(q, c)
      BY <1>1 DEF NotRepeated, Retired
    <2>2. QED
      BY <1>1, <2>1 DEF Issued, CardOf
  <1>5. ASSUME faults' <= 1, NEW c \in cards', Settled(c)'
        PROVE  file'["note"] # c.from
    BY <1>1, <1>5 DEF Settled, Working, NotRepeated, Retired
  <1>6. \A q \in Procs : lock' # q
    BY <1>1, PlacesDiffer
  <1>7. QED
    BY <1>2, <1>3, <1>4, <1>5, <1>6 DEF NotRepeated, Retired

\* A move that ends with its card on the board has taken the note on.
LEMMA ReturnNotRepeated ==
  ASSUME Typed, Typed', Secure, NotRepeated, NEW p \in Procs, Return(p)
  PROVE  NotRepeated'
  <1>1. PICK j, stage : j = job[p] /\ stage = pc[p]
    OBVIOUS
  <1>2. /\ stage \in {"ok", "error"} /\ lock' = IF lock = p THEN None ELSE lock
        /\ job'[p] = None /\ \A q \in Procs \ {p} : pc'[q] = pc[q] /\ job'[q] = job[q]
        /\ UNCHANGED <<file, cards, ops, buffer, saves, appends, abandoned, faults>>
    BY <1>1 DEF Return, Goto, Release, Typed, TypeOK, files, editor, plugin, bounds
  <1>3. j # None /\ j \in Job
    BY <1>1, <1>2 DEF Typed, TypeOK, Disciplined, Owned
  <1>4. Unused'
    <2>1. \A q \in Procs : job'[q] # None /\ lock' # q => Unmade(<<"op", job'[q].op>>)
      BY <1>2 DEF NotRepeated, Unused
    <2>2. \A q \in Procs : job'[q] # None /\ job'[q].src # None =>
            job'[q] = job[q] \/ job'[q].src = file["note"]
      BY <1>2
    <2>3. QED
      BY <1>2, <2>1, <2>2, UnusedQuietly DEF NotRepeated
  <1>5. \A c \in cards' : c.from.line = "open" /\ c.op <= ops'
    BY <1>2 DEF NotRepeated, Retired
  <1>6. ASSUME NEW q \in Procs, NEW c \in cards'
        PROVE  Issued(q, c)'
    <2>1. Issued(q, c)
      BY <1>2, <1>6 DEF NotRepeated, Retired
    <2>2. QED
      BY <1>2, <2>1 DEF Issued, CardOf
  <1>7. \A q \in Procs : lock' = q /\ job'[q].src # None =>
          <<"op", job'[q].op>> \notin job'[q].src.edits
    BY <1>2, PlacesDiffer DEF NotRepeated, Retired
  <1>8. ASSUME faults' <= 1, NEW c \in cards', Settled(c)'
        PROVE  file'["note"] # c.from /\ \A q \in Procs : lock' = q => Past(q, c)'
    <2>1. CASE Settled(c)
      <3>1. file["note"] # c.from /\ \A q \in Procs : lock = q => Past(q, c)
        BY <1>2, <1>8, <2>1 DEF NotRepeated, Retired
      <3>2. \A q \in Procs : lock' = q => lock = q /\ q # p
        BY <1>2, PlacesDiffer
      <3>3. QED
        BY <1>2, <3>1, <3>2 DEF Past
    <2>2. CASE ~Settled(c)
      <3>1. c.op = j.op
        BY <1>1, <1>2, <1>8, <2>2 DEF Settled, Working
      <3>2. c = CardOf(j) /\ j.kind = "move"
        BY <1>1, <1>2, <1>3, <1>8, <3>1 DEF NotRepeated, Retired, Issued
      <3>3. c.from = j.src /\ c.from # None /\ c \in cards
        BY <1>2, <1>8, <3>2, VersionsAndNone DEF CardOf, Typed, TypeOK, Card
      <3>4. lock = p
        BY <1>1, <1>3, <3>3 DEF Typed, Disciplined, Owned
      <3>5. Shaped(stage, j) /\ NotBackAt(p, stage, j)
        BY <1>1, <3>2, <3>4 DEF Typed, Disciplined, NotRepeated
      <3>6. file["note"] # j.src
        <4>1. CASE stage = "ok"
          BY <3>5, <4>1 DEF NotBackAt, Shaped, Replacing
        <4>2. CASE stage = "error"
          BY <1>2, <1>8, <3>2, <3>3, <3>5, <4>2 DEF NotBackAt
        <4>3. QED
          BY <1>2, <4>1, <4>2
      <3>7. \A q \in Procs : lock' # q
        BY <1>2, <3>4, PlacesDiffer
      <3>8. QED
        BY <1>2, <3>3, <3>6, <3>7
    <2>3. QED
      BY <2>1, <2>2
  <1>9. ASSUME NEW q \in Procs, lock' = q
        PROVE  (job[q].kind = "move" => NotBackAt(q, pc[q], job[q]))'
    <2>1. lock = q /\ q # p
      BY <1>2, <1>9, PlacesDiffer
    <2>2. QED
      BY <1>2, <2>1, HolderNotBack
  <1>10. QED
    BY <1>4, <1>5, <1>6, <1>7, <1>8, <1>9 DEF NotRepeated, Retired

LEMMA CrashNotRepeated ==
  ASSUME Typed, Typed', Secure, NotRepeated, NEW p \in Procs, Crash(p)
  PROVE  NotRepeated'
  <1>1. /\ lock' = None /\ lock = p /\ abandoned' = abandoned \cup {job[p].op}
        /\ job'[p] = None /\ \A q \in Procs \ {p} : pc'[q] = pc[q] /\ job'[q] = job[q]
        /\ file'["note"] = file["note"]
        /\ \A f \in Places : file'[f] = file[f] \/ file'[f] = None
        /\ UNCHANGED <<cards, ops, buffer, saves, appends, faults>>
    BY PlacesDiffer DEF Crash, Leave, Goto, Typed, TypeOK, editor, plugin
  <1>2. Unused'
    <2>1. \A q \in Procs : job'[q] # None /\ lock' # q => Unmade(<<"op", job'[q].op>>)
      BY <1>1 DEF NotRepeated, Unused
    <2>2. \A q \in Procs : job'[q] # None /\ job'[q].src # None =>
            job'[q] = job[q] \/ job'[q].src = file["note"]
      BY <1>1
    <2>3. QED
      BY <1>1, <2>1, <2>2, UnusedQuietly DEF NotRepeated
  <1>3. \A c \in cards' : c.from.line = "open" /\ c.op <= ops'
    BY <1>1 DEF NotRepeated, Retired
  <1>4. ASSUME NEW q \in Procs, NEW c \in cards'
        PROVE  Issued(q, c)'
    <2>1. Issued(q, c)
      BY <1>1, <1>4 DEF NotRepeated, Retired
    <2>2. QED
      BY <1>1, <2>1 DEF Issued, CardOf
  <1>5. ASSUME faults' <= 1, NEW c \in cards', Settled(c)'
        PROVE  file'["note"] # c.from
    <2>1. Settled(c)
      BY <1>1, <1>5 DEF Settled, Working
    <2>2. QED
      BY <1>1, <1>5, <2>1 DEF NotRepeated, Retired
  <1>6. \A q \in Procs : lock' # q
    BY <1>1, PlacesDiffer
  <1>7. QED
    BY <1>2, <1>3, <1>4, <1>5, <1>6 DEF NotRepeated, Retired

-----------------------------------------------------------------------------
(* Those who take no lock make versions that nobody has had.               *)

\* Each file stays, or gets an edit that has not been made before.
LEMMA MadeNotRepeated ==
  ASSUME Typed, Typed', Secure, NotRepeated, Unused', NEW e, Unmade(e),
         UNCHANGED <<cards, lock, pc, job, ops, abandoned, faults>>,
         \A f \in Places : file'[f] = file[f] \/ e \in file'[f].edits
  PROVE  NotRepeated'
  <1>1. \A c \in cards : e \notin c.from.edits
    BY DEF Unmade
  <1>2. \A q \in Procs : job[q] # None /\ job[q].src # None => e \notin job[q].src.edits
    BY DEF Unmade
  <1>3. \A q \in Procs, c \in cards : Issued(q, c)'
    <2>1. SUFFICES ASSUME NEW q \in Procs, NEW c \in cards
                   PROVE  Issued(q, c)'
      OBVIOUS
    <2>2. Issued(q, c)
      BY DEF NotRepeated, Retired
    <2>3. QED
      BY <2>2 DEF Issued, CardOf
  <1>4. ASSUME faults' <= 1, NEW c \in cards', Settled(c)'
        PROVE  file'["note"] # c.from /\ \A q \in Procs : lock' = q => Past(q, c)'
    <2>1. Settled(c)
      BY <1>4 DEF Settled, Working
    <2>2. file["note"] # c.from /\ \A q \in Procs : lock = q => Past(q, c)
      BY <1>4, <2>1 DEF NotRepeated, Retired
    <2>3. \A f \in Places : file'[f] = file[f] \/ file'[f] # c.from
      BY <1>1, <1>4
    <2>4. QED
      BY <2>2, <2>3, PlacesDiffer DEF Past
  <1>5. Retired'
    BY <1>3, <1>4 DEF NotRepeated, Retired
  <1>6. ASSUME NEW q \in Procs, lock' = q
        PROVE  (job[q].kind = "move" => NotBackAt(q, pc[q], job[q]))'
    <2>1. CASE job[q].kind = "move"
      <3>1. job[q] # None /\ job[q] \in Job
        BY <1>6, PlacesDiffer DEF Typed, TypeOK, Disciplined, Owned
      <3>2. job[q].src # None
        BY <1>6, <2>1, <3>1, MoveVersions DEF Typed, Disciplined
      <3>3. e \notin job[q].src.edits
        BY <1>2, <3>1, <3>2
      <3>4. \A f \in Places : file[f] # job[q].src => file'[f] # job[q].src
        BY <3>3
      <3>5. /\ file["note"] # job[q].src => file'["note"] # job[q].src
            /\ file[q] # job[q].src => file'[q] # job[q].src
        BY <3>4, PlacesDiffer
      <3>6. job'[q] = job[q] /\ pc'[q] = pc[q] /\ lock = q /\ UNCHANGED <<faults, cards>>
        BY <1>6
      <3>7. QED
        BY <3>5, <3>6, HolderNotBack
    <2>2. CASE job[q].kind # "move"
      BY <2>2
    <2>3. QED
      BY <2>1, <2>2
  <1>7. QED
    BY <1>5, <1>6 DEF NotRepeated

LEMMA OpensNotRepeated ==
  ASSUME Typed, Typed', Secure, NotRepeated, EditorOpens \/ AppendOpens \/ Rest
  PROVE  NotRepeated'
  <1>1. /\ UNCHANGED <<file, cards, lock, pc, job, ops, saves, appends, abandoned, faults>>
        /\ buffer' = buffer \/ (file["note"] # None /\ buffer' = file["note"])
    BY DEF EditorOpens, AppendOpens, Rest, vars, files, editor, plugin, ghosts, bounds
  <1>2. ASSUME NEW e, Unmade(e)
        PROVE  Unmade(e)'
    BY <1>1, <1>2, PlacesDiffer DEF Unmade
  <1>3. Unused'
    <2>1. Unused
      BY DEF NotRepeated
    <2>2. /\ \A n \in Nat : n > saves => Unmade(<<"save", n>>)'
          /\ \A n \in Nat : n > appends => Unmade(<<"append", n>>)'
          /\ \A n \in Nat : n > ops => Unmade(<<"op", n>>)'
      BY <1>2, <2>1 DEF Unused
    <2>3. ASSUME NEW q \in Procs, job'[q] # None, lock' # q
          PROVE  Unmade(<<"op", job[q].op>>)'
      <3>1. PICK e : e = <<"op", job[q].op>>
        OBVIOUS
      <3>2. Unmade(e)'
        BY <1>1, <1>2, <2>1, <2>3, <3>1 DEF Unused
      <3>3. QED
        BY <1>1, <3>1, <3>2 DEF Unmade
    <2>4. QED
      BY <1>1, <2>2, <2>3 DEF Unused
  <1>4. PICK e : e = <<"save", saves + 1>>
    OBVIOUS
  <1>5. Unmade(e)
    BY <1>4 DEF NotRepeated, Unused, Typed, TypeOK
  <1>6. QED
    BY <1>1, <1>3, <1>5, MadeNotRepeated

LEMMA EditorSavesNotRepeated ==
  ASSUME Typed, Typed', Secure, NotRepeated, EditorSaves
  PROVE  NotRepeated'
  <1>1. PICK new, n : new = Edit(buffer, "save", saves + 1) /\ n = saves + 1
    OBVIOUS
  <1>2. /\ buffer # None /\ file' = [file EXCEPT !["note"] = new]
        /\ saves' = n /\ buffer' = new
        /\ UNCHANGED <<cards, lock, pc, job, ops, appends, abandoned, faults>>
    BY <1>1 DEF EditorSaves, plugin, bounds
  <1>3. buffer \in Version /\ n \in Nat /\ saves \in Nat
    BY <1>1, <1>2 DEF Typed, TypeOK
  <1>4. new.edits = buffer.edits \cup {<<"save", n>>}
    BY <1>1, <1>3, EditedVersion
  <1>5. file'["note"] = new /\ \A f \in Places : f # "note" => file'[f] = file[f]
    BY <1>2, PlacesDiffer DEF Typed, TypeOK
  <1>6. ASSUME NEW e, Unmade(e), e # <<"save", n>>
        PROVE  Unmade(e)'
    <2>1. e \notin new.edits
      BY <1>2, <1>4, <1>6 DEF Unmade
    <2>2. \A f \in Places : file'[f] # None => e \notin file'[f].edits
      BY <1>5, <1>6, <2>1 DEF Unmade
    <2>3. QED
      BY <1>2, <1>6, <2>1, <2>2 DEF Unmade
  <1>7. Unused'
    <2>1. \A m \in Nat : m > n => Unmade(<<"save", m>>)'
      <3>1. SUFFICES ASSUME NEW m \in Nat, m > n
                     PROVE  Unmade(<<"save", m>>)'
        OBVIOUS
      <3>2. Unmade(<<"save", m>>) /\ <<"save", m>> # <<"save", n>>
        BY <1>1, <1>3, <3>1 DEF NotRepeated, Unused
      <3>3. QED
        BY <1>6, <3>2
    <2>2. \A m \in Nat : m > appends => Unmade(<<"append", m>>)'
      BY <1>6 DEF NotRepeated, Unused
    <2>3. \A m \in Nat : m > ops => Unmade(<<"op", m>>)'
      BY <1>6 DEF NotRepeated, Unused
    <2>4. ASSUME NEW q \in Procs, job'[q] # None, lock' # q
          PROVE  Unmade(<<"op", job[q].op>>)'
      <3>1. PICK e : e = <<"op", job[q].op>>
        OBVIOUS
      <3>2. Unmade(e) /\ e # <<"save", n>>
        BY <1>2, <2>4, <3>1 DEF NotRepeated, Unused
      <3>3. Unmade(e)'
        BY <1>6, <3>2
      <3>4. QED
        BY <1>2, <3>1, <3>3 DEF Unmade
    <2>5. QED
      BY <1>2, <2>1, <2>2, <2>3, <2>4 DEF Unused
  <1>8. PICK e : e = <<"save", n>>
    OBVIOUS
  <1>9. Unmade(e) /\ \A f \in Places : file'[f] = file[f] \/ e \in file'[f].edits
    BY <1>1, <1>3, <1>4, <1>5, <1>8 DEF NotRepeated, Unused
  <1>10. QED
    BY <1>2, <1>7, <1>9, MadeNotRepeated

LEMMA AppendWritesNotRepeated ==
  ASSUME Typed, Typed', Secure, NotRepeated, AppendWrites
  PROVE  NotRepeated'
  <1>1. PICK n : n = appends + 1
    OBVIOUS
  <1>2. /\ appends' = n
        /\ UNCHANGED <<cards, lock, pc, job, ops, saves, buffer, abandoned, faults>>
    BY <1>1 DEF AppendWrites, editor, ghosts, bounds
  <1>3. n \in Nat /\ appends \in Nat
    BY <1>1 DEF Typed, TypeOK
  <1>4. ASSUME NEW f \in Places
        PROVE  \/ file'[f] = file[f]
               \/ file[f] # None /\ file'[f].edits = file[f].edits \cup {<<"append", n>>}
    <2>1. CASE f # fd
      BY <2>1, AppendWritesTyped
    <2>2. CASE f = fd
      <3>1. file[f] \in Version /\ file[f] # None
        BY <2>2 DEF Typed, TypeOK, Disciplined
      <3>2. PICK w : w = Edit(file[f], "append", n)
        OBVIOUS
      <3>3. file'[f] = w /\ w.edits = file[f].edits \cup {<<"append", n>>}
        BY <1>1, <1>3, <2>2, <3>1, <3>2, EditedVersion, AppendWritesTyped
      <3>4. QED
        BY <3>1, <3>3
    <2>3. QED
      BY <2>1, <2>2
  <1>5. ASSUME NEW e, Unmade(e), e # <<"append", n>>
        PROVE  Unmade(e)'
    <2>1. \A f \in Places : file'[f] # None => e \notin file'[f].edits
      BY <1>4, <1>5 DEF Unmade
    <2>2. QED
      BY <1>2, <1>5, <2>1 DEF Unmade
  <1>6. Unused'
    <2>1. \A m \in Nat : m > n => Unmade(<<"append", m>>)'
      <3>1. SUFFICES ASSUME NEW m \in Nat, m > n
                     PROVE  Unmade(<<"append", m>>)'
        OBVIOUS
      <3>2. Unmade(<<"append", m>>) /\ <<"append", m>> # <<"append", n>>
        BY <1>1, <1>3, <3>1 DEF NotRepeated, Unused
      <3>3. QED
        BY <1>5, <3>2
    <2>2. \A m \in Nat : m > saves => Unmade(<<"save", m>>)'
      BY <1>5 DEF NotRepeated, Unused
    <2>3. \A m \in Nat : m > ops => Unmade(<<"op", m>>)'
      BY <1>5 DEF NotRepeated, Unused
    <2>4. ASSUME NEW q \in Procs, job'[q] # None, lock' # q
          PROVE  Unmade(<<"op", job[q].op>>)'
      <3>1. PICK e : e = <<"op", job[q].op>>
        OBVIOUS
      <3>2. Unmade(e) /\ e # <<"append", n>>
        BY <1>2, <2>4, <3>1 DEF NotRepeated, Unused
      <3>3. Unmade(e)'
        BY <1>5, <3>2
      <3>4. QED
        BY <1>2, <3>1, <3>3 DEF Unmade
    <2>5. QED
      BY <1>2, <2>1, <2>2, <2>3, <2>4 DEF Unused
  <1>7. PICK e : e = <<"append", n>>
    OBVIOUS
  <1>8. Unmade(e) /\ \A f \in Places : file'[f] = file[f] \/ e \in file'[f].edits
    BY <1>1, <1>3, <1>4, <1>7 DEF NotRepeated, Unused
  <1>9. QED
    BY <1>2, <1>6, <1>8, MadeNotRepeated

-----------------------------------------------------------------------------
(* Where the version that was read is, from call to call of a move.        *)

LEMMA MoveAt ==
  ASSUME Typed, Secure, NotRepeated, NEW p \in Procs, pc[p] \in Busy, NEW j, j = job[p],
         j.kind = "move"
  PROVE  /\ lock = p /\ j \in Job /\ Shaped(pc[p], j) /\ CarriedAt(p, pc[p], j)
         /\ NotBackAt(p, pc[p], j)
         /\ j.src # None /\ j.src \in Version /\ j.updated # j.src
         /\ faults \in Nat /\ j.step \in {"commit", "restore", "reapply"}
  <1>1. lock = p /\ j \in Job /\ Shaped(pc[p], j)
    BY AtCall
  <1>2. CarriedAt(p, pc[p], j) /\ NotBackAt(p, pc[p], j)
    BY <1>1 DEF Secure, NotRepeated
  <1>3. QED
    BY <1>1, <1>2, MoveVersions DEF Job, Typed, TypeOK

LEMMA NotBackCall ==
  ASSUME Typed, NEW p \in Procs, NEW stage, Goto(p, stage), NEW j \in Job,
         job' = [job EXCEPT ![p] = j], NotBackAt(p, stage, j)'
  PROVE  NotBackAt(p, pc[p], job[p])'
  <1>1. pc'[p] = stage /\ job'[p] = j
    BY DEF Goto, Typed, TypeOK
  <1>2. QED
    BY <1>1 DEF NotBackAt, NoneFailed

\* The ways a replacement ends.
LEMMA ContinueNotBack ==
  ASSUME Typed, NEW p \in Procs, NEW j \in Job, NEW from \in Replacing, Shaped(from, j),
         j.kind = "move", NEW installed \in BOOLEAN, NEW clean \in BOOLEAN,
         j.step = "reapply" => faults' >= 1,
         j.step = "commit" /\ clean => file'["note"] # j.src,
         j.step = "commit" /\ ~clean /\ ~installed /\ faults' <= 0 => file'["note"] # j.src,
         j.step = "commit" /\ ~clean /\ installed /\ faults' <= 1 => file'["note"] # j.src,
         j.step = "restore" /\ ~installed /\ faults' <= 1 => file'["note"] # j.src,
         j.step = "reapply" /\ faults' <= 1 => file'["note"] # j.src
  PROVE  NotBackAt(p, Continue(j, installed, clean), j)'
  <1>1. PICK next : next = Continue(j, installed, clean)
    OBVIOUS
  <1>2. /\ next \in {"reindex", "uncreate", "error"}
        /\ next = "reindex" => j.step = "commit" /\ clean
        /\ next = "uncreate" =>
              \/ j.step = "commit" /\ ~clean /\ ~installed
              \/ j.step = "restore" /\ installed
        /\ next = "error" =>
              /\ j.step = "commit" => ~clean /\ installed
              /\ j.step = "restore" => ~installed
    BY <1>1, ContinueStage
  <1>3. j.step \in {"commit", "restore", "reapply"}
    BY DEF Job
  <1>4. NotBackAt(p, next, j)'
    <2>1. CASE next = "reindex"
      BY <1>2, <2>1 DEF NotBackAt
    <2>2. CASE next = "uncreate"
      BY <1>2, <2>2 DEF NotBackAt, NoneFailed
    <2>3. CASE next = "error"
      <3>1. faults' <= 1 => file'["note"] # j.src
        BY <1>2, <1>3, <2>3
      <3>2. QED
        BY <2>3, <3>1 DEF NotBackAt
    <2>4. QED
      BY <1>2, <2>1, <2>2, <2>3
  <1>5. QED
    BY <1>1, <1>4 DEF NotBackAt, NoneFailed

LEMMA ReplacingNotBack ==
  ASSUME Typed, Typed', Secure, NotRepeated, NEW p \in Procs, NEW o \in Outcomes,
         CreateTemp(p, o) \/ Exchange(p, o) \/ Inspect(p, o) \/ Unlink(p, o),
         job[p].kind = "move"
  PROVE  NotBackAt(p, pc[p], job[p])'
  <1>1. PICK j : j = job[p]
    OBVIOUS
  <1>2. pc[p] \in {"temp", "exchange", "inspect", "unlink"}
    BY DEF CreateTemp, Exchange, Inspect, Unlink
  <1>3. pc[p] \in Replacing \cap Busy
    BY <1>2 DEF Replacing, Busy
  <1>4. /\ lock = p /\ j \in Job /\ Shaped(pc[p], j) /\ CarriedAt(p, pc[p], j)
        /\ NotBackAt(p, pc[p], j)
        /\ j.src # None /\ j.src \in Version /\ j.updated # j.src
        /\ faults \in Nat /\ j.step \in {"commit", "restore", "reapply"}
    BY <1>1, <1>3, MoveAt
  <1>5. job' = [job EXCEPT ![p] = j]
    BY <1>1, SameJob DEF CreateTemp, Exchange, Inspect, Unlink
  <1>6. SUFFICES \E stage : Goto(p, stage) /\ NotBackAt(p, stage, j)'
    BY <1>4, <1>5, NotBackCall
  <1>7. /\ faults' \in Nat /\ faults' >= faults
        /\ o # "ok" => faults' = faults + 1
        /\ o = "ok" => faults' = faults
    BY IoTyped DEF CreateTemp, Exchange, Inspect, Unlink
  <1>8. "note" # p /\ file \in [Places -> Version \cup {None}] /\ {"note", p} \subseteq Places
    BY PlacesDiffer DEF Typed, TypeOK
  <1>9. j.step = "reapply" => faults >= 1
    BY <1>4 DEF NotBackAt
  <1>10. j.step = "reapply" => faults' >= 1
    BY <1>4, <1>7, <1>9
  <1>11. CASE CreateTemp(p, o)
    <2>1. /\ pc[p] = "temp" /\ file'["note"] = file["note"]
          /\ o = "ok" => Goto(p, "exchange")
          /\ o # "ok" => Goto(p, Continue(j, FALSE, FALSE))
      BY <1>1, <1>4, <1>8, <1>11 DEF CreateTemp
    <2>2. j.step = "restore" => file["note"] # j.src
      BY <1>4, <2>1 DEF NotBackAt
    <2>3. CASE o = "ok"
      <3>1. NotBackAt(p, "exchange", j)'
        BY <1>4, <1>10, <2>1, <2>2 DEF NotBackAt
      <3>2. QED
        BY <2>1, <2>3, <3>1
    <2>4. CASE o # "ok"
      <3>1. ~(faults' <= 0) /\ (j.step = "reapply" => ~(faults' <= 1))
        BY <1>4, <1>7, <1>9, <2>4
      <3>2. j.step = "restore" => file'["note"] # j.src
        BY <2>1, <2>2
      <3>3. NotBackAt(p, Continue(j, FALSE, FALSE), j)'
        BY <1>1, <1>3, <1>4, <1>10, <3>1, <3>2, ContinueNotBack
      <3>4. QED
        BY <2>1, <2>4, <3>3
    <2>5. QED
      BY <2>3, <2>4
  <1>12. CASE Exchange(p, o)
    <2>1. /\ pc[p] = "exchange" /\ file[p] = Prepared(j)
          /\ j.step = "restore" => file["note"] # j.src
      BY <1>4, <1>12 DEF Exchange, CarriedAt, NotBackAt
    <2>2. CASE o = "ok"
      <3>1. Goto(p, "inspect") /\ file'["note"] = file[p] /\ file'[p] = file["note"]
        BY <1>8, <1>12, <2>2 DEF Exchange, Swap
      <3>2. j.step # "restore" => file'["note"] # j.src
        BY <1>4, <2>1, <3>1 DEF Prepared
      <3>3. NotBackAt(p, "inspect", j)'
        BY <1>4, <1>10, <2>1, <3>1, <3>2 DEF NotBackAt
      <3>4. QED
        BY <3>1, <3>3
    <2>3. CASE o # "ok"
      <3>1. Goto(p, Continue(j, FALSE, FALSE)) /\ file'["note"] = file["note"]
        BY <1>1, <1>8, <1>12, <2>3 DEF Exchange, Remove
      <3>2. ~(faults' <= 0) /\ (j.step = "reapply" => ~(faults' <= 1))
        BY <1>4, <1>7, <1>9, <2>3
      <3>3. j.step = "restore" => file'["note"] # j.src
        BY <2>1, <3>1
      <3>4. NotBackAt(p, Continue(j, FALSE, FALSE), j)'
        BY <1>1, <1>3, <1>4, <1>10, <3>2, <3>3, ContinueNotBack
      <3>5. QED
        BY <3>1, <3>4
    <2>4. QED
      BY <2>2, <2>3
  <1>13. CASE Inspect(p, o)
    <2>1. /\ pc[p] = "inspect" /\ file' = file
          /\ Goto(p, IF o = "ok" /\ file[p] = Expected(j) THEN "unlink" ELSE "back")
      BY <1>1, <1>13 DEF Inspect, NoFiles, files
    <2>2. /\ j.step # "restore" => file'["note"] # j.src
          /\ j.step = "restore" => file'[p] # j.src
      BY <1>4, <2>1 DEF NotBackAt
    <2>3. CASE o = "ok" /\ file[p] = Expected(j)
      <3>1. NotBackAt(p, "unlink", j)'
        BY <1>4, <1>10, <2>2 DEF NotBackAt
      <3>2. QED
        BY <2>1, <2>3, <3>1
    <2>4. CASE ~(o = "ok" /\ file[p] = Expected(j))
      <3>1. j.step # "restore" /\ NoneFailed(j)' => file'[p] # j.src
        BY <1>4, <1>7, <1>9, <2>1, <2>4 DEF NoneFailed, Expected
      <3>2. NotBackAt(p, "back", j)'
        BY <1>4, <1>10, <2>2, <3>1 DEF NotBackAt
      <3>3. QED
        BY <2>1, <2>4, <3>2
    <2>5. QED
      BY <2>3, <2>4
  <1>14. CASE Unlink(p, o)
    <2>1. PICK clean \in BOOLEAN : clean = (o = "ok")
      OBVIOUS
    <2>2. /\ pc[p] = "unlink" /\ file'["note"] = file["note"]
          /\ Goto(p, Continue(j, TRUE, clean))
      BY <1>1, <1>8, <1>14, <2>1 DEF Unlink, Remove, Leave
    <2>3. j.step # "restore" => file["note"] # j.src
      BY <1>4, <2>2 DEF NotBackAt
    <2>4. NotBackAt(p, Continue(j, TRUE, clean), j)'
      BY <1>1, <1>3, <1>4, <1>10, <2>2, <2>3, ContinueNotBack
    <2>5. QED
      BY <2>2, <2>4
  <1>15. QED
    BY <1>11, <1>12, <1>13, <1>14

LEMMA RollbackNotBack ==
  ASSUME Typed, Typed', Secure, NotRepeated, NEW p \in Procs, NEW o \in Outcomes,
         ExchangeBack(p, o) \/ InspectBack(p, o) \/ UnlinkBack(p, o) \/ Current(p, o),
         job[p].kind = "move"
  PROVE  NotBackAt(p, pc[p], job[p])'
  <1>1. PICK j : j = job[p]
    OBVIOUS
  <1>2. pc[p] \in {"back", "inspectBack", "unlinkBack", "current"}
    BY DEF ExchangeBack, InspectBack, UnlinkBack, Current
  <1>3. pc[p] \in Replacing \cap Busy
    BY <1>2 DEF Replacing, Busy
  <1>4. /\ lock = p /\ j \in Job /\ Shaped(pc[p], j)
        /\ NotBackAt(p, pc[p], j)
        /\ j.src # None /\ j.src \in Version /\ j.updated # j.src
        /\ faults \in Nat /\ j.step \in {"commit", "restore", "reapply"}
    BY <1>1, <1>3, MoveAt
  <1>5. job' = [job EXCEPT ![p] = j]
    BY <1>1, SameJob DEF ExchangeBack, InspectBack, UnlinkBack, Current
  <1>6. SUFFICES \E stage : Goto(p, stage) /\ NotBackAt(p, stage, j)'
    BY <1>4, <1>5, NotBackCall
  <1>7. /\ faults' \in Nat /\ faults' >= faults
        /\ o # "ok" => faults' = faults + 1
        /\ o = "ok" => faults' = faults
    BY IoTyped DEF ExchangeBack, InspectBack, UnlinkBack, Current
  <1>8. "note" # p /\ file \in [Places -> Version \cup {None}] /\ {"note", p} \subseteq Places
    BY PlacesDiffer DEF Typed, TypeOK
  <1>9. j.step = "reapply" => faults >= 1 /\ faults' >= 1
    BY <1>4, <1>7 DEF NotBackAt
  <1>10. NoneFailed(j)' => NoneFailed(j)
    BY <1>4, <1>7 DEF NoneFailed
  <1>11. o # "ok" => ~NoneFailed(j)'
    BY <1>4, <1>7, <1>9 DEF NoneFailed
  <1>12. NoneFailed(j)' <=> faults' <= IF j.step = "reapply" THEN 1 ELSE 0
    BY DEF NoneFailed
  <1>13. CASE ExchangeBack(p, o)
    <2>1. /\ pc[p] = "back"
          /\ j.step # "restore" /\ NoneFailed(j) => file[p] # j.src
          /\ j.step = "restore" => file[p] # j.src
      BY <1>4, <1>13 DEF ExchangeBack, NotBackAt
    <2>2. CASE o = "ok"
      <3>1. Goto(p, "inspectBack") /\ file'["note"] = file[p]
        BY <1>8, <1>13, <2>2 DEF ExchangeBack, Swap
      <3>2. NotBackAt(p, "inspectBack", j)'
        BY <1>4, <1>9, <1>10, <2>1, <3>1 DEF NotBackAt
      <3>3. QED
        BY <3>1, <3>2
    <2>3. CASE o # "ok"
      <3>1. Goto(p, "current")
        BY <1>13, <2>3 DEF ExchangeBack
      <3>2. NotBackAt(p, "current", j)'
        BY <1>4, <1>9, <1>11, <2>3 DEF NotBackAt
      <3>3. QED
        BY <3>1, <3>2
    <2>4. QED
      BY <2>2, <2>3
  <1>14. CASE InspectBack(p, o)
    <2>1. /\ pc[p] = "inspectBack" /\ file'["note"] = file["note"]
          /\ Goto(p, "unlinkBack") \/ Goto(p, "current")
      BY <1>8, <1>14 DEF InspectBack, files, Leave
    <2>2. /\ j.step # "restore" /\ NoneFailed(j) => file["note"] # j.src
          /\ j.step = "restore" => file["note"] # j.src
      BY <1>4, <2>1 DEF NotBackAt
    <2>3. NotBackAt(p, "unlinkBack", j)' /\ NotBackAt(p, "current", j)'
      BY <1>4, <1>9, <1>10, <2>1, <2>2 DEF NotBackAt
    <2>4. QED
      BY <2>1, <2>3
  <1>15. CASE UnlinkBack(p, o)
    <2>1. /\ pc[p] = "unlinkBack" /\ file'["note"] = file["note"]
          /\ o = "ok" => Goto(p, Continue(j, FALSE, FALSE))
          /\ o # "ok" => Goto(p, "current")
      BY <1>1, <1>8, <1>15 DEF UnlinkBack, Remove, Leave
    <2>2. /\ j.step # "restore" /\ NoneFailed(j) => file["note"] # j.src
          /\ j.step = "restore" => file["note"] # j.src
      BY <1>4, <2>1 DEF NotBackAt
    <2>3. CASE o = "ok"
      <3>1. /\ j.step = "commit" /\ faults' <= 0 => file'["note"] # j.src
            /\ j.step = "restore" => file'["note"] # j.src
            /\ j.step = "reapply" /\ faults' <= 1 => file'["note"] # j.src
        BY <1>10, <1>12, <2>1, <2>2
      <3>2. NotBackAt(p, Continue(j, FALSE, FALSE), j)'
        BY <1>1, <1>3, <1>4, <1>9, <3>1, ContinueNotBack
      <3>3. QED
        BY <2>1, <2>3, <3>2
    <2>4. CASE o # "ok"
      <3>1. NotBackAt(p, "current", j)'
        BY <1>4, <1>9, <1>10, <2>1, <2>2 DEF NotBackAt
      <3>2. QED
        BY <2>1, <2>4, <3>1
    <2>5. QED
      BY <2>3, <2>4
  <1>16. CASE Current(p, o)
    <2>1. PICK installed \in BOOLEAN : installed = (o = "ok" /\ file["note"] = Prepared(j))
      OBVIOUS
    <2>2. /\ pc[p] = "current" /\ file' = file /\ Goto(p, Continue(j, installed, FALSE))
      BY <1>1, <1>16, <2>1 DEF Current, NoFiles, files
    <2>3. NoneFailed(j) => file["note"] # j.src
      BY <1>4, <2>2 DEF NotBackAt
    <2>4. NoneFailed(j)' => file'["note"] # j.src
      BY <1>10, <2>2, <2>3
    <2>5. j.step = "commit" /\ installed => file'["note"] # j.src
      BY <1>4, <2>1, <2>2 DEF Prepared
    <2>6. j.step = "restore" /\ ~installed /\ faults' <= 1 => file'["note"] # j.src
      <3>1. CASE o = "ok"
        BY <2>1, <2>2, <3>1 DEF Prepared
      <3>2. CASE o # "ok"
        <4>1. faults' <= 1 => faults <= 0
          BY <1>4, <1>7, <3>2
        <4>2. QED
          BY <2>2, <2>3, <4>1 DEF NoneFailed
      <3>3. QED
        BY <3>1, <3>2
    <2>7. NotBackAt(p, Continue(j, installed, FALSE), j)'
      BY <1>1, <1>3, <1>4, <1>9, <1>12, <2>4, <2>5, <2>6, ContinueNotBack
    <2>8. QED
      BY <2>2, <2>7
  <1>17. QED
    BY <1>13, <1>14, <1>15, <1>16

LEMMA CardNotBack ==
  ASSUME Typed, Typed', Secure, NotRepeated, NEW p \in Procs,
         \/ Reindex(p)
         \/ \E o \in Outcomes \cup {"late"} : CreateCard(p, o) \/ DeleteCard(p, o),
         job[p].kind = "move"
  PROVE  NotBackAt(p, pc[p], job[p])'
  <1>1. PICK j : j = job[p]
    OBVIOUS
  <1>2. pc[p] \in {"reindex", "card", "uncreate"}
    BY DEF Reindex, CreateCard, DeleteCard
  <1>3. /\ lock = p /\ j \in Job /\ Shaped(pc[p], j)
        /\ NotBackAt(p, pc[p], j)
        /\ j.src # None /\ j.src \in Version
        /\ faults \in Nat /\ j.step \in {"commit", "restore", "reapply"}
    BY <1>1, <1>2, MoveAt DEF Busy
  <1>4. job' = job => job' = [job EXCEPT ![p] = j]
    BY <1>1, SameJob
  <1>5. ASSUME NEW step \in {"restore", "reapply"}, job' = [job EXCEPT ![p].step = step],
               Goto(p, "temp"), NotBackAt(p, "temp", [j EXCEPT !.step = step])'
        PROVE  NotBackAt(p, pc[p], job[p])'
    <2>1. PICK k : k = [j EXCEPT !.step = step]
      OBVIOUS
    <2>2. k \in Job /\ job' = [job EXCEPT ![p] = k]
      BY <1>1, <1>3, <1>5, <2>1 DEF Job
    <2>3. NotBackAt(p, "temp", k)'
      BY <1>5, <2>1 DEF NotBackAt, NoneFailed
    <2>4. QED
      BY <1>5, <2>2, <2>3, NotBackCall
  <1>6. CASE Reindex(p)
    <2>1. /\ pc[p] = "reindex" /\ file' = file /\ j.step = "commit"
          /\ \/ Goto(p, "ok") /\ job' = job
             \/ job' = [job EXCEPT ![p].step = "restore"] /\ Goto(p, "temp")
      BY <1>1, <1>3, <1>6 DEF Reindex, NoFiles, files, Shaped, Replacing
    <2>2. file'["note"] # j.src
      BY <1>3, <2>1 DEF NotBackAt
    <2>3. CASE Goto(p, "ok") /\ job' = job
      <3>1. NotBackAt(p, "ok", j)'
        BY <2>1, <2>2 DEF NotBackAt
      <3>2. QED
        BY <1>3, <1>4, <2>3, <3>1, NotBackCall
    <2>4. CASE job' = [job EXCEPT ![p].step = "restore"] /\ Goto(p, "temp")
      <3>1. PICK k : k = [j EXCEPT !.step = "restore"]
        OBVIOUS
      <3>2. k.src = j.src /\ k.step = "restore"
        BY <1>3, <3>1 DEF Job
      <3>3. NotBackAt(p, "temp", k)'
        BY <2>2, <3>2 DEF NotBackAt
      <3>4. NotBackAt(p, "temp", [j EXCEPT !.step = "restore"])'
        BY <3>1, <3>3 DEF NotBackAt, NoneFailed
      <3>5. QED
        BY <1>5, <2>4, <3>4
    <2>5. QED
      BY <2>1, <2>3, <2>4
  <1>7. ASSUME NEW o \in Outcomes \cup {"late"}, CreateCard(p, o)
        PROVE  NotBackAt(p, pc[p], job[p])'
    <2>1. /\ pc[p] = "card" /\ job' = job
          /\ \/ Goto(p, "error") /\ cards' = cards
             \/ Goto(p, "temp")
      BY <1>7 DEF CreateCard
    <2>2. j.step = "commit"
      BY <1>3, <2>1 DEF Shaped, Replacing
    <2>3. CASE Goto(p, "error") /\ cards' = cards
      <3>1. CardOf(j) \notin cards
        BY <1>1, <1>3, <2>1, VersionsAndNone DEF NotRepeated, Retired, Issued, CardOf
      <3>2. NotBackAt(p, "error", j)'
        BY <2>2, <2>3, <3>1 DEF NotBackAt, CardOf
      <3>3. QED
        BY <1>3, <1>4, <2>1, <2>3, <3>2, NotBackCall
    <2>4. CASE Goto(p, "temp")
      <3>1. NotBackAt(p, "temp", j)'
        BY <2>2 DEF NotBackAt
      <3>2. QED
        BY <1>3, <1>4, <2>1, <2>4, <3>1, NotBackCall
    <2>5. QED
      BY <2>1, <2>3, <2>4
  <1>8. ASSUME NEW o \in Outcomes \cup {"late"}, DeleteCard(p, o)
        PROVE  NotBackAt(p, pc[p], job[p])'
    <2>1. /\ pc[p] = "uncreate" /\ file' = file
          /\ cards' = IF o = "fail" THEN cards ELSE cards \ {CardOf(j)}
          /\ IF o = "fail" /\ j.step = "restore"
             THEN job' = [job EXCEPT ![p].step = "reapply"] /\ Goto(p, "temp")
             ELSE job' = job /\ Goto(p, "error")
      BY <1>1, <1>8 DEF DeleteCard, NoFiles, files
    <2>2. /\ faults' \in Nat /\ faults' >= faults
          /\ o # "ok" => faults' = faults + 1
      BY <1>8, IoTyped DEF DeleteCard
    <2>3. j.step # "reapply"
      BY <1>3, <2>1 DEF Shaped
    <2>4. CASE o = "fail" /\ j.step = "restore"
      <3>1. PICK k : k = [j EXCEPT !.step = "reapply"]
        OBVIOUS
      <3>2. k.step = "reapply"
        BY <1>3, <3>1 DEF Job
      <3>3. NotBackAt(p, "temp", k)'
        BY <1>3, <2>2, <2>4, <3>2 DEF NotBackAt
      <3>4. NotBackAt(p, "temp", [j EXCEPT !.step = "reapply"])'
        BY <3>1, <3>3 DEF NotBackAt, NoneFailed
      <3>5. QED
        BY <1>5, <2>1, <2>4, <3>4
    <2>5. CASE o = "fail" /\ j.step # "restore"
      <3>1. j.step = "commit"
        BY <1>3, <2>3, <2>5
      <3>2. faults' <= 1 => faults <= 0
        BY <1>3, <2>2, <2>5
      <3>3. faults' <= 1 => file["note"] # j.src
        BY <1>3, <2>1, <3>1, <3>2 DEF NotBackAt, NoneFailed
      <3>4. NotBackAt(p, "error", j)'
        BY <2>1, <3>1, <3>3 DEF NotBackAt
      <3>5. QED
        BY <1>3, <1>4, <2>1, <2>5, <3>4, NotBackCall
    <2>6. CASE o # "fail"
      <3>1. CardOf(j)' \notin cards'
        BY <2>1, <2>6 DEF CardOf
      <3>2. NotBackAt(p, "error", j)'
        BY <2>3, <3>1 DEF NotBackAt
      <3>3. QED
        BY <1>3, <1>4, <2>1, <2>6, <3>2, NotBackCall
    <2>7. QED
      BY <2>4, <2>5, <2>6
  <1>9. QED
    BY <1>6, <1>7, <1>8

-----------------------------------------------------------------------------
(* The specification.                                                      *)

LEMMA InitTyped ==
  ASSUME Init
  PROVE  Typed
  <1>1. Original \in Version
    BY VersionsAndNone
  <1>2. TypeOK
    BY <1>1 DEF Init, TypeOK, Stages, Replacing
  <1>3. \A p \in Procs : Owned(p)
    BY PlacesDiffer DEF Init, Owned, Busy, Replacing, Holding, Swapped
  <1>4. \A p \in Procs : lock # p /\ fd \notin Places
    BY PlacesDiffer DEF Init
  <1>5. QED
    BY <1>2, <1>3, <1>4, PlacesDiffer DEF Typed, Disciplined, Init

LEMMA InitSecure ==
  ASSUME Init
  PROVE  Secure
  <1>1. Promised /\ Numbered
    BY DEF Init, Promised, Numbered
  <1>2. NothingSavedIsLost
    BY DEF Init, NothingSavedIsLost
  <1>3. TaskOrCard
    <2>1. file["note"] = Original /\ Original # None
      BY VersionsAndNone, PlacesDiffer DEF Init
    <2>2. Original \in Copies
      BY <2>1, CopyIs, PlacesDiffer
    <2>3. QED
      BY <2>2 DEF TaskOrCard, Original
  <1>4. \A p \in Procs : lock # p
    BY PlacesDiffer DEF Init
  <1>5. QED
    BY <1>1, <1>2, <1>3, <1>4 DEF Secure

\* One call of the writer of p.
LEMMA CallKeeps ==
  ASSUME Typed, Secure, NEW p \in Procs, Step(p)
  PROVE  Typed' /\ Secure'
  <1>1. ASSUME Begin(p) PROVE Typed' /\ Secure'
    BY <1>1, BeginTyped, BeginSecure
  <1>2. ASSUME Refuse(p) PROVE Typed' /\ Secure'
    BY <1>2, RefuseTyped, RefuseSecure
  <1>3. ASSUME Return(p) PROVE Typed' /\ Secure'
    BY <1>3, ReturnTyped, ReturnSecure
  <1>4. ASSUME Reindex(p) PROVE Typed' /\ Secure'
    BY <1>4, OtherCallsTyped, ReindexSecure
  <1>5. ASSUME NEW o \in Outcomes,
               \/ CreateTemp(p, o) \/ Exchange(p, o) \/ Inspect(p, o) \/ Unlink(p, o)
               \/ ExchangeBack(p, o) \/ InspectBack(p, o) \/ UnlinkBack(p, o) \/ Current(p, o)
        PROVE  Typed' /\ Secure'
    <2>1. pc[p] \in Replacing
      BY <1>5 DEF CreateTemp, Exchange, Inspect, Unlink, ExchangeBack, InspectBack, UnlinkBack,
                  Current, Replacing
    <2>2. pc[p] \in Replacing \ {"temp"} => file["note"] # None
      <3>1. pc[p] \in Busy
        BY <2>1 DEF Busy
      <3>2. Shaped(pc[p], job[p]) /\ CarriedAt(p, pc[p], job[p])
        BY <3>1, AtCall DEF Secure
      <3>3. QED
        BY <2>1, <3>2 DEF Shaped, CarriedAt, Carries, Replacing
    <2>3. Typed'
      BY <1>5, <2>2, ReplacingTyped
    <2>4. Secure'
      BY <1>5, CreateTempSecure, ExchangeSecure, InspectSecure, UnlinkSecure, ExchangeBackSecure,
         InspectBackSecure, UnlinkBackSecure, CurrentSecure
    <2>5. QED
      BY <2>3, <2>4
  <1>6. ASSUME NEW o \in Outcomes, Publish(p, o) \/ Dispose(p, o) \/ Verify(p, o) \/ Undispose(p, o)
        PROVE  Typed' /\ Secure'
    <2>1. Typed'
      BY <1>6, OtherCallsTyped
    <2>2. Secure'
      BY <1>6, PublishSecure, DisposingSecure
    <2>3. QED
      BY <2>1, <2>2
  <1>7. ASSUME NEW o \in Outcomes \cup {"late"}, CreateCard(p, o) \/ DeleteCard(p, o)
        PROVE  Typed' /\ Secure'
    <2>1. Typed'
      BY <1>7, OtherCallsTyped
    <2>2. Secure'
      BY <1>7, CreateCardSecure, DeleteCardSecure
    <2>3. QED
      BY <2>1, <2>2
  <1>8. QED
    BY <1>1, <1>2, <1>3, <1>4, <1>5, <1>6, <1>7 DEF Step

LEMMA StepKeeps ==
  ASSUME Typed, Secure, [Next]_vars
  PROVE  Typed' /\ Secure'
  <1>1. ASSUME NEW p \in Procs, NEW kind \in Kinds, Request(p, kind)
        PROVE  Typed' /\ Secure'
    <2>1. Typed'
      BY <1>1, RequestTyped
    <2>2. QED
      BY <1>1, <2>1, RequestSecure
  <1>2. ASSUME NEW p \in Procs, Step(p)
        PROVE  Typed' /\ Secure'
    BY <1>2, CallKeeps
  <1>3. ASSUME NEW p \in Procs, Crash(p)
        PROVE  Typed' /\ Secure'
    BY <1>3, CrashTyped, CrashSecure
  <1>4. ASSUME EditorOpens \/ AppendOpens \/ Rest
        PROVE  Typed' /\ Secure'
    BY <1>4, OpensTyped, OpensSecure
  <1>5. ASSUME EditorSaves
        PROVE  Typed' /\ Secure'
    BY <1>5, EditorSavesTyped, EditorSavesSecure
  <1>6. ASSUME AppendWrites
        PROVE  Typed' /\ Secure'
    BY <1>6, AppendWritesTyped, AppendWritesSecure
  <1>7. ASSUME UNCHANGED vars
        PROVE  Typed' /\ Secure'
    <2>1. Typed'
      BY <1>7 DEF vars, files, editor, plugin, ghosts, bounds, Typed, TypeOK, Disciplined, Owned,
                  Shaped
    <2>2. UNCHANGED <<lock, pc, job, file, preserved, cards, saved, overwritten, dropped, ops>>
      BY <1>7 DEF vars, files, ghosts, bounds
    <2>3. Promised' /\ Numbered' /\ NothingSavedIsLost' /\ TaskOrCard'
      BY <2>2 DEF Secure, Promised, Numbered, NothingSavedIsLost, TaskOrCard, Kept, Copies
    <2>4. ASSUME NEW q \in Procs, lock' = q
          PROVE  CarriedAt(q, pc[q], job[q])'
      BY <2>2, <2>4, CarriedQuietly
    <2>5. QED
      BY <2>1, <2>3, <2>4 DEF Secure
  <1>8. QED
    BY <1>1, <1>2, <1>3, <1>4, <1>5, <1>6, <1>7 DEF Next

LEMMA InitNotRepeated ==
  ASSUME Init
  PROVE  NotRepeated
  <1>1. \A e : Unmade(e)
    BY PlacesDiffer DEF Init, Unmade, Original
  <1>2. cards = {} /\ \A p \in Procs : lock # p
    BY PlacesDiffer DEF Init
  <1>3. QED
    BY <1>1, <1>2 DEF NotRepeated, Unused, Retired

LEMMA CallKeepsNotRepeated ==
  ASSUME Typed, Typed', Secure, NotRepeated, NEW p \in Procs, Step(p)
  PROVE  NotRepeated'
  <1>1. ASSUME Begin(p) PROVE NotRepeated'
    BY <1>1, BeginNotRepeated
  <1>2. ASSUME Refuse(p) PROVE NotRepeated'
    BY <1>2, RefuseNotRepeated
  <1>3. ASSUME Return(p) PROVE NotRepeated'
    BY <1>3, ReturnNotRepeated
  <1>4. ASSUME \/ Reindex(p)
               \/ \E o \in Outcomes :
                    \/ CreateTemp(p, o) \/ Exchange(p, o) \/ Inspect(p, o) \/ Unlink(p, o)
                    \/ ExchangeBack(p, o) \/ InspectBack(p, o) \/ UnlinkBack(p, o)
                    \/ Current(p, o)
                    \/ Publish(p, o) \/ Dispose(p, o) \/ Verify(p, o) \/ Undispose(p, o)
               \/ \E o \in Outcomes \cup {"late"} : CreateCard(p, o) \/ DeleteCard(p, o)
        PROVE  NotRepeated'
    <2>1. Called(p)
      BY <1>4, CallsAre
    <2>2. Unused' /\ Retired'
      BY <2>1, CalledUnused, CalledRetired DEF NotRepeated
    <2>3. lock = p /\ lock' = p
      BY <2>1, AtCall DEF Called, Quiet
    <2>4. job[p].kind = "move" => NotBackAt(p, pc[p], job[p])'
      <3>1. SUFFICES ASSUME job[p].kind = "move"
                     PROVE  NotBackAt(p, pc[p], job[p])'
        OBVIOUS
      <3>2. \A o \in Outcomes :
              ~Publish(p, o) /\ ~Dispose(p, o) /\ ~Verify(p, o) /\ ~Undispose(p, o)
        <4>1. Shaped(pc[p], job[p])
          BY <2>1, AtCall DEF Called
        <4>2. pc[p] \notin {"publish"} \cup Disposing
          BY <3>1, <4>1 DEF Shaped
        <4>3. QED
          BY <4>2 DEF Publish, Dispose, Verify, Undispose, Disposing
      <3>3. QED
        BY <1>4, <3>1, <3>2, ReplacingNotBack, RollbackNotBack, CardNotBack
    <2>5. job'[p].kind = job[p].kind
      BY <2>1 DEF Called
    <2>6. QED
      BY <2>2, <2>3, <2>4, <2>5 DEF NotRepeated
  <1>5. QED
    BY <1>1, <1>2, <1>3, <1>4 DEF Step

LEMMA StepKeepsNotRepeated ==
  ASSUME Typed, Typed', Secure, NotRepeated, [Next]_vars
  PROVE  NotRepeated'
  <1>1. ASSUME NEW p \in Procs, NEW kind \in Kinds, Request(p, kind)
        PROVE  NotRepeated'
    BY <1>1, RequestNotRepeated
  <1>2. ASSUME NEW p \in Procs, Step(p)
        PROVE  NotRepeated'
    BY <1>2, CallKeepsNotRepeated
  <1>3. ASSUME NEW p \in Procs, Crash(p)
        PROVE  NotRepeated'
    BY <1>3, CrashNotRepeated
  <1>4. ASSUME EditorOpens \/ AppendOpens \/ Rest
        PROVE  NotRepeated'
    BY <1>4, OpensNotRepeated
  <1>5. ASSUME EditorSaves
        PROVE  NotRepeated'
    BY <1>5, EditorSavesNotRepeated
  <1>6. ASSUME AppendWrites
        PROVE  NotRepeated'
    BY <1>6, AppendWritesNotRepeated
  <1>7. ASSUME UNCHANGED vars
        PROVE  NotRepeated'
    <2>1. /\ UNCHANGED <<file, cards, lock, pc, job, buffer, ops, saves, appends>>
          /\ UNCHANGED <<abandoned, faults>>
      BY <1>7 DEF vars, files, editor, plugin, ghosts, bounds
    <2>2. Unused'
      BY <2>1, UnusedQuietly DEF NotRepeated, Unused
    <2>3. PICK e : e = <<"save", saves + 1>>
      OBVIOUS
    <2>4. Unmade(e)
      BY <2>3 DEF NotRepeated, Unused, Typed, TypeOK
    <2>5. QED
      BY <2>1, <2>2, <2>4, MadeNotRepeated
  <1>8. QED
    BY <1>1, <1>2, <1>3, <1>4, <1>5, <1>6, <1>7 DEF Next

LEMMA VaultInductive == Spec => [](Typed /\ Secure /\ NotRepeated)
  <1>1. Init => Typed /\ Secure /\ NotRepeated
    BY InitTyped, InitSecure, InitNotRepeated
  <1>2. Typed /\ Secure /\ NotRepeated /\ [Next]_vars => (Typed /\ Secure /\ NotRepeated)'
    BY StepKeeps, StepKeepsNotRepeated
  <1>3. QED
    BY <1>1, <1>2, PTL DEF Spec

\* The types: every file holds a version of the note or nothing, the lock is a
\* writer's or nobody's, and every writer with a request is at one of its calls.
THEOREM VaultTyped == Spec => []TypeOK
  BY VaultInductive, PTL DEF Typed

\* What the editor saved and what a client was told is done is never lost,
\* whatever the editor, a plugin and other writers do between two calls of a
\* writer (rollbackTaskExchangeAt), whatever call of it fails, wherever it dies.
THEOREM VaultNothingSavedIsLost == Spec => []NothingSavedIsLost
  BY VaultInductive, PTL DEF Secure

\* While a task is moved to a board, and when the move fails, is rolled back or
\* ends half-way, some copy of the note has the task or refers to its card
\* (taskboard.go: "a missing source task always retains a card").
THEOREM VaultTaskOrCard == Spec => []TaskOrCard
  BY VaultInductive, PTL DEF Secure

\* A move that failed and left its card on the board is refused when it is
\* asked for again: no call brings the note back to the version the mover was
\* shown, unless two calls fail or the mover dies (taskboard.go).
THEOREM VaultRetryIsRefused == Spec => []RetryIsRefused
  <1>1. NotRepeated => RetryIsRefused
    BY DEF NotRepeated, Retired, RetryIsRefused, Settled
  <1>2. QED
    BY <1>1, VaultInductive, PTL

=============================================================================
