------------------------------ MODULE TuiNotes ------------------------------
(***************************************************************************)
(* The note screens of the terminal UI: search and browse with a preview   *)
(* (notes.go, browse.go), the reader (note.go) and the tables of the       *)
(* vault's bases (basesview.go).                                           *)
(*                                                                         *)
(* A version names a note and one state of its file, as its hash does.     *)
(* Left out of the reader: scrolling, tags and backlinks, the live task    *)
(* queries.  The browse layer is one folder with every note in it.         *)
(***************************************************************************)
EXTENDS TuiTasks

NoVersion == <<>>

NewNotes ==
    [kind |-> "notes", layer |-> "search", open |-> {"search"}, found |-> <<>>, cursor |-> 1,
     busy |-> FALSE, notes |-> <<>>, loaded |-> FALSE, expanded |-> FALSE, byTitle |-> FALSE,
     filtered |-> FALSE, rows |-> <<>>, at |-> 1,
     preview |-> [on |-> TRUE, slug |-> "none", cache |-> {}, gen |-> 0]]

NewBases ==
    [kind |-> "bases", names |-> <<>>, base |-> "none", rows |-> <<>>, cursor |-> 1, busy |-> FALSE,
     open |-> {}, version |-> NoVersion]

\* Variant: a reload under an open editor renews the version of the edit.
RebuildUpgrades(v, note) ==
    [v EXCEPT !.note = note, !.taskAt = 0, !.linkAt = 0, !.props = @ /\ note.prop,
              !.propVersion = IF "prop" \in v.open THEN note.version ELSE @]

\* rebuild: everything the reader shows is derived from the note it was given;
\* an open property editor stays open while the property is there.  propSeen is
\* not in the code: it remembers the version whose value the user edits.
Rebuild(v, note) ==
    [v EXCEPT !.note = note, !.taskAt = 0, !.linkAt = 0,
              !.props = @ /\ note.prop,
              !.open = IF note.prop THEN @ ELSE @ \ {"prop"},
              !.propVersion = IF note.prop THEN @ ELSE NoVersion]

NewNote(note) ==
    [kind |-> "note", note |-> note, taskAt |-> 0, linkAt |-> 0, props |-> FALSE, busy |-> FALSE,
     open |-> {}, target |-> {}, propVersion |-> NoVersion, propSeen |-> NoVersion]

GetNote(op, slug) == Request(op, [slug |-> slug])

(***************************************************************************)
(* Search and browse.                                                      *)
(***************************************************************************)
\* browseState.rebuild: the folder, then its notes when it is unfolded; a
\* filter lists the notes it matches, here the first.
BrowseRows(v) ==
    LET sorted == IF v.byTitle THEN Reverse(v.notes) ELSE v.notes
    IN  IF v.filtered THEN SelectSeq(v.notes, LAMBDA n : n = NoteOrder[1])
        ELSE <<"folder">> \o (IF v.expanded THEN sorted ELSE <<>>)

Rebuilt(v) == LET rows == BrowseRows(v) IN [v EXCEPT !.rows = rows, !.at = Clamp(@, rows)]

Selected(v) ==
    LET rows == IF v.layer = "browse" THEN v.rows ELSE v.found
        row == Current(rows, IF v.layer = "browse" THEN v.at ELSE v.cursor)
    IN  row \cap Notes

\* The debounce of the preview: a note in the cache is shown at once, any other
\* selection starts a timer that a later one makes void.
SchedulePreview(v) ==
    LET wanted == Selected(v) \ {v.preview.slug}
    IN  IF ~v.preview.on \/ wanted = {} THEN Stay(v)
        ELSE IF wanted \subseteq v.preview.cache
        THEN Stay([v EXCEPT !.preview.slug = CHOOSE n \in wanted : TRUE])
        ELSE Res([v EXCEPT !.preview.gen = @ + 1],
                 {Request("previewTick", [gen |-> v.preview.gen + 1])})

PreviewTick(v, m) ==
    IF m.about.gen # v.preview.gen THEN Stay(v)
    ELSE Res(v, {GetNote("previewNote", n) : n \in Selected(v) \ {v.preview.slug}})

\* Variant: whatever arrives is shown.
PreviewLoadedShown(v, m) ==
    Stay([v EXCEPT !.preview.slug = m.about.slug, !.preview.cache = @ \cup {m.about.slug}])

\* An answer goes to the cache; it is shown only if its note is selected.
PreviewLoaded(v, m) ==
    LET kept == [v EXCEPT !.preview.cache = IF m.about.found THEN @ \cup {m.about.slug} ELSE @]
    IN  Stay(IF m.about.slug \in Selected(v) THEN [kept EXCEPT !.preview.slug = m.about.slug] ELSE kept)

NotesUpdate(v, m) ==
    LET idle == [v EXCEPT !.busy = FALSE]
    IN  CASE m.op = "notesFound" -> SchedulePreview([idle EXCEPT !.found = m.about.found, !.cursor = 1])
          [] m.op = "browseLoaded" ->
                SchedulePreview(Rebuilt([idle EXCEPT !.notes = m.about.notes, !.loaded = TRUE]))
          [] m.op = "previewTick" -> PreviewTick(v, m)
          [] m.op = "previewLoaded" -> PreviewLoaded(v, m)
          [] m.op = "openNote" -> Res(idle, {Push(NewNote(m.about.note))})
          [] OTHER -> Stay(v)

LoadBrowse(v) == Asking(v, {Request("listNotes", [by |-> "notes"])})

EnterBrowse(v) ==
    LET w == [v EXCEPT !.layer = "browse", !.open = {}]
    IN  IF w.loaded THEN SchedulePreview(w) ELSE LoadBrowse(w)

SearchKey(v, key) ==
    CASE key = "tab" -> {EnterBrowse(v)}
      [] v.open # {} /\ key = "esc" -> {Stay([v EXCEPT !.open = {}])}
      [] v.open # {} /\ key = "enter" ->
            {Asking([v EXCEPT !.open = {}], {Request("searchNotes", [by |-> "notes"])})}
      [] v.open = {} /\ key = "down" -> {SchedulePreview([v EXCEPT !.cursor = Down(@, v.found)])}
      [] v.open = {} /\ key = "up" -> {SchedulePreview([v EXCEPT !.cursor = Up(@)])}
      [] v.open = {} /\ key = "p" -> {SchedulePreview([v EXCEPT !.preview.on = ~@])}
      [] v.open = {} /\ key = "slash" -> {Stay([v EXCEPT !.open = {"search"}])}
      [] v.open = {} /\ key = "enter" ->
            {Asking(v, {GetNote("openNote", n)}) : n \in Current(v.found, v.cursor)}
      [] OTHER -> {}

\* While the filter is typed every change of it rebuilds the rows.
FilterKey(v, key) ==
    CASE key = "tab" -> {SchedulePreview([v EXCEPT !.open = {}, !.layer = "search"])}
      [] key = "esc" -> {Stay(Rebuilt([v EXCEPT !.open = {}, !.filtered = FALSE]))}
      [] key = "enter" -> {Stay([v EXCEPT !.open = {}])}
      [] key = "text" -> {SchedulePreview(Rebuilt([v EXCEPT !.filtered = TRUE]))}
      [] OTHER -> {}

LeaveBrowse(v) ==
    IF v.found = <<>> THEN Stay([v EXCEPT !.layer = "search", !.open = {"search"}])
    ELSE SchedulePreview([v EXCEPT !.layer = "search"])

OpenRow(v, row) ==
    IF row \in Notes THEN Asking(v, {GetNote("openNote", row)})
    ELSE Stay(Rebuilt([v EXCEPT !.expanded = ~@]))

\* h on an unfolded folder folds it, elsewhere it goes to the folder above.
LeftKey(v) ==
    IF "folder" \in Current(v.rows, v.at)
    THEN IF v.expanded THEN Stay(Rebuilt([v EXCEPT !.expanded = FALSE])) ELSE SchedulePreview(v)
    ELSE SchedulePreview([v EXCEPT !.at = IF v.filtered THEN @ ELSE 1])

BrowseKey(v, key) ==
    CASE v.open # {} -> FilterKey(v, key)
      [] v.open = {} /\ key = "tab" -> {LeaveBrowse(v)}
      [] v.open = {} /\ key = "down" -> {SchedulePreview([v EXCEPT !.at = Down(@, v.rows)])}
      [] v.open = {} /\ key = "up" -> {SchedulePreview([v EXCEPT !.at = Up(@)])}
      [] v.open = {} /\ key = "enter" -> {OpenRow(v, row) : row \in Current(v.rows, v.at)}
      [] v.open = {} /\ key = "left" -> {LeftKey(v)}
      [] v.open = {} /\ key = "s" -> {Stay(Rebuilt([v EXCEPT !.byTitle = ~@]))}
      [] v.open = {} /\ key = "p" -> {SchedulePreview([v EXCEPT !.preview.on = ~@])}
      [] v.open = {} /\ key = "r" -> {LoadBrowse(v)}
      [] v.open = {} /\ key = "slash" -> {Stay([v EXCEPT !.open = {"filter"}])}
      [] OTHER -> {}

NotesKey(v, key) == IF v.layer = "browse" THEN BrowseKey(v, key) ELSE SearchKey(v, key)

(***************************************************************************)
(* The reader.                                                             *)
(***************************************************************************)
ReloadNote(v) == Asking(v, {GetNote("reloadNote", v.note.slug)})

\* The edited text goes out with the version the reader holds by now, unless it
\* is the text the reader holds by now.
NoteEditorDone(v, m) ==
    IF ~m.about.changed /\ m.about.text = v.note.version THEN Stay(v)
    ELSE Asking(v, {Request("saveNote", [slug |-> v.note.slug, version |-> v.note.version,
                                    seen |-> m.about.text])})

NoteUpdate(v, m) ==
    LET slug == v.note.slug
        idle == [v EXCEPT !.busy = FALSE]
    IN  CASE m.op = "openNote" -> Res(idle, {Push(NewNote(m.about.note))})
          [] m.op = "noteEditorDone" /\ m.about.slug = slug -> NoteEditorDone(v, m)
          [] m.op \in {"noteSaved", "noteReloaded"} /\ m.about.note.slug = slug ->
                Stay(Rebuild(idle, m.about.note))
          [] \/ m.op = "notePropertySaved" /\ m.about.slug = slug
             \/ m.op \in {"taskToggled", "taskCancelled", "taskPurged"} /\ NoteOf[m.about.task] = slug ->
                ReloadNote(v)
          [] m.op = "agentsListed" /\ m.about.id = slug -> Stay([idle EXCEPT !.open = @ \cup {"agents"}])
          [] m.op = "agentPromptSent" /\ m.about.id = slug -> Stay(idle)
          [] OTHER -> Stay(v)

SaveProperty(v) ==
    Request("setProperty", [slug |-> v.note.slug, version |-> v.propVersion, by |-> "note",
                            seen |-> v.propSeen])

NotePromptKey(v, key) ==
    CASE "prop" \in v.open ->
            LET shut == [v EXCEPT !.open = @ \ {"prop"}, !.propVersion = NoVersion]
            IN  IF key = "esc" THEN {Stay(shut)}
                ELSE IF key = "enter" THEN {Asking(shut, {SaveProperty(v)})} ELSE {}
      [] "del" \in v.open /\ "prop" \notin v.open ->
            LET shut == [v EXCEPT !.open = @ \ {"del"}]
            IN  IF key = "y" THEN {Asking(shut, {DeleteTask(r)}) : r \in v.target} ELSE {Stay(shut)}
      [] OTHER -> AgentsKey(v, key, {v.note.slug})

FocusedTask(v) == Current(v.note.rows, v.taskAt)

\* An open panel of properties takes the keys that move and choose; the note has
\* one property.
NotePageKey(v, key) ==
    CASE key = "p" /\ v.note.prop -> {Stay([v EXCEPT !.props = ~@])}
      [] key \in {"down", "up"} /\ v.props -> {Stay(v)}
      [] key \in {"e", "enter"} /\ v.props ->
            {Stay([v EXCEPT !.open = {"prop"}, !.propVersion = v.note.version, !.propSeen = v.note.version])}
      [] key = "e" /\ ~v.props -> {Res(v, {Edit("note", v.note.slug, v.note.version)})}
      [] key = "t" /\ v.note.rows # <<>> -> {Stay([v EXCEPT !.taskAt = IF @ = 0 THEN 1 ELSE 0])}
      [] key = "down" /\ v.taskAt > 0 /\ ~v.props -> {Stay([v EXCEPT !.taskAt = Down(@, v.note.rows)])}
      [] key = "up" /\ v.taskAt > 0 /\ ~v.props -> {Stay([v EXCEPT !.taskAt = Up(@)])}
      [] key = "space" ->
            {Asking(v, {ToggleTask(r, r.status = "open")}) :
                r \in {r \in FocusedTask(v) : r.status \in {"open", "done"}}}
      [] key = "D" -> Ask(v, "del", FocusedTask(v))
      [] key = "tab" -> {Stay([v EXCEPT !.linkAt = 1])}
      [] key = "enter" /\ v.linkAt > 0 /\ ~v.props -> {Asking(v, {GetNote("openNote", Links[v.note.slug])})}
      [] key = "a" -> {ListAgents(v, v.note.slug)}
      [] OTHER -> {}

\* A reader that waits takes no key at all.
NoteKey(v, key) ==
    IF v.busy THEN {} ELSE IF v.open # {} THEN NotePromptKey(v, key) ELSE NotePageKey(v, key)

(***************************************************************************)
(* The bases.                                                              *)
(***************************************************************************)
BasesInit(v) == Asking(v, {Request("listBases", [by |-> "bases"])})
OpenBase(v, base) == Asking(v, {Request("getBase", [base |-> base])})

\* The answers carry no name of the screen that asked.
BasesUpdate(v, m) ==
    LET idle == [v EXCEPT !.busy = FALSE]
    IN  CASE m.op = "basesList" -> Stay([idle EXCEPT !.names = m.about.names])
          [] m.op = "baseData" -> Stay([idle EXCEPT !.base = m.about.base, !.rows = m.about.rows, !.cursor = 1])
          [] m.op = "basePropSaved" /\ v.base # "none" -> OpenBase(v, v.base)
          [] m.op = "basePropSaved" /\ v.base = "none" -> Res(v, {Panic})
          [] m.op = "basePropEditor" ->
                Stay([idle EXCEPT !.open = @ \cup {"prop"}, !.version = m.about.version])
          [] m.op = "openNote" -> Res(idle, {Push(NewNote(m.about.note))})
          [] OTHER -> Stay(v)

BasesPropKey(v, key) ==
    LET shut == [v EXCEPT !.open = {}, !.version = NoVersion]
        save(slug) == Request("setProperty", [slug |-> slug, version |-> v.version, by |-> "bases"])
    IN  IF key = "esc" THEN {Stay(shut)}
        ELSE IF key # "enter" THEN {}
        ELSE OrStay(shut, {Asking(shut, {save(n)}) : n \in Current(v.rows, v.cursor)})

BasesTableKey(v, key) ==
    LET row == Current(v.rows, v.cursor)
    IN  CASE key = "down" -> {Stay([v EXCEPT !.cursor = Down(@, v.rows)])}
          [] key = "up" -> {Stay([v EXCEPT !.cursor = Up(@)])}
          [] key \in {"r", "v"} -> {OpenBase(v, v.base)}
          [] key = "enter" -> {Asking(v, {GetNote("openNote", n)}) : n \in row}
          [] key = "e" -> {Asking(v, {GetNote("propNote", n)}) : n \in row}
          [] OTHER -> {}

BasesKey(v, key) ==
    CASE v.busy -> {}
      [] ~v.busy /\ v.open # {} -> BasesPropKey(v, key)
      [] ~v.busy /\ v.open = {} /\ v.base # "none" -> BasesTableKey(v, key)
      [] OTHER -> IF key = "r" THEN {BasesInit(v)}
                  ELSE IF key = "enter" THEN {OpenBase(v, b) : b \in Current(v.names, v.cursor)} ELSE {}
=============================================================================
