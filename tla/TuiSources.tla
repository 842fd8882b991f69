----------------------------- MODULE TuiSources -----------------------------
(***************************************************************************)
(* The screens of other systems: an Azure board and one of its work items  *)
(* (azboard.go), the items of an issue tracker (jira.go) and the health of *)
(* every source (sources.go).  Their answers name the board, the item or   *)
(* the source they are for, because every screen receives them; most carry *)
(* the error of a failed load with them.                                   *)
(***************************************************************************)
EXTENDS TuiNotes

CONSTANTS
    Items,        \* the work items, in the order a board lists them
    ItemStates    \* the states of a work item: the columns of the board

NewAZBoard ==
    [kind |-> "azBoard", items |-> <<>>, col |-> 1, cursors |-> [i \in DOMAIN ItemStates |-> 1],
     mine |-> FALSE, busy |-> FALSE, open |-> {}, at |-> "none"]

NewAZItem(id) ==
    [kind |-> "azItem", id |-> id, state |-> "none", loaded |-> FALSE, busy |-> FALSE, open |-> {},
     at |-> "none"]

NewSource ==
    [kind |-> "source", items |-> <<>>, cursor |-> 1, busy |-> FALSE, open |-> {}, boards |-> {}]

NewSources == [kind |-> "sources", busy |-> FALSE, open |-> {}]

SetState(id, state) == Request("setState", [item |-> id, state |-> state])
CommentOn(id) == Request("commentItem", [item |-> id])

\* The picker of a state: any but the one it shows.
StatePick(v, id, at) == {Asking(v, {SetState(id, s)}) : s \in Range(ItemStates) \ {at}}

(***************************************************************************)
(* The Azure board.                                                        *)
(***************************************************************************)
LoadAZ(v) == Asking(v, {Request("boardItems", [mine |-> v.mine])})

ColumnItems(v, col) == SelectSeq(v.items, LAMBDA i : i.state = ItemStates[col])
CurrentItem(v) == Current(ColumnItems(v, v.col), v.cursors[v.col])

Reshape(v) == [v EXCEPT !.cursors = [i \in DOMAIN ItemStates |-> Clamp(@[i], ColumnItems(v, i))]]

\* A late answer for the other filter is dropped; a failed load ends the wait.
AZBoardUpdate(v, m) ==
    LET idle == [v EXCEPT !.busy = FALSE]
    IN  CASE m.op = "azItems" /\ m.about.mine = v.mine ->
                Stay(IF m.about.failed THEN idle ELSE Reshape([idle EXCEPT !.items = m.about.items]))
          [] m.op \in {"azStateSet", "azCommented"} -> LoadAZ(v)
          [] OTHER -> Stay(v)

\* The picker and the comment are for the item under the cursor by then.
AZBoardPromptKey(v, key) ==
    LET shut == [v EXCEPT !.open = {}, !.at = "none"]
        item == CurrentItem(v)
    IN  CASE key = "esc" -> {Stay(shut)}
          [] key = "enter" /\ v.open = {"comment"} ->
                OrStay(shut, {Asking(shut, {CommentOn(i.id)}) : i \in item})
          [] key = "enter" /\ v.open = {"picker"} ->
                OrStay(shut, UNION {StatePick(shut, i.id, v.at) : i \in {i \in item : ~v.busy}})
          [] OTHER -> {}

AZBoardListKey(v, key) ==
    LET item == CurrentItem(v)
    IN  CASE key = "left" /\ v.col > 1 -> {Stay([v EXCEPT !.col = @ - 1])}
          [] key = "right" /\ v.col < Len(ItemStates) -> {Stay([v EXCEPT !.col = @ + 1])}
          [] key = "down" -> {Stay([v EXCEPT !.cursors[v.col] = Down(@, ColumnItems(v, v.col))])}
          [] key = "up" -> {Stay([v EXCEPT !.cursors[v.col] = Up(@)])}
          [] key = "r" -> {LoadAZ(v)}
          [] key = "f" -> {LoadAZ([v EXCEPT !.mine = ~@])}
          [] key = "enter" -> {Res(v, {Push(NewAZItem(i.id))}) : i \in item}
          [] key = "m" -> {Stay([v EXCEPT !.open = {"picker"}, !.at = i.state]) : i \in item}
          [] key = "c" /\ item # {} -> {Stay([v EXCEPT !.open = {"comment"}])}
          [] OTHER -> {}

AZBoardKey(v, key) == IF v.open # {} THEN AZBoardPromptKey(v, key) ELSE AZBoardListKey(v, key)

(***************************************************************************)
(* A work item.                                                            *)
(***************************************************************************)
LoadItem(v) == Asking(v, {Request("item", [item |-> v.id])})

\* The answer to a failed load has no item in it: every open item takes it.
AZItemUpdate(v, m) ==
    LET idle == [v EXCEPT !.busy = FALSE, !.loaded = TRUE]
    IN  CASE m.op = "azItem" /\ m.about.failed -> Stay([idle EXCEPT !.state = "none"])
          [] m.op = "azItem" /\ ~m.about.failed /\ m.about.item = v.id ->
                Stay([idle EXCEPT !.state = m.about.state])
          [] m.op \in {"azStateSet", "azCommented"} /\ m.about.item = v.id -> LoadItem(v)
          [] OTHER -> Stay(v)

AZItemKey(v, key) ==
    LET shut == [v EXCEPT !.open = {}, !.at = "none"]
        shown == v.loaded /\ v.state # "none"
    IN  CASE v.open # {} ->
                IF key = "esc" THEN {Stay(shut)}
                ELSE IF key # "enter" THEN {}
                ELSE IF v.open = {"comment"} THEN {Asking(shut, {CommentOn(v.id)})}
                ELSE StatePick(shut, v.id, v.at)
          [] v.open = {} /\ key = "r" -> {LoadItem(v)}
          [] v.open = {} /\ key = "m" /\ shown -> {Stay([v EXCEPT !.open = {"picker"}, !.at = v.state])}
          [] v.open = {} /\ key = "c" /\ shown -> {Stay([v EXCEPT !.open = {"comment"}])}
          [] OTHER -> {}

(***************************************************************************)
(* The items of an issue tracker; p pulls one into a board as a new card.  *)
(***************************************************************************)
LoadSource(v) == Asking(v, {Request("sourceItems", [by |-> "source"])})

SourceUpdate(v, m) ==
    LET idle == [v EXCEPT !.busy = FALSE]
        ofCurrent == \E i \in Current(v.items, v.cursor) : i.id = m.about.id
    IN  CASE m.op = "sourceItems" -> Stay([idle EXCEPT !.items = m.about.items, !.cursor = Clamp(@, m.about.items)])
          [] m.op = "sourceCommented" -> LoadSource(v)
          [] m.op = "sourcePullBoards" ->
                Stay(IF m.about.boards = {} THEN idle
                     ELSE [idle EXCEPT !.open = @ \cup {"pull"}, !.boards = m.about.boards])
          [] m.op = "agentsListed" /\ m.about.id \in Range(Items) ->
                Stay(IF ofCurrent THEN [idle EXCEPT !.open = @ \cup {"agents"}] ELSE idle)
          [] m.op = "agentPromptSent" /\ ofCurrent -> Stay(idle)
          [] OTHER -> Stay(v)

SourcePromptKey(v, key) ==
    LET item == Current(v.items, v.cursor)
        shut(prompt) == [v EXCEPT !.open = @ \ {prompt}]
    IN  CASE "comment" \in v.open ->
                IF key = "esc" THEN {Stay(shut("comment"))}
                ELSE IF key # "enter" THEN {}
                ELSE OrStay(shut("comment"),
                        {Asking(shut("comment"), {Request("commentSource", [item |-> i.id])}) : i \in item})
          [] v.open = {"agents"} -> AgentsKey(v, key, {i.id : i \in item})
      [] OTHER ->
                IF key = "esc" THEN {Stay(shut("pull"))}
                ELSE IF key # "enter" THEN {}
                ELSE OrStay(shut("pull"),
                        {Asking(shut("pull"), {Request("createCard", [board |-> b, status |-> "triage"])}) :
                            b \in {b \in v.boards : item # {}}})

SourceListKey(v, key) ==
    LET item == Current(v.items, v.cursor)
    IN  CASE key = "down" -> {Stay([v EXCEPT !.cursor = Down(@, v.items)])}
          [] key = "up" -> {Stay([v EXCEPT !.cursor = Up(@)])}
          [] key = "r" -> {LoadSource(v)}
          [] key = "c" /\ item # {} -> {Stay([v EXCEPT !.open = @ \cup {"comment"}])}
          [] key = "p" /\ item # {} /\ ~v.busy ->
                {Asking(v, {Request("listBoards", [board |-> "source", card |-> "none"])})}
          [] key = "a" /\ ~v.busy -> {ListAgents(v, i.id) : i \in item}
          [] OTHER -> {}

SourceKey(v, key) == IF v.open # {} THEN SourcePromptKey(v, key) ELSE SourceListKey(v, key)

(***************************************************************************)
(* The health of the sources: the answer has one row per source, whatever  *)
(* became of it.                                                           *)
(***************************************************************************)
SourcesInit(v) == Asking(v, {Request("health", [by |-> "sources"])})
\* Variant: an answer asks again.
SourcesUpdateAgain(v, m) == IF m.op = "sourcesLoaded" THEN SourcesInit(v) ELSE Stay(v)
SourcesUpdate(v, m) == Stay(IF m.op = "sourcesLoaded" THEN [v EXCEPT !.busy = FALSE] ELSE v)
SourcesKey(v, key) == IF key = "r" THEN {SourcesInit(v)} ELSE {}
=============================================================================
