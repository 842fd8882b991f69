----------------------------- MODULE TaskLines -----------------------------
(***************************************************************************)
(* The lines of a note as the task engine reads and rewrites them          *)
(* (internal/tasks).  A line is a checkbox, a text and the metadata after  *)
(* it in the order it is written; what the engine takes for the text, the  *)
(* rule or a date depends on that order.  Dates are day numbers.           *)
(***************************************************************************)
EXTENDS Integers, Sequences, FiniteSets, SequencesExt

CONSTANTS Today,       \* the date of the server's clock
          Unread       \* a rule that parseRecurrence cannot read

ASSUME TodayAssumption == Today \in Nat \ {0}

NoDate == 0
NoRule == [every |-> 0, whenDone |-> FALSE]
Normal == 3            \* the priority no marker is written for

\* The metadata: a marker and its value.
Mark(f, v) == [f |-> f, v |-> v]

Rule == [every : Nat, whenDone : BOOLEAN]
Marks == {"due", "scheduled", "rule", "done", "cancelled", "priority", "tag"}
MarkSet == [f : {"rule"}, v : Rule] \cup [f : Marks \ {"rule"}, v : Int]

Boxes == {" ", "x", "-", "other", "plain"}

(***************************************************************************)
(* parseTask.                                                              *)
(***************************************************************************)
Places(line, f) == {i \in DOMAIN line.meta : line.meta[i].f = f}

Value(line, f, none) ==
    IF Places(line, f) = {} THEN none
    ELSE line.meta[CHOOSE i \in Places(line, f) : \A j \in Places(line, f) : i <= j].v

IsTask(line) == line.box # "plain"

Status(line) ==
    CASE line.box = " " -> "open" [] line.box = "x" -> "done" [] line.box = "-" -> "cancelled"
      [] OTHER -> "other"

\* A tag before the first marker is part of the text.
Text(line) == <<line.text, line.meta # <<>> /\ line.meta[1].f = "tag">>

Due(line) == Value(line, "due", NoDate)
Priority(line) == Value(line, "priority", Normal)

\* A rule runs to the next marker: a tag written after it is read as part of it.
Recurrence(line) ==
    IF \E i \in Places(line, "rule") : i < Len(line.meta) /\ line.meta[i + 1].f = "tag"
    THEN Unread ELSE Value(line, "rule", NoRule)

(***************************************************************************)
(* The next occurrence of a recurring task: every date moved by as many    *)
(* days as the rule moves the first of them.  A rule "when done" counts    *)
(* from today.                                                             *)
(***************************************************************************)
BaseDate(line) == IF Due(line) # NoDate THEN Due(line) ELSE Value(line, "scheduled", NoDate)

NextDate(line) ==
    (IF Recurrence(line).whenDone THEN Today ELSE BaseDate(line)) + Recurrence(line).every

HasNext(line) ==
    /\ Recurrence(line) \notin {NoRule, Unread}
    /\ BaseDate(line) # NoDate
    /\ NextDate(line) > BaseDate(line)

\* The elements at these places, in their order.
Pick(s, places) ==
    LET upTo[i \in 0..Len(s)] ==
            IF i = 0 THEN <<>>
            ELSE IF i \in places THEN Append(upTo[i - 1], s[i]) ELSE upTo[i - 1]
    IN  upTo[Len(s)]

Clear(meta, f) ==
    IF \A i \in DOMAIN meta : meta[i].f # f THEN meta ELSE Pick(meta, {i \in DOMAIN meta : meta[i].f # f})

Shifted(meta, days) ==
    [i \in DOMAIN meta |->
        IF meta[i].f \in {"due", "scheduled"} THEN [meta[i] EXCEPT !.v = @ + days] ELSE meta[i]]

\* Variant: the occurrence that is written is the completed line, moved.
NextOccurrenceChecked(line, id) ==
    [line EXCEPT !.id = id, !.box = "x", !.meta = Shifted(@, NextDate(line) - BaseDate(line))]

NextOccurrence(line, id) ==
    [line EXCEPT !.id = id, !.box = " ",
                 !.meta = Clear(Shifted(@, NextDate(line) - BaseDate(line)), "done")]

(***************************************************************************)
(* The edits of one line.                                                  *)
(***************************************************************************)
Completed(line) ==
    [line EXCEPT !.box = "x",
                 !.meta = IF Places(line, "done") = {} THEN Append(@, Mark("done", Today)) ELSE @]

Reopened(line) == [line EXCEPT !.box = " ", !.meta = Clear(@, "done")]

Cancelled(line) == [line EXCEPT !.box = "-", !.meta = Append(@, Mark("cancelled", Today))]

\* The value of the first marker f; a new marker is written last.
SetDue(line, due) ==
    [line EXCEPT !.meta =
        CASE due = NoDate -> Clear(@, "due")
          [] Due(line) # NoDate ->
                [i \in DOMAIN @ |-> IF @[i].f = "due" THEN Mark("due", due) ELSE @[i]]
          [] OTHER -> Append(@, Mark("due", due))]

\* What is read as the rule is replaced, a tag after it included; a new rule is
\* written before the due date.
SetRecurrence(line, rule) ==
    LET has == Places(line, "rule")
        stays == {i \in DOMAIN line.meta : i \notin has /\ ~(i - 1 \in has /\ line.meta[i].f = "tag")}
        new == IF rule = NoRule THEN <<>> ELSE <<Mark("rule", rule)>>
        at == CASE has # {} -> CHOOSE i \in has : TRUE
                [] Places(line, "due") # {} -> CHOOSE i \in Places(line, "due") : TRUE
                [] OTHER -> Len(line.meta) + 1
    IN  [line EXCEPT !.meta = Pick(@, {i \in stays : i < at}) \o new \o Pick(@, {i \in stays : i >= at})]

\* The priority is written right after the text.
SetPriority(line, priority) ==
    LET rest == Clear(line.meta, "priority")
        head == IF rest # <<>> /\ rest[1].f = "tag" THEN 1 ELSE 0
        new == IF priority = Normal THEN <<>> ELSE <<Mark("priority", priority)>>
    IN  [line EXCEPT !.meta = SubSeq(rest, 1, head) \o new \o SubSeq(rest, head + 1, Len(rest))]

\* The four ways to classify an open task without a date.
Triaged(line, action) ==
    CASE action.name = "backlog" ->
            [line EXCEPT !.meta = IF Places(line, "tag") = {} THEN Append(@, Mark("tag", 0)) ELSE @]
      [] action.name = "due" -> [line EXCEPT !.meta = Append(@, Mark("due", action.due))]
      [] action.name = "reference" -> [line EXCEPT !.box = "plain"]
      [] action.name = "cancel" -> Cancelled(line)

=============================================================================
