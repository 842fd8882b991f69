--------------------------- MODULE MCTaskRequests ---------------------------
(***************************************************************************)
(* One note with a recurring chore, a copy of it completed earlier, and an *)
(* undated task; a terminal and a page.                                    *)
(***************************************************************************)
EXTENDS TaskRequests

Daily == [every |-> 1, whenDone |-> FALSE]
FromToday == [every |-> 1, whenDone |-> TRUE]

Made(id, box, text, meta) == [id |-> id, box |-> box, text |-> text, meta |-> meta]

MCFirstLines ==
    <<Made(1, " ", "chore", <<Mark("scheduled", 1), Mark("rule", Daily), Mark("due", 2)>>),
      Made(2, " ", "call", <<>>),
      Made(3, "x", "chore", <<Mark("rule", Daily), Mark("due", 1), Mark("done", 1)>>)>>

\* A chore that counts from the day it is done, due tomorrow.
EarlyLines == <<Made(1, " ", "chore", <<Mark("rule", FromToday), Mark("due", 4)>>)>>

Session(ops, n, e, f) == [ops |-> ops, asks |-> n, edits |-> e, faults |-> f]

MCSessions ==
    {Session({"toggle"}, 2, 1, 1), Session({"toggle"}, 3, 0, 0),
     Session({"cancel", "purge"}, 2, 1, 0), Session({"cancel", "purge"}, 3, 0, 0),
     Session({"due"}, 2, 1, 0), Session({"due", "recurrence", "toggle"}, 2, 0, 1),
     Session({"triage"}, 2, 1, 0), Session({"triage", "toggle"}, 2, 1, 0),
     Session({"triage", "recurrence"}, 2, 0, 0),
     Session({"priority", "toggle"}, 2, 1, 0), Session({"hide", "add"}, 2, 1, 1)}

ToggleSession == {Session({"toggle"}, 2, 0, 0)}

MCRules == {Daily}
EarlyRules == {FromToday}

=============================================================================
