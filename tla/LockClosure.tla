----------------------------- MODULE LockClosure -----------------------------
(***************************************************************************)
(* moveJournalLockClosure (internal/kanban/board/store.go): the boards a   *)
(* store operation has to lock because a pending cross-board move ties     *)
(* them to the boards it names.                                            *)
(***************************************************************************)
Closed(S, pairs) == \A pr \in pairs : pr \cap S # {} => pr \subseteq S

\* The least set with names that splits none of the pairs.
Closure(names, pairs) ==
  {b \in names \cup UNION pairs :
     \A S \in SUBSET (names \cup UNION pairs) :
       names \subseteq S /\ Closed(S, pairs) => b \in S}
=============================================================================
