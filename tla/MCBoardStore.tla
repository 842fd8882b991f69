---------------------------- MODULE MCBoardStore ----------------------------
(* BoardStore on small instances: the .cfg files choose the sets and bounds. *)
EXTENDS BoardStore, TLC

CONSTANTS b1, b2, b3, p1, p2, c1, c2, a1, a2

\* Boards are locked in one step, so neither their names nor their order
\* matter; nor do the processes'.
Symmetry == Permutations(Boards) \cup Permutations(Procs)
=============================================================================
