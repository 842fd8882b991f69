---------------------------- MODULE MCBoardLocks ----------------------------
(* Two stores over one tree; the second also runs two threads in some runs. *)
EXTENDS BoardLocks, TLC

CONSTANTS t1, t2, t3, s1, s2

OneThreadEach == t1 :> s1 @@ t2 :> s2

TwoInOne == t1 :> s1 @@ t2 :> s2 @@ t3 :> s2

TwoBoards == {1, 2}

ThreeBoards == {1, 2, 3}
=============================================================================
