---------------------------- MODULE MCRenderIndex ----------------------------
(* RenderIndex on a vault of two notes: the first links to the second, which an *)
(* upload creates and which transcludes the first; or two notes with one slug.  *)
EXTENDS RenderIndex, TLC

CONSTANTS c1, c2

Two == 1..2

OwnSlugs == [p \in Two |-> p]

OneSlug == [p \in Two |-> 1]

OneToTwo == 1 :> {2} @@ 2 :> {}

TwoHoldsOne == 1 :> {} @@ 2 :> {1}

NoneOfTwo == [p \in Two |-> {}]
=============================================================================
