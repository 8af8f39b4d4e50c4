---------------------------- MODULE MCReviewDesk ----------------------------
(* An instance of ReviewDesk for TLC.  Runs v1 and v2 validate the same        *)
(* extraction er; a1x is the report of v1 after somebody altered the artifact.  *)
EXTENDS ReviewDesk, TLC

CONSTANTS p, v1, v2, er, a1, a1x, a2, x, y, c1, c2

MCRunOf        == a1 :> v1 @@ a1x :> v1 @@ a2 :> v2
MCSourceOf     == a1 :> er @@ a1x :> er @@ a2 :> er
MCSound        == {<<a1, x>>, <<a1, y>>, <<a1x, x>>, <<a2, x>>}
MCCandidatesOf == a1 :> {c1} @@ a1x :> {} @@ a2 :> {c2}

\* Rival candidates for one field.
MCCandidateScope == [c \in Candidates |-> [project |-> p, field |-> "crediting_period_start"]]

MCGrounded == Candidates \X Values
Symmetry == Permutations(Decisions) \cup Permutations(Importers) \cup Permutations(Desks)
=============================================================================
