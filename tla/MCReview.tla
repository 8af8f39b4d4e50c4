------------------------------ MODULE MCReview ------------------------------
(* Instances of Review for TLC: one project, both ends of its crediting period *)
(* and a third field, with two candidates for the start date.                 *)
EXTENDS Review, TLC

CONSTANTS p, c1, c2, c3, c4

MCCandidateScope ==
  c1 :> [project |-> p, field |-> Start] @@
  c2 :> [project |-> p, field |-> Start] @@
  c3 :> [project |-> p, field |-> End] @@
  c4 :> [project |-> p, field |-> "methodology"]

\* The document of c2 supports one value only.
MCGrounded == (Candidates \X Values) \ {<<c2, 2>>}

\* Three validation runs, one of them over both ends of the crediting period.
MCReports == {{c1, c3}, {c2}, {c4}}

Symmetry == Permutations(Decisions)
=============================================================================
