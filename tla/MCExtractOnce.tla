---------------------------- MODULE MCExtractOnce ----------------------------
(* Instances of ExtractOnce for TLC. *)
EXTENDS ExtractOnce, TLC

Symmetry == Permutations(Processes)
=============================================================================
