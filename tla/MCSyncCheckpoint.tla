-------------------------- MODULE MCSyncCheckpoint --------------------------
(* Instances of SyncCheckpoint for TLC. *)
EXTENDS SyncCheckpoint, TLC

Symmetry == Permutations(Syncers) \cup Permutations(Registries)
=============================================================================
