------------------------------ MODULE MCMounts ------------------------------
(* Mounts for TLC: partitions are interchangeable. *)
EXTENDS Mounts, TLC

Symmetry == Permutations(Parties)
=============================================================================
