------------------------- MODULE MCImportCheckpoint -------------------------
(* ImportCheckpoint on a few items, one avatar, two servers. *)
EXTENDS ImportCheckpoint, TLC

Symmetry == Permutations(Items) \cup Permutations(Targets) \cup Permutations(Packages)

=============================================================================
