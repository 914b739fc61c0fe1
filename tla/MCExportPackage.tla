--------------------------- MODULE MCExportPackage ---------------------------
(* ExportPackage with few items, workers and versions, each interchangeable. *)
EXTENDS ExportPackage, TLC

Symmetry == Permutations(Items) \cup Permutations(Workers) \cup Permutations(Versions)

=============================================================================
