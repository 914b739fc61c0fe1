--------------------------- MODULE MCMediaDbApply ---------------------------
(* MediaDbApply with its switches set by the configurations. *)
EXTENDS MediaDbApply

=============================================================================
