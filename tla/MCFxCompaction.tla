--------------------------- MODULE MCFxCompaction ---------------------------
(* Instances of FxCompaction for TLC. *)
EXTENDS FxCompaction
=============================================================================
