---------------------------- MODULE MCFxFlushTask ----------------------------
(* Instances of FxFlushTask for TLC. *)
EXTENDS FxFlushTask
=============================================================================
