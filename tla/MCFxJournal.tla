---------------------------- MODULE MCFxJournal ----------------------------
(* Instances of FxJournal for TLC. *)
EXTENDS FxJournal
=============================================================================
