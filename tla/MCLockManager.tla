--------------------------- MODULE MCLockManager ---------------------------
(* Instances of LockManager for TLC. *)
EXTENDS LockManager, TLC

\* Tasks are interchangeable: no key, request or property names one.
TaskSymmetry == Permutations(Tasks)
=============================================================================
