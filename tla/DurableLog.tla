----------------------------- MODULE DurableLog -----------------------------
(***************************************************************************)
(* What the fxfs journal promises to the rest of the filesystem            *)
(* (src/storage/fxfs/src/object_store/journal.rs): committed transactions  *)
(* form a log, a mount recovers a prefix of it, and the prefix contains    *)
(* everything that had been synced, or recovered by an earlier mount.      *)
(* `intact` says that the promise still stands: an implementation that     *)
(* gives it up may lose synced transactions, but still nothing else.  With *)
(* `exact` given up, nothing is promised any more.                         *)
(***************************************************************************)
EXTENDS Naturals, Sequences

CONSTANT Txns   \* the transactions that may be committed

VARIABLES
    log,      \* the transactions the running filesystem has applied, in order
    synced,   \* how many of them are known to survive
    intact, exact

vars == <<log, synced, intact, exact>>

Init ==
    /\ log = <<>>
    /\ synced = 0
    /\ intact = TRUE
    /\ exact = TRUE

Commit ==
    /\ \E txn \in Txns : log' = Append(log, txn)
    /\ UNCHANGED <<synced, intact, exact>>

Sync ==
    /\ synced' \in synced .. Len(log)
    /\ UNCHANGED <<log, intact, exact>>

Mount ==
    \E n \in 0 .. Len(log) :
      /\ intact => n >= synced
      /\ log' = SubSeq(log, 1, n)
      /\ synced' = n
      /\ intact' => intact
      /\ UNCHANGED exact

GiveUp == ~exact'

Next == Commit \/ Sync \/ Mount \/ GiveUp

Spec == Init /\ [][Next]_vars
=============================================================================
