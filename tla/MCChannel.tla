----------------------------- MODULE MCChannel -----------------------------
(* Instances of Channel for TLC.                                           *)
EXTENDS Channel, TLC

CONSTANTS p1, p2, t1, t2

\* Two threads of one process: both can call through the same endpoint, or one
\* can answer the other while the handles move to the second process and back.
SameProcess == (t1 :> p1) @@ (t2 :> p1)

\* One thread in each process: a reference taken before a transfer meets the
\* new owner.
TwoProcesses == (t1 :> p1) @@ (t2 :> p2)

\* States that differ only in fields of a waiter that nothing reads before
\* BeginWait and Call set them again are explored once.
Live(t) == IF chan[t] = NoChan \/ pc[t] = "call" THEN <<>>
           ELSE <<status[t], wtxid[t], event[t]>>
View == <<epVars, pc, ep, chan, slot, [t \in Threads |-> Live(t)], taskVars, histVars>>

\* Also txid_ only modulo HalfTxid: NextTxid depends on no more of it, and Bump
\* keeps states that agree on it in agreement.
TxidView == <<handle, owner, peer, messages, waiters, [e \in Endpoints |-> txid[e] % HalfTxid],
              signals, pc, ep, chan, slot, [t \in Threads |-> Live(t)], taskVars, histVars>>
=============================================================================
