------------------------------ MODULE Channel ------------------------------
(***************************************************************************)
(* Zircon channels: zircon/kernel/object/channel_dispatcher.cc, the        *)
(* PeeredDispatcher template it derives from (object/dispatcher.h) and the *)
(* syscalls that drive it (lib/syscalls/channel.cc, and the vDSO loop      *)
(* around zx_channel_call, lib/userabi/vdso/zx_channel_call.cc).           *)
(*                                                                         *)
(* A channel has two endpoints which share one mutex.  One TLA+ step is    *)
(* one critical section of that mutex, or one stretch of a thread's code   *)
(* between two of them.  Channel handles have no DUPLICATE right, so an    *)
(* endpoint has exactly one handle: in a process's table, in flight        *)
(* (removed from a table and held by a message or by a closing thread) or  *)
(* gone.                                                                   *)
(***************************************************************************)
EXTENDS Naturals, Sequences, FiniteSets

CONSTANTS
  Procs,         \* processes
  Threads,       \* user threads
  ProcOf,        \* the process of each thread
  HalfTxid,      \* 2^31 in the code: zx_txid_t values with the high bit clear
  UserTxids,     \* the txids that userspace puts in the messages it writes
  MaxPending,    \* kMaxPendingMessageCount
  MaxWrites,     \* bound: messages written in a behaviour
  Killable,      \* bound: threads that zx_task_kill is used on
  UserSignals,   \* the part of ZX_USER_SIGNAL_ALL that is modelled
  NoMsg,         \* MessagePacketPtr(nullptr)
  NoChan         \* RefPtr<ChannelDispatcher>(nullptr)

ASSUME ChannelAssumption ==
  /\ ProcOf \in [Threads -> Procs]
  /\ HalfTxid \in Nat \ {0}
  /\ UserTxids \subseteq 0 .. 2 * HalfTxid - 1
  /\ MaxPending \in Nat /\ MaxWrites \in Nat
  /\ Killable \subseteq Threads
  /\ UserSignals \cap {"READABLE", "WRITABLE", "PEER_CLOSED"} = {}
  /\ Procs \cap {"in_flight", "none"} = {}
  /\ NoChan \notin {0, 1}
  /\ NoMsg \notin [id : Nat, txid : Nat]

VARIABLES
  \* Per endpoint; guarded by PeerHolder::lock_
  handle,      \* where the endpoint's only handle is
  owner,       \* owner_
  peer,        \* peer_ != nullptr
  messages,    \* messages_
  waiters,     \* waiters_, whose order nothing observes
  txid,        \* txid_
  signals,     \* signals_
  \* Per thread
  pc,          \* where the thread is
  ep,          \* the endpoint whose RefPtr the running syscall holds
  chan,        \* MessageWaiter::channel_
  status,      \* MessageWaiter::status_
  slot,        \* MessageWaiter::msg_
  wtxid,       \* MessageWaiter::txid_
  event,       \* MessageWaiter::event_ is signaled
  dying,       \* threads with a pending kill
  excepted,    \* threads with a pending CHANNEL_FULL_WRITE policy exception
  \* History
  written,     \* number of messages accepted so far; their ids are 1..written
  received,    \* ids handed to a reader or to a returning call
  discarded    \* ids dropped on purpose

epVars   == <<handle, owner, peer, messages, waiters, txid, signals>>
waitVars == <<chan, status, slot, wtxid, event>>
taskVars == <<dying, excepted>>
histVars == <<written, received, discarded>>
vars == <<epVars, pc, ep, waitVars, taskVars, histVars>>

Endpoints == {0, 1}
Other(e)  == 1 - e
Txids     == 0 .. 2 * HalfTxid - 1
Message   == [id : Nat, txid : Txids]
Signals   == {"READABLE", "WRITABLE", "PEER_CLOSED"} \cup UserSignals
Statuses  == {"OK", "TIMED_OUT", "CANCELED", "PEER_CLOSED", "BAD_STATE"}
PCs == {"user", "read", "write", "signal", "begin", "call", "wait", "end",
        "retry", "dead", "gone"}
Ops == {"read", "write", "begin"} \cup IF UserSignals = {} THEN {} ELSE {"signal"}

(***************************************************************************)
(* PeeredDispatcher and ChannelDispatcher constructors, ::Create, ::Init.  *)
(***************************************************************************)
Init ==
  /\ \E p \in [Endpoints -> Procs] : handle = p /\ owner = p
  /\ peer = [e \in Endpoints |-> TRUE]
  /\ messages = [e \in Endpoints |-> <<>>]
  /\ waiters = [e \in Endpoints |-> {}]
  /\ txid = [e \in Endpoints |-> 0]
  /\ signals = [e \in Endpoints |-> {"WRITABLE"}]
  /\ pc = [t \in Threads |-> "user"]
  /\ ep = [t \in Threads |-> NoChan]
  /\ chan = [t \in Threads |-> NoChan]
  /\ status = [t \in Threads |-> "BAD_STATE"]
  /\ slot = [t \in Threads |-> NoMsg]
  /\ wtxid = [t \in Threads |-> 0]
  /\ event = [t \in Threads |-> FALSE]
  /\ dying = {} /\ excepted = {}
  /\ written = 0 /\ received = {} /\ discarded = {}

-----------------------------------------------------------------------------
(* Helpers.                                                                *)

\* The value of (++txid_) | 0x80000000 after n increments of the uint32_t.
NextTxid(e, n) == HalfTxid + ((txid[e] + n) % HalfTxid)
TxidsInUse(e)  == {wtxid[t] : t \in waiters[e]}

\* Back to user mode with the syscall's references dropped.
Return(t) == pc' = [pc EXCEPT ![t] = "user"] /\ ep' = [ep EXCEPT ![t] = NoChan]

\* UpdateStateLocked(clear, set) of endpoint e.
UpdateState(e, clear, set) ==
  signals' = [signals EXCEPT ![e] = (@ \ clear) \cup set]

\* ids of the messages in a queue
Ids(q) == {q[i].id : i \in DOMAIN q}

(***************************************************************************)
(* WriteSelf(msg) on endpoint f: a message whose txid a waiter of f        *)
(* expects is handed to that waiter (3C), any other one is queued.         *)
(***************************************************************************)
MatchAny(f, w, x) == w \in waiters[f]
Matches(f, w, x) == w \in waiters[f] /\ wtxid[w] = x

Deliver(w, m) ==
  /\ slot' = [slot EXCEPT ![w] = m]
  /\ status' = [status EXCEPT ![w] = "OK"]
  /\ event' = [event EXCEPT ![w] = TRUE]

Enqueue(t, f, m) ==
  /\ messages' = [messages EXCEPT ![f] = Append(@, m)]
  /\ excepted' = IF Len(messages[f]) + 1 > MaxPending THEN excepted \cup {t} ELSE excepted
  /\ UpdateState(f, {}, {"READABLE"})

-----------------------------------------------------------------------------
(* Handle movement, by any thread of the process or by its teardown.       *)

\* HandleTable::RemoveHandleLocked: set_owner(ZX_KOID_INVALID) returns early,
\* so owner_ keeps naming the old process.
RemoveHandle(e) ==
  /\ handle[e] \in Procs
  /\ handle' = [handle EXCEPT ![e] = "in_flight"]
  /\ UNCHANGED <<owner, peer, messages, waiters, txid, signals,
                 pc, ep, waitVars, taskVars, histVars>>

\* ChannelDispatcher::set_owner for a process koid.
SetOwnerSkipped(e, p) == UNCHANGED owner
SetOwner(e, p) == owner' = [owner EXCEPT ![e] = p]

\* HandleTable::AddHandleLocked in the receiving process.
AddHandle(e, p) ==
  /\ handle[e] = "in_flight"
  /\ handle' = [handle EXCEPT ![e] = p]
  /\ SetOwner(e, p)
  /\ UNCHANGED <<peer, messages, waiters, txid, signals,
                 pc, ep, waitVars, taskVars, histVars>>

\* Waiters that on_zero_handles_locked (3A) of e and OnPeerZeroHandlesLocked
\* (3B) of its peer take off their lists.
NoneCanceled(e) == {}
CanceledHere(e) == waiters[e]
CanceledAtPeer(e) == IF peer[e] THEN waiters[Other(e)] ELSE {}

\* PeeredDispatcher::on_zero_handles, both endpoints under their shared lock.
OnZeroHandles(e) ==
  LET f == Other(e)
      here == CanceledHere(e)
      there == CanceledAtPeer(e)
  IN /\ handle[e] = "in_flight"
     /\ handle' = [handle EXCEPT ![e] = "none"]
     /\ peer' = IF peer[e] THEN [x \in Endpoints |-> FALSE] ELSE peer
     /\ IF peer[e] THEN UpdateState(f, {"WRITABLE"}, {"PEER_CLOSED"})
                   ELSE UNCHANGED signals
     /\ waiters' = [waiters EXCEPT ![e] = @ \ here, ![f] = @ \ there]
     /\ status' = [t \in Threads |-> IF t \in here THEN "CANCELED"
                                     ELSE IF t \in there THEN "PEER_CLOSED"
                                     ELSE status[t]]
     /\ event' = [t \in Threads |-> event[t] \/ t \in here \cup there]
     /\ UNCHANGED <<owner, messages, txid, pc, ep, chan, slot, wtxid,
                    taskVars, histVars>>

\* The last reference goes: ~ChannelDispatcher drops the queue.
Destroy(e) ==
  /\ handle[e] = "none"
  /\ messages[e] # <<>>
  /\ \A t \in Threads : ep[t] # e /\ chan[t] # e
  /\ messages' = [messages EXCEPT ![e] = <<>>]
  /\ discarded' = discarded \cup Ids(messages[e])
  /\ UNCHANGED <<handle, owner, peer, waiters, txid, signals,
                 pc, ep, waitVars, taskVars, written, received>>

-----------------------------------------------------------------------------
(* zx_channel_read and zx_channel_write.                                   *)

Writers == {t \in Threads : pc[t] \in {"write", "begin", "call"}}

\* GetDispatcherWithRights: the handle is in the caller's table now; the
\* RefPtr outlives whatever happens to the handle afterwards.
Lookup(t, e, op) ==
  /\ pc[t] = "user" /\ t \notin dying \cup excepted
  /\ handle[e] = ProcOf[t]
  /\ op \in {"write", "begin"} => written + Cardinality(Writers) < MaxWrites
  /\ pc' = [pc EXCEPT ![t] = op]
  /\ ep' = [ep EXCEPT ![t] = e]
  /\ UNCHANGED <<epVars, waitVars, taskVars, histVars>>

\* The syscall's own early returns: bad options, arguments that cannot be
\* copied in, no memory for the MessagePacket, a handle it cannot take.
SyscallFails(t) ==
  /\ pc[t] \in {"read", "write", "begin"}
  /\ Return(t)
  /\ UNCHANGED <<epVars, waitVars, taskVars, histVars>>

\* ChannelDispatcher::Read.
ReadFails(t) ==
  /\ pc[t] = "read"
  /\ owner[ep[t]] # ProcOf[t] \/ messages[ep[t]] = <<>>
  /\ Return(t)
  /\ UNCHANGED <<epVars, waitVars, taskVars, histVars>>

\* fits: the caller's buffers are large enough for the first message.
PopsAlways(fits, mayDiscard) == TRUE
Pops(fits, mayDiscard) == fits \/ mayDiscard

EmptyBeforePop(q) == q = <<>>
EmptyAfterPop(q) == Tail(q) = <<>>

\* A popped message is dropped unless all of it reaches the caller's buffers.
ReadOut(ids, ok) ==
  /\ received' = IF ok THEN received \cup ids ELSE received
  /\ discarded' = IF ok THEN discarded ELSE discarded \cup ids

\* copied: no copy_to_user of channel_read fails.
ReadMessage(t, fits, mayDiscard, copied) ==
  LET e == ep[t]
      first == Head(messages[e]).id
  IN /\ pc[t] = "read"
     /\ owner[e] = ProcOf[t] /\ messages[e] # <<>>
     /\ Return(t)
     /\ IF Pops(fits, mayDiscard)
        THEN /\ messages' = [messages EXCEPT ![e] = Tail(@)]
             /\ IF EmptyAfterPop(messages[e]) THEN UpdateState(e, {"READABLE"}, {})
                                              ELSE UNCHANGED signals
        ELSE UNCHANGED <<messages, signals>>
     /\ ReadOut(IF fits \/ mayDiscard THEN {first} ELSE {}, fits /\ copied)
     /\ UNCHANGED <<handle, owner, peer, waiters, txid, waitVars, taskVars, written>>

\* PeeredDispatcher::user_signal_self and user_signal_peer.
UserSignalSelf(t, clear, set) ==
  /\ pc[t] = "signal"
  /\ UpdateState(ep[t], clear, set)
  /\ Return(t)
  /\ UNCHANGED <<handle, owner, peer, messages, waiters, txid, waitVars,
                 taskVars, histVars>>

UserSignalPeer(t, clear, set) ==
  /\ pc[t] = "signal"
  /\ peer[ep[t]]
  /\ UpdateState(Other(ep[t]), clear, set)
  /\ Return(t)
  /\ UNCHANGED <<handle, owner, peer, messages, waiters, txid, waitVars,
                 taskVars, histVars>>

UserSignalFails(t) ==
  /\ pc[t] = "signal"
  /\ ~peer[ep[t]]
  /\ Return(t)
  /\ UNCHANGED <<epVars, waitVars, taskVars, histVars>>

\* Write and Call go ahead: the caller's process still owns the endpoint and
\* there is a peer to write to.
Accepts(t, e) == owner[e] = ProcOf[t] /\ peer[e]

\* ChannelDispatcher::Write: the two error returns.
WriteFails(t) ==
  /\ pc[t] = "write"
  /\ owner[ep[t]] # ProcOf[t] \/ ~peer[ep[t]]
  /\ Return(t)
  /\ UNCHANGED <<epVars, waitVars, taskVars, histVars>>

\* Userspace chooses the first four bytes, and so the txid, freely: a server
\* echoes the txid of the request it answers.
WriteToWaiter(t, w, x) ==
  LET e == ep[t] f == Other(e) IN
  /\ pc[t] = "write"
  /\ Accepts(t, e)
  /\ Matches(f, w, x)
  /\ waiters' = [waiters EXCEPT ![f] = @ \ {w}]
  /\ Deliver(w, [id |-> written + 1, txid |-> x])
  /\ written' = written + 1
  /\ Return(t)
  /\ UNCHANGED <<handle, owner, peer, messages, txid, signals, chan, wtxid,
                 taskVars, received, discarded>>

WriteToQueue(t, x) ==
  LET e == ep[t] f == Other(e) IN
  /\ pc[t] = "write"
  /\ Accepts(t, e)
  /\ x \notin TxidsInUse(f)
  /\ Enqueue(t, f, [id |-> written + 1, txid |-> x])
  /\ written' = written + 1
  /\ Return(t)
  /\ UNCHANGED <<handle, owner, peer, waiters, txid, waitVars, dying,
                 received, discarded>>

-----------------------------------------------------------------------------
(* zx_channel_call.                                                        *)

\* event_.Unsignal()
StillSignaled(t) == event
Unsignaled(t) == [event EXCEPT ![t] = FALSE]

\* MessageWaiter::BeginWait, outside the lock.
BeginWait(t) ==
  /\ pc[t] = "begin"
  /\ chan[t] = NoChan
  /\ status' = [status EXCEPT ![t] = "TIMED_OUT"]
  /\ chan' = [chan EXCEPT ![t] = ep[t]]
  /\ event' = Unsignaled(t)
  /\ pc' = [pc EXCEPT ![t] = "call"]
  /\ UNCHANGED <<epVars, ep, slot, wtxid, taskVars, histVars>>

\* BeginWait found channel_ set: Kill(ZX_TASK_RETCODE_VDSO_KILL).
BeginWaitKill(t) ==
  /\ pc[t] = "begin"
  /\ chan[t] # NoChan
  /\ dying' = dying \cup {u \in Threads : ProcOf[u] = ProcOf[t]}
  /\ Return(t)
  /\ UNCHANGED <<epVars, waitVars, excepted, histVars>>

\* owner != owner_: the early return does not call EndWait.
CallBadHandle(t) ==
  /\ pc[t] = "call"
  /\ owner[ep[t]] # ProcOf[t]
  /\ Return(t)
  /\ UNCHANGED <<epVars, waitVars, taskVars, histVars>>

CallPeerClosed(t) ==
  /\ pc[t] = "call"
  /\ owner[ep[t]] = ProcOf[t] /\ ~peer[ep[t]]
  /\ slot' = [slot EXCEPT ![t] = NoMsg]
  /\ chan' = [chan EXCEPT ![t] = NoChan]
  /\ Return(t)
  /\ UNCHANGED <<epVars, status, wtxid, event, taskVars, histVars>>

\* The alloc_txid loop ends at the first counter value that no waiter of this
\* endpoint uses.
AllocFirst(e, n) == n = 1
AllocTxid(e, n) ==
  /\ NextTxid(e, n) \notin TxidsInUse(e)
  /\ \A m \in 1 .. n - 1 : NextTxid(e, m) \in TxidsInUse(e)

\* txid_ after n increments: a uint32_t.
BumpUnbounded(e, n) == txid[e] + n
Bump(e, n) == (txid[e] + n) % (2 * HalfTxid)

\* (0) and (1), when the request's txid is one a call of the peer waits for.
CallToWaiter(t, n, w) ==
  LET e == ep[t] f == Other(e) x == NextTxid(e, n) IN
  /\ pc[t] = "call"
  /\ Accepts(t, e)
  /\ AllocTxid(e, n)
  /\ Matches(f, w, x)
  /\ txid' = [txid EXCEPT ![e] = Bump(e, n)]
  /\ wtxid' = [wtxid EXCEPT ![t] = x]
  /\ waiters' = [waiters EXCEPT ![e] = @ \cup {t}, ![f] = @ \ {w}]
  /\ Deliver(w, [id |-> written + 1, txid |-> x])
  /\ written' = written + 1
  /\ pc' = [pc EXCEPT ![t] = "wait"]
  /\ UNCHANGED <<handle, owner, peer, messages, signals, ep, chan,
                 taskVars, received, discarded>>

CallToQueue(t, n) ==
  LET e == ep[t] f == Other(e) x == NextTxid(e, n) IN
  /\ pc[t] = "call"
  /\ Accepts(t, e)
  /\ AllocTxid(e, n)
  /\ x \notin TxidsInUse(f)
  /\ txid' = [txid EXCEPT ![e] = Bump(e, n)]
  /\ wtxid' = [wtxid EXCEPT ![t] = x]
  /\ waiters' = [waiters EXCEPT ![e] = @ \cup {t}]
  /\ Enqueue(t, f, [id |-> written + 1, txid |-> x])
  /\ written' = written + 1
  /\ pc' = [pc EXCEPT ![t] = "wait"]
  /\ UNCHANGED <<handle, owner, peer, ep, chan, status, slot, event, dying,
                 received, discarded>>

\* (2) Event::Wait returns: signaled, deadline passed, or the thread is killed.
WokenBySignal(t) == event[t]
Woken(t) == event[t] \/ t \in dying

WaitReturns(t) ==
  /\ pc[t] = "wait"
  /\ Woken(t)
  /\ pc' = [pc EXCEPT ![t] = "end"]
  /\ UNCHANGED <<epVars, ep, waitVars, taskVars, histVars>>

WaitTimesOut(t) ==
  /\ pc[t] = "wait" /\ ~event[t]
  /\ pc' = [pc EXCEPT ![t] = "end"]
  /\ UNCHANGED <<epVars, ep, waitVars, taskVars, histVars>>

\* ZX_ERR_INTERNAL_INTR_RETRY: the thread was suspended; the waiter stays.
WaitInterrupted(t) ==
  /\ pc[t] = "wait" /\ ~event[t]
  /\ pc' = [pc EXCEPT ![t] = "retry"]
  /\ ep' = [ep EXCEPT ![t] = NoChan]
  /\ UNCHANGED <<epVars, waitVars, taskVars, histVars>>

\* zx_channel_call_finish, from the vDSO's retry loop.
CallFinish(t) ==
  /\ pc[t] = "retry" /\ t \notin dying \cup excepted
  /\ chan[t] # NoChan
  /\ pc' = [pc EXCEPT ![t] = "wait"]
  /\ ep' = [ep EXCEPT ![t] = chan[t]]
  /\ UNCHANGED <<epVars, waitVars, taskVars, histVars>>

\* zx_channel_call_finish when its arguments can no longer be copied in: an
\* error that ends the retry loop with the waiter still armed.
CallFinishFails(t) ==
  /\ pc[t] = "retry" /\ t \notin dying \cup excepted
  /\ pc' = [pc EXCEPT ![t] = "user"]
  /\ UNCHANGED <<epVars, ep, waitVars, taskVars, histVars>>

\* (4) Nobody took the waiter off the list.
NeverErased(t) == FALSE
ErasedByCaller(t) == status[t] = "TIMED_OUT"

\* The lock of (4), and channel_call_epilogue, which drops a reply that does
\* not fit the caller's buffers.
EndWait(t, fits) ==
  LET e == ep[t]
      out == IF slot[t] # NoMsg THEN {slot[t].id} ELSE {}
  IN /\ pc[t] = "end"
     /\ waiters' = IF ErasedByCaller(t) THEN [waiters EXCEPT ![e] = @ \ {t}]
                                        ELSE waiters
     /\ ReadOut(out, fits)
     /\ slot' = [slot EXCEPT ![t] = NoMsg]
     /\ chan' = [chan EXCEPT ![t] = NoChan]
     /\ Return(t)
     /\ UNCHANGED <<handle, owner, peer, messages, txid, signals, status, wtxid,
                    event, taskVars, written>>

-----------------------------------------------------------------------------
(* Tasks.                                                                  *)

\* zx_task_kill, or an unhandled exception.
Kill(t) ==
  /\ t \in Killable \ dying
  /\ dying' = dying \cup {t}
  /\ UNCHANGED <<epVars, pc, ep, waitVars, excepted, histVars>>

\* A handler resumed the thread from its policy exception.
ResumeFromException(t) ==
  /\ t \in excepted /\ pc[t] \in {"user", "retry"}
  /\ excepted' = excepted \ {t}
  /\ UNCHANGED <<epVars, pc, ep, waitVars, dying, histVars>>

\* Thread::Current::Exit, on the way back to user mode.  The waiter is a field
\* of the ThreadDispatcher, which lives on while anybody refers to it.
Exit(t) ==
  /\ t \in dying /\ pc[t] \in {"user", "retry"}
  /\ pc' = [pc EXCEPT ![t] = "dead"]
  /\ UNCHANGED <<epVars, ep, waitVars, taskVars, histVars>>

\* ~ThreadDispatcher and its ~MessageWaiter: RemoveWaiter.
DestroyThread(t) ==
  /\ pc[t] = "dead"
  /\ waiters' = [e \in Endpoints |-> IF chan[t] = e THEN waiters[e] \ {t}
                                                    ELSE waiters[e]]
  /\ discarded' = IF slot[t] # NoMsg THEN discarded \cup {slot[t].id} ELSE discarded
  /\ slot' = [slot EXCEPT ![t] = NoMsg]
  /\ chan' = [chan EXCEPT ![t] = NoChan]
  /\ pc' = [pc EXCEPT ![t] = "gone"]
  /\ UNCHANGED <<handle, owner, peer, messages, txid, signals, ep, status,
                 wtxid, event, taskVars, written, received>>

-----------------------------------------------------------------------------
ThreadStep(t) ==
  \/ ReadFails(t)
  \/ \E clear, set \in SUBSET UserSignals :
        UserSignalSelf(t, clear, set) \/ UserSignalPeer(t, clear, set)
  \/ UserSignalFails(t)
  \/ \E fits, mayDiscard, copied \in BOOLEAN : ReadMessage(t, fits, mayDiscard, copied)
  \/ WriteFails(t)
  \/ \E x \in UserTxids, w \in Threads : WriteToWaiter(t, w, x)
  \/ \E x \in UserTxids : WriteToQueue(t, x)
  \/ BeginWait(t) \/ BeginWaitKill(t)
  \/ CallBadHandle(t) \/ CallPeerClosed(t)
  \/ \E n \in 1 .. HalfTxid, w \in Threads : CallToWaiter(t, n, w)
  \/ \E n \in 1 .. HalfTxid : CallToQueue(t, n)
  \/ WaitReturns(t) \/ CallFinish(t) \/ Exit(t)
  \/ \E fits \in BOOLEAN : EndWait(t, fits)

Environment ==
  \/ \E e \in Endpoints : RemoveHandle(e) \/ OnZeroHandles(e) \/ Destroy(e)
  \/ \E e \in Endpoints, p \in Procs : AddHandle(e, p)
  \/ \E t \in Threads, e \in Endpoints, op \in Ops : Lookup(t, e, op)
  \/ \E t \in Threads : \/ SyscallFails(t)
                        \/ WaitTimesOut(t) \/ WaitInterrupted(t) \/ CallFinishFails(t)
                        \/ Kill(t) \/ ResumeFromException(t) \/ DestroyThread(t)

Next == Environment \/ \E t \in Threads : ThreadStep(t)

Spec == Init /\ [][Next]_vars

\* Every thread that can run is eventually scheduled.
FairSpec == Spec /\ \A t \in Threads : WF_vars(ThreadStep(t))

-----------------------------------------------------------------------------
(* Properties.                                                             *)

TypeOK ==
  /\ handle \in [Endpoints -> Procs \cup {"in_flight", "none"}]
  /\ owner \in [Endpoints -> Procs]
  /\ peer \in [Endpoints -> BOOLEAN]
  /\ messages \in [Endpoints -> Seq(Message)]
  /\ waiters \in [Endpoints -> SUBSET Threads]
  /\ txid \in [Endpoints -> Txids]
  /\ signals \in [Endpoints -> SUBSET Signals]
  /\ pc \in [Threads -> PCs]
  /\ ep \in [Threads -> Endpoints \cup {NoChan}]
  /\ chan \in [Threads -> Endpoints \cup {NoChan}]
  /\ status \in [Threads -> Statuses]
  /\ slot \in [Threads -> Message \cup {NoMsg}]
  /\ wtxid \in [Threads -> Txids]
  /\ event \in [Threads -> BOOLEAN]
  /\ dying \subseteq Threads /\ excepted \subseteq Threads
  /\ written \in Nat /\ received \subseteq Nat /\ discarded \subseteq Nat

\* Step (4) of Call relies on it: between the write of the request and
\* EndWait, TIMED_OUT means that the waiter is still on the list and that it
\* is the caller's job to take it off; any other status means that (3A), (3B)
\* or (3C) took it off and signaled it.
TimedOutMeansListed ==
  \A t \in Threads : pc[t] \in {"wait", "end", "retry"} =>
    /\ chan[t] # NoChan
    /\ status[t] = "TIMED_OUT" <=> t \in waiters[chan[t]]
    /\ event[t] <=> status[t] # "TIMED_OUT"

\* A listed waiter is armed for that list's channel (the DEBUG_ASSERTs of
\* Deliver, Cancel and ~MessageWaiter), so none outlives its ThreadDispatcher.
ListedMeansArmed ==
  \A e \in Endpoints : \A t \in waiters[e] : chan[t] = e /\ pc[t] # "gone"

\* No call keeps waiting on a channel either side of which is closed.
NoCallLeftBehind ==
  \A e \in Endpoints : waiters[e] # {} => peer[e] /\ handle[e] # "none"

\* The calls that wait on one endpoint have different txids, after txid_ has
\* wrapped around too, so a reply has at most one taker.
UniqueTxids ==
  \A e \in Endpoints : \A t, u \in waiters[e] : wtxid[t] = wtxid[u] => t = u

\* A message is handed only to the call that carries its txid, and the status
\* that call returns says so.
ReplyToItsCall ==
  \A t \in Threads : slot[t] # NoMsg =>
    slot[t].txid = wtxid[t] /\ status[t] = "OK" /\ chan[t] # NoChan

\* The signals of an endpoint that still has a handle tell the state of its
\* queue and of its peer, whatever users signal.
SignalsMatch ==
  \A e \in Endpoints : handle[e] # "none" =>
    /\ "READABLE" \in signals[e] <=> messages[e] # <<>>
    /\ "WRITABLE" \in signals[e] <=> peer[e]
    /\ "PEER_CLOSED" \in signals[e] <=> ~peer[e]

\* Every accepted message is in exactly one place: a queue, a waiter, a
\* reader's hands, or dropped on purpose (closed endpoint, MAY_DISCARD, a
\* message or reply that its reader's buffers cannot take, a killed caller).
Places ==
  {Ids(messages[0]), Ids(messages[1]), received, discarded} \cup
  {{slot[t].id} : t \in {u \in Threads : slot[u] # NoMsg}}

MessagesConserved ==
  /\ UNION Places = 1 .. written
  /\ Ids(messages[0]) \cap Ids(messages[1]) = {}
  /\ received \cap discarded = {}
  /\ \A e \in Endpoints : Ids(messages[e]) \cap (received \cup discarded) = {}
  /\ \A t \in Threads : slot[t] # NoMsg =>
       /\ slot[t].id \notin received \cup discarded
       /\ \A e \in Endpoints : slot[t].id \notin Ids(messages[e])
       /\ \A u \in Threads \ {t} : slot[u] # slot[t]

\* channel_dispatcher.h on owner_: once an endpoint is in a process's table,
\* no other process writes or calls through a reference it took earlier.
OnlyOwnerWrites ==
  [][\A t \in Threads :
       (pc[t] \in {"write", "call"} /\ pc'[t] # pc[t] /\ written' # written)
         => handle[ep[t]] \notin Procs \ {ProcOf[t]}]_vars

\* A call returns once either endpoint is closed, deadline or not.
ClosedCallReturns ==
  \A t \in Threads :
    (/\ pc[t] \in {"wait", "end", "retry"} /\ t \notin excepted
     /\ \E e \in Endpoints : chan[t] = e /\ ~peer[e])
    ~> pc[t] \in {"user", "dead", "gone"}

\* A killed thread leaves the kernel, wherever it was.
KilledThreadExits == \A t \in Threads : (t \in dying) ~> (pc[t] \in {"dead", "gone"})

\* channel_dispatcher.cc:241: a thread's waiter is found armed at BeginWait
\* only when its previous call was interrupted and never resumed, that is when
\* the waiter was put on the list.
KillOnlyOnContractViolation ==
  \A t \in Threads : pc[t] = "begin" /\ chan[t] # NoChan =>
    t \in waiters[chan[t]] \/ event[t]
=============================================================================
