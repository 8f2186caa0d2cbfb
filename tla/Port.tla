-------------------------------- MODULE Port --------------------------------
(***************************************************************************)
(* Zircon ports: zircon/kernel/object/port_dispatcher.cc, the observer     *)
(* lists of object/dispatcher.cc that feed them, and the syscalls          *)
(* zx_object_wait_async, zx_port_cancel, zx_port_queue, zx_port_wait and   *)
(* zx_handle_close.                                                        *)
(*                                                                         *)
(* An observer is one heap object with three roles: an entry of the        *)
(* watched object's observer list (guarded by that object's lock), an      *)
(* entry of the port's observer list and, through the packet embedded in   *)
(* it, an entry of the port's packet queue (both guarded by the port's     *)
(* lock).  Which of four code paths deletes it depends on who gets to it   *)
(* first.  One TLA+ step is one critical section, or the part of one that  *)
(* ends where the code takes or drops another lock.                        *)
(***************************************************************************)
EXTENDS Integers, Sequences, FiniteSets

CONSTANTS
  Threads,        \* user threads, all of one process
  Objects,        \* waitable dispatchers
  Handles,        \* handles of these objects
  ObjOf,          \* the dispatcher of each handle
  Keys,           \* the keys userspace passes to wait_async and cancel
  Sigs,           \* signal bits
  Observers,      \* addresses the observer allocator hands out
  UserPackets,    \* addresses the packet allocator hands out
  Interrupts,     \* packets of the interrupts bound to the port
  MaxPackets,     \* kMaxAllocatedPacketCountPerPort
  MaxCalls,       \* bound: syscalls, signal changes and interrupts
  NoThread, NoObs, NoHandle, AnyKey, Freed

ASSUME PortAssumption ==
  /\ ObjOf \in [Handles -> Objects]
  /\ MaxPackets \in Nat /\ MaxCalls \in Nat
  /\ NoThread \notin Threads
  /\ NoObs \notin Observers
  /\ NoHandle \notin Handles
  /\ AnyKey \notin Keys
  /\ Observers \cap UserPackets = {}
  /\ Freed \notin [handle : Handles, key : Keys, trigger : SUBSET Sigs, edge : BOOLEAN]

VARIABLES
  \* The process's handle table
  hstate,      \* object handles: "open", "removed" from the table, or "freed"
  porth,       \* the same for the port's only handle
  \* Dispatcher, per watched object
  lock,        \* who holds its get_lock()
  signals,     \* signals_
  watchers,    \* its observers_, whose order nothing relies on
  \* PortDispatcher
  plock,       \* who holds its get_lock() across steps
  zero,        \* zero_handles_
  packets,     \* packets_; an observer stands for the packet_ inside it
  num,         \* num_ephemeral_packets_
  observers,   \* its observers_; exactly these have dispatcher_ != nullptr
  owned,       \* observers whose packet_.observer is set, to themselves
  sema,        \* sema_.count_
  interrupts,  \* interrupt_packets_
  \* Heap
  reg,         \* each observer's constructor arguments, or Freed
  \* Threads
  pc, op,      \* where the thread is, and in which call
  arg, key,    \* the handle and the key the call is about
  cur,         \* the observer pointer it holds
  posting,     \* interrupts queued whose sema_.Post() is still to come
  calls,       \* calls begun so far, see MaxCalls
  \* History
  raised,      \* per object: the bits set by the signal change in progress
  stopping,    \* per thread: the waits its zx_port_cancel has to stop
  canceled     \* observers of waits that a zx_port_cancel has returned for

tableVars  == <<hstate, porth>>
objectVars == <<lock, signals, watchers, raised>>
portVars   == <<plock, zero, packets, num, observers, owned>>
semaVars   == <<sema, interrupts, posting>>
callVars   == <<op, arg, key>>
histVars   == <<stopping, canceled>>
vars == <<tableVars, objectVars, portVars, semaVars, reg, pc, callVars, cur,
          calls, histVars>>

Ops == {"none", "wait_async", "signal", "close", "cancel", "queue", "wait", "close_port"}
PCs == {"user", "add", "match", "post", "reap", "update", "lock", "erase", "cancel",
        "cancel_queued", "queue", "wait", "blocked", "dequeue_interrupt", "dequeue",
        "zero", "drain", "remove", "relock"}
Registration == [handle : Handles, key : Keys, trigger : SUBSET Sigs, edge : BOOLEAN]

(***************************************************************************)
(* PortDispatcher::Create; its handle is in the table, and the objects may *)
(* have any signals by then.                                               *)
(***************************************************************************)
Init ==
  /\ hstate = [h \in Handles |-> "open"] /\ porth = "open"
  /\ lock = [d \in Objects |-> NoThread]
  /\ signals \in [Objects -> SUBSET Sigs]
  /\ raised = [d \in Objects |-> {}]
  /\ watchers = [d \in Objects |-> {}]
  /\ plock = NoThread /\ zero = FALSE
  /\ packets = <<>> /\ num = 0 /\ observers = {} /\ owned = {}
  /\ sema = 0 /\ interrupts = <<>> /\ posting = {}
  /\ reg = [o \in Observers |-> Freed]
  /\ pc = [t \in Threads |-> "user"] /\ op = [t \in Threads |-> "none"]
  /\ arg = [t \in Threads |-> NoHandle] /\ key = [t \in Threads |-> AnyKey]
  /\ cur = [t \in Threads |-> NoObs]
  /\ calls = 0
  /\ stopping = [t \in Threads |-> {}] /\ canceled = {}

-----------------------------------------------------------------------------
(* Helpers.                                                                *)

Live == {o \in Observers : reg[o] # Freed}
Queued == {packets[i] : i \in DOMAIN packets}
ObjectOf(o) == ObjOf[reg[o].handle]

Goto(t, l) == pc' = [pc EXCEPT ![t] = l]

\* A call begins.
Begin(t, l, o) ==
  /\ pc[t] = "user" /\ calls < MaxCalls
  /\ calls' = calls + 1
  /\ Goto(t, l)
  /\ op' = [op EXCEPT ![t] = o]

\* The syscall returns.
Return(t) ==
  /\ Goto(t, "user")
  /\ op' = [op EXCEPT ![t] = "none"]
  /\ arg' = [arg EXCEPT ![t] = NoHandle]
  /\ key' = [key EXCEPT ![t] = AnyKey]

\* ~PortObserver of the observers in S.
Destroy(S) == reg' = [o \in Observers |-> IF o \in S THEN Freed ELSE reg[o]]

\* The list q with its i-th element erased.
Without(q, i) == SubSeq(q, 1, i - 1) \o SubSeq(q, i + 1, Len(q))

\* One fewer ephemeral packet, if p is one.
NotCounted(p) == num
Uncount(p) == IF p \in UserPackets THEN num - 1 ELSE num

\* packet->observer.reset(): what a packet that leaves the queue takes along.
NotReset(p) == {}
Reset(p) == owned \cap {p}

\* Semaphore::Post: wake a blocked thread or, if there is none, count up.  P is
\* pc with the poster moved on.
Blocked == {t \in Threads : pc[t] = "blocked"}
PostLost(P) == pc' = P /\ UNCHANGED sema
PostCountsOnly(P) == pc' = P /\ sema' = sema + 1
SemaPost(P) ==
  \/ /\ Blocked = {}
     /\ sema' = sema + 1 /\ pc' = P
  \/ \E w \in Blocked :
       /\ pc' = [P EXCEPT ![w] = "dequeue_interrupt"]
       /\ UNCHANGED sema

\* Readers of the handle table's lock; HandleTable::RemoveHandle is its writer.
TableReaders == {t \in Threads : op[t] = "wait_async" \/ (op[t] = "cancel" /\ arg[t] # NoHandle)}

-----------------------------------------------------------------------------
(* zx_object_wait_async.                                                   *)

\* sys_object_wait_async and MakeObserver up to the end of its port section.
WaitAsync(t, o, r) ==
  /\ Begin(t, "add", "wait_async")
  /\ porth = "open" /\ hstate[r.handle] = "open"
  /\ reg[o] = Freed
  /\ plock = NoThread
  /\ reg' = [reg EXCEPT ![o] = r]
  /\ observers' = observers \cup {o}
  /\ cur' = [cur EXCEPT ![t] = o]
  /\ stopping' = [u \in Threads |-> stopping[u] \ {o}]
  /\ canceled' = canceled \ {o}
  /\ UNCHANGED <<tableVars, objectVars, plock, zero, packets, num, owned, semaVars,
                 arg, key>>

\* AddObserver: a level-triggered wait whose signals are active matches now.
MatchesLater(o) == FALSE
MatchesNow(o) == ~reg[o].edge /\ reg[o].trigger \cap signals[ObjectOf(o)] # {}

AddMatch(t) ==
  LET o == cur[t] IN
  /\ pc[t] = "add"
  /\ lock[ObjectOf(o)] = NoThread
  /\ MatchesNow(o)
  /\ lock' = [lock EXCEPT ![ObjectOf(o)] = t]
  /\ Goto(t, "match")
  /\ UNCHANGED <<tableVars, signals, watchers, raised, portVars, semaVars, reg,
                 callVars, cur, calls, histVars>>

AddObserver(t) ==
  LET o == cur[t] IN
  /\ pc[t] = "add"
  /\ lock[ObjectOf(o)] = NoThread
  /\ ~MatchesNow(o)
  /\ watchers' = [watchers EXCEPT ![ObjectOf(o)] = @ \cup {o}]
  /\ cur' = [cur EXCEPT ![t] = NoObs]
  /\ Return(t)
  /\ UNCHANGED <<tableVars, lock, signals, raised, portVars, semaVars, reg, calls,
                 histVars>>

-----------------------------------------------------------------------------
(* PortObserver::OnMatch, with the object's lock held.                     *)

\* PortDispatcher::Queue(&packet_, signals).
QueueSignal(t) ==
  LET o == cur[t] IN
  /\ pc[t] = "match"
  /\ plock = NoThread
  /\ IF zero \/ o \in Queued
     THEN Goto(t, "reap") /\ UNCHANGED packets
     ELSE Goto(t, "post") /\ packets' = Append(packets, o)
  /\ UNCHANGED <<tableVars, objectVars, plock, zero, num, observers, owned, semaVars,
                 reg, callVars, cur, calls, histVars>>

\* Queue's sema_.Post(), with no lock of the port held.
PostSignal(t) ==
  /\ pc[t] = "post" /\ cur[t] # NoObs
  /\ SemaPost([pc EXCEPT ![t] = "reap"])
  /\ UNCHANGED <<tableVars, objectVars, portVars, interrupts, posting, reg, callVars,
                 cur, calls, histVars>>

\* MaybeReap goes on only if it is the one that clears dispatcher_.
Unlinks(o) == o \in observers
StillLinked(o) == observers
Unlinked(o) == observers \ {o}

\* Its caller goes on: with its loop over the object's observers, or by letting
\* go of the object's lock.
MaybeReap(t) ==
  LET o == cur[t] IN
  /\ pc[t] = "reap"
  /\ plock = NoThread
  /\ observers' = Unlinked(o)
  /\ owned' = IF Unlinks(o) /\ o \in Queued THEN owned \cup {o} ELSE owned
  /\ Destroy(IF Unlinks(o) /\ o \notin Queued THEN {o} ELSE {})
  /\ cur' = [cur EXCEPT ![t] = NoObs]
  /\ IF op[t] = "wait_async"
     THEN /\ Return(t)
          /\ lock' = [d \in Objects |-> IF lock[d] = t THEN NoThread ELSE lock[d]]
     ELSE /\ Goto(t, IF op[t] = "signal" THEN "update" ELSE "erase")
          /\ UNCHANGED <<callVars, lock>>
  /\ UNCHANGED <<tableVars, signals, watchers, raised, plock, zero, packets, num,
                 semaVars, calls, histVars>>

-----------------------------------------------------------------------------
(* Dispatcher::UpdateState, from zx_object_signal or the object itself.    *)

Signal(t, d, new) ==
  /\ Begin(t, "update", "signal")
  /\ lock[d] = NoThread
  /\ new # signals[d]
  /\ lock' = [lock EXCEPT ![d] = t]
  /\ signals' = [signals EXCEPT ![d] = new]
  /\ raised' = [raised EXCEPT ![d] = new \ signals[d]]
  /\ UNCHANGED <<tableVars, watchers, portVars, semaVars, reg, arg, key, cur,
                 histVars>>

\* Observers that the loop of UpdateStateLocked still has to call.
ToNotify(d) == {o \in watchers[d] : reg[o].trigger \cap signals[d] # {}}

NotifyNext(t, d, o) ==
  /\ pc[t] = "update" /\ lock[d] = t
  /\ o \in ToNotify(d)
  /\ watchers' = [watchers EXCEPT ![d] = @ \ {o}]
  /\ cur' = [cur EXCEPT ![t] = o]
  /\ Goto(t, "match")
  /\ UNCHANGED <<tableVars, lock, signals, raised, portVars, semaVars, reg, callVars,
                 calls, histVars>>

NotifyDone(t, d) ==
  /\ pc[t] = "update" /\ lock[d] = t
  /\ ToNotify(d) = {}
  /\ lock' = [lock EXCEPT ![d] = NoThread]
  /\ raised' = [raised EXCEPT ![d] = {}]
  /\ Return(t)
  /\ UNCHANGED <<tableVars, signals, watchers, portVars, semaVars, reg, cur, calls,
                 histVars>>

-----------------------------------------------------------------------------
(* zx_handle_close of a watched object's handle, and zx_port_cancel.       *)

\* HandleTable::RemoveHandle.
CloseHandle(t, h) ==
  /\ Begin(t, "lock", "close")
  /\ hstate[h] = "open" /\ TableReaders = {}
  /\ hstate' = [hstate EXCEPT ![h] = "removed"]
  /\ arg' = [arg EXCEPT ![t] = h]
  /\ UNCHANGED <<porth, objectVars, portVars, semaVars, reg, key, cur, histVars>>

\* GetDispatcherWithRights: the call keeps its reference to the port.
Lookup(t, o) ==
  /\ Begin(t, o, o)
  /\ porth = "open"
  /\ UNCHANGED <<tableVars, objectVars, portVars, semaVars, reg, arg, key, cur,
                 histVars>>

\* sys_port_cancel, under the handle table's lock from here on.  It has to
\* stop the waits whose zx_object_wait_async has returned.
CancelStart(t, h, k) ==
  /\ pc[t] = "cancel"
  /\ hstate[h] = "open"
  /\ arg' = [arg EXCEPT ![t] = h] /\ key' = [key EXCEPT ![t] = k]
  /\ stopping' = [stopping EXCEPT ![t] =
       {o \in Live : /\ reg[o].handle = h /\ reg[o].key = k
                     /\ \A u \in Threads : ~(op[u] = "wait_async" /\ cur[u] = o)}]
  /\ Goto(t, "lock")
  /\ UNCHANGED <<tableVars, objectVars, portVars, semaVars, reg, op, cur, calls,
                 canceled>>

CancelBadHandle(t, h) ==
  /\ pc[t] = "cancel"
  /\ hstate[h] # "open"
  /\ Return(t)
  /\ UNCHANGED <<tableVars, objectVars, portVars, semaVars, reg, cur, calls, histVars>>

\* Dispatcher::Cancel and CancelByKey take the object's lock ...
CancelLock(t) ==
  /\ pc[t] = "lock"
  /\ lock[ObjOf[arg[t]]] = NoThread
  /\ lock' = [lock EXCEPT ![ObjOf[arg[t]]] = t]
  /\ Goto(t, "erase")
  /\ UNCHANGED <<tableVars, signals, watchers, raised, portVars, semaVars, reg,
                 callVars, cur, calls, histVars>>

\* ... erase the observers of this handle, and of this key if one is given ...
Selected(t, o) == reg[o].handle = arg[t] /\ key[t] \in {AnyKey, reg[o].key}
ToErase(t) == {o \in watchers[ObjOf[arg[t]]] : Selected(t, o)}

\* ... calling OnCancel, which is MaybeReap, on each.
CancelNext(t, o) ==
  /\ pc[t] = "erase"
  /\ o \in ToErase(t)
  /\ watchers' = [watchers EXCEPT ![ObjOf[arg[t]]] = @ \ {o}]
  /\ cur' = [cur EXCEPT ![t] = o]
  /\ Goto(t, "reap")
  /\ UNCHANGED <<tableVars, lock, signals, raised, portVars, semaVars, reg, callVars,
                 calls, histVars>>

\* HandleTableArena::Delete: TearDown and arena_.Free.
CloseDone(t) ==
  /\ pc[t] = "erase" /\ op[t] = "close"
  /\ ToErase(t) = {}
  /\ lock' = [lock EXCEPT ![ObjOf[arg[t]]] = NoThread]
  /\ hstate' = [hstate EXCEPT ![arg[t]] = "freed"]
  /\ Return(t)
  /\ UNCHANGED <<porth, signals, watchers, raised, portVars, semaVars, reg, cur, calls,
                 histVars>>

CancelByKeyDone(t) ==
  /\ pc[t] = "erase" /\ op[t] = "cancel"
  /\ ToErase(t) = {}
  /\ lock' = [lock EXCEPT ![ObjOf[arg[t]]] = NoThread]
  /\ Goto(t, "cancel_queued")
  /\ UNCHANGED <<tableVars, signals, watchers, raised, portVars, semaVars, reg,
                 callVars, cur, calls, histVars>>

\* PortDispatcher::CancelQueued(handle, key).
RemovesNone(t, p) == FALSE
Removes(t, p) == p \in Observers /\ Selected(t, p)

ToCancel(t) == {i \in DOMAIN packets : Removes(t, packets[i])}

\* One round of its loop; the lock is kept for the next one.
CancelPacket(t, i) ==
  /\ pc[t] = "cancel_queued"
  /\ plock \in {NoThread, t}
  /\ i \in ToCancel(t) /\ \A j \in ToCancel(t) : i <= j
  /\ plock' = t
  /\ packets' = Without(packets, i)
  /\ num' = Uncount(packets[i])
  /\ Destroy(Reset(packets[i]))
  /\ owned' = owned \ {packets[i]}
  /\ UNCHANGED <<tableVars, objectVars, zero, observers, semaVars, pc, callVars, cur,
                 calls, histVars>>

CancelQueuedDone(t) ==
  /\ pc[t] = "cancel_queued"
  /\ plock \in {NoThread, t}
  /\ ToCancel(t) = {}
  /\ plock' = NoThread
  /\ canceled' = canceled \cup stopping[t]
  /\ stopping' = [stopping EXCEPT ![t] = {}]
  /\ Return(t)
  /\ UNCHANGED <<tableVars, objectVars, zero, packets, num, observers, owned, semaVars,
                 reg, cur, calls>>

-----------------------------------------------------------------------------
(* zx_port_queue.                                                          *)

Full == num > MaxPackets

\* Queue returned ZX_ERR_BAD_HANDLE, or ZX_ERR_SHOULD_WAIT with a policy
\* exception; QueueUser frees the packet.
QueueUserFails(t) ==
  /\ pc[t] = "queue"
  /\ plock = NoThread
  /\ zero \/ Full
  /\ Return(t)
  /\ UNCHANGED <<tableVars, objectVars, portVars, semaVars, reg, cur, calls, histVars>>

QueueUser(t, u) ==
  /\ pc[t] = "queue"
  /\ plock = NoThread
  /\ ~zero /\ ~Full
  /\ u \notin Queued
  /\ packets' = Append(packets, u)
  /\ num' = num + 1
  /\ Goto(t, "post")
  /\ UNCHANGED <<tableVars, objectVars, plock, zero, observers, owned, semaVars, reg,
                 callVars, cur, calls, histVars>>

PostUser(t) ==
  /\ pc[t] = "post" /\ cur[t] = NoObs
  /\ SemaPost([pc EXCEPT ![t] = "user"])
  /\ op' = [op EXCEPT ![t] = "none"]
  /\ UNCHANGED <<tableVars, objectVars, portVars, interrupts, posting, reg, arg, key,
                 cur, calls, histVars>>

-----------------------------------------------------------------------------
(* Interrupts bound to the port, from interrupt context.  The interrupt's  *)
(* own spinlock orders these three for one interrupt.                      *)

QueueInterruptPacket(i) ==
  /\ calls < MaxCalls /\ calls' = calls + 1
  /\ i \notin posting
  /\ \A n \in DOMAIN interrupts : interrupts[n] # i
  /\ interrupts' = Append(interrupts, i)
  /\ posting' = posting \cup {i}
  /\ UNCHANGED <<tableVars, objectVars, portVars, sema, reg, pc, callVars, cur,
                 histVars>>

PostInterrupt(i) ==
  /\ i \in posting
  /\ SemaPost(pc)
  /\ posting' = posting \ {i}
  /\ UNCHANGED <<tableVars, objectVars, portVars, interrupts, reg, callVars, cur, calls,
                 histVars>>

RemoveInterruptPacket(i) ==
  /\ i \notin posting
  /\ \E n \in DOMAIN interrupts :
       interrupts[n] = i /\ interrupts' = Without(interrupts, n)
  /\ UNCHANGED <<tableVars, objectVars, portVars, sema, posting, reg, pc, callVars, cur,
                 calls, histVars>>

-----------------------------------------------------------------------------
(* zx_port_wait: PortDispatcher::Dequeue.                                  *)

\* Semaphore::Wait.
CountAssumed == TRUE
CountAvailable == sema > 0

SemaWait(t) ==
  /\ pc[t] = "wait"
  /\ \/ CountAvailable /\ sema' = sema - 1 /\ Goto(t, "dequeue_interrupt")
     \/ ~CountAvailable /\ Goto(t, "blocked") /\ UNCHANGED sema
  /\ UNCHANGED <<tableVars, objectVars, portVars, interrupts, posting, reg, callVars,
                 cur, calls, histVars>>

\* Deadline, kill or suspend.
WaitEnds(t) ==
  /\ pc[t] = "blocked"
  /\ Return(t)
  /\ UNCHANGED <<tableVars, objectVars, portVars, semaVars, reg, cur, calls, histVars>>

DequeueInterrupt(t) ==
  /\ pc[t] = "dequeue_interrupt"
  /\ IF interrupts # <<>>
     THEN interrupts' = Tail(interrupts) /\ Return(t)
     ELSE Goto(t, "dequeue") /\ UNCHANGED <<interrupts, callVars>>
  /\ UNCHANGED <<tableVars, objectVars, portVars, sema, posting, reg, cur, calls,
                 histVars>>

DequeuePacket(t) ==
  LET p == Head(packets) IN
  /\ pc[t] = "dequeue"
  /\ plock = NoThread
  /\ packets # <<>>
  /\ packets' = Tail(packets)
  /\ num' = Uncount(p)
  /\ Destroy(Reset(p))
  /\ owned' = owned \ {p}
  /\ Return(t)
  /\ UNCHANGED <<tableVars, objectVars, plock, zero, observers, semaVars, cur, calls,
                 histVars>>

\* Both queues were empty: wait again.
DequeueSpurious(t) ==
  /\ pc[t] = "dequeue"
  /\ plock = NoThread
  /\ packets = <<>>
  /\ Goto(t, "wait")
  /\ UNCHANGED <<tableVars, objectVars, portVars, semaVars, reg, callVars, cur, calls,
                 histVars>>

-----------------------------------------------------------------------------
(* zx_handle_close of the port: PortDispatcher::on_zero_handles.           *)

ClosePort(t) ==
  /\ Begin(t, "zero", "close_port")
  /\ porth = "open" /\ TableReaders = {}
  /\ porth' = "removed"
  /\ UNCHANGED <<hstate, objectVars, portVars, semaVars, reg, arg, key, cur, histVars>>

ZeroHandles(t) ==
  /\ pc[t] = "zero"
  /\ plock = NoThread
  /\ plock' = t
  /\ zero' = TRUE
  /\ Goto(t, "drain")
  /\ UNCHANGED <<tableVars, objectVars, packets, num, observers, owned, semaVars, reg,
                 callVars, cur, calls, histVars>>

\* The first loop: an ephemeral packet is freed with the lock dropped, the
\* observer of any other is destroyed if its packet owns it.
DrainPacket(t) ==
  LET p == Head(packets) IN
  /\ pc[t] = "drain"
  /\ packets # <<>>
  /\ packets' = Tail(packets)
  /\ num' = Uncount(p)
  /\ Destroy(Reset(p))
  /\ owned' = owned \ {p}
  /\ IF p \in UserPackets THEN Goto(t, "relock") /\ plock' = NoThread
                          ELSE UNCHANGED <<pc, plock>>
  /\ UNCHANGED <<tableVars, objectVars, zero, observers, semaVars, callVars, cur, calls,
                 histVars>>

\* The second loop: unlink an observer, then drop the lock ...
HeldAcross(t) == t
Dropped(t) == NoThread

UnlinkObserver(t, o) ==
  /\ pc[t] = "drain"
  /\ packets = <<>>
  /\ o \in observers
  /\ observers' = observers \ {o}
  /\ cur' = [cur EXCEPT ![t] = o]
  /\ plock' = Dropped(t)
  /\ Goto(t, "remove")
  /\ UNCHANGED <<tableVars, objectVars, zero, packets, num, owned, semaVars, reg,
                 callVars, calls, histVars>>

\* ... and destroy it after Dispatcher::RemoveObserver, which waits for the
\* object's lock ...
LockSkipped(d) == TRUE
LockFree(d) == lock[d] = NoThread

RemoveObserver(t) ==
  LET d == ObjectOf(cur[t]) IN
  /\ pc[t] = "remove"
  /\ LockFree(d)
  /\ watchers' = [watchers EXCEPT ![d] = @ \ {cur[t]}]
  /\ Destroy({cur[t]})
  /\ cur' = [cur EXCEPT ![t] = NoObs]
  /\ Goto(t, "relock")
  /\ UNCHANGED <<tableVars, lock, signals, raised, portVars, semaVars, callVars, calls,
                 histVars>>

\* ... and take the port's lock again.
Relock(t) ==
  /\ pc[t] = "relock"
  /\ plock = NoThread
  /\ plock' = t
  /\ Goto(t, "drain")
  /\ UNCHANGED <<tableVars, objectVars, zero, packets, num, observers, owned, semaVars,
                 reg, callVars, cur, calls, histVars>>

ZeroDone(t) ==
  /\ pc[t] = "drain"
  /\ packets = <<>> /\ observers = {}
  /\ plock' = NoThread
  /\ porth' = "freed"
  /\ Return(t)
  /\ UNCHANGED <<hstate, objectVars, zero, packets, num, observers, owned, semaVars, reg,
                 cur, calls, histVars>>

-----------------------------------------------------------------------------
KernelStep(t) ==
  \/ AddMatch(t) \/ AddObserver(t)
  \/ QueueSignal(t) \/ PostSignal(t) \/ MaybeReap(t)
  \/ \E d \in Objects : NotifyDone(t, d) \/ \E o \in Observers : NotifyNext(t, d, o)
  \/ \E h \in Handles : CancelBadHandle(t, h) \/ \E k \in Keys : CancelStart(t, h, k)
  \/ CancelLock(t) \/ CloseDone(t) \/ CancelByKeyDone(t) \/ CancelQueuedDone(t)
  \/ \E i \in DOMAIN packets : CancelPacket(t, i)
  \/ \E o \in Observers : CancelNext(t, o)
  \/ QueueUserFails(t) \/ PostUser(t) \/ \E u \in UserPackets : QueueUser(t, u)
  \/ SemaWait(t) \/ DequeueInterrupt(t) \/ DequeuePacket(t) \/ DequeueSpurious(t)
  \/ ZeroHandles(t) \/ DrainPacket(t) \/ RemoveObserver(t) \/ Relock(t) \/ ZeroDone(t)
  \/ \E o \in Observers : UnlinkObserver(t, o)

UserStep(t) ==
  \/ \E o \in Observers, r \in Registration : WaitAsync(t, o, r)
  \/ \E d \in Objects, new \in SUBSET Sigs : Signal(t, d, new)
  \/ \E h \in Handles : CloseHandle(t, h)
  \/ \E o \in {"cancel", "queue", "wait"} : Lookup(t, o)
  \/ ClosePort(t)

Next ==
  \/ \E t \in Threads : KernelStep(t) \/ UserStep(t) \/ WaitEnds(t)
  \/ \E i \in Interrupts :
       QueueInterruptPacket(i) \/ PostInterrupt(i) \/ RemoveInterruptPacket(i)

Spec == Init /\ [][Next]_vars

\* Threads in the kernel keep running; nothing makes userspace issue a call or
\* a deadline pass.
FairSpec ==
  /\ Spec
  /\ \A t \in Threads : WF_vars(KernelStep(t))
  /\ \A i \in Interrupts : WF_vars(PostInterrupt(i))

-----------------------------------------------------------------------------
(* Properties.                                                             *)

ObjectTypes ==
  /\ hstate \in [Handles -> {"open", "removed", "freed"}]
  /\ porth \in {"open", "removed", "freed"}
  /\ lock \in [Objects -> Threads \cup {NoThread}]
  /\ signals \in [Objects -> SUBSET Sigs] /\ raised \in [Objects -> SUBSET Sigs]
  /\ watchers \in [Objects -> SUBSET Observers]

PortTypes ==
  /\ plock \in Threads \cup {NoThread} /\ zero \in BOOLEAN /\ num \in Int
  /\ observers \subseteq Observers /\ owned \subseteq Observers

ListTypes ==
  /\ packets \in Seq(Observers \cup UserPackets)
  /\ interrupts \in Seq(Interrupts)

HeapTypes ==
  /\ sema \in Nat /\ posting \subseteq Interrupts
  /\ reg \in [Observers -> Registration \cup {Freed}]
  /\ calls \in Nat
  /\ stopping \in [Threads -> SUBSET Observers] /\ canceled \subseteq Observers

ThreadTypes ==
  /\ pc \in [Threads -> PCs] /\ op \in [Threads -> Ops]
  /\ arg \in [Threads -> Handles \cup {NoHandle}]
  /\ key \in [Threads -> Keys \cup {AnyKey}]
  /\ cur \in [Threads -> Observers \cup {NoObs}]

\* The types of the variables.
TypeOK == ObjectTypes /\ PortTypes /\ ListTypes /\ HeapTypes /\ ThreadTypes

\* No pointer outlives the observer it points to: the lists of the watched
\* objects and of the port, the packet queue, and the pointers that OnMatch,
\* OnCancel and on_zero_handles hold while other threads run.
NoDanglingObserver ==
  /\ (UNION {watchers[d] : d \in Objects}) \cup observers \cup owned \subseteq Live
  /\ Queued \cap Observers \subseteq Live
  /\ \A t \in Threads : cur[t] # NoObs => cur[t] \in Live

\* The three who can be responsible for deleting an observer: whoever takes it
\* off the port's list next, its queued packet, or a closing port's thread
\* that has unlinked it.
Closers(o) == {t \in Threads : pc[t] = "remove" /\ cur[t] = o}

\* MaybeReap's promise (port_dispatcher.h, "This method determines the
\* observer's fate"): at any time exactly one party will delete a live
\* observer, so that none is leaked and none is deleted twice.
ExactlyOneDestroyer ==
  \A o \in Live :
    /\ o \in observers => o \notin owned /\ Closers(o) = {}
    /\ o \in owned => o \in Queued /\ Closers(o) = {}
    /\ o \in observers \cup owned \/ Closers(o) # {}
    /\ \A t, u \in Closers(o) : t = u

\* When on_zero_handles has returned the port holds nothing, whatever signal
\* changes, cancellations and closes it raced with; ~PortDispatcher asserts
\* part of it.
ClosedPortIsEmpty ==
  porth = "freed" => Live = {} /\ packets = <<>>

\* num_ephemeral_packets_ counts the user packets in the queue, and a queue
\* holds at most one more than kMaxAllocatedPacketCountPerPort of them.
EphemeralCount ==
  /\ num = Cardinality(Queued \cap UserPackets)
  /\ num <= MaxPackets + 1

\* Threads with a count of the semaphore that they have not yet used, or are
\* about to add.
InFlight == {t \in Threads : pc[t] \in {"post", "dequeue_interrupt", "dequeue"}}

\* zx_port_wait never sleeps through a packet: while a packet of either kind is
\* queued and a thread is blocked, someone is on the way to wake it or to take
\* the packet, although Post happens outside the port's lock and cancellation
\* leaves counts without packets behind.
NoLostWakeup ==
  Blocked # {} /\ (packets # <<>> \/ interrupts # <<>>)
    => InFlight # {} \/ posting # {}

\* The inductive form: enough counts for what is queued, and enough of them
\* that have yet to look at the interrupt queue for what is queued there.
NotYetLooked == {t \in Threads : pc[t] \in {"post", "dequeue_interrupt"}}
EnoughCounts ==
  /\ Len(packets) + Len(interrupts) <= sema + Cardinality(InFlight) + Cardinality(posting)
  /\ Len(interrupts) <= sema + Cardinality(NotYetLooked) + Cardinality(posting)

\* zx_port_cancel: once it has returned, no packet is queued for a wait that
\* had been set up when it was called (docs/reference/syscalls/port_cancel.md:
\* "no new packets ... and pending queued packets that match ... are removed").
CanceledStaysSilent == canceled \cap Queued = {}

\* A level-triggered wait is never left pending on an object that already has
\* one of its signals.
LevelNeverMissed ==
  \A d \in Objects : lock[d] = NoThread =>
    \A o \in watchers[d] : reg[o].edge \/ reg[o].trigger \cap signals[d] = {}

\* docs/reference/syscalls/object_wait_async.md: with ZX_WAIT_ASYNC_EDGE "a
\* packet will be enqueued on port only after one or more signals in signals
\* have transitioned from inactive to active".
EdgeNeedsTransition ==
  \A t \in Threads : pc[t] = "match" /\ reg[cur[t]].edge
    => raised[ObjectOf(cur[t])] \cap reg[cur[t]].trigger # {}

\* No deadlock between the handle table's, the objects' and the port's locks:
\* every call except a zx_port_wait that finds no packet returns.
CallsReturn ==
  \A t \in Threads : op[t] \notin {"none", "wait"} ~> op[t] = "none"

=============================================================================
