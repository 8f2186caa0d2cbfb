# Zircon kernel objects and the fxfs journal: a TLA+ development

This directory specifies two parts of Fuchsia whose correctness depends on
orderings that tests hardly reach:

* the kernel-object layer of Zircon (`zircon/kernel/object`, with the syscalls in
  `zircon/kernel/lib/syscalls` and the primitives in `zircon/kernel/kernel`), where
  threads of several processes, interrupt handlers and closing handles reach a few
  critical sections in any order, and through which everything else talks;
* the transactional core of the fxfs file system (`src/storage/fxfs/src`,
  asynchronous Rust): its locks, its journal, the compaction of the journal and the
  task that writes it, where futures are polled, dropped and woken in any order and
  a crash may come between any two writes.

All paths below are relative to the repository root, and those of fxfs to
`src/storage/fxfs/src/object_store`.

## 1. Inventory

| Part | State | Operations | What is hard | What makes it correct |
|---|---|---|---|---|
| Channel (`channel_dispatcher.cc`) | two endpoints: peer, owner, message queue, list of waiters, `txid_`, signals; a `MessageWaiter` in every thread | read, write, call, call_finish, transfer, close, user signals | a call is several critical sections; deadline, reply, either close, suspend and kill race for its waiter; owner changes between lookup and use | a reply reaches its call and no other; every message is in one place; nobody waits on a dead channel; signals tell the truth |
| Port (`port_dispatcher.cc`) and observers (`dispatcher.cc`) | packet queue, interrupt queue, semaphore, observers; each object's observer list and signals | wait_async, signal change, cancel, queue, wait, close of port or object, interrupt queue | one observer is on three lists under two locks and is deleted by whichever of four paths comes first; Post outside the lock | no pointer outlives its observer, one deleter each; no packet slept through; nothing after cancel; no lock cycle |
| Semaphore (`kernel/semaphore.cc`) | count, waiters | Post, Wait | timeouts | count or waiters, never both |
| Handle table (`handle_table.cc`, `handle.cc`) | the process's handles, arena | add, remove, look up, delete | references outlive handles; slots are reused | deletion cancels and closes exactly once |
| wait_one, wait_many (`object_wait.cc`, `wait_signal_observer.cc`) | observer on the stack | begin, end, match, cancel | a match racing the end of the wait | the observer is off the list before the stack frame goes |
| Interrupt (`interrupt_dispatcher.cc` and its virtual, event and PCI forms) | state, bound port or VCPU, timestamp, event; the line's mask and handler | bind, unbind, bind_vcpu, trigger, wait, ack, destroy, the interrupt | interrupt context; three locks; packet queued, dequeued or removed around each change of state; suspended waiters | no trigger lost, none after destroy; a masked line will be unmasked; nothing outlives the object |
| Futex (`futex_context.cc`, `owned_wait_queue.cc`) | pool of futex states, references, wait queues, owners | wait, wake, requeue, grow and shrink of the pool | timeout after a requeue; reference counts kept by two parties | no wake-up lost; the pool never runs dry; owner only with waiters |
| Timer (`timer_dispatcher.cc`) | deadline, pending cancel, reference | set, cancel, fire, close | the DPC is already queued when cancel comes | signalled iff due and not cancelled; one reference per pending fire |
| Socket, FIFO, event pair | peers, buffers, thresholds | read, write, shutdown, close | half-close; counts at the limit | signals match contents; nothing lost |
| Tasks, exceptions, suspend tokens | life-cycle states, exception channels | start, kill, suspend, resume, exit | kill and suspend at any point | a killed thread ends; a handled exception resumes |
| fxfs lock manager (`transaction.rs`) | a table of lock keys with reader counts, a state, wakers; guards | read, transaction and write locks, upgrade at commit, drop | wakers that are replaced; a future dropped half-way; late locks | table and guards agree; a commit is alone; no wake-up lost; no circular wait |
| fxfs journal (`journal.rs`, `journal/reader.rs`, `writer.rs`, `checksum_list.rs`) | writer and its buffer, flushed and device-flushed offsets; the blocks on the device | commit, pad, flush, sync, replay, reset, discard | crash between any two writes, unflushed blocks lost or torn, data written in place without a barrier | a mount recovers a prefix that contains all that was synced; files have the data of their last transaction |
| fxfs allocator (`allocator.rs`) | allocated ranges, reservations, deallocations not yet durable | allocate, deallocate, `did_flush_device`, flush | a block freed and used again before the freeing is durable | no block in use twice, in any state a crash can leave |
| fxfs object manager, super-blocks (`object_manager.rs`, `journal/super_block.rs`) | layers of each object; checkpoints; two copies of the super-block | seal, flush, write super-block, trim journal, replay, open | a crash inside a compaction; transactions committed while layers are written | every mutation in exactly one layer; the journal reaches back far enough |
| fxfs flush task, sync, close (`journal.rs`, `filesystem.rs`) | two futures, two waker slots, an event, flags | poll, sync, wait for space, stop, terminate, close | wakers are single slots; the task waits for itself | never asleep with work to do; every waiter is answered |
| Message packets | buffers, handles in transit | create, put, copy out | failure part-way through a transfer | a handle is in one table or one message |

How the parts meet: a syscall looks a handle up in its process's table and
keeps a counted reference to the dispatcher; deleting a handle calls
`Dispatcher::Cancel` and, if it was the last, `on_zero_handles`; a dispatcher
that changes its signals calls `OnMatch` of its observers with its own lock
held, and a port observer then enters the port; interrupts enter the port from
interrupt context. Channels carry handles, among them those of channels.

In fxfs a transaction takes its locks, writes file data in place, then commits:
the locks are upgraded, its mutations go into the journal's buffer and are applied
to the objects in memory. The flush task writes full blocks of the buffer; `sync`
pads the last one, waits for the task and flushes the device, after which the
allocator may reuse what the transactions before it have freed. When the journal
has grown, the same task flushes each object to a layer file, writes a super-block
and so lets the journal be trimmed. A mount reads the newer super-block and replays
the journal from there.

The parts of the repository outside these (virtual memory, scheduler, other
file systems, component framework, network stack, drivers, tools) are listed
in `PROJECT.json` as not modelled, with the reason.

## 2. Modules

| Module | Models |
|---|---|
| `Channel` | both endpoints of a channel, their waiters, the threads that use them |
| `MCChannel`, `Channel_*.cfg` | instances for TLC |
| `ChannelProofs` | theorems about `Channel` |
| `Port` | a port, the objects it watches, semaphore, handle table, interrupts |
| `MCPort`, `Port_*.cfg` | instances for TLC |
| `PortProofs` | theorems about `Port`: the life of its observers; what is delivered, and whom it wakes |
| `Interrupt` | an interrupt object, its line, its event, the threads and ports that use it |
| `MCInterrupt`, `Interrupt_*.cfg` | instances for TLC |
| `InterruptProofs` | theorems about `Interrupt` |
| `LockManager` | the lock table of fxfs and the tasks that lock, commit and drop |
| `FxJournal` | the journal as blocks on a device that crashes, file data, reuse of blocks, replay |
| `DurableLog` | what a journal promises: the abstract specification `FxJournal` implements |
| `FxCompaction` | compaction, super-blocks, trimming and what a mount rebuilds |
| `FxFlushTask` | the flush task, `sync`, waiting for journal space, `close` |
| `MCLockManager`, `MCFx*`, `LockManager_*.cfg`, `Fx*.cfg` | instances for TLC |
| `LockManagerProofs` | theorems about `LockManager` |
| `FxJournalRecovery` | the invariant of `FxJournal`; reading, mounting and crashing keep it |
| `FxJournalProofs` | theorems about `FxJournal`, and that it implements `DurableLog` |
| `FxCompactionProofs` | theorems about `FxCompaction` |
| `FxFlushTaskProofs` | theorems about `FxFlushTask` |

The four fxfs modules meet at their edges. `FxCompaction` takes from `FxJournal` that
a mount recovers a prefix of the committed transactions that contains the synced
ones (`DurableLog`), and numbers transactions where `FxJournal` counts offsets.
`FxFlushTask` has the scheduling that `FxJournal` and `FxCompaction` leave open: there a
flush, a sync or a compaction may take its next step at any time, here it must have
been polled.

`PROJECT.json`, under `map`, gives the lines behind every definition. Each
property has a fault beside the definition it depends on (`BumpUnbounded`,
`LockSkipped`, ...): the mistake in that code which the property would catch.

### Channel

State: per endpoint 0 and 1, where its handle is (a process, in transit, or
none), `owner_`, whether `peer_` is set, the queue, the list of waiters,
`txid_` and the signals; per thread, its place in a syscall, the endpoint it
holds a reference to, and the fields of its `MessageWaiter` (`channel_`,
status, txid, event, delivered message); which threads have been killed or are
held by a policy exception. Both endpoints share one mutex, so every action is
one critical section of that mutex, or a step between two of them.

* `Lookup` is `GetDispatcherWithRights`: from then on the thread has a
  reference whatever happens to the handle. `RemoveHandle`, `AddHandle`,
  `SetOwner` and `OnZeroHandles` move, re-own and close the handle meanwhile.
* `ReadFails`, `ReadMessage`, `WriteFails`, `WriteToWaiter`, `WriteToQueue`
  are the paths of `Read` and `Write`.
* A call is `BeginWait`, then `CallBadHandle`, `CallPeerClosed`,
  `CallToWaiter` or `CallToQueue`, then `WaitReturns`, `WaitTimesOut` or
  `WaitInterrupted`, then `EndWait`; `CallFinish` is the vDSO resuming an
  interrupted call, `CallFinishFails` its failure to read its arguments.
* `SyscallFails` is an error return before the dispatcher is reached; `ReadOut`
  is the copy of a received message to the caller, which may fail and drop it.
* `Kill`, `ResumeFromException`, `Exit` and `DestroyThread` are the tasks.

A message is an identity (the number of the write that made it) and a txid.
Its size is the choice `fits` in the action that reads it. Txids are the
numbers below `2 * HalfTxid`; the kernel's are the upper half, and `txid_`
wraps at that width, so that it wraps within a run. `MaxPending` stands for
`kMaxPendingMessageCount`.

### Port

State: handle states; per object its lock, signals and observer list; the
port's lock, `zero_handles_`, packet queue, `num_ephemeral_packets_`, observer
list, and which packets own their observer; semaphore count, interrupt queue;
what each observer was constructed with, or `Freed`; per thread its place, its
call and the observer it has in hand. The history variables `raised`,
`stopping` and `canceled` are read by properties only.

One action is one critical section or the part of one up to the next lock. The
locks that are held across actions are explicit: an object's lock from the
match to the end of the loop over its observers, the port's lock inside the
loops of `CancelQueued` and `on_zero_handles` (with their two `CallUnlocked`
windows), and the handle table's lock during `zx_object_wait_async` and
`zx_port_cancel`, which no removal of a handle overlaps. `Semaphore::Post`
is an action of its own, after the port's lock has been dropped. Which blocked
thread it wakes is left open.

`CancelQueued(PortPacket*)`, called by the pager proxy and by guest traps, is
not in the model, nor are observers of `zx_object_wait_one`. Interrupt packets
are queued and removed by the environment, subject to what the interrupt's own
spinlock guarantees: an interrupt does not overlap itself. A port without
`ZX_PORT_BIND_TO_INTERRUPT` is the instance with no interrupts.

### Interrupt

State: `flags_`, `state_`, `timestamp_` (0 or not), `port_dispatcher_`, whether
`vcpu_` is set, `spinlock_` where it is held across steps, `event_`; the port
on whose list the packet is; the line's mask, the handler registered for it
and the handler a CPU has entered; whether the object has a handle; per thread
its place and `defer_unmask`. `latest` is a history variable: where the latest
accepted trigger is.

One action is one critical section of `spinlock_` or a stretch outside it.
`WaitForInterrupt` is a loop of `WaitFails`, `WaitTriggered` or `WaitBegins`,
`DeferredUnmask`, `EventWait`, and `WaitInterrupted` with `WaitAborted` for a
suspended or killed waiter. `IrqEnter` is the platform's entry with its lock
held, `IrqHeld`, `IrqPacket`, `IrqEvent` the paths of `InterruptHandler`,
`VcpuIrq` the guest's. `Destroy` is three steps (mask, unregister, change the
state), since only the last is under the spinlock; `BindVcpu` is four with the
spinlock held, because it calls into the platform's lock. `HasVcpu` is
`FALSE`: the base class's answer, which no subclass overrides. The line may
fire whenever it is unmasked and has a handler, and a port's reader may take
the packet at any time.

The four forms of interrupt are four values of `flags_`: virtual, edge, level
(MSI objects have the same flags) and PCI, which the bus driver masks on entry.
Taken as given: PCI interrupts are maskable, one CPU at a time runs a line's
handler, and one VCPU is enough.

### LockManager

State: the table (`keys`, each with state, `read_count`, the writer's `waker` and the
waiting `wakers`), its `sequence`; per task the calls of `lock` it has still to make,
the locals of the polled closure, the keys in its guards, and whether its current
waker has been called; `caller`, who awaits whom, and the holder of `commit_mutex`.
`Transactions` and `Guards` are what a caller starts with: `new_transaction` (file-system
lock, then its keys, of which there may be none), `new_transaction_with_locks` (the other
way round, for the one key of a cache flush), readers (the flush task, completing a block,
is one of the journal file), `ObjectStore::open` and fsck (write locks). The `cached_write`
lock around a cached write or flush is left out: it is always the first lock a task asks
for, so whoever waits for it holds nothing.

Code that holds locks awaits functions that take more. Such an inner function runs as a
task of its own, and its caller keeps what it holds and does nothing until it has
returned (`Running`). There are three kinds:

* `ReadNested`: everybody who holds something may look records up, which reads layer
  files (`StoreObjectHandle::read` takes a read lock): those of volumes and of the
  allocator are attributes of the root store (`Layers`, where the store and allocator infos
  belong too), and reading one of them needs extents from the layers of the root store
  (`RootLayers`), attributes of the root parent store, which has no layers. `readdir` and
  `lookup` do this with a directory's read lock, `ObjectStore::open` with the store's write
  lock, fsck with that of the file system, transactions with theirs. A transaction that
  writes part of a block also reads its own attribute, which it has locked
  (`align_buffer`). No transaction locks the key of a layer or an info while it can be
  read: `DirectWriter` is done with a file before it becomes a layer, and infos are written
  and old layers purged by transactions without keys.
* `OpenStore`: fsck opens the stores (`Stores`, objects whose keys no transaction locks).
* `PreCommit`: `Journal::commit`, with `commit_mutex` held, extends or trims the journal file
  (`Journal`) in a transaction that asks for the file-system lock a second time. It is
  applied without `commit_prepare`.

When an inner future is dropped the caller may go on in the model, although in the code
both go together: this adds behaviours and removes none.

`Lock` is one poll of the closure, in one of five cases; `CommitPrepare` one poll of the
upgrade; `DropTransaction` gives both sets of locks back under one mutex, whereas plain
guards are dropped one by one. A poll comes with the waker that was called or,
`MaxRepoll` times, with another. `Cancel` drops a future while it waits, at any point.

The code remembers, with a waker it leaves in an entry, the sequence number of the
whole table (`transaction.rs`, `waker_sequence`), not that of the entry it compares
with later. A second poll therefore mostly appends a second waker where it means to
replace the first. No property is broken by that: the superfluous waker is called too.

### FxJournal

State: the journal file and the data blocks as a read would return them, and
`unstable`, the contents each block may have after a crash; `Inner`, the writer, the
buffer in flight, one caller of `sync`, the transaction that holds `commit_mutex`; the
files' extents, open transactions, `committed_deallocated`; the transactions applied and
how many `sync` has vouched for; and, while a mount is under way, the reader with the
local variables of `replay` and those of `ChecksumList::verify`.

A block's checksum is modelled by the chain of all that it was computed from, so two
blocks have the same checksum only if everything before them is the same. Records
have sizes in units and cross block boundaries. `commit` takes two steps, because
`sync` does not take `commit_mutex` and may pad the block between the records of
`pre_commit` (`Discard`, `DidFlushDevice`) and the transaction. `Crash` keeps, block by
block, any of the contents the block may have. The mount after it is `replay` step by
step: `ReadNext` reads a unit of the stream, with the reset in front of it if a block
restarts the stream, and a record takes effect with its last unit; `ReadEnd` is the
checksum that does not match; `VerifyAgain` is a round of `verify` that finds a data
checksum wrong and goes back to it; `Mount` applies what is left and sets up the writer.
The mutations of the model always pass `validate_mutation`.

Three details are simpler than the code. `Init` has `needs_did_flush_device` false, although
`init_empty` ends in a `flush_device` that sets it; the first `sync` of the model does so too.
The flush task (`TakeBuffer`) may run right after a mount, although it is spawned by the
first commit; until then it finds nothing but the padding of a `sync` to write. What a
block may hold after a crash (`Durable`, `unstable`) is the behaviour of the hardware behind
the `Device` trait of `storage_device`, and marked as external.

`mid_block` is a history variable: whether some mount resumed the stream inside a
block. What the code guarantees after that is the subject of `fxjournal_reset`; the
other properties are about the states before. `bare_restart` is another: whether some
block that restarts the stream was padded before there was a mutation in it. Such a block
is the same after every mount (`FxJournal_comeback.cfg` below), and `DurableLog` promises
nothing once its `exact` is given up; `intact` stands for `~mid_block`.

### FxCompaction

State: the journal as a sequence of numbered transactions and how many of them are
durable; what each super-block copy may turn out to be; per object the mutations in
its mutable layer, its sealed layer and its layer files, its counts, and the
dependency on the journal (`journal_checkpoints`); the holder of the commit mutex
inside `pre_commit`, where it trims the journal; the compaction's progress.

`FlushStep` is one transaction of `ObjectStore::flush` or `SimpleAllocator::flush`; other
commits come between any two of them. `SuperBlockFlush` and `SuperBlockWrite` are
`write_super_block` around the device flush. `FlushDevice` may do nothing if no
transaction was written since the last one; in the code this depends on whether there
was anything to pad. A mount is `LoadSuperBlock`, which chooses the copy, one
`ReplayTransaction` for each transaction, and `Mount`, which opens the root store and the
allocator; a crash may come between any two of them. `OpenVolume` opens a volume later.
`FlushUnopened` is the panic described
under the findings. Not in the model: the reservation for metadata, the extension of
the journal file, the graveyard. (`maybe_extend` commits a transaction to lengthen the
super-block's file while `write_super_block` holds the writer's mutex; whether that can
happen depends on the size of the super-block, which the model does not have.)

### FxFlushTask

State: offsets in blocks (written, taken by the task, flushed, the super-block's);
`flush_waker` and `sync_waker`, each a single slot; who waits for `reclaim_event`; the
task's place in its loop and whether it has been woken; the states of the flush and
compaction futures; `sync_mutex`; callers of `sync`, writers and `close`.

A turn of the loop is `TaskLock` (with the lock on `Inner`), `TaskFlush`, and one of the
steps of the compaction; each future may be ready at its first poll or wait for the
device (`WriteDone`, `CompactIoDone`). `write_super_block` holds the writer's mutex from
the padding on, which keeps commits and `sync` out (`WriterLocked`). The device may fail
any write. Taken as given: nobody commits once `close` has called `terminate`, which is
the caller's duty in the code.

## 3. Runs

| Run | Checks | Bounds |
|---|---|---|
| `channel_calls` | `TimedOutMeansListed`, `UniqueTxids`, `ReplyToItsCall`, `SignalsMatch` | 2 threads, one process, 3 writes, 2 kernel txids |
| `channel_teardown` | `ListedMeansArmed`, `NoCallLeftBehind`, `MessagesConserved`, `OnlyOwnerWrites` | one thread in each of two processes, 2 writes, 1 kernel txid, queue limit 1, one thread may be killed |
| `channel_live` | `ClosedCallReturns`, `KilledThreadExits` | 2 threads, 1 write, queue limit 0, one user signal |
| `port_lifetime` | `NoDanglingObserver`, `ExactlyOneDestroyer`, `ClosedPortIsEmpty`, `CanceledStaysSilent`, `LevelNeverMissed` | 3 threads, 2 handles of one object, 2 observers, 6 calls |
| `port_wakeup` | `EphemeralCount`, `NoLostWakeup`, `CallsReturn` | 3 threads, 1 observer, 1 user packet, 1 interrupt, packet limit 0 (the first packet reaches it), 4 calls |
| `interrupt_delivery` | `MaskedMeansPending`, `NoLostTrigger`, `WakeupNotLost`, `NothingOutlives` | 3 threads, one waits; all forms; no unbind, no bind_vcpu, timestamps not 0; 6 calls and interrupts |
| `interrupt_lifetime` | `QueuedMeansBound`, `VcpuTakesOver`, `DestroyedIsFinal`, `PhysicalInterruptHasVcpu` | 3 threads, two wait, 2 ports; all forms and calls; 6 calls and interrupts |
| `lockmanager_safety` | `TableMatchesGuards`, `ExclusiveAccess`, `NoLostWakeup`, `CircleOnlyByLateLock` | 3 tasks with one program each, nested ones included; 2 objects, a store, a layer, a layer of the root store, the journal and the file system; requests for no key, for one and for both; one poll with another waker (1 134 363 states). A circle takes at least two tasks, the one through `pre_commit` three: the commit, its inner transaction and fsck |
| `fxjournal_safety` | `DataIntact`, `ImplementsDurableLog` | 1 file, 2 data blocks, blocks of 3 units, 4 transactions, 2 crashes |
| `fxjournal_reset` | `SyncedTransactionsAreFound`, violated | blocks of 4 units, 3 transactions, 2 crashes |
| `fxcompaction_safety` | `EveryMutationOnce`, `CountsMatch`, `AlwaysReplayable` | root store, allocator and a volume, 1 transaction besides those of compactions, 2 crashes |
| `fxflushtask_live` | `NoLostWakeup`, `ClosedMeansFlushed`, `SyncReturns`, `SpaceIsReclaimed`, `CloseReturns` | 1 caller of `sync` besides `close`, 1 writer, 3 commits, space for 2 blocks |

Bounds and why they are enough. Two threads meet every pair of critical
sections of a channel; with two kernel txids a second call meets the txid of
the first after one wrap; three writes are a request, its reply and a late or
unrelated message. For ports the third thread is what lets a match, a dequeue
and a close be under way at once, each in the window of another; two observers
let an address be freed and allocated again while an old pointer could still
be around; the call bound leaves room for set-up, match, dequeue, cancel and
close of both sides. The packet and message limits are small so that they are
reached. Six calls and interrupts cover trigger, wait or bind, a second trigger
held back, ack, unbind and destroy in any order. What `interrupt_delivery` leaves
out is explained under the counterexamples; `interrupt_lifetime` has all of it.

Three tasks are a holder, a writer that wants the key and one that queues behind
it; with requests for no key, one key and both, keys are taken in both positions of a
sorted request. In the journal, four transactions are enough to write a block, free
it, use it again and crash before or after the sync that makes this legal, and two
crashes let a replay meet the resets and discards of an earlier one; with records of
two units in blocks of three, transactions end at every place of a block and a block can
be padded with less than a mutation in it. In
`fxcompaction_safety` the bound on all transactions (32) leaves room for two complete
compactions and part of a third, so that both super-blocks are overwritten and the
journal is trimmed between crashes; the second crash may hit the replay after the
first, or a compaction that started from it. Three commits with space for
two blocks make a writer wait while a compaction and a `sync` are under way.

`MCChannel` identifies states that differ only in fields of a waiter
that `BeginWait` and `Call` set before anything reads them (`View`), and in
`channel_teardown` also in the upper half of `txid_`, which nothing reads (`TxidView`); threads
and observers are symmetric in `port_lifetime`, and tasks in `lockmanager_safety`.

Deadlock is not checked: callers may stop issuing calls, and the bounds on writes,
calls, transactions and crashes end every behaviour. That no call gets stuck is what
the three runs with fairness show (`channel_live`, `port_wakeup`, `fxflushtask_live`).

Fairness. In the kernel, weak fairness is assumed of the steps of a thread that is
inside a syscall and of a posting interrupt: a runnable thread is scheduled, and the
locks are held for a bounded time. In fxfs it is assumed of every task that has been
woken or can take a mutex, and of the device: the executor polls woken tasks, and
a write or read ends, with or without an error. Nothing is assumed of userspace, of
deadlines, of exception handlers, or of anybody starting a transaction, a sync or
`close`, so a call that ends does so without their help. Weak fairness is enough for
taking a lock because the bounds leave only finitely many competitors.

### Finding

`fxjournal_reset`: when a crash leaves a record whose first part is in the last good
block and whose rest is not, replay stops at the beginning of that record, which is
inside the block, and the writer resumes there with an empty block
(`journal.rs`, end of `replay`; `journal/writer.rs`, `seek`). Its blocks are from then on
not aligned with the blocks of the file: the first one it writes overwrites the
checksum of the block it started in. The next mount finds that checksum bad and stops
before the block. What was recovered from it, and everything committed and synced
after the first mount, is lost. `test_reset` means to cover this situation ("leave the
filesystem with a half finished transaction that cannot be replayed") but does not
reach it, because dropping `OpenFxFilesystem` in `take_device` closes the file system,
which syncs and pads the journal. The shortest run:
of two transactions the first is written, and the beginning of the second in the same
block; crash; a mount recovers the first; `sync` pads the journal, its write is under
way; crash; the first is not found. With a third transaction committed and synced
after the mount, that one is lost too.

### Counterexamples kept as configurations

These are not among the runs; `tlc -config <file> <module>` shows each of them. Every
one checks a single property and violates it.

* `Channel_rearm.cfg` (`KillOnlyOnContractViolation`): `ChannelDispatcher::Call` arms the thread's waiter and then
  compares the owner; if the handle has moved to another process meanwhile it
  returns `ZX_ERR_BAD_HANDLE` without `EndWait`. The waiter stays armed, and the
  thread's next `zx_channel_call` fails in `BeginWait`, which kills the process
  for a violation of the vDSO's retry contract that did not happen. The
  shortest run: one thread starts a call, the handle is sent to the other
  process, the call fails, the thread calls again.
* `Port_edge.cfg` (`EdgeNeedsTransition`): `UpdateStateLocked` does not know which observers are
  edge-triggered. One that was registered while its signal was active is
  matched by the next change of any other signal of the object, although
  `docs/reference/syscalls/object_wait_async.md` says that only a transition of
  its own signals enqueues a packet.
* `Interrupt_vcpu_lock.cfg` (`NoLockCycle`): `BindVcpu` calls `UnregisterInterruptHandler` with
  `spinlock_` held, which the comment in `Destroy` explains one must not do: a
  CPU that has taken the platform's lock for this interrupt waits for the
  spinlock meanwhile.
* `Interrupt_two_waiters.cfg` (`WaitIsAborted`): a suspended waiter takes the `WAITING` of another
  thread for its own and resets it; a further wait is let in, and `Destroy` wakes
  one of the two.
* `LockManager_circle.cfg` (`NoCircularWait`): a commit has the file-system lock for
  reading and awaits `pre_commit`, which has to extend the journal and asks for that lock
  again; fsck has asked to write-lock it in between, so the second request waits for fsck
  and fsck for the first. Another circle is closed by a cache flush, which holds its
  transaction lock and asks for the file-system lock while fsck waits for a transaction
  that wants the key of the cache flush. `CircleOnlyByLateLock`, in the runs, says that in
  every circle somebody asks for the file-system lock late, in one of these two ways, and
  fsck waits for the readers of that lock.
* `FxCompaction_unopened.cfg` (`StoresOpenedAfterReplay`): a compaction that starts after
  a mount, before a volume with replayed mutations has been opened, flushes that volume
  and finds no `StoreInfo` (`object_store.rs`, `store_info`, panics). The comment in
  `object_manager.rs` says that stores "will get properly opened once we finish replaying
  the journal".
* `FxJournal_comeback.cfg` (`NothingComesBack`): a mount restarts the stream with a block
  whose checksum is seeded with `RESET_XOR` and the block before. If `sync` pads that block
  when it has nothing but the records of `pre_commit` in it, the next mount, should it start
  at the same place, may write exactly the same block. A transaction that followed the first
  of them, and that the crash in between had lost because this block had not reached the
  device, is then found behind the second. The run has three crashes; each of the two mounts
  in question starts a transaction, syncs inside the commit and crashes.
* `FxFlushTask_failure.cfg` (`FailureIsReported`): when the flush of the journal fails, the
  task sets `terminate` and does not call `sync_waker`; a caller inside `flush_device`,
  which would return `JournalFlushError` if it were polled, is not. Waiters of
  `reclaim_event` are left behind in the same way, also by `stop_compactions` when no
  compaction is running: this is why the liveness properties except these cases.

The properties of `interrupt_delivery` hold only without certain calls, and that
is a statement about the code too:

* `unbind` is left out, because a trigger held back in `NEEDACK` is known to `Ack`
  only: after unbind, a wait goes to `WAITING` without looking at `timestamp_`, and
  the trigger is lost (`NoLostTrigger`). Besides, `Bind` turns a `TRIGGERED`
  interrupt into a packet and leaves `event_` signaled; a wait after the unbind
  falls through it with `ZX_ERR_BAD_STATE` and leaves `WAITING` behind.
* Timestamp 0 is left out, because a trigger with it leaves no trace in
  `NEEDACK` (`NoLostTrigger`).
* `bind_vcpu` is left out, because between the unregistration in `Destroy` and its
  change of state it registers a handler that stays on the line of a freed object
  (`NothingOutlives`), and because `HasVcpu` is never overridden, so that an
  interrupt can be bound to a VCPU and a port, or to a VCPU and waited for.
* A second waiter is left out because of `Interrupt_two_waiters.cfg`.

Adding the call, or 0 to `Stamps`, to `Interrupt_delivery.cfg` gives the
counterexample.

## 4. Theorems

Checked by TLAPS for every value of the constants that satisfies the `ASSUME`
of the module (types of the constants, and reserved values that are not members
of the sets they are compared with).

`ChannelProofs`. `TypeInv` is `TypeOK` and that a thread in a syscall holds a
reference. The properties are not inductive by themselves: that a waiter's
status is exact depends on where its thread is, on which channel it is armed
for, and on which lists it can be. `SafetyInv` collects these facts (a listed
waiter is armed for that endpoint and unanswered; an unanswered waiter of a
waiting thread is listed; a dead end has no waiters; slots, txids, signals
agree) and `IInv` is both; TLC checked it before the proof. The proof has one
step per action. From it follow `TimeoutsAreExact`, `ListedWaitersAreArmed`,
`CloseReleasesCalls`, `TxidsAreUnique`, `RepliesAreRouted`, `SignalsAreExact` and,
as an action property, `OwnershipIsRespected`. `MessagesAreConserved` needs more than its
property, which says that a message that was written is in one place: it could be there
twice, and taking it out once would leave it behind. `PlacesInv` adds that the messages
of a queue, and those in the threads' hands, are distinct.

`PortProofs`. Lemmas about appending to, popping from and erasing in a list
whose elements are distinct; `TypeCorrect`; then the life of an observer.
`ObserverInv` has eight parts: in which call a thread is at each place
(`ControlInv`), which object's lock goes with it (`LockInv`), who can hold the
port's lock (`PortLockInv`), that the port closes once and that nothing enters
it afterwards (`CloseInv`), the queue (`QueueInv`), the objects' lists
(`WatchInv`), the observers in hand (`HeldInv`), and who will delete what
(`DestroyerInv`). The heart is `HeldInv` with `LockInv`: an observer in the hand
of `OnMatch` or `OnCancel` is live because its object's lock is held, and
`on_zero_handles` needs that lock before it deletes. One lemma per action; those
that touch no observer share `InvQuiet`. From it follow `ObserversAreValid`,
`ObserversHaveOneDestroyer` and `ClosedPortsAreEmpty`.

On top of these invariants there are four theorems about delivery. `LevelsAreNeverMissed`
needs to know where an object's lock can be held at all, and that a thread has one such
lock (`HoldsInv`); then a level-triggered wait is pending on an active signal only while a
signal change has the lock (`LevelInv`). `CanceledWaitsAreSilent`: the waits that
`zx_port_cancel` stops are off their object's list, and in nobody's hand, when it comes to
the packet queue (`StopInv`), and nothing can queue them after that (`CanceledInv`).
`EphemeralsAreCounted`: `num_ephemeral_packets_` is the number of user packets in the queue;
the set has to be finite for its cardinality to say anything, which `CountInv` carries
along. `WakeupsAreNotLost`: the semaphore's count, with the threads on
their way to take one or to make one, is enough for what is queued (`EnoughCounts`), and
nobody sleeps while there is a count (`WakeInv`); the steps are arithmetic with
cardinalities, in lemmas about adding and removing one thread.

`InterruptProofs`. That `DESTROYED` is final cannot be seen from the state alone,
since `InterruptHandler` overwrites it without a test. `LineInv` says what prevents
it: the handler a CPU is in is the one registered, and the host's handler is off
the line in every `DESTROYED` interrupt, in every thread past the unregistration in
`Destroy`, and in every interrupt with a VCPU. `SpinInv` says that a thread inside
`BindVcpu` has the spinlock and that the guest's handler is registered only with a
`vcpu_` or while that thread is about to set it. With `TypeOK`, `BoundNeverWaits` and
`QueuedMeansBound` they are inductive; the proof has one step per action. From it
follow `PacketSafe`, `BoundStates`, `VcpuOwnsLine` and, as action properties,
`DestroyedStays` and `VcpuPresent`.

The theorems about delivery have the hypotheses that the counterexamples of section 3
make necessary, and each only its own; `CallInv` carries them to the places inside a call.
`TriggersAreSeen` (no `unbind`, no timestamp 0) finds `NoLostTrigger` inductive with the rest.
`DestroyLeavesNothing` (no `bind_vcpu`) adds that once the last handle is closed somebody is
in `Destroy` until the handler is off the line and until the state is `DESTROYED`
(`ClosedInv`). `WaiterIsWoken` (a single waiter) adds that a waiter sleeps only while
`WAITING` and unsignaled, and that for one on its way to sleep the event is there as soon as
the state is no longer `WAITING` (`SleepInv`). `MaskedForAReason` has no hypothesis: `MaskInv`
says why the line is masked, with the cases apart in which a wait and an ack unmask it. It
rests on an assumption about the constants, that `MASK_POSTWAIT` comes with `UNMASK_PREWAIT`,
as it does wherever the code sets these flags (`interrupt_event_dispatcher.cc`,
`msi_dispatcher.cc`; PCI and virtual interrupts do not set the first).

`FxFlushTaskProofs`. The task sleeps until its waker is called, so that it never
oversleeps depends on the waker being in place whenever somebody makes work for it.
`IInv` says so part by part: while the task is between polls and unwoken its waker is
in `flush_waker` (`Armed`), and there is no buffer to start, no finished write to collect,
no request to stop, and no compaction that could go on (`NothingToStart`, `NothingToCollect`,
`NothingToStop`, `NothingToContinue`); these facts are also kept for the part of a turn
that has been passed while the task is in the middle of it. `AsleepIsPending` says that
the task goes to sleep only in a turn in which neither future was ready,
`GoneMeansDone` what a finished task leaves, `Offsets` that flushed, taken and written
offsets are in this order, `SyncedIsFlushed` and `ClosedMeansGone` carry the rest. There is
one lemma for each group of parts, with one step per action. From `Invariance` follow
`NeverOversleeps`, `CloseIsClean` and, as an action
property, `FlushedOffsetGrows`, for any number of writers and callers of `sync`.

`FxCompactionProofs`. The journal alone determines what an object must hold: a mutation is
in a layer file once a `BeginFlush` and an `EndFlush` of its object follow it, is sealed once a
`BeginFlush` does, and is in the mutable layer until then (`LayersIn`, `SealedIn`, `MutableIn`).
A running system computes this (`MountedInv`), and so does a replay, of the part it has read
and from the offsets of its super-block (`ReplayInv`); `LogInv` says that an `EndFlush` records
what the journal before it says is flushed. A super-block is `Sound` if it lies within the
durable part, nothing it needs is trimmed, and what it leaves out is in layer files. Crashes
are met by `CopiesInv`: while the copy written last may be torn or lost, the other one is
sound, not trimmed, and newer than what else the crash may leave; after the crash, the
newer copy is sound (`CrashedInv`). That the copy to be overwritten is never the one that
would be needed rests on `CompactionInv`: a super-block is written only when the device has
been flushed since the one before. One lemma per action. From `Invariance` follow
`TypeCorrect`, `MutationsSurvive`, `CountsSurvive` and `SuperBlockSuffices`, for any number of
transactions, compactions and crashes, those during a replay included.

`LockManagerProofs`. The properties need each other: that a write lock is exclusive rests
on the count of readers, the count on which guards a dropped future leaves, and that a
sleeping task will be found on who can overwrite its waker. `IInv` puts together
`TypeOK`; `Shapes`, where in its program a task can be and with what in its guards, in
particular that what a transaction has got is below what it still wants; `Table`, each
entry against the tasks that hold its key; `Upgraded`, that an upgraded lock stays a write
lock; `Sequences`, that an entry's number is new, so that a future cannot mistake an
entry for the one it left its waker in; `OwnSlots`, that the slot it would overwrite is
its own; and `Asleep`, that a task nobody has woken has its latest waker in the entry that
blocks it. A poll touches one entry and one task, and one lemma (`KeyStep`) says what such
a step has to respect; giving locks back touches many entries and wakes many tasks, and
has a lemma of its own (`DropStep`). From `Inductive` follow `TableSafe`, `ExclusiveSafe` and
`WakeupSafe`. For circles a second invariant is needed, `CInv`, about calls: what a task that
another one awaits can be doing (`Called`), in particular that the caller's own lock never
blocks a read inside the call, because before its commit a transaction lets readers pass
(`LetsPass`); that whoever has `commit_mutex` is applying its transaction (`MutexHeld`); and
that only the transaction of `pre_commit` has the journal's key, which it never upgrades,
and no transaction a store's (`JournalLast`). `NestedCalls` proves `IInv /\ CInv`, and `CircleSafe` argues from it. In a
circle nobody waits for readers of an object, a layer or the journal: layers are never
locked, so their readers get on, and a reader of anything else waits, if at all, for a
layer. Nobody in it just holds locks either: that could only be fsck, waiting for a store,
and whoever has a store gets on. Without a late lock nobody in the circle has the commit
mutex, so nobody waits for it or for a commit. What is left are transactions at their
keys, each waiting for one with a greater key, and the finite set of keys has a greatest
one. With a late lock, whoever has the file-system lock in its write guard is still
waiting for it.

`FxJournalRecovery` and `FxJournalProofs`. Induction over the contents of the journal is avoided by carrying them
along: `Inv` asserts that there is a stream `u` of units, restarted at the offsets `R`, and
a function `tr` with what `replay` makes of every prefix of it (`IsStream`), and each action
says how these grow; a record that is appended adds its readers (`AppendRecord`). Every
block that replay would follow is a piece of this one stream (`IsChain`), and every other
block that a crash may leave is torn or cannot be its continuation (`DiskInv`): the block at
which the present mount has started because its predecessor, with that mark, is not the one
it was seeded with (`Follows`), the ones behind it because the first block of the mount
contains a mutation newer than anything in them (`Marked`, `IsOlder`). This is where
`~bare_restart` is needed. `History` says of each block boundary up to the start of the
present mount what a replay that ends there would recover, also for crashes that take the
journal back to it: transactions that a crash has lost are behind one whose data is lost
for good (`Barred`), or are not there. `Timeline` says of each offset since then that
replay has exactly the transactions that end before it. `DurableInv` and `SyncInv` say
which of it no crash can take away, for the last sync and for the one under way; `ReuseInv`
that a block is given out again only when the transaction that freed it is durable and
replay will know it; `Tidy` that therefore the dependency of a data checksum, of which
`ChecksumList` records one, is the right one. After a crash, `Chained` has the blocks that
survived, and `Recoverable` an offset at which verification can end: everything synced is
before it, and the data is there. `VerifyInv` says that `verify` rules out every offset
behind the one it has come to, so it stops at that one or later, and what it accepts is a
prefix of the log (`UpperOK`). A mount inside a block leaves the stream as it is: `Frozen`
has what is still true, which is that no transaction appears that was not committed.
One lemma per action (`...Keeps`; those of a mount, its replay and a crash are in
`FxJournalRecovery`) shows that `Inv` is kept, up to a step that sets
`bare_restart`; `JournalInvariant` puts them together. From it follow `DataStaysIntact`,
`NothingLostComesBack`, `SyncedIsFound` and `JournalImplementsDurableLog`, for any files,
blocks, sizes of blocks and mutations, and any number of transactions and crashes. The
first three have `bare_restart` as a disjunct, `SyncedIsFound` also `mid_block`; both are
necessary for what they exempt (`FxJournal_comeback.cfg`, `fxjournal_reset`), except that
`fxjournal_safety` finds `DataIntact` to hold in its instance with `bare_restart` as well. The
refinement has no hypothesis, because the abstract specification is told of both.

Only model-checked: all liveness (`ClosedCallReturns`, `KilledThreadExits`, `CallsReturn`,
`SyncReturns`, `SpaceIsReclaimed`, `CloseReturns`), which with fairness and `ENABLED` is
outside what the prover supports, and `DataIntact` where `bare_restart` is set.

## 5. Not modelled

`PROJECT.json` lists every part with its status. In the kernel: futexes, timers,
`wait_one` and `wait_many`, sockets and FIFOs, the life cycle of tasks, transfer of
handles through messages, `CancelQueued(PortPacket*)`. In fxfs: the merge of layers,
directories, the cache of dirty pages and its reservations, the graveyard, encryption,
fsck, the FIDL server, the reservation of metadata space. `CircleOnlyByLateLock` counts waits
for lock keys, awaited functions and `commit_mutex`; it does not count waits for the other
mutexes (`writer_mutex`, which `write_super_block` keeps while `SuperBlockWriter` may commit a
transaction that takes it again, `journal.rs` 759 and 934, `super_block.rs` 276-300;
`sync_mutex`; the allocator's `allocation_mutex`), for a placeholder of the node cache, for
journal space or for a reservation. Virtual memory and the
scheduler are systems of their own; so are the component framework, the network stack
and the drivers. The tools, the SDK and generated bindings, most of the repository's
lines, have no concurrent state that a model checker would help with.

## 6. Plan

In this order:

1. The writeback cache: reservations of dirty bytes while a flush is under way.
2. `Futex`: pool, references and requeue; `Timer`: set, cancel and fire around the DPC.
3. `Interrupt` composed with the interrupt queue and semaphore of `Port`.
