---------------------------- MODULE LockManager ----------------------------
(***************************************************************************)
(* The lock manager of fxfs (src/storage/fxfs/src/object_store/            *)
(* transaction.rs) and the ways the filesystem uses it.  A lock key has no *)
(* entry, or an entry that is read-locked, locked by a transaction (reads  *)
(* still pass), wanted for writing (new readers wait) or write-locked.     *)
(* A request is a future: it makes progress only when polled, and a poll   *)
(* that finds the key taken leaves a waker behind in the entry.  Futures   *)
(* may be polled without having been woken, from another context (another  *)
(* waker), and may be dropped at any time while they wait.                 *)
(*                                                                         *)
(* Code that holds locks awaits functions that take further ones.  Such an *)
(* inner function is a frame of its own: it runs as one of Tasks, and its  *)
(* caller, which keeps what it holds, does nothing until it has returned.  *)
(***************************************************************************)
EXTENDS Naturals, FiniteSets, Sequences

CONSTANTS
    Tasks,        \* async functions that use the filesystem
    NoTask,       \* nobody
    Objects,      \* lock keys of objects and attributes, ordered as LockKey is
    Stores,       \* those of the objects that are stores: no transaction locks them
    Layers,       \* attributes in the root store that are only read: the layer files
                  \* of volumes and of the allocator, store and allocator infos
    RootLayers,   \* attributes of the layer files of the root store
    Journal,      \* the attribute of the journal file
    Filesystem,   \* LockKey::Filesystem
    Requests,     \* the sets of object keys that transactions ask for
    MaxCalls,     \* how many programs one task runs, nested ones included
    MaxRepoll     \* how often a waiting future moves to another waker

TxnKeys == Objects \cup {Journal}
ReadOnly == Layers \cup RootLayers
Keys == TxnKeys \cup ReadOnly \cup {Filesystem}

ASSUME KeysAssumption == /\ Keys \subseteq Nat
                         /\ IsFiniteSet(Keys)
                         /\ Filesystem \notin TxnKeys \cup ReadOnly
                         /\ TxnKeys \cap ReadOnly = {}
                         /\ Layers \cap RootLayers = {}
                         /\ Journal \notin Objects
                         /\ Stores \subseteq Objects
                         /\ Requests \subseteq SUBSET (Objects \ Stores)
ASSUME BoundsAssumption == /\ IsFiniteSet(Tasks)
                           /\ NoTask \notin Tasks
                           /\ MaxCalls \in Nat
                           /\ MaxRepoll \in Nat

VARIABLES
    keys,       \* Locks::keys, Vacant where the map has no entry
    sequence,   \* Locks::sequence
    task,       \* each task's program counter and the locals of lock()
    reads,      \* keys in the task's ReadGuard or Transaction::read_locks
    writes,     \* keys in the task's WriteGuard or Transaction::txn_locks
    awake,      \* the task's current waker has been woken since its last poll
    calls,      \* programs the task may still start
    caller,     \* the task that awaits this one, if it is a nested call
    commit_mutex  \* the task that holds Journal::commit_mutex

vars == <<keys, sequence, task, reads, writes, awake, calls, caller, commit_mutex>>

Vacant == [state |-> "Vacant"]
NoWaker == [task |-> "none", poll |-> 0]

Waker == [task : Tasks, poll : 0 .. MaxRepoll]
TargetState == {"ReadLock", "Locked", "WriteLock"}
LockEntry == [sequence : Nat, read_count : Nat,
              state : TargetState \cup {"WantWrite"},
              waker : Waker \cup {NoWaker}, wakers : Seq(Waker)]

\* One lock() call: the kind of lock and the keys still to be acquired.
Stage == [target_state : TargetState, lock_keys : SUBSET Keys]

(***************************************************************************)
(* What callers start with.  new_transaction locks the filesystem for      *)
(* reading and then its own keys, if it has any; the cache flush takes its *)
(* attribute's key with transaction_lock and the filesystem lock           *)
(* afterwards, in new_transaction_with_locks; lookup, read and readdir     *)
(* take a read lock (the flush task one of the journal file, to complete a *)
(* block it writes), ObjectStore::open and fsck a write lock.  (Objects    *)
(* other than stores may be write-locked too: nobody does so at present,   *)
(* but the table allows it.  The cached_write lock around a cached write   *)
(* or flush is left out: it is always the first lock a task asks for, so   *)
(* whoever waits for it holds nothing.)                                    *)
(***************************************************************************)
ReadStage(S) == [target_state |-> "ReadLock", lock_keys |-> S]
TxnStage(S) == [target_state |-> "Locked", lock_keys |-> S]
WriteStage(S) == [target_state |-> "WriteLock", lock_keys |-> S]

NewTransaction(S) ==
    IF S = {} THEN <<ReadStage({Filesystem})>>
    ELSE <<ReadStage({Filesystem}), TxnStage(S)>>
TransactionWithLocks(k) == <<TxnStage({k}), ReadStage({Filesystem})>>

\* Keys taken in the order in which the caller names them.
UnsortedTransactions ==
    {<<ReadStage({Filesystem}), TxnStage({p[1]}), TxnStage({p[2]})>> :
       p \in {q \in (UNION Requests) \X (UNION Requests) : q[1] # q[2]}}

SortedTransactions == {NewTransaction(S) : S \in Requests}

Transactions == SortedTransactions \cup {TransactionWithLocks(k) : k \in Objects \ Stores}
Guards == {<<ReadStage({k})>> : k \in TxnKeys}
            \cup {<<WriteStage({k})>> : k \in Objects \cup {Filesystem}}

Idle == [pc |-> "idle", stages |-> <<>>, txn |-> FALSE, upgraded |-> {},
         want_write |-> FALSE, waker_sequence |-> 0, waker_index |-> 0, poll |-> 0]

TaskState == [pc : {"idle", "locking", "holding", "preparing", "committing", "applying",
                    "committed", "dropping"},
              stages : Seq(Stage), txn : BOOLEAN, upgraded : SUBSET Keys,
              want_write : BOOLEAN, waker_sequence : Nat, waker_index : Nat,
              poll : 0 .. MaxRepoll]

TypeOK ==
    /\ keys \in [Keys -> LockEntry \cup {Vacant}]
    /\ sequence \in Nat
    /\ task \in [Tasks -> TaskState]
    /\ reads \in [Tasks -> SUBSET Keys]
    /\ writes \in [Tasks -> SUBSET Keys]
    /\ awake \in [Tasks -> BOOLEAN]
    /\ calls \in [Tasks -> 0 .. MaxCalls]
    /\ caller \in [Tasks -> Tasks \cup {NoTask}]
    /\ commit_mutex \in Tasks \cup {NoTask}

Init ==
    /\ keys = [k \in Keys |-> Vacant]
    /\ sequence = 0
    /\ task = [t \in Tasks |-> Idle]
    /\ reads = [t \in Tasks |-> {}]
    /\ writes = [t \in Tasks |-> {}]
    /\ awake = [t \in Tasks |-> FALSE]
    /\ calls = [t \in Tasks |-> MaxCalls]
    /\ caller = [t \in Tasks |-> NoTask]
    /\ commit_mutex = NoTask

-----------------------------------------------------------------------------

First(S) == CHOOSE k \in S : \A j \in S : k <= j

CurrentWaker(t) == [task |-> t, poll |-> task[t].poll]

Wake(W) == [t \in Tasks |-> awake[t] \/ CurrentWaker(t) \in W]

\* The state the current lock() call asks for, and the key it is at: the keys
\* of a call are sorted.
Target(t) == Head(task[t].stages).target_state
Key(t) == First(Head(task[t].stages).lock_keys)

Locking(t) == task[t].pc = "locking"

\* The locals of lock() for the next key of the loop.
NextKey(r) == [r EXCEPT !.want_write = FALSE, !.waker_sequence = 0, !.waker_index = 0]

\* The program after key k has been acquired: on to the next key, the next
\* lock() call, or past the last one.
Acquired(r, k) ==
    LET rest == [Head(r.stages) EXCEPT !.lock_keys = @ \ {k}]
        stages == IF rest.lock_keys = {} THEN Tail(r.stages)
                                         ELSE <<rest>> \o Tail(r.stages)
    IN  NextKey([r EXCEPT !.stages = stages,
                          !.pc = IF stages = <<>> THEN "holding" ELSE "locking"])

\* The key goes into the guard of the lock() call.
Push(t, k) ==
    IF Target(t) = "ReadLock"
    THEN /\ reads' = [reads EXCEPT ![t] = @ \cup {k}]
         /\ UNCHANGED writes
    ELSE /\ writes' = [writes EXCEPT ![t] = @ \cup {k}]
         /\ UNCHANGED reads

Start(t, txn, stages) ==
    /\ task[t].pc = "idle"
    /\ calls[t] > 0
    /\ task' = [task EXCEPT ![t] = [Idle EXCEPT !.pc = "locking", !.stages = stages,
                                               !.txn = txn]]
    /\ calls' = [calls EXCEPT ![t] = @ - 1]
    /\ awake' = [awake EXCEPT ![t] = TRUE]
    /\ UNCHANGED <<keys, sequence, reads, writes, commit_mutex>>

Begin(t) ==
    /\ \E txn \in BOOLEAN : \E stages \in IF txn THEN Transactions ELSE Guards :
         Start(t, txn, stages)
    /\ UNCHANGED caller

-----------------------------------------------------------------------------
(* What callers do with locks held.                                        *)

\* Task t awaits nobody.
Running(t) == \A u \in Tasks : caller[u] # t

\* Task t awaits task u, which runs a program for it.
Call(t, u, txn, stages) ==
    /\ Start(u, txn, stages)
    /\ caller' = [caller EXCEPT ![u] = t]

(***************************************************************************)
(* What task t may read.  Whatever it holds, it looks records up in the    *)
(* trees of its store, whose layer files are attributes of the root store; *)
(* their extents are in the trees of the root store, whose layer files are *)
(* attributes of the root parent store, which has none.  Store and         *)
(* allocator infos are read in the same way.  None of these is locked by a *)
(* transaction while it can be read: DirectWriter has finished with a      *)
(* layer file before the file becomes a layer, infos are written and old   *)
(* layer files are removed by transactions that lock nothing.  And a       *)
(* transaction that writes part of a block reads the rest of it with its   *)
(* own lock of the attribute held (align_buffer).                          *)
(***************************************************************************)
NestedReads(t) ==
    {k \in Keys : \/ k \in RootLayers /\ reads[t] \cap RootLayers = {}
                  \/ k \in Layers /\ reads[t] \cap ReadOnly = {}
                  \/ k \in writes[t] /\ task[t].txn}

ReadNested(t, u) ==
    /\ task[t].pc = "holding"
    /\ \E k \in NestedReads(t) : Call(t, u, FALSE, <<ReadStage({k})>>)

\* fsck opens every store, with the filesystem lock held.
OpenStore(t, u) ==
    /\ task[t].pc = "holding" /\ Filesystem \in writes[t]
    /\ \E k \in Stores : Call(t, u, FALSE, <<WriteStage({k})>>)

\* pre_commit extends or trims the journal file in a transaction of its own,
\* inside the commit of another one, which has the filesystem lock already.
PreCommit(t, u) ==
    /\ task[t].pc = "applying"
    /\ Call(t, u, TRUE, NewTransaction({Journal}))

-----------------------------------------------------------------------------

\* A poll by the executor of a woken task, or a poll nobody asked for, which
\* comes with another waker.
Polled(t, g) ==
    \/ awake[t] /\ g = task[t].poll
    \/ g = task[t].poll + 1 /\ g <= MaxRepoll

(***************************************************************************)
(* lock(), one poll of the poll_fn of the current key.  The mutex over the *)
(* table is held during the poll only.                                     *)
(***************************************************************************)
PollVacant(t, g) ==
    LET k == Key(t) IN
    /\ keys[k] = Vacant
    /\ sequence' = sequence + 1
    /\ keys' = [keys EXCEPT ![k] =
                  [sequence |-> sequence + 1,
                   read_count |-> IF Target(t) = "ReadLock" THEN 1 ELSE 0,
                   state |-> Target(t), waker |-> NoWaker, wakers |-> <<>>]]
    /\ Push(t, k)
    /\ task' = [task EXCEPT ![t] = Acquired([@ EXCEPT !.poll = g], k)]
    /\ awake' = [awake EXCEPT ![t] = TRUE]

\* A writer waits for the readers that came before it.
NoReaders(k) == FALSE
HasReaders(k) == keys[k].read_count > 0

PollWantWrite(t, g) ==
    LET k == Key(t) IN
    /\ keys[k] # Vacant
    /\ task[t].want_write
    /\ IF HasReaders(k)
       THEN /\ keys' = [keys EXCEPT ![k].state = "WantWrite",
                                    ![k].waker = [task |-> t, poll |-> g]]
            /\ task' = [task EXCEPT ![t].poll = g]
            /\ awake' = [awake EXCEPT ![t] = FALSE]
       ELSE /\ keys' = [keys EXCEPT ![k].state = "WriteLock", ![k].waker = NoWaker]
            /\ task' = [task EXCEPT ![t] = Acquired([@ EXCEPT !.poll = g], k)]
            /\ awake' = [awake EXCEPT ![t] = TRUE]
    /\ UNCHANGED <<sequence, reads, writes>>

StartWantWrite(t, g) ==
    LET k == Key(t) IN
    /\ keys[k].state = "ReadLock" /\ Target(t) = "WriteLock"
    /\ keys' = [keys EXCEPT ![k].state = "WantWrite",
                            ![k].waker = [task |-> t, poll |-> g]]
    /\ Push(t, k)
    /\ task' = [task EXCEPT ![t].want_write = TRUE, ![t].poll = g]
    /\ awake' = [awake EXCEPT ![t] = FALSE]
    /\ UNCHANGED sequence

PollShared(t, g) ==
    LET k == Key(t) IN
    /\ \/ keys[k].state = "ReadLock" /\ Target(t) # "WriteLock"
       \/ keys[k].state = "Locked" /\ Target(t) = "ReadLock"
    /\ keys' = IF Target(t) = "ReadLock"
               THEN [keys EXCEPT ![k].read_count = @ + 1]
               ELSE [keys EXCEPT ![k].state = Target(t)]
    /\ Push(t, k)
    /\ task' = [task EXCEPT ![t] = Acquired([@ EXCEPT !.poll = g], k)]
    /\ awake' = [awake EXCEPT ![t] = TRUE]
    /\ UNCHANGED sequence

\* The waker replaces the one this poll_fn registered before if the entry is
\* still the one it was registered with; it is appended otherwise.
Wait(t, g) ==
    LET k == Key(t)
        w == [task |-> t, poll |-> g]
    IN
    /\ keys[k] # Vacant /\ ~task[t].want_write
    /\ \/ keys[k].state \in {"WantWrite", "WriteLock"}
       \/ keys[k].state = "Locked" /\ Target(t) # "ReadLock"
    /\ IF keys[k].sequence = task[t].waker_sequence
       THEN /\ keys' = [keys EXCEPT ![k].wakers[task[t].waker_index] = w]
            /\ task' = [task EXCEPT ![t].poll = g]
       ELSE /\ keys' = [keys EXCEPT ![k].wakers = Append(@, w)]
            /\ task' = [task EXCEPT ![t].poll = g,
                                    ![t].waker_sequence = sequence,
                                    ![t].waker_index = Len(keys[k].wakers) + 1]
    /\ awake' = [awake EXCEPT ![t] = FALSE]
    /\ UNCHANGED <<sequence, reads, writes>>

Lock(t, g) ==
    /\ Locking(t)
    /\ Polled(t, g)
    /\ PollVacant(t, g) \/ PollWantWrite(t, g) \/ StartWantWrite(t, g)
         \/ PollShared(t, g) \/ Wait(t, g)
    /\ UNCHANGED <<calls, caller, commit_mutex>>

-----------------------------------------------------------------------------

\* Commit: the locks of the transaction are upgraded one by one.  pre_commit
\* applies its transaction without.
Commit(t) ==
    /\ task[t].pc = "holding" /\ task[t].txn /\ caller[t] = NoTask
    /\ task' = [task EXCEPT ![t].pc = IF writes[t] = {} THEN "committing" ELSE "preparing"]
    /\ awake' = [awake EXCEPT ![t] = TRUE]
    /\ UNCHANGED <<keys, sequence, reads, writes, calls, caller, commit_mutex>>

\* commit_prepare, one poll for the current lock.
CommitPrepare(t, g) ==
    LET k == First(writes[t] \ task[t].upgraded)
        upgraded == task[t].upgraded \cup {k}
    IN
    /\ task[t].pc = "preparing"
    /\ Polled(t, g)
    /\ IF HasReaders(k)
       THEN /\ keys' = [keys EXCEPT ![k].state = "WantWrite",
                                    ![k].waker = [task |-> t, poll |-> g]]
            /\ task' = [task EXCEPT ![t].poll = g]
            /\ awake' = [awake EXCEPT ![t] = FALSE]
       ELSE /\ keys' = [keys EXCEPT ![k].state = "WriteLock", ![k].waker = NoWaker]
            /\ task' = [task EXCEPT ![t].poll = g, ![t].upgraded = upgraded,
                                    ![t].pc = IF upgraded = writes[t]
                                              THEN "committing" ELSE @]
            /\ awake' = [awake EXCEPT ![t] = TRUE]
    /\ UNCHANGED <<sequence, reads, writes, calls, caller, commit_mutex>>

\* Journal::commit, one transaction at a time: from the commit mutex to the
\* return of write_and_apply_mutations, or of pre_commit with an error.  An empty
\* transaction returns at once and is dropped.
LockCommitMutex(t) ==
    /\ task[t].pc = "committing" /\ commit_mutex = NoTask
    /\ commit_mutex' = t
    /\ task' = [task EXCEPT ![t].pc = "applying"]
    /\ UNCHANGED <<keys, sequence, reads, writes, awake, calls, caller>>

Applied(t) ==
    /\ task[t].pc = "applying"
    /\ commit_mutex' = NoTask
    /\ task' = [task EXCEPT ![t].pc = "committed"]
    /\ UNCHANGED <<keys, sequence, reads, writes, awake, calls, caller>>

-----------------------------------------------------------------------------

\* The entries of S that drop_write_locks leaves to their readers.
LeftToNobody(S) == {}
LeftToReaders(S) ==
    {k \in S : keys[k].state \in {"Locked", "WantWrite"} /\ keys[k].read_count > 0}

DropWriteLocks(S) ==
    [k \in Keys |->
       IF k \notin S THEN keys[k]
       ELSE IF k \in LeftToReaders(S)
       THEN [keys[k] EXCEPT !.state = "ReadLock", !.waker = NoWaker, !.wakers = <<>>,
               !.sequence = sequence + Cardinality({j \in LeftToReaders(S) : j <= k})]
       ELSE Vacant]

WakersOf(k) == {keys[k].wakers[i] : i \in DOMAIN keys[k].wakers}
WokenByRemoval(S) == UNION {WakersOf(k) : k \in S \ LeftToReaders(S)}
WokenByWriter(S) == UNION {WakersOf(k) : k \in S}

DropReadLocks(table, S) ==
    [k \in Keys |->
       IF k \notin S THEN table[k]
       ELSE IF table[k].read_count = 1 /\ table[k].state = "ReadLock" THEN Vacant
       ELSE [table[k] EXCEPT !.read_count = @ - 1]]

WokenByReader(table, S) ==
    {table[k].waker : k \in {j \in S : table[j].read_count = 1
                                         /\ table[j].state = "WantWrite"}}

\* The transaction is dropped, after its commit or without one:
\* drop_transaction gives both kinds of locks back under one mutex.
DropTransaction(t) ==
    LET table == DropWriteLocks(writes[t]) IN
    /\ task[t].txn /\ task[t].pc \in {"holding", "preparing", "committing", "committed"}
    /\ keys' = DropReadLocks(table, reads[t])
    /\ sequence' = sequence + Cardinality(LeftToReaders(writes[t]))
    /\ awake' = [Wake(WokenByWriter(writes[t]) \cup WokenByReader(table, reads[t]))
                   EXCEPT ![t] = FALSE]
    /\ task' = [task EXCEPT ![t] = Idle]
    /\ reads' = [reads EXCEPT ![t] = {}]
    /\ writes' = [writes EXCEPT ![t] = {}]
    /\ caller' = [caller EXCEPT ![t] = NoTask]
    /\ UNCHANGED <<calls, commit_mutex>>

\* The guards of a task are dropped one after the other, each under the mutex.
Dropping(t) ==
    /\ task' = [task EXCEPT ![t] = [Idle EXCEPT !.pc = "dropping"]]
    /\ awake' = [awake EXCEPT ![t] = FALSE]
    /\ UNCHANGED <<keys, sequence, reads, writes, calls, caller, commit_mutex>>

\* A lock() future, or the new() around it, is dropped while it waits.
Cancel(t) == Locking(t) /\ Dropping(t)

\* The holder of a plain guard is done with it.
Release(t) == task[t].pc = "holding" /\ ~task[t].txn /\ Dropping(t)

DropWriteGuard(t) ==
    /\ task[t].pc = "dropping" /\ writes[t] # {}
    /\ keys' = DropWriteLocks(writes[t])
    /\ sequence' = sequence + Cardinality(LeftToReaders(writes[t]))
    /\ awake' = Wake(WokenByWriter(writes[t]))
    /\ writes' = [writes EXCEPT ![t] = {}]
    /\ UNCHANGED <<task, reads, calls, caller, commit_mutex>>

DropReadGuard(t) ==
    /\ task[t].pc = "dropping" /\ reads[t] # {}
    /\ keys' = DropReadLocks(keys, reads[t])
    /\ awake' = Wake(WokenByReader(keys, reads[t]))
    /\ reads' = [reads EXCEPT ![t] = {}]
    /\ UNCHANGED <<sequence, task, writes, calls, caller, commit_mutex>>

Dropped(t) ==
    /\ task[t].pc = "dropping" /\ reads[t] = {} /\ writes[t] = {}
    /\ task' = [task EXCEPT ![t] = Idle]
    /\ caller' = [caller EXCEPT ![t] = NoTask]
    /\ UNCHANGED <<keys, sequence, reads, writes, awake, calls, commit_mutex>>

Next ==
    \E t \in Tasks :
      /\ Running(t)
      /\ \/ Begin(t) \/ Commit(t) \/ LockCommitMutex(t) \/ Applied(t) \/ DropTransaction(t)
         \/ Cancel(t) \/ Release(t) \/ DropWriteGuard(t) \/ DropReadGuard(t) \/ Dropped(t)
         \/ \E u \in Tasks : ReadNested(t, u) \/ OpenStore(t, u) \/ PreCommit(t, u)
         \/ \E g \in 0 .. MaxRepoll : Lock(t, g) \/ CommitPrepare(t, g)

Spec == Init /\ [][Next]_vars

-----------------------------------------------------------------------------

\* Task t has access to key k that nobody may share: a write lock has been
\* granted, or commit_prepare is past the key.
Exclusive(t, k) ==
    /\ k \in writes[t]
    /\ \/ k \in task[t].upgraded
       \/ keys[k].state = "WriteLock"

(***************************************************************************)
(* The table says who holds what: read_count is the number of guards and   *)
(* transactions that hold the key for reading, an entry exists exactly as  *)
(* long as somebody holds the key, and it is in a writer's state exactly   *)
(* as long as a writer has it in its guard.  This is what keeps the        *)
(* unreachable!() arms of drop_read_locks and drop_write_locks, the        *)
(* `expect` of commit_prepare and the subtraction of read_count from being *)
(* reached, whichever futures are dropped half-way.                        *)
(***************************************************************************)
TableMatchesGuards ==
    \A k \in Keys :
      LET readers == {t \in Tasks : k \in reads[t]}
          writers == {t \in Tasks : k \in writes[t]}
      IN  IF keys[k] = Vacant
          THEN readers = {} /\ writers = {}
          ELSE /\ keys[k].read_count = Cardinality(readers)
               /\ Cardinality(writers) <= 1
               /\ keys[k].state = "ReadLock" => writers = {} /\ readers # {}
               /\ keys[k].state # "ReadLock" => writers # {}

(***************************************************************************)
(* While one task has exclusive access to a key (a transaction is being    *)
(* committed, a store is being opened, fsck runs) nobody else holds the    *)
(* key in any mode.                                                        *)
(***************************************************************************)
ExclusiveAccess ==
    \A t, u \in Tasks : \A k \in Keys :
      t # u /\ Exclusive(t, k) => k \notin reads[u] \cup writes[u]

(***************************************************************************)
(* No wake-up is lost: a future that waits and has not been woken is       *)
(* blocked by the state of its key, and its current waker, not an older    *)
(* one, is where the task that unblocks the key will find it.              *)
(***************************************************************************)
NoLostWakeup ==
    \A t \in Tasks :
      ~awake[t] =>
        /\ Locking(t) =>
             LET e == keys[Key(t)] IN
             /\ e # Vacant
             /\ IF task[t].want_write
                THEN e.state = "WantWrite" /\ e.waker = CurrentWaker(t) /\ e.read_count > 0
                ELSE /\ e.state \in {"Locked", "WantWrite", "WriteLock"}
                     /\ \E i \in DOMAIN e.wakers : e.wakers[i] = CurrentWaker(t)
        /\ task[t].pc = "preparing" =>
             LET e == keys[First(writes[t] \ task[t].upgraded)] IN
             e # Vacant /\ e.waker = CurrentWaker(t) /\ e.read_count > 0

\* The tasks that task t waits for: the function it awaits, the holder of the
\* commit mutex, every reader of a key it wants for writing, or the one task that
\* has the key locked.
Blockers(t) ==
    {u \in Tasks :
       \/ caller[u] = t
       \/ task[t].pc = "committing" /\ commit_mutex = u
       \/ ~awake[t] /\ Locking(t)
            /\ Key(t) \in IF task[t].want_write THEN reads[u] ELSE writes[u]
       \/ ~awake[t] /\ task[t].pc = "preparing"
            /\ First(writes[t] \ task[t].upgraded) \in reads[u]}

CircularWait(S) == S # {} /\ \A t \in S : Blockers(t) \cap S # {}

(***************************************************************************)
(* Locks never wait for each other in a circle: what the assertion         *)
(* debug_assert_not_too_long! around every acquisition supposes.           *)
(***************************************************************************)
NoCircularWait == \A S \in SUBSET Tasks : ~CircularWait(S)

\* The filesystem lock is asked for with other locks held: by
\* new_transaction_with_locks, and by the transaction of pre_commit.
LateFilesystemLock(t) ==
    /\ Locking(t) /\ Key(t) = Filesystem /\ Target(t) = "ReadLock"
    /\ writes[t] # {} \/ caller[t] # NoTask

\* fsck waits for the readers of the filesystem lock.
WantsFilesystem(t) == task[t].want_write /\ Filesystem \in writes[t]

(***************************************************************************)
(* Sorting the keys of each request, taking the filesystem lock first,     *)
(* reading one's own attribute before the commit only and never locking a  *)
(* layer rule out every circle but one: a task that asks for the           *)
(* filesystem lock with locks already held (a cache flush, or a commit     *)
(* that has to extend the journal), while fsck waits for the readers of    *)
(* that lock to leave.  Waits for nested calls and for the commit mutex    *)
(* count.                                                                  *)
(***************************************************************************)
CircleOnlyByLateLock ==
    \A S \in SUBSET Tasks :
      CircularWait(S) => /\ \E t \in S : LateFilesystemLock(t)
                         /\ \E u \in S : WantsFilesystem(u)
=============================================================================
