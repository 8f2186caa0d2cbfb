----------------------------- MODULE FxJournal -----------------------------
(***************************************************************************)
(* The fxfs journal as a stream of checksummed blocks on a device that may *)
(* lose what has not been flushed (src/storage/fxfs/src/object_store/      *)
(* journal.rs and journal/{reader,writer,checksum_list}.rs), together with *)
(* what it protects: file data written in place before the transaction     *)
(* that refers to it, and device blocks that the allocator gives out again *)
(* once the deallocation is known to be durable.                           *)
(*                                                                         *)
(* Offsets count units; a record is one or more units, a journal block     *)
(* BlockSize of them, and the checksum at a block's end takes no room.     *)
(* Fletcher sums are taken to be free of collisions: a checksum stands for *)
(* everything it was computed from, which is the stream up to there and    *)
(* where the stream was reset.  The mutations of a transaction are one     *)
(* record, and every transaction is different.                             *)
(***************************************************************************)
EXTENDS Naturals, Sequences, FiniteSets, FiniteSetsExt

CONSTANTS
    Files, NoFile,
    Blocks,          \* device blocks for file data
    BlockSize,       \* BLOCK_SIZE, in units
    MutationSize,    \* units of a Mutation record; every other record is one unit
    JournalBlocks,   \* blocks of the journal file
    MaxTxns,         \* transactions that are started
    MaxCrashes

\* Discard and DidFlushDevice leave room in a block for the start of a mutation.
ASSUME SizesAssumption == /\ BlockSize \in Nat /\ BlockSize >= 3
                          /\ MutationSize \in 1 .. BlockSize - 1
                          /\ JournalBlocks \in Nat \ {0}
ASSUME FilesAssumption == NoFile \notin Files
ASSUME BlocksAssumption == Blocks \subseteq Nat \ {0} /\ IsFiniteSet(Blocks)
ASSUME JournalBoundsAssumption == MaxTxns \in Nat /\ MaxCrashes \in Nat

VARIABLES
    journal,       \* the journal file as the device would return it now
    data,          \* the contents of the data blocks, likewise
    unstable,      \* what each block may turn out to hold after a crash
    pc,            \* "mounted", or the part of replay() that is under way
    reader,        \* JournalReader and the local variables of replay()
    verify,        \* journal_offset and last_journal_offset of ChecksumList::verify
    inner,         \* Journal::inner, without the writer
    writer,        \* JournalWriter
    in_flight,     \* the buffer being written by the flush task
    syncing,       \* the task inside sync()
    committing,    \* the file whose transaction is past pre_commit, with commit_mutex
    extents,       \* the extent of each file, as applied
    pending,       \* the extent each file's open transaction has written
    deallocated,   \* SimpleAllocator::committed_deallocated
    log, synced,   \* transactions applied; how many sync() has vouched for
    mid_block,     \* some mount resumed the stream inside a block
    bare_restart,  \* some block that restarts the stream ended before a mutation
    next_id, crashes

device == <<journal, data, unstable>>
replay == <<pc, reader, verify>>
allocator == <<extents, pending, deallocated>>
history == <<mid_block, crashes>>

vars == <<device, replay, inner, writer, in_flight, syncing, committing, allocator, log, synced,
          history, bare_restart, next_id>>

-----------------------------------------------------------------------------
(* Records, units and blocks. *)

NoBlock == 0
Hole == [block |-> NoBlock, id |-> 0]
NoTxn == [id |-> 0, file |-> NoFile, new |-> Hole, old |-> NoBlock]

Extents == [block : Blocks, id : 1 .. MaxTxns] \cup {Hole}
Txn == [id : 1 .. MaxTxns, file : Files, new : Extents, old : Blocks \cup {NoBlock}]

Record(kind, offset, txn) == [kind |-> kind, offset |-> offset, txn |-> txn]
Mutation(txn) == Record("Mutation", 0, txn)
CommitRecord == Record("Commit", 0, NoTxn)
Discard(offset) == Record("Discard", offset, NoTxn)
DidFlushDevice(offset) == Record("DidFlushDevice", offset, NoTxn)

\* With the padding that follows it, size units in all.
EndBlock(size) == Record("EndBlock", size, NoTxn)

Size(r) == IF r.kind = "Mutation" THEN MutationSize
           ELSE IF r.kind = "EndBlock" THEN r.offset ELSE 1
Units(r) == [i \in 1 .. Size(r) |-> [part |-> i, record |-> r]]

\* A block on the device is known by its checksum; Torn stands for anything
\* that no checksum vouches for, a block never written included.
StartingChecksum == [units |-> <<>>, resets |-> {}]
Torn == StartingChecksum
ResetXor(checksum) == [checksum EXCEPT !.resets = @ \cup {Len(checksum.units)}]

Indices == 0 .. JournalBlocks - 1
EndOfFile == JournalBlocks * BlockSize
NoOffset == EndOfFile + 1

-----------------------------------------------------------------------------
(* JournalWriter *)

\* checkpoint, as file_offset and checksum, and what is buffered behind it.
NewWriter(offset, checksum) == [offset |-> offset, checksum |-> checksum, buf |-> <<>>]

WriteRecord(w, r) == [w EXCEPT !.buf = @ \o Units(r)]

\* journal_file_checkpoint().file_offset
FileOffset(w) == w.offset + Len(w.buf)

\* EndBlock and the padding to the end of the writer's block.
PadToBlock(w) == WriteRecord(w, EndBlock(BlockSize - (Len(w.buf) % BlockSize)))

\* The checksum when the first n units of the buffer are written.
ChecksumAfter(w, n) == [w.checksum EXCEPT !.units = @ \o SubSeq(w.buf, 1, n)]

-----------------------------------------------------------------------------
(* The device. *)

\* What the blocks may hold after a crash if everything in them is durable.
Durable(j, d) == [journal |-> [i \in Indices |-> {j[i]}], data |-> [b \in Blocks |-> {d[b]}]]

\* overwrite(): the journal blocks that w's buffer goes to and what becomes of
\* each.  A write that is not aligned changes parts of its neighbours and
\* leaves no block with a checksum of its own.
Overwritten(w) ==
    LET first == w.offset \div BlockSize
        count == Len(w.buf) \div BlockSize
    IN  IF w.offset % BlockSize = 0
        THEN [i \in first .. first + count - 1 |-> ChecksumAfter(w, (i - first + 1) * BlockSize)]
        ELSE [i \in first .. first + count |-> Torn]

\* The block init_empty leaves behind: the transaction that made the root
\* objects, then EndBlock.  The super-block points at it.
SuperBlockOffset == MutationSize + 1
Formatted == [units |-> Units(Mutation(NoTxn)) \o Units(CommitRecord)
                          \o Units(EndBlock(BlockSize - SuperBlockOffset)),
              resets |-> {}]

NotInFlight == NewWriter(0, StartingChecksum)
Idle == [pc |-> "idle", offset |-> 0, upto |-> 0]

\* replay() before it has read anything; a transaction with its checkpoint.
Entry(offset, txn) == [offset |-> offset, txn |-> txn]
NoEntry == Entry(NoOffset, NoTxn)
StartReader == [offset |-> 0, transactions |-> <<>>, current |-> NoEntry,
                flushed |-> SuperBlockOffset, position |-> 0]
StartVerify == [journal_offset |-> 0, last_journal_offset |-> NoOffset + 1]

Init ==
    /\ journal = [i \in Indices |-> IF i = 0 THEN Formatted ELSE Torn]
    /\ data = [b \in Blocks |-> 0]
    /\ unstable = Durable(journal, data)
    /\ pc = "mounted"
    /\ reader = StartReader
    /\ verify = StartVerify
    /\ inner = [flushed_offset |-> BlockSize, device_flushed_offset |-> SuperBlockOffset,
                needs_did_flush_device |-> FALSE, discard_offset |-> NoOffset]
    /\ writer = NewWriter(BlockSize, Formatted)
    /\ in_flight = NotInFlight
    /\ syncing = Idle
    /\ committing = NoFile
    /\ extents = [f \in Files |-> Hole]
    /\ pending = [f \in Files |-> Hole]
    /\ deallocated = {}
    /\ log = <<Entry(0, NoTxn)>>
    /\ synced = 0
    /\ mid_block = FALSE
    /\ bare_restart = FALSE
    /\ next_id = 1
    /\ crashes = 0

-----------------------------------------------------------------------------
(* Writing a file, and committing the transaction. *)

\* Blocks in the allocator's tree or in reserved_allocations: allocated by a
\* committed or an open transaction, or given up but not yet for reuse.
Taken == {extents[f].block : f \in Files} \cup {pending[f].block : f \in Files}
           \cup {d.block : d \in deallocated}
Free == Blocks \ Taken

\* The data goes to the first free block, before the transaction is committed.
WriteData(f) ==
    /\ pc = "mounted" /\ committing # f /\ pending[f] = Hole
    /\ next_id <= MaxTxns
    /\ Free # {}
    /\ LET b == Min(Free) IN
       /\ pending' = [pending EXCEPT ![f] = [block |-> b, id |-> next_id]]
       /\ data' = [data EXCEPT ![b] = next_id]
       /\ unstable' = [unstable EXCEPT !.data[b] = @ \cup {next_id, 0}]
    /\ next_id' = next_id + 1
    /\ UNCHANGED <<journal, replay, inner, writer, in_flight, syncing, committing, extents,
                   deallocated, log, synced, history, bare_restart>>

\* The transaction is dropped without a commit.
DropTransaction(f) ==
    /\ pc = "mounted" /\ committing # f /\ pending[f] # Hole
    /\ pending' = [pending EXCEPT ![f] = Hole]
    /\ UNCHANGED <<device, replay, inner, writer, in_flight, syncing, committing, extents,
                   deallocated, log, synced, history, bare_restart, next_id>>

\* pre_commit, with commit_mutex: the records that go in front of the
\* transaction.  A sync may come before the transaction itself.
DiscardPending(w) == IF inner.discard_offset = NoOffset THEN w
                     ELSE WriteRecord(w, Discard(inner.discard_offset))
DidFlushPending(w) == IF ~inner.needs_did_flush_device THEN w
                      ELSE WriteRecord(w, DidFlushDevice(inner.device_flushed_offset))

\* The journal file is long enough for one more block.
HasRoom(w) == FileOffset(w) <= EndOfFile - BlockSize

PreCommit(f) ==
    /\ pc = "mounted" /\ committing = NoFile
    /\ pending[f] # Hole \/ extents[f] # Hole
    /\ committing' = f
    /\ writer' = DidFlushPending(DiscardPending(writer))
    /\ HasRoom(writer')
    /\ inner' = [inner EXCEPT !.discard_offset = NoOffset, !.needs_did_flush_device = FALSE]
    /\ UNCHANGED <<device, replay, in_flight, syncing, allocator, log, synced, history,
                   bare_restart, next_id>>

\* The allocator keeps the blocks the transaction frees, with its offset.
Deallocates(offset, txn) ==
    {[offset |-> offset, block |-> b] : b \in {txn.old} \ {NoBlock}}

\* write_and_apply_mutations: the mutations, which are applied, then the Commit
\* record.
Commit(txn) ==
    /\ pc = "mounted" /\ committing = txn.file
    /\ writer' = WriteRecord(WriteRecord(writer, Mutation(txn)), CommitRecord)
    /\ HasRoom(writer')
    /\ extents' = [extents EXCEPT ![txn.file] = txn.new]
    /\ deallocated' = deallocated \cup Deallocates(FileOffset(writer), txn)
    /\ log' = Append(log, Entry(FileOffset(writer), txn))
    /\ committing' = NoFile
    /\ UNCHANGED <<device, replay, inner, in_flight, syncing, synced, history, bare_restart>>

CommitWrite(f) ==
    /\ pending[f] # Hole
    /\ Commit([id |-> pending[f].id, file |-> f, new |-> pending[f], old |-> extents[f].block])
    /\ pending' = [pending EXCEPT ![f] = Hole]
    /\ UNCHANGED next_id

CommitTruncate(f) ==
    /\ pending[f] = Hole
    /\ next_id <= MaxTxns
    /\ Commit([id |-> next_id, file |-> f, new |-> Hole, old |-> extents[f].block])
    /\ next_id' = next_id + 1
    /\ UNCHANGED pending

-----------------------------------------------------------------------------
(* The flush task, and sync(). *)

\* take_buffer takes the full blocks; from here on any part of the write may
\* have reached the device.
TakeBuffer ==
    LET to_do == Len(writer.buf) - (Len(writer.buf) % BlockSize)
        taken == [writer EXCEPT !.buf = SubSeq(@, 1, to_do)]
        blocks == Overwritten(taken)
    IN
    /\ pc = "mounted" /\ in_flight = NotInFlight
    /\ to_do > 0
    /\ in_flight' = taken
    /\ writer' = [offset |-> writer.offset + to_do, checksum |-> ChecksumAfter(writer, to_do),
                  buf |-> SubSeq(writer.buf, to_do + 1, Len(writer.buf))]
    /\ unstable' = [unstable EXCEPT !.journal = [i \in Indices |->
                      IF i \in DOMAIN blocks THEN @[i] \cup {Torn, blocks[i]} ELSE @[i]]]
    /\ UNCHANGED <<journal, data, replay, inner, syncing, committing, allocator, log, synced,
                   history, bare_restart, next_id>>

Flush ==
    LET blocks == Overwritten(in_flight) IN
    /\ pc = "mounted" /\ in_flight # NotInFlight
    /\ journal' = [i \in Indices |-> IF i \in DOMAIN blocks THEN blocks[i] ELSE journal[i]]
    /\ inner' = [inner EXCEPT !.flushed_offset = FileOffset(in_flight)]
    /\ in_flight' = NotInFlight
    /\ UNCHANGED <<data, unstable, replay, writer, syncing, committing, allocator, log, synced,
                   history, bare_restart, next_id>>

\* The block that restarts the stream has no mutation in it yet.
BareRestart(w) ==
    /\ Len(w.checksum.units) \in w.checksum.resets
    /\ Len(w.buf) < BlockSize
    /\ \A i \in DOMAIN w.buf : w.buf[i].record.kind # "Mutation"

\* sync() with the sync and writer mutexes: the checkpoint before the padding.
SyncPad ==
    LET offset == FileOffset(writer)
        pads == offset % BlockSize # 0
    IN
    /\ pc = "mounted" /\ syncing.pc = "idle"
    /\ writer' = IF pads THEN PadToBlock(writer) ELSE writer
    /\ FileOffset(writer') <= EndOfFile
    /\ bare_restart' = (bare_restart \/ (pads /\ BareRestart(writer)))
    /\ \E flush_device \in BOOLEAN :
         syncing' = IF flush_device
                    THEN [pc |-> "flushing", offset |-> offset, upto |-> Len(log) - 1]
                    ELSE syncing
    /\ UNCHANGED <<device, replay, inner, in_flight, committing, allocator, log, synced, history,
                   next_id>>

\* flush_device() waits for the flush task to get that far.
AlreadyFlushed(offset) == TRUE

Flushed(offset) == inner.flushed_offset >= offset

\* Blocks of a write that is still under way stay as they are.
SyncFlushDevice ==
    /\ pc = "mounted" /\ syncing.pc = "flushing"
    /\ Flushed(syncing.offset)
    /\ inner.device_flushed_offset < syncing.offset
    /\ unstable' = [Durable(journal, data) EXCEPT !.journal =
                      [i \in Indices |-> IF i \in DOMAIN Overwritten(in_flight)
                                         THEN unstable.journal[i] ELSE @[i]]]
    /\ syncing' = [syncing EXCEPT !.pc = "flushed"]
    /\ UNCHANGED <<journal, data, replay, inner, writer, in_flight, committing, allocator, log,
                   synced, history, bare_restart, next_id>>

\* did_flush_device: deallocations before the checkpoint are durable.
NoneDeallocated(offset) == {}

StillDeallocated(offset) == {d \in deallocated : d.offset >= offset}

SyncReturn ==
    /\ pc = "mounted"
    /\ \/ /\ syncing.pc = "flushed"
          /\ inner' = [inner EXCEPT !.device_flushed_offset = syncing.offset,
                                    !.needs_did_flush_device = TRUE]
          /\ deallocated' = StillDeallocated(syncing.offset)
       \/ /\ syncing.pc = "flushing"
          /\ Flushed(syncing.offset)
          /\ inner.device_flushed_offset >= syncing.offset
          /\ UNCHANGED <<inner, deallocated>>
    /\ synced' = Max({synced, syncing.upto})
    /\ syncing' = Idle
    /\ UNCHANGED <<device, replay, writer, in_flight, committing, extents, pending, log, history,
                   bare_restart, next_id>>

-----------------------------------------------------------------------------
(* Crash, and replay at the next mount. *)

\* What is now may turn out to be f, with f[x] \in may[x] for every x.
Outcomes(now, may) ==
    LET open == {x \in DOMAIN now : may[x] # {now[x]}}
        chosen == {f \in [open -> UNION {may[x] : x \in open}] : \A x \in open : f[x] \in may[x]}
    IN  {[x \in DOMAIN now |-> IF x \in open THEN f[x] ELSE now[x]] : f \in chosen}

\* Every block holds one of the things it may hold.  open_with_options flushes
\* the device before it reads anything.
Crash ==
    /\ pc = "mounted" /\ crashes < MaxCrashes
    /\ crashes' = crashes + 1
    /\ pc' = "reading"
    /\ journal' \in Outcomes(journal, unstable.journal)
    /\ data' \in Outcomes(data, unstable.data)
    /\ unstable' = Durable(journal', data')
    /\ inner' = [flushed_offset |-> 0, device_flushed_offset |-> 0,
                 needs_did_flush_device |-> FALSE, discard_offset |-> NoOffset]
    /\ writer' = NewWriter(0, StartingChecksum)
    /\ in_flight' = NotInFlight
    /\ syncing' = Idle
    /\ committing' = NoFile
    /\ extents' = [f \in Files |-> Hole]
    /\ pending' = [f \in Files |-> Hole]
    /\ deallocated' = {}
    /\ UNCHANGED <<reader, verify, log, synced, mid_block, bare_restart, next_id>>

\* fill_buf: a block continues the stream if its checksum was seeded with the
\* one before it, or starts it afresh if the seed was XORed with RESET_XOR.
Before(i) == IF i = 0 THEN StartingChecksum ELSE journal[i - 1]
Seeded(i, seed) == /\ i \in Indices /\ journal[i] # Torn
                   /\ SubSeq(journal[i].units, 1, i * BlockSize) = seed.units
                   /\ journal[i].resets = seed.resets
Continues(i) == Seeded(i, Before(i))
Restarts(i) == i > 0 /\ Seeded(i, ResetXor(Before(i)))

\* The transactions up to the first at or behind offset.
UpTo(t, offset) ==
    SubSeq(t, 1, Max({n \in 0 .. Len(t) : \A i \in 1 .. n : t[i].offset < offset}))

\* The loop of replay() over the records.
AtReset(r) ==
    [r EXCEPT !.current = NoEntry, !.flushed = Max({@, r.position}), !.position = r.offset]

AtRecord(r, record) ==
    CASE record.kind = "Mutation" -> [r EXCEPT !.current = Entry(r.position, record.txn)]
      [] record.kind = "Commit" /\ r.current # NoEntry ->
           [r EXCEPT !.transactions = Append(@, r.current), !.current = NoEntry]
      [] record.kind = "Discard" /\ ~(r.current # NoEntry /\ r.current.offset < record.offset) ->
           [r EXCEPT !.transactions = UpTo(@, record.offset), !.current = NoEntry]
      [] record.kind = "DidFlushDevice" -> [r EXCEPT !.flushed = Max({@, record.offset})]
      [] OTHER -> r

\* The next unit of the stream.  A record is there when its last unit is.
AtUnit(r, unit) ==
    LET next == r.offset + 1 IN
    IF unit.part < Size(unit.record) THEN [r EXCEPT !.offset = next]
    ELSE [AtRecord(r, unit.record) EXCEPT !.offset = next, !.position = next]

ReadUnit(r, reset, unit) == AtUnit(IF reset THEN AtReset(r) ELSE r, unit)

ReadNext ==
    LET i == reader.offset \div BlockSize
        reset == Restarts(i) /\ reader.offset % BlockSize = 0
    IN
    /\ pc = "reading"
    /\ Continues(i) \/ Restarts(i)
    /\ reader' = ReadUnit(reader, reset, journal[i].units[reader.offset + 1])
    /\ UNCHANGED <<device, pc, verify, inner, writer, in_flight, syncing, committing, allocator,
                   log, synced, history, bare_restart, next_id>>

\* ChecksumMismatch: the journal has been read, and its data is to be verified.
ReadEnd ==
    LET i == reader.offset \div BlockSize IN
    /\ pc = "reading"
    /\ ~Continues(i) /\ ~Restarts(i)
    /\ pc' = "verifying"
    /\ verify' = [StartVerify EXCEPT !.journal_offset = reader.position]
    /\ UNCHANGED <<device, reader, inner, writer, in_flight, syncing, committing, allocator,
                   log, synced, history, bare_restart, next_id>>

\* ChecksumList: the transactions whose data may not have reached the device.
\* One that a later transaction deallocates depends on that transaction being
\* dropped; of several extents in one place only the first is marked.
Pushed(r) == {i \in DOMAIN r.transactions : /\ r.transactions[i].offset >= r.flushed
                                            /\ r.transactions[i].txn.new # Hole}

Marks(r, i) ==
    LET t == r.transactions
        block(j) == t[j].txn.new.block
    IN  {j \in DOMAIN t : /\ j > i /\ t[j].txn.old = block(i)
                          /\ \A k \in Pushed(r) : block(k) = block(i) => k >= i}

Dependency(r, i) ==
    IF Marks(r, i) = {} THEN NoOffset ELSE r.transactions[Max(Marks(r, i))].offset

\* verify(): a checksum that does not match, although the extent is not given
\* up before journal_offset and was not looked at in the last round.
BadData(i) == LET extent == reader.transactions[i].txn.new
              IN  data[extent.block] # extent.id

Mismatches ==
    {i \in Pushed(reader) : /\ reader.transactions[i].offset < verify.journal_offset
                            /\ Dependency(reader, i) >= verify.journal_offset
                            /\ Dependency(reader, i) < verify.last_journal_offset
                            /\ BadData(i)}

\* Back to the first of them, and try again.
VerifyAgain ==
    /\ pc = "verifying"
    /\ Mismatches # {}
    /\ verify' = [journal_offset |-> reader.transactions[Min(Mismatches)].offset,
                  last_journal_offset |-> verify.journal_offset]
    /\ UNCHANGED <<device, pc, reader, inner, writer, in_flight, syncing, committing, allocator,
                   log, synced, history, bare_restart, next_id>>

\* The transactions that are applied, and where the others begin if there are any.
Recovered == UpTo(reader.transactions, verify.journal_offset)

LastCheckpoint ==
    LET t == reader.transactions
        n == Len(Recovered)
    IN  IF t = <<>> THEN 0 ELSE IF n < Len(t) THEN t[n + 1].offset ELSE reader.position

\* What the transactions t leave of file f.
Applied(t, f) ==
    LET on == {i \in DOMAIN t : t[i].txn.file = f}
    IN  IF on = {} THEN Hole ELSE t[Max(on)].txn.new

Mount ==
    /\ pc = "verifying" /\ Mismatches = {}
    /\ LastCheckpoint >= SuperBlockOffset
    /\ pc' = "mounted"
    /\ reader' = StartReader /\ verify' = StartVerify
    /\ extents' = [f \in Files |-> Applied(Recovered, f)]
    /\ log' = Recovered
    /\ inner' = [flushed_offset |-> reader.position,
                 device_flushed_offset |-> reader.flushed,
                 needs_did_flush_device |-> FALSE,
                 discard_offset |-> IF LastCheckpoint < reader.position
                                    THEN LastCheckpoint ELSE NoOffset]
    /\ writer' = NewWriter(reader.position, ResetXor(Before(reader.position \div BlockSize)))
    /\ mid_block' = (mid_block \/ reader.position % BlockSize # 0)
    /\ synced' = Len(Recovered) - 1
    /\ UNCHANGED <<device, in_flight, syncing, committing, pending, deallocated, bare_restart,
                   next_id, crashes>>

Next ==
    \/ \E f \in Files : \/ WriteData(f) \/ DropTransaction(f)
                        \/ PreCommit(f) \/ CommitWrite(f) \/ CommitTruncate(f)
    \/ TakeBuffer \/ Flush
    \/ SyncPad \/ SyncFlushDevice \/ SyncReturn
    \/ Crash \/ ReadNext \/ ReadEnd \/ VerifyAgain \/ Mount

Spec == Init /\ [][Next]_vars

-----------------------------------------------------------------------------

(***************************************************************************)
(* The data of every file is what the last transaction on it wrote.  It    *)
(* was written before the transaction, without a barrier in between, into  *)
(* a block that an earlier transaction may have given up, so this rests on *)
(* the allocator holding blocks back until did_flush_device, and on replay *)
(* dropping transactions whose data did not make it.                       *)
(***************************************************************************)
DataIntact ==
    pc = "mounted" /\ ~mid_block =>
      \A f \in Files : extents[f] # Hole => data[extents[f].block] = extents[f].id

(***************************************************************************)
(* A mount finds every transaction that sync() has vouched for or an       *)
(* earlier mount has recovered: what the test test_reset of journal.rs     *)
(* expects after a crash that left half a transaction at the end of the    *)
(* journal.                                                                *)
(***************************************************************************)
SyncedTransactionsAreFound ==
    pc = "verifying" /\ Mismatches = {} => Len(Recovered) - 1 >= synced

\* The transactions of a log, without the one of init_empty.
Committed(t) == [i \in 1 .. Len(t) - 1 |-> t[i + 1].txn]

(***************************************************************************)
(* No transaction is recovered that the mount before had not committed or  *)
(* recovered, in particular none that a crash had lost earlier: RESET_XOR  *)
(* and what is written behind it tell the blocks of different mounts       *)
(* apart.                                                                  *)
(***************************************************************************)
NothingComesBack ==
    pc = "verifying" /\ Mismatches = {} =>
      Len(Recovered) <= Len(log) /\ Recovered = SubSeq(log, 1, Len(Recovered))

(***************************************************************************)
(* The stream of checksummed blocks, crashes and replays behave like a     *)
(* durable log, as long as no mount resumes the stream inside a block and  *)
(* every block that restarts it has something of its own.                  *)
(***************************************************************************)
Durability == INSTANCE DurableLog WITH Txns <- Txn, log <- Committed(log),
                                       intact <- ~mid_block, exact <- ~bare_restart
ImplementsDurableLog == Durability!Spec
=============================================================================
