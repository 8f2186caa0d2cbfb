------------------------ MODULE FxJournalRecovery ------------------------
(***************************************************************************)
(* The inductive invariant of FxJournal, and the half of its proof that is *)
(* about crashes: reading the journal, verifying it, mounting what it      *)
(* holds and crashing keep the invariant. FxJournalProofs has the steps of *)
(* a mounted filesystem and the theorems.                                  *)
(***************************************************************************)
EXTENDS FxJournal, TLAPS, FiniteSetTheorems, SequenceTheorems, WellFoundedInduction

\* Where block i of the journal begins.
At(i) == i * BlockSize

-----------------------------------------------------------------------------
(* Types. *)

AnyTxn == Txn \cup {NoTxn}
Entries == [offset : Nat, txn : AnyTxn]
Readers == [offset : Nat, transactions : Seq(Entries), current : Entries,
            flushed : Nat, position : Nat]
Records == [kind : {"Mutation", "Commit", "Discard", "DidFlushDevice", "EndBlock"},
            offset : Nat, txn : AnyTxn]
AllUnits == [part : Nat, record : Records]
Checksums == [units : Seq(AllUnits), resets : SUBSET Nat]
Writers == [offset : Nat, checksum : Checksums, buf : Seq(AllUnits)]

BlockOf(entry) == entry.txn.new.block

-----------------------------------------------------------------------------
(* The stream u, restarted at the offsets R, and what replay() makes of it:  *)
(* tr[p] is its state when it has read p units.                              *)

IsStream(u, R, tr) ==
    /\ u \in Seq(AllUnits)
    /\ tr \in [0 .. Len(u) -> Readers]
    /\ tr[0] = StartReader
    /\ \A p \in 0 .. Len(u) - 1 : tr[p + 1] = ReadUnit(tr[p], p \in R, u[p + 1])

\* c is block i of the stream.
IsChain(c, u, R, i) ==
    /\ Len(c.units) = At(i + 1)
    /\ \A j \in 1 .. At(i + 1) : c.units[j] = u[j]
    /\ c.resets = R \cap (0 .. At(i))

\* c would be taken for block i of the stream.
Follows(c, u, R, i) ==
    /\ c # Torn
    /\ \A j \in 1 .. At(i) : c.units[j] = u[j]
    /\ \/ c.resets = R \cap (0 .. At(i - 1))
       \/ c.resets = (R \cap (0 .. At(i - 1))) \cup {At(i)}

\* What a block i may hold in any case: transactions before bound.
IsOlder(c, i, bound) ==
    \/ c = Torn
    \/ /\ Len(c.units) = At(i + 1)
       /\ \A j \in 1 .. At(i + 1) : c.units[j].record.txn.id < bound

ResetsIn(R, S) == \A p \in R : \E i \in S : p = At(i)

-----------------------------------------------------------------------------
(* What replay() has read. *)

Ascending(t) == \A i, j \in 1 .. Len(t) : i < j => t[i].offset < t[j].offset

\* A block that is used or given up again was durably given up before.
Tidy(r) ==
    LET t == r.transactions IN
    /\ \A i, j \in 1 .. Len(t) :
         i < j /\ BlockOf(t[i]) # NoBlock /\ BlockOf(t[i]) = BlockOf(t[j]) => t[i].offset < r.flushed
    /\ \A i, j, k \in 1 .. Len(t) :
         i < j /\ j < k /\ BlockOf(t[i]) # NoBlock
           /\ t[j].txn.old = BlockOf(t[i]) /\ t[k].txn.old = BlockOf(t[i]) => t[i].offset < r.flushed

\* A verify() that has got down to w looks at the data of transaction i: it is
\* before w and its block is not given up before w.
Obstructs(r, i, w) == /\ r.transactions[i].offset < w
                      /\ w <= Dependency(r, i)

\* Its data is not on the device, and no crash will bring it back.
Lost(entry) == entry.txn.new.id \notin unstable.data[BlockOf(entry)]

Barred(r, w) == \E i \in Pushed(r) : Obstructs(r, i, w) /\ Lost(r.transactions[i])

\* What may be applied is what was committed.
UpperOK(r) ==
    \A w \in 0 .. r.position :
      \/ Barred(r, w)
      \/ \A i \in 1 .. Len(r.transactions) :
           r.transactions[i].offset < w => i \in 1 .. Len(log) /\ r.transactions[i] = log[i]

\* What replay() has read of the first q blocks, at a block boundary that some
\* mount may start from.
Old(r, q) ==
    /\ r.offset = At(q)
    /\ r.position <= At(q) /\ At(q) < r.position + BlockSize /\ r.position >= BlockSize
    /\ SuperBlockOffset <= r.flushed /\ r.flushed <= r.position
    /\ Len(r.transactions) >= 1 /\ r.transactions[1] = Entry(0, NoTxn)
    /\ Ascending(r.transactions)
    /\ \A i \in 1 .. Len(r.transactions) :
         /\ r.transactions[i].offset < r.position
         /\ r.transactions[i].txn.new.id < next_id
    /\ Tidy(r)
    /\ UpperOK(r)

\* What replay() has read at two such boundaries: nothing of the log that the
\* first has is missing from the second.
Pair(r, s) ==
    /\ r.flushed <= s.flushed /\ r.position <= s.position
    /\ \A j \in 1 .. Len(s.transactions) :
         \/ j <= Len(r.transactions) /\ r.transactions[j] = s.transactions[j]
         \/ \A i \in 1 .. Len(r.transactions) : r.transactions[i].offset < s.transactions[j].offset
    /\ \A i \in 1 .. Len(r.transactions) :
         i <= Len(log) /\ r.transactions[i] = log[i] =>
           i <= Len(s.transactions) /\ s.transactions[i] = log[i]

History(tr, g) ==
    /\ \A q \in 1 .. g : Old(tr[At(q)], q)
    /\ \A q, p \in 1 .. g : q <= p => Pair(tr[At(q)], tr[At(p)])

-----------------------------------------------------------------------------
(* The log and the allocator. *)

LogInv ==
    /\ log \in Seq(Entries)
    /\ Len(log) >= 1 /\ log[1] = Entry(0, NoTxn)
    /\ synced \in Nat /\ synced + 1 <= Len(log)
    /\ Ascending(log)
    /\ \A i \in 2 .. Len(log) : log[i].txn \in Txn /\ log[i].txn.id < next_id
    /\ \A i \in 1 .. Len(log) : log[i].txn.new.id < next_id
    /\ \A i, k \in 1 .. Len(log) :
         i < k /\ BlockOf(log[i]) # NoBlock
           /\ (log[k].txn.old = BlockOf(log[i]) \/ BlockOf(log[k]) = BlockOf(log[i]))
           => \E j \in i + 1 .. k : log[j].txn.file = log[i].txn.file
    /\ \A i, j \in 1 .. Len(log) :
         i < j /\ BlockOf(log[i]) # NoBlock /\ log[i].txn.file = log[j].txn.file
           => \E k \in i + 1 .. j : log[k].txn.old = BlockOf(log[i])

IsLast(i, f) == /\ i \in 1 .. Len(log) /\ log[i].txn.file = f
                /\ \A j \in i + 1 .. Len(log) : log[j].txn.file # f

AllocInv ==
    /\ extents \in [Files -> Extents]
    /\ pending \in [Files -> Extents]
    /\ deallocated \subseteq [offset : Nat, block : Blocks]
    /\ \A f \in Files :
         \/ extents[f] = Hole /\ \A i \in 1 .. Len(log) : log[i].txn.file # f
         \/ \E i \in 1 .. Len(log) : IsLast(i, f) /\ extents[f] = log[i].txn.new
    /\ \A f \in Files : pending[f] # Hole =>
         /\ \A e \in Files : extents[e].block # pending[f].block
         /\ \A e \in Files : e # f => pending[e].block # pending[f].block
         /\ data[pending[f].block] = pending[f].id
         /\ pending[f].id < next_id

DeviceInv ==
    /\ journal \in [Indices -> Checksums]
    /\ data \in [Blocks -> 0 .. MaxTxns]
    /\ unstable \in [journal : [Indices -> SUBSET Checksums],
                     data : [Blocks -> SUBSET (0 .. MaxTxns)]]
    /\ \A i \in Indices : journal[i] \in unstable.journal[i]
    /\ \A b \in Blocks : data[b] \in unstable.data[b]
    /\ \A b \in Blocks : \A n \in unstable.data[b] : n < next_id
    /\ next_id \in 1 .. MaxTxns + 1

-----------------------------------------------------------------------------
(* Mounted. *)

\* The mount that started at block g found the first m transactions of the
\* log in what it read, and those before offset v were valid.
Base(r, m, v) ==
    /\ m \in 1 .. Len(log) /\ m <= Len(r.transactions)
    /\ \A i \in 1 .. m : r.transactions[i] = log[i]
    /\ v \in Nat /\ r.flushed <= v /\ v <= r.position
    /\ \A i \in 1 .. Len(r.transactions) : i <= m <=> r.transactions[i].offset < v
    /\ \A i \in m + 1 .. Len(log) : log[i].offset >= r.position

DurableOffset(g) == IF inner.device_flushed_offset > At(g) THEN inner.device_flushed_offset ELSE At(g)

\* What is sure to be replayed when the journal is durable up to x.
Freed(i, x) == \E k \in i + 1 .. Len(log) : log[k].txn.old = BlockOf(log[i]) /\ log[k].offset < x

DataDurable(x) ==
    \A i \in 1 .. Len(log) :
      log[i].offset < x /\ BlockOf(log[i]) # NoBlock =>
        unstable.data[BlockOf(log[i])] = {log[i].txn.new.id} \/ Freed(i, x)

DataThere(x) ==
    \A i \in 1 .. Len(log) :
      BlockOf(log[i]) # NoBlock => data[BlockOf(log[i])] = log[i].txn.new.id \/ Freed(i, x)

JournalDurable(u, R, x) ==
    \A i \in Indices : At(i) < x => \A c \in unstable.journal[i] : IsChain(c, u, R, i)

\* x is the end of a record, and not inside a transaction.
Checkpoint(tr, L, m, x) ==
    /\ \A p \in x .. L : tr[p].position >= x
    /\ \A i \in m + 1 .. Len(log) : log[i].offset < x => log[i].offset + MutationSize + 1 <= x

Floor(R, g) == IF At(g) \in R THEN At(g) ELSE SuperBlockOffset

\* Readers in this timeline.
Recent(r, p, R, g, m) ==
    /\ r.offset = p
    /\ r.position <= p /\ p < r.position + BlockSize /\ At(g) <= r.position
    /\ Floor(R, g) <= r.flushed /\ r.flushed <= r.position /\ r.flushed <= DurableOffset(g)
    /\ m <= Len(r.transactions) /\ Len(r.transactions) <= Len(log)
    /\ \A i \in 1 .. Len(r.transactions) :
         r.transactions[i] = log[i] /\ r.transactions[i].offset < r.position
    /\ \A i \in m + 1 .. Len(log) :
         i <= Len(r.transactions) <=> log[i].offset + MutationSize + 1 <= p
    /\ Tidy(r)

\* device_flushed_offset as replay() will have it when it reads the next unit.
NextFlushed(u, R, tr, g) ==
    IF Len(u) = At(g) THEN (IF At(g) \in R THEN At(g) ELSE tr[At(g)].flushed) ELSE tr[Len(u)].flushed

Timeline(u, R, tr, g, m) ==
    /\ \A p \in At(g) + 1 .. Len(u) : Recent(tr[p], p, R, g, m)
    /\ \A p, s \in At(g) .. Len(u) :
         p <= s => tr[p].flushed <= tr[s].flushed /\ tr[p].position <= tr[s].position
    /\ Len(u) > At(g) => /\ tr[Len(u)].position = Len(u) /\ tr[Len(u)].current = NoEntry
                         /\ inner.discard_offset = NoOffset
    /\ Len(u) = At(g) => /\ Len(log) = m
                         /\ Len(tr[At(g)].transactions) = m =>
                              inner.discard_offset = NoOffset
                         /\ Len(tr[At(g)].transactions) > m =>
                              inner.discard_offset = tr[At(g)].transactions[m + 1].offset
    /\ \A i \in m + 1 .. Len(log) : /\ log[i].offset >= At(g)
                                    /\ log[i].offset + MutationSize + 1 <= Len(u)

Marked(u, R, g, N) ==
    At(g) \in R =>
      /\ \/ Len(u) = At(g)
         \/ committing # NoFile /\ Len(u) <= At(g) + 2
         \/ \E j \in At(g) + 1 .. At(g + 1) : j <= Len(u) /\ u[j].record.txn.id >= N
      /\ \A j \in At(g) + 1 .. Len(u) : u[j].record.kind = "Mutation" => u[j].record.txn.id >= N

WriterInv(u, R, g) ==
    /\ \E k \in 0 .. JournalBlocks : writer.offset = At(k)
    /\ \E k \in 0 .. JournalBlocks : inner.flushed_offset = At(k)
    /\ At(g) <= inner.flushed_offset /\ inner.flushed_offset <= writer.offset
    /\ writer.offset \in Nat /\ writer.buf \in Seq(AllUnits)
    /\ writer.checksum.units \in Seq(AllUnits)
    /\ Len(writer.checksum.units) = writer.offset
    /\ writer.checksum.resets = R
    /\ Len(u) = writer.offset + Len(writer.buf) /\ Len(u) <= EndOfFile
    /\ \A j \in 1 .. writer.offset : writer.checksum.units[j] = u[j]
    /\ \A j \in 1 .. Len(writer.buf) : writer.buf[j] = u[writer.offset + j]
    /\ \/ in_flight = NotInFlight /\ inner.flushed_offset = writer.offset
       \/ /\ in_flight.offset = inner.flushed_offset
          /\ in_flight.buf \in Seq(AllUnits) /\ in_flight.checksum.units \in Seq(AllUnits)
          /\ Len(in_flight.checksum.units) = in_flight.offset
          /\ in_flight.checksum.resets = R
          /\ in_flight.offset + Len(in_flight.buf) = writer.offset
          /\ Len(in_flight.buf) > 0
          /\ \A j \in 1 .. in_flight.offset : in_flight.checksum.units[j] = u[j]
          /\ \A j \in 1 .. Len(in_flight.buf) : in_flight.buf[j] = u[in_flight.offset + j]

DiskInv(u, R, g, N) ==
    /\ \A i \in Indices : At(i + 1) <= inner.flushed_offset => IsChain(journal[i], u, R, i)
    /\ \A i \in Indices : \A c \in unstable.journal[i] :
         \/ c = Torn /\ i >= g
         \/ At(i + 1) <= writer.offset /\ IsChain(c, u, R, i)
         \/ At(g) \in R /\ i = g /\ ~Follows(c, u, R, i) /\ IsOlder(c, i, next_id)
         \/ At(g) \in R /\ i > g /\ IsOlder(c, i, N)
    /\ \A j \in 1 .. Len(u) : u[j].record.txn.id < next_id

ReuseInv(u, R, tr, g) ==
    /\ \A f \in Files : \A i \in 1 .. Len(log) :
         pending[f] # Hole /\ BlockOf(log[i]) = pending[f].block =>
           \/ log[i].offset < NextFlushed(u, R, tr, g)
           \/ /\ inner.needs_did_flush_device /\ committing # f
              /\ log[i].offset < inner.device_flushed_offset
    /\ inner.needs_did_flush_device
         \/ inner.device_flushed_offset <= NextFlushed(u, R, tr, g)
    /\ committing # NoFile => inner.discard_offset = NoOffset
    /\ \A k \in 1 .. Len(log) :
         log[k].offset >= DurableOffset(g) /\ log[k].txn.old # NoBlock =>
           [offset |-> log[k].offset, block |-> log[k].txn.old] \in deallocated

SyncInv(u, R, tr, g, m) ==
    \/ syncing = Idle
    \/ /\ syncing.pc \in {"flushing", "flushed"}
       /\ syncing.offset \in At(g) .. Len(u)
       /\ syncing.upto \in Nat /\ syncing.upto + 1 <= Len(log)
       /\ log[syncing.upto + 1].offset < syncing.offset
       /\ Checkpoint(tr, Len(u), m, syncing.offset)
       /\ syncing.pc = "flushed" =>
            /\ syncing.offset <= inner.flushed_offset
            /\ inner.device_flushed_offset < syncing.offset
            /\ JournalDurable(u, R, syncing.offset)
            /\ ~mid_block => DataDurable(syncing.offset)

DurableInv(u, R, tr, g, m) ==
    /\ DurableOffset(g) <= inner.flushed_offset
    /\ JournalDurable(u, R, DurableOffset(g))
    /\ Checkpoint(tr, Len(u), m, DurableOffset(g))
    /\ log[synced + 1].offset < DurableOffset(g)
    /\ ~mid_block => DataDurable(DurableOffset(g)) /\ DataThere(DurableOffset(g))

Aligned(u, R, tr, g, m, N, v) ==
    /\ IsStream(u, R, tr)
    /\ g \in 1 .. JournalBlocks
    /\ ResetsIn(R, 1 .. g)
    /\ At(g) \notin R => /\ m = 1 /\ tr[At(g)].current = NoEntry
    /\ tr[At(g)].position = At(g)
    /\ N \in 1 .. next_id /\ \A f \in Files : pending[f] # Hole => pending[f].id >= N
    /\ History(tr, g)
    /\ Base(tr[At(g)], m, v)
    /\ Timeline(u, R, tr, g, m)
    /\ Marked(u, R, g, N)
    /\ WriterInv(u, R, g)
    /\ DiskInv(u, R, g, N)
    /\ ReuseInv(u, R, tr, g)
    /\ SyncInv(u, R, tr, g, m)
    /\ DurableInv(u, R, tr, g, m)

\* A mount that resumed the stream inside a block: what is written is torn.
Frozen(u, R, tr, g, m, v) ==
    /\ mid_block
    /\ IsStream(u, R, tr) /\ Len(u) = At(g)
    /\ g \in 1 .. JournalBlocks
    /\ ResetsIn(R, 1 .. g - 1)
    /\ History(tr, g)
    /\ Base(tr[At(g)], m, v)
    /\ writer.offset \in Nat /\ writer.offset >= BlockSize /\ writer.offset % BlockSize # 0
    /\ writer.buf \in Seq(AllUnits) /\ tr[At(g)].position <= writer.offset
    /\ \A i \in 1 .. Len(log) : log[i].offset < FileOffset(writer)
    /\ in_flight = NotInFlight \/ (in_flight.offset \in Nat /\ in_flight.offset >= BlockSize
                                   /\ in_flight.offset % BlockSize # 0)
    /\ \A i \in Indices : \A c \in unstable.journal[i] :
         IF i < g THEN IsChain(c, u, R, i) \/ (c = Torn /\ i > 0)
         ELSE IsOlder(c, i, next_id) /\ (i = g => ~Follows(c, u, R, i))
    /\ \A j \in 1 .. Len(u) : u[j].record.txn.id < next_id

-----------------------------------------------------------------------------
(* Replay. *)

\* verify() cannot stop at w.
Blocked(r, w) ==
    \E i \in Pushed(r) : /\ Obstructs(r, i, w)
                         /\ data[BlockOf(r.transactions[i])] # r.transactions[i].txn.new.id

\* verify() may stop at w: with what was synced, and with the data there.
Recoverable(r, w) ==
    LET t == r.transactions IN
    /\ w \in Nat /\ r.flushed <= w /\ w <= r.position
    /\ ~Blocked(r, w)
    /\ synced + 1 <= Len(t) /\ t[synced + 1].offset < w
    /\ \A i \in 1 .. Len(t) :
         t[i].offset < r.flushed /\ BlockOf(t[i]) # NoBlock =>
           \/ data[BlockOf(t[i])] = t[i].txn.new.id
           \/ \E k \in i + 1 .. Len(t) : t[k].txn.old = BlockOf(t[i]) /\ t[k].offset < w

\* Everything between where verify() is and the end is ruled out.
VerifyInv ==
    /\ verify.journal_offset \in Nat /\ verify.last_journal_offset \in Nat
    /\ reader.flushed <= verify.journal_offset /\ verify.journal_offset <= reader.position
    /\ \A w \in verify.journal_offset + 1 .. reader.position : Blocked(reader, w)
    /\ \A i \in Pushed(reader) :
         BadData(i) /\ Dependency(reader, i) >= verify.last_journal_offset =>
           reader.transactions[i].offset >= verify.journal_offset

\* The journal holds h blocks of the stream, and will be read up to there.
Chained(u, R, tr, h) ==
    /\ IsStream(u, R, tr) /\ Len(u) = At(h)
    /\ h \in 1 .. JournalBlocks
    /\ ResetsIn(R, 1 .. h - 1)
    /\ \A i \in Indices : IF i < h THEN IsChain(journal[i], u, R, i)
                          ELSE IsOlder(journal[i], i, next_id)
    /\ h < JournalBlocks => ~Follows(journal[h], u, R, h)
    /\ \A j \in 1 .. Len(u) : u[j].record.txn.id < next_id
    /\ unstable = Durable(journal, data)
    /\ History(tr, h)
    /\ ~mid_block => \E w \in 0 .. At(h) : Recoverable(tr[At(h)], w)

Replaying(u, R, tr, h) ==
    /\ Chained(u, R, tr, h)
    /\ reader.offset \in 0 .. At(h) /\ reader = tr[reader.offset]
    /\ pc = "verifying" => reader.offset = At(h) /\ VerifyInv

Unmounted ==
    /\ pending = [f \in Files |-> Hole] /\ deallocated = {}
    /\ in_flight = NotInFlight /\ syncing = Idle /\ committing = NoFile

InnerType == inner \in [flushed_offset : Nat, device_flushed_offset : Nat,
                        needs_did_flush_device : BOOLEAN, discard_offset : Nat]

WriterType == writer \in Writers /\ in_flight \in Writers

SyncType == /\ syncing \in [pc : {"idle", "flushing", "flushed"}, offset : Nat, upto : Nat]
            /\ syncing.upto + 1 <= Len(log)

\* What is being written may already be there.
InFlightInv == \A i \in Indices :
    i \in DOMAIN Overwritten(in_flight) => Overwritten(in_flight)[i] \in unstable.journal[i]

Mounted == /\ InnerType /\ WriterType /\ SyncType /\ InFlightInv /\ AllocInv
           /\ reader = StartReader
           /\ committing \in Files \cup {NoFile}
           /\ \/ \E u, R, tr, g, m, N, v : Aligned(u, R, tr, g, m, N, v)
              \/ \E u, R, tr, g, m, v : Frozen(u, R, tr, g, m, v)

(***************************************************************************)
(* Everything together.                                                    *)
(***************************************************************************)
Inv == /\ LogInv /\ DeviceInv
       /\ mid_block \in BOOLEAN
       /\ pc \in {"mounted", "reading", "verifying"}
       /\ pc = "mounted" => Mounted
       /\ pc # "mounted" => Unmounted /\ \E u, R, tr, h : Replaying(u, R, tr, h)

-----------------------------------------------------------------------------
(* Arithmetic, and sequences. *)

\* The beginnings of the blocks.
LEMMA AtNext ==
    ASSUME NEW i \in Nat
    PROVE  At(i) \in Nat /\ At(i + 1) = At(i) + BlockSize
BY SizesAssumption DEF At

\* The first blocks, and the end of the file.
LEMMA AtSome == At(0) = 0 /\ At(1) = BlockSize /\ At(JournalBlocks) = EndOfFile
BY SizesAssumption DEF At, EndOfFile

\* They are a block apart.
LEMMA AtLess ==
    ASSUME NEW i \in Nat, NEW j \in Nat, i < j
    PROVE  At(i) + BlockSize <= At(j)
BY SizesAssumption DEF At

\* The block an offset is in, and where in the block it is.
LEMMA Division ==
    ASSUME NEW a \in Nat
    PROVE  /\ a \div BlockSize \in Nat
           /\ At(a \div BlockSize) <= a /\ a < At(a \div BlockSize) + BlockSize
           /\ a % BlockSize = a - At(a \div BlockSize)
BY SizesAssumption DEF At

\* The block and the place in it, of an offset given as both.
LEMMA DivAt ==
    ASSUME NEW i \in Nat, NEW k \in 0 .. BlockSize - 1
    PROVE  (At(i) + k) \div BlockSize = i /\ (At(i) + k) % BlockSize = k
BY SizesAssumption DEF At

\* Which offsets are aligned.
LEMMA ModAt ==
    ASSUME NEW a \in Nat
    PROVE  (a % BlockSize = 0) <=> \E i \in Nat : a = At(i)
<1>1. ASSUME a % BlockSize = 0 PROVE a = At(a \div BlockSize)
  BY <1>1, Division, AtNext
<1>2. ASSUME NEW i \in Nat, a = At(i) PROVE a % BlockSize = 0
  BY <1>2, DivAt, AtNext, SizesAssumption
<1> QED
  BY <1>1, <1>2, Division

\* Differences of block boundaries.
LEMMA AtMinus ==
    ASSUME NEW i \in Nat, NEW j \in Nat, i <= j
    PROVE  At(j - i) = At(j) - At(i) /\ At(i) <= At(j)
BY SizesAssumption DEF At

\* Sums of block boundaries.
LEMMA AtPlus ==
    ASSUME NEW i \in Nat, NEW j \in Nat
    PROVE  At(i + j) = At(i) + At(j)
BY SizesAssumption DEF At

\* Every non-empty set of naturals has a least element.
LEMMA LeastOf ==
    ASSUME NEW S \in SUBSET Nat, S # {}
    PROVE  Min(S) \in S /\ \A n \in S : Min(S) <= n
<1>1. PICK x \in S : \A y \in S : ~(<<y, x>> \in OpToRel(<, Nat))
  BY NatLessThanWellFounded, WFMin
<1>2. \A y \in S : x <= y
  <2> TAKE y \in S
  <2>1. <<y, x>> \in Nat \X Nat
    OBVIOUS
  <2>2. ~(y < x)
    BY <1>1, <2>1 DEF OpToRel
  <2> QED
    BY <2>2
<1> QED
  BY <1>2 DEF Min

\* Every bounded one has a greatest.
LEMMA GreatestOf ==
    ASSUME NEW k \in Nat, NEW S \in SUBSET (0 .. k), S # {}
    PROVE  Max(S) \in S /\ \A n \in S : Max(S) >= n
<1> DEFINE T == {i \in 0 .. k : k - i \in S}
<1>1. T \in SUBSET Nat /\ T # {}
  <2>1. PICK n \in S : TRUE
    OBVIOUS
  <2>2. k - n \in 0 .. k /\ k - (k - n) = n
    OBVIOUS
  <2>3. k - n \in T
    BY <2>2
  <2>4. T \subseteq Nat
    OBVIOUS
  <2> QED
    BY <2>3, <2>4
<1>2. Min(T) \in T /\ \A n \in T : Min(T) <= n
  BY <1>1, LeastOf
<1>3. k - Min(T) \in S
  BY <1>2
<1>4. \A n \in S : k - Min(T) >= n
  <2> TAKE n \in S
  <2>1. k - n \in 0 .. k /\ k - (k - n) = n
    OBVIOUS
  <2>2. k - n \in T
    BY <2>1
  <2>3. Min(T) \in 0 .. k /\ Min(T) <= k - n
    BY <1>2, <2>2
  <2> QED
    BY <2>1, <2>3
<1> QED
  BY <1>3, <1>4 DEF Max

\* The larger of two.
LEMMA MaxTwo ==
    ASSUME NEW a \in Nat, NEW b \in Nat
    PROVE  Max({a, b}) = IF a >= b THEN a ELSE b
<1>1. /\ Max({a, b}) \in {a, b} /\ \A n \in {a, b} : Max({a, b}) >= n
  <2>1. a <= a + b /\ b <= a + b /\ a + b \in Nat
    OBVIOUS
  <2>2. {a, b} \in SUBSET (0 .. a + b)
    BY <2>1
  <2> QED
    BY <2>1, <2>2, GreatestOf
<1> QED
  BY <1>1

\* The entries of a sequence of them.
LEMMA EntryOf ==
    ASSUME NEW t \in Seq(Entries), NEW i \in 1 .. Len(t)
    PROVE  t[i] \in Entries /\ t[i].offset \in Nat /\ t[i].txn \in AnyTxn
<1>1. t[i] \in Entries
  BY ElementOfSeq
<1> QED
  BY <1>1 DEF Entries

\* UpTo cuts a log at the first transaction that is too late.
LEMMA UpToIs ==
    ASSUME NEW t \in Seq(Entries), NEW o \in Nat
    PROVE  \E n \in 0 .. Len(t) :
             /\ UpTo(t, o) = SubSeq(t, 1, n)
             /\ \A i \in 1 .. n : t[i].offset < o
             /\ n < Len(t) => t[n + 1].offset >= o
<1> DEFINE S == {n \in 0 .. Len(t) : \A i \in 1 .. n : t[i].offset < o}
<1>1. 0 \in S /\ S \in SUBSET (0 .. Len(t)) /\ Len(t) \in Nat
  OBVIOUS
<1>2. Max(S) \in S /\ \A n \in S : Max(S) >= n
  BY <1>1, GreatestOf
<1>3. ASSUME Max(S) < Len(t) PROVE t[Max(S) + 1].offset >= o
  <2>1. SUFFICES ASSUME ~(t[Max(S) + 1].offset >= o) PROVE FALSE
    OBVIOUS
  <2>2. Max(S) + 1 \in 1 .. Len(t)
    BY <1>2, <1>3
  <2>3. t[Max(S) + 1].offset \in Nat
    BY <2>2, EntryOf
  <2>4. t[Max(S) + 1].offset < o
    BY <2>1, <2>3
  <2>5. \A i \in 1 .. Max(S) : t[i].offset < o
    BY <1>2
  <2>6. Max(S) + 1 \in S
    <3>1. \A i \in 1 .. Max(S) + 1 : i = Max(S) + 1 \/ i \in 1 .. Max(S)
      BY <1>2
    <3>2. \A i \in 1 .. Max(S) + 1 : t[i].offset < o
      BY <3>1, <2>4, <2>5
    <3> QED
      BY <2>2, <3>2
  <2> QED
    BY <1>2, <2>6, <2>2
<1>4. UpTo(t, o) = SubSeq(t, 1, Max(S))
  BY DEF UpTo
<1> QED
  BY <1>2, <1>3, <1>4

\* In a log that ascends, it keeps exactly the earlier transactions.
LEMMA UpToAscending ==
    ASSUME NEW t \in Seq(Entries), NEW o \in Nat, Ascending(t)
    PROVE  /\ UpTo(t, o) \in Seq(Entries)
           /\ Len(UpTo(t, o)) \in 0 .. Len(t)
           /\ \A i \in 1 .. Len(UpTo(t, o)) : UpTo(t, o)[i] = t[i]
           /\ \A i \in 1 .. Len(t) : i <= Len(UpTo(t, o)) <=> t[i].offset < o
<1>1. PICK n \in 0 .. Len(t) :
             /\ UpTo(t, o) = SubSeq(t, 1, n)
             /\ \A i \in 1 .. n : t[i].offset < o
             /\ n < Len(t) => t[n + 1].offset >= o
  BY UpToIs
<1>2. /\ SubSeq(t, 1, n) \in Seq(Entries) /\ Len(SubSeq(t, 1, n)) = n
      /\ \A i \in 1 .. n : SubSeq(t, 1, n)[i] = t[i]
  <2>1. \A i \in 1 .. n : t[i] \in Entries
    OBVIOUS
  <2> QED
    BY <2>1, SubSeqProperties
<1>3. ASSUME NEW i \in 1 .. Len(t), i > n PROVE ~(t[i].offset < o)
  <2>1. n + 1 \in 1 .. Len(t) /\ t[n + 1].offset >= o
    BY <1>1, <1>3
  <2>2. t[n + 1].offset \in Nat /\ t[i].offset \in Nat
    BY <2>1, EntryOf
  <2>3. t[n + 1].offset <= t[i].offset
    BY <1>3, <2>1, <2>2 DEF Ascending
  <2> QED
    BY <2>1, <2>2, <2>3
<1> QED
  BY <1>1, <1>2, <1>3

-----------------------------------------------------------------------------
(* Records, and what replay() does with one. *)

\* The constants of the model, and what there is before the first transaction.
LEMMA Constants ==
    /\ NoOffset \in Nat /\ EndOfFile \in Nat /\ NoOffset = EndOfFile + 1
    /\ SuperBlockOffset = MutationSize + 1 /\ SuperBlockOffset \in 1 .. BlockSize
    /\ Hole \in Extents /\ Hole.block = NoBlock /\ NoBlock = 0 /\ Hole.id = 0
    /\ NoTxn \in AnyTxn /\ NoEntry \in Entries /\ Entry(0, NoTxn) \in Entries
    /\ NoTxn.id = 0 /\ NoTxn.file = NoFile /\ NoTxn.new = Hole /\ NoTxn.old = NoBlock
<1>1. NoOffset \in Nat /\ EndOfFile \in Nat /\ NoOffset = EndOfFile + 1
  BY SizesAssumption, AtSome, AtNext DEF NoOffset
<1>2. SuperBlockOffset = MutationSize + 1 /\ SuperBlockOffset \in 1 .. BlockSize
  BY SizesAssumption DEF SuperBlockOffset
<1>3. NoTxn \in AnyTxn
  BY DEF AnyTxn
<1> QED
  BY <1>1, <1>2, <1>3 DEF Hole, Extents, NoBlock, NoTxn, NoEntry, Entry, Entries

\* Extents are in a block of the device, or nowhere.
LEMMA ExtentOf ==
    ASSUME NEW x \in Extents
    PROVE  /\ x # Hole => x.block \in Blocks /\ x.block # NoBlock /\ x.id \in 1 .. MaxTxns
           /\ x.block = NoBlock => x = Hole
           /\ x.id \in Nat
BY BlocksAssumption, JournalBoundsAssumption DEF Extents, Hole, NoBlock

\* The parts of a transaction.
LEMMA TxnOf ==
    ASSUME NEW x \in AnyTxn
    PROVE  /\ x.new \in Extents /\ x.id \in Nat
           /\ x.old = NoBlock \/ x.old \in Blocks
           /\ x.file \in Files \cup {NoFile}
<1>1. CASE x \in Txn
  BY <1>1, JournalBoundsAssumption DEF Txn, NoBlock
<1>2. CASE x = NoTxn
  BY <1>2, Constants
<1> QED
  BY <1>1, <1>2 DEF AnyTxn

\* The records the journal writes, and their sizes.
LEMMA RecordTypes ==
    ASSUME NEW o \in Nat, NEW txn \in AnyTxn
    PROVE  /\ Mutation(txn) \in Records /\ CommitRecord \in Records
           /\ Discard(o) \in Records /\ DidFlushDevice(o) \in Records /\ EndBlock(o) \in Records
           /\ Size(Mutation(txn)) = MutationSize /\ Size(CommitRecord) = 1
           /\ Size(Discard(o)) = 1 /\ Size(DidFlushDevice(o)) = 1 /\ Size(EndBlock(o)) = o
<1>1. NoTxn \in AnyTxn
  BY Constants
<1> QED
  BY <1>1 DEF Mutation, CommitRecord, Discard, DidFlushDevice, EndBlock, Record, Records, Size

\* The units of a record.
LEMMA UnitsIs ==
    ASSUME NEW r \in Records, Size(r) \in Nat
    PROVE  /\ Units(r) \in Seq(AllUnits) /\ Len(Units(r)) = Size(r)
           /\ \A i \in 1 .. Size(r) : Units(r)[i] = [part |-> i, record |-> r]
<1>1. \A i \in 1 .. Size(r) : [part |-> i, record |-> r] \in AllUnits
  BY DEF AllUnits
<1>2. Units(r) \in [1 .. Size(r) -> AllUnits]
  BY <1>1 DEF Units
<1> QED
  BY <1>2 DEF Units

\* The fields after a reset.
LEMMA AtResetIs ==
    ASSUME NEW r \in Readers
    PROVE  /\ AtReset(r) \in Readers
           /\ AtReset(r).offset = r.offset /\ AtReset(r).position = r.offset
           /\ AtReset(r).transactions = r.transactions /\ AtReset(r).current = NoEntry
           /\ AtReset(r).flushed = IF r.flushed >= r.position THEN r.flushed ELSE r.position
<1>1. r.flushed \in Nat /\ r.position \in Nat /\ r.offset \in Nat
  BY DEF Readers
<1>2. Max({r.flushed, r.position}) = IF r.flushed >= r.position THEN r.flushed ELSE r.position
  BY <1>1, MaxTwo
<1> QED
  BY <1>1, <1>2, Constants DEF AtReset, Readers

\* What each record does.
LEMMA AtMutation ==
    ASSUME NEW r \in Readers, NEW txn \in AnyTxn
    PROVE  AtRecord(r, Mutation(txn)) = [r EXCEPT !.current = Entry(r.position, txn)]
BY DEF AtRecord, Mutation, Record

\* A Commit record ends the transaction that is being read.
LEMMA AtCommit ==
    ASSUME NEW r \in Readers, r.current # NoEntry
    PROVE  AtRecord(r, CommitRecord) =
             [r EXCEPT !.transactions = Append(@, r.current), !.current = NoEntry]
BY DEF AtRecord, CommitRecord, Record

\* A Discard record between two transactions.
LEMMA AtDiscard ==
    ASSUME NEW r \in Readers, NEW o \in Nat, r.current = NoEntry
    PROVE  AtRecord(r, Discard(o)) = [r EXCEPT !.transactions = UpTo(@, o), !.current = NoEntry]
BY DEF AtRecord, Discard, Record

\* A DidFlushDevice record.
LEMMA AtDidFlush ==
    ASSUME NEW r \in Readers, NEW o \in Nat
    PROVE  AtRecord(r, DidFlushDevice(o)) =
             [r EXCEPT !.flushed = IF r.flushed >= o THEN r.flushed ELSE o]
<1>1. Max({r.flushed, o}) = IF r.flushed >= o THEN r.flushed ELSE o
  BY MaxTwo DEF Readers
<1> QED
  BY <1>1 DEF AtRecord, DidFlushDevice, Record

\* An EndBlock record changes nothing.
LEMMA AtEndBlock ==
    ASSUME NEW r \in Readers, NEW o \in Nat
    PROVE  AtRecord(r, EndBlock(o)) = r
BY DEF AtRecord, EndBlock, Record

\* replay()'s state when it has read the reset at p, if there is one.
Resumed(r, p, R) == IF p \in R THEN AtReset(r) ELSE r

\* A reader r0 that has read a record, of k units, in full; or only a part.
Within(r0, p) == [r0 EXCEPT !.offset = p]
Past(r0, rec, p) == [AtRecord(r0, rec) EXCEPT !.offset = p, !.position = p]

\* The records do not look at the offset.
LEMMA AtRecordOffset ==
    ASSUME NEW r \in Readers, NEW rec \in Records, NEW p \in Nat, AtRecord(r, rec) \in Readers
    PROVE  AtRecord([r EXCEPT !.offset = p], rec) = [AtRecord(r, rec) EXCEPT !.offset = p]
<1> DEFINE s == [r EXCEPT !.offset = p]
<1>1. /\ s \in Readers /\ s.current = r.current /\ s.transactions = r.transactions
      /\ s.flushed = r.flushed /\ s.position = r.position
  BY DEF Readers
<1>2. CASE rec.kind = "Mutation"
  BY <1>1, <1>2 DEF AtRecord, Readers
<1>3. CASE rec.kind = "Commit"
  <2>1. CASE r.current = NoEntry
    BY <1>1, <1>3, <2>1 DEF AtRecord, Readers
  <2>2. CASE r.current # NoEntry
    BY <1>1, <1>3, <2>2 DEF AtRecord, Readers
  <2> QED
    BY <2>1, <2>2
<1>4. CASE rec.kind = "Discard"
  <2>1. CASE r.current # NoEntry /\ r.current.offset < rec.offset
    BY <1>1, <1>4, <2>1 DEF AtRecord, Readers
  <2>2. CASE ~(r.current # NoEntry /\ r.current.offset < rec.offset)
    BY <1>1, <1>4, <2>2 DEF AtRecord, Readers
  <2> QED
    BY <2>1, <2>2
<1>5. CASE rec.kind = "DidFlushDevice"
  BY <1>1, <1>5 DEF AtRecord, Readers
<1>6. CASE rec.kind = "EndBlock"
  BY <1>1, <1>6 DEF AtRecord, Readers
<1> QED
  BY <1>2, <1>3, <1>4, <1>5, <1>6 DEF Records

\* u2 is the stream u with the record rec behind it, which r0 reads.
Appends(u, R, tr, rec, r0, u2, tr2) ==
    /\ IsStream(u2, R, tr2)
    /\ u2 = u \o Units(rec)
    /\ Len(u2) = Len(u) + Size(rec)
    /\ \A j \in 1 .. Len(u) : u2[j] = u[j]
    /\ \A j \in 1 .. Size(rec) : u2[Len(u) + j] = [part |-> j, record |-> rec]
    /\ \A p \in 0 .. Len(u) : tr2[p] = tr[p]
    /\ \A p \in Len(u) + 1 .. Len(u2) - 1 : tr2[p] = Within(r0, p)
    /\ tr2[Len(u2)] = Past(r0, rec, Len(u2))

\* A record at the end of a stream.
LEMMA AppendRecord ==
    ASSUME NEW u, NEW R, NEW tr, IsStream(u, R, tr), tr[Len(u)].offset = Len(u),
           \A p \in R : p \in Nat /\ p <= Len(u),
           NEW rec \in Records, Size(rec) \in Nat, Size(rec) >= 1,
           NEW r0 \in Readers, r0 = Resumed(tr[Len(u)], Len(u), R),
           AtRecord(r0, rec) \in Readers
    PROVE  \E u2, tr2 : Appends(u, R, tr, rec, r0, u2, tr2)
<1> DEFINE L == Len(u)
           k == Size(rec)
           u2 == u \o Units(rec)
           tr2 == [p \in 0 .. L + k |-> IF p <= L THEN tr[p]
                                        ELSE IF p < L + k THEN Within(r0, p)
                                        ELSE Past(r0, rec, p)]
<1>1. /\ u \in Seq(AllUnits) /\ L \in Nat
      /\ tr \in [0 .. L -> Readers] /\ tr[0] = StartReader
      /\ \A p \in 0 .. L - 1 : tr[p + 1] = ReadUnit(tr[p], p \in R, u[p + 1])
  BY DEF IsStream
<1>2. /\ Units(rec) \in Seq(AllUnits) /\ Len(Units(rec)) = k
      /\ \A i \in 1 .. k : Units(rec)[i] = [part |-> i, record |-> rec]
  BY UnitsIs
<1>3. /\ u2 \in Seq(AllUnits) /\ Len(u2) = L + k
      /\ \A i \in 1 .. L : u2[i] = u[i]
      /\ \A i \in 1 .. k : u2[L + i] = [part |-> i, record |-> rec]
  <2>1. /\ u2 \in Seq(AllUnits) /\ Len(u2) = L + k
        /\ \A i \in 1 .. L + k : u2[i] = IF i <= L THEN u[i] ELSE Units(rec)[i - L]
    <3>1. \A a, b \in Seq(AllUnits) :
            /\ a \o b \in Seq(AllUnits) /\ Len(a \o b) = Len(a) + Len(b)
            /\ \A i \in 1 .. Len(a) + Len(b) :
                 (a \o b)[i] = IF i <= Len(a) THEN a[i] ELSE b[i - Len(a)]
      BY ConcatProperties
    <3> QED
      BY <1>1, <1>2, <3>1
  <2>2. ASSUME NEW i \in 1 .. k PROVE u2[L + i] = [part |-> i, record |-> rec]
    <3>1. L + i \in 1 .. L + k /\ ~(L + i <= L) /\ L + i - L = i
      BY <1>1
    <3> QED
      BY <3>1, <2>1, <1>2, SMTT(20)
  <2>3. ASSUME NEW i \in 1 .. L PROVE u2[i] = u[i]
    <3>1. i \in 1 .. L + k /\ i <= L
      BY <1>1
    <3> QED
      BY <3>1, <2>1
  <2> QED
    BY <2>1, <2>2, <2>3
<1>4. \A p \in Nat : Within(r0, p) \in Readers /\ Past(r0, rec, p) \in Readers
  BY DEF Within, Past, Readers
<1>5. /\ \A p \in 0 .. L : tr2[p] = tr[p]
      /\ \A p \in L + 1 .. L + k - 1 : tr2[p] = Within(r0, p)
      /\ tr2[L + k] = Past(r0, rec, L + k)
  BY <1>1
<1>6. tr2 \in [0 .. L + k -> Readers]
  <2> SUFFICES ASSUME NEW p \in 0 .. L + k PROVE tr2[p] \in Readers
    OBVIOUS
  <2>1. CASE p <= L
    BY <2>1, <1>1, <1>5
  <2>2. CASE p > L
    BY <2>2, <1>1, <1>4
  <2> QED
    BY <2>1, <2>2, <1>1
<1>7. ASSUME NEW p \in 0 .. L + k - 1
      PROVE  tr2[p + 1] = ReadUnit(tr2[p], p \in R, u2[p + 1])
  <2>1. CASE p < L
    <3>1. p \in 0 .. L - 1 /\ p \in 0 .. L /\ p + 1 \in 0 .. L /\ p + 1 \in 1 .. L
      BY <2>1, <1>1
    <3>2. tr2[p + 1] = tr[p + 1] /\ tr2[p] = tr[p] /\ u2[p + 1] = u[p + 1]
      BY <3>1, <1>3, <1>5
    <3> QED
      BY <3>1, <3>2, <1>1
  <2>2. CASE p >= L
    <3> DEFINE j == p - L + 1
               r1 == IF p \in R THEN AtReset(tr2[p]) ELSE tr2[p]
    <3>1. j \in 1 .. k /\ p + 1 = L + j /\ p = L + j - 1
      BY <2>2, <1>1
    <3>2. u2[p + 1] = [part |-> j, record |-> rec]
      BY <3>1, <1>3
    <3>3. r1 = [r0 EXCEPT !.offset = p]
      <4>1. CASE p = L
        <5>1. tr2[p] = tr[L] /\ tr[L] \in Readers
          BY <4>1, <1>1, <1>5
        <5>2. r1 = r0 /\ r0.offset = L
          BY <4>1, <5>1, AtResetIs DEF Resumed
        <5> QED
          BY <4>1, <5>2 DEF Readers
      <4>2. CASE p # L
        <5>1. p \in L + 1 .. L + k - 1 /\ p \notin R
          BY <4>2, <2>2, <1>1
        <5> QED
          BY <5>1, <1>5 DEF Within
      <4> QED
        BY <4>1, <4>2
    <3>4. ReadUnit(tr2[p], p \in R, u2[p + 1]) = AtUnit(r1, [part |-> j, record |-> rec])
      BY <3>2 DEF ReadUnit
    <3>5. r1 \in Readers /\ r1.offset = p /\ tr2[p + 1] = IF j < k THEN Within(r0, p + 1)
                                                           ELSE Past(r0, rec, p + 1)
      <4>1. r1 \in Readers /\ r1.offset = p
        <5> HIDE DEF r1
        <5>1. p \in Nat
          BY <1>1
        <5> QED
          BY <3>3, <5>1 DEF Readers
      <4> QED
        BY <4>1, <3>1, <1>1, <1>5
    <3> HIDE DEF r1, tr2, u2, j
    <3>6. CASE j < k
      <4>1. AtUnit(r1, [part |-> j, record |-> rec]) = [r1 EXCEPT !.offset = p + 1]
        BY <3>5, <3>6 DEF AtUnit
      <4>2. [r1 EXCEPT !.offset = p + 1] = Within(r0, p + 1)
        BY <3>3 DEF Within, Readers
      <4>3. ReadUnit(tr2[p], p \in R, u2[p + 1]) = Within(r0, p + 1)
        BY <3>4, <4>1, <4>2
      <4>4. tr2[p + 1] = Within(r0, p + 1)
        BY <3>5, <3>6
      <4> QED
        BY <4>3, <4>4
    <3>7. CASE j = k
      <4>1. AtUnit(r1, [part |-> j, record |-> rec])
              = [AtRecord(r1, rec) EXCEPT !.offset = p + 1, !.position = p + 1]
        BY <3>5, <3>7, <3>1 DEF AtUnit
      <4>2. AtRecord(r1, rec) = [AtRecord(r0, rec) EXCEPT !.offset = p]
        <5>1. p \in Nat
          BY <1>1
        <5>2. AtRecord([r0 EXCEPT !.offset = p], rec) = [AtRecord(r0, rec) EXCEPT !.offset = p]
          BY <5>1, AtRecordOffset
        <5> QED
          BY <3>3, <5>2
      <4>3. [AtRecord(r1, rec) EXCEPT !.offset = p + 1, !.position = p + 1]
              = [AtRecord(r0, rec) EXCEPT !.offset = p + 1, !.position = p + 1]
        BY <4>2 DEF Readers
      <4>4. ReadUnit(tr2[p], p \in R, u2[p + 1]) = Past(r0, rec, p + 1)
        BY <3>4, <4>1, <4>3 DEF Past
      <4>5. tr2[p + 1] = Past(r0, rec, p + 1)
        BY <3>5, <3>7, <3>1
      <4> QED
        BY <4>4, <4>5
    <3> QED
      BY <3>6, <3>7, <3>1
  <2>3. p < L \/ p >= L
    BY <1>1
  <2> HIDE DEF u2, tr2
  <2> QED
    BY <2>1, <2>2, <2>3
<1>8. IsStream(u2, R, tr2)
  <2>1. tr2[0] = StartReader
    BY <1>1, <1>5
  <2> HIDE DEF u2, tr2
  <2> QED
    BY <1>3, <1>6, <1>7, <2>1 DEF IsStream
<1> HIDE DEF u2, tr2
<1>9. /\ IsStream(u2, R, tr2)
      /\ u2 = u \o Units(rec)
      /\ Len(u2) = Len(u) + Size(rec)
      /\ \A j \in 1 .. Len(u) : u2[j] = u[j]
      /\ \A j \in 1 .. Size(rec) : u2[Len(u) + j] = [part |-> j, record |-> rec]
      /\ \A p \in 0 .. Len(u) : tr2[p] = tr[p]
      /\ \A p \in Len(u) + 1 .. Len(u2) - 1 : tr2[p] = Within(r0, p)
      /\ tr2[Len(u2)] = Past(r0, rec, Len(u2))
  BY <1>3, <1>5, <1>8 DEF u2
<1>10. Appends(u, R, tr, rec, r0, u2, tr2)
  BY <1>9 DEF Appends
<1> QED
  BY <1>10

-----------------------------------------------------------------------------
(* ChecksumList. *)

\* The transactions whose data is looked at.
LEMMA PushedIs ==
    ASSUME NEW r \in Readers, NEW i \in Pushed(r)
    PROVE  /\ i \in 1 .. Len(r.transactions) /\ i \in Nat
           /\ r.transactions[i] \in Entries
           /\ r.transactions[i].offset \in Nat
           /\ r.transactions[i].offset >= r.flushed
           /\ r.transactions[i].txn.new # Hole
           /\ BlockOf(r.transactions[i]) \in Blocks /\ BlockOf(r.transactions[i]) # NoBlock
           /\ r.transactions[i].txn.new.id \in 1 .. MaxTxns
<1>1. r.transactions \in Seq(Entries)
  BY DEF Readers
<1>2. /\ i \in 1 .. Len(r.transactions) /\ r.transactions[i].offset >= r.flushed
      /\ r.transactions[i].txn.new # Hole
  BY <1>1 DEF Pushed
<1>3. /\ r.transactions[i] \in Entries /\ r.transactions[i].offset \in Nat
      /\ r.transactions[i].txn \in AnyTxn
  BY <1>1, <1>2, EntryOf
<1>4. r.transactions[i].txn.new \in Extents
  BY <1>3, TxnOf
<1> QED
  BY <1>1, <1>2, <1>3, <1>4, ExtentOf DEF BlockOf

\* What an extent depends on.
LEMMA DependencySome ==
    ASSUME NEW r \in Readers, NEW i \in Nat
    PROVE  /\ Dependency(r, i) \in Nat
           /\ \/ Dependency(r, i) = NoOffset
              \/ \E k \in i + 1 .. Len(r.transactions) :
                   /\ r.transactions[k].txn.old = BlockOf(r.transactions[i])
                   /\ Dependency(r, i) = r.transactions[k].offset
<1>1. /\ r.transactions \in Seq(Entries) /\ Len(r.transactions) \in Nat
      /\ DOMAIN r.transactions = 1 .. Len(r.transactions)
  <2>1. r.transactions \in Seq(Entries)
    BY DEF Readers
  <2> QED
    BY <2>1, LenProperties
<1>2. CASE Marks(r, i) = {}
  BY <1>2, Constants DEF Dependency
<1>3. CASE Marks(r, i) # {}
  <2>1. Marks(r, i) \in SUBSET (0 .. Len(r.transactions))
    BY <1>1 DEF Marks
  <2>2. Max(Marks(r, i)) \in Marks(r, i)
    BY <1>1, <1>3, <2>1, GreatestOf
  <2>3. PICK k : k = Max(Marks(r, i))
    OBVIOUS
  <2>4. /\ k \in 1 .. Len(r.transactions) /\ k > i
        /\ r.transactions[k].txn.old = r.transactions[i].txn.new.block
    BY <1>1, <2>2, <2>3 DEF Marks
  <2>5. Dependency(r, i) = r.transactions[k].offset
    BY <1>3, <2>3 DEF Dependency
  <2>6. r.transactions[k].offset \in Nat
    BY <1>1, <2>4, EntryOf
  <2> QED
    BY <1>1, <2>4, <2>5, <2>6 DEF BlockOf
<1> QED
  BY <1>2, <1>3

\* With a tidy log it is the one transaction that gives the extent up.
LEMMA DependencyIs ==
    ASSUME NEW r \in Readers, Tidy(r), NEW i \in Pushed(r),
           NEW k \in i + 1 .. Len(r.transactions),
           r.transactions[k].txn.old = BlockOf(r.transactions[i])
    PROVE  Dependency(r, i) = r.transactions[k].offset
<1> DEFINE t == r.transactions
<1>1. /\ t \in Seq(Entries) /\ Len(t) \in Nat /\ r.flushed \in Nat
      /\ DOMAIN t = 1 .. Len(t)
  <2>1. t \in Seq(Entries) /\ r.flushed \in Nat
    BY DEF Readers
  <2> QED
    BY <2>1, LenProperties
<1>2. /\ i \in 1 .. Len(t) /\ i \in Nat /\ t[i].offset \in Nat /\ t[i].offset >= r.flushed
      /\ BlockOf(t[i]) # NoBlock
  BY PushedIs
<1>3. ASSUME NEW j \in Pushed(r), BlockOf(t[j]) = BlockOf(t[i]) PROVE j >= i
  <2>1. /\ j \in 1 .. Len(t) /\ t[j].offset \in Nat /\ t[j].offset >= r.flushed
    BY PushedIs
  <2>2. SUFFICES ASSUME j < i PROVE FALSE
    BY <1>2, <2>1
  <2>3. t[j].offset < r.flushed
    BY <1>2, <1>3, <2>1, <2>2 DEF Tidy
  <2> QED
    BY <1>1, <2>1, <2>3
<1>4. k \in Marks(r, i)
  <2>1. k \in DOMAIN t /\ k > i /\ t[k].txn.old = t[i].txn.new.block
    BY <1>1, <1>2 DEF BlockOf
  <2>2. \A j \in Pushed(r) : t[j].txn.new.block = t[i].txn.new.block => j >= i
    BY <1>3 DEF BlockOf
  <2> QED
    BY <2>1, <2>2 DEF Marks
<1>5. ASSUME NEW j \in Marks(r, i) PROVE j = k
  <2>1. j \in 1 .. Len(t) /\ j > i /\ t[j].txn.old = BlockOf(t[i])
    BY <1>1, <1>5 DEF Marks, BlockOf
  <2>2. SUFFICES ASSUME j # k PROVE FALSE
    OBVIOUS
  <2>3. k \in 1 .. Len(t) /\ i < k
    BY <1>1, <1>2
  <2>4. t[i].offset < r.flushed
    <3>1. CASE j < k
      BY <1>2, <2>1, <2>3, <3>1 DEF Tidy
    <3>2. CASE k < j
      BY <1>2, <2>1, <2>3, <3>2 DEF Tidy
    <3> QED
      BY <2>1, <2>2, <2>3, <3>1, <3>2
  <2> QED
    BY <1>1, <1>2, <2>4
<1>6. Marks(r, i) = {k}
  BY <1>4, <1>5
<1>7. Max({k}) = k
  <2>1. {k} \in SUBSET (0 .. k) /\ k \in Nat
    BY <1>1, <1>2
  <2> QED
    BY <2>1, GreatestOf
<1> QED
  BY <1>6, <1>7 DEF Dependency

-----------------------------------------------------------------------------
(* Blocks of a stream. *)


\* The first n units of c are b's.
Starts(c, b, n) == SubSeq(c.units, 1, n) = b.units
Matches(c, u, n) == \A j \in 1 .. n : c.units[j] = u[j]

\* A block that ends where it should is compared with the stream.
LEMMA Prefix ==
    ASSUME NEW u, NEW n \in Nat,
           NEW c \in Checksums, Len(c.units) >= n,
           NEW b \in Checksums, Len(b.units) = n, Matches(b, u, n)
    PROVE  Starts(c, b, n) <=> Matches(c, u, n)
<1> USE DEF Starts, Matches
<1>1. c.units \in Seq(AllUnits) /\ b.units \in Seq(AllUnits)
  BY DEF Checksums
<1>2. \A j \in 1 .. n : c.units[j] \in AllUnits
  BY <1>1, ElementOfSeq
<1>3. /\ SubSeq(c.units, 1, n) \in Seq(AllUnits)
      /\ Len(SubSeq(c.units, 1, n)) = n
      /\ \A j \in 1 .. n : SubSeq(c.units, 1, n)[j] = c.units[j]
  BY <1>2, SubSeqProperties
<1>4. ASSUME \A j \in 1 .. n : c.units[j] = u[j] PROVE SubSeq(c.units, 1, n) = b.units
  BY <1>1, <1>3, <1>4, SeqEqual
<1> QED
  BY <1>3, <1>4

\* The chain reaches up to block i.
ChainTo(u, R, i) ==
    /\ i \in Nat \ {0} /\ i <= JournalBlocks
    /\ journal \in [Indices -> Checksums]
    /\ IsChain(journal[i - 1], u, R, i - 1)
    /\ i \in Indices => journal[i] = Torn \/ Len(journal[i].units) = At(i + 1)

\* fill_buf takes a block for the next one of the stream exactly if it follows.
LEMMA Reads ==
    ASSUME NEW u, NEW R, NEW i, ChainTo(u, R, i)
    PROVE  /\ Continues(i) <=> /\ i \in Indices /\ journal[i] # Torn
                               /\ \A j \in 1 .. At(i) : journal[i].units[j] = u[j]
                               /\ journal[i].resets = R \cap (0 .. At(i - 1))
           /\ Restarts(i) <=> /\ i \in Indices /\ journal[i] # Torn
                              /\ \A j \in 1 .. At(i) : journal[i].units[j] = u[j]
                              /\ journal[i].resets = (R \cap (0 .. At(i - 1))) \cup {At(i)}
<1>1. /\ i \in Nat \ {0} /\ i - 1 \in Nat /\ i - 1 + 1 = i /\ i - 1 \in Indices /\ At(i) \in Nat
      /\ At(i + 1) = At(i) + BlockSize /\ BlockSize \in Nat /\ i * BlockSize = At(i)
      /\ journal \in [Indices -> Checksums]
  BY SizesAssumption, AtNext DEF Indices, At, ChainTo
<1> DEFINE b == journal[i - 1]
<1>2. /\ b \in Checksums /\ Before(i) = b
      /\ Len(b.units) = At(i)
      /\ \A j \in 1 .. At(i) : b.units[j] = u[j]
      /\ b.resets = R \cap (0 .. At(i - 1))
  BY <1>1 DEF IsChain, Before, ChainTo
<1>3. ResetXor(b).units = b.units /\ ResetXor(b).resets = b.resets \cup {At(i)}
  BY <1>2 DEF ResetXor, Checksums
<1> HIDE DEF b
<1>4. ASSUME i \in Indices, journal[i] # Torn
      PROVE  SubSeq(journal[i].units, 1, i * BlockSize) = b.units
               <=> \A j \in 1 .. At(i) : journal[i].units[j] = u[j]
  <2>1. journal[i] \in Checksums /\ Len(journal[i].units) >= At(i)
    BY <1>1, <1>4 DEF ChainTo
  <2>2. Matches(b, u, At(i))
    BY <1>2 DEF Matches
  <2>3. Starts(journal[i], b, At(i)) <=> Matches(journal[i], u, At(i))
    BY <1>1, <1>2, <2>1, <2>2, Prefix
  <2> QED
    BY <1>1, <2>3 DEF Starts, Matches
<1>5. Continues(i) <=> /\ i \in Indices /\ journal[i] # Torn
                       /\ SubSeq(journal[i].units, 1, i * BlockSize) = b.units
                       /\ journal[i].resets = b.resets
  BY <1>2 DEF Continues, Seeded
<1>6. Restarts(i) <=> /\ i \in Indices /\ journal[i] # Torn
                      /\ SubSeq(journal[i].units, 1, i * BlockSize) = b.units
                      /\ journal[i].resets = b.resets \cup {At(i)}
  <2>1. i > 0
    BY <1>1
  <2> QED
    BY <1>2, <1>3, <2>1 DEF Restarts, Seeded
<1> QED
  BY <1>2, <1>4, <1>5, <1>6

\* Blocks that are there are taken for what they are.
LEMMA ChainRead ==
    ASSUME NEW u \in Seq(AllUnits), NEW R, NEW h \in 1 .. JournalBlocks,
           ResetsIn(R, 1 .. h), NEW i \in 0 .. h - 1,
           journal \in [Indices -> Checksums],
           \A k \in 0 .. h - 1 : IsChain(journal[k], u, R, k)
    PROVE  /\ Continues(i) \/ Restarts(i)
           /\ Restarts(i) <=> At(i) \in R
<1>1. /\ i \in Nat /\ i \in Indices /\ At(i) \in Nat /\ At(i + 1) = At(i) + BlockSize
      /\ BlockSize \in Nat \ {0} /\ h \in Nat /\ h <= JournalBlocks
  <2>1. JournalBlocks \in Nat /\ BlockSize \in Nat \ {0}
    BY SizesAssumption
  <2>2. i \in Nat /\ i \in Indices /\ h \in Nat /\ h <= JournalBlocks
    BY <2>1 DEF Indices
  <2> QED
    BY <2>1, <2>2, AtNext
<1>2. /\ journal[i] # Torn /\ Len(journal[i].units) = At(i + 1)
      /\ \A j \in 1 .. At(i) : journal[i].units[j] = u[j]
      /\ journal[i].resets = R \cap (0 .. At(i))
  <2>1. Len(journal[i].units) = At(i + 1) /\ Len(journal[i].units) # 0
    BY <1>1 DEF IsChain
  <2>2. journal[i] # Torn
    BY <2>1 DEF Torn, StartingChecksum
  <2>3. \A j \in 1 .. At(i) : j \in 1 .. At(i + 1)
    BY <1>1
  <2> QED
    BY <2>1, <2>2, <2>3 DEF IsChain
<1>3. CASE i = 0
  <2>1. SubSeq(journal[i].units, 1, i * BlockSize) = <<>>
    <3>1. i * BlockSize = 0
      BY <1>1, <1>3
    <3> QED
      BY <3>1, SubSeqEmpty
  <2>2. 0 \notin R
    <3>1. \A n \in 1 .. h : At(n) >= BlockSize
      BY AtLess, AtSome, AtNext, <1>1
    <3>2. \A n \in 1 .. h : At(n) # 0
      BY <3>1, <1>1, AtNext
    <3> QED
      BY <3>2 DEF ResetsIn
  <2>3. journal[i].resets = {}
    BY <1>2, <1>3, <2>2, AtSome
  <2> QED
    BY <1>1, <1>2, <1>3, <2>1, <2>2, <2>3, AtSome
    DEF Continues, Restarts, Seeded, Before, StartingChecksum
<1>4. CASE i > 0
  <2>1. /\ i \in Nat \ {0} /\ i - 1 \in 0 .. h - 1 /\ At(i - 1) \in Nat
        /\ At(i) = At(i - 1) + BlockSize
    <3>1. i - 1 \in Nat /\ i - 1 + 1 = i /\ i \in Nat \ {0} /\ i - 1 \in 0 .. h - 1
      BY <1>1, <1>4
    <3>2. At(i - 1) \in Nat /\ At(i - 1 + 1) = At(i - 1) + BlockSize
      BY <3>1, AtNext
    <3> QED
      BY <3>1, <3>2
  <2>2. R \cap (0 .. At(i)) = (R \cap (0 .. At(i - 1))) \cup ({At(i)} \cap R)
    <3>1. ASSUME NEW p \in R, p <= At(i), p # At(i) PROVE p <= At(i - 1)
      <4>1. PICK n \in 1 .. h : p = At(n)
        BY <3>1 DEF ResetsIn
      <4>2. n \in Nat /\ i - 1 \in Nat /\ i \in Nat
        BY <2>1
      <4>3. ~(n > i) /\ n # i
        <5>1. ASSUME n > i PROVE FALSE
          <6>1. At(i) + BlockSize <= At(n)
            BY <5>1, <4>2, AtLess
          <6>2. At(n) \in Nat
            BY <4>2, AtNext
          <6> QED
            BY <6>1, <6>2, <4>1, <3>1, <1>1
        <5> QED
          BY <5>1, <4>1, <3>1
      <4>4. n <= i - 1
        BY <4>2, <4>3
      <4> QED
        BY <4>1, <4>2, <4>4, AtMinus
    <3>2. R \subseteq Nat
      BY AtNext DEF ResetsIn
    <3> QED
      BY <2>1, <3>1, <3>2, <1>1
  <2>3. IsChain(journal[i - 1], u, R, i - 1) /\ i <= JournalBlocks
    <3>1. IsChain(journal[i - 1], u, R, i - 1)
      BY <2>1
    <3> QED
      BY <3>1, <1>1, SizesAssumption
  <2>4. /\ Continues(i) <=> journal[i].resets = R \cap (0 .. At(i - 1))
        /\ Restarts(i) <=> journal[i].resets = (R \cap (0 .. At(i - 1))) \cup {At(i)}
    <3>1. ChainTo(u, R, i)
      BY <1>2, <2>1, <2>3 DEF ChainTo
    <3>2. /\ Continues(i) <=> /\ i \in Indices /\ journal[i] # Torn
                              /\ \A j \in 1 .. At(i) : journal[i].units[j] = u[j]
                              /\ journal[i].resets = R \cap (0 .. At(i - 1))
          /\ Restarts(i) <=> /\ i \in Indices /\ journal[i] # Torn
                             /\ \A j \in 1 .. At(i) : journal[i].units[j] = u[j]
                             /\ journal[i].resets = (R \cap (0 .. At(i - 1))) \cup {At(i)}
      BY <3>1, Reads
    <3> QED
      BY <1>1, <1>2, <3>2
  <2>5. At(i) \notin 0 .. At(i - 1)
    BY <2>1, <1>1
  <2> QED
    BY <1>2, <2>2, <2>4, <2>5, <1>1
<1> QED
  BY <1>1, <1>3, <1>4

\* At the end of the chain nothing is.
LEMMA ChainEnds ==
    ASSUME NEW u \in Seq(AllUnits), NEW R, NEW h \in 1 .. JournalBlocks,
           journal \in [Indices -> Checksums],
           IsChain(journal[h - 1], u, R, h - 1),
           h < JournalBlocks => ~Follows(journal[h], u, R, h),
           h < JournalBlocks => journal[h] = Torn \/ Len(journal[h].units) = At(h + 1)
    PROVE  ~Continues(h) /\ ~Restarts(h)
<1>1. h \in Nat \ {0} /\ h <= JournalBlocks /\ (h \in Indices <=> h < JournalBlocks)
  BY SizesAssumption DEF Indices
<1>2. ChainTo(u, R, h)
  BY <1>1 DEF ChainTo
<1>3. /\ Continues(h) => /\ h \in Indices /\ journal[h] # Torn
                         /\ \A j \in 1 .. At(h) : journal[h].units[j] = u[j]
                         /\ journal[h].resets = R \cap (0 .. At(h - 1))
      /\ Restarts(h) => /\ h \in Indices /\ journal[h] # Torn
                        /\ \A j \in 1 .. At(h) : journal[h].units[j] = u[j]
                        /\ journal[h].resets = (R \cap (0 .. At(h - 1))) \cup {At(h)}
  BY <1>2, Reads
<1> QED
  BY <1>1, <1>3 DEF Follows

-----------------------------------------------------------------------------
(* Reading the journal, and verifying its data. *)

\* What is kept when the device, the log and the counters stay as they are.
LEMMA HistoryFrame ==
    ASSUME NEW tr, NEW h, History(tr, h), UNCHANGED <<log, unstable, next_id>>
    PROVE  History(tr, h)'
BY DEF History, Old, Pair, UpperOK, Barred, Lost

\* The journal is still a chain.
LEMMA ChainedFrame ==
    ASSUME NEW u, NEW R, NEW tr, NEW h, Chained(u, R, tr, h),
           UNCHANGED <<journal, data, unstable, log, synced, mid_block, next_id>>
    PROVE  Chained(u, R, tr, h)'
<1>1. History(tr, h)'
  BY HistoryFrame DEF Chained
<1>2. (~mid_block => \E w \in 0 .. At(h) : Recoverable(tr[At(h)], w))'
  BY DEF Chained, Recoverable, Blocked
<1> QED
  BY <1>1, <1>2 DEF Chained

\* Nothing of the log changes.
LEMMA LogFrame ==
    ASSUME LogInv, UNCHANGED <<log, synced, next_id>>
    PROVE  LogInv'
<1>1. /\ log' = log /\ Ascending(log)' /\ \A i : BlockOf(log[i])' = BlockOf(log[i])
  BY DEF LogInv, Ascending, BlockOf
<1>2. /\ (log \in Seq(Entries))' /\ (Len(log) >= 1 /\ log[1] = Entry(0, NoTxn))'
      /\ (synced \in Nat /\ synced + 1 <= Len(log))'
  BY <1>1 DEF LogInv
<1>3. /\ (\A i \in 2 .. Len(log) : log[i].txn \in Txn /\ log[i].txn.id < next_id)'
      /\ (\A i \in 1 .. Len(log) : log[i].txn.new.id < next_id)'
  BY <1>1 DEF LogInv
<1>4. (\A i, k \in 1 .. Len(log) :
         i < k /\ BlockOf(log[i]) # NoBlock
           /\ (log[k].txn.old = BlockOf(log[i]) \/ BlockOf(log[k]) = BlockOf(log[i]))
           => \E j \in i + 1 .. k : log[j].txn.file = log[i].txn.file)'
  BY <1>1 DEF LogInv
<1>5. (\A i, j \in 1 .. Len(log) :
         i < j /\ BlockOf(log[i]) # NoBlock /\ log[i].txn.file = log[j].txn.file
           => \E k \in i + 1 .. j : log[k].txn.old = BlockOf(log[i]))'
  BY <1>1 DEF LogInv
<1> QED
  BY <1>1, <1>2, <1>3, <1>4, <1>5, Zenon DEF LogInv

\* Nothing of the device changes.
LEMMA DeviceFrame ==
    ASSUME DeviceInv, UNCHANGED <<journal, data, unstable, next_id>>
    PROVE  DeviceInv'
BY DEF DeviceInv

\* replay() changes nothing but its own variables until it is done.
LEMMA ReplayFrame ==
    ASSUME LogInv, DeviceInv, Unmounted, mid_block \in BOOLEAN,
           UNCHANGED <<device, inner, writer, in_flight, syncing, committing, allocator,
                       log, synced, history, bare_restart, next_id>>
    PROVE  LogInv' /\ DeviceInv' /\ Unmounted' /\ mid_block' \in BOOLEAN
BY LogFrame, DeviceFrame DEF device, allocator, history, Unmounted

\* The blocks of a chain are of their size.
LEMMA ChainedSizes ==
    ASSUME NEW u, NEW R, NEW tr, NEW h, Chained(u, R, tr, h), DeviceInv
    PROVE  /\ u \in Seq(AllUnits) /\ h \in 1 .. JournalBlocks /\ h \in Nat
           /\ journal \in [Indices -> Checksums]
           /\ ResetsIn(R, 1 .. h)
           /\ \A k \in 0 .. h - 1 : k \in Indices /\ IsChain(journal[k], u, R, k)
           /\ h < JournalBlocks => journal[h] = Torn \/ Len(journal[h].units) = At(h + 1)
           /\ At(h) \in Nat /\ Len(u) = At(h)
<1>1. h \in 1 .. JournalBlocks /\ h \in Nat /\ JournalBlocks \in Nat /\ At(h) \in Nat
  BY SizesAssumption, AtNext DEF Chained
<1>2. \A k \in 0 .. h - 1 : k \in Indices /\ IsChain(journal[k], u, R, k)
  <2> TAKE k \in 0 .. h - 1
  <2>1. k \in Indices /\ k < h
    BY <1>1 DEF Indices
  <2> QED
    BY <2>1 DEF Chained
<1>3. ASSUME h < JournalBlocks PROVE journal[h] = Torn \/ Len(journal[h].units) = At(h + 1)
  <2>1. h \in Indices /\ ~(h < h)
    BY <1>1, <1>3 DEF Indices
  <2>2. IsOlder(journal[h], h, next_id)
    BY <2>1 DEF Chained
  <2> QED
    BY <2>2 DEF IsOlder
<1>4. ResetsIn(R, 1 .. h)
  BY <1>1 DEF Chained, ResetsIn
<1> QED
  BY <1>1, <1>2, <1>3, <1>4 DEF Chained, IsStream, DeviceInv

\* Where the blocks end, the chain does.
LEMMA GoodBlock ==
    ASSUME NEW u, NEW R, NEW tr, NEW h, Replaying(u, R, tr, h), DeviceInv,
           NEW i, i = reader.offset \div BlockSize
    PROVE  /\ reader.offset < At(h) <=> Continues(i) \/ Restarts(i)
           /\ reader.offset < At(h) =>
                /\ journal[i].units[reader.offset + 1] = u[reader.offset + 1]
                /\ (Restarts(i) /\ reader.offset % BlockSize = 0) <=> reader.offset \in R
<1> DEFINE p == reader.offset
<1>0. /\ u \in Seq(AllUnits) /\ h \in 1 .. JournalBlocks /\ h \in Nat
      /\ journal \in [Indices -> Checksums]
      /\ ResetsIn(R, 1 .. h)
      /\ \A k \in 0 .. h - 1 : k \in Indices /\ IsChain(journal[k], u, R, k)
      /\ h < JournalBlocks => journal[h] = Torn \/ Len(journal[h].units) = At(h + 1)
      /\ At(h) \in Nat
  BY ChainedSizes DEF Replaying
<1>1. p \in 0 .. At(h) /\ p \in Nat
  BY <1>0 DEF Replaying
<1>2. /\ i \in Nat /\ At(i) <= p /\ p < At(i) + BlockSize /\ p % BlockSize = p - At(i)
      /\ At(i) \in Nat /\ At(i + 1) = At(i) + BlockSize /\ BlockSize \in Nat
  BY <1>1, Division, AtNext, SizesAssumption
<1>3. CASE p < At(h)
  <2>1. i \in 0 .. h - 1
    <3>1. ASSUME i >= h PROVE FALSE
      <4>1. At(h) <= At(i)
        BY <1>0, <1>2, <3>1, AtMinus
      <4> QED
        BY <4>1, <1>0, <1>1, <1>2, <1>3
    <3> QED
      BY <3>1, <1>0, <1>2
  <2>2. /\ Continues(i) \/ Restarts(i)
        /\ Restarts(i) <=> At(i) \in R
    BY <1>0, <2>1, ChainRead
  <2>3. journal[i].units[p + 1] = u[p + 1]
    <3>1. p + 1 \in 1 .. At(i + 1)
      BY <1>1, <1>2
    <3> QED
      BY <1>0, <2>1, <3>1 DEF IsChain
  <2>4. ASSUME p \in R PROVE p = At(i)
    <3>1. PICK n \in 1 .. h : p = At(n)
      BY <2>4, <1>0 DEF ResetsIn
    <3>2. n \in Nat /\ At(n) \in Nat
      BY <3>1, AtNext
    <3>3. ~(n > i)
      <4> SUFFICES ASSUME n > i PROVE FALSE
        OBVIOUS
      <4>1. At(i) + BlockSize <= At(n)
        BY <3>2, <1>2, AtLess
      <4> QED
        BY <4>1, <3>1, <3>2, <1>2
    <3>4. ~(n < i)
      <4> SUFFICES ASSUME n < i PROVE FALSE
        OBVIOUS
      <4>1. At(n) + BlockSize <= At(i)
        BY <3>2, <1>2, AtLess
      <4> QED
        BY <4>1, <3>1, <3>2, <1>2, SizesAssumption
    <3>5. n = i
      BY <3>2, <3>3, <3>4, <1>2
    <3> QED
      BY <3>1, <3>5
  <2>5. (Restarts(i) /\ p % BlockSize = 0) <=> p \in R
    <3>1. p % BlockSize = 0 <=> p = At(i)
      BY <1>1, <1>2
    <3> QED
      BY <2>2, <2>4, <3>1
  <2> QED
    BY <1>3, <2>2, <2>3, <2>5
<1>4. CASE ~(p < At(h))
  <2>1. p = At(h) /\ i = h
    <3>1. p = At(h)
      BY <1>0, <1>1, <1>4
    <3>2. (At(h) + 0) \div BlockSize = h
      BY <1>0, DivAt, SizesAssumption
    <3> QED
      BY <3>1, <3>2, <1>0
  <2>2. h - 1 \in 0 .. h - 1
    BY <1>0
  <2>3. ~Continues(h) /\ ~Restarts(h)
    <3>1. IsChain(journal[h - 1], u, R, h - 1)
      BY <1>0, <2>2
    <3>2. h < JournalBlocks => ~Follows(journal[h], u, R, h)
      BY DEF Replaying, Chained
    <3> QED
      BY <1>0, <3>1, <3>2, ChainEnds
  <2> QED
    BY <1>4, <2>1, <2>3
<1> QED
  BY <1>3, <1>4

\* Every unit takes the reader one further.
LEMMA StreamOffset ==
    ASSUME NEW u, NEW R, NEW tr, IsStream(u, R, tr), NEW p \in 0 .. Len(u) - 1, tr[p].offset = p
    PROVE  tr[p + 1].offset = p + 1
<1>1. u \in Seq(AllUnits) /\ Len(u) \in Nat
  BY DEF IsStream
<1>2. p \in 0 .. Len(u) /\ p + 1 \in 0 .. Len(u) /\ p \in Nat
  BY <1>1
<1>3. tr[p] \in Readers /\ tr[p + 1] \in Readers
  BY <1>2 DEF IsStream
<1> DEFINE r0 == IF p \in R THEN AtReset(tr[p]) ELSE tr[p]
<1>4. r0 \in Readers /\ r0.offset = p
  BY <1>3, AtResetIs
<1>5. tr[p + 1] = AtUnit(r0, u[p + 1])
  BY <1>1 DEF IsStream, ReadUnit
<1> HIDE DEF r0
<1>6. CASE u[p + 1].part < Size(u[p + 1].record)
  <2>1. tr[p + 1] = [r0 EXCEPT !.offset = r0.offset + 1]
    BY <1>5, <1>6 DEF AtUnit
  <2> QED
    BY <2>1, <1>4 DEF Readers
<1>7. CASE ~(u[p + 1].part < Size(u[p + 1].record))
  <2> DEFINE x == AtRecord(r0, u[p + 1].record)
  <2>1. tr[p + 1] = [x EXCEPT !.offset = r0.offset + 1, !.position = r0.offset + 1]
    BY <1>5, <1>7 DEF AtUnit
  <2> HIDE DEF x
  <2>2. "offset" \in DOMAIN tr[p + 1]
    BY <1>3 DEF Readers
  <2>3. "offset" \in DOMAIN x
    BY <2>1, <2>2
  <2> QED
    BY <2>1, <2>3, <1>4
<1> QED
  BY <1>6, <1>7

\* Replay, as Inv has it.
LEMMA InReplay ==
    ASSUME Inv, pc # "mounted"
    PROVE  /\ LogInv /\ DeviceInv /\ Unmounted /\ mid_block \in BOOLEAN
           /\ \E u, R, tr, h : Replaying(u, R, tr, h)
BY DEF Inv

\* reading: the reader goes along the stream.
LEMMA ReadNextKeeps ==
    ASSUME Inv, ReadNext
    PROVE  Inv'
<1>1. /\ LogInv /\ DeviceInv /\ Unmounted /\ mid_block \in BOOLEAN /\ pc = "reading"
      /\ \E u, R, tr, h : Replaying(u, R, tr, h)
  BY InReplay DEF ReadNext
<1>2. PICK u, R, tr, h : Replaying(u, R, tr, h)
  BY <1>1
<1> DEFINE p == reader.offset
           i == p \div BlockSize
           reset == Restarts(i) /\ p % BlockSize = 0
<1>3. /\ Continues(i) \/ Restarts(i)
      /\ reader' = ReadUnit(reader, reset, journal[i].units[p + 1])
      /\ UNCHANGED <<device, pc, verify, inner, writer, in_flight, syncing, committing, allocator,
                     log, synced, history, bare_restart, next_id>>
  BY DEF ReadNext
<1>4. /\ p < At(h)
      /\ journal[i].units[p + 1] = u[p + 1]
      /\ reset <=> p \in R
  BY <1>1, <1>2, <1>3, GoodBlock
<1>5. /\ At(h) \in Nat /\ p \in 0 .. At(h) /\ reader = tr[p] /\ Chained(u, R, tr, h)
      /\ Len(u) = At(h) /\ IsStream(u, R, tr)
  BY <1>1, <1>2, ChainedSizes DEF Replaying, Chained
<1> HIDE DEF i, reset
<1>6. p \in 0 .. Len(u) - 1
  BY <1>4, <1>5
<1>7. reader' = tr[p + 1]
  <2>1. tr[p + 1] = ReadUnit(tr[p], p \in R, u[p + 1])
    BY <1>5, <1>6 DEF IsStream
  <2>2. ReadUnit(reader, reset, journal[i].units[p + 1]) = ReadUnit(tr[p], p \in R, u[p + 1])
    BY <1>4, <1>5 DEF ReadUnit
  <2> QED
    BY <1>3, <2>1, <2>2
<1>8. reader'.offset = p + 1
  BY <1>5, <1>6, <1>7, StreamOffset
<1>9. Chained(u, R, tr, h)'
  BY <1>3, <1>5, ChainedFrame DEF device, history
<1>10. Replaying(u, R, tr, h)'
  <2>1. reader'.offset \in 0 .. At(h) /\ reader' = tr[reader'.offset]
    BY <1>4, <1>5, <1>7, <1>8
  <2> QED
    BY <1>1, <1>3, <1>9, <2>1 DEF Replaying
<1>11. LogInv' /\ DeviceInv' /\ Unmounted' /\ mid_block' \in BOOLEAN
  BY <1>1, <1>3, ReplayFrame
<1> QED
  BY <1>1, <1>3, <1>10, <1>11 DEF Inv

\* A dependency is a checkpoint of the journal, or none.
LEMMA DependencyBound ==
    ASSUME NEW r \in Readers, NEW q \in 1 .. JournalBlocks, Old(r, q), NEW i \in Nat
    PROVE  Dependency(r, i) < NoOffset + 1
<1>1. /\ Dependency(r, i) \in Nat
      /\ \/ Dependency(r, i) = NoOffset
         \/ \E k \in i + 1 .. Len(r.transactions) :
              /\ r.transactions[k].txn.old = BlockOf(r.transactions[i])
              /\ Dependency(r, i) = r.transactions[k].offset
  BY DependencySome
<1>2. NoOffset \in Nat /\ NoOffset = EndOfFile + 1 /\ EndOfFile \in Nat
  BY Constants
<1>3. ASSUME NEW k \in i + 1 .. Len(r.transactions), Dependency(r, i) = r.transactions[k].offset
      PROVE  Dependency(r, i) < NoOffset + 1
  <2>1. k \in 1 .. Len(r.transactions)
    OBVIOUS
  <2>2. r.transactions[k].offset < r.position /\ r.position <= At(q) /\ r.position \in Nat
    BY <2>1 DEF Old, Readers
  <2>3. q \in Nat /\ JournalBlocks \in Nat /\ q <= JournalBlocks /\ At(q) \in Nat
    BY SizesAssumption, AtNext
  <2>4. At(q) <= EndOfFile
    BY <2>3, AtMinus, AtSome
  <2> QED
    BY <1>1, <1>2, <1>3, <2>2, <2>3, <2>4
<1> QED
  BY <1>1, <1>2, <1>3

\* The end of the journal: there is nothing to say about the data yet.
LEMMA ReadEndKeeps ==
    ASSUME Inv, ReadEnd
    PROVE  Inv'
<1>1. /\ LogInv /\ DeviceInv /\ Unmounted /\ mid_block \in BOOLEAN /\ pc = "reading"
      /\ \E u, R, tr, h : Replaying(u, R, tr, h)
  BY InReplay DEF ReadEnd
<1>2. PICK u, R, tr, h : Replaying(u, R, tr, h)
  BY <1>1
<1> DEFINE p == reader.offset
           i == p \div BlockSize
<1>3. /\ ~Continues(i) /\ ~Restarts(i) /\ pc' = "verifying"
      /\ verify' = [StartVerify EXCEPT !.journal_offset = reader.position]
      /\ UNCHANGED <<device, reader, inner, writer, in_flight, syncing, committing, allocator,
                     log, synced, history, bare_restart, next_id>>
  BY DEF ReadEnd
<1>4. ~(p < At(h))
  BY <1>1, <1>2, <1>3, GoodBlock
<1> HIDE DEF i
<1>5. /\ At(h) \in Nat /\ p \in 0 .. At(h) /\ reader = tr[p] /\ Chained(u, R, tr, h)
      /\ h \in 1 .. JournalBlocks /\ IsStream(u, R, tr) /\ Len(u) = At(h)
  BY <1>1, <1>2, ChainedSizes DEF Replaying, Chained
<1>6. p = At(h) /\ reader = tr[At(h)]
  BY <1>4, <1>5
<1>7. reader \in Readers /\ Old(reader, h)
  <2>1. At(h) \in 0 .. Len(u)
    BY <1>5
  <2>2. h \in 1 .. h
    BY <1>5
  <2> QED
    BY <1>5, <1>6, <2>1, <2>2 DEF IsStream, Chained, History
<1>8. verify'.journal_offset = reader.position /\ verify'.last_journal_offset = NoOffset + 1
  BY <1>3 DEF StartVerify
<1>9. reader' = reader /\ data' = data
  BY <1>3 DEF device
<1>10. VerifyInv'
  <2>1. reader.position \in Nat /\ NoOffset + 1 \in Nat /\ reader.flushed <= reader.position
    BY <1>7, Constants DEF Readers, Old
  <2>2. \A w \in reader.position + 1 .. reader.position : Blocked(reader, w)'
    BY <2>1
  <2>3. \A k \in Pushed(reader) : ~(Dependency(reader, k) >= NoOffset + 1)
    <3> TAKE k \in Pushed(reader)
    <3>1. k \in Nat
      BY <1>7, PushedIs
    <3>2. Dependency(reader, k) < NoOffset + 1
      BY <1>5, <1>7, <3>1, DependencyBound
    <3>3. Dependency(reader, k) \in Nat
      BY <1>7, <3>1, DependencySome
    <3> QED
      BY <3>2, <3>3, <2>1
  <2> QED
    BY <1>8, <1>9, <2>1, <2>2, <2>3 DEF VerifyInv
<1>11. Chained(u, R, tr, h)'
  BY <1>3, <1>5, ChainedFrame DEF device, history
<1>12. Replaying(u, R, tr, h)'
  BY <1>5, <1>6, <1>9, <1>10, <1>11 DEF Replaying
<1>13. LogInv' /\ DeviceInv' /\ Unmounted' /\ mid_block' \in BOOLEAN
  BY <1>1, <1>3, ReplayFrame
<1> QED
  BY <1>3, <1>12, <1>13 DEF Inv

\* Verifying.
LEMMA InVerify ==
    ASSUME Inv, pc = "verifying"
    PROVE  \E u, R, tr, h :
             /\ Chained(u, R, tr, h) /\ VerifyInv /\ reader = tr[At(h)] /\ reader \in Readers
             /\ reader.offset = At(h) /\ h \in 1 .. JournalBlocks /\ Old(reader, h)
             /\ IsStream(u, R, tr) /\ Len(u) = At(h) /\ At(h) \in Nat /\ h \in Nat
<1>1. DeviceInv /\ \E u, R, tr, h : Replaying(u, R, tr, h)
  BY InReplay
<1>2. PICK u, R, tr, h : Replaying(u, R, tr, h)
  BY <1>1
<1>3. /\ Chained(u, R, tr, h) /\ VerifyInv /\ reader = tr[At(h)] /\ reader.offset = At(h)
  BY <1>2 DEF Replaying
<1>4. /\ At(h) \in Nat /\ h \in 1 .. JournalBlocks /\ h \in Nat
      /\ Len(u) = At(h) /\ IsStream(u, R, tr)
  BY <1>1, <1>3, ChainedSizes DEF Chained
<1>5. reader \in Readers /\ Old(reader, h)
  <2>1. At(h) \in 0 .. Len(u) /\ h \in 1 .. h
    BY <1>4
  <2> QED
    BY <1>3, <1>4, <2>1 DEF IsStream, Chained, History
<1> QED
  BY <1>3, <1>4, <1>5

\* The mismatch that is taken, and what it says.
LEMMA FirstMismatch ==
    ASSUME reader \in Readers, Ascending(reader.transactions), VerifyInv, Mismatches # {},
           NEW o, o = reader.transactions[Min(Mismatches)].offset
    PROVE  /\ o \in Nat /\ reader.flushed <= o /\ o < verify.journal_offset
           /\ \A w \in o + 1 .. verify.journal_offset : Blocked(reader, w)
           /\ \A i \in Pushed(reader) :
                BadData(i) /\ Dependency(reader, i) >= verify.journal_offset =>
                  reader.transactions[i].offset >= o
<1> DEFINE t == reader.transactions
           v == verify.journal_offset
           n == Min(Mismatches)
<1>1. n \in Mismatches /\ \A i \in Mismatches : n <= i
  <2>1. \A i \in Mismatches : i \in Pushed(reader)
    BY DEF Mismatches
  <2>2. Mismatches \in SUBSET Nat
    BY <2>1, PushedIs
  <2> QED
    BY <2>2, LeastOf
<1> HIDE DEF n
<1>2. /\ n \in Pushed(reader) /\ t[n].offset < v
      /\ Dependency(reader, n) >= v /\ BadData(n)
  BY <1>1 DEF Mismatches
<1>3. /\ n \in 1 .. Len(t) /\ n \in Nat /\ t[n].offset \in Nat /\ t[n].offset >= reader.flushed
  BY <1>2, PushedIs
<1>4. v \in Nat /\ verify.last_journal_offset \in Nat /\ reader.flushed \in Nat /\ o = t[n].offset
  BY DEF VerifyInv, Readers, n
<1>5. Dependency(reader, n) \in Nat
  BY <1>3, DependencySome
<1>6. ASSUME NEW w \in o + 1 .. v PROVE Blocked(reader, w)
  <2>1. Obstructs(reader, n, w)
    BY <1>2, <1>3, <1>4, <1>5 DEF Obstructs
  <2>2. data[BlockOf(t[n])] # t[n].txn.new.id
    BY <1>2 DEF BadData, BlockOf
  <2> QED
    BY <1>2, <2>1, <2>2 DEF Blocked
<1>7. ASSUME NEW i \in Pushed(reader), BadData(i), Dependency(reader, i) >= v PROVE t[i].offset >= o
  <2>1. i \in 1 .. Len(t) /\ i \in Nat /\ t[i].offset \in Nat
    BY PushedIs
  <2>2. Dependency(reader, i) \in Nat
    BY <2>1, DependencySome
  <2>3. CASE Dependency(reader, i) >= verify.last_journal_offset
    <3>1. t[i].offset >= v
      BY <1>7, <2>3 DEF VerifyInv
    <3> QED
      BY <3>1, <1>2, <1>3, <1>4, <2>1
  <2>4. CASE Dependency(reader, i) < verify.last_journal_offset /\ t[i].offset < v
    <3>1. i \in Mismatches
      BY <1>7, <2>4 DEF Mismatches
    <3>2. n <= i
      BY <1>1, <3>1
    <3>3. n = i \/ t[n].offset < t[i].offset
      BY <3>2, <1>3, <2>1 DEF Ascending
    <3> QED
      BY <3>3, <1>3, <1>4, <2>1
  <2>5. CASE ~(t[i].offset < v)
    BY <2>5, <2>1, <1>2, <1>3, <1>4
  <2> QED
    BY <2>2, <2>3, <2>4, <2>5, <1>4
<1> QED
  BY <1>2, <1>3, <1>4, <1>6, <1>7

\* Going back does not go further than it must.
LEMMA VerifyAgainKeeps ==
    ASSUME Inv, VerifyAgain
    PROVE  Inv'
<1>1. /\ LogInv /\ DeviceInv /\ Unmounted /\ mid_block \in BOOLEAN /\ pc = "verifying"
  BY InReplay DEF VerifyAgain
<1>2. PICK u, R, tr, h :
             /\ Chained(u, R, tr, h) /\ VerifyInv /\ reader = tr[At(h)] /\ reader \in Readers
             /\ reader.offset = At(h) /\ h \in 1 .. JournalBlocks /\ Old(reader, h)
             /\ IsStream(u, R, tr) /\ Len(u) = At(h) /\ At(h) \in Nat /\ h \in Nat
  BY <1>1, InVerify
<1> DEFINE o == reader.transactions[Min(Mismatches)].offset
           v == verify.journal_offset
<1>3. /\ Mismatches # {}
      /\ verify' = [journal_offset |-> o, last_journal_offset |-> v]
      /\ UNCHANGED <<device, pc, reader, inner, writer, in_flight, syncing, committing, allocator,
                     log, synced, history, bare_restart, next_id>>
  BY DEF VerifyAgain
<1>4. /\ o \in Nat /\ reader.flushed <= o /\ o < v
      /\ \A w \in o + 1 .. v : Blocked(reader, w)
      /\ \A i \in Pushed(reader) :
           BadData(i) /\ Dependency(reader, i) >= v => reader.transactions[i].offset >= o
  BY <1>2, <1>3, FirstMismatch DEF Old
<1> HIDE DEF o
<1>5. reader' = reader /\ data' = data /\ verify'.journal_offset = o /\ verify'.last_journal_offset = v
  BY <1>3 DEF device
<1>6. VerifyInv'
  <2>1. /\ v \in Nat /\ v <= reader.position /\ reader.position \in Nat
        /\ \A w \in v + 1 .. reader.position : Blocked(reader, w)
    BY <1>2 DEF VerifyInv, Readers
  <2>2. \A w \in o + 1 .. reader.position : Blocked(reader, w)
    BY <2>1, <1>4
  <2>3. \A w : Blocked(reader, w)' <=> Blocked(reader, w)
    BY <1>5 DEF Blocked
  <2>4. \A w \in o + 1 .. reader.position : Blocked(reader, w)'
    BY <2>2, <2>3
  <2>5. \A i : BadData(i)' <=> BadData(i)
    BY <1>5 DEF BadData
  <2>6. \A i \in Pushed(reader) :
           BadData(i)' /\ Dependency(reader, i) >= v => reader.transactions[i].offset >= o
    BY <1>4, <2>5
  <2>7. o <= reader.position
    BY <1>4, <2>1
  <2> QED
    BY <1>4, <1>5, <2>1, <2>4, <2>6, <2>7 DEF VerifyInv
<1>7. Chained(u, R, tr, h)'
  BY <1>2, <1>3, ChainedFrame DEF device, history
<1>8. Replaying(u, R, tr, h)'
  <2>1. At(h) \in 0 .. At(h)
    BY <1>2
  <2> QED
    BY <1>2, <1>5, <1>6, <1>7, <2>1 DEF Replaying
<1>9. LogInv' /\ DeviceInv' /\ Unmounted' /\ mid_block' \in BOOLEAN
  BY <1>1, <1>3, ReplayFrame
<1> QED
  BY <1>1, <1>3, <1>8, <1>9 DEF Inv

-----------------------------------------------------------------------------
(* Mounting: what is applied was committed, and includes what was synced. *)

Verified(u, R, tr, h) ==
    /\ LogInv /\ DeviceInv /\ Unmounted /\ mid_block \in BOOLEAN
    /\ Chained(u, R, tr, h) /\ VerifyInv /\ Mismatches = {}
    /\ reader = tr[At(h)] /\ reader \in Readers
    /\ h \in 1 .. JournalBlocks /\ h \in Nat /\ At(h) \in Nat
    /\ IsStream(u, R, tr) /\ Len(u) = At(h)
    /\ Old(reader, h)

\* What is known when replay() has verified the data.
LEMMA InMount ==
    ASSUME Inv, pc = "verifying", Mismatches = {}
    PROVE  \E u, R, tr, h : Verified(u, R, tr, h)
<1>1. /\ LogInv /\ DeviceInv /\ Unmounted /\ mid_block \in BOOLEAN
  BY InReplay
<1>2. PICK u, R, tr, h :
             /\ Chained(u, R, tr, h) /\ VerifyInv /\ reader = tr[At(h)] /\ reader \in Readers
             /\ reader.offset = At(h) /\ h \in 1 .. JournalBlocks /\ Old(reader, h)
             /\ IsStream(u, R, tr) /\ Len(u) = At(h) /\ At(h) \in Nat /\ h \in Nat
  BY InVerify
<1> QED
  BY <1>1, <1>2 DEF Verified

\* After a crash a block holds what it holds.
LEMMA LostIs ==
    ASSUME NEW u, NEW R, NEW tr, NEW h, Verified(u, R, tr, h)
    PROVE  /\ \A b \in Blocks : unstable.data[b] = {data[b]}
           /\ \A i \in Indices : unstable.journal[i] = {journal[i]}
           /\ \A entry : BlockOf(entry) \in Blocks =>
                (Lost(entry) <=> data[BlockOf(entry)] # entry.txn.new.id)
<1>1. unstable = Durable(journal, data)
  BY DEF Verified, Chained
<1>2. \A b \in Blocks : unstable.data[b] = {data[b]}
  BY <1>1 DEF Durable
<1>3. \A i \in Indices : unstable.journal[i] = {journal[i]}
  BY <1>1 DEF Durable
<1>4. ASSUME NEW entry, BlockOf(entry) \in Blocks
      PROVE  Lost(entry) <=> data[BlockOf(entry)] # entry.txn.new.id
  BY <1>2, <1>4 DEF Lost
<1> QED
  BY <1>2, <1>3, <1>4

\* So what is blocked is barred.
LEMMA BarredIs ==
    ASSUME NEW u, NEW R, NEW tr, NEW h, Verified(u, R, tr, h), NEW w
    PROVE  Barred(reader, w) <=> Blocked(reader, w)
<1>1. \A i \in Pushed(reader) : BlockOf(reader.transactions[i]) \in Blocks
  BY PushedIs DEF Verified
<1>2. \A i \in Pushed(reader) : Lost(reader.transactions[i]) <=>
         data[BlockOf(reader.transactions[i])] # reader.transactions[i].txn.new.id
  BY <1>1, LostIs
<1> QED
  BY <1>2 DEF Barred, Blocked

\* verify() ends at an offset up to which the data is good.
LEMMA GoodData ==
    ASSUME NEW u, NEW R, NEW tr, NEW h, Verified(u, R, tr, h)
    PROVE  /\ \A i \in Pushed(reader) :
                reader.transactions[i].offset < verify.journal_offset
                  /\ Dependency(reader, i) >= verify.journal_offset => ~BadData(i)
           /\ ~Blocked(reader, verify.journal_offset)
<1>1. ASSUME NEW i \in Pushed(reader), reader.transactions[i].offset < verify.journal_offset,
             Dependency(reader, i) >= verify.journal_offset, BadData(i)
      PROVE  FALSE
  <2>1. i \notin Mismatches
    BY DEF Verified
  <2>2. ~(Dependency(reader, i) < verify.last_journal_offset)
    BY <1>1, <2>1 DEF Mismatches
  <2>3. /\ verify.last_journal_offset \in Nat /\ verify.journal_offset \in Nat
        /\ i \in Nat /\ reader.transactions[i].offset \in Nat /\ reader \in Readers
    BY PushedIs DEF Verified, VerifyInv
  <2>4. Dependency(reader, i) \in Nat
    BY <2>3, DependencySome
  <2>5. reader.transactions[i].offset >= verify.journal_offset
    BY <1>1, <2>2, <2>3, <2>4 DEF Verified, VerifyInv
  <2> QED
    BY <1>1, <2>3, <2>5
<1>2. ASSUME Blocked(reader, verify.journal_offset) PROVE FALSE
  <2>1. PICK i \in Pushed(reader) :
          /\ Obstructs(reader, i, verify.journal_offset)
          /\ data[BlockOf(reader.transactions[i])] # reader.transactions[i].txn.new.id
    BY <1>2 DEF Blocked
  <2>2. BadData(i)
    BY <2>1 DEF BadData, BlockOf
  <2>3. verify.journal_offset \in Nat /\ i \in Nat /\ reader \in Readers
    BY PushedIs DEF Verified, VerifyInv
  <2>4. Dependency(reader, i) \in Nat
    BY <2>3, DependencySome
  <2> QED
    BY <2>1, <2>2, <2>3, <2>4, <1>1 DEF Obstructs
<1> QED
  BY <1>1, <1>2

\* The transactions that are recovered.
LEMMA RecoveredIs ==
    ASSUME NEW u, NEW R, NEW tr, NEW h, Verified(u, R, tr, h)
    PROVE  /\ Recovered \in Seq(Entries)
           /\ Len(Recovered) \in 1 .. Len(reader.transactions)
           /\ Len(Recovered) \in 1 .. Len(log)
           /\ \A i \in 1 .. Len(Recovered) :
                Recovered[i] = reader.transactions[i] /\ Recovered[i] = log[i]
           /\ \A i \in 1 .. Len(reader.transactions) :
                i <= Len(Recovered) <=> reader.transactions[i].offset < verify.journal_offset
           /\ ~mid_block => synced + 1 <= Len(Recovered)
<1> DEFINE t == reader.transactions
           v == verify.journal_offset
           n == Len(Recovered)
<1>1. /\ t \in Seq(Entries) /\ v \in Nat /\ Ascending(t) /\ Len(t) \in Nat
      /\ v <= reader.position /\ reader.flushed <= v /\ reader.flushed \in Nat /\ reader.position \in Nat
      /\ SuperBlockOffset <= reader.flushed /\ Len(t) >= 1 /\ t[1] = Entry(0, NoTxn)
  BY DEF Verified, VerifyInv, Old, Readers
<1>2. /\ Recovered \in Seq(Entries) /\ n \in 0 .. Len(t)
      /\ \A i \in 1 .. n : Recovered[i] = t[i]
      /\ \A i \in 1 .. Len(t) : i <= n <=> t[i].offset < v
  <2> HIDE DEF t, v
  <2> QED
    BY <1>1, UpToAscending DEF Recovered, t, v
<1> HIDE DEF t, v, n
<1>3. n >= 1
  <2>1. t[1].offset = 0
    BY <1>1 DEF Entry
  <2>2. 0 < v
    BY <1>1, Constants
  <2> QED
    BY <1>1, <1>2, <2>1, <2>2
<1>4. \A i \in 1 .. Len(t) : t[i].offset < v => i \in 1 .. Len(log) /\ t[i] = log[i]
  <2>1. ~Barred(reader, v)
    BY BarredIs, GoodData DEF v
  <2>2. v \in 0 .. reader.position
    BY <1>1
  <2>3. UpperOK(reader)
    BY DEF Verified, Old
  <2> QED
    BY <2>1, <2>2, <2>3 DEF UpperOK, t
<1>5. \A i \in 1 .. n : t[i] = log[i] /\ i \in 1 .. Len(log)
  BY <1>2, <1>4
<1>6. n \in 1 .. Len(log)
  BY <1>2, <1>3, <1>5
<1>7. ASSUME ~mid_block PROVE synced + 1 <= n
  <2>1. PICK w \in 0 .. At(h) : Recoverable(reader, w)
    BY <1>7 DEF Verified, Chained
  <2>2. /\ w \in Nat /\ w <= reader.position /\ ~Blocked(reader, w)
        /\ synced + 1 <= Len(t) /\ t[synced + 1].offset < w
    BY <2>1 DEF Recoverable, t
  <2>3. w <= v
    <3>1. ASSUME w > v PROVE FALSE
      <4>1. w \in v + 1 .. reader.position
        BY <3>1, <2>2, <1>1
      <4> QED
        BY <4>1, <2>2 DEF Verified, VerifyInv, v
    <3> QED
      BY <3>1, <2>2, <1>1
  <2>4. synced \in Nat
    BY DEF Verified, LogInv
  <2>5. synced + 1 \in 1 .. Len(t)
    BY <1>1, <2>2, <2>4
  <2>6. t[synced + 1].offset < v
    <3>1. t[synced + 1].offset \in Nat
      BY <1>1, <2>5, EntryOf
    <3> QED
      BY <3>1, <2>2, <2>3, <1>1
  <2> QED
    BY <1>2, <2>5, <2>6
<1> QED
  BY <1>1, <1>2, <1>3, <1>5, <1>6, <1>7 DEF t, v, n

\* What an older part of the stream says is barred stays so: here the part up
\* to block q would let more through than the whole does.
LEMMA StillBarred ==
    ASSUME NEW u, NEW R, NEW tr, NEW h, Verified(u, R, tr, h),
           NEW r \in Readers, NEW q \in 1 .. JournalBlocks, Old(r, q), Pair(r, reader),
           NEW w \in 0 .. r.position,
           NEW i \in 1 .. Len(r.transactions),
           r.transactions[i].offset < w, i > Len(Recovered)
    PROVE  Barred(r, w)
<1> SUFFICES ASSUME ~Barred(r, w) PROVE FALSE
  OBVIOUS
<1> DEFINE t == reader.transactions
           s == r.transactions
           v == verify.journal_offset
           n == Len(Recovered)
<1>1. /\ t \in Seq(Entries) /\ s \in Seq(Entries) /\ v \in Nat /\ Len(t) \in Nat /\ Len(s) \in Nat
      /\ reader \in Readers /\ reader.flushed \in Nat /\ reader.position \in Nat
      /\ r.flushed \in Nat /\ r.position \in Nat /\ w \in Nat /\ w <= r.position
      /\ r.flushed <= reader.flushed /\ r.position <= reader.position
      /\ Ascending(t) /\ Ascending(s) /\ Tidy(reader)
  BY SMTT(20) DEF Verified, VerifyInv, Old, Readers, Pair
<1>2. /\ n \in 1 .. Len(t)
      /\ \A j \in 1 .. Len(t) : j <= n <=> t[j].offset < v
  BY RecoveredIs
<1>3. ASSUME NEW j \in 1 .. Len(s), s[j].offset < w
      PROVE  j \in 1 .. Len(t) /\ t[j] = s[j]
  <2>1. j \in 1 .. Len(log) /\ s[j] = log[j]
    BY <1>3 DEF Old, UpperOK
  <2>2. j <= Len(t) /\ t[j] = log[j]
    BY <2>1 DEF Pair
  <2> QED
    BY <2>1, <2>2, <1>1
<1> HIDE DEF t, s, v, n
<1>4. /\ i \in 1 .. Len(s) /\ i \in 1 .. Len(t) /\ t[i] = s[i] /\ s[i].offset < w
      /\ ~(t[i].offset < v) /\ s[i].offset \in Nat
  <2>1. i \in 1 .. Len(s) /\ s[i].offset < w
    BY DEF s
  <2>2. i \in 1 .. Len(t) /\ t[i] = s[i]
    BY <2>1, <1>3
  <2>3. i > n
    BY DEF n
  <2>4. s[i].offset \in Nat
    BY <1>1, <2>1, EntryOf
  <2> QED
    BY <2>1, <2>2, <2>3, <2>4, <1>2
<1> DEFINE J == {j \in 1 .. Len(t) : t[j].offset < w /\ ~(j <= Len(s) /\ s[j] = t[j])}
<1>5. \A j \in J : \A k \in 1 .. Len(s) : s[k].offset < t[j].offset
  <2> TAKE j \in J
  <2> QED
    BY DEF Pair, s, t
\* The offset up to which the two agree.
<1> DEFINE Agree(x) == /\ v < x /\ x <= w
                       /\ \A j \in 1 .. Len(t) : t[j].offset < x => j <= Len(s) /\ s[j] = t[j]
                       /\ x < w => \A k \in 1 .. Len(s) : s[k].offset < x
<1>6. \E x \in Nat : Agree(x)
  <2>1. CASE J = {}
    <3>1. v < w
      BY <1>4, <1>1
    <3>2. \A j \in 1 .. Len(t) : t[j].offset < w => j <= Len(s) /\ s[j] = t[j]
      BY <2>1
    <3>3. Agree(w)
      BY <3>1, <3>2, <1>1
    <3> HIDE DEF Agree
    <3> QED
      BY <3>3, <1>1
  <2>2. CASE J # {}
    <3>0. J \in SUBSET Nat
      BY <1>1
    <3>1. Min(J) \in J /\ \A j \in J : Min(J) <= j
      <4> HIDE DEF J
      <4> QED
        BY <2>2, <3>0, LeastOf
    <3> DEFINE j0 == Min(J)
               x == t[j0].offset
    <3> HIDE DEF j0
    <3>2. j0 \in J /\ \A j \in J : j0 <= j
      BY <3>1 DEF j0
    <3>3. j0 \in 1 .. Len(t) /\ x \in Nat /\ x < w
      BY <3>2, <1>1, EntryOf
    <3>4. \A k \in 1 .. Len(s) : s[k].offset < x
      BY <3>2, <1>5
    <3>5. v < x
      <4>1. s[i].offset < x
        BY <3>4, <1>4
      <4> QED
        BY <4>1, <1>4, <1>1, <3>3, SMTT(20)
    <3>6. ASSUME NEW j \in 1 .. Len(t), t[j].offset < x PROVE j <= Len(s) /\ s[j] = t[j]
      <4>1. t[j].offset \in Nat
        BY <1>1, EntryOf
      <4>2. t[j].offset < w
        BY <4>1, <3>3, <3>6, <1>1, SMTT(20)
      <4>3. j < j0
        <5>1. ASSUME j0 <= j PROVE FALSE
          <6>1. j0 = j \/ t[j0].offset < t[j].offset
            BY <5>1, <3>3, <1>1 DEF Ascending
          <6> QED
            BY <6>1, <3>6, <4>1, <3>3
        <5> QED
          BY <5>1, <3>3
      <4>4. j \notin J
        BY <4>3, <3>2, <3>3
      <4> QED
        BY <4>2, <4>4
    <3> HIDE DEF x
    <3>7. Agree(x)
      <4>1. x <= w
        BY <3>3, <1>1
      <4> QED
        BY <4>1, <3>4, <3>5, <3>6
    <3> HIDE DEF Agree
    <3> QED
      BY <3>7, <3>3
  <2> QED
    BY <2>1, <2>2
<1> HIDE DEF J
<1>7. PICK x \in Nat : Agree(x)
  BY <1>6
<1>8. Blocked(reader, x)
  <2>1. x \in v + 1 .. reader.position
    BY <1>7, <1>1
  <2> QED
    BY <2>1 DEF Verified, VerifyInv, v
<1>9. PICK j \in Pushed(reader) :
         Obstructs(reader, j, x) /\ data[BlockOf(t[j])] # t[j].txn.new.id
  BY <1>8 DEF Blocked, t
<1>10. /\ j \in 1 .. Len(t) /\ j \in Nat /\ t[j].offset \in Nat /\ t[j].offset >= reader.flushed
       /\ t[j].txn.new # Hole /\ BlockOf(t[j]) \in Blocks
       /\ t[j].offset < x /\ x <= Dependency(reader, j)
  BY <1>1, <1>9, PushedIs DEF Obstructs, t
<1>11. j \in 1 .. Len(s) /\ s[j] = t[j]
  BY <1>7, <1>10, <1>1
<1>12. j \in Pushed(r)
  <2>1. s[j].offset >= r.flushed /\ s[j].txn.new # Hole
    BY <1>10, <1>11, <1>1, SMTT(20)
  <2>2. DOMAIN s = 1 .. Len(s)
    BY <1>1, LenProperties
  <2> QED
    BY <2>1, <2>2, <1>11 DEF Pushed, s
<1>13. Lost(s[j])
  BY <1>9, <1>10, <1>11, LostIs
<1>14. w <= Dependency(r, j)
  <2>1. /\ Dependency(r, j) \in Nat
        /\ \/ Dependency(r, j) = NoOffset
           \/ \E k \in j + 1 .. Len(s) :
                s[k].txn.old = BlockOf(s[j]) /\ Dependency(r, j) = s[k].offset
    BY <1>10, DependencySome DEF s
  <2>2. CASE Dependency(r, j) = NoOffset
    <3>1. r.position <= At(q)
      BY DEF Old
    <3>2. q \in Nat /\ JournalBlocks \in Nat /\ q <= JournalBlocks /\ At(q) \in Nat
      BY SizesAssumption, AtNext
    <3>3. At(q) <= EndOfFile
      BY <3>2, AtMinus, AtSome
    <3> QED
      BY <2>2, <3>1, <3>2, <3>3, <1>1, Constants
  <2>3. ASSUME NEW k \in j + 1 .. Len(s), s[k].txn.old = BlockOf(s[j]),
               Dependency(r, j) = s[k].offset, ~(w <= Dependency(r, j))
        PROVE  FALSE
    <3>1. k \in 1 .. Len(s) /\ s[k].offset \in Nat
      <4>1. k \in 1 .. Len(s)
        BY <1>10, <1>1
      <4> QED
        BY <4>1, <1>1, EntryOf
    <3>2. s[k].offset < w
      BY <2>3, <3>1, <1>1
    <3>3. k \in 1 .. Len(t) /\ t[k] = s[k]
      BY <3>1, <3>2, <1>3 DEF s, t
    <3>4. k \in j + 1 .. Len(t)
      BY <3>3, <1>10, <1>1
    <3>5. Dependency(reader, j) = t[k].offset
      <4>1. t[k].txn.old = BlockOf(t[j])
        BY <2>3, <3>3, <1>11
      <4> QED
        BY <1>1, <1>9, <3>4, <4>1, DependencyIs DEF t
    <3>6. x <= s[k].offset
      BY <3>5, <3>3, <1>10
    <3>7. x < w
      BY <3>6, <3>2, <3>1, <1>1, <1>7
    <3>8. s[k].offset < x
      BY <3>7, <3>1, <1>7
    <3> QED
      BY <3>6, <3>8, <3>1
  <2> QED
    BY <2>1, <2>2, <2>3
<1>15. Obstructs(r, j, w)
  <2>1. s[j].offset < w
    BY <1>7, <1>10, <1>11, <1>1
  <2> QED
    BY <2>1, <1>14 DEF Obstructs, s
<1> QED
  BY <1>12, <1>13, <1>15 DEF Barred, s

\* The blocks before the mount, for the log that it recovers.
LEMMA MountHistory ==
    ASSUME NEW u, NEW R, NEW tr, NEW h, Verified(u, R, tr, h),
           log' = Recovered, UNCHANGED <<unstable, next_id>>
    PROVE  History(tr, h)'
<1>1. /\ Len(Recovered) \in 1 .. Len(log)
      /\ \A i \in 1 .. Len(Recovered) : Recovered[i] = log[i]
  BY RecoveredIs
<1>2. History(tr, h)
  BY DEF Verified, Chained
<1>3. \A q \in 1 .. h : q \in 1 .. JournalBlocks /\ tr[At(q)] \in Readers
  <2> TAKE q \in 1 .. h
  <2>1. q \in Nat /\ q <= h /\ h \in Nat /\ h <= JournalBlocks /\ JournalBlocks \in Nat
    BY SizesAssumption DEF Verified
  <2>2. At(q) \in Nat /\ At(q) <= At(h) /\ Len(u) = At(h)
    BY <2>1, AtMinus, AtNext DEF Verified
  <2>3. At(q) \in 0 .. Len(u)
    BY <2>2
  <2> QED
    BY <2>1, <2>3 DEF Verified, IsStream
<1>4. ASSUME NEW q \in 1 .. h PROVE Old(tr[At(q)], q)'
  <2> DEFINE r == tr[At(q)]
  <2>1. Old(r, q) /\ Pair(r, reader)
    <3>1. h \in 1 .. h /\ q <= h
      BY DEF Verified
    <3> QED
      BY <3>1, <1>2 DEF History, Verified
  <2> HIDE DEF r
  <2>2. r \in Readers /\ q \in 1 .. JournalBlocks
    BY <1>3 DEF r
  <2>3. ASSUME NEW w \in 0 .. r.position, ~Barred(r, w),
               NEW i \in 1 .. Len(r.transactions), r.transactions[i].offset < w
        PROVE  i \in 1 .. Len(Recovered) /\ r.transactions[i] = Recovered[i]
    <3>1. ~(i > Len(Recovered))
      BY <2>1, <2>2, <2>3, StillBarred
    <3>2. i \in 1 .. Len(Recovered)
      BY <3>1, <1>1
    <3>3. r.transactions[i] = log[i]
      BY <2>1, <2>3 DEF Old, UpperOK
    <3> QED
      BY <3>2, <3>3, <1>1
  <2>4. \A w : Barred(r, w)' <=> Barred(r, w)
    BY DEF Barred, Lost
  <2>5. UpperOK(r)'
    BY <2>3, <2>4 DEF UpperOK
  <2>6. Old(r, q)'
    BY <2>1, <2>5 DEF Old
  <2> QED
    BY <2>6 DEF r
<1>5. ASSUME NEW q \in 1 .. h, NEW p \in 1 .. h, q <= p PROVE Pair(tr[At(q)], tr[At(p)])'
  <2>1. Pair(tr[At(q)], tr[At(p)])
    BY <1>2, <1>5 DEF History
  <2> DEFINE r == tr[At(q)]
             s == tr[At(p)]
  <2>2. ASSUME NEW i \in 1 .. Len(r.transactions), i <= Len(Recovered),
               r.transactions[i] = Recovered[i]
        PROVE  i <= Len(s.transactions) /\ s.transactions[i] = Recovered[i]
    <3>1. i \in 1 .. Len(Recovered) /\ i <= Len(log)
      BY <2>2, <1>1
    <3>2. Recovered[i] = log[i]
      BY <3>1, <1>1
    <3> QED
      BY <2>1, <2>2, <3>1, <3>2 DEF Pair
  <2> QED
    BY <2>1, <2>2 DEF Pair
<1> QED
  BY <1>4, <1>5 DEF History

\* A prefix of the log is a log.
LEMMA LogPrefix ==
    ASSUME LogInv, log' \in Seq(Entries), Len(log') \in 1 .. Len(log),
           \A i \in 1 .. Len(log') : log'[i] = log[i],
           synced' = Len(log') - 1, next_id' = next_id
    PROVE  LogInv'
<1> DEFINE n == Len(log')
<1>1. n \in Nat /\ Len(log) \in Nat /\ n >= 1 /\ n <= Len(log) /\ synced' \in Nat /\ synced' + 1 <= n
  BY DEF LogInv
<1>2. \A i \in 1 .. n : i \in 1 .. Len(log) /\ log'[i] = log[i]
  BY <1>1
<1>3. log'[1] = Entry(0, NoTxn)
  BY <1>1, <1>2 DEF LogInv
<1>4. Ascending(log')
  BY <1>2 DEF Ascending, LogInv
<1>5. \A i \in 2 .. n : log'[i].txn \in Txn /\ log'[i].txn.id < next_id
  <2> TAKE i \in 2 .. n
  <2>1. i \in 1 .. n /\ i \in 2 .. Len(log)
    BY <1>1
  <2> QED
    BY <1>2, <2>1 DEF LogInv
<1>6. \A i \in 1 .. n : log'[i].txn.new.id < next_id
  BY <1>2 DEF LogInv
<1>7. ASSUME NEW i \in 1 .. n, NEW k \in 1 .. n, i < k, BlockOf(log'[i]) # NoBlock,
             log'[k].txn.old = BlockOf(log'[i]) \/ BlockOf(log'[k]) = BlockOf(log'[i])
      PROVE  \E j \in i + 1 .. k : log'[j].txn.file = log'[i].txn.file
  <2>1. \E j \in i + 1 .. k : log[j].txn.file = log[i].txn.file
    BY <1>2, <1>7 DEF LogInv
  <2>2. \A j \in i + 1 .. k : j \in 1 .. n
    BY <1>1
  <2> QED
    BY <2>1, <2>2, <1>2
<1>8. ASSUME NEW i \in 1 .. n, NEW j \in 1 .. n, i < j, BlockOf(log'[i]) # NoBlock,
             log'[i].txn.file = log'[j].txn.file
      PROVE  \E k \in i + 1 .. j : log'[k].txn.old = BlockOf(log'[i])
  <2>1. \E k \in i + 1 .. j : log[k].txn.old = BlockOf(log[i])
    BY <1>2, <1>8 DEF LogInv
  <2>2. \A k \in i + 1 .. j : k \in 1 .. n
    BY <1>1
  <2> QED
    BY <2>1, <2>2, <1>2
<1> QED
  BY <1>1, <1>3, <1>4, <1>5, <1>6, <1>7, <1>8 DEF LogInv

\* The transactions of the log.
LEMMA LogTxn ==
    ASSUME LogInv, NEW i \in 1 .. Len(log)
    PROVE  /\ log[i] \in Entries /\ log[i].offset \in Nat /\ log[i].txn \in AnyTxn
           /\ log[i].txn.new \in Extents
           /\ log[i].txn.new.id \in Nat /\ log[i].txn.new.id < next_id
           /\ BlockOf(log[i]) = log[i].txn.new.block
           /\ BlockOf(log[i]) # NoBlock => BlockOf(log[i]) \in Blocks /\ log[i].txn.new # Hole
           /\ log[i].txn.new # Hole => BlockOf(log[i]) # NoBlock
           /\ log[i].txn.old = NoBlock \/ log[i].txn.old \in Blocks
<1>1. log \in Seq(Entries) /\ log[i].txn.new.id < next_id
  BY DEF LogInv
<1>2. log[i] \in Entries /\ log[i].offset \in Nat /\ log[i].txn \in AnyTxn
  BY <1>1, EntryOf
<1>3. log[i].txn.new \in Extents /\ (log[i].txn.old = NoBlock \/ log[i].txn.old \in Blocks)
  BY <1>2, TxnOf
<1> QED
  BY <1>1, <1>2, <1>3, ExtentOf, Constants DEF BlockOf

\* What a log leaves of a file.
LEMMA AppliedIs ==
    ASSUME NEW t \in Seq(Entries), NEW f
    PROVE  \/ Applied(t, f) = Hole /\ \A i \in 1 .. Len(t) : t[i].txn.file # f
           \/ \E i \in 1 .. Len(t) : /\ t[i].txn.file = f
                                     /\ \A j \in i + 1 .. Len(t) : t[j].txn.file # f
                                     /\ Applied(t, f) = t[i].txn.new
<1> DEFINE on == {i \in DOMAIN t : t[i].txn.file = f}
<1>1. DOMAIN t = 1 .. Len(t) /\ Len(t) \in Nat
  BY LenProperties
<1>2. CASE on = {}
  BY <1>1, <1>2 DEF Applied
<1>3. CASE on # {}
  <2>1. on \in SUBSET (0 .. Len(t))
    BY <1>1
  <2>2. Max(on) \in on /\ \A i \in on : Max(on) >= i
    <3> HIDE DEF on
    <3> QED
      BY <1>1, <1>3, <2>1, GreatestOf
  <2>3. Applied(t, f) = t[Max(on)].txn.new
    BY <1>3 DEF Applied
  <2> DEFINE i == Max(on)
  <2>4. i \in 1 .. Len(t) /\ t[i].txn.file = f
    BY <2>2, <1>1
  <2>5. \A j \in i + 1 .. Len(t) : t[j].txn.file # f
    <3> SUFFICES ASSUME NEW j \in i + 1 .. Len(t), t[j].txn.file = f PROVE FALSE
      OBVIOUS
    <3> HIDE DEF i
    <3>1. j \in 1 .. Len(t) /\ j > i
      BY <2>4, <1>1
    <3>2. j \in on
      BY <3>1, <1>1
    <3>3. i >= j
      BY <2>2, <3>2 DEF i
    <3> QED
      BY <3>1, <3>3, <2>4
  <2> HIDE DEF i
  <2>6. Applied(t, f) = t[i].txn.new
    BY <2>3 DEF i
  <2> QED
    BY <2>4, <2>5, <2>6
<1> QED
  BY <1>2, <1>3

\* The allocator after replay.
LEMMA MountAlloc ==
    ASSUME NEW t \in Seq(Entries), log' = t,
           extents' = [f \in Files |-> Applied(t, f)],
           pending' = [f \in Files |-> Hole], deallocated' = {}
    PROVE  AllocInv'
<1>1. ASSUME NEW f \in Files
      PROVE  /\ Applied(t, f) \in Extents
             /\ \/ Applied(t, f) = Hole /\ \A i \in 1 .. Len(t) : t[i].txn.file # f
                \/ \E i \in 1 .. Len(t) : IsLast(i, f)' /\ Applied(t, f) = t[i].txn.new
  <2>1. CASE Applied(t, f) = Hole /\ \A i \in 1 .. Len(t) : t[i].txn.file # f
    BY <2>1, Constants
  <2>2. ASSUME NEW i \in 1 .. Len(t), t[i].txn.file = f,
               \A j \in i + 1 .. Len(t) : t[j].txn.file # f,
               Applied(t, f) = t[i].txn.new
        PROVE  Applied(t, f) \in Extents /\ IsLast(i, f)'
    <3>1. t[i].txn \in AnyTxn
      BY EntryOf
    <3> QED
      BY <2>2, <3>1, TxnOf DEF IsLast
  <2> QED
    BY <2>1, <2>2, AppliedIs
<1>2. pending' \in [Files -> Extents] /\ extents' \in [Files -> Extents]
  BY <1>1, Constants
<1>3. \A f \in Files : pending'[f] = Hole /\ extents'[f] = Applied(t, f)
  OBVIOUS
<1>4. (\A f \in Files : pending[f] # Hole =>
         /\ \A e \in Files : extents[e].block # pending[f].block
         /\ \A e \in Files : e # f => pending[e].block # pending[f].block
         /\ data[pending[f].block] = pending[f].id
         /\ pending[f].id < next_id)'
  BY <1>3
<1>5. (\A f \in Files :
         \/ extents[f] = Hole /\ \A i \in 1 .. Len(log) : log[i].txn.file # f
         \/ \E i \in 1 .. Len(log) : IsLast(i, f) /\ extents[f] = log[i].txn.new)'
  BY <1>1, <1>3
<1> QED
  BY <1>2, <1>4, <1>5 DEF AllocInv

\* The data of what is recovered is there, or given up again by what is recovered.
LEMMA MountData ==
    ASSUME NEW u, NEW R, NEW tr, NEW h, Verified(u, R, tr, h), ~mid_block,
           log' = Recovered, UNCHANGED <<data, unstable>>,
           NEW x \in Nat, verify.journal_offset <= x
    PROVE  DataDurable(x)' /\ DataThere(x)'
<1> DEFINE t == reader.transactions
           v == verify.journal_offset
           n == Len(Recovered)
<1>1. /\ Recovered \in Seq(Entries) /\ n \in 1 .. Len(t)
      /\ \A i \in 1 .. n : Recovered[i] = t[i]
      /\ \A i \in 1 .. Len(t) : i <= n <=> t[i].offset < v
  BY RecoveredIs
<1>2. /\ t \in Seq(Entries) /\ v \in Nat /\ Len(t) \in Nat /\ reader \in Readers
      /\ v <= reader.position /\ reader.flushed <= v /\ reader.flushed \in Nat /\ reader.position \in Nat
      /\ DOMAIN t = 1 .. Len(t)
  BY LenProperties DEF Verified, VerifyInv, Readers
<1>3. PICK w \in 0 .. At(h) : Recoverable(reader, w)
  BY DEF Verified, Chained
<1>4. w \in Nat /\ w <= v
  <2>1. w \in Nat /\ w <= reader.position /\ ~Blocked(reader, w)
    BY <1>3 DEF Recoverable
  <2>2. ASSUME w > v PROVE FALSE
    <3>1. w \in v + 1 .. reader.position
      BY <2>1, <2>2, <1>2
    <3> QED
      BY <3>1, <2>1 DEF Verified, VerifyInv
  <2> QED
    BY <2>1, <2>2, <1>2
<1> HIDE DEF t, v, n
\* k of the recovered log.
<1>5. ASSUME NEW i \in 1 .. n, NEW k \in i + 1 .. Len(t), t[k].txn.old = BlockOf(t[i]),
             t[k].offset < v
      PROVE  Freed(i, x)'
  <2>1. k \in 1 .. Len(t) /\ t[k].offset \in Nat
    <3>1. k \in 1 .. Len(t)
      BY <1>1, <1>2
    <3> QED
      BY <3>1, <1>2, EntryOf
  <2>2. k \in i + 1 .. n /\ k \in 1 .. n
    BY <2>1, <1>1, <1>2, <1>5
  <2>3. log'[k].txn.old = BlockOf(log'[i]) /\ log'[k].offset < x
    <3>1. log'[k] = t[k] /\ log'[i] = t[i]
      BY <2>2, <1>1 DEF n
    <3>2. v <= x
      BY DEF v
    <3> QED
      BY <3>1, <3>2, <1>5, <2>1, <1>2
  <2>4. Len(log') = n
    BY DEF n
  <2> QED
    BY <2>2, <2>3, <2>4 DEF Freed
<1>6. ASSUME NEW i \in 1 .. n, BlockOf(t[i]) # NoBlock
      PROVE  \/ data[BlockOf(t[i])] = t[i].txn.new.id
             \/ Freed(i, x)'
  <2>1. i \in 1 .. Len(t) /\ t[i].offset < v /\ t[i].offset \in Nat
    <3>1. i \in 1 .. Len(t) /\ i <= n
      BY <1>1, <1>2
    <3>2. t[i].offset < v
      BY <1>1, <3>1
    <3> QED
      BY <3>1, <3>2, <1>2, EntryOf
  <2>2. CASE t[i].offset < reader.flushed
    <3>1. \/ data[BlockOf(t[i])] = t[i].txn.new.id
          \/ \E k \in i + 1 .. Len(t) : t[k].txn.old = BlockOf(t[i]) /\ t[k].offset < w
      BY <1>3, <1>6, <2>1, <2>2 DEF Recoverable, t
    <3>2. ASSUME NEW k \in i + 1 .. Len(t), t[k].txn.old = BlockOf(t[i]), t[k].offset < w
          PROVE  Freed(i, x)'
      <4>1. k \in 1 .. Len(t)
        BY <2>1, <1>2
      <4>2. t[k].offset \in Nat
        BY <4>1, <1>2, EntryOf
      <4>3. t[k].offset < v
        BY <4>2, <1>2, <1>4, <3>2
      <4> QED
        BY <4>3, <3>2, <1>5
    <3> QED
      BY <3>1, <3>2
  <2>3. CASE ~(t[i].offset < reader.flushed)
    <3>1. t[i].txn.new # Hole
      BY <1>6, Constants DEF BlockOf
    <3>2. i \in Pushed(reader)
      BY <2>1, <2>3, <3>1, <1>2 DEF Pushed, t
    <3>3. /\ Dependency(reader, i) \in Nat
          /\ \/ Dependency(reader, i) = NoOffset
             \/ \E k \in i + 1 .. Len(t) :
                  t[k].txn.old = BlockOf(t[i]) /\ Dependency(reader, i) = t[k].offset
      BY <1>2, <2>1, DependencySome DEF t
    <3>4. CASE Dependency(reader, i) >= v
      <4>1. ~BadData(i)
        BY <3>2, <3>4, <2>1, GoodData DEF t, v
      <4> QED
        BY <4>1 DEF BadData, BlockOf, t
    <3>5. CASE Dependency(reader, i) < v
      <4>1. Dependency(reader, i) # NoOffset
        <5>1. reader.position <= EndOfFile
          <6>1. reader.position <= At(h) /\ At(h) \in Nat
            BY DEF Verified, Old
          <6>2. h \in Nat /\ JournalBlocks \in Nat /\ h <= JournalBlocks
            BY SizesAssumption DEF Verified
          <6>3. At(h) <= EndOfFile
            BY <6>2, AtMinus, AtSome
          <6> QED
            BY <6>1, <6>3, <1>2, Constants
        <5> QED
          BY <5>1, <3>5, <1>2, Constants
      <4>2. PICK k \in i + 1 .. Len(t) :
                  t[k].txn.old = BlockOf(t[i]) /\ Dependency(reader, i) = t[k].offset
        BY <3>3, <4>1
      <4> QED
        BY <4>2, <3>5, <1>5
    <3> QED
      BY <3>3, <3>4, <3>5, <1>2
  <2> QED
    BY <2>2, <2>3
<1>7. ASSUME NEW i \in 1 .. Len(log'), BlockOf(log'[i]) # NoBlock
      PROVE  /\ data'[BlockOf(log'[i])] = log'[i].txn.new.id \/ Freed(i, x)'
             /\ unstable'.data[BlockOf(log'[i])] = {log'[i].txn.new.id} \/ Freed(i, x)'
  <2>1. i \in 1 .. n /\ log'[i] = t[i]
    BY <1>1 DEF n
  <2>2. BlockOf(t[i]) \in Blocks
    <3>1. i \in 1 .. Len(t)
      BY <2>1, <1>1, <1>2
    <3>2. t[i].txn \in AnyTxn
      BY <3>1, <1>2, EntryOf
    <3>3. t[i].txn.new \in Extents
      BY <3>2, TxnOf
    <3> QED
      BY <3>3, <1>7, <2>1, ExtentOf, Constants DEF BlockOf
  <2>3. unstable.data[BlockOf(t[i])] = {data[BlockOf(t[i])]}
    BY <2>2, LostIs
  <2> QED
    BY <2>1, <2>3, <1>6, <1>7
<1> QED
  BY <1>7 DEF DataDurable, DataThere

\* Where the mount starts from.
LEMMA MountBase ==
    ASSUME NEW u, NEW R, NEW tr, NEW h, Verified(u, R, tr, h), log' = Recovered,
           NEW n, n = Len(Recovered), NEW v, v = verify.journal_offset
    PROVE  Base(tr[At(h)], n, v)'
<1> DEFINE r == tr[At(h)]
<1>1. /\ Recovered \in Seq(Entries) /\ n \in 1 .. Len(r.transactions)
      /\ \A i \in 1 .. n : Recovered[i] = r.transactions[i]
      /\ \A i \in 1 .. Len(r.transactions) : i <= n <=> r.transactions[i].offset < v
  BY RecoveredIs DEF Verified
<1>2. v \in Nat /\ r.flushed <= v /\ v <= r.position /\ Len(r.transactions) \in Nat
  BY DEF Verified, VerifyInv, Readers
<1> HIDE DEF r
<1>3. n \in 1 .. n /\ n <= Len(r.transactions) /\ n + 1 .. n = {}
  BY <1>1, <1>2
<1> QED
  BY <1>1, <1>2, <1>3 DEF Base, r

\* A mount at the end of a block continues the stream, with a reset.
LEMMA MountAligned ==
    ASSUME NEW u, NEW R, NEW tr, NEW h, Verified(u, R, tr, h), Mount,
           reader.position % BlockSize = 0,
           NEW n, n = Len(Recovered), NEW v, v = verify.journal_offset,
           NEW N, N = next_id, NEW R2, R2 = R \cup {At(h)}
    PROVE  Aligned(u, R2, tr, h, n, N, v)'
<1> DEFINE r == tr[At(h)]
           t == r.transactions
           c == journal[h - 1]
<1>0. /\ u \in Seq(AllUnits) /\ h \in 1 .. JournalBlocks /\ h \in Nat
      /\ journal \in [Indices -> Checksums]
      /\ ResetsIn(R, 1 .. h - 1)
      /\ \A k \in 0 .. h - 1 : k \in Indices /\ IsChain(journal[k], u, R, k)
      /\ At(h) \in Nat /\ Len(u) = At(h) /\ IsStream(u, R, tr)
      /\ At(h) = At(h - 1) + BlockSize /\ At(h - 1) \in Nat /\ BlockSize \in Nat /\ BlockSize >= 1
      /\ DeviceInv /\ LogInv /\ JournalBlocks \in Nat /\ At(h) <= EndOfFile /\ EndOfFile \in Nat
  <2>1. /\ u \in Seq(AllUnits) /\ h \in 1 .. JournalBlocks /\ h \in Nat
        /\ journal \in [Indices -> Checksums]
        /\ \A k \in 0 .. h - 1 : k \in Indices /\ IsChain(journal[k], u, R, k)
        /\ At(h) \in Nat /\ Len(u) = At(h)
    BY ChainedSizes DEF Verified
  <2>2. h - 1 \in Nat /\ h = (h - 1) + 1 /\ JournalBlocks \in Nat /\ h <= JournalBlocks
    BY <2>1, SizesAssumption
  <2>3. At(h) = At(h - 1) + BlockSize /\ At(h - 1) \in Nat
    BY <2>2, AtNext
  <2>4. At(h) <= EndOfFile
    BY <2>1, <2>2, AtMinus, AtSome
  <2> QED
    BY <2>1, <2>2, <2>3, <2>4, SizesAssumption, Constants DEF Verified, Chained
<1>1. /\ reader = r /\ r \in Readers /\ t \in Seq(Entries) /\ Len(t) \in Nat
      /\ r.flushed \in Nat /\ r.position \in Nat /\ Old(r, h)
  BY DEF Verified, Readers
<1>2. r.position = At(h)
  <2>1. r.position <= At(h) /\ At(h) < r.position + BlockSize
    BY <1>1 DEF Old
  <2>2. PICK i \in Nat : r.position = At(i)
    BY <1>1, ModAt
  <2>3. ~(i > h)
    <3>1. i > h => At(h) + BlockSize <= At(i)
      BY <1>0, AtLess
    <3> QED
      BY <3>1, <2>1, <2>2, <1>0, <1>1
  <2>4. ~(i < h)
    <3>1. i < h => At(i) + BlockSize <= At(h)
      BY <1>0, AtLess
    <3> QED
      BY <3>1, <2>1, <2>2, <1>0, <1>1
  <2>5. i = h
    BY <2>2, <2>3, <2>4, <1>0
  <2> QED
    BY <2>2, <2>5
<1>3. /\ r.flushed <= r.position /\ Len(t) >= 1
      /\ \A i \in 1 .. Len(t) : t[i].offset < r.position
  BY <1>1 DEF Old
<1>4. /\ log' = Recovered /\ n \in 1 .. Len(t) /\ Len(log') = n /\ n \in Nat
      /\ \A i \in 1 .. n : log'[i] = t[i]
      /\ \A i \in 1 .. Len(t) : i <= n <=> t[i].offset < v
      /\ v \in Nat /\ v <= At(h)
  <2>1. v \in Nat /\ v <= At(h)
    BY <1>1, <1>2 DEF Verified, VerifyInv
  <2>2. log' = Recovered
    BY DEF Mount
  <2> QED
    BY <2>1, <2>2, <1>1, RecoveredIs
<1>5. /\ Before(r.position \div BlockSize) = c
      /\ Len(c.units) = At(h) /\ \A j \in 1 .. At(h) : c.units[j] = u[j]
      /\ c.units \in Seq(AllUnits)
      /\ c.resets = R
  <2>1. r.position \div BlockSize = h
    <3>1. (At(h) + 0) \div BlockSize = h
      BY <1>0, DivAt
    <3> QED
      BY <3>1, <1>0, <1>2
  <2>2. h - 1 \in 0 .. h - 1 /\ (h - 1) + 1 = h
    BY <1>0
  <2>3. IsChain(c, u, R, h - 1) /\ h - 1 \in Indices
    BY <1>0, <2>2
  <2>4. c \in Checksums
    BY <1>0, <2>3
  <2>5. R \cap (0 .. At(h - 1)) = R
    <3>1. ASSUME NEW p \in R PROVE p \in 0 .. At(h - 1)
      <4>1. PICK i \in 1 .. h - 1 : p = At(i)
        BY <1>0 DEF ResetsIn
      <4>2. At(i) \in Nat /\ At(i) <= At(h - 1)
        BY <1>0, <4>1, AtMinus, AtNext
      <4> QED
        BY <4>1, <4>2, <1>0
    <3> QED
      BY <3>1
  <2> QED
    BY <2>1, <2>2, <2>3, <2>4, <2>5, <1>0 DEF Before, IsChain, Checksums
<1> HIDE DEF c, r, t
<1>6. /\ inner' = [flushed_offset |-> At(h), device_flushed_offset |-> r.flushed,
                   needs_did_flush_device |-> FALSE,
                   discard_offset |-> IF LastCheckpoint < At(h) THEN LastCheckpoint ELSE NoOffset]
      /\ writer' = NewWriter(At(h), ResetXor(c))
      /\ mid_block' = (mid_block \/ FALSE)
      /\ synced' = n - 1
      /\ UNCHANGED <<device, in_flight, syncing, committing, pending, deallocated, next_id>>
  BY <1>1, <1>2, <1>5 DEF Mount
<1>7. /\ writer'.offset = At(h) /\ writer'.buf = <<>> /\ writer'.checksum.units = c.units
      /\ writer'.checksum.resets = R2
  <2>1. ResetXor(c) = [c EXCEPT !.resets = R \cup {At(h)}]
    BY <1>5 DEF ResetXor
  <2>2. c \in Checksums
    BY <1>0 DEF c
  <2> QED
    BY <1>6, <2>1, <2>2 DEF NewWriter, Checksums
<1>8. /\ inner'.flushed_offset = At(h) /\ inner'.device_flushed_offset = r.flushed
      /\ inner'.needs_did_flush_device = FALSE
      /\ inner'.discard_offset = IF LastCheckpoint < At(h) THEN LastCheckpoint ELSE NoOffset
  BY <1>6
<1>9. /\ journal' = journal /\ data' = data /\ unstable' = unstable /\ in_flight' = NotInFlight
      /\ syncing' = Idle /\ committing' = NoFile /\ next_id' = next_id
      /\ pending' = [f \in Files |-> Hole] /\ deallocated' = {}
      /\ \A f \in Files : pending'[f] = Hole
  BY <1>6 DEF device, Verified, Unmounted
<1>10. \A k \in Nat : k < h => At(k) + BlockSize <= At(h)
  BY <1>0, AtLess
<1>11. \A i \in Indices : i < h => R2 \cap (0 .. At(i)) = R \cap (0 .. At(i))
  <2> TAKE i \in Indices
  <2>1. i \in Nat /\ At(i) \in Nat
    BY AtNext DEF Indices
  <2> QED
    BY <2>1, <1>10, <1>0
<1>12. IsStream(u, R2, tr)
  <2>1. \A p \in 0 .. Len(u) - 1 : p \in R2 <=> p \in R
    BY <1>0
  <2> QED
    BY <1>0, <2>1 DEF IsStream, ReadUnit
<1>13. ResetsIn(R2, 1 .. h) /\ At(h) \in R2
  <2>1. h \in 1 .. h /\ \A i \in 1 .. h - 1 : i \in 1 .. h
    BY <1>0
  <2> QED
    BY <2>1, <1>0 DEF ResetsIn
<1>14. N \in 1 .. next_id'
  BY <1>0, <1>9 DEF DeviceInv
<1>15. History(tr, h)'
  BY <1>4, <1>9, MountHistory
<1>16. Base(tr[At(h)], n, v)'
  BY <1>4, MountBase
<1>17. /\ Len(t) = n => inner'.discard_offset = NoOffset
       /\ Len(t) > n => inner'.discard_offset = t[n + 1].offset
  <2>1. t # <<>>
    BY <1>3
  <2>2. LastCheckpoint = IF n < Len(t) THEN t[n + 1].offset ELSE At(h)
    BY <2>1, <1>1, <1>2 DEF LastCheckpoint, t
  <2>3. Len(t) > n => t[n + 1].offset < At(h)
    BY <1>1, <1>2, <1>3, <1>4
  <2> QED
    BY <2>2, <2>3, <1>8, <1>0, <1>4, <1>1
<1>18. Timeline(u, R2, tr, h, n)'
  <2>1. /\ At(h) + 1 .. Len(u) = {} /\ ~(Len(u) > At(h)) /\ n + 1 .. Len(log') = {}
        /\ \A p \in At(h) .. Len(u) : p = At(h)
    BY <1>0, <1>4
  <2>2. tr[At(h)].flushed <= tr[At(h)].flushed /\ tr[At(h)].position <= tr[At(h)].position
    BY <1>1 DEF r
  <2>3. \A p, s \in At(h) .. Len(u) :
          p <= s => tr[p].flushed <= tr[s].flushed /\ tr[p].position <= tr[s].position
    BY <2>1, <2>2
  <2> QED
    BY <2>1, <2>3, <1>4, <1>17 DEF Timeline, t, r
<1>19. Marked(u, R2, h, N)'
  <2>1. At(h) + 1 .. Len(u) = {}
    BY <1>0
  <2> QED
    BY <2>1, <1>0 DEF Marked
<1>20. WriterInv(u, R2, h)'
  <2>1. h \in 0 .. JournalBlocks
    BY <1>0
  <2>2. Len(writer'.buf) = 0 /\ writer'.buf \in Seq(AllUnits) /\ 1 .. Len(writer'.buf) = {}
    BY <1>7
  <2>3. \E k \in 0 .. JournalBlocks : At(h) = At(k)
    BY <2>1
  <2> QED
    BY <2>1, <2>2, <2>3, <1>0, <1>5, <1>7, <1>8, <1>9 DEF WriterInv
<1>21. \A i \in Indices : i < h => IsChain(journal[i], u, R2, i)
  <2> TAKE i \in Indices
  <2> HAVE i < h
  <2>1. i \in 0 .. h - 1
    BY <1>0 DEF Indices
  <2> QED
    BY <2>1, <1>0, <1>11 DEF IsChain
<1>22. DiskInv(u, R2, h, N)'
  <2>1. ASSUME NEW i \in Indices PROVE /\ i \in Nat /\ At(i) \in Nat /\ At(i + 1) = At(i) + BlockSize
                                       /\ i >= h => At(i) >= At(h)
                                       /\ i < h => At(i + 1) <= At(h)
    <3>1. i \in Nat /\ At(i) \in Nat /\ At(i + 1) = At(i) + BlockSize
      BY AtNext DEF Indices
    <3> QED
      BY <3>1, <1>0, <1>10, AtMinus
  <2>2. \A i \in Indices : At(i + 1) <= At(h) => IsChain(journal[i], u, R2, i)
    <3> TAKE i \in Indices
    <3>1. /\ i \in Nat /\ At(i) \in Nat /\ At(i + 1) = At(i) + BlockSize
          /\ i >= h => At(i) >= At(h)
      BY <2>1
    <3>2. At(i + 1) <= At(h) => i < h
      BY <3>1, <1>0
    <3> QED
      BY <3>2, <1>21
  <2>4. ASSUME NEW i \in Indices, NEW x \in unstable.journal[i]
        PROVE  \/ At(i + 1) <= At(h) /\ IsChain(x, u, R2, i)
               \/ i = h /\ ~Follows(x, u, R2, i) /\ IsOlder(x, i, next_id)
               \/ i > h /\ IsOlder(x, i, N)
    <3>1. x = journal[i]
      BY LostIs
    <3>2. CASE i < h
      BY <3>1, <3>2, <2>1, <1>21
    <3>3. CASE i >= h
      <4>1. IsOlder(x, i, next_id)
        BY <3>1, <3>3, <2>1, <1>0 DEF Verified, Chained
      <4>2. CASE i = h
        <5>1. h < JournalBlocks
          BY <4>2, <1>0 DEF Indices
        <5>2. ~Follows(x, u, R, h)
          BY <5>1, <4>2, <3>1 DEF Verified, Chained
        <5>3. R2 \cap (0 .. At(h - 1)) = R \cap (0 .. At(h - 1))
          BY <1>0
        <5>4. ~Follows(x, u, R2, h)
          BY <5>2, <5>3 DEF Follows
        <5> QED
          BY <4>1, <4>2, <5>4
      <4> QED
        BY <4>1, <4>2, <3>3, <2>1, <1>0
    <3> QED
      BY <3>2, <3>3, <2>1, <1>0
  <2>5. \A j \in 1 .. Len(u) : u[j].record.txn.id < next_id
    BY DEF Verified, Chained
  <2> QED
    BY <2>2, <2>4, <2>5, <1>7, <1>8, <1>9, <1>13 DEF DiskInv
<1>23. DurableOffset(h)' = At(h)
  BY <1>8, <1>3, <1>2, <1>1 DEF DurableOffset
<1>24. \A k \in 1 .. Len(log') : log'[k].offset < At(h)
  <2> TAKE k \in 1 .. Len(log')
  <2>1. k \in 1 .. Len(t) /\ log'[k] = t[k]
    BY <1>1, <1>4
  <2> QED
    BY <2>1, <1>2, <1>3
<1>25. ReuseInv(u, R2, tr, h)'
  <2>1. NextFlushed(u, R2, tr, h) = At(h)
    BY <1>0, <1>13 DEF NextFlushed
  <2>2. \A k \in 1 .. Len(log') : ~(log'[k].offset >= DurableOffset(h)')
    <3> TAKE k \in 1 .. Len(log')
    <3>1. log'[k].offset \in Nat
      <4>1. k \in 1 .. Len(t) /\ log'[k] = t[k]
        BY <1>1, <1>4
      <4> QED
        BY <4>1, <1>1, EntryOf
    <3> QED
      BY <3>1, <1>23, <1>24, <1>0
  <2>3. inner'.device_flushed_offset <= At(h)
    BY <1>8, <1>2, <1>3
  <2> QED
    BY <2>1, <2>2, <2>3, <1>9 DEF ReuseInv
<1>26. SyncInv(u, R2, tr, h, n)'
  BY <1>9 DEF SyncInv
<1>27. DurableInv(u, R2, tr, h, n)'
  <2>1. JournalDurable(u, R2, At(h))'
    <3>1. ASSUME NEW i \in Indices, At(i) < At(h), NEW x \in unstable.journal[i]
          PROVE  IsChain(x, u, R2, i)
      <4>1. i < h
        <5>1. i \in Nat /\ At(i) \in Nat
          BY AtNext DEF Indices
        <5>2. i >= h => At(h) <= At(i)
          BY <5>1, <1>0, AtMinus
        <5> QED
          BY <5>1, <5>2, <3>1, <1>0
      <4>2. x = journal[i]
        BY LostIs
      <4> QED
        BY <4>1, <4>2, <1>21
    <3> QED
      BY <3>1, <1>9 DEF JournalDurable
  <2>2. Checkpoint(tr, Len(u), n, At(h))'
    <3>1. \A p \in At(h) .. Len(u) : p = At(h)
      BY <1>0
    <3>2. n + 1 .. Len(log') = {}
      BY <1>4
    <3>3. tr[At(h)].position >= At(h)
      BY <1>2, <1>0 DEF r
    <3> QED
      BY <3>1, <3>2, <3>3 DEF Checkpoint
  <2>3. log'[synced' + 1].offset < At(h)
    <3>1. synced' + 1 \in 1 .. Len(log')
      BY <1>4, <1>6
    <3> QED
      BY <3>1, <1>24
  <2>4. ASSUME ~mid_block' PROVE (DataDurable(At(h)) /\ DataThere(At(h)))'
    <3>1. ~mid_block
      BY <2>4, <1>6
    <3>2. verify.journal_offset <= At(h)
      BY <1>4
    <3>3. DataDurable(At(h))' /\ DataThere(At(h))'
      BY <3>1, <3>2, <1>0, <1>4, <1>9, MountData
    <3> QED
      BY <3>3
  <2>5. At(h) <= inner'.flushed_offset
    BY <1>8, <1>0
  <2> QED
    BY <2>1, <2>2, <2>3, <2>4, <2>5, <1>23 DEF DurableInv
<1> QED
  BY <1>0, <1>2, <1>9, <1>12, <1>13, <1>14, <1>15, <1>16, <1>18, <1>19, <1>20, <1>22, <1>25, <1>26, <1>27
  DEF Aligned, r

\* Nothing is being written.
LEMMA NoneInFlight == DOMAIN Overwritten(NotInFlight) = {}
<1>1. NotInFlight.offset = 0 /\ NotInFlight.buf = <<>> /\ Len(NotInFlight.buf) = 0
  BY DEF NotInFlight, NewWriter
<1>2. 0 % BlockSize = 0 /\ 0 \div BlockSize = 0
  BY SizesAssumption
<1>3. 0 .. 0 + 0 - 1 = {}
  OBVIOUS
<1> QED
  BY <1>1, <1>2, <1>3 DEF Overwritten

\* A mount inside a block.
LEMMA MountFrozen ==
    ASSUME NEW u, NEW R, NEW tr, NEW h, Verified(u, R, tr, h), Mount,
           reader.position % BlockSize # 0,
           NEW n, n = Len(Recovered), NEW v, v = verify.journal_offset
    PROVE  Frozen(u, R, tr, h, n, v)'
<1>1. /\ log' = Recovered /\ writer'.offset = reader.position /\ writer'.buf = <<>> /\ mid_block'
      /\ UNCHANGED <<device, in_flight, next_id>>
  BY DEF Mount, NewWriter
<1>2. /\ journal' = journal /\ data' = data /\ unstable' = unstable /\ in_flight' = NotInFlight
      /\ next_id' = next_id
  BY <1>1 DEF device, Verified, Unmounted
<1>3. History(tr, h)' /\ Base(tr[At(h)], n, v)'
  BY <1>1, <1>2, MountHistory, MountBase
<1>4. reader.position \in Nat /\ reader.position >= BlockSize
  BY DEF Verified, Old, Readers
<1>5. ASSUME NEW i \in Indices, NEW c \in unstable.journal[i]
      PROVE  IF i < h THEN IsChain(c, u, R, i) \/ (c = Torn /\ i > 0)
             ELSE IsOlder(c, i, next_id) /\ (i = h => ~Follows(c, u, R, i))
  <2>1. c = journal[i]
    BY LostIs
  <2>2. /\ h \in Nat /\ i \in Nat
        /\ IF i < h THEN IsChain(journal[i], u, R, i) ELSE IsOlder(journal[i], i, next_id)
    BY DEF Verified, Chained, Indices
  <2>3. i = h => ~Follows(journal[i], u, R, i)
    BY SizesAssumption DEF Verified, Chained, Indices
  <2> QED
    BY <2>1, <2>2, <2>3
<1>6. \A j \in 1 .. Len(u) : u[j].record.txn.id < next_id
  BY DEF Verified, Chained
<1>7. IsStream(u, R, tr) /\ Len(u) = At(h) /\ h \in 1 .. JournalBlocks /\ ResetsIn(R, 1 .. h - 1)
  BY DEF Verified, Chained
<1>8. writer'.buf \in Seq(AllUnits) /\ FileOffset(writer') = reader.position
  BY <1>1, <1>4 DEF FileOffset
<1>9. tr[At(h)] = reader /\ tr[At(h)].position <= writer'.offset
  BY <1>1, <1>4 DEF Verified
<1>10. \A i \in 1 .. Len(log') : log'[i].offset < FileOffset(writer')
  <2> TAKE i \in 1 .. Len(log')
  <2>1. i \in 1 .. Len(reader.transactions) /\ log'[i] = reader.transactions[i]
    BY <1>1, RecoveredIs
  <2> QED
    BY <2>1, <1>8 DEF Verified, Old
<1> QED
  BY <1>1, <1>2, <1>3, <1>4, <1>5, <1>6, <1>7, <1>8, <1>9, <1>10 DEF Frozen

\* Mount.
LEMMA MountKeeps ==
    ASSUME Inv, Mount
    PROVE  Inv'
<1>1. PICK u, R, tr, h : Verified(u, R, tr, h)
  BY InMount DEF Mount
<1> DEFINE n == Len(Recovered)
           v == verify.journal_offset
<1>2. /\ Recovered \in Seq(Entries) /\ n \in 1 .. Len(log)
      /\ \A i \in 1 .. n : Recovered[i] = log[i]
  BY <1>1, RecoveredIs
<1>3. /\ pc' = "mounted" /\ reader' = StartReader /\ log' = Recovered
      /\ extents' = [f \in Files |-> Applied(Recovered, f)]
      /\ synced' = n - 1
      /\ mid_block' = (mid_block \/ reader.position % BlockSize # 0)
      /\ inner' = [flushed_offset |-> reader.position,
                 device_flushed_offset |-> reader.flushed,
                 needs_did_flush_device |-> FALSE,
                 discard_offset |-> IF LastCheckpoint < reader.position
                                    THEN LastCheckpoint ELSE NoOffset]
      /\ UNCHANGED <<device, in_flight, syncing, committing, pending, deallocated, bare_restart,
                     next_id, crashes>>
  BY DEF Mount
<1>4. LogInv /\ DeviceInv /\ Unmounted /\ mid_block \in BOOLEAN /\ reader \in Readers
  BY <1>1 DEF Verified
<1>5. LogInv'
  BY <1>2, <1>3, <1>4, LogPrefix
<1>6. DeviceInv'
  BY <1>3, <1>4, DeviceFrame DEF device
<1>7. AllocInv'
  BY <1>2, <1>3, <1>4, MountAlloc DEF Unmounted
<1>8. InnerType'
  <2>1. reader.position \in Nat /\ reader.flushed \in Nat /\ NoOffset \in Nat
    BY <1>4, Constants DEF Readers
  <2>2. LastCheckpoint \in Nat
    <3> DEFINE t == reader.transactions
    <3>1. t \in Seq(Entries) /\ n \in 1 .. Len(t)
      BY <1>1, <1>4, RecoveredIs DEF Readers
    <3>2. n < Len(t) => t[n + 1].offset \in Nat
      <4>1. n < Len(t) => n + 1 \in 1 .. Len(t)
        BY <3>1
      <4> QED
        BY <3>1, <4>1, EntryOf
    <3> QED
      BY <3>2, <2>1 DEF LastCheckpoint
  <2>3. (IF LastCheckpoint < reader.position THEN LastCheckpoint ELSE NoOffset) \in Nat
    BY <2>1, <2>2
  <2> QED
    BY <1>3, <2>1, <2>3 DEF InnerType
<1>9. committing' \in Files \cup {NoFile}
  BY <1>3, <1>4 DEF Unmounted
<1>10. \/ (\E u1, R1, tr1, g1, m1, N1, v1 : Aligned(u1, R1, tr1, g1, m1, N1, v1))'
       \/ (\E u1, R1, tr1, g1, m1, v1 : Frozen(u1, R1, tr1, g1, m1, v1))'
  <2>1. PICK nn, vv, NN, R2 : nn = n /\ vv = v /\ NN = next_id /\ R2 = R \cup {At(h)}
    OBVIOUS
  <2>2. CASE reader.position % BlockSize = 0
    <3>1. Aligned(u, R2, tr, h, nn, NN, vv)'
      BY <1>1, <2>1, <2>2, MountAligned
    <3> QED
      BY <3>1
  <2>3. CASE reader.position % BlockSize # 0
    <3>1. Frozen(u, R, tr, h, nn, vv)'
      BY <1>1, <2>1, <2>3, MountFrozen
    <3> QED
      BY <3>1
  <2> QED
    BY <2>2, <2>3
<1>11. SyncType' /\ InFlightInv'
  <2>1. syncing' = Idle /\ in_flight' = NotInFlight
    BY <1>3, <1>4 DEF Unmounted
  <2>2. InFlightInv'
    BY <2>1, NoneInFlight DEF InFlightInv
  <2>3. SyncType'
    BY <2>1, <1>2, <1>3 DEF SyncType, Idle
  <2> QED
    BY <2>2, <2>3
<1>14. WriterType'
  <2>1. /\ reader \in Readers /\ Old(reader, h) /\ h \in 1 .. JournalBlocks /\ At(h) \in Nat
        /\ journal \in [Indices -> Checksums]
    BY <1>1 DEF Verified, DeviceInv
  <2>2. reader.position \in Nat /\ reader.position <= At(h) /\ reader.position >= BlockSize
    BY <2>1 DEF Old, Readers
  <2> DEFINE i == reader.position \div BlockSize
  <2>3. i \in Nat /\ At(i) \in Nat /\ At(i) <= reader.position /\ reader.position < At(i) + BlockSize
    BY <2>2, Division, AtNext
  <2> HIDE DEF i
  <2>4. i <= h
    <3>1. SUFFICES ASSUME h < i PROVE FALSE
      BY <2>1, <2>3
    <3>2. At(h) + BlockSize <= At(i)
      BY <3>1, <2>1, <2>3, AtLess
    <3> QED
      BY <3>2, <2>1, <2>2, <2>3, SizesAssumption
  <2>5. Before(i) \in Checksums
    <3>1. StartingChecksum \in Checksums
      BY DEF StartingChecksum, Checksums
    <3>2. i # 0 => i - 1 \in Indices
      BY <2>1, <2>3, <2>4, SizesAssumption DEF Indices
    <3> QED
      BY <2>1, <3>1, <3>2 DEF Before
  <2>6. ResetXor(Before(i)) \in Checksums
    <3>1. Len(Before(i).units) \in Nat
      BY <2>5 DEF Checksums
    <3> QED
      BY <3>1, <2>5 DEF ResetXor, Checksums
  <2>7. writer' = NewWriter(reader.position, ResetXor(Before(i)))
    BY <1>3 DEF Mount, i
  <2>8. in_flight' = NotInFlight /\ NotInFlight \in Writers
    <3>1. StartingChecksum \in Checksums
      BY DEF StartingChecksum, Checksums
    <3> QED
      BY <3>1, <1>3, <1>4 DEF Unmounted, NotInFlight, NewWriter, Writers
  <2> QED
    BY <2>2, <2>6, <2>7, <2>8 DEF NewWriter, WriterType, Writers
<1>13. Mounted'
  BY <1>3, <1>7, <1>8, <1>9, <1>10, <1>11, <1>14 DEF Mounted
<1>12. mid_block' \in BOOLEAN
  BY <1>3, <1>4
<1> QED
  BY <1>3, <1>5, <1>6, <1>12, <1>13 DEF Inv

-----------------------------------------------------------------------------
(* A crash. *)

\* Everything is one of the things it may be.
LEMMA OutcomesIs ==
    ASSUME NEW D, NEW now, DOMAIN now = D, NEW may, \A x \in D : now[x] \in may[x],
           NEW f \in Outcomes(now, may)
    PROVE  f = [x \in D |-> f[x]] /\ \A x \in D : f[x] \in may[x]
<1> DEFINE open == {x \in D : may[x] # {now[x]}}
           chosen == {e \in [open -> UNION {may[x] : x \in open}] : \A x \in open : e[x] \in may[x]}
<1>1. PICK e \in chosen : f = [x \in D |-> IF x \in open THEN e[x] ELSE now[x]]
  BY ZenonT(30) DEF Outcomes
<1>2. \A x \in open : e[x] \in may[x]
  BY <1>1
<1> HIDE DEF open, chosen
<1> QED
  BY <1>1, <1>2

\* What the past says stands when less may become of the data.
LEMMA HistoryShrinks ==
    ASSUME NEW tr, NEW h \in Nat, History(tr, h), UNCHANGED <<log, next_id>>,
           \A q \in 1 .. h : tr[At(q)] \in Readers,
           \A b \in Blocks : \A n : n \in unstable'.data[b] => n \in unstable.data[b]
    PROVE  History(tr, h)'
<1>1. ASSUME NEW q \in 1 .. h PROVE Old(tr[At(q)], q)'
  <2> DEFINE r == tr[At(q)]
  <2>1. r \in Readers /\ Old(r, q)
    BY DEF History
  <2> HIDE DEF r
  <2>2. ASSUME NEW w, Barred(r, w) PROVE Barred(r, w)'
    <3>1. PICK i \in Pushed(r) : Obstructs(r, i, w) /\ Lost(r.transactions[i])
      BY <2>2 DEF Barred
    <3>2. BlockOf(r.transactions[i]) \in Blocks
      BY <2>1, PushedIs
    <3>3. Lost(r.transactions[i])'
      BY <3>1, <3>2 DEF Lost
    <3> QED
      BY <3>1, <3>3 DEF Barred
  <2>3. UpperOK(r)'
    BY <2>1, <2>2 DEF Old, UpperOK
  <2>4. Old(r, q)'
    BY <2>1, <2>3 DEF Old
  <2> QED
    BY <2>4 DEF r
<1>2. ASSUME NEW q \in 1 .. h, NEW p \in 1 .. h, q <= p PROVE Pair(tr[At(q)], tr[At(p)])'
  <2>1. Pair(tr[At(q)], tr[At(p)])
    BY <1>2 DEF History
  <2> QED
    BY <2>1 DEF Pair
<1> QED
  BY <1>1, <1>2 DEF History

\* The stream up to the end of block h - 1.
LEMMA CutStream ==
    ASSUME NEW u, NEW R, NEW tr, IsStream(u, R, tr), NEW g \in Nat, ResetsIn(R, 1 .. g),
           NEW h \in Nat \ {0}, At(h) <= Len(u)
    PROVE  \E u2, R2, tr2 :
             /\ IsStream(u2, R2, tr2) /\ Len(u2) = At(h) /\ ResetsIn(R2, 1 .. h - 1)
             /\ R2 = R \cap (0 .. At(h - 1))
             /\ \A j \in 1 .. At(h) : u2[j] = u[j]
             /\ \A p \in 0 .. At(h) : tr2[p] = tr[p]
<1>1. /\ u \in Seq(AllUnits) /\ Len(u) \in Nat /\ At(h) \in Nat /\ h - 1 \in Nat
      /\ At(h - 1) \in Nat /\ At(h) = At(h - 1) + BlockSize /\ BlockSize \in Nat /\ BlockSize >= 1
  <2>1. h - 1 \in Nat /\ (h - 1) + 1 = h
    OBVIOUS
  <2>2. At(h - 1) \in Nat /\ At(h) = At(h - 1) + BlockSize
    BY <2>1, AtNext
  <2> QED
    BY <2>1, <2>2, SizesAssumption DEF IsStream
<1> DEFINE u2 == SubSeq(u, 1, At(h))
           R2 == R \cap (0 .. At(h - 1))
           tr2 == [p \in 0 .. At(h) |-> tr[p]]
<1>2. u2 \in Seq(AllUnits) /\ Len(u2) = At(h) /\ \A j \in 1 .. At(h) : u2[j] = u[j]
  <2>1. \A j \in 1 .. At(h) : u[j] \in AllUnits
    BY <1>1, ElementOfSeq
  <2> QED
    BY <1>1, <2>1, SubSeqProperties
<1> HIDE DEF u2
<1>3. ASSUME NEW p \in R, NEW k \in 1 .. g, p = At(k), p < At(h)
      PROVE  k \in 1 .. h - 1 /\ p \in 0 .. At(h - 1)
  <2>0. k \in Nat
    OBVIOUS
  <2>1. k \in Nat /\ At(k) \in Nat
    BY <2>0, AtNext
  <2>2. ~(k >= h)
    <3>1. k >= h => At(h) <= At(k)
      BY <2>1, AtMinus
    <3> QED
      BY <3>1, <2>1, <1>1, <1>3
  <2>3. k <= h - 1
    BY <2>1, <2>2
  <2>4. At(k) <= At(h - 1)
    BY <2>1, <2>3, <1>1, AtMinus
  <2> QED
    BY <2>1, <2>3, <2>4, <1>3
<1>4. \A p \in 0 .. At(h) - 1 : p \in R <=> p \in R2
  <2> TAKE p \in 0 .. At(h) - 1
  <2>1. ASSUME p \in R PROVE p \in R2
    <3>1. PICK k \in 1 .. g : p = At(k)
      BY <2>1 DEF ResetsIn
    <3>2. p < At(h)
      BY <1>1
    <3> QED
      BY <2>1, <3>1, <3>2, <1>3
  <2> QED
    BY <2>1
<1>5. ResetsIn(R2, 1 .. h - 1)
  <2>1. ASSUME NEW p \in R2 PROVE \E k \in 1 .. h - 1 : p = At(k)
    <3>1. PICK k \in 1 .. g : p = At(k)
      BY DEF ResetsIn
    <3>2. p < At(h)
      BY <1>1
    <3> QED
      BY <3>1, <3>2, <1>3
  <2> QED
    BY <2>1 DEF ResetsIn
<1>6. \A p \in 0 .. At(h) : tr2[p] = tr[p] /\ p \in 0 .. Len(u)
  BY <1>1
<1>7. IsStream(u2, R2, tr2)
  <2>1. tr2 \in [0 .. Len(u2) -> Readers]
    BY <1>2, <1>6 DEF IsStream
  <2>2. tr2[0] = StartReader
    BY <1>1, <1>6 DEF IsStream
  <2>3. ASSUME NEW p \in 0 .. Len(u2) - 1 PROVE tr2[p + 1] = ReadUnit(tr2[p], p \in R2, u2[p + 1])
    <3>1. /\ p \in 0 .. At(h) /\ p + 1 \in 0 .. At(h) /\ p \in 0 .. Len(u) - 1
          /\ p + 1 \in 1 .. At(h) /\ p \in 0 .. At(h) - 1
      BY <1>1, <1>2
    <3>2. tr2[p + 1] = tr[p + 1] /\ tr2[p] = tr[p] /\ u2[p + 1] = u[p + 1] /\ (p \in R <=> p \in R2)
      BY <3>1, <1>2, <1>4, <1>6
    <3>3. tr[p + 1] = ReadUnit(tr[p], p \in R, u[p + 1])
      BY <3>1 DEF IsStream
    <3> HIDE DEF R2, tr2
    <3> QED
      BY <3>2, <3>3 DEF ReadUnit
  <2> QED
    BY <1>2, <2>1, <2>2, <2>3 DEF IsStream
<1> HIDE DEF tr2
<1> QED
  BY <1>2, <1>5, <1>6, <1>7

\* After a crash the journal is read up to block h.
LEMMA CutChain ==
    ASSUME NEW u, NEW R, NEW tr, IsStream(u, R, tr), NEW g \in Nat, ResetsIn(R, 1 .. g),
           NEW h \in 1 .. JournalBlocks, At(h) <= Len(u),
           (\A i \in Indices : IF i < h THEN IsChain(journal[i], u, R, i)
                               ELSE IsOlder(journal[i], i, next_id))',
           (h < JournalBlocks => ~Follows(journal[h], u, R, h))',
           (\A j \in 1 .. Len(u) : u[j].record.txn.id < next_id)',
           (unstable = Durable(journal, data))',
           History(tr, h)',
           (~mid_block => \E w \in 0 .. At(h) : Recoverable(tr[At(h)], w))'
    PROVE  (\E u2, R2, tr2 : Chained(u2, R2, tr2, h) /\ tr2[0] = StartReader)'
<1>0. h \in Nat \ {0} /\ h \in Nat /\ JournalBlocks \in Nat
  BY SizesAssumption
<1>1. PICK u2, R2, tr2 :
             /\ IsStream(u2, R2, tr2) /\ Len(u2) = At(h) /\ ResetsIn(R2, 1 .. h - 1)
             /\ R2 = R \cap (0 .. At(h - 1))
             /\ \A j \in 1 .. At(h) : u2[j] = u[j]
             /\ \A p \in 0 .. At(h) : tr2[p] = tr[p]
  BY <1>0, CutStream
<1>2. At(h) \in Nat /\ Len(u) \in Nat
  BY <1>0, AtNext DEF IsStream
<1>3. \A q \in Nat : q <= h => At(q) \in 0 .. At(h)
  BY <1>0, AtMinus, AtNext
<1>4. \A i \in Nat : i < h => At(i) \in Nat /\ At(i + 1) \in Nat /\ At(i + 1) <= At(h) /\ At(i) <= At(h - 1)
  <2> TAKE i \in Nat
  <2> HAVE i < h
  <2>1. i + 1 <= h /\ i <= h - 1 /\ h - 1 \in Nat /\ i + 1 \in Nat
    BY <1>0
  <2> QED
    BY <2>1, <1>0, AtMinus, AtNext
<1>5. ASSUME NEW i \in Indices
      PROVE  IF i < h THEN IsChain(journal'[i], u2, R2, i) ELSE IsOlder(journal'[i], i, next_id')
  <2>1. CASE i < h
    <3>1. IsChain(journal'[i], u, R, i)
      BY <2>1
    <3>2. i \in Nat
      BY DEF Indices
    <3>3. \A j \in 1 .. At(i + 1) : j \in 1 .. At(h)
      BY <3>2, <2>1, <1>4, <1>2
    <3>4. R2 \cap (0 .. At(i)) = R \cap (0 .. At(i))
      <4>1. /\ At(i) \in Nat /\ At(i) <= At(h - 1) /\ At(h - 1) \in Nat
        BY <3>2, <2>1, <1>4, <1>0, AtNext
      <4> QED
        BY <4>1, <1>1
    <3> QED
      BY <3>1, <3>3, <3>4, <1>1, <2>1 DEF IsChain
  <2>2. CASE ~(i < h)
    BY <2>2
  <2> QED
    BY <2>1, <2>2
<1>6. ASSUME h < JournalBlocks PROVE ~Follows(journal'[h], u2, R2, h)
  <2>1. ~Follows(journal'[h], u, R, h)
    BY <1>6
  <2>2. R2 \cap (0 .. At(h - 1)) = R \cap (0 .. At(h - 1))
    BY <1>1
  <2> QED
    BY <2>1, <2>2, <1>1 DEF Follows
<1>7. \A j \in 1 .. Len(u2) : u2[j].record.txn.id < next_id'
  BY <1>1, <1>2
<1>8. History(tr2, h)'
  <2>1. \A q \in 1 .. h : tr2[At(q)] = tr[At(q)]
    BY <1>0, <1>1, <1>3
  <2> QED
    BY <2>1 DEF History
<1>9. (~mid_block => \E w \in 0 .. At(h) : Recoverable(tr2[At(h)], w))'
  <2>1. tr2[At(h)] = tr[At(h)]
    BY <1>0, <1>1, <1>3
  <2> QED
    BY <2>1
<1>10. Chained(u2, R2, tr2, h)'
  BY <1>1, <1>5, <1>6, <1>7, <1>8, <1>9 DEF Chained
<1> QED
  BY <1>1, <1>10 DEF IsStream

\* What a crash does besides.
LEMMA CrashIs ==
    ASSUME Inv, Crash
    PROVE  /\ LogInv' /\ DeviceInv' /\ Unmounted' /\ mid_block' \in BOOLEAN
           /\ mid_block' = mid_block /\ log' = log /\ synced' = synced /\ next_id' = next_id
           /\ pc' = "reading" /\ reader' = StartReader /\ Mounted /\ LogInv /\ DeviceInv
           /\ \A i \in Indices : journal'[i] \in unstable.journal[i]
           /\ \A b \in Blocks : data'[b] \in unstable.data[b]
           /\ unstable' = Durable(journal', data')
           /\ \A b \in Blocks : unstable'.data[b] = {data'[b]}
<1>1. /\ LogInv /\ DeviceInv /\ Mounted /\ mid_block \in BOOLEAN /\ reader = StartReader
  BY DEF Inv, Crash, Mounted
<1>2. /\ pc' = "reading"
      /\ journal' \in Outcomes(journal, unstable.journal)
      /\ data' \in Outcomes(data, unstable.data)
      /\ unstable' = Durable(journal', data')
      /\ in_flight' = NotInFlight /\ syncing' = Idle /\ committing' = NoFile
      /\ pending' = [f \in Files |-> Hole] /\ deallocated' = {}
      /\ UNCHANGED <<reader, verify, log, synced, mid_block, bare_restart, next_id>>
  BY DEF Crash
<1>3. /\ DOMAIN journal = Indices /\ DOMAIN data = Blocks
      /\ \A i \in Indices : journal[i] \in unstable.journal[i]
      /\ \A b \in Blocks : data[b] \in unstable.data[b]
  BY <1>1 DEF DeviceInv
<1>4. journal' = [i \in Indices |-> journal'[i]] /\ \A i \in Indices : journal'[i] \in unstable.journal[i]
  BY <1>2, <1>3, OutcomesIs
<1>5. data' = [b \in Blocks |-> data'[b]] /\ \A b \in Blocks : data'[b] \in unstable.data[b]
  BY <1>2, <1>3, OutcomesIs
<1>6. \A i \in Indices : unstable'.journal[i] = {journal'[i]}
  BY <1>2 DEF Durable
<1>7. \A b \in Blocks : unstable'.data[b] = {data'[b]}
  BY <1>2 DEF Durable
<1>8. DeviceInv'
  <2>1. /\ \A i \in Indices : unstable.journal[i] \subseteq Checksums
        /\ \A b \in Blocks : unstable.data[b] \subseteq 0 .. MaxTxns
        /\ \A b \in Blocks : \A n \in unstable.data[b] : n < next_id
        /\ next_id \in 1 .. MaxTxns + 1
    BY <1>1 DEF DeviceInv
  <2>2. \A i \in Indices : journal'[i] \in Checksums
    BY <2>1, <1>4
  <2>3. \A b \in Blocks : data'[b] \in 0 .. MaxTxns /\ data'[b] < next_id
    BY <2>1, <1>5
  <2>4. journal' \in [Indices -> Checksums]
    BY <1>4, <2>2
  <2>5. data' \in [Blocks -> 0 .. MaxTxns]
    BY <1>5, <2>3
  <2>6. unstable' \in [journal : [Indices -> SUBSET Checksums],
                       data : [Blocks -> SUBSET (0 .. MaxTxns)]]
    <3>1. [i \in Indices |-> {journal'[i]}] \in [Indices -> SUBSET Checksums]
      BY <2>2
    <3>2. [b \in Blocks |-> {data'[b]}] \in [Blocks -> SUBSET (0 .. MaxTxns)]
      BY <2>3
    <3> QED
      BY <3>1, <3>2, <1>2 DEF Durable
  <2> QED
    BY <1>2, <1>6, <1>7, <2>1, <2>3, <2>4, <2>5, <2>6 DEF DeviceInv
<1>9. LogInv'
  BY <1>1, <1>2, LogFrame
<1> QED
  BY <1>1, <1>2, <1>4, <1>5, <1>7, <1>8, <1>9 DEF Unmounted

\* Up to which block the journal is the stream.
LEMMA FirstBreak ==
    ASSUME NEW j, NEW u, NEW R, NEW k \in Nat \ {0}, IsChain(j[0], u, R, 0)
    PROVE  \E h \in 1 .. k : /\ \A i \in 0 .. h - 1 : IsChain(j[i], u, R, i)
                             /\ h = k \/ ~IsChain(j[h], u, R, h)
<1> DEFINE S == {i \in 1 .. k : i = k \/ ~IsChain(j[i], u, R, i)}
<1>1. S \in SUBSET Nat /\ k \in S
  OBVIOUS
<1>2. Min(S) \in S /\ \A n \in S : Min(S) <= n
  <2> HIDE DEF S
  <2> QED
    BY <1>1, LeastOf
<1> DEFINE h == Min(S)
<1> HIDE DEF h
<1>3. h \in S /\ \A n \in S : h <= n
  BY <1>2 DEF h
<1>4. h \in 1 .. k /\ h \in Nat /\ (h = k \/ ~IsChain(j[h], u, R, h))
  BY <1>3
<1>5. ASSUME NEW i \in 0 .. h - 1 PROVE IsChain(j[i], u, R, i)
  <2>1. CASE i = 0
    BY <2>1
  <2>2. CASE i # 0
    <3>1. i \in 1 .. k /\ i < h
      BY <2>2, <1>4
    <3>2. i \notin S
      BY <3>1, <1>3, <1>4
    <3> QED
      BY <3>1, <3>2
  <2> QED
    BY <2>1, <2>2
<1> QED
  BY <1>4, <1>5

\* A block of the stream has only known transactions in it.
LEMMA ChainOlder ==
    ASSUME NEW c, NEW u, NEW R, NEW i \in Nat, IsChain(c, u, R, i), NEW b,
           At(i + 1) <= Len(u), Len(u) \in Nat, \A j \in 1 .. Len(u) : u[j].record.txn.id < b
    PROVE  IsOlder(c, i, b)
<1>1. At(i + 1) \in Nat
  BY AtNext
<1>2. \A j \in 1 .. At(i + 1) : j \in 1 .. Len(u)
  BY <1>1
<1> QED
  BY <1>2 DEF IsChain, IsOlder

\* The readers at the ends of blocks.
LEMMA ReaderAt ==
    ASSUME NEW u, NEW R, NEW tr, IsStream(u, R, tr), NEW h \in Nat, At(h) <= Len(u)
    PROVE  /\ \A q \in 1 .. h : tr[At(q)] \in Readers
           /\ tr[At(h)] \in Readers
<1>1. Len(u) \in Nat
  BY DEF IsStream
<1>2. ASSUME NEW q \in Nat, q <= h PROVE tr[At(q)] \in Readers
  <2>1. At(q) \in Nat /\ At(h) \in Nat /\ At(q) <= At(h)
    BY <1>2, AtNext, AtMinus
  <2>2. At(q) \in 0 .. Len(u)
    BY <2>1, <1>1
  <2> QED
    BY <2>2 DEF IsStream
<1> QED
  BY <1>2

\* History up to an earlier block.
LEMMA HistoryUpTo ==
    ASSUME NEW tr, NEW g \in Nat, History(tr, g), NEW h \in Nat, h <= g
    PROVE  History(tr, h)
<1>1. \A q \in 1 .. h : q \in 1 .. g
  OBVIOUS
<1> QED
  BY <1>1 DEF History

\* A crash when what was written is torn.
LEMMA CrashFrozen ==
    ASSUME Inv, Crash, NEW u, NEW R, NEW tr, NEW g, NEW m, NEW v, Frozen(u, R, tr, g, m, v)
    PROVE  (\E h : \E u2, R2, tr2 : Chained(u2, R2, tr2, h) /\ tr2[0] = StartReader)'
<1>1. /\ mid_block' = mid_block /\ log' = log /\ next_id' = next_id
      /\ LogInv /\ DeviceInv
      /\ \A i \in Indices : journal'[i] \in unstable.journal[i]
      /\ \A b \in Blocks : data'[b] \in unstable.data[b]
      /\ unstable' = Durable(journal', data')
      /\ \A b \in Blocks : unstable'.data[b] = {data'[b]}
  BY CrashIs
<1>2. /\ IsStream(u, R, tr) /\ Len(u) = At(g) /\ g \in 1 .. JournalBlocks /\ g \in Nat
      /\ g \in Nat \ {0} /\ ResetsIn(R, 1 .. g - 1) /\ g - 1 \in Nat /\ mid_block
      /\ History(tr, g) /\ JournalBlocks \in Nat /\ At(g) \in Nat
      /\ \A j \in 1 .. Len(u) : u[j].record.txn.id < next_id
  BY SizesAssumption, AtNext DEF Frozen
<1>3. \A i \in Indices :
         /\ i < g => IsChain(journal'[i], u, R, i) \/ (journal'[i] = Torn /\ i > 0)
         /\ ~(i < g) => IsOlder(journal'[i], i, next_id) /\ (i = g => ~Follows(journal'[i], u, R, i))
  BY <1>1 DEF Frozen
<1>4. PICK h \in 1 .. g : /\ \A i \in 0 .. h - 1 : IsChain(journal'[i], u, R, i)
                          /\ h = g \/ ~IsChain(journal'[h], u, R, h)
  <2>1. 0 \in Indices /\ 0 < g
    BY <1>2, SizesAssumption DEF Indices
  <2>2. IsChain(journal'[0], u, R, 0)
    BY <2>1, <1>3
  <2> QED
    BY <2>2, <1>2, FirstBreak
<1>5. h \in Nat /\ h \in 1 .. JournalBlocks /\ At(h) <= Len(u) /\ At(h) \in Nat /\ h <= g
  <2>1. h \in Nat /\ h \in 1 .. JournalBlocks /\ h <= g
    BY <1>2
  <2> QED
    BY <2>1, <1>2, AtMinus, AtNext
<1>6. ASSUME NEW i \in Indices
      PROVE  IF i < h THEN IsChain(journal'[i], u, R, i) ELSE IsOlder(journal'[i], i, next_id)
  <2>0. i \in Nat
    BY DEF Indices
  <2>1. CASE i < h
    BY <2>0, <2>1, <1>4, <1>5
  <2>2. CASE ~(i < h) /\ i < g
    <3>1. CASE journal'[i] = Torn
      BY <2>2, <3>1 DEF IsOlder
    <3>2. CASE IsChain(journal'[i], u, R, i)
      <4>1. At(i + 1) <= Len(u)
        BY <2>0, <2>2, <1>2, AtMinus
      <4>2. Len(u) \in Nat
        BY <1>2
      <4>3. IsOlder(journal'[i], i, next_id)
        BY <4>1, <4>2, <3>2, <1>2, <2>0, ChainOlder
      <4> QED
        BY <4>3, <2>2
    <3> QED
      BY <3>1, <3>2, <2>2, <1>3
  <2>3. CASE ~(i < h) /\ ~(i < g)
    BY <2>3, <1>3
  <2> QED
    BY <2>1, <2>2, <2>3
<1>7. ASSUME h < JournalBlocks PROVE ~Follows(journal'[h], u, R, h)
  <2>1. h \in Indices
    BY <1>5, <1>7, <1>2 DEF Indices
  <2>2. CASE h = g
    BY <2>1, <2>2, <1>2, <1>3
  <2>3. CASE h # g
    <3>1. h < g /\ ~IsChain(journal'[h], u, R, h)
      BY <2>3, <1>4, <1>5, <1>2
    <3>2. journal'[h] = Torn
      BY <3>1, <2>1, <1>3
    <3> QED
      BY <3>2 DEF Follows
  <2> QED
    BY <2>2, <2>3
<1>8. History(tr, h)'
  <2>1. History(tr, h) /\ \A q \in 1 .. h : tr[At(q)] \in Readers
    BY <1>2, <1>5, HistoryUpTo, ReaderAt
  <2>2. \A b \in Blocks : \A n : n \in unstable'.data[b] => n \in unstable.data[b]
    BY <1>1
  <2> QED
    BY <2>1, <2>2, <1>1, <1>5, HistoryShrinks
<1>9. (\E u2, R2, tr2 : Chained(u2, R2, tr2, h) /\ tr2[0] = StartReader)'
  <2>1. (~mid_block => \E w \in 0 .. At(h) : Recoverable(tr[At(h)], w))'
    BY <1>1, <1>2
  <2> QED
    BY <2>1, <1>1, <1>2, <1>5, <1>6, <1>7, <1>8, CutChain
<1> QED
  BY <1>9

\* The offsets of a mount at the end of a block.
LEMMA AlignedIs ==
    ASSUME NEW u, NEW R, NEW tr, NEW g, NEW m, NEW N, NEW v, Aligned(u, R, tr, g, m, N, v),
           LogInv, DeviceInv, InnerType
    PROVE  /\ u \in Seq(AllUnits) /\ Len(u) \in Nat /\ IsStream(u, R, tr)
           /\ g \in 1 .. JournalBlocks /\ g \in Nat /\ g >= 1 /\ JournalBlocks \in Nat
           /\ At(g) \in Nat /\ At(g) >= BlockSize /\ At(g + 1) = At(g) + BlockSize
           /\ BlockSize \in Nat /\ BlockSize >= 3
           /\ At(g) <= Len(u) /\ Len(u) <= EndOfFile /\ EndOfFile \in Nat
           /\ tr[At(g)] \in Readers /\ tr[At(g)].position = At(g)
           /\ DurableOffset(g) \in Nat /\ At(g) <= DurableOffset(g)
           /\ inner.device_flushed_offset <= DurableOffset(g)
           /\ DurableOffset(g) <= inner.flushed_offset /\ inner.flushed_offset <= writer.offset
           /\ writer.offset <= Len(u) /\ writer.offset \in Nat
           /\ inner.flushed_offset \in Nat /\ inner.device_flushed_offset \in Nat
           /\ Len(log) \in Nat /\ m \in 1 .. Len(log) /\ m \in Nat
           /\ N \in Nat /\ N <= next_id /\ next_id \in Nat
<1>1. /\ u \in Seq(AllUnits) /\ Len(u) \in Nat /\ IsStream(u, R, tr)
      /\ g \in 1 .. JournalBlocks /\ g \in Nat /\ g >= 1 /\ JournalBlocks \in Nat
      /\ BlockSize \in Nat /\ BlockSize >= 3 /\ EndOfFile \in Nat
  BY SizesAssumption, Constants DEF Aligned, IsStream
<1>2. At(g) \in Nat /\ At(g) >= BlockSize /\ At(g + 1) = At(g) + BlockSize
  <2>1. At(1) <= At(g)
    BY <1>1, AtMinus
  <2> QED
    BY <2>1, <1>1, AtNext, AtSome
<1>3. /\ inner.flushed_offset \in Nat /\ inner.device_flushed_offset \in Nat
  BY DEF InnerType
<1>4. /\ At(g) <= inner.flushed_offset /\ inner.flushed_offset <= writer.offset
      /\ writer.offset \in Nat /\ writer.buf \in Seq(AllUnits)
      /\ Len(u) = writer.offset + Len(writer.buf) /\ Len(u) <= EndOfFile
  BY DEF Aligned, WriterInv
<1>5. writer.offset <= Len(u) /\ At(g) <= Len(u)
  <2>1. Len(writer.buf) \in Nat
    BY <1>4
  <2> QED
    BY <2>1, <1>2, <1>3, <1>4
<1>6. DurableOffset(g) \in Nat /\ At(g) <= DurableOffset(g) /\ inner.device_flushed_offset <= DurableOffset(g)
  BY <1>2, <1>3 DEF DurableOffset
<1>7. DurableOffset(g) <= inner.flushed_offset
  BY DEF Aligned, DurableInv
<1>8. tr[At(g)] \in Readers /\ tr[At(g)].position = At(g)
  BY <1>1, <1>5, ReaderAt DEF Aligned
<1>9. /\ Len(log) \in Nat /\ m \in 1 .. Len(log) /\ N \in 1 .. next_id /\ next_id \in Nat
  BY DEF LogInv, DeviceInv, Aligned, Base
<1> QED
  BY <1>1, <1>2, <1>3, <1>4, <1>5, <1>6, <1>7, <1>8, <1>9

\* Where the transactions of the log are.
LEMMA LogPlaces ==
    ASSUME NEW u, NEW R, NEW tr, NEW g, NEW m, NEW N, NEW v, Aligned(u, R, tr, g, m, N, v),
           LogInv, DeviceInv, InnerType
    PROVE  /\ \A i \in 1 .. m : log[i].offset < At(g) /\ log[i].offset < v
                                /\ i \in 1 .. Len(tr[At(g)].transactions)
                                /\ tr[At(g)].transactions[i] = log[i]
           /\ \A i \in m + 1 .. Len(log) : log[i].offset >= At(g)
           /\ v \in Nat /\ v <= At(g) /\ tr[At(g)].flushed <= v
<1> DEFINE r == tr[At(g)]
<1>1. /\ r \in Readers /\ r.position = At(g) /\ At(g) \in Nat /\ m \in Nat /\ m \in 1 .. Len(log)
      /\ Len(log) \in Nat
  BY AlignedIs
<1>2. Base(r, m, v)
  BY DEF Aligned
<1> HIDE DEF r
<1>3. v \in Nat /\ v <= At(g) /\ r.flushed <= v /\ m <= Len(r.transactions) /\ Len(r.transactions) \in Nat
  BY <1>1, <1>2 DEF Base, Readers
<1>4. ASSUME NEW i \in 1 .. m
      PROVE  /\ log[i].offset < At(g) /\ log[i].offset < v
             /\ i \in 1 .. Len(r.transactions) /\ r.transactions[i] = log[i]
  <2>1. i \in 1 .. Len(r.transactions) /\ i <= m /\ i \in 1 .. Len(log)
    BY <1>1, <1>3
  <2>2. r.transactions[i] = log[i] /\ log[i].offset < v
    BY <2>1, <1>2 DEF Base
  <2>3. log[i].offset \in Nat
    BY <2>1, LogTxn
  <2> QED
    BY <2>1, <2>2, <2>3, <1>1, <1>3
<1>5. \A i \in m + 1 .. Len(log) : log[i].offset >= At(g)
  BY DEF Aligned, Timeline
<1> QED
  BY <1>3, <1>4, <1>5 DEF r

\* The readers since the mount are as those before it.
LEMMA RecentOld ==
    ASSUME NEW u, NEW R, NEW tr, NEW g, NEW m, NEW N, NEW v, Aligned(u, R, tr, g, m, N, v),
           LogInv, DeviceInv, InnerType,
           NEW q \in Nat, q > g, At(q) <= Len(u)
    PROVE  /\ Recent(tr[At(q)], At(q), R, g, m) /\ tr[At(q)] \in Readers /\ At(q) \in At(g) .. Len(u)
           /\ Old(tr[At(q)], q)
<1> DEFINE r == tr[At(q)]
<1>1. /\ Len(u) \in Nat /\ IsStream(u, R, tr) /\ g \in Nat /\ At(g) \in Nat /\ At(g) >= BlockSize
      /\ BlockSize \in Nat /\ BlockSize >= 3 /\ m \in Nat /\ m \in 1 .. Len(log) /\ Len(log) \in Nat
  BY AlignedIs
<1>2. At(q) \in Nat /\ At(g) + BlockSize <= At(q)
  BY <1>1, AtLess, AtNext
<1>3. At(q) \in At(g) + 1 .. Len(u) /\ At(q) \in At(g) .. Len(u)
  BY <1>1, <1>2
<1>4. Recent(r, At(q), R, g, m)
  BY <1>3 DEF Aligned, Timeline
<1>5. r \in Readers
  BY <1>1, ReaderAt
<1> HIDE DEF r
<1>6. /\ r.offset = At(q) /\ r.position <= At(q) /\ At(q) < r.position + BlockSize
      /\ At(g) <= r.position /\ Floor(R, g) <= r.flushed /\ r.flushed <= r.position
      /\ m <= Len(r.transactions) /\ Len(r.transactions) <= Len(log) /\ Tidy(r)
      /\ \A i \in 1 .. Len(r.transactions) :
           r.transactions[i] = log[i] /\ r.transactions[i].offset < r.position
      /\ r.position \in Nat /\ r.flushed \in Nat /\ r.transactions \in Seq(Entries)
      /\ Len(r.transactions) \in Nat
  BY <1>4, <1>5 DEF Recent, Readers
<1>7. r.position >= BlockSize /\ SuperBlockOffset <= r.flushed
  <2>1. SuperBlockOffset \in Nat /\ SuperBlockOffset <= BlockSize
    BY Constants
  <2>2. SuperBlockOffset <= Floor(R, g) /\ Floor(R, g) \in Nat
    BY <2>1, <1>1 DEF Floor
  <2> QED
    BY <2>1, <2>2, <1>1, <1>6
<1>8. \A i \in 1 .. Len(r.transactions) : i \in 1 .. Len(log) /\ r.transactions[i] = log[i]
  BY <1>6, <1>1
<1>9. Len(r.transactions) >= 1 /\ r.transactions[1] = Entry(0, NoTxn)
  <2>1. 1 \in 1 .. Len(r.transactions)
    BY <1>6, <1>1
  <2> QED
    BY <2>1, <1>8 DEF LogInv
<1>10. Ascending(r.transactions)
  <2>1. Ascending(log)
    BY DEF LogInv
  <2> QED
    BY <1>8, <2>1 DEF Ascending
<1>11. \A i \in 1 .. Len(r.transactions) : r.transactions[i].txn.new.id < next_id
  BY <1>8 DEF LogInv
<1>12. UpperOK(r)
  BY <1>8 DEF UpperOK
<1>13. Old(r, q)
  BY <1>6, <1>7, <1>9, <1>10, <1>11, <1>12 DEF Old
<1> QED
  BY <1>3, <1>4, <1>5, <1>13 DEF r

\* History goes on up to the end of the stream.
LEMMA GrownHistory ==
    ASSUME NEW u, NEW R, NEW tr, NEW g, NEW m, NEW N, NEW v, Aligned(u, R, tr, g, m, N, v),
           LogInv, DeviceInv, InnerType,
           NEW h \in Nat, At(h) <= Len(u)
    PROVE  History(tr, h)
<1>1. /\ Len(u) \in Nat /\ IsStream(u, R, tr) /\ g \in Nat /\ At(g) \in Nat /\ g >= 1
      /\ m \in Nat /\ m \in 1 .. Len(log) /\ Len(log) \in Nat /\ At(g) <= Len(u)
      /\ tr[At(g)] \in Readers
  BY AlignedIs
<1>2. \A q \in Nat : q <= h => At(q) \in Nat /\ At(q) <= Len(u)
  <2> TAKE q \in Nat
  <2> HAVE q <= h
  <2>1. At(q) \in Nat /\ At(h) \in Nat /\ At(q) <= At(h)
    BY AtNext, AtMinus
  <2> QED
    BY <2>1, <1>1
<1>3. History(tr, g)
  BY DEF Aligned
<1>4. \A q \in 1 .. g : Old(tr[At(q)], q)
  BY <1>3 DEF History
<1>5. ASSUME NEW q \in 1 .. h PROVE Old(tr[At(q)], q)
  <2>1. CASE q <= g
    BY <2>1, <1>1, <1>4
  <2>2. CASE q > g
    BY <2>2, <1>1, <1>2, RecentOld
  <2> QED
    BY <2>1, <2>2, <1>1
<1>6. ASSUME NEW q \in 1 .. h, NEW p \in 1 .. h, q <= p PROVE Pair(tr[At(q)], tr[At(p)])
  <2>1. CASE p <= g
    <3>1. q \in 1 .. g /\ p \in 1 .. g
      BY <2>1, <1>1, <1>6
    <3> QED
      BY <3>1, <1>3, <1>6 DEF History
  <2>2. CASE p > g
    <3> DEFINE r == tr[At(q)]
               s == tr[At(p)]
    <3>1. /\ Recent(s, At(p), R, g, m) /\ s \in Readers /\ At(p) \in At(g) .. Len(u)
      BY <2>2, <1>1, <1>2, RecentOld
    <3>2. /\ r \in Readers /\ Old(r, q) /\ At(q) <= At(p) /\ At(q) \in Nat
      <4>1. At(q) <= Len(u) /\ At(q) \in Nat
        BY <1>2
      <4> QED
        BY <4>1, <1>1, <1>5, <1>6, ReaderAt, AtMinus
    <3>3. /\ \A j \in 1 .. Len(s.transactions) :
               /\ j \in 1 .. Len(log) /\ s.transactions[j] = log[j]
          /\ m <= Len(s.transactions) /\ Len(s.transactions) \in Nat
      <4>1. /\ \A j \in 1 .. Len(s.transactions) : s.transactions[j] = log[j]
            /\ m <= Len(s.transactions) /\ Len(s.transactions) <= Len(log)
        BY <3>1 DEF Recent
      <4>2. s.transactions \in Seq(Entries)
        BY <3>1 DEF Readers
      <4> HIDE DEF s
      <4>3. Len(s.transactions) \in Nat
        BY <4>2
      <4> QED
        BY <4>1, <4>3, <1>1
    <3>4. CASE q <= g
      <4>1. Pair(r, tr[At(g)])
        <5>1. q \in 1 .. g /\ g \in 1 .. g
          BY <3>4, <1>1
        <5> QED
          BY <5>1, <3>4, <1>3 DEF History
      <4>2. tr[At(g)].flushed <= s.flushed /\ tr[At(g)].position <= s.position
        <5>1. At(g) \in At(g) .. Len(u) /\ At(g) <= At(p)
          BY <3>1, <1>1
        <5> QED
          BY <5>1, <3>1 DEF Aligned, Timeline
      <4>3. r.flushed <= s.flushed /\ r.position <= s.position
        <5>1. r.flushed <= tr[At(g)].flushed /\ r.position <= tr[At(g)].position
          BY <4>1 DEF Pair
        <5>2. /\ r.flushed \in Nat /\ r.position \in Nat /\ s.flushed \in Nat /\ s.position \in Nat
              /\ tr[At(g)].flushed \in Nat /\ tr[At(g)].position \in Nat
          BY <3>1, <3>2, <1>1 DEF Readers
        <5> HIDE DEF r, s
        <5> QED
          BY <5>1, <5>2, <4>2
      <4>4. \A i \in 1 .. Len(r.transactions) : r.transactions[i].offset \in Nat /\ r.transactions[i].offset < At(g)
        <5> TAKE i \in 1 .. Len(r.transactions)
        <5>1. r.transactions[i].offset \in Nat
          BY <3>2, EntryOf DEF Readers
        <5>2. r.transactions[i].offset < r.position /\ r.position <= At(q) /\ r.position \in Nat
          BY <3>2 DEF Old, Readers
        <5>3. At(q) <= At(g)
          BY <3>4, <1>1, AtMinus
        <5> HIDE DEF r
        <5> QED
          BY <5>1, <5>2, <5>3, <3>2, <1>1, SMTT(20)
      <4>5. /\ \A i \in 1 .. m : /\ i \in 1 .. Len(tr[At(g)].transactions)
                                 /\ tr[At(g)].transactions[i] = log[i]
            /\ \A i \in m + 1 .. Len(log) : log[i].offset >= At(g)
        BY LogPlaces
      <4>6. ASSUME NEW j \in 1 .. Len(s.transactions)
            PROVE  \/ j <= Len(r.transactions) /\ r.transactions[j] = s.transactions[j]
                   \/ \A i \in 1 .. Len(r.transactions) :
                        r.transactions[i].offset < s.transactions[j].offset
        <5>1. j \in 1 .. Len(log) /\ s.transactions[j] = log[j] /\ log[j].offset \in Nat
          BY <3>3, LogTxn
        <5>2. CASE j <= m
          <6>1. j \in 1 .. Len(tr[At(g)].transactions) /\ tr[At(g)].transactions[j] = log[j]
            BY <5>2, <5>1, <4>5, <1>1
          <6> QED
            BY <6>1, <5>1, <4>1 DEF Pair
        <5>3. CASE j > m
          <6>1. log[j].offset >= At(g)
            BY <5>3, <5>1, <4>5, <1>1
          <6> HIDE DEF r, s
          <6>2. \A i \in 1 .. Len(r.transactions) : r.transactions[i].offset < log[j].offset
            BY <6>1, <5>1, <4>4, <1>1
          <6> QED
            BY <6>2, <5>1
        <5>4. j <= m \/ j > m
          BY <5>1, <1>1
        <5> HIDE DEF r, s
        <5> QED
          BY <5>2, <5>3, <5>4
      <4>7. ASSUME NEW i \in 1 .. Len(r.transactions), i <= Len(log), r.transactions[i] = log[i]
            PROVE  i <= Len(s.transactions) /\ s.transactions[i] = log[i]
        <5>1. r.transactions[i].offset \in Nat /\ r.transactions[i].offset < At(g)
          BY <4>4
        <5>2. i <= m
          <6>1. ASSUME i > m PROVE FALSE
            <7>1. i \in m + 1 .. Len(log)
              BY <6>1, <4>7, <1>1
            <7>2. log[i].offset >= At(g)
              BY <7>1, <4>5
            <7> QED
              BY <7>2, <5>1, <4>7, <1>1
          <6> QED
            BY <6>1, <1>1
        <5>3. i \in 1 .. Len(s.transactions)
          BY <5>2, <3>3, <1>1
        <5> QED
          BY <5>3, <3>3
      <4> QED
        BY <4>3, <4>6, <4>7 DEF Pair
    <3>5. CASE q > g
      <4>1. Recent(r, At(q), R, g, m) /\ At(q) \in At(g) .. Len(u)
        BY <3>5, <1>1, <1>2, RecentOld
      <4>2. r.flushed <= s.flushed /\ r.position <= s.position
        BY <3>1, <3>2, <4>1 DEF Aligned, Timeline
      <4>3. /\ \A j \in 1 .. Len(r.transactions) :
                 /\ j \in 1 .. Len(log) /\ r.transactions[j] = log[j]
            /\ Len(r.transactions) \in Nat
        BY <4>1, <3>2, <1>1, SMTT(20) DEF Recent, Readers
      <4>4. ASSUME NEW j \in 1 .. Len(s.transactions)
            PROVE  \/ j <= Len(r.transactions) /\ r.transactions[j] = s.transactions[j]
                   \/ \A i \in 1 .. Len(r.transactions) :
                        r.transactions[i].offset < s.transactions[j].offset
        <5>1. CASE j <= Len(r.transactions)
          <6>1. j \in 1 .. Len(r.transactions)
            BY <5>1, <4>3, <3>3
          <6> QED
            BY <6>1, <3>3, <4>3
        <5>2. CASE ~(j <= Len(r.transactions))
          <6>1. ASSUME NEW i \in 1 .. Len(r.transactions)
                PROVE  r.transactions[i].offset < s.transactions[j].offset
            <7>1. i < j /\ i \in 1 .. Len(log) /\ j \in 1 .. Len(log)
              BY <5>2, <4>3, <3>3
            <7>2. log[i].offset < log[j].offset
              BY <7>1 DEF LogInv, Ascending
            <7> QED
              BY <7>2, <4>3, <3>3
          <6> QED
            BY <6>1
        <5> QED
          BY <5>1, <5>2
      <4>5. ASSUME NEW i \in 1 .. Len(r.transactions)
            PROVE  i <= Len(s.transactions) /\ s.transactions[i] = log[i]
        <5>1. i \in 1 .. Len(log)
          BY <4>3
        <5>2. i <= Len(s.transactions)
          <6>1. CASE i <= m
            BY <6>1, <3>3, <5>1, <1>1
          <6>2. CASE i > m
            <7>1. i \in m + 1 .. Len(log) /\ i <= Len(r.transactions)
              BY <6>2, <5>1, <1>1, <4>3
            <7>2. log[i].offset + MutationSize + 1 <= At(q)
              BY <7>1, <4>1 DEF Recent
            <7>3. log[i].offset + MutationSize + 1 \in Nat
              <8>1. log[i].offset \in Nat
                BY <5>1, LogTxn
              <8> QED
                BY <8>1, SizesAssumption
            <7>4. log[i].offset + MutationSize + 1 <= At(p)
              BY <7>2, <7>3, <3>1, <3>2, <1>1
            <7> QED
              BY <7>1, <7>4, <3>1 DEF Recent
          <6> QED
            BY <6>1, <6>2, <5>1, <1>1
        <5>3. i \in 1 .. Len(s.transactions)
          BY <5>1, <5>2, <3>3
        <5> QED
          BY <5>3, <3>3
      <4> QED
        BY <4>2, <4>4, <4>5 DEF Pair
    <3> QED
      BY <3>4, <3>5, <1>1
  <2> QED
    BY <2>1, <2>2, <1>1
<1> QED
  BY <1>5, <1>6 DEF History

\* r has the transactions of the log before x, and they are before w.
Same(r, x, w) ==
    /\ \A i \in 1 .. Len(r.transactions) : r.transactions[i].offset < w =>
         i \in 1 .. Len(log) /\ r.transactions[i] = log[i] /\ log[i].offset < x
    /\ \A k \in 1 .. Len(log) : log[k].offset < x =>
         k \in 1 .. Len(r.transactions) /\ r.transactions[k] = log[k] /\ log[k].offset < w

\* What was durable can be recovered.
LEMMA CrashData ==
    ASSUME LogInv, NEW r \in Readers, Tidy(r), NEW x \in Nat, NEW w \in Nat,
           r.flushed <= w, w <= r.position, DataDurable(x), Same(r, x, w),
           log[synced + 1].offset < x, synced' = synced,
           \A b \in Blocks : data'[b] \in unstable.data[b]
    PROVE  Recoverable(r, w)'
<1> DEFINE t == r.transactions
<1>1. /\ t \in Seq(Entries) /\ Len(t) \in Nat /\ Len(log) \in Nat /\ r.flushed \in Nat /\ r.position \in Nat
      /\ synced \in Nat /\ synced + 1 <= Len(log)
  BY DEF Readers, LogInv
<1>2. ASSUME NEW i \in 1 .. Len(t), t[i].offset < w, BlockOf(t[i]) # NoBlock
      PROVE  \/ data'[BlockOf(t[i])] = t[i].txn.new.id
             \/ \E k \in i + 1 .. Len(t) : t[k].txn.old = BlockOf(t[i]) /\ t[k].offset < w
  <2>1. i \in 1 .. Len(log) /\ t[i] = log[i] /\ log[i].offset < x
    BY <1>2 DEF Same
  <2>2. unstable.data[BlockOf(log[i])] = {log[i].txn.new.id} \/ Freed(i, x)
    BY <1>2, <2>1 DEF DataDurable
  <2>3. CASE unstable.data[BlockOf(log[i])] = {log[i].txn.new.id}
    <3>1. BlockOf(log[i]) \in Blocks
      BY <1>2, <2>1, LogTxn
    <3> QED
      BY <3>1, <2>1, <2>3
  <2>4. CASE Freed(i, x)
    <3>1. PICK k \in i + 1 .. Len(log) : log[k].txn.old = BlockOf(log[i]) /\ log[k].offset < x
      BY <2>4 DEF Freed
    <3>2. k \in 1 .. Len(log)
      BY <2>1, <1>1
    <3>3. k \in 1 .. Len(t) /\ t[k] = log[k] /\ log[k].offset < w
      BY <3>1, <3>2 DEF Same
    <3>4. k \in i + 1 .. Len(t)
      BY <3>2, <3>3, <1>1
    <3> QED
      BY <3>1, <3>3, <3>4, <2>1
  <2> QED
    BY <2>2, <2>3, <2>4
<1> HIDE DEF t
<1>3. ASSUME NEW i \in Pushed(r), Obstructs(r, i, w), data'[BlockOf(t[i])] # t[i].txn.new.id
      PROVE  FALSE
  <2>1. i \in 1 .. Len(t) /\ t[i].offset < w /\ BlockOf(t[i]) # NoBlock /\ w <= Dependency(r, i)
    BY <1>3, PushedIs DEF Obstructs, t
  <2>2. PICK k \in i + 1 .. Len(t) : t[k].txn.old = BlockOf(t[i]) /\ t[k].offset < w
    BY <1>2, <1>3, <2>1
  <2>3. Dependency(r, i) = t[k].offset
    BY <2>2, DependencyIs DEF t
  <2>4. t[k].offset \in Nat
    <3>1. k \in 1 .. Len(t)
      BY <2>1, <1>1
    <3> QED
      BY <3>1, <1>1, EntryOf
  <2> QED
    BY <2>1, <2>2, <2>3, <2>4
<1>4. Blocked(r, w)' = \E i \in Pushed(r) : /\ Obstructs(r, i, w)
                                            /\ data'[BlockOf(t[i])] # t[i].txn.new.id
  BY DEF Blocked, t
<1>5. ~Blocked(r, w)'
  BY <1>3, <1>4
<1>6. synced' + 1 <= Len(t) /\ t[synced' + 1].offset < w
  <2>1. synced + 1 \in 1 .. Len(log)
    BY <1>1
  <2>2. synced + 1 \in 1 .. Len(t) /\ t[synced + 1] = log[synced + 1] /\ log[synced + 1].offset < w
    BY <2>1 DEF Same, t
  <2> QED
    BY <2>2, <1>1
<1>7. \A i \in 1 .. Len(t) : t[i].offset < r.flushed /\ BlockOf(t[i]) # NoBlock =>
           \/ data'[BlockOf(t[i])] = t[i].txn.new.id
           \/ \E k \in i + 1 .. Len(t) : t[k].txn.old = BlockOf(t[i]) /\ t[k].offset < w
  <2> TAKE i \in 1 .. Len(t)
  <2>1. t[i].offset \in Nat
    BY <1>1, EntryOf
  <2>2. t[i].offset < r.flushed => t[i].offset < w
    BY <2>1, <1>1
  <2> QED
    BY <2>2, <1>2
<1> QED
  BY <1>5, <1>6, <1>7 DEF Recoverable, t

\* What was durable at a crash can be recovered.
LEMMA CrashRecovers ==
    ASSUME NEW u, NEW R, NEW tr, NEW g, NEW m, NEW N, NEW v, Aligned(u, R, tr, g, m, N, v),
           LogInv, DeviceInv, InnerType, ~mid_block,
           \A b \in Blocks : data'[b] \in unstable.data[b], synced' = synced,
           NEW h \in Nat, g <= h, At(h) <= Len(u), DurableOffset(g) <= At(h)
    PROVE  (\E w \in 0 .. At(h) : Recoverable(tr[At(h)], w))'
<1> DEFINE d == DurableOffset(g)
<1>1. /\ Len(u) \in Nat /\ IsStream(u, R, tr) /\ g \in Nat /\ At(g) \in Nat /\ g >= 1
      /\ m \in Nat /\ m \in 1 .. Len(log) /\ Len(log) \in Nat /\ At(g) <= Len(u)
      /\ tr[At(g)] \in Readers /\ d \in Nat /\ At(g) <= d /\ tr[At(g)].position = At(g)
  BY AlignedIs
<1>2. /\ \A i \in 1 .. m : log[i].offset < At(g) /\ log[i].offset < v
                           /\ i \in 1 .. Len(tr[At(g)].transactions)
                           /\ tr[At(g)].transactions[i] = log[i]
      /\ \A i \in m + 1 .. Len(log) : log[i].offset >= At(g)
      /\ v \in Nat /\ v <= At(g) /\ tr[At(g)].flushed <= v
  BY LogPlaces
<1>3. DataDurable(d) /\ log[synced + 1].offset < d /\ Checkpoint(tr, Len(u), m, d)
  BY DEF Aligned, DurableInv
<1>4. At(h) \in Nat
  BY AtNext
<1>5. \A i \in 1 .. Len(log) : log[i].offset \in Nat
  BY LogTxn
<1>6. CASE h = g
  <2> DEFINE r == tr[At(g)]
  <2>1. d = At(g)
    BY <1>1, <1>6
  <2>2. Tidy(r) /\ r \in Readers /\ r.transactions \in Seq(Entries)
    <3>1. g \in 1 .. g
      BY <1>1
    <3> QED
      BY <3>1, <1>1 DEF Aligned, History, Old, Readers
  <2>3. \A i \in 1 .. Len(r.transactions) : i <= m <=> r.transactions[i].offset < v
    BY DEF Aligned, Base
  <2>4. Same(r, d, v)
    <3>1. ASSUME NEW i \in 1 .. Len(r.transactions), r.transactions[i].offset < v
          PROVE  i \in 1 .. Len(log) /\ r.transactions[i] = log[i] /\ log[i].offset < d
      <4>1. i \in 1 .. m
        BY <2>3, <3>1, <1>1
      <4> QED
        BY <4>1, <1>1, <1>2, <2>1
    <3>2. ASSUME NEW k \in 1 .. Len(log), log[k].offset < d
          PROVE  k \in 1 .. Len(r.transactions) /\ r.transactions[k] = log[k] /\ log[k].offset < v
      <4>1. k \in 1 .. m
        <5>1. ~(k \in m + 1 .. Len(log))
          BY <3>2, <1>1, <1>2, <1>5, <2>1
        <5> QED
          BY <5>1, <1>1
      <4> QED
        BY <4>1, <1>2
    <3> QED
      BY <3>1, <3>2 DEF Same
  <2> HIDE DEF r
  <2>5. r.flushed <= v /\ v <= r.position
    BY <1>1, <1>2 DEF r
  <2>6. Recoverable(r, v)'
    BY <2>1, <2>2, <2>4, <2>5, <1>1, <1>2, <1>3, CrashData
  <2>7. v \in 0 .. At(h)
    BY <1>2, <1>1, <1>6
  <2> QED
    BY <2>6, <2>7, <1>6 DEF r
<1>7. CASE h > g
  <2> DEFINE r == tr[At(h)]
  <2>1. Recent(r, At(h), R, g, m) /\ r \in Readers
    BY <1>7, <1>1, RecentOld
  <2>2. /\ Tidy(r) /\ r.flushed <= d /\ m <= Len(r.transactions) /\ Len(r.transactions) <= Len(log)
        /\ \A i \in 1 .. Len(r.transactions) : r.transactions[i] = log[i]
        /\ \A i \in m + 1 .. Len(log) :
             i <= Len(r.transactions) <=> log[i].offset + MutationSize + 1 <= At(h)
    BY <2>1 DEF Recent
  <2>3. Len(r.transactions) \in Nat
    BY <2>1 DEF Readers
  <2>4. d <= r.position
    <3>1. At(h) \in d .. Len(u)
      BY <1>1, <1>4
    <3>2. tr[At(h)].position >= d
      BY <3>1, <1>3 DEF Checkpoint
    <3> QED
      BY <3>2, <2>1, <1>1 DEF Readers
  <2> HIDE DEF r
  <2>5. Same(r, d, d)
    <3>1. \A i \in 1 .. Len(r.transactions) : i \in 1 .. Len(log)
      BY <2>2, <2>3, <1>1
    <3>2. ASSUME NEW k \in 1 .. Len(log), log[k].offset < d
          PROVE  k \in 1 .. Len(r.transactions) /\ r.transactions[k] = log[k]
      <4>1. CASE k <= m
        <5>1. k \in 1 .. Len(r.transactions)
          BY <4>1, <2>2, <2>3, <1>1
        <5> QED
          BY <5>1, <2>2
      <4>2. CASE k > m
        <5>1. k \in m + 1 .. Len(log)
          BY <4>2, <1>1
        <5>2. log[k].offset + MutationSize + 1 <= d
          BY <5>1, <3>2, <1>3 DEF Checkpoint
        <5>3. log[k].offset + MutationSize + 1 \in Nat
          BY <1>5, SizesAssumption
        <5>4. log[k].offset + MutationSize + 1 <= At(h)
          BY <5>2, <5>3, <1>1, <1>4
        <5>5. k \in 1 .. Len(r.transactions)
          BY <5>1, <5>4, <2>2, <2>3, <1>1
        <5> QED
          BY <5>5, <2>2
      <4> QED
        BY <4>1, <4>2, <1>1
    <3> QED
      BY <3>1, <3>2, <2>2 DEF Same
  <2>6. PICK x : x = d
    OBVIOUS
  <2> HIDE DEF d
  <2>7. Recoverable(r, x)'
    BY <2>1, <2>2, <2>4, <2>5, <2>6, <1>1, <1>3, CrashData DEF r
  <2>8. x \in 0 .. At(h)
    <3>1. d <= At(h)
      BY DEF d
    <3> QED
      BY <3>1, <2>6, <1>1, <1>4
  <2> QED
    BY <2>7, <2>8 DEF r
<1> QED
  BY <1>1, <1>6, <1>7

\* A crash after a mount at the end of a block.
LEMMA CrashAligned ==
    ASSUME Inv, Crash, InnerType,
           NEW u, NEW R, NEW tr, NEW g, NEW m, NEW N, NEW v, Aligned(u, R, tr, g, m, N, v)
    PROVE  (\E h : \E u2, R2, tr2 : Chained(u2, R2, tr2, h) /\ tr2[0] = StartReader)'
<1>1. /\ mid_block' = mid_block /\ log' = log /\ next_id' = next_id /\ synced' = synced
      /\ LogInv /\ DeviceInv /\ mid_block' \in BOOLEAN
      /\ \A i \in Indices : journal'[i] \in unstable.journal[i]
      /\ \A b \in Blocks : data'[b] \in unstable.data[b]
      /\ unstable' = Durable(journal', data')
      /\ \A b \in Blocks : unstable'.data[b] = {data'[b]}
  BY CrashIs
<1> DEFINE d == DurableOffset(g)
<1>2. /\ Len(u) \in Nat /\ IsStream(u, R, tr) /\ g \in Nat /\ At(g) \in Nat /\ g >= 1
      /\ JournalBlocks \in Nat /\ BlockSize \in Nat /\ BlockSize >= 3
      /\ At(g + 1) = At(g) + BlockSize /\ u \in Seq(AllUnits)
      /\ d \in Nat /\ At(g) <= d /\ d <= writer.offset /\ writer.offset <= Len(u)
      /\ writer.offset \in Nat /\ At(g) <= writer.offset
      /\ N \in Nat /\ N <= next_id /\ next_id \in Nat
  <2>1. /\ d \in Nat /\ At(g) <= d /\ d <= inner.flushed_offset
        /\ inner.flushed_offset <= writer.offset /\ writer.offset \in Nat
        /\ inner.flushed_offset \in Nat /\ At(g) \in Nat
    BY <1>1, AlignedIs
  <2> QED
    BY <2>1, <1>1, AlignedIs, SMTT(20)
<1>3. /\ \A j \in 1 .. Len(u) : u[j].record.txn.id < next_id
      /\ ResetsIn(R, 1 .. g) /\ JournalDurable(u, R, d) /\ Marked(u, R, g, N)
  BY DEF Aligned, DiskInv, DurableInv
<1>4. PICK k \in 0 .. JournalBlocks : writer.offset = At(k)
  BY DEF Aligned, WriterInv
<1>5. k \in Nat /\ k >= g /\ k \in Nat \ {0} /\ k <= JournalBlocks
  <2>1. k < g => At(k) + BlockSize <= At(g)
    BY <1>2, AtLess
  <2> QED
    BY <2>1, <1>2, <1>4
<1>6. \A i \in Indices :
        /\ i \in Nat /\ At(i) \in Nat /\ At(i + 1) \in Nat
        /\ \/ journal'[i] = Torn /\ i >= g
           \/ At(i + 1) <= writer.offset /\ IsChain(journal'[i], u, R, i)
           \/ At(g) \in R /\ i = g /\ ~Follows(journal'[i], u, R, i) /\ IsOlder(journal'[i], i, next_id)
           \/ At(g) \in R /\ i > g /\ IsOlder(journal'[i], i, N)
  <2> TAKE i \in Indices
  <2>1. i \in Nat /\ At(i) \in Nat /\ At(i + 1) \in Nat
    BY AtNext DEF Indices
  <2>2. journal'[i] \in unstable.journal[i]
    BY <1>1
  <2> QED
    BY <2>1, <2>2 DEF Aligned, DiskInv
<1>7. \A i \in Indices : i < g => IsChain(journal'[i], u, R, i)
  <2> TAKE i \in Indices
  <2> HAVE i < g
  <2>1. ~(i >= g) /\ ~(i = g) /\ ~(i > g)
    BY <1>2, <1>6
  <2> QED
    BY <2>1, <1>6
<1>8. PICK h \in 1 .. k : /\ \A i \in 0 .. h - 1 : IsChain(journal'[i], u, R, i)
                          /\ h = k \/ ~IsChain(journal'[h], u, R, h)
  <2>1. 0 \in Indices /\ 0 < g
    BY <1>2, SizesAssumption DEF Indices
  <2>2. IsChain(journal'[0], u, R, 0)
    BY <2>1, <1>7
  <2> QED
    BY <2>2, <1>5, FirstBreak
<1>9. /\ h \in Nat /\ h \in 1 .. JournalBlocks /\ h <= k /\ At(h) \in Nat
      /\ At(h) <= writer.offset /\ At(h) <= Len(u)
  <2>1. h \in Nat /\ h \in 1 .. JournalBlocks /\ h <= k
    BY <1>5, <1>2
  <2>2. At(h) \in Nat /\ At(h) <= At(k)
    BY <2>1, <1>5, AtNext, AtMinus
  <2> QED
    BY <2>1, <2>2, <1>2, <1>4
<1>10. g <= h
  <2>1. ASSUME h < g PROVE FALSE
    <3>1. h # k /\ h \in Indices
      BY <2>1, <1>2, <1>5, <1>9 DEF Indices
    <3> QED
      BY <3>1, <2>1, <1>7, <1>8
  <2> QED
    BY <2>1, <1>2, <1>9
<1>11. d <= At(h)
  <2>1. ASSUME At(h) < d PROVE FALSE
    <3>1. h # k
      BY <2>1, <1>2, <1>4, <1>9
    <3>2. h \in Indices
      BY <3>1, <1>2, <1>5, <1>9 DEF Indices
    <3>3. IsChain(journal'[h], u, R, h)
      BY <3>2, <2>1, <1>1, <1>3 DEF JournalDurable
    <3> QED
      BY <3>1, <3>3, <1>8
  <2> QED
    BY <2>1, <1>2, <1>9
<1>12. ASSUME NEW i \in Indices
      PROVE  IF i < h THEN IsChain(journal'[i], u, R, i) ELSE IsOlder(journal'[i], i, next_id)
  <2>0. i \in Nat
    BY <1>6
  <2>1. CASE i < h
    BY <2>0, <2>1, <1>8, <1>9
  <2>2. CASE ~(i < h)
    <3>1. CASE journal'[i] = Torn
      BY <2>2, <3>1 DEF IsOlder
    <3>2. CASE At(i + 1) <= writer.offset /\ IsChain(journal'[i], u, R, i)
      <4>1. At(i + 1) <= Len(u)
        BY <3>2, <1>2, <1>6
      <4>2. IsOlder(journal'[i], i, next_id)
        BY <4>1, <3>2, <1>2, <1>3, <2>0, ChainOlder
      <4> QED
        BY <4>2, <2>2
    <3>3. CASE IsOlder(journal'[i], i, next_id)
      BY <3>3, <2>2
    <3>4. CASE IsOlder(journal'[i], i, N)
      <4>1. CASE journal'[i] = Torn
        BY <4>1, <3>1
      <4>2. CASE /\ Len(journal'[i].units) = At(i + 1)
                 /\ \A j \in 1 .. At(i + 1) : journal'[i].units[j].record.txn.id < N
        <5>1. \A j \in 1 .. At(i + 1) : journal'[i].units[j].record.txn.id \in Nat
          <6>1. journal'[i].units \in Seq(AllUnits)
            BY CrashIs DEF DeviceInv, Checksums
          <6> TAKE j \in 1 .. At(i + 1)
          <6>2. journal'[i].units[j] \in AllUnits
            BY <6>1, <4>2, ElementOfSeq
          <6>3. journal'[i].units[j].record.txn \in AnyTxn
            BY <6>2 DEF AllUnits, Records
          <6> QED
            BY <6>3, TxnOf
        <5>2. \A j \in 1 .. At(i + 1) : journal'[i].units[j].record.txn.id < next_id
          <6> TAKE j \in 1 .. At(i + 1)
          <6>1. journal'[i].units[j].record.txn.id \in Nat /\ journal'[i].units[j].record.txn.id < N
            BY <5>1, <4>2
          <6>2. \A x \in Nat : x < N => x < next_id
            BY <1>2
          <6> QED
            BY <6>1, <6>2
        <5>3. IsOlder(journal'[i], i, next_id)
          BY <5>2, <4>2 DEF IsOlder
        <5> QED
          BY <5>3, <2>2
      <4> QED
        BY <4>1, <4>2, <3>4 DEF IsOlder
    <3> QED
      BY <3>1, <3>2, <3>3, <3>4, <1>6
  <2> QED
    BY <2>1, <2>2
<1>13. ASSUME h < JournalBlocks PROVE ~Follows(journal'[h], u, R, h)
  <2>1. h \in Indices
    BY <1>9, <1>13, <1>2 DEF Indices
  <2>2. CASE journal'[h] = Torn
    BY <2>2 DEF Follows
  <2>3. CASE At(h + 1) <= writer.offset /\ IsChain(journal'[h], u, R, h)
    <3>1. h = k
      BY <2>3, <1>8
    <3>2. At(h + 1) = At(h) + BlockSize
      BY <1>9, AtNext
    <3> QED
      BY <3>1, <3>2, <2>3, <1>2, <1>4, <1>9
  <2>4. CASE h = g /\ ~Follows(journal'[h], u, R, h)
    BY <2>4
  <2>5. CASE At(g) \in R /\ h > g /\ IsOlder(journal'[h], h, N)
    <3> SUFFICES ASSUME Follows(journal'[h], u, R, h) PROVE FALSE
      OBVIOUS
    <3>1. At(g + 1) <= At(h)
      BY <2>5, <1>2, <1>9, AtMinus
    <3>2. PICK j \in At(g) + 1 .. At(g + 1) : j <= Len(u) /\ u[j].record.txn.id >= N
      <4>1. ~(Len(u) = At(g)) /\ ~(Len(u) <= At(g) + 2)
        BY <3>1, <1>2, <1>9
      <4> QED
        BY <4>1, <2>5, <1>3 DEF Marked
    <3>3. j \in 1 .. At(h) /\ j \in 1 .. At(h + 1) /\ j \in 1 .. Len(u)
      <4>1. At(h) <= At(h + 1) /\ At(h + 1) \in Nat
        BY <1>9, AtNext, AtMinus
      <4> QED
        BY <3>1, <3>2, <4>1, <1>2, <1>9
    <3>4. journal'[h] # Torn /\ journal'[h].units[j] = u[j]
      BY <3>3 DEF Follows
    <3>5. journal'[h].units[j].record.txn.id < N
      BY <3>3, <3>4, <2>5 DEF IsOlder
    <3>6. u[j].record.txn.id \in Nat
      <4>1. u[j] \in AllUnits
        BY <3>3, <1>2, ElementOfSeq
      <4>2. u[j].record.txn \in AnyTxn
        BY <4>1 DEF AllUnits, Records
      <4> QED
        BY <4>2, TxnOf
    <3> QED
      BY <3>2, <3>4, <3>5, <3>6, <1>2, SMTT(20)
  <2> QED
    BY <2>1, <2>2, <2>3, <2>4, <2>5, <1>6
<1>14. History(tr, h)'
  <2>1. History(tr, h) /\ \A q \in 1 .. h : tr[At(q)] \in Readers
    BY <1>1, <1>2, <1>9, GrownHistory, ReaderAt
  <2>2. \A b \in Blocks : \A n : n \in unstable'.data[b] => n \in unstable.data[b]
    BY <1>1
  <2> QED
    BY <2>1, <2>2, <1>1, <1>9, HistoryShrinks
<1>15. (~mid_block => \E w \in 0 .. At(h) : Recoverable(tr[At(h)], w))'
  <2>1. ASSUME ~mid_block' PROVE (\E w \in 0 .. At(h) : Recoverable(tr[At(h)], w))'
    BY <2>1, <1>1, <1>9, <1>10, <1>11, CrashRecovers
  <2> QED
    BY <2>1, <1>1
<1>16. (\E u2, R2, tr2 : Chained(u2, R2, tr2, h) /\ tr2[0] = StartReader)'
  BY <1>1, <1>2, <1>3, <1>9, <1>12, <1>13, <1>14, <1>15, CutChain
<1> QED
  BY <1>16

\* Crash.
LEMMA CrashKeeps ==
    ASSUME Inv, Crash
    PROVE  Inv'
<1>1. /\ LogInv' /\ DeviceInv' /\ Unmounted' /\ mid_block' \in BOOLEAN
      /\ pc' = "reading" /\ reader' = StartReader /\ Mounted
  BY CrashIs
<1>2. (\E h : \E u2, R2, tr2 : Chained(u2, R2, tr2, h) /\ tr2[0] = StartReader)'
  <2>1. InnerType
    BY <1>1 DEF Mounted, InnerType
  <2>2. CASE \E u, R, tr, g, m, N, v : Aligned(u, R, tr, g, m, N, v)
    BY <2>1, <2>2, CrashAligned
  <2>3. CASE \E u, R, tr, g, m, v : Frozen(u, R, tr, g, m, v)
    BY <2>3, CrashFrozen
  <2> QED
    BY <1>1, <2>2, <2>3 DEF Mounted
<1>3. PICK h, u2, R2, tr2 : Chained(u2, R2, tr2, h)' /\ tr2[0] = StartReader
  BY <1>2
<1>4. Replaying(u2, R2, tr2, h)'
  <2>1. h \in Nat
    BY <1>3 DEF Chained
  <2>2. reader'.offset = 0 /\ 0 \in 0 .. At(h)
    BY <1>1, <2>1, AtNext DEF StartReader
  <2> QED
    BY <1>1, <1>3, <2>2 DEF Replaying
<1> QED
  BY <1>1, <1>4 DEF Inv
=============================================================================
