---------------------------- MODULE FxCompaction ----------------------------
(***************************************************************************)
(* Compaction of the fxfs journal and what a mount makes of it             *)
(* (src/storage/fxfs/src/object_store/{journal,object_manager,allocator}.rs,*)
(* journal/super_block.rs and object_store.rs).                            *)
(*                                                                         *)
(* Objects keep their recent mutations in memory and in the journal.  To   *)
(* free journal space each one writes its mutations to a layer file, and a *)
(* new super-block says from which offset on the journal still matters to  *)
(* whom.  Transactions are committed all the while, the super-blocks and   *)
(* the end of the journal are at the mercy of a crash until the device is  *)
(* flushed, and the next mount, which may crash in its turn, must give     *)
(* every object each of its mutations once.                                *)
(*                                                                         *)
(* Transactions are numbered, and their numbers stand for offsets in the   *)
(* journal.  The contents of an object, of a layer file or of a super-block*)
(* are the numbers of the transactions whose mutations they hold.  A layer *)
(* file's data is there whenever the transaction that refers to it is      *)
(* replayed, and the journal recovers a prefix of the transactions: that   *)
(* is FxJournal's part.                                                    *)
(***************************************************************************)
EXTENDS Naturals, Sequences, FiniteSets, FiniteSetsExt

CONSTANTS
    Objects,       \* the objects with a journal dependency: "root" and some of
                   \* "allocator" and "volume"
    ReclaimSize,   \* RECLAIM_SIZE / 2, in transactions
    MaxUserTxns,   \* transactions that are not part of a compaction
    MaxTxns,       \* transactions in all
    MaxCrashes

ASSUME ObjectsAssumption ==
    "root" \in Objects /\ Objects \subseteq {"root", "allocator", "volume"}
ASSUME BoundsAssumption ==
    {ReclaimSize, MaxUserTxns, MaxTxns, MaxCrashes} \subseteq Nat

VARIABLES
    log,           \* the journal: the committed transactions
    durable,       \* how many of them the last flush of the device covers
    copies,        \* what each super-block may turn out to be after a crash
    mounted,
    replaying,     \* the offset replay has got to, None if it is not under way
    object,        \* the LSM tree and the counts of each object
    root_parent,   \* the contents of the root parent store
    checkpoints,   \* ObjectManager::journal_checkpoints
    journal,       \* super_block, super_block_to_write, zero_offset
    commit,        \* the holder of commit_mutex, inside pre_commit
    compaction,    \* the future of compact()
    panicked,
    users, crashes

vars == <<log, durable, copies, mounted, replaying, object, root_parent, checkpoints, journal,
          commit, compaction, panicked, users, crashes>>

None == 0
Copies == {"A", "B"}
Other(copy) == IF copy = "A" THEN "B" ELSE "A"
Torn == [generation |-> 0]

NoInfo == [layers |-> {}, count |-> 0]

Update(objs) ==
    [updates |-> objs \cap (Objects \cup {"root_parent"}), begin |-> "none", end |-> "none",
     info |-> NoInfo, trim |-> None]
BeginFlush(o, objs) == [Update(objs) EXCEPT !.begin = o]
EndFlush(o, objs, info) == [Update(objs) EXCEPT !.end = o, !.info = info]
Trim(offset) == [Update({"root_parent", "allocator"}) EXCEPT !.trim = offset]

\* The store that holds an object's layer files and its StoreInfo.
Parent(o) == IF o = "root" THEN "root_parent" ELSE "root"

-----------------------------------------------------------------------------
(* What a transaction does to an object and to its checkpoints. *)

EmptyObject ==
    [mutable |-> {}, sealed |-> {}, layers |-> {}, count |-> 0, recent |-> 0,
     flushing |-> 0, opened |-> FALSE]

\* apply_mutation, ApplyMode::Live.  When a flush ends set_layers puts the new
\* layers in place of the immutable ones.
ApplyLive(obj, o, n, txn) ==
    LET updated == IF o \in txn.updates
                   THEN [obj EXCEPT !.mutable = @ \cup {n}, !.count = @ + 1] ELSE obj
    IN  CASE txn.begin = o -> [updated EXCEPT !.sealed = @ \cup updated.mutable,
                                              !.mutable = {}]
          [] txn.end = o -> [updated EXCEPT !.sealed = {}, !.layers = txn.info.layers]
          [] OTHER -> updated

\* apply_mutation, ApplyMode::Replay.  The counts are what has to be added to
\* the StoreInfo that is loaded later: since the last BeginFlush (the front of
\* the ReplayInfo queue) and before it (the rest, which EndFlush cuts off).  The
\* allocator keeps their sum, and the second as info.allocated_bytes.
KeepsCounts(obj) == [obj EXCEPT !.sealed = {}]

ReplayEndFlush(obj) == [obj EXCEPT !.sealed = {}, !.flushing = 0]

ApplyReplay(obj, o, n, txn) ==
    LET updated == IF o \in txn.updates
                   THEN [obj EXCEPT !.mutable = @ \cup {n}, !.recent = @ + 1] ELSE obj
    IN  CASE txn.begin = o ->
               [updated EXCEPT !.sealed = @ \cup updated.mutable, !.mutable = {},
                               !.flushing = @ + updated.recent, !.recent = 0]
          [] txn.end = o -> ReplayEndFlush(updated)
          [] OTHER -> updated

\* ObjectManager::apply_mutation.  Current(x) is [old |-> None, current |-> x],
\* Old(x) is [old |-> x, current |-> None], Both has both.
NoCheckpoint == [old |-> None, current |-> None]
Earliest(c) == IF c.old # None THEN c.old ELSE c.current

DependsOnLast(c, n) == [c EXCEPT !.current = n]

Depends(c, n) == IF c.current = None THEN [c EXCEPT !.current = n] ELSE c

ApplyCheckpoint(c, o, n, txn) ==
    LET updated == IF o \in txn.updates THEN Depends(c, n) ELSE c
    IN  CASE txn.begin = o -> [old |-> Earliest(updated), current |-> None]
          [] txn.end = o /\ updated.old # None -> [updated EXCEPT !.old = None]
          [] OTHER -> updated

-----------------------------------------------------------------------------
(* The super-block. *)

\* The offset after the last transaction.
EndOffset == Len(log) + 1

\* journal_file_offsets()
Offsets == [o \in Objects |-> Earliest(checkpoints[o])]

\* write_super_block: the next generation, from what the object manager and the
\* root parent store hold.  No offset means that there is no dependency.
NewSuperBlock ==
    LET needed == {Offsets[o] : o \in Objects} \ {None}
    IN  [generation |-> journal.super_block.generation + 1,
         offset |-> EndOffset,
         checkpoint |-> IF needed = {} THEN EndOffset ELSE Min(needed),
         offsets |-> Offsets,
         contents |-> root_parent]

\* should_apply
ShouldApply(sb, o, n) ==
    n >= (IF sb.offsets[o] # None THEN sb.offsets[o] ELSE sb.offset)

-----------------------------------------------------------------------------
(* The state after format, close and mount: one transaction, replayed. *)

Idle == [pc |-> "idle", todo |-> {}, step |-> "Begin", snapshot |-> 0, layers |-> {}]

Format == Update(Objects \cup {"root_parent"})
FirstSuperBlock ==
    [generation |-> 2, offset |-> 2, checkpoint |-> 1, offsets |-> [o \in Objects |-> 1],
     contents |-> {1}]

Init ==
    /\ log = <<Format>>
    /\ durable = 1
    /\ copies = [c \in Copies |-> IF c = "A" THEN {FirstSuperBlock} ELSE {Torn}]
    /\ mounted = TRUE
    /\ replaying = None
    /\ object = [o \in Objects |-> [EmptyObject EXCEPT !.mutable = {1}, !.count = 1,
                                                       !.opened = TRUE]]
    /\ root_parent = {1}
    /\ checkpoints = [o \in Objects |-> [old |-> None, current |-> 1]]
    /\ journal = [super_block |-> FirstSuperBlock, to_write |-> "B", zero_offset |-> None]
    /\ commit = [pc |-> "free", trim |-> None]
    /\ compaction = Idle
    /\ panicked = FALSE
    /\ users = 0
    /\ crashes = 0

-----------------------------------------------------------------------------
(* Committing. *)

Running == mounted /\ ~panicked
WriterLocked == compaction.pc = "writing"

\* write_and_apply_mutations, with writer_mutex.
WriteAndApply(txn) ==
    LET n == Len(log) + 1 IN
    /\ Running /\ ~WriterLocked
    /\ n <= MaxTxns
    /\ log' = Append(log, txn)
    /\ object' = [o \in Objects |-> ApplyLive(object[o], o, n, txn)]
    /\ root_parent' = IF "root_parent" \in txn.updates THEN root_parent \cup {n}
                      ELSE root_parent
    /\ checkpoints' = [o \in Objects |-> ApplyCheckpoint(checkpoints[o], o, n, txn)]

\* pre_commit reads zero_offset, and commits a transaction of its own to free
\* that part of the journal file; a super-block may be written in between.
PreCommit ==
    /\ Running /\ commit.pc = "free" /\ journal.zero_offset # None
    /\ commit' = [pc |-> "trimming", trim |-> journal.zero_offset]
    /\ UNCHANGED <<log, durable, copies, mounted, replaying, object, root_parent,
                   checkpoints, journal, compaction, panicked, users, crashes>>

TrimJournal ==
    /\ commit.pc = "trimming"
    /\ WriteAndApply(Trim(commit.trim))
    /\ journal' = [journal EXCEPT !.zero_offset = IF @ = commit.trim THEN None ELSE @]
    /\ commit' = [pc |-> "ready", trim |-> None]
    /\ UNCHANGED <<durable, copies, mounted, replaying, compaction, panicked, users,
                   crashes>>

\* commit(): the rest.
CommitReady == commit.pc = "ready" \/ (commit.pc = "free" /\ journal.zero_offset = None)

Commit(txn) ==
    /\ CommitReady
    /\ WriteAndApply(txn)
    /\ commit' = [pc |-> "free", trim |-> None]

UserCommit(o) ==
    /\ users < MaxUserTxns /\ object[o].opened
    /\ Commit(Update({o, "allocator"}))
    /\ users' = users + 1
    /\ UNCHANGED <<durable, copies, mounted, replaying, journal, compaction, panicked,
                   crashes>>

\* What was last written to a super-block.
Written(c) == CHOOSE sb \in copies[c] : \A other \in copies[c] :
                                          other.generation <= sb.generation

\* flush_device.  If no transaction was written since the device was last
\* flushed, it depends on the padding whether it is flushed again.
FlushDevice ==
    \/ /\ durable' = Len(log)
       /\ copies' = [c \in Copies |-> {Written(c)}]
    \/ /\ durable = Len(log)
       /\ UNCHANGED <<durable, copies>>

Sync ==
    /\ Running /\ ~WriterLocked
    /\ FlushDevice
    /\ UNCHANGED <<log, mounted, replaying, object, root_parent, checkpoints, journal,
                   commit, compaction, panicked, users, crashes>>

-----------------------------------------------------------------------------
(* compact() *)

\* Whoever has a checkpoint is flushed, in reverse order of the object
\* identifiers: the root store comes last.
ToFlush == {o \in Objects : Earliest(checkpoints[o]) # None}

FlushedNext(todo) == CASE "volume" \in todo -> "volume"
                       [] "allocator" \in todo -> "allocator"
                       [] OTHER -> "root"

StartCompaction ==
    /\ Running /\ compaction.pc = "idle"
    /\ EndOffset - journal.super_block.checkpoint > ReclaimSize
    /\ compaction' = [Idle EXCEPT !.pc = "flushing", !.todo = ToFlush]
    /\ UNCHANGED <<log, durable, copies, mounted, replaying, object, root_parent,
                   checkpoints, journal, commit, panicked, users, crashes>>

\* The transactions of ObjectStore::flush and SimpleAllocator::flush: the
\* allocator creates its layer file in the transaction of BeginFlush, a store
\* in one of its own; then the file is written, EndFlush is committed together
\* with the new StoreInfo, and layer files that are now of no use are purged.
Files(o) == {Parent(o), "allocator"}

FlushTxn(o, step) ==
    CASE step = "Begin" -> BeginFlush(o, IF o = "allocator" THEN {"root"} ELSE {})
      [] step = "End" ->
           EndFlush(o, Files(o), [layers |-> compaction.layers, count |-> compaction.snapshot])
      [] OTHER -> Update(Files(o))

NextStep(o, step) ==
    CASE step = "Begin" -> IF o = "allocator" THEN "Write" ELSE "Create"
      [] step = "Create" -> "Write"
      [] step = "Write" -> "End"
      [] step = "End" -> IF object[o].layers # {} THEN "Purge" ELSE "Begin"
      [] step = "Purge" -> "Begin"

\* StoreInfo is taken when BeginFlush is applied; what goes into the layer file
\* is what is immutable when it is written.
FlushStep ==
    /\ compaction.pc = "flushing" /\ compaction.todo # {}
    /\ LET o == FlushedNext(compaction.todo)
           step == compaction.step
           next == NextStep(o, step)
       IN
       /\ ~(step = "Begin" /\ ~object[o].opened)
       /\ Commit(FlushTxn(o, step))
       /\ compaction' =
            [compaction EXCEPT
               !.step = next,
               !.todo = IF next = "Begin" THEN @ \ {o} ELSE @,
               !.snapshot = IF step = "Begin" THEN object[o].count ELSE @,
               !.layers = IF step = "Write" THEN object[o].sealed \cup object[o].layers ELSE @]
    /\ UNCHANGED <<durable, copies, mounted, replaying, journal, panicked, users, crashes>>

\* The StoreInfo of a store that was not opened since the mount is not there.
FlushUnopened ==
    /\ Running /\ ~WriterLocked /\ CommitReady
    /\ compaction.pc = "flushing" /\ compaction.todo # {}
    /\ compaction.step = "Begin" /\ ~object[FlushedNext(compaction.todo)].opened
    /\ panicked' = TRUE
    /\ UNCHANGED <<log, durable, copies, mounted, replaying, object, root_parent,
                   checkpoints, journal, commit, compaction, users, crashes>>

\* write_super_block, up to the flush; from here on it holds writer_mutex.
SuperBlockFlush ==
    /\ Running /\ compaction.pc = "flushing" /\ compaction.todo = {}
    /\ FlushDevice
    /\ compaction' = [compaction EXCEPT !.pc = "writing"]
    /\ UNCHANGED <<log, mounted, replaying, object, root_parent, checkpoints, journal,
                   commit, panicked, users, crashes>>

\* What may be zeroed once the new super-block is there: what the old one, which
\* must do until the device is flushed, does not need.
NewCheckpoint(old, new) == new.checkpoint

ZeroOffset(old, new) == old.checkpoint

SuperBlockWrite ==
    /\ Running /\ WriterLocked
    /\ LET new == NewSuperBlock
           old == journal.super_block
           copy == journal.to_write
       IN
       /\ copies' = [copies EXCEPT ![copy] = @ \cup {Torn, new}]
       /\ journal' = [super_block |-> new, to_write |-> Other(copy),
                      zero_offset |-> ZeroOffset(old, new)]
    /\ compaction' = Idle
    /\ UNCHANGED <<log, durable, mounted, replaying, object, root_parent, checkpoints,
                   commit, panicked, users, crashes>>

-----------------------------------------------------------------------------
(* Crash, and replay at the next mount. *)

Crash ==
    /\ mounted \/ replaying # None
    /\ crashes < MaxCrashes
    /\ crashes' = crashes + 1
    /\ \E n \in durable .. Len(log) : log' = SubSeq(log, 1, n) /\ durable' = n
    /\ \E a \in copies["A"], b \in copies["B"] :
         copies' = [c \in Copies |-> IF c = "A" THEN {a} ELSE {b}]
    /\ mounted' = FALSE
    /\ replaying' = None
    /\ object' = [o \in Objects |-> EmptyObject]
    /\ root_parent' = {}
    /\ checkpoints' = [o \in Objects |-> NoCheckpoint]
    /\ commit' = [pc |-> "free", trim |-> None]
    /\ compaction' = Idle
    /\ panicked' = FALSE
    /\ UNCHANGED <<journal, users>>

\* The copy replay() chooses, and whether the journal is there for it.
Chosen == IF Written("B").generation > Written("A").generation THEN "B" ELSE "A"

\* From its checkpoint to the point where it was written.
Replayable(sb) ==
    /\ sb # Torn
    /\ EndOffset >= sb.offset
    /\ \A n \in 1 .. Len(log) : log[n].trim <= sb.checkpoint

\* open(): the layer files and the count that the parent's contents name.
Contents(obj) == obj.layers \cup obj.sealed \cup obj.mutable

InfoOf(o, parent) ==
    LET ends == {n \in parent : log[n].end = o}
    IN  IF ends = {} THEN NoInfo ELSE log[Max(ends)].info

Open(obj, o, parent) ==
    LET info == InfoOf(o, parent)
    IN  [obj EXCEPT !.layers = info.layers,
                    !.count = info.count + obj.flushing + obj.recent,
                    !.flushing = 0, !.recent = 0, !.opened = TRUE]

\* replay(): the super-block, the journal from its checkpoint on, one
\* transaction after the other, then the root store and the allocator are
\* opened.  The code looks at the end of the journal when all is replayed;
\* nothing changes it in between.
LoadSuperBlock ==
    /\ ~mounted /\ replaying = None
    /\ LET sb == Written(Chosen) IN
       /\ Replayable(sb)
       /\ journal' = [super_block |-> sb, to_write |-> Other(Chosen), zero_offset |-> None]
       /\ root_parent' = sb.contents
       /\ replaying' = sb.checkpoint
    /\ UNCHANGED <<log, durable, copies, mounted, object, checkpoints, commit, compaction,
                   panicked, users, crashes>>

ReplayTransaction ==
    /\ replaying # None /\ replaying < EndOffset
    /\ LET n == replaying
           sb == journal.super_block
       IN
       /\ object' = [o \in Objects |-> IF ShouldApply(sb, o, n)
                                       THEN ApplyReplay(object[o], o, n, log[n])
                                       ELSE object[o]]
       /\ checkpoints' = [o \in Objects |-> IF ShouldApply(sb, o, n)
                                            THEN ApplyCheckpoint(checkpoints[o], o, n, log[n])
                                            ELSE checkpoints[o]]
       /\ root_parent' = IF n >= sb.offset /\ "root_parent" \in log[n].updates
                         THEN root_parent \cup {n} ELSE root_parent
       /\ replaying' = n + 1
    /\ UNCHANGED <<log, durable, copies, mounted, journal, commit, compaction, panicked, users,
                   crashes>>

Mount ==
    /\ replaying = EndOffset
    /\ LET root == Open(object["root"], "root", root_parent) IN
       object' = [o \in Objects |->
                    CASE o = "root" -> root
                      [] o = "allocator" -> Open(object[o], o, Contents(root))
                      [] o = "volume" -> object[o]]
    /\ mounted' = TRUE
    /\ replaying' = None
    /\ UNCHANGED <<log, durable, copies, root_parent, checkpoints, journal, commit, compaction,
                   panicked, users, crashes>>

\* open_store
OpenVolume ==
    /\ Running /\ "volume" \in Objects
    /\ ~object["volume"].opened
    /\ object' = [object EXCEPT !["volume"] = Open(@, "volume", Contents(object["root"]))]
    /\ UNCHANGED <<log, durable, copies, mounted, replaying, root_parent, checkpoints,
                   journal, commit, compaction, panicked, users, crashes>>

Next ==
    \/ PreCommit \/ TrimJournal \/ \E o \in Objects : UserCommit(o)
    \/ Sync
    \/ StartCompaction \/ FlushStep \/ FlushUnopened
    \/ SuperBlockFlush \/ SuperBlockWrite
    \/ Crash \/ LoadSuperBlock \/ ReplayTransaction \/ Mount \/ OpenVolume

Spec == Init /\ [][Next]_vars

-----------------------------------------------------------------------------

(***************************************************************************)
(* An object's layer files, sealed layers and mutable layer hold, between  *)
(* them, every mutation the journal ever had for it, each in one place     *)
(* only: after every mount too, whatever the crash left of the journal and *)
(* the super-blocks and however far a flush had got.                       *)
(***************************************************************************)
Mutations(o) == {n \in 1 .. Len(log) : o \in log[n].updates}

EveryMutationOnce ==
    mounted => \A o \in Objects :
      LET obj == IF object[o].opened THEN object[o]
                 ELSE Open(object[o], o, Contents(object["root"]))
      IN  /\ Contents(obj) = Mutations(o)
          /\ obj.layers \cap (obj.sealed \cup obj.mutable) = {}
          /\ obj.sealed \cap obj.mutable = {}

(***************************************************************************)
(* object_count and allocated_bytes, which are kept as deltas during a     *)
(* replay and added to what the last flush has recorded, count every       *)
(* mutation once.                                                          *)
(***************************************************************************)
CountsMatch ==
    mounted => \A o \in Objects :
      object[o].opened => object[o].count = Cardinality(Mutations(o))

(***************************************************************************)
(* The super-block a mount chooses is readable, the journal reaches the    *)
(* point where it was written ("journal replay cut short" otherwise), and  *)
(* what it still needs of the journal has not been zeroed.                 *)
(***************************************************************************)
AlwaysReplayable == ~mounted => Replayable(Written(Chosen))

(***************************************************************************)
(* "The stores will get properly opened once we finish replaying the       *)
(* journal" (object_manager.rs): a compaction finds every store it flushes *)
(* open.                                                                   *)
(***************************************************************************)
StoresOpenedAfterReplay == ~panicked
=============================================================================
