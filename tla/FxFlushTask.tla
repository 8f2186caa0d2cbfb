---------------------------- MODULE FxFlushTask ----------------------------
(***************************************************************************)
(* The task that writes the fxfs journal to the device and runs            *)
(* compactions, and everyone who waits for it                              *)
(* (src/storage/fxfs/src/object_store/journal.rs: flush_task, flush,       *)
(* compact, sync, flush_device, check_journal_space, stop_compactions,     *)
(* terminate; filesystem.rs: commit_transaction, close).                   *)
(*                                                                         *)
(* One task polls two futures.  It is polled when its waker was called, and*)
(* the wakers are single slots in Journal::inner: flush_waker for the task,*)
(* sync_waker for whoever is inside flush_device, which may be the task    *)
(* itself.  A future that has to wait for the device gets an answer later, *)
(* or at once, in the poll that asks.  Offsets count blocks.               *)
(***************************************************************************)
EXTENDS Naturals, FiniteSets

CONSTANTS
    Syncs,         \* tasks that call sync() with flush_device
    Writers,       \* tasks that need journal space
    ReclaimSize,   \* RECLAIM_SIZE
    MaxCommits     \* transactions the writers commit

ASSUME ReclaimAssumption == ReclaimSize \in Nat \ {0} /\ MaxCommits \in Nat
ASSUME NamesAssumption == {"compaction", "closer", "none"} \cap Syncs = {}

VARIABLES
    written,     \* where the full blocks in JournalWriter end
    partial,     \* there is something in the block after them
    taken,       \* where take_buffer has got to
    inner,       \* flushed_offset, the wakers, the flags and the super-block's offset
    event,       \* who waits for reclaim_event, if there is one
    task,        \* the flush task
    flush_fut, compact_fut,
    sync_mutex,
    syncing,     \* the callers of sync(), close() among them
    writer,      \* the callers of check_journal_space
    closer,
    commits       \* transactions the writers have committed

vars == <<written, partial, taken, inner, event, task, flush_fut, compact_fut, sync_mutex, syncing,
          writer, closer, commits>>

Syncers == Syncs \cup {"closer"}

\* write_super_block keeps writer_mutex from pad_to_block on.
WriterLocked == compact_fut.pc \in {"device", "writing", "written"}

Init ==
    /\ written = 0 /\ partial = FALSE /\ taken = 0 /\ commits = 0
    /\ inner = [flushed_offset |-> 0, flush_waker |-> FALSE, sync_waker |-> "none",
                terminate |-> FALSE, disable_compactions |-> FALSE,
                compaction_running |-> FALSE, checkpoint |-> 0]
    /\ event = {}
    /\ task = [pc |-> "none", woken |-> FALSE, pending |-> TRUE, flush_error |-> FALSE]
    /\ flush_fut = "none"
    /\ compact_fut = [pc |-> "none", offset |-> 0, checkpoint |-> 0]
    /\ sync_mutex = "none"
    /\ syncing = [s \in Syncers |-> [pc |-> "idle", offset |-> 0, woken |-> FALSE]]
    /\ writer = [w \in Writers |-> "idle"]
    /\ closer = "open"

-----------------------------------------------------------------------------
(* Wakers. *)

\* flush_waker.take() and wake().
TaskNotWoken == task

TaskWoken == [task EXCEPT !.woken = @ \/ inner.flush_waker]

\* last_end_offset - super_block.journal_checkpoint.file_offset
Usage == written - inner.checkpoint

-----------------------------------------------------------------------------
(* Writers: a transaction that checks for space, then commits. *)

\* check_journal_space
CheckSpace(w) ==
    /\ writer[w] = "check"
    /\ \/ /\ inner.terminate \/ (Usage >= ReclaimSize /\ inner.disable_compactions)
          /\ writer' = [writer EXCEPT ![w] = "error"]
          /\ UNCHANGED event
       \/ /\ ~inner.terminate /\ Usage < ReclaimSize
          /\ writer' = [writer EXCEPT ![w] = "commit"]
          /\ UNCHANGED event
       \/ /\ ~inner.terminate /\ Usage >= ReclaimSize /\ ~inner.disable_compactions
          /\ writer' = [writer EXCEPT ![w] = "wait"]
          /\ event' = event \cup {w}
    /\ UNCHANGED <<written, partial, taken, inner, task, flush_fut, compact_fut, sync_mutex, syncing,
                   closer, commits>>

NewTransaction(w) ==
    /\ writer[w] = "idle" /\ commits < MaxCommits
    /\ writer' = [writer EXCEPT ![w] = "check"]
    /\ UNCHANGED <<written, partial, taken, inner, event, task, flush_fut, compact_fut, sync_mutex,
                   syncing, closer, commits>>

\* The event was dropped: look again.
Reclaimed(w) ==
    /\ writer[w] = "wait" /\ w \notin event
    /\ writer' = [writer EXCEPT ![w] = "check"]
    /\ UNCHANGED <<written, partial, taken, inner, event, task, flush_fut, compact_fut, sync_mutex,
                   syncing, closer, commits>>

\* A transaction fills a block and leaves something in the next.
WriteRecords ==
    /\ written' = written + 1
    /\ partial' = TRUE

\* commit_transaction: the flush task is started by the first commit, and woken
\* once the transaction is in the journal.  Nobody commits once close() has got
\* as far as terminate(): that would start another task.
CommitWrites(w) ==
    /\ writer[w] = "commit" /\ commits < MaxCommits
    /\ closer \notin {"joining", "closed"} /\ ~WriterLocked
    /\ writer' = [writer EXCEPT ![w] = "idle"]
    /\ WriteRecords
    /\ commits' = commits + 1
    /\ task' = IF task.pc = "none" THEN [task EXCEPT !.pc = "idle", !.woken = TRUE]
               ELSE TaskWoken
    /\ inner' = [inner EXCEPT !.flush_waker = FALSE]
    /\ UNCHANGED <<taken, event, flush_fut, compact_fut, sync_mutex, syncing, closer>>

DropTransaction(w) ==
    /\ writer[w] = "commit"
    /\ writer' = [writer EXCEPT ![w] = "idle"]
    /\ UNCHANGED <<written, partial, taken, inner, event, task, flush_fut, compact_fut, sync_mutex,
                   syncing, closer, commits>>

-----------------------------------------------------------------------------
(* sync() *)

StartSync(s) ==
    /\ s \in Syncs /\ syncing[s].pc = "idle"
    /\ syncing' = [syncing EXCEPT ![s].pc = "lock"]
    /\ UNCHANGED <<written, partial, taken, inner, event, task, flush_fut, compact_fut, sync_mutex,
                   writer, closer, commits>>

\* pad_to_block; the offset to wait for is in the block that it fills.
PadToBlock ==
    /\ written' = IF partial THEN written + 1 ELSE written
    /\ partial' = FALSE
    /\ task' = IF partial THEN TaskWoken ELSE task
    /\ inner' = IF partial THEN [inner EXCEPT !.flush_waker = FALSE] ELSE inner

SyncLock(s) ==
    /\ syncing[s].pc = "lock" /\ sync_mutex = "none" /\ ~WriterLocked
    /\ sync_mutex' = s
    /\ PadToBlock
    /\ syncing' = [syncing EXCEPT ![s] = [pc |-> "device", offset |-> written', woken |-> TRUE]]
    /\ UNCHANGED <<taken, event, flush_fut, compact_fut, writer, closer, commits>>

\* flush_device, polled: it is done, or it leaves its waker in sync_waker.
\* Unlocking sync_mutex wakes a compaction that waits for it.
Flushed(offset) == inner.flushed_offset >= offset

SyncPoll(s) ==
    /\ syncing[s].pc = "device" /\ syncing[s].woken
    /\ \/ /\ Flushed(syncing[s].offset) \/ inner.terminate
          /\ syncing' = [syncing EXCEPT ![s].woken = FALSE,
               ![s].pc = IF Flushed(syncing[s].offset) THEN "synced" ELSE "error"]
          /\ sync_mutex' = "none"
          /\ task' = [task EXCEPT !.woken = @ \/ compact_fut.pc = "lock"]
          /\ UNCHANGED inner
       \/ /\ ~Flushed(syncing[s].offset) /\ ~inner.terminate
          /\ syncing' = [syncing EXCEPT ![s].woken = FALSE]
          /\ inner' = [inner EXCEPT !.sync_waker = s]
          /\ UNCHANGED <<sync_mutex, task>>
    /\ UNCHANGED <<written, partial, taken, event, flush_fut, compact_fut, writer, closer,
                   commits>>

-----------------------------------------------------------------------------
(* flush_task: one turn of the loop, in three parts. *)

\* With the lock on inner: start a flush, return, or start a compaction.
TakesBuffer == flush_fut = "none" /\ ~task.flush_error /\ written > taken
Compacts == /\ compact_fut.pc = "none" /\ ~inner.terminate /\ ~inner.disable_compactions
            /\ 2 * Usage > ReclaimSize

ReturnsAtOnce == inner.terminate

Returns == inner.terminate /\ ~TakesBuffer /\ flush_fut = "none" /\ compact_fut.pc = "none"

TaskLock ==
    /\ \/ task.pc = "lock"
       \/ task.pc = "idle" /\ task.woken
    /\ flush_fut' = IF TakesBuffer THEN "started" ELSE flush_fut
    /\ taken' = IF TakesBuffer THEN written ELSE taken
    /\ \/ /\ Returns
          /\ task' = [task EXCEPT !.pc = "finished", !.woken = FALSE]
          /\ UNCHANGED <<inner, compact_fut>>
       \/ /\ ~Returns
          /\ task' = [task EXCEPT !.pc = "flush", !.pending = TRUE,
                                  !.woken = IF task.pc = "idle" THEN FALSE ELSE @]
          /\ compact_fut' = IF Compacts THEN [compact_fut EXCEPT !.pc = "started"]
                            ELSE compact_fut
          /\ inner' = [inner EXCEPT !.flush_waker = TRUE,
                                    !.compaction_running = @ \/ Compacts]
    /\ UNCHANGED <<written, partial, event, sync_mutex, syncing, writer, closer, commits>>

\* The device is done with the write, and wakes the task.
WriteDone ==
    /\ flush_fut = "writing"
    /\ \/ flush_fut' = "written"
       \/ flush_fut' = "failed"
    /\ task' = [task EXCEPT !.woken = TRUE]
    /\ UNCHANGED <<written, partial, taken, inner, event, compact_fut, sync_mutex, syncing,
                   writer, closer, commits>>

\* The waker in sync_waker belongs to a caller of sync(), or to this task.
WakesNobody(s) == FALSE

WakesSync(s) == inner.sync_waker = s

\* The flush future is polled; the first time it gives the write to the device.
TaskFlush ==
    /\ task.pc = "flush"
    /\ \/ /\ flush_fut \in {"none", "started", "writing"}
          /\ flush_fut' = IF flush_fut = "none" THEN "none" ELSE "writing"
          /\ task' = [task EXCEPT !.pc = "compact"]
          /\ UNCHANGED <<inner, syncing>>
       \/ /\ flush_fut \in {"started", "written"}
          /\ flush_fut' = "none"
          /\ syncing' = [s \in Syncers |->
                           [syncing[s] EXCEPT !.woken = @ \/ WakesSync(s)]]
          /\ task' = [task EXCEPT !.pc = "compact", !.pending = FALSE,
                                  !.woken = @ \/ WakesSync("compaction")]
          /\ inner' = [inner EXCEPT !.flushed_offset = taken, !.sync_waker = "none"]
       \/ /\ flush_fut \in {"started", "failed"}
          /\ flush_fut' = "none"
          /\ task' = [task EXCEPT !.pc = "compact", !.pending = FALSE, !.flush_error = TRUE]
          /\ inner' = [inner EXCEPT !.terminate = TRUE]
          /\ UNCHANGED syncing
    /\ UNCHANGED <<written, partial, taken, event, compact_fut, sync_mutex, writer, closer,
                   commits>>

\* The end of a turn: another one, or the task waits to be woken.
EndOfTurn(t) == [t EXCEPT !.pc = IF t.pending THEN "idle" ELSE "lock"]

\* There is no compaction, or it waits for the device.
NoCompaction ==
    /\ task.pc = "compact" /\ compact_fut.pc \in {"none", "reading", "writing"}
    /\ task' = EndOfTurn(task)
    /\ UNCHANGED <<written, partial, taken, inner, event, flush_fut, compact_fut, sync_mutex,
                   syncing, writer, closer, commits>>

-----------------------------------------------------------------------------
(* compact(), as the task polls it. *)

\* ObjectManager::flush merges layers, which takes the device some time.
CompactReads ==
    /\ task.pc = "compact" /\ compact_fut.pc = "started"
    /\ compact_fut' = [compact_fut EXCEPT !.pc = "reading"]
    /\ task' = EndOfTurn(task)
    /\ UNCHANGED <<written, partial, taken, inner, event, flush_fut, sync_mutex, syncing, writer,
                   closer, commits>>

\* The device is done with a part of the compaction, and wakes the task.
CompactIoDone ==
    /\ \/ compact_fut.pc = "reading" /\ compact_fut' = [compact_fut EXCEPT !.pc = "objects"]
       \/ compact_fut.pc = "writing" /\ compact_fut' = [compact_fut EXCEPT !.pc = "written"]
       \/ compact_fut.pc = "writing" /\ compact_fut' = [compact_fut EXCEPT !.pc = "failed"]
    /\ task' = [task EXCEPT !.woken = TRUE]
    /\ UNCHANGED <<written, partial, taken, inner, event, flush_fut, sync_mutex, syncing, writer,
                   closer, commits>>

\* It commits transactions, or fails; the journal is needed from the last of
\* them on.
CompactObjects ==
    /\ task.pc = "compact" /\ compact_fut.pc \in {"started", "objects"}
    /\ \/ /\ WriteRecords
          /\ compact_fut' = [compact_fut EXCEPT !.pc = "lock", !.checkpoint = written']
          /\ task' = TaskWoken
          /\ inner' = [inner EXCEPT !.flush_waker = FALSE]
       \/ /\ compact_fut' = [compact_fut EXCEPT !.pc = "failed"]
          /\ UNCHANGED <<written, partial, task, inner>>
    /\ UNCHANGED <<taken, event, flush_fut, sync_mutex, syncing, writer, closer, commits>>

\* write_super_block: sync_mutex, pad_to_block.
CompactLock ==
    /\ task.pc = "compact" /\ compact_fut.pc = "lock"
    /\ \/ /\ sync_mutex = "none"
          /\ sync_mutex' = "compaction"
          /\ PadToBlock
          /\ compact_fut' = [compact_fut EXCEPT !.pc = "device", !.offset = written']
       \/ /\ sync_mutex # "none"
          /\ task' = EndOfTurn(task)
          /\ UNCHANGED <<written, partial, inner, compact_fut, sync_mutex>>
    /\ UNCHANGED <<taken, event, flush_fut, syncing, writer, closer, commits>>

\* flush_device, then sync_mutex is released and the super-block is written.
CompactDevice ==
    /\ task.pc = "compact" /\ compact_fut.pc = "device"
    /\ \/ /\ Flushed(compact_fut.offset)
          /\ sync_mutex' = "none"
          /\ compact_fut' = [compact_fut EXCEPT !.pc = "writing"]
          /\ task' = EndOfTurn(task)
          /\ UNCHANGED inner
       \/ /\ Flushed(compact_fut.offset)
          /\ sync_mutex' = "none"
          /\ compact_fut' = [compact_fut EXCEPT !.pc = "written"]
          /\ UNCHANGED <<inner, task>>
       \/ /\ Flushed(compact_fut.offset) \/ inner.terminate
          /\ sync_mutex' = "none"
          /\ compact_fut' = [compact_fut EXCEPT !.pc = "failed"]
          /\ UNCHANGED <<inner, task>>
       \/ /\ ~Flushed(compact_fut.offset) /\ ~inner.terminate
          /\ inner' = [inner EXCEPT !.sync_waker = "compaction"]
          /\ task' = EndOfTurn(task)
          /\ UNCHANGED <<compact_fut, sync_mutex>>
    /\ UNCHANGED <<written, partial, taken, event, flush_fut, syncing, writer, closer, commits>>

\* The compaction is over: reclaim_event is dropped, and all who wait look again.
KeepsEvent == event

StillWaiting == {}

CompactDone ==
    /\ task.pc = "compact" /\ compact_fut.pc \in {"written", "failed"}
    /\ inner' = [inner EXCEPT !.compaction_running = FALSE,
                              !.checkpoint = IF compact_fut.pc = "written"
                                             THEN compact_fut.checkpoint ELSE @,
                              !.terminate = @ \/ compact_fut.pc = "failed"]
    /\ event' = StillWaiting
    /\ compact_fut' = [compact_fut EXCEPT !.pc = "none"]
    /\ task' = [task EXCEPT !.pc = "lock", !.pending = FALSE]
    /\ UNCHANGED <<written, partial, taken, flush_fut, sync_mutex, syncing, writer, closer,
                   commits>>

-----------------------------------------------------------------------------
(* FxFilesystem::close *)

StopCompactions ==
    /\ \/ closer = "open"
       \/ closer = "stopping" /\ "closer" \notin event
    /\ inner' = [inner EXCEPT !.disable_compactions = TRUE]
    /\ \/ /\ inner.compaction_running
          /\ closer' = "stopping"
          /\ event' = event \cup {"closer"}
          /\ UNCHANGED syncing
       \/ /\ ~inner.compaction_running
          /\ closer' = "syncing"
          /\ syncing' = [syncing EXCEPT !["closer"].pc = "lock"]
          /\ UNCHANGED event
    /\ UNCHANGED <<written, partial, taken, task, flush_fut, compact_fut, sync_mutex, writer,
                   commits>>

Terminate ==
    /\ closer = "syncing" /\ syncing["closer"].pc \in {"synced", "error"}
    /\ closer' = "joining"
    /\ task' = TaskWoken
    /\ inner' = [inner EXCEPT !.terminate = TRUE, !.flush_waker = FALSE]
    /\ UNCHANGED <<written, partial, taken, event, flush_fut, compact_fut, sync_mutex, syncing,
                   writer, commits>>

Closed ==
    /\ closer = "joining" /\ task.pc \in {"none", "finished"}
    /\ closer' = "closed"
    /\ UNCHANGED <<written, partial, taken, inner, event, task, flush_fut, compact_fut,
                   sync_mutex, syncing, writer, commits>>

-----------------------------------------------------------------------------

TaskStep == TaskLock \/ TaskFlush \/ NoCompaction \/ CompactReads \/ CompactObjects
              \/ CompactLock \/ CompactDevice \/ CompactDone
DeviceStep == WriteDone \/ CompactIoDone

WriterStep(w) == CheckSpace(w) \/ Reclaimed(w)
SyncStep(s) == SyncLock(s) \/ SyncPoll(s)
CloseStep == (closer # "open" /\ StopCompactions) \/ Terminate \/ Closed

Next ==
    \/ \E w \in Writers : NewTransaction(w) \/ WriterStep(w) \/ CommitWrites(w)
                            \/ DropTransaction(w)
    \/ \E s \in Syncs : StartSync(s)
    \/ \E s \in Syncers : SyncStep(s)
    \/ TaskStep \/ DeviceStep
    \/ StopCompactions \/ Terminate \/ Closed

(***************************************************************************)
(* Tasks that can run do, and the device answers.  Nobody has to start a   *)
(* transaction, commit it, sync or close.                                  *)
(***************************************************************************)
Fairness ==
    /\ WF_vars(TaskStep) /\ WF_vars(WriteDone) /\ WF_vars(CompactIoDone)
    /\ WF_vars(CloseStep)
    /\ \A w \in Writers : WF_vars(WriterStep(w))
    /\ \A s \in Syncers : WF_vars(SyncStep(s))

Spec == Init /\ [][Next]_vars /\ Fairness

-----------------------------------------------------------------------------

\* A poll would take the compaction further.
CompactionReady ==
    \/ compact_fut.pc \in {"started", "objects", "written", "failed"}
    \/ compact_fut.pc = "lock" /\ sync_mutex = "none"
    \/ compact_fut.pc = "device" /\ (Flushed(compact_fut.offset) \/ inner.terminate)

(***************************************************************************)
(* The task never sleeps while there is something for it to do: a buffer to*)
(* write, a finished write, a compaction to start or to go on with, or a   *)
(* request to stop.  The wakers it leaves behind are taken by whoever makes*)
(* work for it, some of it while the task is in the middle of a turn.      *)
(***************************************************************************)
NoLostWakeup ==
    task.pc = "idle" /\ (TakesBuffer \/ Compacts \/ flush_fut \in {"written", "failed"}
                          \/ CompactionReady
                          \/ (inner.terminate /\ flush_fut = "none" /\ compact_fut.pc = "none"))
      => task.woken

(***************************************************************************)
(* close() closes the device when it has waited for the task: no write to  *)
(* it is under way then, no compaction is left in the middle, and if the   *)
(* sync was successful what was in the journal has been written.           *)
(***************************************************************************)
ClosedMeansFlushed ==
    closer = "closed" =>
      /\ flush_fut = "none" /\ compact_fut.pc = "none"
      /\ syncing["closer"].pc = "synced" => Flushed(syncing["closer"].offset)

(***************************************************************************)
(* A call of sync() returns, also when a compaction or close() competes for*)
(* the mutex and the waker or a compaction fails, unless writing the       *)
(* journal itself has failed.                                              *)
(***************************************************************************)
SyncReturns ==
    \A s \in Syncers : syncing[s].pc \in {"lock", "device"}
                          ~> (syncing[s].pc \in {"synced", "error"} \/ task.flush_error)

(***************************************************************************)
(* A transaction that waits for journal space gets it or an error, unless  *)
(* the filesystem is being closed or writing the journal has failed.       *)
(***************************************************************************)
SpaceIsReclaimed ==
    \A w \in Writers :
      writer[w] = "wait" ~> (writer[w] # "wait" \/ task.flush_error \/ closer # "open")

(***************************************************************************)
(* close() returns: it waits for a compaction, for the journal to be       *)
(* written and for the task to end, unless writing the journal has failed. *)
(***************************************************************************)
CloseReturns == closer # "open" ~> (closer = "closed" \/ task.flush_error)

(***************************************************************************)
(* "Poll::Ready(Err(FxfsError::JournalFlushError))": once the task has     *)
(* given up on the journal, whoever waits in flush_device is told.         *)
(***************************************************************************)
FailureIsReported ==
    \A s \in Syncers : syncing[s].pc = "device" ~> syncing[s].pc \in {"synced", "error"}
=============================================================================
