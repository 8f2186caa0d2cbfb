------------------------- MODULE FxFlushTaskProofs -------------------------
(***************************************************************************)
(* The flush task of the fxfs journal never sleeps while there is work for *)
(* it, and close() never closes the device under it, for any number of     *)
(* writers and callers of sync(), any RECLAIM_SIZE and any number of       *)
(* commits.                                                                *)
(***************************************************************************)
EXTENDS FxFlushTask, TLAPS

InnerType ==
    [flushed_offset : Nat, flush_waker : BOOLEAN, sync_waker : Syncers \cup {"compaction", "none"},
     terminate : BOOLEAN, disable_compactions : BOOLEAN, compaction_running : BOOLEAN,
     checkpoint : Nat]
TaskType ==
    [pc : {"none", "idle", "lock", "flush", "compact", "finished"},
     woken : BOOLEAN, pending : BOOLEAN, flush_error : BOOLEAN]
CompactType ==
    [pc : {"none", "started", "reading", "objects", "lock", "device", "writing", "written",
           "failed"},
     offset : Nat, checkpoint : Nat]
SyncType ==
    [pc : {"idle", "lock", "device", "synced", "error"}, offset : Nat, woken : BOOLEAN]

Types ==
    /\ written \in Nat /\ taken \in Nat /\ partial \in BOOLEAN
    /\ inner \in InnerType
    /\ task \in TaskType
    /\ flush_fut \in {"none", "started", "writing", "written", "failed"}
    /\ compact_fut \in CompactType
    /\ syncing \in [Syncers -> SyncType]
    /\ closer \in {"open", "stopping", "syncing", "joining", "closed"}

\* The task has looked at inner in this turn, and nothing has happened since
\* that makes it look again before it sleeps.
Settled == task.pc \in {"flush", "compact", "idle"} /\ task.pending /\ ~task.woken

\* Whoever makes work for the task finds its waker.
Armed == task.pc \in {"flush", "compact", "idle"} /\ ~task.woken => inner.flush_waker

NothingToStart == Settled => ~TakesBuffer /\ ~Compacts

NothingToCollect ==
    task.pc \in {"compact", "idle"} /\ ~task.woken => flush_fut \notin {"written", "failed"}

NothingToStop ==
    Settled /\ flush_fut = "none" /\ compact_fut.pc = "none" => ~inner.terminate

NothingToContinue == task.pc = "idle" /\ ~task.woken => ~CompactionReady

AsleepIsPending == task.pc \in {"none", "idle"} => task.pending

GoneMeansDone ==
    task.pc \in {"none", "finished"} => flush_fut = "none" /\ compact_fut.pc = "none"

Offsets == inner.flushed_offset <= taken /\ taken <= written

SyncedIsFlushed == \A s \in Syncers : syncing[s].pc = "synced" => Flushed(syncing[s].offset)

ClosedMeansGone == closer = "closed" => task.pc \in {"none", "finished"}

IInv == /\ Types /\ Armed /\ NothingToStart /\ NothingToCollect /\ NothingToStop
        /\ NothingToContinue /\ AsleepIsPending /\ GoneMeansDone /\ Offsets /\ SyncedIsFlushed
        /\ ClosedMeansGone

-----------------------------------------------------------------------------
(* Waking the task, ending its turn and pad_to_block keep the types.        *)
LEMMA TaskWokenType == Types => TaskWoken \in TaskType
<1> SUFFICES ASSUME Types PROVE TaskWoken \in TaskType OBVIOUS
<1>1. (task.woken \/ inner.flush_waker) \in BOOLEAN OBVIOUS
<1>2. QED BY <1>1 DEF TaskWoken, Types, TaskType

LEMMA EndOfTurnType == Types => EndOfTurn(task) \in TaskType
  BY DEF EndOfTurn, Types, TaskType

LEMMA PadToBlockTypes ==
  Types /\ PadToBlock => /\ written' \in Nat /\ written' >= written /\ partial' \in BOOLEAN
                        /\ inner' \in InnerType /\ task' \in TaskType
<1> SUFFICES ASSUME Types, PadToBlock
             PROVE /\ written' \in Nat /\ written' >= written /\ partial' \in BOOLEAN
                   /\ inner' \in InnerType /\ task' \in TaskType
  OBVIOUS
<1>1. written' \in Nat /\ written' >= written BY DEF Types, PadToBlock
<1>5. partial' \in BOOLEAN BY DEF PadToBlock
<1>2. inner' \in InnerType BY DEF Types, PadToBlock, InnerType
<1>3. task' \in TaskType BY TaskWokenType DEF Types, PadToBlock
<1>4. QED BY <1>1, <1>2, <1>3, <1>5

(***************************************************************************)
(* Every step keeps the types.                                             *)
(***************************************************************************)
LEMMA TypesStep == Types /\ [Next]_vars => Types'
<1> SUFFICES ASSUME Types, [Next]_vars PROVE Types' OBVIOUS
<1> USE DEF Types, Syncers
<1>1. ASSUME NEW w \in Writers, NewTransaction(w) PROVE Types'
  BY <1>1 DEF NewTransaction
<1>2. ASSUME NEW w \in Writers, CheckSpace(w) PROVE Types'
  BY <1>2 DEF CheckSpace
<1>3. ASSUME NEW w \in Writers, Reclaimed(w) PROVE Types'
  BY <1>3 DEF Reclaimed
<1>4. ASSUME NEW w \in Writers, CommitWrites(w) PROVE Types'
  <2>1. written' \in Nat /\ partial' \in BOOLEAN BY <1>4 DEF CommitWrites, WriteRecords
  <2>2. inner' \in InnerType BY <1>4 DEF CommitWrites, InnerType
  <2>3. task' \in TaskType BY <1>4, TaskWokenType DEF CommitWrites, TaskType
  <2>4. QED BY <1>4, <2>1, <2>2, <2>3 DEF CommitWrites
<1>5. ASSUME NEW w \in Writers, DropTransaction(w) PROVE Types'
  BY <1>5 DEF DropTransaction
<1>6. ASSUME NEW s \in Syncs, StartSync(s) PROVE Types'
  BY <1>6 DEF StartSync, SyncType
<1>7. ASSUME NEW s \in Syncers, SyncLock(s) PROVE Types'
  <2>1. PadToBlock BY <1>7 DEF SyncLock
  <2>2. syncing' \in [Syncers -> SyncType]
    BY <1>7, <2>1, PadToBlockTypes DEF SyncLock, SyncType
  <2>3. QED BY <1>7, <2>1, <2>2, PadToBlockTypes DEF SyncLock
<1>8. ASSUME NEW s \in Syncers, SyncPoll(s) PROVE Types'
  <2>1. (task.woken \/ compact_fut.pc = "lock") \in BOOLEAN OBVIOUS
  <2>2. task' \in TaskType BY <1>8, <2>1 DEF SyncPoll, TaskType
  <2>3. inner' \in InnerType BY <1>8 DEF SyncPoll, InnerType
  <2>4. syncing' \in [Syncers -> SyncType]
    <3>1. syncing[s] \in SyncType OBVIOUS
    <3>2. PICK x \in {"synced", "error", syncing[s].pc} :
            syncing' = [syncing EXCEPT ![s].woken = FALSE, ![s].pc = x]
      BY <1>8 DEF SyncPoll, SyncType
    <3>3. x \in {"idle", "lock", "device", "synced", "error"} BY <3>1 DEF SyncType
    <3>4. ASSUME NEW r \in Syncers PROVE syncing'[r] \in SyncType
      BY <3>1, <3>2, <3>3 DEF SyncType
    <3>5. syncing' = [r \in Syncers |-> syncing'[r]] BY <3>2
    <3>6. QED BY <3>4, <3>5
  <2>5. QED BY <1>8, <2>2, <2>3, <2>4 DEF SyncPoll
<1>9. CASE TaskLock
  <2>1. (inner.compaction_running \/ Compacts) \in BOOLEAN OBVIOUS
  <2>2. inner' \in InnerType BY <1>9, <2>1 DEF TaskLock, InnerType
  <2>3. task' \in TaskType BY <1>9 DEF TaskLock, TaskType
  <2>4. compact_fut' \in CompactType BY <1>9 DEF TaskLock, CompactType
  <2>5. QED BY <1>9, <2>2, <2>3, <2>4 DEF TaskLock
<1>10. CASE TaskFlush
  <2>1. inner' \in InnerType BY <1>10 DEF TaskFlush, InnerType
  <2>2. (task.woken \/ WakesSync("compaction")) \in BOOLEAN OBVIOUS
  <2>3. task' \in TaskType BY <1>10, <2>2 DEF TaskFlush, TaskType
  <2>4. syncing' \in [Syncers -> SyncType]
    <3>1. ASSUME NEW s \in Syncers
          PROVE  [syncing[s] EXCEPT !.woken = @ \/ WakesSync(s)] \in SyncType
      <4>1. (syncing[s].woken \/ WakesSync(s)) \in BOOLEAN OBVIOUS
      <4>2. syncing[s] \in SyncType OBVIOUS
      <4>3. QED BY <4>1, <4>2 DEF SyncType
    <3>2. CASE UNCHANGED syncing
      BY <3>2
    <3>3. CASE syncing' = [s \in Syncers |-> [syncing[s] EXCEPT !.woken = @ \/ WakesSync(s)]]
      BY <3>1, <3>3
    <3>4. QED BY <1>10, <3>2, <3>3 DEF TaskFlush
  <2>5. QED BY <1>10, <2>1, <2>3, <2>4 DEF TaskFlush
<1>11. CASE NoCompaction
  BY <1>11, EndOfTurnType DEF NoCompaction
<1>12. CASE CompactObjects
  <2>1. written' \in Nat BY <1>12 DEF CompactObjects, WriteRecords
  <2>6. partial' \in BOOLEAN BY <1>12 DEF CompactObjects, WriteRecords
  <2>2. inner' \in InnerType BY <1>12 DEF CompactObjects, InnerType
  <2>3. task' \in TaskType BY <1>12, TaskWokenType DEF CompactObjects
  <2>4. compact_fut' \in CompactType BY <1>12, <2>1 DEF CompactObjects, CompactType
  <2>5. QED BY <1>12, <2>1, <2>2, <2>3, <2>4, <2>6 DEF CompactObjects
<1>13. CASE CompactLock
  <2>1. CASE PadToBlock
    <3>1. compact_fut' \in CompactType BY <1>13, <2>1, PadToBlockTypes DEF CompactLock, CompactType
    <3>2. QED BY <1>13, <2>1, <3>1, PadToBlockTypes DEF CompactLock
  <2>2. CASE ~PadToBlock
    BY <1>13, <2>2, EndOfTurnType DEF CompactLock
  <2>3. QED BY <2>1, <2>2
<1>14. CASE CompactDevice
  <2>1. inner' \in InnerType BY <1>14 DEF CompactDevice, InnerType
  <2>2. task' \in TaskType BY <1>14, EndOfTurnType DEF CompactDevice
  <2>3. compact_fut' \in CompactType BY <1>14 DEF CompactDevice, CompactType
  <2>4. QED BY <1>14, <2>1, <2>2, <2>3 DEF CompactDevice
<1>15. CASE CompactDone
  <2>1. (inner.terminate \/ compact_fut.pc = "failed") \in BOOLEAN OBVIOUS
  <2>2. inner' \in InnerType BY <1>15, <2>1 DEF CompactDone, InnerType, CompactType
  <2>3. QED BY <1>15, <2>2 DEF CompactDone, TaskType, CompactType
<1>16. CASE WriteDone
  BY <1>16 DEF WriteDone, TaskType
<1>17. CASE StopCompactions
  <2>1. inner' \in InnerType BY <1>17 DEF StopCompactions, InnerType
  <2>2. syncing' \in [Syncers -> SyncType] BY <1>17 DEF StopCompactions, SyncType
  <2>3. QED BY <1>17, <2>1, <2>2 DEF StopCompactions
<1>18. CASE Terminate
  <2>1. inner' \in InnerType BY <1>18 DEF Terminate, InnerType
  <2>2. QED BY <1>18, <2>1, TaskWokenType DEF Terminate
<1>19. CASE Closed
  BY <1>19 DEF Closed
<1>20. CASE UNCHANGED vars
  BY <1>20 DEF vars
<1>21. CASE CompactReads
  BY <1>21, EndOfTurnType DEF CompactReads, CompactType
<1>22. CASE CompactIoDone
  BY <1>22 DEF CompactIoDone, CompactType, TaskType
<1>23. QED
  BY <1>1, <1>2, <1>3, <1>4, <1>5, <1>6, <1>7, <1>8, <1>9, <1>10,
     <1>11, <1>12, <1>13, <1>14, <1>15, <1>16, <1>17, <1>18, <1>19, <1>20,
     <1>21, <1>22
  DEF Next, WriterStep, SyncStep, TaskStep, DeviceStep

(***************************************************************************)
(* What a poll of flush_device, and the three parts of a turn, do to the   *)
(* fields that the task's sleep depends on.                                *)
(***************************************************************************)
LEMMA SyncPollFrame ==
  ASSUME Types, NEW s \in Syncers, SyncPoll(s)
  PROVE  /\ task'.pc = task.pc /\ task'.pending = task.pending
         /\ task'.flush_error = task.flush_error /\ (task.woken => task'.woken)
         /\ inner'.flush_waker = inner.flush_waker /\ inner'.terminate = inner.terminate
         /\ inner'.disable_compactions = inner.disable_compactions
         /\ inner'.checkpoint = inner.checkpoint
<1> USE DEF Types, TaskType, InnerType
<1>1. CASE Flushed(syncing[s].offset) \/ inner.terminate
  <2>1. task' = [task EXCEPT !.woken = @ \/ compact_fut.pc = "lock"] /\ inner' = inner
    BY <1>1 DEF SyncPoll
  <2>2. QED BY <2>1
<1>2. CASE ~(Flushed(syncing[s].offset) \/ inner.terminate)
  <2>1. inner' = [inner EXCEPT !.sync_waker = s] /\ task' = task
    BY <1>2 DEF SyncPoll
  <2>2. QED BY <2>1
<1>3. QED BY <1>1, <1>2

LEMMA TaskLockFrame ==
  ASSUME Types, TaskLock
  PROVE  /\ task'.flush_error = task.flush_error
         /\ inner'.terminate = inner.terminate
         /\ inner'.disable_compactions = inner.disable_compactions
         /\ inner'.checkpoint = inner.checkpoint
         /\ inner'.flushed_offset = inner.flushed_offset
         /\ \/ Returns /\ task'.pc = "finished"
            \/ ~Returns /\ task'.pc = "flush" /\ task'.pending /\ inner'.flush_waker
<1> USE DEF Types, TaskType, InnerType
<1>1. CASE Returns
  <2>1. task' = [task EXCEPT !.pc = "finished", !.woken = FALSE] /\ inner' = inner
    BY <1>1 DEF TaskLock
  <2>2. QED BY <1>1, <2>1
<1>2. CASE ~Returns
  <2>1. /\ task' = [task EXCEPT !.pc = "flush", !.pending = TRUE,
                                !.woken = IF task.pc = "idle" THEN FALSE ELSE @]
        /\ inner' = [inner EXCEPT !.flush_waker = TRUE,
                                  !.compaction_running = @ \/ Compacts]
    BY <1>2 DEF TaskLock
  <2>2. QED BY <1>2, <2>1
<1>3. QED BY <1>1, <1>2

LEMMA TaskFlushFrame ==
  ASSUME Types, TaskFlush
  PROVE  /\ task'.pc = "compact" /\ (task.woken => task'.woken)
         /\ inner'.flush_waker = inner.flush_waker
         /\ inner'.flushed_offset \in {taken, inner.flushed_offset}
<1> USE DEF Types, TaskType, InnerType
<1>1. CASE /\ task' = [task EXCEPT !.pc = "compact", !.pending = FALSE,
                                   !.woken = @ \/ WakesSync("compaction")]
           /\ inner' = [inner EXCEPT !.flushed_offset = taken, !.sync_waker = "none"]
  BY <1>1
<1>2. CASE task' = [task EXCEPT !.pc = "compact"] /\ inner' = inner
  BY <1>2
<1>3. CASE /\ task' = [task EXCEPT !.pc = "compact", !.pending = FALSE, !.flush_error = TRUE]
           /\ inner' = [inner EXCEPT !.terminate = TRUE]
  BY <1>3
<1>4. QED BY <1>1, <1>2, <1>3 DEF TaskFlush

(***************************************************************************)
(* Every step keeps the waker in place.                                    *)
(***************************************************************************)
LEMMA WakerStep ==
  Types /\ Armed /\ AsleepIsPending /\ [Next]_vars
    => (Armed /\ AsleepIsPending)'
<1> SUFFICES ASSUME Types, Armed, AsleepIsPending,
                    [Next]_vars
             PROVE  (Armed /\ AsleepIsPending)'
  OBVIOUS
<1> USE DEF Types, TaskType, Armed, AsleepIsPending
<1>1. ASSUME NEW w \in Writers, NewTransaction(w) PROVE (Armed /\ AsleepIsPending)'
  BY <1>1 DEF NewTransaction
<1>2. ASSUME NEW w \in Writers, CheckSpace(w) PROVE (Armed /\ AsleepIsPending)'
  BY <1>2 DEF CheckSpace
<1>3. ASSUME NEW w \in Writers, Reclaimed(w) PROVE (Armed /\ AsleepIsPending)'
  BY <1>3 DEF Reclaimed
<1>4. ASSUME NEW w \in Writers, CommitWrites(w) PROVE (Armed /\ AsleepIsPending)'
  BY <1>4 DEF CommitWrites, WriteRecords, TaskWoken
<1>5. ASSUME NEW w \in Writers, DropTransaction(w) PROVE (Armed /\ AsleepIsPending)'
  BY <1>5 DEF DropTransaction
<1>6. ASSUME NEW s \in Syncs, StartSync(s) PROVE (Armed /\ AsleepIsPending)'
  BY <1>6 DEF StartSync
<1>7. ASSUME NEW s \in Syncers, SyncLock(s) PROVE (Armed /\ AsleepIsPending)'
  BY <1>7 DEF SyncLock, PadToBlock, TaskWoken
<1>8. ASSUME NEW s \in Syncers, SyncPoll(s) PROVE (Armed /\ AsleepIsPending)'
  BY <1>8, SyncPollFrame
<1>9. CASE TaskLock
  BY <1>9, TaskLockFrame
<1>10. CASE TaskFlush
  <2>1. task.pc = "flush" BY <1>10 DEF TaskFlush
  <2>2. QED BY <1>10, <2>1, TaskFlushFrame
<1>11. CASE NoCompaction
  BY <1>11 DEF NoCompaction, EndOfTurn
<1>12. CASE CompactObjects
  BY <1>12 DEF CompactObjects, WriteRecords, TaskWoken
<1>13. CASE CompactLock
  BY <1>13 DEF CompactLock, PadToBlock, TaskWoken, EndOfTurn
<1>14. CASE CompactDevice
  <2>1. inner'.flush_waker = inner.flush_waker BY <1>14 DEF CompactDevice, InnerType
  <2>2. task' \in {task, EndOfTurn(task)} /\ task.pc = "compact" BY <1>14 DEF CompactDevice
  <2>3. QED BY <2>1, <2>2 DEF EndOfTurn
<1>15. CASE CompactDone
  BY <1>15 DEF CompactDone, StillWaiting
<1>16. CASE WriteDone
  BY <1>16 DEF WriteDone
<1>17. CASE StopCompactions
  BY <1>17 DEF StopCompactions
<1>18. CASE Terminate
  BY <1>18 DEF Terminate, TaskWoken
<1>19. CASE Closed
  BY <1>19 DEF Closed
<1>20. CASE UNCHANGED vars
  BY <1>20 DEF vars
<1>21. CASE CompactReads
  BY <1>21 DEF CompactReads, EndOfTurn
<1>22. CASE CompactIoDone
  BY <1>22 DEF CompactIoDone
<1>23. QED
  BY <1>1, <1>2, <1>3, <1>4, <1>5, <1>6, <1>7, <1>8, <1>9, <1>10,
     <1>11, <1>12, <1>13, <1>14, <1>15, <1>16, <1>17, <1>18, <1>19, <1>20,
     <1>21, <1>22
  DEF Next, WriterStep, SyncStep, TaskStep, DeviceStep

(***************************************************************************)
(* No step gives a task that is about to sleep something to start.         *)
(***************************************************************************)
LEMMA StartStep ==
  Types /\ Armed /\ AsleepIsPending /\ NothingToStart /\ [Next]_vars
    => NothingToStart'
<1> SUFFICES ASSUME Types, Armed, AsleepIsPending, NothingToStart,
                    [Next]_vars
             PROVE  NothingToStart'
  OBVIOUS
<1> USE DEF Types, TaskType, CompactType, Armed, AsleepIsPending, NothingToStart, Settled,
            TakesBuffer, Compacts, Usage
<1>1. ASSUME NEW w \in Writers, NewTransaction(w) PROVE NothingToStart'
  BY <1>1 DEF NewTransaction
<1>2. ASSUME NEW w \in Writers, CheckSpace(w) PROVE NothingToStart'
  BY <1>2 DEF CheckSpace
<1>3. ASSUME NEW w \in Writers, Reclaimed(w) PROVE NothingToStart'
  BY <1>3 DEF Reclaimed
<1>4. ASSUME NEW w \in Writers, CommitWrites(w) PROVE NothingToStart'
  BY <1>4 DEF CommitWrites, WriteRecords, TaskWoken
<1>5. ASSUME NEW w \in Writers, DropTransaction(w) PROVE NothingToStart'
  BY <1>5 DEF DropTransaction
<1>6. ASSUME NEW s \in Syncs, StartSync(s) PROVE NothingToStart'
  BY <1>6 DEF StartSync
<1>7. ASSUME NEW s \in Syncers, SyncLock(s) PROVE NothingToStart'
  BY <1>7 DEF SyncLock, PadToBlock, TaskWoken
<1>8. ASSUME NEW s \in Syncers, SyncPoll(s) PROVE NothingToStart'
  BY <1>8, SyncPollFrame DEF SyncPoll
<1>9. CASE TaskLock
  BY <1>9, TaskLockFrame DEF TaskLock
<1>10. CASE TaskFlush
  BY <1>10 DEF TaskFlush, WakesSync
<1>11. CASE NoCompaction
  BY <1>11 DEF NoCompaction, EndOfTurn
<1>12. CASE CompactObjects
  BY <1>12 DEF CompactObjects, WriteRecords, TaskWoken
<1>13. CASE CompactLock
  BY <1>13 DEF CompactLock, PadToBlock, TaskWoken, EndOfTurn
<1>14. CASE CompactDevice
  BY <1>14 DEF CompactDevice, EndOfTurn
<1>15. CASE CompactDone
  BY <1>15 DEF CompactDone, StillWaiting
<1>16. CASE WriteDone
  BY <1>16 DEF WriteDone
<1>17. CASE StopCompactions
  BY <1>17 DEF StopCompactions
<1>18. CASE Terminate
  BY <1>18 DEF Terminate, TaskWoken
<1>19. CASE Closed
  BY <1>19 DEF Closed
<1>20. CASE UNCHANGED vars
  BY <1>20 DEF vars
<1>21. CASE CompactReads
  BY <1>21 DEF CompactReads, EndOfTurn
<1>22. CASE CompactIoDone
  BY <1>22 DEF CompactIoDone
<1>23. QED
  BY <1>1, <1>2, <1>3, <1>4, <1>5, <1>6, <1>7, <1>8, <1>9, <1>10,
     <1>11, <1>12, <1>13, <1>14, <1>15, <1>16, <1>17, <1>18, <1>19, <1>20,
     <1>21, <1>22
  DEF Next, WriterStep, SyncStep, TaskStep, DeviceStep

(***************************************************************************)
(* No step leaves it a finished write, or nothing to do but return.        *)
(***************************************************************************)
LEMMA StopStep ==
  Types /\ Armed /\ AsleepIsPending /\ NothingToCollect /\ NothingToStop /\ [Next]_vars
    => (NothingToCollect /\ NothingToStop)'
<1> SUFFICES ASSUME Types, Armed, AsleepIsPending, NothingToCollect, NothingToStop,
                    [Next]_vars
             PROVE  (NothingToCollect /\ NothingToStop)'
  OBVIOUS
<1> USE DEF Types, TaskType, CompactType, Armed, AsleepIsPending, NothingToCollect,
            NothingToStop, Settled
<1>1. ASSUME NEW w \in Writers, NewTransaction(w) PROVE (NothingToCollect /\ NothingToStop)'
  BY <1>1 DEF NewTransaction
<1>2. ASSUME NEW w \in Writers, CheckSpace(w) PROVE (NothingToCollect /\ NothingToStop)'
  BY <1>2 DEF CheckSpace
<1>3. ASSUME NEW w \in Writers, Reclaimed(w) PROVE (NothingToCollect /\ NothingToStop)'
  BY <1>3 DEF Reclaimed
<1>4. ASSUME NEW w \in Writers, CommitWrites(w) PROVE (NothingToCollect /\ NothingToStop)'
  BY <1>4 DEF CommitWrites, WriteRecords, TaskWoken
<1>5. ASSUME NEW w \in Writers, DropTransaction(w) PROVE (NothingToCollect /\ NothingToStop)'
  BY <1>5 DEF DropTransaction
<1>6. ASSUME NEW s \in Syncs, StartSync(s) PROVE (NothingToCollect /\ NothingToStop)'
  BY <1>6 DEF StartSync
<1>7. ASSUME NEW s \in Syncers, SyncLock(s) PROVE (NothingToCollect /\ NothingToStop)'
  BY <1>7 DEF SyncLock, PadToBlock, TaskWoken
<1>8. ASSUME NEW s \in Syncers, SyncPoll(s) PROVE (NothingToCollect /\ NothingToStop)'
  BY <1>8, SyncPollFrame DEF SyncPoll
<1>9. CASE TaskLock
  BY <1>9, TaskLockFrame DEF TaskLock, Returns, TakesBuffer
<1>10. CASE TaskFlush
  BY <1>10 DEF TaskFlush, WakesSync
<1>11. CASE NoCompaction
  BY <1>11 DEF NoCompaction, EndOfTurn
<1>12. CASE CompactObjects
  BY <1>12 DEF CompactObjects, WriteRecords, TaskWoken
<1>13. CASE CompactLock
  BY <1>13 DEF CompactLock, PadToBlock, TaskWoken, EndOfTurn
<1>14. CASE CompactDevice
  BY <1>14 DEF CompactDevice, EndOfTurn
<1>15. CASE CompactDone
  BY <1>15 DEF CompactDone, StillWaiting
<1>16. CASE WriteDone
  BY <1>16 DEF WriteDone
<1>17. CASE StopCompactions
  BY <1>17 DEF StopCompactions
<1>18. CASE Terminate
  BY <1>18 DEF Terminate, TaskWoken
<1>19. CASE Closed
  BY <1>19 DEF Closed
<1>20. CASE UNCHANGED vars
  BY <1>20 DEF vars
<1>21. CASE CompactReads
  BY <1>21 DEF CompactReads, EndOfTurn
<1>22. CASE CompactIoDone
  BY <1>22 DEF CompactIoDone
<1>23. QED
  BY <1>1, <1>2, <1>3, <1>4, <1>5, <1>6, <1>7, <1>8, <1>9, <1>10,
     <1>11, <1>12, <1>13, <1>14, <1>15, <1>16, <1>17, <1>18, <1>19, <1>20,
     <1>21, <1>22
  DEF Next, WriterStep, SyncStep, TaskStep, DeviceStep

(***************************************************************************)
(* No step leaves it asleep with a compaction to go on with.               *)
(***************************************************************************)
LEMMA ContinueStep ==
  Types /\ Armed /\ AsleepIsPending /\ NothingToContinue /\ [Next]_vars
    => NothingToContinue'
<1> SUFFICES ASSUME Types, Armed, AsleepIsPending, NothingToContinue,
                    [Next]_vars
             PROVE  NothingToContinue'
  OBVIOUS
<1> USE DEF Types, TaskType, CompactType, Armed, AsleepIsPending, NothingToContinue,
            CompactionReady, Flushed, InnerType
<1>1. ASSUME NEW w \in Writers, NewTransaction(w) PROVE NothingToContinue'
  BY <1>1 DEF NewTransaction
<1>2. ASSUME NEW w \in Writers, CheckSpace(w) PROVE NothingToContinue'
  BY <1>2 DEF CheckSpace
<1>3. ASSUME NEW w \in Writers, Reclaimed(w) PROVE NothingToContinue'
  BY <1>3 DEF Reclaimed
<1>4. ASSUME NEW w \in Writers, CommitWrites(w) PROVE NothingToContinue'
  BY <1>4 DEF CommitWrites, WriteRecords, TaskWoken
<1>5. ASSUME NEW w \in Writers, DropTransaction(w) PROVE NothingToContinue'
  BY <1>5 DEF DropTransaction
<1>6. ASSUME NEW s \in Syncs, StartSync(s) PROVE NothingToContinue'
  BY <1>6 DEF StartSync
<1>7. ASSUME NEW s \in Syncers, SyncLock(s) PROVE NothingToContinue'
  BY <1>7 DEF SyncLock, PadToBlock, TaskWoken
<1>8. ASSUME NEW s \in Syncers, SyncPoll(s) PROVE NothingToContinue'
  BY <1>8, SyncPollFrame DEF SyncPoll
<1>9. CASE TaskLock
  BY <1>9, TaskLockFrame DEF TaskLock, Returns, TakesBuffer
<1>10. CASE TaskFlush
  BY <1>10 DEF TaskFlush, WakesSync
<1>11. CASE NoCompaction
  BY <1>11 DEF NoCompaction, EndOfTurn
<1>12. CASE CompactObjects
  BY <1>12 DEF CompactObjects, WriteRecords, TaskWoken
<1>13. CASE CompactLock
  BY <1>13 DEF CompactLock, PadToBlock, TaskWoken, EndOfTurn
<1>14. CASE CompactDevice
  BY <1>14 DEF CompactDevice, EndOfTurn
<1>15. CASE CompactDone
  BY <1>15 DEF CompactDone, StillWaiting
<1>16. CASE WriteDone
  BY <1>16 DEF WriteDone
<1>17. CASE StopCompactions
  BY <1>17 DEF StopCompactions
<1>18. CASE Terminate
  BY <1>18 DEF Terminate, TaskWoken
<1>19. CASE Closed
  BY <1>19 DEF Closed
<1>20. CASE UNCHANGED vars
  BY <1>20 DEF vars
<1>21. CASE CompactReads
  BY <1>21 DEF CompactReads, EndOfTurn
<1>22. CASE CompactIoDone
  BY <1>22 DEF CompactIoDone
<1>23. QED
  BY <1>1, <1>2, <1>3, <1>4, <1>5, <1>6, <1>7, <1>8, <1>9, <1>10,
     <1>11, <1>12, <1>13, <1>14, <1>15, <1>16, <1>17, <1>18, <1>19, <1>20,
     <1>21, <1>22
  DEF Next, WriterStep, SyncStep, TaskStep, DeviceStep

(***************************************************************************)
(* A task that is gone has left nothing behind, and close() waits for that. *)
(***************************************************************************)
LEMMA GoneStep ==
  Types /\ GoneMeansDone /\ ClosedMeansGone /\ [Next]_vars
    => (GoneMeansDone /\ ClosedMeansGone)'
<1> SUFFICES ASSUME Types, GoneMeansDone, ClosedMeansGone,
                    [Next]_vars
             PROVE  (GoneMeansDone /\ ClosedMeansGone)'
  OBVIOUS
<1> USE DEF Types, TaskType, CompactType, GoneMeansDone, ClosedMeansGone
<1>1. ASSUME NEW w \in Writers, NewTransaction(w) PROVE (GoneMeansDone /\ ClosedMeansGone)'
  BY <1>1 DEF NewTransaction
<1>2. ASSUME NEW w \in Writers, CheckSpace(w) PROVE (GoneMeansDone /\ ClosedMeansGone)'
  BY <1>2 DEF CheckSpace
<1>3. ASSUME NEW w \in Writers, Reclaimed(w) PROVE (GoneMeansDone /\ ClosedMeansGone)'
  BY <1>3 DEF Reclaimed
<1>4. ASSUME NEW w \in Writers, CommitWrites(w) PROVE (GoneMeansDone /\ ClosedMeansGone)'
  BY <1>4 DEF CommitWrites, WriteRecords, TaskWoken
<1>5. ASSUME NEW w \in Writers, DropTransaction(w) PROVE (GoneMeansDone /\ ClosedMeansGone)'
  BY <1>5 DEF DropTransaction
<1>6. ASSUME NEW s \in Syncs, StartSync(s) PROVE (GoneMeansDone /\ ClosedMeansGone)'
  BY <1>6 DEF StartSync
<1>7. ASSUME NEW s \in Syncers, SyncLock(s) PROVE (GoneMeansDone /\ ClosedMeansGone)'
  BY <1>7 DEF SyncLock, PadToBlock, TaskWoken
<1>8. ASSUME NEW s \in Syncers, SyncPoll(s) PROVE (GoneMeansDone /\ ClosedMeansGone)'
  BY <1>8 DEF SyncPoll
<1>9. CASE TaskLock
  BY <1>9 DEF TaskLock, Returns, TakesBuffer
<1>10. CASE TaskFlush
  BY <1>10 DEF TaskFlush, WakesSync
<1>11. CASE NoCompaction
  BY <1>11 DEF NoCompaction, EndOfTurn
<1>12. CASE CompactObjects
  BY <1>12 DEF CompactObjects, WriteRecords, TaskWoken
<1>13. CASE CompactLock
  BY <1>13 DEF CompactLock, PadToBlock, TaskWoken, EndOfTurn
<1>14. CASE CompactDevice
  BY <1>14 DEF CompactDevice, EndOfTurn
<1>15. CASE CompactDone
  BY <1>15 DEF CompactDone, StillWaiting
<1>16. CASE WriteDone
  BY <1>16 DEF WriteDone
<1>17. CASE StopCompactions
  BY <1>17 DEF StopCompactions
<1>18. CASE Terminate
  BY <1>18 DEF Terminate, TaskWoken
<1>19. CASE Closed
  BY <1>19 DEF Closed
<1>20. CASE UNCHANGED vars
  BY <1>20 DEF vars
<1>21. CASE CompactReads
  BY <1>21 DEF CompactReads, EndOfTurn
<1>22. CASE CompactIoDone
  BY <1>22 DEF CompactIoDone
<1>23. QED
  BY <1>1, <1>2, <1>3, <1>4, <1>5, <1>6, <1>7, <1>8, <1>9, <1>10,
     <1>11, <1>12, <1>13, <1>14, <1>15, <1>16, <1>17, <1>18, <1>19, <1>20,
     <1>21, <1>22
  DEF Next, WriterStep, SyncStep, TaskStep, DeviceStep

(***************************************************************************)
(* flushed_offset never passes what was taken, nor taken what was written. *)
(***************************************************************************)
LEMMA OffsetStep == Types /\ Offsets /\ [Next]_vars => Offsets'
<1> SUFFICES ASSUME Types /\ Offsets, [Next]_vars PROVE Offsets' OBVIOUS
<1> USE DEF Types, InnerType, Offsets
<1>1. ASSUME NEW w \in Writers, NewTransaction(w) PROVE Offsets'
  BY <1>1 DEF NewTransaction
<1>2. ASSUME NEW w \in Writers, CheckSpace(w) PROVE Offsets'
  BY <1>2 DEF CheckSpace
<1>3. ASSUME NEW w \in Writers, Reclaimed(w) PROVE Offsets'
  BY <1>3 DEF Reclaimed
<1>4. ASSUME NEW w \in Writers, CommitWrites(w) PROVE Offsets'
  BY <1>4 DEF CommitWrites, WriteRecords, TaskWoken
<1>5. ASSUME NEW w \in Writers, DropTransaction(w) PROVE Offsets'
  BY <1>5 DEF DropTransaction
<1>6. ASSUME NEW s \in Syncs, StartSync(s) PROVE Offsets'
  BY <1>6 DEF StartSync
<1>7. ASSUME NEW s \in Syncers, SyncLock(s) PROVE Offsets'
  BY <1>7 DEF SyncLock, PadToBlock, TaskWoken
<1>8. ASSUME NEW s \in Syncers, SyncPoll(s) PROVE Offsets'
  BY <1>8 DEF SyncPoll
<1>9. CASE TaskLock
  BY <1>9, TaskLockFrame DEF TaskLock, TakesBuffer
<1>10. CASE TaskFlush
  BY <1>10, TaskFlushFrame DEF TaskFlush
<1>11. CASE NoCompaction
  BY <1>11 DEF NoCompaction, EndOfTurn
<1>12. CASE CompactObjects
  BY <1>12 DEF CompactObjects, WriteRecords, TaskWoken
<1>13. CASE CompactLock
  BY <1>13 DEF CompactLock, PadToBlock, TaskWoken, EndOfTurn
<1>14. CASE CompactDevice
  BY <1>14 DEF CompactDevice, EndOfTurn
<1>15. CASE CompactDone
  BY <1>15 DEF CompactDone, StillWaiting
<1>16. CASE WriteDone
  BY <1>16 DEF WriteDone
<1>17. CASE StopCompactions
  BY <1>17 DEF StopCompactions
<1>18. CASE Terminate
  BY <1>18 DEF Terminate, TaskWoken
<1>19. CASE Closed
  BY <1>19 DEF Closed
<1>20. CASE UNCHANGED vars
  BY <1>20 DEF vars
<1>21. CASE CompactReads
  BY <1>21 DEF CompactReads, EndOfTurn
<1>22. CASE CompactIoDone
  BY <1>22 DEF CompactIoDone
<1>23. QED
  BY <1>1, <1>2, <1>3, <1>4, <1>5, <1>6, <1>7, <1>8, <1>9, <1>10,
     <1>11, <1>12, <1>13, <1>14, <1>15, <1>16, <1>17, <1>18, <1>19, <1>20,
     <1>21, <1>22
  DEF Next, WriterStep, SyncStep, TaskStep, DeviceStep
(***************************************************************************)
(* flushed_offset never goes back, whatever the step.                      *)
(***************************************************************************)
LEMMA FlushedGrows ==
  Types /\ Offsets /\ [Next]_vars => inner'.flushed_offset >= inner.flushed_offset
<1> SUFFICES ASSUME Types, Offsets, [Next]_vars
             PROVE  inner'.flushed_offset >= inner.flushed_offset
  OBVIOUS
<1> USE DEF Types, InnerType, Offsets
<1>1. CASE TaskFlush
  BY <1>1, TaskFlushFrame
<1>2. CASE TaskLock
  BY <1>2, TaskLockFrame
<1>3. CASE CompactReads \/ CompactObjects \/ CompactLock \/ CompactDevice \/ CompactDone
  <2>6. CASE CompactReads BY <2>6 DEF CompactReads
  <2>1. CASE CompactObjects BY <2>1 DEF CompactObjects
  <2>2. CASE CompactLock BY <2>2 DEF CompactLock, PadToBlock
  <2>3. CASE CompactDevice BY <2>3 DEF CompactDevice
  <2>4. CASE CompactDone BY <2>4 DEF CompactDone
  <2>5. QED BY <1>3, <2>1, <2>2, <2>3, <2>4, <2>6
<1>4. CASE NoCompaction \/ DeviceStep \/ StopCompactions \/ Terminate \/ Closed
  <2>1. CASE NoCompaction \/ DeviceStep \/ Closed
    BY <2>1 DEF NoCompaction, DeviceStep, WriteDone, CompactIoDone, Closed
  <2>2. CASE StopCompactions BY <2>2 DEF StopCompactions
  <2>3. CASE Terminate BY <2>3 DEF Terminate
  <2>4. QED BY <1>4, <2>1, <2>2, <2>3
<1>5. CASE \E w \in Writers : NewTransaction(w) \/ WriterStep(w) \/ CommitWrites(w)
                                \/ DropTransaction(w)
  BY <1>5 DEF NewTransaction, WriterStep, CheckSpace, Reclaimed, CommitWrites, DropTransaction
<1>6. CASE \E s \in Syncs : StartSync(s)
  BY <1>6 DEF StartSync
<1>7. CASE \E s \in Syncers : SyncStep(s)
  BY <1>7 DEF SyncStep, SyncLock, SyncPoll, PadToBlock
<1>8. CASE UNCHANGED vars
  BY <1>8 DEF vars
<1>9. QED
  BY <1>1, <1>2, <1>3, <1>4, <1>5, <1>6, <1>7, <1>8 DEF Next, TaskStep

(***************************************************************************)
(* What a caller of sync() was told stays true: the offset it waited for   *)
(* stays the same, and flushed_offset does not go back.                    *)
(***************************************************************************)
LEMMA SyncedStep == Types /\ Offsets /\ SyncedIsFlushed /\ [Next]_vars => SyncedIsFlushed'
<1> SUFFICES ASSUME Types, Offsets, SyncedIsFlushed, [Next]_vars,
                    NEW r \in Syncers, syncing'[r].pc = "synced"
             PROVE  inner'.flushed_offset >= syncing'[r].offset
  BY DEF SyncedIsFlushed, Flushed
<1> USE DEF Types, InnerType
<1>1. inner'.flushed_offset >= inner.flushed_offset BY FlushedGrows
<1>2. Types' BY TypesStep
<1>3. syncing[r] \in SyncType /\ syncing'[r] \in SyncType BY <1>2
<1>4. ASSUME syncing'[r].pc = syncing[r].pc, syncing'[r].offset = syncing[r].offset
      PROVE  inner'.flushed_offset >= syncing'[r].offset
  <2>1. inner.flushed_offset >= syncing[r].offset BY <1>4 DEF SyncedIsFlushed, Flushed
  <2>2. QED BY <1>1, <1>2, <1>3, <1>4, <2>1 DEF SyncType
<1>5. ASSUME NEW s \in Syncers, SyncPoll(s)
      PROVE  inner'.flushed_offset >= syncing'[r].offset
  <2>1. CASE r = s /\ Flushed(syncing[s].offset)
    <3>1. syncing'[r].offset = syncing[r].offset BY <1>5, <2>1 DEF SyncPoll, SyncType
    <3>2. QED BY <1>1, <1>2, <1>3, <2>1, <3>1 DEF Flushed, SyncType
  <2>2. CASE ~(r = s /\ Flushed(syncing[s].offset))
    BY <1>4, <1>5, <2>2 DEF SyncPoll, SyncType
  <2>3. QED BY <2>1, <2>2
<1>6. ASSUME NEW s \in Syncers, SyncLock(s)
      PROVE  inner'.flushed_offset >= syncing'[r].offset
  BY <1>4, <1>6 DEF SyncLock, SyncType
<1>7. ASSUME NEW s \in Syncs, StartSync(s)
      PROVE  inner'.flushed_offset >= syncing'[r].offset
  BY <1>4, <1>7 DEF StartSync, SyncType, Syncers
<1>8. CASE StopCompactions
  BY <1>4, <1>8 DEF StopCompactions, SyncType, Syncers
<1>9. CASE TaskFlush
  <2>1. syncing'[r].pc = syncing[r].pc /\ syncing'[r].offset = syncing[r].offset
    BY <1>3, <1>9 DEF TaskFlush, SyncType
  <2>2. QED BY <1>4, <2>1
<1>10. CASE UNCHANGED syncing
  BY <1>4, <1>10
<1>11. QED
  <2>1. CASE \E w \in Writers : NewTransaction(w) \/ WriterStep(w) \/ CommitWrites(w)
                                  \/ DropTransaction(w)
    BY <2>1, <1>10
    DEF NewTransaction, WriterStep, CheckSpace, Reclaimed, CommitWrites, DropTransaction
  <2>2. CASE TaskLock \/ NoCompaction \/ DeviceStep \/ Terminate \/ Closed
    BY <2>2, <1>10
    DEF TaskLock, NoCompaction, DeviceStep, WriteDone, CompactIoDone, Terminate, Closed
  <2>3. CASE CompactReads \/ CompactObjects \/ CompactLock \/ CompactDevice \/ CompactDone
    BY <2>3, <1>10 DEF CompactReads, CompactObjects, CompactLock, CompactDevice, CompactDone
  <2>4. CASE UNCHANGED vars
    BY <2>4, <1>10 DEF vars
  <2>5. QED
    BY <1>5, <1>6, <1>7, <1>8, <1>9, <2>1, <2>2, <2>3, <2>4 DEF Next, SyncStep, TaskStep

-----------------------------------------------------------------------------
(***************************************************************************)
(* The invariant holds of the new filesystem, and every step keeps it.     *)
(***************************************************************************)
LEMMA InitInvariant == Init => IInv
<1> SUFFICES ASSUME Init PROVE IInv OBVIOUS
<1> USE DEF Init
<1>1. Types BY DEF Types, InnerType, TaskType, CompactType, SyncType
<1>2. Armed /\ NothingToStart /\ NothingToCollect /\ NothingToStop /\ NothingToContinue
      /\ AsleepIsPending
  BY DEF Armed, NothingToStart, NothingToCollect, NothingToStop, NothingToContinue,
         AsleepIsPending, Settled
<1>3. GoneMeansDone /\ Offsets /\ SyncedIsFlushed /\ ClosedMeansGone
  BY DEF GoneMeansDone, Offsets, SyncedIsFlushed, ClosedMeansGone
<1>4. QED BY <1>1, <1>2, <1>3 DEF IInv

LEMMA NextInvariant == IInv /\ [Next]_vars => IInv'
  BY TypesStep, WakerStep, StartStep, StopStep, ContinueStep, GoneStep, OffsetStep, SyncedStep DEF IInv

(***************************************************************************)
(* The invariant of the flush task: its waker is in inner whenever it is   *)
(* about to sleep unwoken, and then there is nothing for it to do.         *)
(***************************************************************************)
THEOREM Invariance == Spec => []IInv
<1>1. Init => IInv BY InitInvariant
<1>2. IInv /\ [Next]_vars => IInv' BY NextInvariant
<1>3. QED BY <1>1, <1>2, PTL DEF Spec

(***************************************************************************)
(* flush_task never sleeps unwoken while there is a buffer to write, a     *)
(* write to collect, a compaction to start or a request to stop.           *)
(***************************************************************************)
THEOREM NeverOversleeps == Spec => []NoLostWakeup
<1>1. IInv => NoLostWakeup
  BY DEF IInv, NothingToStart, NothingToCollect, NothingToStop, NothingToContinue,
         AsleepIsPending, Settled,
         NoLostWakeup
<1>2. QED BY <1>1, Invariance, PTL

(***************************************************************************)
(* When close() has joined the task and closes the device, no write or     *)
(* compaction is under way, and what its sync() waited for is written.     *)
(***************************************************************************)
THEOREM CloseIsClean == Spec => []ClosedMeansFlushed
<1>1. IInv => ClosedMeansFlushed
  BY DEF IInv, ClosedMeansGone, GoneMeansDone, SyncedIsFlushed, ClosedMeansFlushed, Syncers
<1>2. QED BY <1>1, Invariance, PTL

(***************************************************************************)
(* flushed_offset, which tells sync() what is on the device, never goes    *)
(* back: whoever has seen its offset flushed may rely on it.               *)
(***************************************************************************)
THEOREM FlushedOffsetGrows == Spec => [][inner'.flushed_offset >= inner.flushed_offset]_vars
<1>1. IInv /\ [Next]_vars => [inner'.flushed_offset >= inner.flushed_offset]_vars
  BY FlushedGrows DEF IInv
<1>2. QED BY <1>1, Invariance, PTL DEF Spec
=============================================================================
