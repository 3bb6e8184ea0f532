------------------------------ MODULE Backend ------------------------------
(***************************************************************************)
(* The storage task of logregator-core: the event loop of Backend          *)
(* (storage/backend.rs) over the Engine it owns (storage/engine.rs,        *)
(* storage/memtable.rs), composed with the WAL and the IoWorker, and with  *)
(* crashes after which Engine::open rebuilds the state from disk.          *)
(*                                                                         *)
(* Every record has size one: a memtable's sz is its cardinality.          *)
(***************************************************************************)
EXTENDS IoWorker

CONSTANTS
  MemtableLimit,     \* memtable_limit
  CompactionFactor,  \* 8 in the code: SSTables over 8 memtables are compacted
  CompactionWidth,   \* (max_sstable_count / 2).max(2)
  BatchSizes,        \* numbers of records in a BatchInsert
  CrashKinds,        \* what may crash: "process", "power"
  MaxSeq,            \* bound: sequence numbers handed out
  MaxCrashes         \* bound: crashes

ASSUME BackendAssumption ==
  /\ MemtableLimit \in Nat
  /\ CompactionFactor \in Nat
  /\ CompactionWidth \in Nat \ {0, 1}
  /\ BatchSizes \subseteq Nat
  /\ CrashKinds \subseteq {"process", "power"}
  /\ MaxSeq \in Nat
  /\ MaxCrashes \in Nat

VARIABLES
  pc,               \* "select", "batch": draining cmd_buf, "flush": needs_flush
  needs_flush,      \* the local of the event loop
  outbox,           \* commands the loop is awaiting room for in io_cmd
  memtable,         \* Engine.memtable
  frozen,           \* Engine.frozen_memtables: SSTable id -> records
  sstable_map,      \* Engine.sstable_map: the ids of the live SSTables
  compacting,       \* Engine.compacting
  sst_counter,      \* Engine.sst_counter
  seq_counter,      \* Engine.seq_counter
  stale_wals,       \* Backend.stale_wals
  applied_flushes,  \* Backend.applied_flushes
  next_wal_to_del,  \* Backend.next_wal_to_del
  crashes,          \* history: crashes so far
  hardened          \* history: records that have been on stable storage

loopVars == <<pc, needs_flush, outbox>>
engineVars == <<memtable, frozen, sstable_map, compacting, sst_counter,
                seq_counter>>
history == <<crashes, hardened>>
cleanupVars == <<stale_wals, applied_flushes, next_wal_to_del>>
vars == <<walVars, ioVars, loopVars, engineVars, cleanupVars, history>>

-----------------------------------------------------------------------------
\* What Engine::range reads: memtable, frozen memtables and live SSTables.
Visible ==
  memtable \cup Content(frozen) \cup UNION {sstFile[i] : i \in sstable_map}

\* What would survive losing power now.
Durable == Recovered(synced, corrupt) \cup Content(sstFile)

\* total_sstable_size over the SSTables in ids.
TotalSize(ids) == Cardinality(UNION {{i} \X sstFile[i] : i \in ids})

\* get_oldest_metas: the n smallest ids that are not being compacted.
Oldest(ids, n) == {i \in ids : Cardinality({j \in ids : j < i}) < n}

\* MemTable::insert reports that the table is over its limit.
OverLimit(R) == Cardinality(R) > MemtableLimit

Init ==
  /\ WalInit
  /\ IoInit
  /\ pc = "select" /\ needs_flush = FALSE /\ outbox = <<>>
  /\ memtable = {}
  /\ frozen = [id \in {} |-> {}]
  /\ sstable_map = {}
  /\ compacting = {}
  /\ sst_counter = 1
  /\ seq_counter = 1
  /\ stale_wals = {}
  /\ applied_flushes = {}
  /\ next_wal_to_del = 1
  /\ crashes = 0
  /\ hardened = {}

-----------------------------------------------------------------------------
(* The loop handles a command: a batch begins or goes on.                    *)
InBatch ==
  /\ outbox = <<>>
  /\ pc \in {"select", "batch"}
  /\ pc' = "batch"
  /\ UNCHANGED outbox

(* handle_insert, insert_record.                                             *)
HandleInsert ==
  /\ InBatch
  /\ seq_counter <= MaxSeq
  /\ WriteRecords({seq_counter})
  /\ memtable' = memtable \cup {seq_counter}
  /\ seq_counter' = seq_counter + 1
  /\ needs_flush' = OverLimit(memtable')
  /\ UNCHANGED <<frozen, sstable_map, compacting, sst_counter>>
  /\ UNCHANGED <<ioVars, cleanupVars, history>>

(* write_one fails: the client gets the error, nothing else changes.         *)
HandleInsertFails ==
  /\ InBatch
  /\ seq_counter <= MaxSeq
  /\ WriteFails({seq_counter})
  /\ needs_flush' = FALSE
  /\ UNCHANGED <<ioVars, engineVars, cleanupVars, history>>

(* handle_batch_insert, batch_insert_records.                                *)
HandleBatchInsert(n) ==
  LET R == seq_counter .. (seq_counter + n - 1) IN
  /\ InBatch
  /\ seq_counter + n - 1 <= MaxSeq
  /\ WriteRecords(R)
  /\ memtable' = memtable \cup R
  /\ seq_counter' = seq_counter + n
  /\ needs_flush' = (n > 0 /\ OverLimit(memtable'))
  /\ UNCHANGED <<frozen, sstable_map, compacting, sst_counter>>
  /\ UNCHANGED <<ioVars, cleanupVars, history>>

(* A failed batch has used up its sequence numbers, and the records written  *)
(* before the failure stay in the WAL though no memtable holds them.         *)
HandleBatchInsertFails(n) ==
  /\ InBatch
  /\ seq_counter + n - 1 <= MaxSeq
  /\ WriteFails(seq_counter .. (seq_counter + n - 1))
  /\ seq_counter' = seq_counter + n
  /\ needs_flush' = FALSE
  /\ UNCHANGED <<memtable, frozen, sstable_map, compacting, sst_counter>>
  /\ UNCHANGED <<ioVars, cleanupVars, history>>

(* handle_range and the Metrics command read and leave everything alone.     *)
HandleQuery ==
  /\ InBatch
  /\ UNCHANGED needs_flush
  /\ UNCHANGED <<walVars, ioVars, engineVars, cleanupVars, history>>

(* The batch is drained: send_wal_sync_cmd, then a flush if one is due.      *)
EndBatch ==
  /\ outbox = <<>>
  /\ pc = "batch"
  /\ FlushBuffer
  /\ notified' = (notified \/ FsyncEveryBatch)
  /\ pc' = IF needs_flush THEN "flush" ELSE "select"
  /\ needs_flush' = FALSE
  /\ UNCHANGED outbox
  /\ UNCHANGED <<ioCmds, running, sending, ioResults, sstFile>>
  /\ UNCHANGED <<engineVars, cleanupVars, history>>

(* send_wal_sync_cmd returning early because the buffer cannot be flushed.   *)
EndBatchFails ==
  /\ outbox = <<>>
  /\ pc = "batch"
  /\ FlushFails
  /\ pc' = IF needs_flush THEN "flush" ELSE "select"
  /\ needs_flush' = FALSE
  /\ UNCHANGED outbox
  /\ UNCHANGED <<ioVars, engineVars, cleanupVars, history>>

-----------------------------------------------------------------------------
\* Mutant of PrepareFlush: the frozen memtable is not kept for queries.
PrepareFlushUnread ==
  /\ outbox = <<>>
  /\ pc = "flush"
  /\ pc' = "select"
  /\ memtable # {}
  /\ memtable' = {}
  /\ sst_counter' = sst_counter + 1
  /\ UNCHANGED <<frozen, needs_flush, sstable_map, compacting, seq_counter>>

\* Mutant of PrepareFlush: the id is not used up.
PrepareFlushSameId ==
  /\ outbox = <<>>
  /\ pc = "flush"
  /\ pc' = "select"
  /\ memtable # {}
  /\ memtable' = {}
  /\ frozen' = Put(frozen, sst_counter, memtable)
  /\ UNCHANGED <<sst_counter, needs_flush, sstable_map, compacting, seq_counter>>

(* prepare_flush: the memtable is frozen under a new SSTable id.             *)
PrepareFlush ==
  /\ outbox = <<>>
  /\ pc = "flush"
  /\ pc' = "select"
  /\ memtable # {}
  /\ memtable' = {}
  /\ frozen' = Put(frozen, sst_counter, memtable)
  /\ sst_counter' = sst_counter + 1
  /\ UNCHANGED <<needs_flush, sstable_map, compacting, seq_counter>>

(* send_flush_cmd.                                                           *)
SendFlushCmd ==
  /\ PrepareFlush
  /\ Rotate(sst_counter)
  /\ stale_wals' = stale_wals \cup {sst_counter}
  /\ outbox' = <<ResyncWal, FlushMemtable(sst_counter, memtable)>>
  /\ UNCHANGED <<ioVars, applied_flushes, next_wal_to_del, history>>

(* send_flush_cmd returning early because rotate_wal could not flush the     *)
(* buffer or could not rename the file.                                      *)
SendFlushCmdFails ==
  /\ PrepareFlush
  /\ FlushFails \/ ("rotate" \in Faults /\ FlushBuffer)
  /\ UNCHANGED outbox
  /\ UNCHANGED <<ioVars, cleanupVars, history>>

\* Mutant of SendIoCmd: the channel is unbounded.
SendIoCmdUnbounded ==
  /\ outbox # <<>>
  /\ ioCmds' = Append(ioCmds, Head(outbox))
  /\ outbox' = Tail(outbox)
  /\ UNCHANGED <<running, sending, ioResults, notified, sstFile>>
  /\ UNCHANGED <<pc, needs_flush>>
  /\ UNCHANGED <<walVars, engineVars, cleanupVars, history>>

(* io_cmd_sender.send(..).await completes.                                   *)
SendIoCmd ==
  /\ outbox # <<>>
  /\ Len(ioCmds) < ChannelCapacity
  /\ ioCmds' = Append(ioCmds, Head(outbox))
  /\ outbox' = Tail(outbox)
  /\ UNCHANGED <<running, sending, ioResults, notified, sstFile>>
  /\ UNCHANGED <<pc, needs_flush>>
  /\ UNCHANGED <<walVars, engineVars, cleanupVars, history>>

-----------------------------------------------------------------------------
\* Mutant of SendCompactionCmd: the tables are not marked as busy.
SendCompactionCmdUnmarked(live, busy) ==
  LET metas == Oldest(live \ busy, CompactionWidth)
      due   == /\ TotalSize(live) >= CompactionFactor * MemtableLimit
               /\ Cardinality(metas) >= 2
  IN
  /\ compacting' = busy
  /\ \/ /\ due
        /\ sst_counter' = sst_counter + 1
        /\ outbox' = <<CompactSSTables(sst_counter, metas)>>
     \/ ~due /\ UNCHANGED <<sst_counter, outbox>>

(* send_compaction_cmd, when the SSTables in live have outgrown the limit    *)
(* and at least two of them are not in busy, those already being compacted.  *)
SendCompactionCmd(live, busy) ==
  LET metas == Oldest(live \ busy, CompactionWidth)
      due   == /\ TotalSize(live) >= CompactionFactor * MemtableLimit
               /\ Cardinality(metas) >= 2
  IN
  \/ /\ due
     /\ compacting' = busy \cup metas
     /\ sst_counter' = sst_counter + 1
     /\ outbox' = <<CompactSSTables(sst_counter, metas)>>
  \/ /\ ~due
     /\ compacting' = busy
     /\ UNCHANGED <<sst_counter, outbox>>

\* The loop receives a result of the kind op from the IoWorker.
RecvResult(op) ==
  /\ outbox = <<>>
  /\ pc = "select"
  /\ ioResults # <<>> /\ Head(ioResults).op = op
  /\ ioResults' = Tail(ioResults)

\* Mutant of StopsAt: the WAL's own flush is not waited for.
StopsAtSuccessor(applied, n) ==
  /\ \A m \in next_wal_to_del .. (n - 1) : m + 1 \in applied
  /\ n + 1 \notin applied

(* Stale WALs are deleted up to the first id that, or whose successor, has   *)
(* not been flushed: n is where the while loop of apply_flush_result stops.  *)
StopsAt(applied, n) ==
  /\ \A m \in next_wal_to_del .. (n - 1) : m \in applied /\ m + 1 \in applied
  /\ ~(n \in applied /\ n + 1 \in applied)

(* apply_flush_result.                                                       *)
ApplyFlushResult ==
  /\ RecvResult("flush")
  /\ LET id      == Head(ioResults).id
         applied == applied_flushes \cup {id}
     IN
     /\ frozen' = Restrict(frozen, DOMAIN frozen \ {id})
     /\ applied_flushes' = applied
     /\ \E n \in next_wal_to_del .. (next_wal_to_del + sst_counter) :
          /\ StopsAt(applied, n)
          /\ next_wal_to_del' = n
          /\ stale_wals' = stale_wals \ (next_wal_to_del .. (n - 1))
          /\ RemoveFiles(stale_wals \cap (next_wal_to_del .. (n - 1)))
     /\ sstable_map' = sstable_map \cup {id}
     /\ SendCompactionCmd(sstable_map \cup {id}, compacting)
  /\ UNCHANGED <<ioCmds, running, sending, notified, sstFile>>
  /\ UNCHANGED <<pc, needs_flush, memtable, seq_counter, history>>

(* apply_compaction_result.                                                  *)
ApplyCompactionResult ==
  /\ RecvResult("compact")
  /\ LET id   == Head(ioResults).id
         gone == Head(ioResults).tables
         live == (sstable_map \ gone) \cup {id}
     IN
     /\ sstable_map' = live
     /\ \E removed \in MayRemove(gone) :
          sstFile' = Restrict(sstFile, DOMAIN sstFile \ removed)
     /\ SendCompactionCmd(live, compacting \ gone)
  /\ UNCHANGED <<ioCmds, running, sending, notified>>
  /\ UNCHANGED <<pc, needs_flush, memtable, frozen, seq_counter>>
  /\ UNCHANGED <<walVars, cleanupVars, history>>

-----------------------------------------------------------------------------
\* Mutant of Highest: the ids and numbers found on disk are not counted.
HighestForgotten(S) == 0

\* S is a set of naturals: its largest element, 0 if it has none.
Highest(S) == CHOOSE m \in S \cup {0} : \A x \in S : x <= m

(* A crash and Engine::open, Backend::new, RuntimeBuilder::spawn after it:   *)
(* what memory held is gone, the WAL files fill the memtable, the SSTable    *)
(* files the map, and run_engine_loop begins with a flush of the memtable.   *)
CrashRestart ==
  /\ crashes < MaxCrashes
  /\ crashes' = crashes + 1
  /\ \/ "process" \in CrashKinds /\ ProcessCrash
     \/ "power" \in CrashKinds /\ PowerLoss
  /\ ReopenActive
  /\ ioCmds' = <<>> /\ running' = {} /\ sending' = {} /\ ioResults' = <<>>
  /\ notified' = FALSE
  /\ sstFile' = sstFile
  /\ memtable' = Recovered(wal', corrupt')
  /\ frozen' = [id \in {} |-> {}]
  /\ sstable_map' = DOMAIN sstFile
  /\ compacting' = {}
  /\ sst_counter' = Highest(DOMAIN sstFile) + 1
  /\ seq_counter' = Highest(memtable' \cup Content(sstFile)) + 1
  /\ stale_wals' = {} /\ applied_flushes' = {} /\ next_wal_to_del' = 1
  /\ pc' = IF memtable' = {} THEN "select" ELSE "flush"
  /\ needs_flush' = FALSE
  /\ outbox' = <<>>
  /\ hardened' = hardened \cup Durable'

-----------------------------------------------------------------------------
(* The IoWorker's steps leave the Backend alone.                             *)
BackendWaits ==
  /\ UNCHANGED <<loopVars, engineVars, cleanupVars, crashes>>
  /\ hardened' = hardened \cup Durable'

Sync          == HandleSync /\ BackendWaits
Resync        == HandleResync /\ BackendWaits
ResyncFails   == HandleResyncFails /\ BackendWaits
Spawn         == HandleSpawn /\ BackendWaits
TaskWrites(t) == WriteSst(t) /\ BackendWaits
TaskFails(t)  == WriteSstFails(t) /\ BackendWaits
TaskSends(t)  == SendResult(t) /\ BackendWaits

Next ==
  \/ HandleInsert
  \/ HandleInsertFails
  \/ \E n \in BatchSizes : HandleBatchInsert(n)
  \/ \E n \in BatchSizes : HandleBatchInsertFails(n)
  \/ HandleQuery
  \/ EndBatch
  \/ EndBatchFails
  \/ SendFlushCmd
  \/ SendFlushCmdFails
  \/ SendIoCmd
  \/ ApplyFlushResult
  \/ ApplyCompactionResult
  \/ Sync
  \/ Resync
  \/ ResyncFails
  \/ Spawn
  \/ \E t \in running : TaskWrites(t)
  \/ \E t \in running : TaskFails(t)
  \/ \E t \in sending : TaskSends(t)
  \/ CrashRestart

Spec == Init /\ [][Next]_vars
=============================================================================
