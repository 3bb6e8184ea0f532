---------------------------- MODULE BackendProps ----------------------------
(***************************************************************************)
(* What the storage task of logregator-core has to guarantee.              *)
(***************************************************************************)
EXTENDS Backend

(* Types: every live SSTable has its file, every table being compacted is    *)
(* live, the channels stay within their capacity, and what is fsynced of a   *)
(* WAL file is part of it.                                                   *)
TypeOK ==
  /\ WalTypeOK
  /\ IoTypeOK
  /\ pc \in {"select", "batch", "flush"}
  /\ needs_flush \in BOOLEAN
  /\ outbox \in Seq(IoCommand)
  /\ memtable \subseteq Nat
  /\ DOMAIN frozen \subseteq Nat \ {0}
  /\ \A id \in DOMAIN frozen : frozen[id] \subseteq Nat
  /\ sstable_map \subseteq DOMAIN sstFile
  /\ compacting \subseteq sstable_map
  /\ sst_counter \in Nat \ {0}
  /\ seq_counter \in Nat \ {0}
  /\ stale_wals \subseteq Nat \ {0}
  /\ applied_flushes \subseteq Nat \ {0}
  /\ next_wal_to_del \in Nat \ {0}
  /\ crashes \in Nat
  /\ hardened \subseteq Nat

-----------------------------------------------------------------------------
(* Reads.  The storage implements a growing set of records: freezing,        *)
(* flushing, compacting and rotating are invisible to range queries, and a   *)
(* crash takes no record that was on stable storage.                         *)
Store == INSTANCE LogStore WITH
           Record <- 1 .. MaxSeq, records <- Visible, epoch <- crashes

ImplementsLogStore == Store!LogSpec

(* Write-ahead rule: a record that is not in an SSTable file, in the         *)
(* memtable or in a frozen one, is in the WAL: on file or in the buffer.     *)
UnflushedLogged ==
  memtable \cup Content(frozen) \subseteq
    Content(wal) \cup walBuf \cup Content(sstFile)

(* Log cleanup: when apply_flush_result deletes a stale WAL that recovery    *)
(* could read, every record of it that queries return is in a live SSTable:  *)
(* none is left in memory alone.                                             *)
DeletedWalIsFlushed ==
  [][\A n \in DOMAIN wal \ (corrupt \cup DOMAIN wal') :
       wal[n] \cap Visible \subseteq UNION {sstFile'[i] : i \in sstable_map'}]_vars

(* SSTable ids: no task ever writes over an existing SSTable file, neither   *)
(* another task's nor, after a restart, one of an earlier life.              *)
SstFilesImmutable ==
  [][\A i \in DOMAIN sstFile \cap DOMAIN sstFile' :
       sstFile'[i] = sstFile[i]]_vars

(* Sequence numbers: the next one is above every record a query can return,  *)
(* so two inserts never collapse into one record when MergeIter drops        *)
(* duplicates, across restarts too.                                          *)
SeqFresh == \A r \in Visible : r < seq_counter

\* Commands whose SSTable has not been written, and results not yet applied.
Unwritten == Range(outbox) \cup Range(ioCmds) \cup running
Written   == sending \cup Range(ioResults)

\* The compactions that have been ordered and not applied.
Compactions == {c \in Unwritten \cup Written : c.op = "compact"}

(* Compaction: tables on their way through the IoWorker stay live until the  *)
(* result is applied, and no table is in two compactions.                    *)
CompactionsDisjoint ==
  /\ \A c \in Compactions : c.tables \subseteq sstable_map
  /\ \A c, d \in Compactions : c # d => c.tables \cap d.tables = {}

(* Crashes: a record that was once on stable storage is never lost.          *)
HardenedSurvive == hardened \subseteq Visible

-----------------------------------------------------------------------------
\* The SSTable ids the commands in S write; a ResyncWal has id Active.
Ids(S) == {c.id : c \in S} \ {Active}

\* No two commands of the sequence or set write the same SSTable.
OncePerSeq(s) ==
  \A i, j \in DOMAIN s : s[i].id = s[j].id /\ s[i].id # Active => i = j
OncePerSet(S) == \A c, d \in S : c.id = d.id => c = d

(* Jobs: a command for an SSTable is in one place only on its way from the   *)
(* Backend through the IoWorker and back, under an id that no other job has. *)
JobsOnce ==
  /\ OncePerSeq(outbox) /\ OncePerSeq(ioCmds) /\ OncePerSeq(ioResults)
  /\ OncePerSet(running) /\ OncePerSet(sending)
  /\ Ids(Range(outbox)) \cap Ids(Range(ioCmds)) = {}
  /\ Ids(Range(outbox)) \cap Ids(running) = {}
  /\ Ids(Range(ioCmds)) \cap Ids(running) = {}
  /\ Ids(sending) \cap Ids(Range(ioResults)) = {}

(* Files: exactly the jobs past their write have a file, no job's SSTable is *)
(* live before its result is applied, and every id is below sst_counter.     *)
JobFiles ==
  /\ Ids(Unwritten) \cap DOMAIN sstFile = {}
  /\ Ids(Written) \subseteq DOMAIN sstFile \ sstable_map
  /\ \A i \in Ids(Unwritten) \cup DOMAIN sstFile : i < sst_counter

(* Shape: only a ResyncWal has no SSTable id, and it is never run as a task. *)
JobShape ==
  /\ \A c \in Unwritten \cup Written : c.op = "resync" <=> c.id = Active
  /\ \A c \in running \cup Written : c.op # "resync"

(* Compacting: the tables of an ordered compaction are live and marked.      *)
CompactionsMarked ==
  /\ \A c \in Compactions : c.tables \subseteq compacting
  /\ CompactionsDisjoint

\* Records in memory, in commands and in SSTable files; those in the log.
Stored == memtable \cup Content(frozen) \cup Content(sstFile)
            \cup UNION {c.recs : c \in Unwritten}
Logged == walBuf \cup Recovered(wal, corrupt)

(* Numbers: seq_counter is above every record in memory, in a command, in an *)
(* SSTable file and in a WAL file that recovery can read.                    *)
SeqBelow == \A r \in Stored \cup Logged : r < seq_counter

(* The inductive invariant: ids, places and files of the jobs on their way   *)
(* through the IoWorker agree with what the Backend has recorded of them.    *)
IInv ==
  /\ TypeOK
  /\ JobShape
  /\ JobsOnce
  /\ JobFiles
  /\ CompactionsMarked
  /\ SeqBelow

(* Cleanup: below next_wal_to_del every SSTable id is that of an applied     *)
(* flush, a frozen memtable's id is not, and no id is above sst_counter.     *)
CleanupIds ==
  /\ DOMAIN frozen \cup stale_wals \cup applied_flushes \subseteq 1 .. (sst_counter - 1)
  /\ applied_flushes \cap DOMAIN frozen = {}
  /\ 1 .. (next_wal_to_del - 1) \subseteq applied_flushes

(* A flush on its way carries its frozen memtable, and so does its file.     *)
FlushRecords ==
  /\ \A t \in Unwritten \cup Written :
       t.op = "flush" => t.id \in DOMAIN frozen /\ frozen[t.id] = t.recs
  /\ \A t \in Written : t.op = "flush" => sstFile[t.id] = t.recs

(* A rotated WAL holds no record that was inserted after the rotation.       *)
StaleRecords ==
  \A k \in (stale_wals \cap DOMAIN wal) \ corrupt :
    /\ wal[k] \cap memtable = {}
    /\ \A j \in DOMAIN frozen : j > k => wal[k] \cap frozen[j] = {}

(* What makes it safe for apply_flush_result to delete stale WALs up to the  *)
(* first gap: ids, flushes and rotated files agree.                          *)
CleanupInv == CleanupIds /\ FlushRecords /\ StaleRecords

(* Write-ahead, until the first crash: rotated files have ids below          *)
(* sst_counter, so none is renamed over; the memtable is in the active file  *)
(* or its buffer, and a frozen memtable there or in the file of its own or a *)
(* later rotation, because a rotation that fails leaves it to the next one.  *)
WriteAhead ==
  /\ \A n \in DOMAIN wal : n < sst_counter
  /\ \A r \in memtable : r \in wal[Active] \cup walBuf
  /\ \A j \in DOMAIN frozen : \A r \in frozen[j] :
       r \in walBuf \/ \E n \in DOMAIN wal : (n = Active \/ n >= j) /\ r \in wal[n]

\* A finished compaction holds what the tables it replaces hold.
CompactionRecords ==
  \A t \in Written : t.op = "compact" => \A i \in t.tables : sstFile[i] \subseteq sstFile[t.id]

(* What the refinement of LogStore needs: no file is broken, queries return  *)
(* all that is on disk, and, until the first crash, all that ever was on     *)
(* stable storage still is there.                                            *)
StoreInv ==
  /\ corrupt = {} /\ halfTail = FALSE
  /\ Visible \subseteq 1 .. MaxSeq
  /\ Content(wal) \cup walBuf \cup Content(sstFile) \subseteq Visible
  /\ CompactionRecords
  /\ hardened \subseteq Visible
  /\ crashes = 0 => hardened \subseteq Durable

\* The environments it holds in: records that fail, tear or cannot be read
\* again, or a second crash, do lose records.
OneCrash == MaxCrashes <= 1 /\ Faults \cap {"tear", "append", "open"} = {}

-----------------------------------------------------------------------------
(* Fairness: every task of the runtime is polled; select! picks a ready      *)
(* branch at random, so a result that is ready again and again is received.  *)
(* Clients need not send anything, and crashes need not happen.              *)
Fairness ==
  /\ WF_vars(EndBatch)
  /\ WF_vars(SendFlushCmd)
  /\ WF_vars(SendIoCmd)
  /\ SF_vars(ApplyFlushResult)
  /\ SF_vars(ApplyCompactionResult)
  /\ WF_vars(Sync)
  /\ WF_vars(Resync)
  /\ WF_vars(Spawn)
  /\ WF_vars(\E t \in running : TaskWrites(t))
  /\ WF_vars(\E t \in sending : TaskSends(t))

FairSpec == Spec /\ Fairness

(* Progress: a frozen memtable is flushed and let go, whatever the sizes of  *)
(* the channels between Backend and IoWorker.                                *)
FrozenReleased ==
  \A id \in 1 .. (2 * MaxSeq) : id \in DOMAIN frozen ~> id \notin DOMAIN frozen

(* Durability in the end: every record a client inserted reaches stable      *)
(* storage, by an fsync of its WAL or in an SSTable.                         *)
EventuallyHardened ==
  \A r \in 1 .. MaxSeq : r \in Visible ~> r \in hardened
=============================================================================
