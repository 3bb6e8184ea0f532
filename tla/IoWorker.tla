------------------------------ MODULE IoWorker ------------------------------
(***************************************************************************)
(* The IoWorker of logregator-core (storage/io_worker.rs): it takes        *)
(* commands from the Backend over a bounded channel, fsyncs the WAL on a   *)
(* notification or a timer, and runs flushes and compactions as blocking   *)
(* tasks that each write one SSTable file and send one result back over a  *)
(* second bounded channel.                                                 *)
(***************************************************************************)
EXTENDS Wal, Sequences

CONSTANTS
  ChannelCapacity,  \* RuntimeBuilder.channel_capacity
  FsyncEveryBatch   \* fsync_interval is zero: run_legacy, else run_timer

ASSUME IoAssumption ==
  /\ ChannelCapacity \in Nat \ {0}
  /\ FsyncEveryBatch \in BOOLEAN

VARIABLES
  ioCmds,     \* io_cmd channel: commands sent and not received
  running,    \* commands whose blocking task has not written its file
  sending,    \* results whose task waits for room in the result channel
  ioResults,  \* io_result channel
  notified,   \* wal_sync_notify holds a permit
  sstFile     \* sstFile[id]: records of the SSTable file id on disk

ioVars == <<ioCmds, running, sending, ioResults, notified, sstFile>>

(* IoCommand and IoResult.  recs is the frozen memtable of a flush, tables   *)
(* the SSTables a compaction merges.                                         *)
IoCommand == [op : {"resync", "flush", "compact"}, id : Nat,
              recs : SUBSET Nat, tables : SUBSET Nat]

ResyncWal == [op |-> "resync", id |-> Active, recs |-> {}, tables |-> {}]

FlushMemtable(id, R) == [op |-> "flush", id |-> id, recs |-> R, tables |-> {}]

CompactSSTables(id, ids) ==
  [op |-> "compact", id |-> id, recs |-> {}, tables |-> ids]

IoInit ==
  /\ ioCmds = <<>>
  /\ running = {}
  /\ sending = {}
  /\ ioResults = <<>>
  /\ notified = FALSE
  /\ sstFile = [id \in {} |-> {}]

-----------------------------------------------------------------------------
(* handle_sync, on a notification (run_legacy) or a tick (run_timer).        *)
HandleSync ==
  /\ FsyncEveryBatch => notified
  /\ notified' = FALSE
  /\ Fsync
  /\ UNCHANGED <<wal, walBuf, halfTail, corrupt, syncer>>
  /\ UNCHANGED <<ioCmds, running, sending, ioResults, sstFile>>

\* Mutant of HandleResync: the new handle is not stored.
HandleResyncKeepsHandle ==
  /\ ioCmds # <<>> /\ Head(ioCmds).op = "resync"
  /\ ioCmds' = Tail(ioCmds)
  /\ Fsync
  /\ UNCHANGED <<wal, walBuf, halfTail, corrupt, syncer>>
  /\ UNCHANGED <<running, sending, ioResults, notified, sstFile>>

(* handle_cmd, ResyncWal: open the active file, fsync the old handle, swap.  *)
HandleResync ==
  /\ ioCmds # <<>> /\ Head(ioCmds).op = "resync"
  /\ ioCmds' = Tail(ioCmds)
  /\ Fsync
  /\ syncer' = Active
  /\ UNCHANGED <<wal, walBuf, halfTail, corrupt>>
  /\ UNCHANGED <<running, sending, ioResults, notified, sstFile>>

(* handle_cmd, ResyncWal, when the active file cannot be opened: the handle  *)
(* stays where it is and is not fsynced.                                     *)
HandleResyncFails ==
  /\ "resync" \in Faults
  /\ ioCmds # <<>> /\ Head(ioCmds).op = "resync"
  /\ ioCmds' = Tail(ioCmds)
  /\ UNCHANGED walVars
  /\ UNCHANGED <<running, sending, ioResults, notified, sstFile>>

\* Mutant of HandleSpawn: a command is dropped while another task runs.
HandleSpawnOne ==
  /\ ioCmds # <<>> /\ Head(ioCmds).op # "resync"
  /\ ioCmds' = Tail(ioCmds)
  /\ running' = IF running = {} THEN {Head(ioCmds)} ELSE running
  /\ UNCHANGED <<sending, ioResults, notified, sstFile>>
  /\ UNCHANGED walVars

(* handle_cmd, FlushMemtable and CompactSSTables: spawn the blocking task.   *)
HandleSpawn ==
  /\ ioCmds # <<>> /\ Head(ioCmds).op # "resync"
  /\ ioCmds' = Tail(ioCmds)
  /\ running' = running \cup {Head(ioCmds)}
  /\ UNCHANGED <<sending, ioResults, notified, sstFile>>
  /\ UNCHANGED walVars

-----------------------------------------------------------------------------
(* The records a task writes: the frozen memtable, or the merge of the       *)
(* tables that could be opened; one that cannot is left out ("open").        *)
MayWrite(t) ==
  IF t.op = "flush"
    THEN {t.recs}
    ELSE {UNION {sstFile[i] : i \in opened} :
            opened \in (IF "open" \in Faults THEN SUBSET t.tables
                                             ELSE {t.tables})}

(* handle_flush, handle_compaction up to blocking_send: the file is written. *)
WriteSst(t) ==
  /\ t \in running
  /\ \E R \in MayWrite(t) : sstFile' = Put(sstFile, t.id, R)
  /\ running' = running \ {t}
  /\ sending' = sending \cup {t}
  /\ UNCHANGED <<ioCmds, ioResults, notified>>
  /\ UNCHANGED walVars

(* write_to_file fails: the task ends and sends no result.                   *)
WriteSstFails(t) ==
  /\ "sst" \in Faults
  /\ t \in running
  /\ running' = running \ {t}
  /\ UNCHANGED <<ioCmds, sending, ioResults, notified, sstFile>>
  /\ UNCHANGED walVars

(* blocking_send of the result, once the channel has room.                   *)
SendResult(t) ==
  /\ t \in sending
  /\ Len(ioResults) < ChannelCapacity
  /\ ioResults' = Append(ioResults, t)
  /\ sending' = sending \ {t}
  /\ UNCHANGED <<ioCmds, running, notified, sstFile>>
  /\ UNCHANGED walVars

IoTypeOK ==
  /\ ioCmds \in Seq(IoCommand)
  /\ Len(ioCmds) <= ChannelCapacity
  /\ running \subseteq IoCommand
  /\ sending \subseteq IoCommand
  /\ ioResults \in Seq(IoCommand)
  /\ Len(ioResults) <= ChannelCapacity
  /\ notified \in BOOLEAN
  /\ DOMAIN sstFile \subseteq Nat \ {0}
  /\ \A id \in DOMAIN sstFile : sstFile[id] \subseteq Nat
=============================================================================
