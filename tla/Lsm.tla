--------------------------------- MODULE Lsm --------------------------------
(***************************************************************************)
(* LsmTree of logregator-tsdb (lsm.rs, memtable.rs, label.rs, io.rs) with  *)
(* the consumer of its I/O events.                                         *)
(*                                                                         *)
(* The tree is owned by one thread: append_batch and drain_sst_queue take  *)
(* it mutably, so they never overlap.  They overlap with the consumer,     *)
(* which takes one event at a time from the channel.  The repository has   *)
(* it only as the loop of tests/integ.rs, which runs when all appends are  *)
(* done and ends with the first error; here it runs beside them and goes   *)
(* on.  An event whose handling fails is gone; a panic drops the receiver, *)
(* and every later send fails.                                             *)
(***************************************************************************)
EXTENDS SstTable, FiniteSets

CONSTANTS
  Payloads,       \* [raw, decodes, labels, len]: its length, what the label
                  \* codec makes of it, the length of what follows the labels
  Unnamable,      \* labels with an empty or a 255 byte long string
  Clock,          \* what SystemTime::now may give, in any order
  MemtableLimit,  \* limit of every memtable
  BlockLimits,    \* values of block_size_limit
  Faults,         \* subset of {"wal", "fsync", "sst", "manifest"}: I/O that may fail
  MaxSeq,         \* bound on the sequence numbers given out
  MaxCalls        \* bound on the calls of append_batch

ASSUME LsmAssumption ==
  /\ MaxSeq \in Nat /\ MaxCalls \in Nat
  /\ MemtableLimit \in Nat
  /\ Clock \subseteq Nat
  /\ \A p \in Payloads : p.len \in Nat
  /\ Faults \subseteq {"wal", "fsync", "sst", "manifest"}

VARIABLES
  block_size_limit,     \* of LsmConfig
  memtable,             \* the active memtable
  frozen_memtables,
  sst_handles,          \* sequence of [id, handle]
  stream_buffer,        \* stream updates not yet given to a flush
  labelmap_by_stream,   \* StreamRegistry; its other maps are derived from it
  counters,             \* next_memtable_id, next_stream_id, next_seq_num
  call,                 \* the append_batch or drain_sst_queue in progress
  io_rx,                \* events sent and not yet taken
  io,                   \* the consumer: "up" or "down"
  flush_results,        \* handles sent back and not yet drained
  wal, synced,          \* records in the WAL, and how many of them are synced
  manifest,             \* entries of the manifest
  history               \* what has happened, for the properties

vars == <<block_size_limit, memtable, frozen_memtables, sst_handles, stream_buffer,
          labelmap_by_stream, counters, call, io_rx, io, flush_results, wal, synced,
          manifest, history>>

-----------------------------------------------------------------------------
(* MemtableInner.  first_key and last_key are the keys of the first and of   *)
(* the last record appended, not the least and the greatest key.             *)
with_size_limit(id) ==
  [id |-> id, set |-> {}, size_bytes |-> 0, first_key |-> <<>>, last_key |-> <<>>]

Rejects(mt, r) == mt.size_bytes + size_of(r) > MemtableLimit /\ mt.size_bytes # 0

Inserted(mt, r) ==
  [mt EXCEPT !.set = @ \cup {r},
             !.size_bytes = @ + size_of(r),
             !.first_key = IF @ = <<>> THEN <<r.key>> ELSE @,
             !.last_key = <<r.key>>]

\* append: the memtable and AppendOutput, Full with the record it rejects.
append(mt, r) ==
  IF Rejects(mt, r) THEN [mt |-> mt, out |-> "Full", rejected |-> <<r>>]
  ELSE LET new == Inserted(mt, r)
       IN [mt |-> new, rejected |-> <<>>,
           out |-> IF new.size_bytes >= MemtableLimit THEN "Full" ELSE "Ok"]

InRange(k, lo, hi) == KeyLeq(lo, k) /\ KeyLeq(k, hi)

\* A BTreeSet in its order; no two records of the tree have the same key.
Sorted(records) ==
  CHOOSE s \in [1..Cardinality(records) -> records] :
    \A i, j \in DOMAIN s : i < j => KeyLess(s[i].key, s[j].key)

(* MemtableInner::range: BTreeSet::range panics if the start is after the    *)
(* end, unless the set is empty.                                             *)
RangePanics(mt, lo, hi) == mt.set # {} /\ KeyLess(hi, lo)
memtable_range(mt, lo, hi) == Sorted({r \in mt.set : InRange(r.key, lo, hi)})

-----------------------------------------------------------------------------
(* StreamRegistry and LabelMap.                                              *)
get_stream_id_by_labelmap(labels) ==
  {s \in DOMAIN labelmap_by_stream : labelmap_by_stream[s] = labels}

get_streams_by_kv(label) ==
  {s \in DOMAIN labelmap_by_stream : label \in labelmap_by_stream[s]}

(* label_intersection: labels no stream has are left out of it.              *)
label_intersection(labels) ==
  LET known == {l \in labels : get_streams_by_kv(l) # {}}
  IN {s \in DOMAIN labelmap_by_stream :
        known # {} /\ \A l \in known : s \in get_streams_by_kv(l)}

insert(stream, labels) ==
  labelmap_by_stream' = [s \in DOMAIN labelmap_by_stream \cup {stream} |->
                           IF s = stream THEN labels ELSE labelmap_by_stream[s]]

\* ManifestEntry::stream_update gives None for these labels.
stream_update_fails(labels) == labels \cap Unnamable # {}

StreamUpdate(stream, labels) == [entry |-> "StreamUpdate", stream |-> stream, labels |-> labels]
MemtableFlush(id) == [entry |-> "MemtableFlush", id |-> id]

-----------------------------------------------------------------------------
Idle == [pc |-> "idle"]
Draining == [pc |-> "drain"]

\* new, with an empty memtable, no tables and an empty registry.
Init ==
  /\ block_size_limit \in BlockLimits
  /\ memtable = with_size_limit(0)
  /\ frozen_memtables = <<>> /\ sst_handles = <<>> /\ stream_buffer = <<>>
  /\ labelmap_by_stream = <<>>
  /\ counters = [memtable_id |-> 1, stream_id |-> 0, seq_num |-> 0]
  /\ call = Idle
  /\ io_rx = <<>> /\ io = "up" /\ flush_results = <<>>
  /\ wal = <<>> /\ synced = 0 /\ manifest = <<>>
  /\ history = [calls |-> 0, placed |-> <<>>, batch |-> {}, acked |-> {}, failed |-> {},
                unlogged |-> {}, fsyncFailed |-> FALSE]

ioVars == <<io, flush_results, wal, synced, manifest>>
tables == <<block_size_limit, frozen_memtables, sst_handles>>

(* IoEvent, and io_tx.send while the receiver is there.                      *)
AppendWal(r) == [ev |-> "AppendWal", rec |-> r]
FsyncWal == [ev |-> "FsyncWal"]

\* Mutant of FlushMemtable: the stream updates are not handed to the flush.
FlushMemtableAlone(mt, entries) == [ev |-> "FlushMemtable", memtable |-> mt, entries |-> <<>>]

FlushMemtable(mt, entries) == [ev |-> "FlushMemtable", memtable |-> mt, entries |-> entries]

\* Mutant of send: a sync is left out while one is queued.
sendCoalesced(ev) ==
  io_rx' = IF ev = FsyncWal /\ ev \in Range(io_rx) THEN io_rx ELSE Append(io_rx, ev)

\* Mutant of send: a flush overtakes what is queued.
sendFlushFirst(ev) ==
  io_rx' = IF ev.ev = "FlushMemtable" THEN <<ev>> \o io_rx ELSE Append(io_rx, ev)

send(ev) == io_rx' = Append(io_rx, ev)

BeginBatch ==
  /\ call = Idle
  /\ history.calls < MaxCalls
  /\ call' = [pc |-> "append"]
  /\ history' = [history EXCEPT !.calls = @ + 1, !.batch = {}]
  /\ UNCHANGED <<tables, memtable, stream_buffer, labelmap_by_stream, counters, io_rx, ioVars>>

\* A payload of a length that is refused, or without a label map: an error.
RefusePayload(p) ==
  /\ call.pc = "append"
  /\ ~check_payload_size(p.raw) \/ ~p.decodes
  /\ call' = Idle
  /\ UNCHANGED <<tables, memtable, stream_buffer, labelmap_by_stream, counters, io_rx, ioVars,
                 history>>

Accepts(p) ==
  /\ call.pc = "append"
  /\ check_payload_size(p.raw) /\ p.decodes
  /\ counters.seq_num < MaxSeq

\* A new stream no manifest entry can name: the expect in append_batch.
StreamPanics(p) ==
  /\ Accepts(p)
  /\ get_stream_id_by_labelmap(p.labels) = {}
  /\ stream_update_fails(p.labels)
  /\ insert(counters.stream_id, p.labels)
  /\ counters' = [counters EXCEPT !.stream_id = @ + 1]
  /\ call' = [pc |-> "panicked"]
  /\ UNCHANGED <<tables, memtable, stream_buffer, io_rx, ioVars, history>>

\* The stream of the payload: known, or inserted and announced.
ResolveStream(p, stream) ==
  LET known == get_stream_id_by_labelmap(p.labels)
  IN \/ /\ stream \in known
        /\ counters' = [counters EXCEPT !.seq_num = @ + 1]
        /\ UNCHANGED <<labelmap_by_stream, stream_buffer>>
     \/ /\ known = {}
        /\ ~stream_update_fails(p.labels)
        /\ stream = counters.stream_id
        /\ counters' = [counters EXCEPT !.seq_num = @ + 1, !.stream_id = @ + 1]
        /\ insert(stream, p.labels)
        /\ stream_buffer' = Append(stream_buffer, StreamUpdate(stream, p.labels))

Place(r, mt) == [history EXCEPT !.placed = Append(@, [rec |-> r, mid |-> mt.id]),
                                !.batch = @ \cup {r}]

(* One payload, up to the append to the memtable.  source_id never decides   *)
(* between two keys, since sequence numbers differ.                          *)
AppendPayload(p, time) ==
  /\ Accepts(p)
  /\ \E stream \in DOMAIN labelmap_by_stream \cup {counters.stream_id} :
       /\ ResolveStream(p, stream)
       /\ LET r == [key |-> [stream_id |-> stream, timestamp |-> time,
                             sequence_num |-> counters.seq_num, source_id |-> 0],
                    len |-> p.len]
              done == append(memtable, r)
          IN IF io = "down"
             THEN /\ call' = Idle
                  /\ UNCHANGED <<memtable, io_rx, history>>
             ELSE /\ send(AppendWal(r))
                  /\ memtable' = done.mt
                  /\ call' = IF done.out = "Full"
                             THEN [pc |-> "flush", rejected |-> done.rejected] ELSE call
                  /\ history' = IF done.rejected = <<>> THEN Place(r, memtable) ELSE history
  /\ UNCHANGED <<tables, ioVars>>

(* issue_flush, and the append of a rejected record to the new memtable,     *)
(* which takes it whatever its size.                                         *)
IssueFlush ==
  /\ call.pc = "flush"
  /\ LET fresh == with_size_limit(counters.memtable_id)
         again == IF call.rejected = <<>> THEN fresh ELSE append(fresh, call.rejected[1]).mt
     IN /\ counters' = [counters EXCEPT !.memtable_id = @ + 1]
        /\ frozen_memtables' = Append(frozen_memtables, memtable)
        /\ stream_buffer' = <<>>
        /\ IF io = "down"
           THEN /\ memtable' = fresh
                /\ call' = Idle
                /\ UNCHANGED <<io_rx, history>>
           ELSE /\ send(FlushMemtable(memtable, stream_buffer))
                /\ memtable' = again
                /\ call' = [pc |-> "append"]
                /\ history' = IF call.rejected = <<>> THEN history
                              ELSE Place(call.rejected[1], fresh)
  /\ UNCHANGED <<block_size_limit, sst_handles, labelmap_by_stream, ioVars>>

\* The payloads are used up: FsyncWal, and Ok to the caller.
EndBatch ==
  /\ call.pc = "append"
  /\ call' = Idle
  /\ IF io = "down" THEN UNCHANGED <<io_rx, history>>
     ELSE /\ send(FsyncWal)
          /\ history' = [history EXCEPT !.acked = @ \cup history.batch]
  /\ UNCHANGED <<tables, memtable, stream_buffer, labelmap_by_stream, counters, ioVars>>

\* Mutant of drain_one: whatever memtable is at the front goes.
drain_oneAny(tree, sst) ==
  [frozen |-> IF tree.frozen # <<>> THEN Tail(tree.frozen) ELSE <<>>,
   ssts |-> Append(tree.ssts, sst)]

\* Mutant of drain_one: the memtable at the back goes.
drain_oneBack(tree, sst) ==
  [frozen |-> IF tree.frozen # <<>> /\ Head(tree.frozen).id = sst.id
              THEN Front(tree.frozen) ELSE tree.frozen,
   ssts |-> Append(tree.ssts, sst)]

(* The loop body of drain_sst_queue: every handle is kept; the memtable at   *)
(* the front goes if it is the one the handle was made from.                 *)
drain_one(tree, sst) ==
  [frozen |-> IF tree.frozen # <<>> /\ Head(tree.frozen).id = sst.id
              THEN Tail(tree.frozen) ELSE tree.frozen,
   ssts |-> Append(tree.ssts, sst)]

(* drain_sst_queue: try_iter takes handle after handle, those included that  *)
(* the consumer sends meanwhile, until it finds the queue empty.             *)
DrainSstQueue ==
  /\ call \in {Idle, Draining}
  /\ flush_results # <<>>
  /\ LET after == drain_one([frozen |-> frozen_memtables, ssts |-> sst_handles],
                            Head(flush_results))
     IN frozen_memtables' = after.frozen /\ sst_handles' = after.ssts
  /\ flush_results' = Tail(flush_results)
  /\ call' = Draining
  /\ UNCHANGED <<block_size_limit, memtable, stream_buffer, labelmap_by_stream, counters,
                 io_rx, io, wal, synced, manifest, history>>

EndDrain ==
  /\ call = Draining
  /\ flush_results = <<>>
  /\ call' = Idle
  /\ UNCHANGED <<tables, memtable, stream_buffer, labelmap_by_stream, counters, io_rx, ioVars,
                 history>>

-----------------------------------------------------------------------------
(* The consumer of the I/O events.                                           *)
treeVars == <<block_size_limit, memtable, frozen_memtables, sst_handles, stream_buffer,
              labelmap_by_stream, counters, call>>

TakeEvent(ev) ==
  /\ io = "up"
  /\ io_rx # <<>>
  /\ Head(io_rx).ev = ev
  /\ io_rx' = Tail(io_rx)
  /\ UNCHANGED treeVars

\* Wal::append: the codec refuses the record, or the write fails.
IoAppendWal ==
  /\ TakeEvent("AppendWal")
  /\ LET r == Head(io_rx).rec
     IN \/ /\ CanEncode(r)
           /\ wal' = Append(wal, r)
           /\ UNCHANGED history
        \/ /\ ~CanEncode(r) \/ "wal" \in Faults
           /\ history' = [history EXCEPT !.unlogged = @ \cup {r}]
           /\ UNCHANGED wal
  /\ UNCHANGED <<io, flush_results, synced, manifest>>

\* Wal::fsyncdata, whose flush ends in a todo!() ("wal").
IoFsyncWal ==
  /\ TakeEvent("FsyncWal")
  /\ \/ /\ IF "wal" \in Unfinished THEN io' = "down" /\ UNCHANGED synced
                                    ELSE synced' = Len(wal) /\ UNCHANGED io
        /\ UNCHANGED history
     \/ /\ "fsync" \in Faults
        /\ history' = [history EXCEPT !.fsyncFailed = TRUE]
        /\ UNCHANGED <<io, synced>>
  /\ UNCHANGED <<flush_results, wal, manifest>>

(* flush_memtable up to the finished file: "ok" and the handle, an error or  *)
(* a panic.  Only the records between first_key and last_key are written.    *)
finish(done) ==
  IF done.out = "ok" THEN [out |-> "ok", handle |-> finalize_file(done.w)] ELSE [out |-> done.out]

write_next(acc, r) == IF acc.out = "ok" THEN write(acc.w, r) ELSE acc

write_all(recs) ==
  LET acc[i \in 0..Len(recs)] ==
        IF i = 0 THEN [out |-> "ok", w |-> writer_new(block_size_limit)]
                 ELSE write_next(acc[i - 1], recs[i])
  IN acc[Len(recs)]

finish_writes(acc) == IF acc.out = "ok" THEN finish(finalize(acc.w)) ELSE [out |-> acc.out]

write_table(mt) ==
  IF RangePanics(mt, mt.first_key[1], mt.last_key[1]) THEN [out |-> "panic"]
  ELSE finish_writes(write_all(memtable_range(mt, mt.first_key[1], mt.last_key[1])))

\* An error of the flush, with the manifest entries written before it.
FlushFails(id, entries) ==
  /\ manifest' = manifest \o entries
  /\ history' = [history EXCEPT !.failed = @ \cup {id}]
  /\ UNCHANGED <<io, flush_results>>

IoFlushMemtable ==
  /\ TakeEvent("FlushMemtable")
  /\ \E mt \in {Head(io_rx).memtable} :
     \E table \in {write_table(mt)}, entries \in {<<MemtableFlush(mt.id)>> \o Head(io_rx).entries} :
        \/ /\ table.out = "ok"
           /\ manifest' = manifest \o entries
           /\ flush_results' = Append(flush_results, [id |-> mt.id, handle |-> table.handle])
           /\ UNCHANGED <<io, history>>
        \/ /\ table.out = "ok"
           /\ "manifest" \in Faults
           /\ \E n \in 0..(Len(entries) - 1) : FlushFails(mt.id, SubSeq(entries, 1, n))
        \/ /\ table.out \notin {"ok", "panic"} \/ "sst" \in Faults
           /\ FlushFails(mt.id, <<>>)
        \/ /\ table.out = "panic"
           /\ io' = "down"
           /\ UNCHANGED <<flush_results, manifest, history>>
  /\ UNCHANGED <<wal, synced>>

Next ==
  \/ BeginBatch
  \/ \E p \in Payloads : RefusePayload(p)
  \/ \E p \in Payloads : StreamPanics(p)
  \/ \E p \in Payloads, time \in Clock : AppendPayload(p, time)
  \/ IssueFlush
  \/ EndBatch
  \/ DrainSstQueue
  \/ EndDrain
  \/ IoAppendWal
  \/ IoFsyncWal
  \/ IoFlushMemtable

Spec == Init /\ [][Next]_vars
=============================================================================
