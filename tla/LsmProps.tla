------------------------------ MODULE LsmProps ------------------------------
(***************************************************************************)
(* What LsmTree promises its callers, and the instances TLC checks it on.  *)
(***************************************************************************)
EXTENDS LsmRange

CONSTANT Queries   \* [labels, from, to]

ASSUME QueryAssumption == \A q \in Queries : q.from \in Nat /\ q.to \in Nat

\* The records of the blocks of a table that can be read.
InTable(sst) ==
  UNION {Range(b[1].data) :
           b \in {read_block(sst.handle, i - 1) : i \in DOMAIN sst.handle.block_metadata} \ {<<>>}}

Tables == Range(sst_handles) \cup Range(flush_results)

Frozen == Range(frozen_memtables)
Pending == Range(io_rx)

\* Where in the order of the appends the records of memtable mid are.
PlacedIn(mid) == {i \in DOMAIN history.placed : history.placed[i].mid = mid}

\* Every record of the memtable lies between its first and its last key.
Straight(mid) ==
  \A i, first, last \in PlacedIn(mid) :
    (\A j \in PlacedIn(mid) : first <= j /\ j <= last) =>
      InRange(history.placed[i].rec.key, history.placed[first].rec.key, history.placed[last].rec.key)

(* Nothing vanishes: a record the tree has taken stays in the active         *)
(* memtable, a frozen one or a table, through failed flushes and drains in   *)
(* any order, as long as its memtable's first and last record appended are   *)
(* also those with the least and the greatest key.  (flush_memtable writes   *)
(* only the records between them, and drops the others with the memtable.)   *)
NothingVanishes ==
  \A i \in DOMAIN history.placed :
    LET p == history.placed[i]
    IN Straight(p.mid) =>
         \/ p.rec \in memtable.set
         \/ \E mt \in Frozen : p.rec \in mt.set
         \/ \E sst \in Tables : p.rec \in InTable(sst)

(* The log comes first: whatever the consumer has done, every record of a    *)
(* table has been through the WAL before, and is in it unless the WAL        *)
(* refused it.                                                               *)
LogFirst ==
  \A sst \in Tables : \A r \in InTable(sst) :
    r \in history.unlogged \cup Range(wal)

(* Streams are named: as long as no flush has failed, the manifest names the *)
(* labels of every stream a finished table has records of, whichever         *)
(* memtable was active when the stream was first seen.                       *)
StreamsNamed ==
  history.failed = {} =>
    \A sst \in Tables : \A r \in InTable(sst) :
      \E i \in DOMAIN manifest :
        manifest[i] = StreamUpdate(r.key.stream_id, labelmap_by_stream[r.key.stream_id])

(* An acknowledged record is synced, or will be: the WAL holds it below the  *)
(* synced mark, or a sync is queued behind it, or an I/O error got in the    *)
(* way.                                                                      *)
AckedSynced ==
  \A r \in history.acked :
    \/ \E i \in 1..synced : wal[i] = r
    \/ \E j \in DOMAIN io_rx :
         /\ io_rx[j] = FsyncWal
         /\ \A i \in DOMAIN io_rx : io_rx[i] = AppendWal(r) => i < j
    \/ r \in history.unlogged \/ history.fsyncFailed \/ io = "down"

(* Frozen memtables are accounted for: each still has its flush queued or    *)
(* its table waiting to be drained.  Otherwise the consumer died, or the     *)
(* flush of this or of an older memtable failed: drain_sst_queue looks at    *)
(* the front only, so a failed flush keeps all later memtables.              *)
FrozenAccounted ==
  io = "up" =>
    \A mt \in Frozen :
      \/ \E ev \in Pending : ev.ev = "FlushMemtable" /\ ev.memtable = mt
      \/ \E i \in DOMAIN flush_results : flush_results[i].id = mt.id
      \/ \E id \in history.failed : id <= mt.id

-----------------------------------------------------------------------------
(* The queries.  range borrows the tree, so no append_batch is in progress.  *)
(* It reads nothing the consumer writes: the states in which the consumer    *)
(* has caught up show every tree.                                            *)
Quiet == call = Idle /\ io_rx = <<>>

Ascending(recs, Before(_, _)) ==
  \A i \in 1..(Len(recs) - 1) : Before(recs[i].key, recs[i + 1].key)

(* A query gives its records in the order of their keys, and a record twice  *)
(* only if it is both in a memtable and in a table, which takes a flush that *)
(* failed: without one the memtable is popped as its table is added.         *)
RangeAscending ==
  Quiet =>
    \A q \in Queries : \A o \in lsm_range(q.labels, q.from, q.to) :
      /\ Ascending(o.recs, KeyLeq)
      /\ history.failed = {} => Ascending(o.recs, KeyLess)

Wanted(stream, q, records) ==
  {r \in records : r.key.stream_id = stream /\ q.from <= r.key.timestamp /\ r.key.timestamp <= q.to}

\* The records that append_batch has put into the tree.
AppendedRecords == {history.placed[i].rec : i \in DOMAIN history.placed}

(* A query is complete: once the consumer has caught up and its tables are   *)
(* drained, the records of the one stream that matches are all in the        *)
(* answer, as the test of tests/integ.rs has it.  MergeIter passes over the  *)
(* record that the cursor on a table begins at (fill_from_single).           *)
RangeComplete ==
  (Quiet /\ flush_results = <<>>) =>
    \A q \in Queries : \A s \in label_intersection(q.labels) :
      label_intersection(q.labels) = {s} =>
        \A o \in lsm_range(q.labels, q.from, q.to) :
          o.out = "ok" => Wanted(s, q, AppendedRecords) \subseteq Range(o.recs)

(* How much a query misses of that: its answer holds all records one         *)
(* matching stream has in the memtables in the queried time, and all but the *)
(* first such record of each table, wherever the records of a table share    *)
(* their blocks with others (where several blocks end in the stream the      *)
(* search may start in a later one).                                         *)
LossBounded ==
  (Quiet /\ sst_handles # <<>>) =>
    \A q \in Queries : \A o \in lsm_range(q.labels, q.from, q.to) :
      (o.out = "ok" /\ label_intersection(q.labels) # {}) =>
        \E s \in label_intersection(q.labels) :
          LET got == Range(o.recs)
          IN /\ \A mt \in Frozen \cup {memtable} : Wanted(s, q, mt.set) \subseteq got
             /\ \A i \in DOMAIN sst_handles :
                  Cardinality(block_idx_for_stream_id(sst_handles[i].handle, s)) = 1 =>
                    Cardinality(Wanted(s, q, InTable(sst_handles[i])) \ got) <= 1

(* Without tables a query is exact: the records of one matching stream in    *)
(* the queried time, each of them once, and no error.                        *)
RangeMemtables ==
  (Quiet /\ sst_handles = <<>>) =>
    \A q \in Queries : q.from <= q.to /\ label_intersection(q.labels) # {} =>
      \A o \in lsm_range(q.labels, q.from, q.to) :
        /\ o.out = "ok"
        /\ \E s \in label_intersection(q.labels) :
             o.recs = Sorted(Wanted(s, q, UNION {mt.set : mt \in Frozen \cup {memtable}}))

-----------------------------------------------------------------------------
(* The inductive invariants of the proofs.                                   *)
LogRecord == [key : Key, len : Nat]

Memtable ==
  [id : Nat, set : SUBSET LogRecord, size_bytes : Nat, first_key : Seq(Key), last_key : Seq(Key)]

History ==
  [calls : Nat, placed : Seq([rec : LogRecord, mid : Nat]), batch : SUBSET LogRecord,
   acked : SUBSET LogRecord, failed : SUBSET Nat, unlogged : SUBSET LogRecord,
   fsyncFailed : BOOLEAN]

IsFlush(ev) == ev.ev = "FlushMemtable"

EventOK(ev) ==
  \/ ev \in [ev : {"AppendWal"}, rec : LogRecord]
  \/ ev = FsyncWal
  \/ IsFlush(ev) /\ ev.memtable \in Memtable

(* Types: of the tree's state and the queues, not of what a flush makes of a *)
(* memtable.                                                                 *)
TreeTypeOK ==
  /\ memtable \in Memtable
  /\ frozen_memtables \in Seq(Memtable)
  /\ DOMAIN labelmap_by_stream \subseteq Nat
  /\ counters \in [memtable_id : Nat, stream_id : Nat, seq_num : Nat]
  /\ \/ call.pc \in {"idle", "append", "panicked", "drain"}
     \/ call.pc = "flush" /\ call.rejected \in Seq(LogRecord)
  /\ io_rx \in Seq(Pending) /\ \A i \in DOMAIN io_rx : EventOK(io_rx[i])
  /\ io \in {"up", "down"}
  /\ flush_results \in Seq(Range(flush_results))
  /\ \A i \in DOMAIN flush_results : flush_results[i].id \in Nat
  /\ wal \in Seq(LogRecord)
  /\ synced \in Nat /\ synced <= Len(wal)
  /\ history \in History

\* The records append_batch has sent to the WAL and a caller may come to rely on.
Held == history.acked \cup history.batch
          \cup (IF call.pc = "flush" THEN Range(call.rejected) ELSE {})

(* The log: a record is sent to the WAL once, under a number of its own, and *)
(* stays there until the WAL has it or refuses it.                           *)
LogOrder ==
  /\ \A r \in Held : r.key.sequence_num < counters.seq_num
  /\ io = "up" => \A r \in Held :
       r \in history.unlogged \cup Range(wal) \/ AppendWal(r) \in Pending
  /\ AckedSynced

(* The flushes: memtables are frozen, flushed and drained in the order of    *)
(* their ids.                                                                *)
FlushOrder ==
  /\ memtable.id < counters.memtable_id
  /\ \A i \in DOMAIN frozen_memtables : frozen_memtables[i].id < memtable.id
  /\ \A i, j \in DOMAIN frozen_memtables :
       i < j => frozen_memtables[i].id < frozen_memtables[j].id
  /\ \A i, j \in DOMAIN flush_results : i < j => flush_results[i].id < flush_results[j].id
  /\ \A j \in DOMAIN io_rx : IsFlush(io_rx[j]) =>
       /\ io_rx[j].memtable.id < memtable.id
       /\ \A i \in DOMAIN flush_results : flush_results[i].id < io_rx[j].memtable.id
       /\ \A i \in DOMAIN io_rx :
            i < j /\ IsFlush(io_rx[i]) => io_rx[i].memtable.id < io_rx[j].memtable.id
  /\ \A i \in DOMAIN flush_results : flush_results[i].id < memtable.id
  /\ FrozenAccounted

\* Some event before the j-th takes the record to the WAL, or has done so.
LoggedBy(r, j) ==
  \/ r \in history.unlogged \cup Range(wal)
  \/ \E i \in DOMAIN io_rx : i < j /\ io_rx[i] = AppendWal(r)

\* The records of the active memtable, and one that it has rejected.
Active == memtable.set \cup (IF call.pc = "flush" THEN Range(call.rejected) ELSE {})

Keyed(records) == IsFiniteSet(records) /\ \A a, b \in records : a.key = b.key => a = b

\* The records of the active memtable are on their way to the WAL, under
\* numbers given out.
ActiveLogged ==
  /\ Keyed(Active)
  /\ \A r \in Active : r.key.sequence_num < counters.seq_num /\ LoggedBy(r, Len(io_rx) + 1)

\* So are those of a memtable that waits for its flush, before the flush.
QueueLogged ==
  \A j \in DOMAIN io_rx : IsFlush(io_rx[j]) =>
    Keyed(io_rx[j].memtable.set) /\ \A r \in io_rx[j].memtable.set : LoggedBy(r, j)

(* What LogFirst needs to be inductive: the events of a memtable's records   *)
(* are before the one that flushes it.  Their keys differ, so that the table *)
(* written from it has no other records than the memtable.                   *)
LogBeforeFlush ==
  ActiveLogged /\ QueueLogged /\ sst_handles \in Seq(Range(sst_handles)) /\ LogFirst

\* The entries name the stream.
Names(entries, s) == StreamUpdate(s, labelmap_by_stream[s]) \in Range(entries)

\* The manifest names the stream, or will once the first j events are handled.
Named(s, j) ==
  \/ Names(manifest, s)
  \/ \E i \in DOMAIN io_rx : i <= j /\ IsFlush(io_rx[i]) /\ Names(io_rx[i].entries, s)

StreamOf(r) == r.key.stream_id

Registered(records) == \A r \in records : StreamOf(r) \in DOMAIN labelmap_by_stream

\* The streams of all records are in the registry, under numbers given out.
AllRegistered ==
  /\ \A s \in DOMAIN labelmap_by_stream : s < counters.stream_id
  /\ Registered(Active)
  /\ \A j \in DOMAIN io_rx : IsFlush(io_rx[j]) => Registered(io_rx[j].memtable.set)
  /\ \A sst \in Tables : Registered(InTable(sst))

EntriesOK ==
  /\ stream_buffer \in Seq(Range(stream_buffer)) /\ manifest \in Seq(Range(manifest))
  /\ \A j \in DOMAIN io_rx : IsFlush(io_rx[j]) =>
       io_rx[j].entries \in Seq(Range(io_rx[j].entries))

\* A stream of the registry is named, or waits in the buffer or in the channel.
Announced ==
  call.pc # "panicked" =>
    \A s \in DOMAIN labelmap_by_stream : Named(s, Len(io_rx)) \/ Names(stream_buffer, s)

\* The streams of a memtable are named with its flush, or before.
QueueNamed ==
  \A j \in DOMAIN io_rx : IsFlush(io_rx[j]) =>
    \A r \in io_rx[j].memtable.set : Named(StreamOf(r), j)

(* What StreamsNamed needs to be inductive: a stream is announced with the   *)
(* flush of the memtable that was active when it was first seen, or before.  *)
NamedBeforeFlush ==
  /\ EntriesOK /\ AllRegistered
  /\ history.failed = {} /\ io = "up" => Announced /\ QueueNamed
  /\ StreamsNamed

\* The memtable has the records placed in it, and the keys of the first and the
\* last of them.
Faithful(mt) ==
  \A i \in PlacedIn(mt.id) :
    /\ history.placed[i].rec \in mt.set
    /\ (\A j \in PlacedIn(mt.id) : i <= j) => mt.first_key = <<history.placed[i].rec.key>>
    /\ (\A j \in PlacedIn(mt.id) : j <= i) => mt.last_key = <<history.placed[i].rec.key>>

\* The table has the records of its memtable, if they lie between its keys.
Keeps(sst) ==
  Straight(sst.id) => \A i \in PlacedIn(sst.id) : history.placed[i].rec \in InTable(sst)

\* The memtable with this id is there, or its table.
Located(mid) ==
  mid = memtable.id \/ (\E mt \in Frozen : mt.id = mid) \/ \E sst \in Tables : sst.id = mid

(* What NothingVanishes needs to be inductive: memtables are what was placed *)
(* in them, wherever they are, and a memtable goes only when its table is    *)
(* there.                                                                    *)
NothingLost ==
  /\ Faithful(memtable) /\ (PlacedIn(memtable.id) = {} => memtable.first_key = <<>>)
  /\ \A mt \in Frozen : Faithful(mt)
  /\ \A j \in DOMAIN io_rx : IsFlush(io_rx[j]) => Faithful(io_rx[j].memtable)
  /\ \A sst \in Tables : sst.id \in 0 .. (memtable.id - 1) /\ Keeps(sst)
  /\ \A i \in DOMAIN history.placed : Located(history.placed[i].mid)

\* Every record placed has a number of its own, and so has one rejected.
Number(i) == history.placed[i].rec.key.sequence_num
Rejected == IF call.pc = "flush" THEN Range(call.rejected) ELSE {}

Numbers ==
  /\ counters.seq_num <= MaxSeq
  /\ \A i \in DOMAIN history.placed :
       Number(i) < counters.seq_num /\ history.placed[i].rec.key.source_id = 0
  /\ \A i, j \in DOMAIN history.placed : Number(i) = Number(j) => i = j
  /\ \A r \in Rejected :
       /\ r.key.sequence_num < counters.seq_num /\ r.key.source_id = 0
       /\ \A i \in DOMAIN history.placed : Number(i) # r.key.sequence_num

\* Memtables and tables have no other records than those placed in the memtable.
PlacedRecords(mid) == {history.placed[i].rec : i \in PlacedIn(mid)}

Housed ==
  /\ \A mt \in Frozen \cup {memtable} : mt.set \subseteq PlacedRecords(mt.id)
  /\ \A j \in DOMAIN io_rx : IsFlush(io_rx[j]) =>
       io_rx[j].memtable.set \subseteq PlacedRecords(io_rx[j].memtable.id)
  /\ \A sst \in Tables : InTable(sst) \subseteq PlacedRecords(sst.id)

(* Tables are drained in the order of their ids.  Without a failed flush no  *)
(* memtable stays behind whose table is drained: those with a table waiting  *)
(* are the oldest.                                                           *)
Drained ==
  /\ \A i, j \in DOMAIN sst_handles : i < j => sst_handles[i].id < sst_handles[j].id
  /\ \A i \in DOMAIN sst_handles :
       /\ \A j \in DOMAIN flush_results : sst_handles[i].id < flush_results[j].id
       /\ \A j \in DOMAIN io_rx : IsFlush(io_rx[j]) => sst_handles[i].id < io_rx[j].memtable.id
  /\ history.failed = {} =>
       \A mt \in Frozen :
         /\ \A i \in DOMAIN sst_handles : sst_handles[i].id < mt.id
         /\ \A i \in DOMAIN flush_results :
              mt.id <= flush_results[i].id => \E j \in DOMAIN flush_results : flush_results[j].id = mt.id

\* What the queries need to be right: records have one home, under one number.
OneHome == Numbers /\ Housed /\ Drained
=============================================================================
