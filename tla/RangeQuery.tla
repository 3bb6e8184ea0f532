----------------------------- MODULE RangeQuery -----------------------------
(***************************************************************************)
(* A range query of logregator-core, from Engine::range over the merge of  *)
(* memtables and SSTables (storage/iter.rs, storage/memtable.rs) in a      *)
(* blocking task to the connection handler and the client that collects    *)
(* the answer.                                                             *)
(*                                                                         *)
(* Log lists the records of the store in the order of Record::cmp; a       *)
(* record is its position in Log, 0 stands for none.                       *)
(***************************************************************************)
EXTENDS Integers, Sequences

CONSTANTS
  Log,             \* fields of the records: sid, ts, seq, key, val
  NumTables,       \* number of live SSTables
  Queries,         \* sid, key, start, end and matching, the values that
                   \* contain the query's filter
  IntBound,        \* 2^63: one above the largest i64
  RangeBatchSize,  \* BackendConfig.range_batch_size
  RecordChannel,   \* capacity of the record channel, 512 in the code
  ReadFaults       \* what may fail: "open", "read", "decode", "drop"

EmptyKey == 0      \* "", the smallest key

\* An i64 in big-endian bytes compares as an unsigned number.
Bytes(i) == IF i < 0 THEN i + 2 * IntBound ELSE i

\* Record::partial_cmp: source, timestamp, sequence number, key.
CmpLess(a, b) ==
  \/ Bytes(a.sid) < Bytes(b.sid)
  \/ /\ a.sid = b.sid
     /\ \/ Bytes(a.ts) < Bytes(b.ts)
        \/ /\ a.ts = b.ts
           /\ \/ a.seq < b.seq
              \/ a.seq = b.seq /\ a.key < b.key

ASSUME LogAssumption ==
  /\ Log \in Seq([sid : Int, ts : Int, seq : Nat \ {0}, key : Nat, val : STRING])
  /\ \A i, j \in DOMAIN Log : i < j => CmpLess(Log[i], Log[j])
  /\ \A i \in DOMAIN Log : /\ Log[i].sid \in -IntBound .. (IntBound - 1)
                           /\ Log[i].ts \in -IntBound .. (IntBound - 1)

ASSUME QueryAssumption ==
  /\ IntBound \in Nat \ {0}
  /\ \A q \in Queries : /\ q.sid \in -IntBound .. (IntBound - 1)
                        /\ q.start \in -IntBound .. (IntBound - 1)
                        /\ q.end \in -IntBound .. (IntBound - 1)
                        /\ q.key \in Nat
  /\ NumTables \in Nat
  /\ RangeBatchSize \in Nat
  /\ RecordChannel \in Nat \ {0}
  /\ ReadFaults \subseteq {"open", "read", "decode", "drop"}

Memory  == 0                \* source_idx of the memtables
Sources == 0 .. NumTables   \* source_idx of every iterator
NoRecord == 0

VARIABLES
  query,     \* the arguments of the Range command
  source,    \* source[s]: records of the memtables or of SSTable s
  task,      \* where the query stands in handle_range
  rest,      \* rest[s]: records the iterator of s has not returned
  heap,      \* MergeIter.heap: pairs of a record and its source
  last,      \* MergeIter.last_item_idx
  batch,     \* the local of handle_range's task
  loop_err,  \* likewise
  chan,      \* the record channel to the connection handler
  end,       \* what end_sender sent: "none", "ok", "error"
  client,    \* what Client::range returned: "waiting", "ok", "error", "gone"
  got,       \* the records Client::range has collected
  out,       \* history: the records MergeIter::next has returned
  lost       \* history: an SSTable was skipped or not read to its end

iterVars == <<rest, heap, last, out, lost>>
clientVars == <<chan, client, got>>
rangeVars == <<query, source, task, iterVars, batch, loop_err, end, clientVars>>

-----------------------------------------------------------------------------
\* The bound records that clone_range and SSTableIterFiltered compare with.
Bound(sid, ts, key) == [sid |-> sid, ts |-> ts, seq |-> 0, key |-> key]

\* The records of R between two bounds, the first included.
Between(R, lo, hi) == {r \in R : ~CmpLess(Log[r], lo) /\ CmpLess(Log[r], hi)}

(* clone_range of the memtables, then IntoIterFiltered.                      *)
MemSelect(R, q) ==
  {r \in Between(R, Bound(q.sid, q.start, EmptyKey), Bound(q.sid, q.end, EmptyKey)) :
     /\ Log[r].sid = q.sid
     /\ Log[r].ts >= q.start
     /\ Log[r].ts < q.end
     /\ Log[r].key = q.key
     /\ Log[r].val \in q.matching}

\* Mutant of SstSelect: the end of the range is included.
SstSelectInclusive(R, q) ==
  {r \in Between(R, Bound(q.sid, q.start, q.key), Bound(q.sid, q.end + 1, q.key)) :
     Log[r].key = q.key /\ Log[r].val \in q.matching}

(* SSTableIterFiltered: it relies on the order alone for source and time.    *)
SstSelect(R, q) ==
  {r \in Between(R, Bound(q.sid, q.start, q.key), Bound(q.sid, q.end, q.key)) :
     Log[r].key = q.key /\ Log[r].val \in q.matching}

\* The records the iterator of source s returns, if it can read them.
Selected(s) ==
  IF s = Memory THEN MemSelect(source[s], query) ELSE SstSelect(source[s], query)

\* The first record of a sorted iterator over R; no element when R is empty.
First(R) == {r \in R : \A x \in R : r <= x}

RangeInit ==
  /\ query \in Queries
  /\ source \in [Sources -> SUBSET (DOMAIN Log)]
  /\ task = "idle"
  /\ rest = [s \in Sources |-> {}]
  /\ heap = {}
  /\ last = NoRecord
  /\ batch = <<>>
  /\ loop_err = FALSE
  /\ chan = <<>>
  /\ end = "none"
  /\ client = "waiting"
  /\ got = <<>>
  /\ out = <<>>
  /\ lost = FALSE

-----------------------------------------------------------------------------
Rejected == query.start > query.end \/ query.start < 0

(* handle_range, when Engine::range refuses the bounds.                      *)
RejectRange ==
  /\ task = "idle"
  /\ Rejected
  /\ task' = "done"
  /\ end' = "error"
  /\ UNCHANGED <<query, source, iterVars, batch, loop_err, clientVars>>

(* handle_range, Engine::range and MergeIter::new: every iterator that can   *)
(* be opened and read gives its first record to the heap.                    *)
StartRange ==
  /\ task = "idle"
  /\ ~Rejected
  /\ task' = "merging"
  /\ \E opened \in SUBSET Sources :
       /\ Memory \in opened
       /\ {"open", "read"} \cap ReadFaults = {} => opened = Sources
       /\ rest' = [s \in Sources |->
                     IF s \in opened THEN Selected(s) \ First(Selected(s)) ELSE {}]
       /\ heap' = UNION {First(Selected(s)) \X {s} : s \in opened}
       /\ lost' = (opened # Sources)
  /\ UNCHANGED <<query, source, last, out, batch, loop_err, end, clientVars>>

\* Mutant of Refil: the record read is not pushed onto the heap.
RefilWithoutPush(s, others) ==
  /\ heap' = others
  /\ rest' = [rest EXCEPT ![s] = @ \ First(@)]
  /\ UNCHANGED lost

(* refil: the next record of source s joins what is left of the heap.        *)
Refil(s, others) ==
  /\ heap' = others \cup (First(rest[s]) \X {s})
  /\ rest' = [rest EXCEPT ![s] = @ \ First(@)]
  /\ UNCHANGED lost

(* An SSTable iterator that fails to read ends.                              *)
RefilFails(s, others) ==
  /\ "read" \in ReadFaults
  /\ s # Memory
  /\ rest[s] # {}
  /\ heap' = others
  /\ rest' = [rest EXCEPT ![s] = {}]
  /\ lost' = TRUE

\* heap.pop: item is a smallest element of the heap.
Pop(item) ==
  /\ task = "merging"
  /\ \A other \in heap : item[1] <= other[1]
  /\ \/ Refil(item[2], heap \ {item})
     \/ RefilFails(item[2], heap \ {item})

(* MergeIter::next drops a record equal to the last one.                     *)
SkipDuplicate(item) ==
  /\ Pop(item)
  /\ item[1] = last
  /\ UNCHANGED <<query, source, task, last, out, batch, loop_err, end, clientVars>>

\* Mutant of Return: duplicates are returned as well.
ReturnEvery(item) ==
  /\ Pop(item)
  /\ last' = item[1]
  /\ out' = Append(out, item[1])

\* MergeIter::next returns a record that is not a duplicate.
Return(item) ==
  /\ Pop(item)
  /\ item[1] # last
  /\ last' = item[1]
  /\ out' = Append(out, item[1])

(* handle_range takes a record; a full batch is sent.                        *)
TakeRecord(item) ==
  /\ Return(item)
  /\ batch' = Append(batch, item[1])
  /\ task' = IF Len(batch') >= RangeBatchSize THEN "sending" ELSE "merging"
  /\ UNCHANGED <<query, source, loop_err, end, clientVars>>

(* handle_range takes a record that is no proto::Record: the loop ends.      *)
TakeRecordFails(item) ==
  /\ "decode" \in ReadFaults
  /\ Return(item)
  /\ loop_err' = TRUE
  /\ task' = "draining"
  /\ UNCHANGED <<query, source, batch, end, clientVars>>

(* blocking_send of a full batch; an error, the receiver is gone, ends the   *)
(* loop with the batch dropped.                                              *)
SendBatch ==
  /\ task = "sending"
  /\ batch' = <<>>
  /\ \/ /\ client = "gone"
        /\ task' = "draining"
        /\ UNCHANGED chan
     \/ /\ client # "gone"
        /\ Len(chan) < RecordChannel
        /\ chan' = Append(chan, batch)
        /\ task' = "merging"
  /\ UNCHANGED <<query, source, iterVars, loop_err, end, client, got>>

(* MergeIter::next finds the heap empty.                                     *)
EndMerge ==
  /\ task = "merging"
  /\ heap = {}
  /\ task' = "draining"
  /\ UNCHANGED <<query, source, iterVars, batch, loop_err, end, clientVars>>

\* Mutant of FinishTask: without a last batch nothing is sent.
FinishTaskWithBatch ==
  /\ task = "draining"
  /\ batch # <<>>
  /\ \/ client = "gone" /\ UNCHANGED chan
     \/ /\ client # "gone" /\ Len(chan) < RecordChannel
        /\ chan' = Append(chan, batch)
  /\ batch' = <<>>
  /\ end' = IF loop_err THEN "error" ELSE "ok"
  /\ task' = "done"
  /\ UNCHANGED <<query, source, iterVars, loop_err, client, got>>

(* The last batch, the result, and both senders are dropped.                 *)
FinishTask ==
  /\ task = "draining"
  /\ \/ (batch = <<>> \/ client = "gone") /\ UNCHANGED chan
     \/ /\ batch # <<>> /\ client # "gone" /\ Len(chan) < RecordChannel
        /\ chan' = Append(chan, batch)
  /\ batch' = <<>>
  /\ end' = IF loop_err THEN "error" ELSE "ok"
  /\ task' = "done"
  /\ UNCHANGED <<query, source, iterVars, loop_err, client, got>>

-----------------------------------------------------------------------------
(* handle_conn passes a batch on to the client.                              *)
ConnForward ==
  /\ client = "waiting"
  /\ chan # <<>>
  /\ got' = got \o Head(chan)
  /\ chan' = Tail(chan)
  /\ UNCHANGED <<query, source, task, iterVars, batch, loop_err, end, client>>

\* What Client::range makes of RangeEnd and of Error.
ClientRange(reply) == IF reply = "ok" THEN "ok" ELSE "error"

(* handle_conn, once the channel is closed and empty: RangeEnd or Error.     *)
ConnReply ==
  /\ client = "waiting"
  /\ task = "done" /\ chan = <<>>
  /\ client' = ClientRange(end)
  /\ UNCHANGED <<query, source, task, iterVars, batch, loop_err, end, chan, got>>

(* A flush to the client fails: handle_conn returns, its receiver is dropped. *)
ConnFails ==
  /\ "drop" \in ReadFaults
  /\ client = "waiting"
  /\ chan # <<>> \/ task = "done"
  /\ client' = "gone"
  /\ chan' = <<>>
  /\ UNCHANGED <<query, source, task, iterVars, batch, loop_err, end, got>>

RangeNext ==
  \/ RejectRange
  \/ StartRange
  \/ \E item \in heap : SkipDuplicate(item)
  \/ \E item \in heap : TakeRecord(item)
  \/ \E item \in heap : TakeRecordFails(item)
  \/ SendBatch
  \/ EndMerge
  \/ FinishTask
  \/ ConnForward
  \/ ConnReply
  \/ ConnFails

RangeSpec == RangeInit /\ [][RangeNext]_rangeVars

TaskStep ==
  \/ RejectRange \/ StartRange \/ SendBatch \/ EndMerge \/ FinishTask
  \/ \E item \in heap : SkipDuplicate(item) \/ TakeRecord(item) \/ TakeRecordFails(item)

(* The blocking pool runs the task, the runtime polls the connection; the    *)
(* client reads what it is sent or disconnects.                              *)
FairRangeSpec ==
  /\ RangeSpec
  /\ WF_rangeVars(TaskStep)
  /\ WF_rangeVars(ConnForward \/ ConnReply)
=============================================================================
