----------------------------- MODULE LsmProofs -----------------------------
(***************************************************************************)
(* Proofs about LsmTree of logregator-tsdb and the consumer of its I/O     *)
(* events: what append_batch acknowledges is synced, no frozen memtable is *)
(* forgotten, what is in a table has been through the WAL and has streams  *)
(* that the manifest names, and no record vanishes.                        *)
(***************************************************************************)
EXTENDS LsmProps, TableProofs, FiniteSetTheorems

\* What a send and a receive do to a queue.
LEMMA AppendOwn ==
  ASSUME NEW s, s \in Seq(Range(s)), NEW e
  PROVE  /\ Append(s, e) \in Seq(Range(Append(s, e)))
         /\ Len(s) \in Nat /\ DOMAIN s = 1 .. Len(s)
         /\ DOMAIN Append(s, e) = 1 .. (Len(s) + 1)
         /\ Append(s, e)[Len(s) + 1] = e
         /\ \A i \in DOMAIN s : Append(s, e)[i] = s[i]
         /\ Range(Append(s, e)) = Range(s) \cup {e}
<1>1. s \in Seq(Range(s) \cup {e})
  OBVIOUS
<1> DEFINE t == Append(s, e)
<1>2. /\ Len(s) \in Nat /\ DOMAIN s = 1 .. Len(s)
      /\ DOMAIN t = 1 .. (Len(s) + 1) /\ t[Len(s) + 1] = e
      /\ \A i \in 1 .. Len(s) : t[i] = s[i]
      /\ t \in Seq(Range(s) \cup {e})
  BY <1>1
<1> HIDE DEF t
<1>3. Range(t) = Range(s) \cup {e}
  BY <1>2 DEF Range
<1> QED
  BY <1>2, <1>3 DEF t

LEMMA TailOwn ==
  ASSUME NEW s, s \in Seq(Range(s)), s # <<>>
  PROVE  /\ Tail(s) \in Seq(Range(Tail(s)))
         /\ Len(s) \in Nat \ {0} /\ DOMAIN s = 1 .. Len(s) /\ Head(s) = s[1]
         /\ DOMAIN Tail(s) = 1 .. (Len(s) - 1)
         /\ \A i \in DOMAIN Tail(s) : i + 1 \in DOMAIN s /\ Tail(s)[i] = s[i + 1]
         /\ \A i \in DOMAIN s : i # 1 => i - 1 \in DOMAIN Tail(s) /\ Tail(s)[i - 1] = s[i]
<1> DEFINE t == Tail(s)
<1>1. /\ Len(s) \in Nat \ {0} /\ DOMAIN s = 1 .. Len(s) /\ Head(s) = s[1]
      /\ Len(t) = Len(s) - 1 /\ DOMAIN t = 1 .. (Len(s) - 1)
      /\ \A i \in 1 .. (Len(s) - 1) : t[i] = s[i + 1]
      /\ t \in Seq(Range(s))
  OBVIOUS
<1> HIDE DEF t
<1>2. t \in Seq(Range(t))
  <2>1. \A i \in 1 .. Len(t) : t[i] \in Range(t)
    BY <1>1 DEF Range
  <2> QED
    BY <1>1, <2>1
<1>3. /\ \A i \in DOMAIN t : i + 1 \in DOMAIN s /\ t[i] = s[i + 1]
      /\ \A i \in DOMAIN s : i # 1 => i - 1 \in DOMAIN t /\ t[i - 1] = s[i]
  BY <1>1
<1> QED
  BY <1>1, <1>2, <1>3 DEF t

\* The events of the channel are told apart by their first field.
LEMMA EventFacts ==
  /\ \A r : AppendWal(r).ev = "AppendWal" /\ AppendWal(r).rec = r
  /\ FsyncWal.ev = "FsyncWal"
  /\ \A mt, entries : /\ FlushMemtable(mt, entries).ev = "FlushMemtable"
                      /\ FlushMemtable(mt, entries).memtable = mt
BY DEF AppendWal, FsyncWal, FlushMemtable

-----------------------------------------------------------------------------
(* Types.                                                                    *)

LEMMA InitTree == Init => TreeTypeOK
<1> SUFFICES ASSUME Init PROVE TreeTypeOK
  OBVIOUS
<1>1. memtable \in Memtable
  BY DEF Init, with_size_limit, Memtable
<1>2. counters \in [memtable_id : Nat, stream_id : Nat, seq_num : Nat] /\ history \in History
  BY DEF Init, History
<1>3. /\ frozen_memtables \in Seq(Memtable) /\ io_rx \in Seq(Pending) /\ DOMAIN io_rx = {}
      /\ flush_results \in Seq(Range(flush_results)) /\ DOMAIN flush_results = {}
      /\ wal \in Seq(LogRecord) /\ Len(wal) = 0 /\ DOMAIN labelmap_by_stream = {}
      /\ synced = 0
  BY DEF Init
<1>4. call.pc = "idle" /\ io = "up"
  BY DEF Init, Idle
<1> QED
  BY <1>1, <1>2, <1>3, <1>4 DEF TreeTypeOK

\* Appending a record to a memtable keeps its id.
LEMMA AppendType ==
  ASSUME NEW mt \in Memtable, NEW r \in LogRecord
  PROVE  /\ append(mt, r).mt \in Memtable
         /\ append(mt, r).mt.id = mt.id
         /\ append(mt, r).rejected \in Seq(LogRecord)
         /\ append(mt, r).rejected \in {<<>>, <<r>>}
<1>1. size_of(r) \in Nat /\ <<r.key>> \in Seq(Key) /\ <<r>> \in Seq(LogRecord)
  BY DEF size_of, LogRecord, KEY_SIZE
<1>2. Inserted(mt, r) \in Memtable /\ Inserted(mt, r).id = mt.id
  <2> DEFINE a == mt.set \cup {r}
             b == mt.size_bytes + size_of(r)
             c == IF mt.first_key = <<>> THEN <<r.key>> ELSE mt.first_key
             d == <<r.key>>
             new == [mt EXCEPT !.set = a, !.size_bytes = b, !.first_key = c, !.last_key = d]
  <2>1. a \in SUBSET LogRecord /\ b \in Nat /\ c \in Seq(Key) /\ d \in Seq(Key)
    BY <1>1 DEF Memtable
  <2>2. Inserted(mt, r) = new
    BY Zenon DEF Inserted
  <2> HIDE DEF a, b, c, d
  <2>3. new \in Memtable /\ new.id = mt.id
    BY <2>1 DEF Memtable
  <2> QED
    BY <2>2, <2>3, Zenon
<1>3. CASE Rejects(mt, r)
  BY <1>1, <1>3 DEF append
<1>4. CASE ~Rejects(mt, r)
  <2>1. append(mt, r).mt = Inserted(mt, r) /\ append(mt, r).rejected = <<>>
    BY <1>4 DEF append
  <2> QED
    BY <1>2, <2>1
<1> QED
  BY <1>3, <1>4

\* A record with a new number, sent to the WAL and appended, or rejected.
Taken(r) ==
  /\ r \in LogRecord /\ r.key.sequence_num = counters.seq_num
  /\ memtable' \in Memtable /\ memtable'.id = memtable.id
  /\ \/ /\ io = "down" /\ call' = Idle
        /\ UNCHANGED <<io_rx, history>>
     \/ /\ io_rx' = Append(io_rx, AppendWal(r))
        /\ \/ call' = call
           \/ \E rejected \in {<<>>, <<r>>} : call' = [pc |-> "flush", rejected |-> rejected]
        /\ history' \in {history, Place(r, memtable)}

LEMMA PayloadTaken ==
  ASSUME TreeTypeOK, NEW p \in Payloads, NEW time \in Clock, AppendPayload(p, time)
  PROVE  /\ \E r : Taken(r)
         /\ DOMAIN labelmap_by_stream' \subseteq Nat
         /\ counters' \in [memtable_id : Nat, stream_id : Nat, seq_num : Nat]
         /\ counters'.memtable_id = counters.memtable_id
         /\ counters'.seq_num = counters.seq_num + 1
         /\ call.pc = "append" /\ UNCHANGED <<tables, ioVars>>
<1>1. PICK stream \in DOMAIN labelmap_by_stream \cup {counters.stream_id} :
        /\ ResolveStream(p, stream)
        /\ LET r == [key |-> [stream_id |-> stream, timestamp |-> time,
                              sequence_num |-> counters.seq_num, source_id |-> 0],
                     len |-> p.len]
               done == append(memtable, r)
           IN IF io = "down"
              THEN /\ call' = Idle
                   /\ UNCHANGED <<memtable, io_rx, history>>
              ELSE /\ send(AppendWal(r))
                   /\ memtable' = done.mt
                   /\ call' = IF done.out = "Full"
                              THEN [pc |-> "flush", rejected |-> done.rejected] ELSE call
                   /\ history' = IF done.rejected = <<>> THEN Place(r, memtable) ELSE history
  BY DEF AppendPayload
<1> DEFINE r == [key |-> [stream_id |-> stream, timestamp |-> time,
                          sequence_num |-> counters.seq_num, source_id |-> 0],
                 len |-> p.len]
           done == append(memtable, r)
<1>2. /\ counters \in [memtable_id : Nat, stream_id : Nat, seq_num : Nat]
      /\ DOMAIN labelmap_by_stream \subseteq Nat /\ memtable \in Memtable
      /\ stream \in Nat /\ time \in Nat /\ p.len \in Nat
  BY LsmAssumption DEF TreeTypeOK
<1>3. r \in LogRecord /\ r.key.sequence_num = counters.seq_num
  BY <1>2 DEF LogRecord, Key
<1>4. /\ done.mt \in Memtable /\ done.mt.id = memtable.id /\ done.rejected \in {<<>>, <<r>>}
  BY <1>2, <1>3, AppendType
<1> HIDE DEF r, done
<1>5. Taken(r)
  <2>1. CASE io = "down"
    <3>1. call' = Idle /\ UNCHANGED <<memtable, io_rx, history>>
      BY <1>1, <2>1 DEF r, done
    <3> QED
      BY <1>2, <1>3, <2>1, <3>1 DEF Taken
  <2>2. CASE io # "down"
    <3>1. /\ send(AppendWal(r)) /\ memtable' = done.mt
          /\ call' = IF done.out = "Full"
                     THEN [pc |-> "flush", rejected |-> done.rejected] ELSE call
          /\ history' = IF done.rejected = <<>> THEN Place(r, memtable) ELSE history
      BY <1>1, <2>2 DEF r, done
    <3>2. history' \in {history, Place(r, memtable)}
      BY <3>1
    <3>3. \/ call' = call
          \/ \E rejected \in {<<>>, <<r>>} : call' = [pc |-> "flush", rejected |-> rejected]
      BY <1>4, <3>1
    <3> QED
      BY <1>3, <1>4, <3>1, <3>2, <3>3 DEF Taken, send
  <2> QED
    BY <2>1, <2>2
<1>6. /\ counters' \in [memtable_id : Nat, stream_id : Nat, seq_num : Nat]
      /\ counters'.memtable_id = counters.memtable_id
      /\ counters'.seq_num = counters.seq_num + 1
  <2>1. \/ counters' = [counters EXCEPT !.seq_num = @ + 1]
        \/ counters' = [counters EXCEPT !.seq_num = @ + 1, !.stream_id = @ + 1]
    BY <1>1 DEF ResolveStream
  <2>2. counters.seq_num + 1 \in Nat /\ counters.stream_id + 1 \in Nat
    BY <1>2
  <2>3. CASE counters' = [counters EXCEPT !.seq_num = @ + 1]
    BY <1>2, <2>2, <2>3
  <2>4. CASE counters' = [counters EXCEPT !.seq_num = @ + 1, !.stream_id = @ + 1]
    BY <1>2, <2>2, <2>4
  <2> QED
    BY <2>1, <2>3, <2>4
<1>7. DOMAIN labelmap_by_stream' \subseteq Nat
  BY <1>1, <1>2 DEF ResolveStream, insert
<1> QED
  BY <1>5, <1>6, <1>7 DEF AppendPayload, Accepts

\* The channel holds events, before and after a send and a receive.
QueueOK == io_rx \in Seq(Pending) /\ \A i \in DOMAIN io_rx : EventOK(io_rx[i])

LEMMA SendType ==
  ASSUME QueueOK, NEW ev, EventOK(ev), io_rx' = Append(io_rx, ev)
  PROVE  QueueOK'
<1>1. /\ io_rx' \in Seq(Range(io_rx')) /\ Len(io_rx) \in Nat
      /\ DOMAIN io_rx = 1 .. Len(io_rx) /\ DOMAIN io_rx' = 1 .. (Len(io_rx) + 1)
      /\ io_rx'[Len(io_rx) + 1] = ev
      /\ \A i \in DOMAIN io_rx : io_rx'[i] = io_rx[i]
  BY AppendOwn DEF QueueOK, Pending
<1>2. ASSUME NEW i \in DOMAIN io_rx' PROVE EventOK(io_rx'[i])
  <2>1. CASE i = Len(io_rx) + 1
    BY <1>1, <2>1
  <2>2. CASE i # Len(io_rx) + 1
    <3>1. i \in DOMAIN io_rx
      BY <1>1, <2>2
    <3> QED
      BY <1>1, <3>1 DEF QueueOK
  <2> QED
    BY <2>1, <2>2
<1> QED
  BY <1>1, <1>2 DEF QueueOK, Pending

LEMMA ReceiveType ==
  ASSUME QueueOK, io_rx # <<>>, io_rx' = Tail(io_rx)
  PROVE  QueueOK' /\ EventOK(Head(io_rx))
<1>1. /\ io_rx' \in Seq(Range(io_rx')) /\ Len(io_rx) \in Nat \ {0}
      /\ DOMAIN io_rx = 1 .. Len(io_rx) /\ Head(io_rx) = io_rx[1]
      /\ \A i \in DOMAIN io_rx' : i + 1 \in DOMAIN io_rx /\ io_rx'[i] = io_rx[i + 1]
  BY TailOwn DEF QueueOK, Pending
<1>2. \A i \in DOMAIN io_rx' : EventOK(io_rx'[i])
  BY <1>1 DEF QueueOK
<1> QED
  BY <1>1, <1>2 DEF QueueOK, Pending

\* What Place does to the history.
LEMMA PlaceType ==
  ASSUME TreeTypeOK, NEW r \in LogRecord, NEW mt \in Memtable
  PROVE  /\ Place(r, mt) \in History
         /\ Place(r, mt).batch = history.batch \cup {r}
         /\ Place(r, mt).acked = history.acked /\ Place(r, mt).failed = history.failed
         /\ Place(r, mt).unlogged = history.unlogged
         /\ Place(r, mt).fsyncFailed = history.fsyncFailed
<1> DEFINE a == Append(history.placed, [rec |-> r, mid |-> mt.id])
           b == history.batch \cup {r}
           new == [history EXCEPT !.placed = a, !.batch = b]
<1>1. history \in History
  BY DEF TreeTypeOK
<1>2. [rec |-> r, mid |-> mt.id] \in [rec : LogRecord, mid : Nat]
  BY DEF Memtable
<1>3. a \in Seq([rec : LogRecord, mid : Nat]) /\ b \in SUBSET LogRecord
  BY <1>1, <1>2 DEF History
<1>4. Place(r, mt) = new
  BY Zenon DEF Place
<1> HIDE DEF a
<1>5. /\ new \in History /\ new.batch = b /\ new.acked = history.acked
      /\ new.failed = history.failed /\ new.unlogged = history.unlogged
      /\ new.fsyncFailed = history.fsyncFailed
  BY <1>1, <1>3 DEF History
<1> QED
  BY <1>4, <1>5, Zenon

\* append_batch keeps the types.
LEMMA BatchType ==
  ASSUME TreeTypeOK,
         \/ BeginBatch \/ EndBatch
         \/ \E p \in Payloads : RefusePayload(p) \/ StreamPanics(p)
         \/ \E p \in Payloads, time \in Clock : AppendPayload(p, time)
  PROVE  TreeTypeOK'
<1>0. QueueOK /\ history \in History /\ memtable \in Memtable
  BY DEF TreeTypeOK, QueueOK
<1>1. CASE \E p \in Payloads, time \in Clock : AppendPayload(p, time)
  <2>1. PICK p \in Payloads, time \in Clock : AppendPayload(p, time)
    BY <1>1
  <2>2. /\ DOMAIN labelmap_by_stream' \subseteq Nat
        /\ counters' \in [memtable_id : Nat, stream_id : Nat, seq_num : Nat]
        /\ call.pc = "append" /\ UNCHANGED <<tables, ioVars>>
    BY <2>1, PayloadTaken
  <2>3. PICK r : Taken(r)
    BY <2>1, PayloadTaken
  <2>4. r \in LogRecord /\ memtable' \in Memtable
    BY <2>3 DEF Taken
  <2>5. QueueOK'
    <3>1. EventOK(AppendWal(r))
      BY <2>4 DEF EventOK, AppendWal
    <3>2. io_rx' = io_rx \/ io_rx' = Append(io_rx, AppendWal(r))
      BY <2>3 DEF Taken
    <3>3. CASE io_rx' = io_rx
      BY <1>0, <3>3 DEF QueueOK, Pending
    <3> QED
      BY <1>0, <3>1, <3>2, <3>3, SendType
  <2>6. history' \in History
    BY <1>0, <2>3, <2>4, PlaceType DEF Taken
  <2>7. \/ call'.pc \in {"idle", "append", "panicked", "drain"}
        \/ call'.pc = "flush" /\ call'.rejected \in Seq(LogRecord)
    <3>1. \/ call' = Idle \/ call' = call
          \/ \E rejected \in {<<>>, <<r>>} : call' = [pc |-> "flush", rejected |-> rejected]
      BY <2>3 DEF Taken
    <3>2. <<>> \in Seq(LogRecord) /\ <<r>> \in Seq(LogRecord)
      BY <2>4
    <3>3. CASE call' = Idle
      BY <3>3 DEF Idle
    <3>4. CASE call' = call
      BY <2>2, <3>4
    <3>5. ASSUME NEW rejected \in {<<>>, <<r>>}, call' = [pc |-> "flush", rejected |-> rejected]
          PROVE  call'.pc = "flush" /\ call'.rejected \in Seq(LogRecord)
      BY <3>2, <3>5
    <3> QED
      BY <3>1, <3>3, <3>4, <3>5
  <2> QED
    BY <2>2, <2>4, <2>5, <2>6, <2>7 DEF TreeTypeOK, QueueOK, tables, ioVars
<1>2. CASE BeginBatch
  <2>1. history' \in History
    <3> DEFINE a == history.calls + 1
               b == {}
               new == [history EXCEPT !.calls = a, !.batch = b]
    <3>1. history \in History /\ a \in Nat /\ b \in SUBSET LogRecord
      BY <1>0 DEF History
    <3>2. history' = new
      BY <1>2, Zenon DEF BeginBatch
    <3> HIDE DEF a, b
    <3>3. new \in History
      BY <3>1 DEF History
    <3> QED
      BY <3>2, <3>3, Zenon
  <2>2. call'.pc = "append"
    BY <1>2 DEF BeginBatch
  <2> QED
    BY <1>2, <2>1, <2>2 DEF BeginBatch, TreeTypeOK, tables, ioVars, Pending
<1>3. CASE EndBatch
  <2>1. QueueOK'
    <3>1. EventOK(FsyncWal)
      BY DEF EventOK
    <3>2. io_rx' = io_rx \/ io_rx' = Append(io_rx, FsyncWal)
      BY <1>3 DEF EndBatch, send
    <3>3. CASE io_rx' = io_rx
      BY <1>0, <3>3 DEF QueueOK, Pending
    <3> QED
      BY <1>0, <3>1, <3>2, <3>3, SendType
  <2>2. history' \in History
    BY <1>0, <1>3 DEF EndBatch, History
  <2>3. call'.pc = "idle"
    BY <1>3 DEF EndBatch, Idle
  <2> QED
    BY <1>3, <2>1, <2>2, <2>3 DEF EndBatch, TreeTypeOK, QueueOK, tables, ioVars
<1>4. CASE \E p \in Payloads : RefusePayload(p)
  <2>1. call'.pc = "idle"
    BY <1>4 DEF RefusePayload, Idle
  <2> QED
    BY <1>4, <2>1 DEF RefusePayload, TreeTypeOK, tables, ioVars, Pending
<1>5. CASE \E p \in Payloads : StreamPanics(p)
  <2>1. PICK p \in Payloads :
          /\ counters' = [counters EXCEPT !.stream_id = @ + 1] /\ call' = [pc |-> "panicked"]
          /\ insert(counters.stream_id, p.labels)
          /\ UNCHANGED <<tables, memtable, stream_buffer, io_rx, ioVars, history>>
    BY <1>5 DEF StreamPanics
  <2>2. counters' \in [memtable_id : Nat, stream_id : Nat, seq_num : Nat]
    <3>1. counters \in [memtable_id : Nat, stream_id : Nat, seq_num : Nat]
      BY DEF TreeTypeOK
    <3>2. counters.stream_id + 1 \in Nat
      BY <3>1
    <3> QED
      BY <2>1, <3>1, <3>2
  <2>3. DOMAIN labelmap_by_stream' \subseteq Nat
    BY <2>1 DEF TreeTypeOK, insert
  <2> QED
    BY <2>1, <2>2, <2>3 DEF TreeTypeOK, tables, ioVars, Pending
<1> QED
  BY <1>1, <1>2, <1>3, <1>4, <1>5

\* issue_flush, seen as a whole.
LEMMA FlushIssued ==
  ASSUME TreeTypeOK, IssueFlush
  PROVE  /\ memtable' \in Memtable /\ memtable'.id = counters.memtable_id
         /\ counters' \in [memtable_id : Nat, stream_id : Nat, seq_num : Nat]
         /\ counters'.memtable_id = counters.memtable_id + 1
         /\ counters'.seq_num = counters.seq_num
         /\ call.pc = "flush" /\ call.rejected \in Seq(LogRecord)
         /\ \/ /\ io = "down" /\ call' = Idle
               /\ UNCHANGED <<io_rx, history>>
            \/ /\ io_rx' = Append(io_rx, FlushMemtable(memtable, stream_buffer))
               /\ call' = [pc |-> "append"]
               /\ \/ call.rejected = <<>> /\ history' = history
                  \/ /\ call.rejected # <<>> /\ call.rejected[1] \in LogRecord
                     /\ history' = Place(call.rejected[1], with_size_limit(counters.memtable_id))
<1> DEFINE fresh == with_size_limit(counters.memtable_id)
           again == IF call.rejected = <<>> THEN fresh ELSE append(fresh, call.rejected[1]).mt
<1>1. /\ counters \in [memtable_id : Nat, stream_id : Nat, seq_num : Nat]
      /\ call.pc = "flush" /\ call.rejected \in Seq(LogRecord)
  BY DEF TreeTypeOK, IssueFlush
<1>2. counters.memtable_id + 1 \in Nat
  BY <1>1
<1>3. fresh \in Memtable /\ fresh.id = counters.memtable_id
  BY <1>1 DEF with_size_limit, Memtable
<1>4. call.rejected # <<>> => call.rejected[1] \in LogRecord
  BY <1>1
<1> HIDE DEF fresh
<1>5. again \in Memtable /\ again.id = counters.memtable_id
  <2>1. CASE call.rejected = <<>>
    BY <1>3, <2>1
  <2>2. CASE call.rejected # <<>>
    <3>1. again = append(fresh, call.rejected[1]).mt
      BY <2>2
    <3> QED
      BY <1>3, <1>4, <2>2, <3>1, AppendType
  <2> QED
    BY <2>1, <2>2
<1> HIDE DEF again
<1>6. counters' = [counters EXCEPT !.memtable_id = @ + 1]
  BY DEF IssueFlush
<1>7. /\ counters' \in [memtable_id : Nat, stream_id : Nat, seq_num : Nat]
      /\ counters'.memtable_id = counters.memtable_id + 1
      /\ counters'.seq_num = counters.seq_num
  BY <1>1, <1>2, <1>6
<1>8. \/ /\ io = "down" /\ memtable' = fresh /\ call' = Idle
         /\ UNCHANGED <<io_rx, history>>
      \/ /\ io_rx' = Append(io_rx, FlushMemtable(memtable, stream_buffer))
         /\ memtable' = again /\ call' = [pc |-> "append"]
         /\ history' = IF call.rejected = <<>> THEN history ELSE Place(call.rejected[1], fresh)
  BY Zenon DEF IssueFlush, send, fresh, again
<1>9. memtable' \in Memtable /\ memtable'.id = counters.memtable_id
  BY <1>3, <1>5, <1>8
<1>10. \/ /\ io = "down" /\ call' = Idle
          /\ UNCHANGED <<io_rx, history>>
       \/ /\ io_rx' = Append(io_rx, FlushMemtable(memtable, stream_buffer))
          /\ call' = [pc |-> "append"]
          /\ \/ call.rejected = <<>> /\ history' = history
             \/ call.rejected # <<>> /\ history' = Place(call.rejected[1], fresh)
  BY <1>8
<1> QED
  BY <1>1, <1>4, <1>7, <1>9, <1>10, Zenon DEF fresh

LEMMA IssueFlushType ==
  ASSUME TreeTypeOK, IssueFlush
  PROVE  TreeTypeOK'
<1>1. QueueOK /\ memtable \in Memtable /\ frozen_memtables \in Seq(Memtable)
      /\ history \in History
  BY DEF TreeTypeOK, QueueOK
<1>2. frozen_memtables' \in Seq(Memtable)
  BY <1>1 DEF IssueFlush
<1>3. /\ memtable' \in Memtable
      /\ counters' \in [memtable_id : Nat, stream_id : Nat, seq_num : Nat]
  BY FlushIssued
<1>4. QueueOK'
  <2>1. EventOK(FlushMemtable(memtable, stream_buffer))
    BY <1>1, EventFacts DEF EventOK, IsFlush
  <2>2. io_rx' = io_rx \/ io_rx' = Append(io_rx, FlushMemtable(memtable, stream_buffer))
    BY FlushIssued
  <2>3. CASE io_rx' = io_rx
    BY <1>1, <2>3 DEF QueueOK, Pending
  <2> QED
    BY <1>1, <2>1, <2>2, <2>3, SendType
<1>5. history' \in History
  <2>1. with_size_limit(counters.memtable_id) \in Memtable
    BY DEF with_size_limit, Memtable, TreeTypeOK
  <2>2. \/ history' = history
        \/ /\ call.rejected[1] \in LogRecord
           /\ history' = Place(call.rejected[1], with_size_limit(counters.memtable_id))
    BY FlushIssued
  <2> QED
    BY <1>1, <2>1, <2>2, PlaceType
<1>6. call'.pc \in {"idle", "append"}
  <2>1. call' = Idle \/ call' = [pc |-> "append"]
    BY FlushIssued
  <2> QED
    BY <2>1 DEF Idle
<1> QED
  BY <1>2, <1>3, <1>4, <1>5, <1>6 DEF IssueFlush, TreeTypeOK, QueueOK, ioVars

LEMMA DrainType ==
  ASSUME TreeTypeOK, DrainSstQueue \/ EndDrain
  PROVE  TreeTypeOK'
<1>1. CASE DrainSstQueue
  <2> DEFINE h == Head(flush_results)
  <2>1. /\ flush_results \in Seq(Range(flush_results)) /\ flush_results # <<>>
        /\ flush_results' = Tail(flush_results) /\ frozen_memtables \in Seq(Memtable)
    BY <1>1 DEF TreeTypeOK, DrainSstQueue
  <2>2. /\ flush_results' \in Seq(Range(flush_results'))
        /\ \A i \in DOMAIN flush_results' :
             i + 1 \in DOMAIN flush_results /\ flush_results'[i] = flush_results[i + 1]
    BY <2>1, TailOwn
  <2>3. \A i \in DOMAIN flush_results' : flush_results'[i].id \in Nat
    BY <2>2 DEF TreeTypeOK
  <2>4. frozen_memtables' \in Seq(Memtable)
    <3>1. \/ frozen_memtables' = frozen_memtables
          \/ frozen_memtables # <<>> /\ frozen_memtables' = Tail(frozen_memtables)
      BY <1>1 DEF DrainSstQueue, drain_one
    <3>2. ASSUME NEW f \in Seq(Memtable), f # <<>> PROVE Tail(f) \in Seq(Memtable)
      BY <3>2
    <3> QED
      BY <2>1, <3>1, <3>2, Zenon
  <2>5. call'.pc = "drain"
    BY <1>1 DEF DrainSstQueue, Draining
  <2> QED
    BY <1>1, <2>2, <2>3, <2>4, <2>5 DEF DrainSstQueue, TreeTypeOK, Pending
<1>2. CASE EndDrain
  <2>1. call'.pc = "idle"
    BY <1>2 DEF EndDrain, Idle
  <2> QED
    BY <1>2, <2>1 DEF EndDrain, TreeTypeOK, tables, ioVars, Pending
<1> QED
  BY <1>1, <1>2

\* What the consumer has taken from the channel.
LEMMA EventTaken ==
  ASSUME TreeTypeOK, NEW ev, TakeEvent(ev)
  PROVE  /\ io = "up" /\ QueueOK' /\ UNCHANGED treeVars
         /\ io_rx # <<>> /\ io_rx' = Tail(io_rx) /\ Head(io_rx).ev = ev
         /\ EventOK(Head(io_rx))
<1>1. QueueOK
  BY DEF TreeTypeOK, QueueOK
<1> QED
  BY <1>1, ReceiveType DEF TakeEvent

LEMMA WalAppended ==
  ASSUME TreeTypeOK, IoAppendWal
  PROVE  \E r \in LogRecord :
           /\ Head(io_rx) = AppendWal(r)
           /\ \/ wal' = Append(wal, r) /\ UNCHANGED history
              \/ /\ history' = [history EXCEPT !.unlogged = history.unlogged \cup {r}]
                 /\ UNCHANGED wal
<1>1. TakeEvent("AppendWal")
  BY DEF IoAppendWal
<1>2. Head(io_rx).ev = "AppendWal" /\ EventOK(Head(io_rx))
  BY <1>1, EventTaken
<1>3. Head(io_rx) \in [ev : {"AppendWal"}, rec : LogRecord]
  BY <1>2, EventFacts DEF EventOK, IsFlush
<1>4. PICK r \in LogRecord : r = Head(io_rx).rec /\ Head(io_rx) = AppendWal(r)
  BY <1>3 DEF AppendWal
<1>5. \/ wal' = Append(wal, r) /\ UNCHANGED history
      \/ /\ history' = [history EXCEPT !.unlogged = history.unlogged \cup {r}]
         /\ UNCHANGED wal
  BY <1>4, Zenon DEF IoAppendWal
<1> QED
  BY <1>4, <1>5

\* A memtable taken from the channel: its table, an error or a panic.
LEMMA MemtableFlushed ==
  ASSUME TreeTypeOK, IoFlushMemtable
  PROVE  \E mt \in Memtable :
           /\ IsFlush(Head(io_rx)) /\ Head(io_rx).memtable = mt
           /\ \/ \E h : flush_results' = Append(flush_results, [id |-> mt.id, handle |-> h])
                 /\ UNCHANGED <<io, history>>
              \/ /\ history' = [history EXCEPT !.failed = history.failed \cup {mt.id}]
                 /\ UNCHANGED <<io, flush_results>>
              \/ io' = "down" /\ UNCHANGED <<flush_results, history>>
<1>1. TakeEvent("FlushMemtable")
  BY DEF IoFlushMemtable
<1>2. Head(io_rx).ev = "FlushMemtable" /\ EventOK(Head(io_rx))
  BY <1>1, EventTaken
<1>3. Head(io_rx).memtable \in Memtable /\ IsFlush(Head(io_rx))
  <2>1. Head(io_rx) \notin [ev : {"AppendWal"}, rec : LogRecord]
    BY <1>2
  <2>2. Head(io_rx) # FsyncWal
    BY <1>2, EventFacts
  <2> QED
    BY <1>2, <2>1, <2>2 DEF EventOK
<1> DEFINE mt == Head(io_rx).memtable
<1>4. \/ \E h : flush_results' = Append(flush_results, [id |-> mt.id, handle |-> h])
         /\ UNCHANGED <<io, history>>
      \/ /\ history' = [history EXCEPT !.failed = history.failed \cup {mt.id}]
         /\ UNCHANGED <<io, flush_results>>
      \/ io' = "down" /\ UNCHANGED <<flush_results, history>>
  BY Zenon DEF IoFlushMemtable, FlushFails
<1> QED
  BY <1>3, <1>4, Zenon

LEMMA ConsumerType ==
  ASSUME TreeTypeOK, IoAppendWal \/ IoFsyncWal \/ IoFlushMemtable
  PROVE  TreeTypeOK'
<1>0. history \in History /\ wal \in Seq(LogRecord) /\ synced \in Nat /\ synced <= Len(wal)
  BY DEF TreeTypeOK
<1>1. QueueOK' /\ UNCHANGED treeVars /\ io = "up"
  BY EventTaken DEF IoAppendWal, IoFsyncWal, IoFlushMemtable
<1>2. CASE IoAppendWal
  <2>1. PICK r \in LogRecord :
          \/ wal' = Append(wal, r) /\ UNCHANGED history
          \/ /\ history' = [history EXCEPT !.unlogged = history.unlogged \cup {r}]
             /\ UNCHANGED wal
    BY <1>2, WalAppended
  <2>2. wal' \in Seq(LogRecord) /\ synced <= Len(wal')
    BY <1>0, <2>1
  <2>3. history' \in History
    <3> DEFINE a == history.unlogged \cup {r}
    <3>1. a \in SUBSET LogRecord /\ history' \in {history, [history EXCEPT !.unlogged = a]}
      BY <1>0, <2>1 DEF History
    <3> HIDE DEF a
    <3> QED
      BY <1>0, <3>1 DEF History
  <2> QED
    BY <1>1, <1>2, <2>2, <2>3 DEF TreeTypeOK, QueueOK, treeVars, IoAppendWal
<1>3. CASE IoFsyncWal
  <2>1. /\ synced' \in {synced, Len(wal)} /\ io' \in {io, "down"}
        /\ history' \in {history, [history EXCEPT !.fsyncFailed = TRUE]}
        /\ UNCHANGED <<flush_results, wal, manifest>>
    BY <1>3 DEF IoFsyncWal
  <2>2. synced' \in Nat /\ synced' <= Len(wal')
    BY <1>0, <2>1
  <2>3. history' \in History
    BY <1>0, <2>1 DEF History
  <2>4. io' \in {"up", "down"}
    BY <1>1, <2>1
  <2> QED
    BY <1>1, <2>1, <2>2, <2>3, <2>4 DEF TreeTypeOK, QueueOK, treeVars
<1>4. CASE IoFlushMemtable
  <2>1. PICK mt \in Memtable :
          \/ \E h : flush_results' = Append(flush_results, [id |-> mt.id, handle |-> h])
             /\ UNCHANGED <<io, history>>
          \/ /\ history' = [history EXCEPT !.failed = history.failed \cup {mt.id}]
             /\ UNCHANGED <<io, flush_results>>
          \/ io' = "down" /\ UNCHANGED <<flush_results, history>>
    BY <1>4, MemtableFlushed
  <2>2. mt.id \in Nat
    BY DEF Memtable
  <2>3. history' \in History
    <3> DEFINE a == history.failed \cup {mt.id}
    <3>1. a \in SUBSET Nat /\ history' \in {history, [history EXCEPT !.failed = a]}
      BY <1>0, <2>1, <2>2 DEF History
    <3> HIDE DEF a
    <3> QED
      BY <1>0, <3>1 DEF History
  <2>4. /\ flush_results' \in Seq(Range(flush_results'))
        /\ \A i \in DOMAIN flush_results' : flush_results'[i].id \in Nat
    <3>1. /\ flush_results \in Seq(Range(flush_results))
          /\ \A i \in DOMAIN flush_results : flush_results[i].id \in Nat
      BY DEF TreeTypeOK
    <3>2. CASE UNCHANGED flush_results
      BY <3>1, <3>2
    <3>3. ASSUME NEW h, flush_results' = Append(flush_results, [id |-> mt.id, handle |-> h])
          PROVE  /\ flush_results' \in Seq(Range(flush_results'))
                 /\ \A i \in DOMAIN flush_results' : flush_results'[i].id \in Nat
      <4> DEFINE e == [id |-> mt.id, handle |-> h]
                 t == Append(flush_results, e)
      <4>1. /\ t \in Seq(Range(t)) /\ Len(flush_results) \in Nat
            /\ DOMAIN flush_results = 1 .. Len(flush_results)
            /\ DOMAIN t = 1 .. (Len(flush_results) + 1) /\ t[Len(flush_results) + 1] = e
            /\ \A i \in DOMAIN flush_results : t[i] = flush_results[i]
        BY <3>1, AppendOwn
      <4>2. e.id \in Nat /\ flush_results' = t
        BY <2>2, <3>3
      <4> HIDE DEF e, t
      <4>3. \A i \in DOMAIN t : t[i].id \in Nat
        BY <3>1, <4>1, <4>2
      <4> QED
        BY <4>1, <4>2, <4>3
    <3> QED
      BY <2>1, <3>2, <3>3
  <2>5. io' \in {"up", "down"}
    BY <1>1, <2>1
  <2> QED
    BY <1>1, <1>4, <2>3, <2>4, <2>5 DEF TreeTypeOK, QueueOK, treeVars, IoFlushMemtable
<1> QED
  BY <1>2, <1>3, <1>4

LEMMA TreeStep == TreeTypeOK /\ [Next]_vars => TreeTypeOK'
<1> SUFFICES ASSUME TreeTypeOK, [Next]_vars PROVE TreeTypeOK'
  OBVIOUS
<1>1. CASE Next
  BY <1>1, BatchType, IssueFlushType, DrainType, ConsumerType DEF Next
<1>2. CASE UNCHANGED vars
  BY <1>2 DEF TreeTypeOK, vars, Pending
<1> QED
  BY <1>1, <1>2

\* The tree, the channels and the WAL keep their types.
THEOREM TreeInvariance == Spec => []TreeTypeOK
<1>1. Init => TreeTypeOK
  BY InitTree
<1>2. TreeTypeOK /\ [Next]_vars => TreeTypeOK'
  BY TreeStep
<1> QED
  BY <1>1, <1>2, PTL DEF Spec

-----------------------------------------------------------------------------
(* Acknowledged records are synced.                                          *)

\* A sync is queued behind the record.
Covered(r) ==
  \E j \in DOMAIN io_rx : /\ io_rx[j] = FsyncWal
                         /\ \A i \in DOMAIN io_rx : io_rx[i] = AppendWal(r) => i < j

Safe(r) ==
  \/ \E i \in 1 .. synced : wal[i] = r
  \/ Covered(r)
  \/ r \in history.unlogged \/ history.fsyncFailed \/ io = "down"

\* Which records the WAL has seen or will see.
Logged(r) == r \in history.unlogged \cup Range(wal) \/ AppendWal(r) \in Pending

LEMMA LogOrderParts ==
  /\ LogOrder <=> /\ \A r \in Held : r.key.sequence_num < counters.seq_num
                  /\ io = "up" => \A r \in Held : Logged(r)
                  /\ \A r \in history.acked : Safe(r)
  /\ LogOrder' <=> /\ \A r \in Held' : r.key.sequence_num < counters'.seq_num
                   /\ io' = "up" => \A r \in Held' : Logged(r)'
                   /\ \A r \in history'.acked : Safe(r)'
BY DEF LogOrder, Logged, Safe, Covered, AckedSynced

LEMMA SendCovers ==
  ASSUME QueueOK, NEW ev, io_rx' = Append(io_rx, ev)
  PROVE  /\ Pending' = Pending \cup {ev}
         /\ \A r : Covered(r) /\ ev # AppendWal(r) => Covered(r)'
         /\ \A r : ev = FsyncWal => Covered(r)'
<1>1. /\ Len(io_rx) \in Nat
      /\ DOMAIN io_rx = 1 .. Len(io_rx) /\ DOMAIN io_rx' = 1 .. (Len(io_rx) + 1)
      /\ io_rx'[Len(io_rx) + 1] = ev
      /\ \A i \in DOMAIN io_rx : io_rx'[i] = io_rx[i]
      /\ Range(io_rx') = Range(io_rx) \cup {ev}
  BY AppendOwn DEF QueueOK, Pending
<1>2. ASSUME NEW r, Covered(r), ev # AppendWal(r)
      PROVE  Covered(r)'
  <2>1. PICK j \in DOMAIN io_rx :
          io_rx[j] = FsyncWal /\ \A i \in DOMAIN io_rx : io_rx[i] = AppendWal(r) => i < j
    BY <1>2 DEF Covered
  <2>2. ASSUME NEW i \in DOMAIN io_rx', io_rx'[i] = AppendWal(r)
        PROVE  i < j
    <3>1. i \in DOMAIN io_rx
      BY <1>1, <1>2, <2>2
    <3> QED
      BY <1>1, <2>1, <2>2, <3>1
  <2>3. j \in DOMAIN io_rx' /\ io_rx'[j] = FsyncWal
    BY <1>1, <2>1
  <2>4. AppendWal(r)' = AppendWal(r) /\ FsyncWal' = FsyncWal
    BY DEF AppendWal, FsyncWal
  <2> QED
    BY <2>2, <2>3, <2>4 DEF Covered
<1>3. ASSUME NEW r, ev = FsyncWal
      PROVE  Covered(r)'
  <2> DEFINE j == Len(io_rx) + 1
  <2>1. AppendWal(r) # FsyncWal
    BY EventFacts
  <2>2. j \in DOMAIN io_rx' /\ io_rx'[j] = FsyncWal
    BY <1>1, <1>3
  <2>3. ASSUME NEW i \in DOMAIN io_rx', io_rx'[i] = AppendWal(r)
        PROVE  i < j
    BY <1>1, <1>3, <2>1, <2>3
  <2> HIDE DEF j
  <2>4. AppendWal(r)' = AppendWal(r) /\ FsyncWal' = FsyncWal
    BY DEF AppendWal, FsyncWal
  <2> QED
    BY <2>2, <2>3, <2>4 DEF Covered
<1> QED
  BY <1>1, <1>2, <1>3 DEF Pending

LEMMA ReceiveCovers ==
  ASSUME QueueOK, io_rx # <<>>, io_rx' = Tail(io_rx)
  PROVE  /\ Head(io_rx) \in Pending
         /\ \A ev \in Pending : ev = Head(io_rx) \/ ev \in Pending'
         /\ \A r : Covered(r) =>
              Covered(r)' \/ (Head(io_rx) = FsyncWal /\ AppendWal(r) \notin Pending)
<1>1. /\ Len(io_rx) \in Nat \ {0}
      /\ DOMAIN io_rx = 1 .. Len(io_rx) /\ Head(io_rx) = io_rx[1]
      /\ DOMAIN io_rx' = 1 .. (Len(io_rx) - 1)
      /\ \A i \in DOMAIN io_rx' : i + 1 \in DOMAIN io_rx /\ io_rx'[i] = io_rx[i + 1]
      /\ \A i \in DOMAIN io_rx : i # 1 => i - 1 \in DOMAIN io_rx' /\ io_rx'[i - 1] = io_rx[i]
  BY TailOwn DEF QueueOK, Pending
<1>2. Head(io_rx) \in Pending
  BY <1>1 DEF Pending, Range
<1>3. \A ev \in Pending : ev = Head(io_rx) \/ ev \in Pending'
  <2> SUFFICES ASSUME NEW i \in DOMAIN io_rx, io_rx[i] # Head(io_rx)
               PROVE  io_rx[i] \in Pending'
    BY DEF Pending, Range
  <2>1. i - 1 \in DOMAIN io_rx' /\ io_rx'[i - 1] = io_rx[i]
    BY <1>1
  <2> QED
    BY <2>1, Zenon DEF Pending, Range
<1>4. ASSUME NEW r, Covered(r)
      PROVE  Covered(r)' \/ (Head(io_rx) = FsyncWal /\ AppendWal(r) \notin Pending)
  <2>1. PICK j \in DOMAIN io_rx :
          io_rx[j] = FsyncWal /\ \A i \in DOMAIN io_rx : io_rx[i] = AppendWal(r) => i < j
    BY <1>4 DEF Covered
  <2>2. CASE j = 1
    <3>1. \A i \in DOMAIN io_rx : io_rx[i] # AppendWal(r)
      BY <1>1, <2>1, <2>2
    <3>2. AppendWal(r) \notin Pending
      BY <3>1, Zenon DEF Pending, Range
    <3> QED
      BY <1>1, <2>1, <2>2, <3>2
  <2>3. CASE j # 1
    <3> DEFINE k == j - 1
    <3>1. k \in DOMAIN io_rx' /\ io_rx'[k] = FsyncWal
      BY <1>1, <2>1, <2>3
    <3>2. ASSUME NEW i \in DOMAIN io_rx', io_rx'[i] = AppendWal(r)
          PROVE  i < k
      <4>1. i + 1 \in DOMAIN io_rx /\ io_rx[i + 1] = AppendWal(r)
        BY <1>1, <3>2
      <4>2. i + 1 < j
        BY <2>1, <4>1
      <4> QED
        BY <1>1, <4>2
    <3> HIDE DEF k
    <3>3. AppendWal(r)' = AppendWal(r) /\ FsyncWal' = FsyncWal
      BY DEF AppendWal, FsyncWal
    <3> QED
      BY <3>1, <3>2, <3>3 DEF Covered
  <2> QED
    BY <2>2, <2>3
<1> QED
  BY <1>2, <1>3, <1>4

\* Nothing the log is about changes, except that an event that is not the
\* append of a held record may have been sent.
LogStays ==
  /\ Held' \subseteq Held /\ counters'.seq_num = counters.seq_num
  /\ history'.acked = history.acked /\ history'.unlogged = history.unlogged
  /\ history'.fsyncFailed = history.fsyncFailed
  /\ UNCHANGED <<io, wal, synced>>
  /\ \/ io_rx' = io_rx
     \/ \E ev : io_rx' = Append(io_rx, ev) /\ \A r : ev # AppendWal(r)

LEMMA LogKept ==
  ASSUME TreeTypeOK, LogOrder, LogStays
  PROVE  LogOrder'
<1>1. QueueOK
  BY DEF TreeTypeOK, QueueOK
<1>2. /\ Pending \subseteq Pending'
      /\ \A r : Covered(r) => Covered(r)'
  <2>1. CASE io_rx' = io_rx
    BY <2>1 DEF Pending, Covered, AppendWal, FsyncWal
  <2>2. ASSUME NEW ev, io_rx' = Append(io_rx, ev), \A r : ev # AppendWal(r)
        PROVE  Pending \subseteq Pending' /\ \A r : Covered(r) => Covered(r)'
    BY <1>1, <2>2, SendCovers
  <2> QED
    BY <2>1, <2>2 DEF LogStays
<1>3. \A r \in Held' : r.key.sequence_num < counters'.seq_num
  BY LogOrderParts DEF LogStays
<1>4. io' = "up" => \A r \in Held' : Logged(r)'
  <2> SUFFICES ASSUME io' = "up", NEW r \in Held' PROVE Logged(r)'
    OBVIOUS
  <2>1. Logged(r)
    BY LogOrderParts DEF LogStays
  <2>2. wal' = wal /\ history'.unlogged = history.unlogged /\ AppendWal(r)' = AppendWal(r)
    BY DEF LogStays, AppendWal
  <2> QED
    BY <1>2, <2>1, <2>2 DEF Logged
<1>5. \A r \in history'.acked : Safe(r)'
  <2> SUFFICES ASSUME NEW r \in history'.acked PROVE Safe(r)'
    OBVIOUS
  <2>1. Safe(r)
    BY LogOrderParts DEF LogStays
  <2> QED
    BY <1>2, <2>1 DEF Safe, LogStays
<1> QED
  BY <1>3, <1>4, <1>5, LogOrderParts

\* A payload's record is new: it can disturb no record that is held.
LEMMA PayloadLog ==
  ASSUME TreeTypeOK, LogOrder, NEW p \in Payloads, NEW time \in Clock, AppendPayload(p, time)
  PROVE  LogOrder'
<1>1. /\ counters'.seq_num = counters.seq_num + 1 /\ call.pc = "append"
      /\ UNCHANGED <<tables, ioVars>>
  BY PayloadTaken
<1>2. PICK r0 : Taken(r0)
  BY PayloadTaken
<1>3. /\ r0 \in LogRecord /\ r0.key.sequence_num = counters.seq_num /\ counters.seq_num \in Nat
      /\ UNCHANGED <<io, wal, synced>> /\ memtable \in Memtable /\ QueueOK
      /\ history \in History
  BY <1>1, <1>2 DEF Taken, TreeTypeOK, ioVars, QueueOK
<1>4. /\ history'.acked = history.acked /\ history'.unlogged = history.unlogged
      /\ history'.fsyncFailed = history.fsyncFailed
      /\ history'.batch \in {history.batch, history.batch \cup {r0}}
  BY <1>2, <1>3, PlaceType DEF Taken
<1>5. \/ io = "down" /\ Held' \subseteq Held
      \/ /\ io_rx' = Append(io_rx, AppendWal(r0))
         /\ Held' \subseteq Held \cup {r0}
  <2>1. CASE io = "down" /\ call' = Idle /\ UNCHANGED <<io_rx, history>>
    BY <2>1 DEF Held, Idle
  <2>2. CASE /\ io_rx' = Append(io_rx, AppendWal(r0))
             /\ \/ call' = call
                \/ \E rejected \in {<<>>, <<r0>>} :
                     call' = [pc |-> "flush", rejected |-> rejected]
    <3>1. call'.pc = "flush" => Range(call'.rejected) \subseteq {r0}
      <4>1. CASE call' = call
        BY <1>1, <4>1
      <4>2. ASSUME NEW rejected \in {<<>>, <<r0>>},
                   call' = [pc |-> "flush", rejected |-> rejected]
            PROVE  Range(call'.rejected) \subseteq {r0}
        BY <4>2 DEF Range
      <4> QED
        BY <2>2, <4>1, <4>2
    <3> QED
      BY <1>4, <2>2, <3>1 DEF Held
  <2> QED
    BY <1>2, <2>1, <2>2 DEF Taken
<1>6. \A r \in Held : r.key.sequence_num < counters.seq_num
  BY LogOrderParts
<1>7. ASSUME NEW r \in Held PROVE AppendWal(r) # AppendWal(r0) /\ r # r0
  BY <1>3, <1>6, EventFacts
<1>8. ASSUME NEW r \in Held' PROVE r.key.sequence_num < counters'.seq_num
  <2>1. r \in Held => r.key.sequence_num \in Nat
    <3>1. r \in Held => r \in LogRecord
      BY <1>1, <1>3 DEF Held, History
    <3> QED
      BY <3>1 DEF LogRecord, Key
  <2> QED
    BY <1>1, <1>3, <1>5, <1>6, <2>1
<1>9. CASE io = "down"
  BY <1>3, <1>8, <1>9, LogOrderParts DEF Safe
<1>10. CASE io_rx' = Append(io_rx, AppendWal(r0)) /\ Held' \subseteq Held \cup {r0}
  <2>1. /\ Pending' = Pending \cup {AppendWal(r0)}
        /\ \A r : Covered(r) /\ AppendWal(r0) # AppendWal(r) => Covered(r)'
    BY <1>3, <1>10, SendCovers
  <2>2. io' = "up" => \A r \in Held' : Logged(r)'
    <3> SUFFICES ASSUME io' = "up", NEW r \in Held' PROVE Logged(r)'
      OBVIOUS
    <3>1. Logged(r) \/ r = r0
      BY <1>3, <1>10, LogOrderParts
    <3>2. AppendWal(r)' = AppendWal(r)
      BY DEF AppendWal
    <3> QED
      BY <1>3, <1>4, <2>1, <3>1, <3>2 DEF Logged
  <2>3. \A r \in history'.acked : Safe(r)'
    <3> SUFFICES ASSUME NEW r \in history.acked PROVE Safe(r)'
      BY <1>4
    <3>1. Safe(r) /\ r \in Held
      BY LogOrderParts DEF Held
    <3>2. Covered(r) => Covered(r)'
      BY <1>7, <2>1, <3>1
    <3> QED
      BY <1>3, <1>4, <3>1, <3>2 DEF Safe
  <2> QED
    BY <1>8, <2>2, <2>3, LogOrderParts
<1> QED
  BY <1>5, <1>9, <1>10

\* The other steps of the tree, but for the end of a batch.
LEMMA TreeLog ==
  ASSUME TreeTypeOK, LogOrder,
         \/ BeginBatch \/ IssueFlush \/ DrainSstQueue \/ EndDrain \/ UNCHANGED vars
         \/ \E p \in Payloads : RefusePayload(p) \/ StreamPanics(p)
  PROVE  LogOrder'
<1>0. history \in History /\ counters \in [memtable_id : Nat, stream_id : Nat, seq_num : Nat]
  BY DEF TreeTypeOK
<1> SUFFICES LogStays
  BY LogKept
<1>1. CASE BeginBatch
  <2>1. /\ history'.batch = {} /\ history'.acked = history.acked
        /\ history'.unlogged = history.unlogged /\ history'.fsyncFailed = history.fsyncFailed
    BY <1>0, <1>1 DEF BeginBatch, History
  <2>2. call'.pc # "flush"
    BY <1>1 DEF BeginBatch
  <2>3. Held' \subseteq Held
    BY <2>1, <2>2 DEF Held
  <2> QED
    BY <1>1, <2>1, <2>3 DEF BeginBatch, LogStays, ioVars
<1>2. CASE IssueFlush
  <2>1. /\ counters'.seq_num = counters.seq_num
        /\ call.pc = "flush" /\ call.rejected \in Seq(LogRecord)
        /\ \/ io = "down" /\ call' = Idle /\ UNCHANGED <<io_rx, history>>
           \/ /\ io_rx' = Append(io_rx, FlushMemtable(memtable, stream_buffer))
              /\ call' = [pc |-> "append"]
              /\ \/ call.rejected = <<>> /\ history' = history
                 \/ /\ call.rejected # <<>> /\ call.rejected[1] \in LogRecord
                    /\ history' = Place(call.rejected[1], with_size_limit(counters.memtable_id))
    BY <1>2, FlushIssued
  <2>2. call'.pc # "flush"
    BY <2>1 DEF Idle
  <2>3. with_size_limit(counters.memtable_id) \in Memtable
    BY <1>0 DEF with_size_limit, Memtable
  <2>4. /\ history'.acked = history.acked /\ history'.unlogged = history.unlogged
        /\ history'.fsyncFailed = history.fsyncFailed
        /\ \/ history'.batch = history.batch
           \/ /\ call.rejected # <<>>
              /\ history'.batch = history.batch \cup {call.rejected[1]}
    BY <2>1, <2>3, PlaceType
  <2>5. call.rejected # <<>> => call.rejected[1] \in Range(call.rejected)
    BY <2>1 DEF Range
  <2>6. Held' \subseteq Held
    BY <2>1, <2>2, <2>4, <2>5 DEF Held
  <2>7. \A r : FlushMemtable(memtable, stream_buffer) # AppendWal(r)
    BY EventFacts
  <2>8. io_rx' = io_rx \/ io_rx' = Append(io_rx, FlushMemtable(memtable, stream_buffer))
    BY <2>1
  <2>9. UNCHANGED <<io, wal, synced>>
    BY <1>2 DEF IssueFlush, ioVars
  <2> QED
    BY <2>1, <2>4, <2>6, <2>7, <2>8, <2>9 DEF LogStays
<1>3. CASE DrainSstQueue
  <2>1. call'.pc # "flush"
    BY <1>3 DEF DrainSstQueue, Draining
  <2>2. Held' \subseteq Held
    BY <1>3, <2>1 DEF Held, DrainSstQueue
  <2> QED
    BY <1>3, <2>2 DEF DrainSstQueue, LogStays
<1>4. CASE EndDrain
  <2>1. call'.pc # "flush"
    BY <1>4 DEF EndDrain, Idle
  <2>2. Held' \subseteq Held
    BY <1>4, <2>1 DEF Held, EndDrain
  <2> QED
    BY <1>4, <2>2 DEF EndDrain, LogStays, ioVars
<1>5. ASSUME NEW p \in Payloads, RefusePayload(p)
      PROVE  LogStays
  <2>1. call'.pc # "flush"
    BY <1>5 DEF RefusePayload, Idle
  <2>2. Held' \subseteq Held
    BY <1>5, <2>1 DEF Held, RefusePayload
  <2> QED
    BY <1>5, <2>2 DEF RefusePayload, LogStays, ioVars
<1>6. ASSUME NEW p \in Payloads, StreamPanics(p)
      PROVE  LogStays
  <2>1. call'.pc # "flush"
    BY <1>6 DEF StreamPanics
  <2>2. Held' \subseteq Held
    BY <1>6, <2>1 DEF Held, StreamPanics
  <2>3. counters'.seq_num = counters.seq_num
    BY <1>0, <1>6 DEF StreamPanics
  <2> QED
    BY <1>6, <2>2, <2>3 DEF StreamPanics, LogStays, ioVars
<1>7. CASE UNCHANGED vars
  BY <1>7 DEF vars, LogStays, Held
<1> QED
  BY <1>1, <1>2, <1>3, <1>4, <1>5, <1>6, <1>7

LEMMA EndBatchLog ==
  ASSUME TreeTypeOK, LogOrder, EndBatch
  PROVE  LogOrder'
<1>0. history \in History /\ QueueOK
  BY DEF TreeTypeOK, QueueOK
<1>1. /\ UNCHANGED <<counters, io, wal, synced>> /\ call.pc = "append"
  BY DEF EndBatch, ioVars
<1>2. call'.pc # "flush"
  BY DEF EndBatch, Idle
<1>3. CASE io = "down"
  <2>1. UNCHANGED <<io_rx, history>>
    BY <1>3 DEF EndBatch
  <2>2. Held' \subseteq Held
    BY <1>2, <2>1 DEF Held
  <2> QED
    BY <1>1, <2>1, <2>2, LogKept DEF LogStays
<1>4. CASE io # "down"
  <2>1. /\ io_rx' = Append(io_rx, FsyncWal)
        /\ history' = [history EXCEPT !.acked = history.acked \cup history.batch]
    BY <1>4, Zenon DEF EndBatch, send
  <2>2. /\ history'.acked = history.acked \cup history.batch
        /\ history'.batch = history.batch /\ history'.unlogged = history.unlogged
    BY <1>0, <2>1 DEF History
  <2>3. Held' \subseteq Held
    BY <1>2, <2>2 DEF Held
  <2>4. Pending' = Pending \cup {FsyncWal} /\ \A r : Covered(r)'
    BY <1>0, <2>1, SendCovers
  <2>5. \A r \in Held' : r.key.sequence_num < counters'.seq_num
    BY <1>1, <2>3, LogOrderParts
  <2>6. io' = "up" => \A r \in Held' : Logged(r)'
    <3> SUFFICES ASSUME io' = "up", NEW r \in Held' PROVE Logged(r)'
      OBVIOUS
    <3>1. Logged(r)
      BY <1>1, <2>3, LogOrderParts
    <3>2. AppendWal(r)' = AppendWal(r)
      BY DEF AppendWal
    <3> QED
      BY <1>1, <2>2, <2>4, <3>1, <3>2 DEF Logged
  <2>7. \A r : Safe(r)'
    BY <2>4 DEF Safe
  <2> QED
    BY <2>5, <2>6, <2>7, LogOrderParts
<1> QED
  BY <1>3, <1>4

\* The consumer takes an event that is not a sync.
LEMMA ConsumerLog ==
  ASSUME TreeTypeOK, LogOrder, IoAppendWal \/ IoFlushMemtable
  PROVE  LogOrder'
<1>0. history \in History /\ QueueOK /\ wal \in Seq(LogRecord) /\ synced \in Nat
      /\ synced <= Len(wal)
  BY DEF TreeTypeOK, QueueOK
<1>1. /\ UNCHANGED treeVars /\ io = "up" /\ io_rx # <<>> /\ io_rx' = Tail(io_rx)
      /\ Head(io_rx).ev \in {"AppendWal", "FlushMemtable"}
  BY EventTaken DEF IoAppendWal, IoFlushMemtable
<1>2. /\ \A ev \in Pending : ev = Head(io_rx) \/ ev \in Pending'
      /\ \A r : Covered(r) => Covered(r)'
  BY <1>0, <1>1, ReceiveCovers, EventFacts
<1>3. /\ history'.acked = history.acked /\ history'.batch = history.batch
      /\ history'.fsyncFailed = history.fsyncFailed
      /\ history.unlogged \subseteq history'.unlogged
      /\ Range(wal) \subseteq Range(wal') /\ \A i \in 1 .. synced : wal'[i] = wal[i]
      /\ synced' = synced
      /\ \A r : Head(io_rx) = AppendWal(r) => r \in history'.unlogged \cup Range(wal')
  <2>1. CASE IoAppendWal
    <3>1. PICK r0 \in LogRecord :
            /\ Head(io_rx) = AppendWal(r0)
            /\ \/ wal' = Append(wal, r0) /\ UNCHANGED history
               \/ /\ history' = [history EXCEPT !.unlogged = history.unlogged \cup {r0}]
                  /\ UNCHANGED wal
      BY <2>1, WalAppended
    <3>2. synced' = synced
      BY <2>1 DEF IoAppendWal
    <3>3. \A r : Head(io_rx) = AppendWal(r) => r = r0
      BY <3>1, EventFacts
    <3>4. CASE wal' = Append(wal, r0) /\ UNCHANGED history
      <4>1. /\ DOMAIN wal = 1 .. Len(wal) /\ DOMAIN wal' = 1 .. (Len(wal) + 1)
            /\ wal'[Len(wal) + 1] = r0 /\ \A i \in 1 .. Len(wal) : wal'[i] = wal[i]
        BY <1>0, <3>4
      <4>2. Len(wal) \in Nat
        BY <1>0
      <4>3. Range(wal) \subseteq Range(wal') /\ r0 \in Range(wal')
        BY <4>1, <4>2 DEF Range
      <4>4. \A i \in 1 .. synced : wal'[i] = wal[i]
        BY <1>0, <4>1, <4>2
      <4> QED
        BY <3>2, <3>3, <3>4, <4>3, <4>4
    <3>5. CASE /\ history' = [history EXCEPT !.unlogged = history.unlogged \cup {r0}]
               /\ UNCHANGED wal
      <4>1. /\ history'.acked = history.acked /\ history'.batch = history.batch
            /\ history'.fsyncFailed = history.fsyncFailed
            /\ history'.unlogged = history.unlogged \cup {r0}
        BY <1>0, <3>5 DEF History
      <4> QED
        BY <3>2, <3>3, <3>5, <4>1
    <3> QED
      BY <3>1, <3>4, <3>5
  <2>2. CASE IoFlushMemtable
    <3>1. PICK mt \in Memtable :
            /\ IsFlush(Head(io_rx))
            /\ \/ UNCHANGED history
               \/ history' = [history EXCEPT !.failed = history.failed \cup {mt.id}]
      BY <2>2, MemtableFlushed
    <3>2. UNCHANGED <<wal, synced>>
      BY <2>2 DEF IoFlushMemtable
    <3>3. \A r : Head(io_rx) # AppendWal(r)
      BY <3>1, EventFacts DEF IsFlush
    <3>4. /\ history'.acked = history.acked /\ history'.batch = history.batch
          /\ history'.fsyncFailed = history.fsyncFailed /\ history'.unlogged = history.unlogged
      BY <1>0, <3>1 DEF History
    <3> QED
      BY <3>2, <3>3, <3>4
  <2> QED
    BY <2>1, <2>2
<1>4. Held' = Held /\ counters' = counters
  BY <1>1, <1>3 DEF Held, treeVars
<1>5. \A r \in Held' : r.key.sequence_num < counters'.seq_num
  BY <1>4, LogOrderParts
<1>6. \A r \in Held' : Logged(r)'
  <2> SUFFICES ASSUME NEW r \in Held' PROVE Logged(r)'
    OBVIOUS
  <2>1. Logged(r)
    BY <1>1, <1>4, LogOrderParts
  <2>2. AppendWal(r)' = AppendWal(r)
    BY DEF AppendWal
  <2> QED
    BY <1>2, <1>3, <2>1, <2>2 DEF Logged
<1>7. \A r \in history'.acked : Safe(r)'
  <2> SUFFICES ASSUME NEW r \in history.acked PROVE Safe(r)'
    BY <1>3
  <2>1. Safe(r)
    BY LogOrderParts
  <2> QED
    BY <1>1, <1>2, <1>3, <2>1 DEF Safe
<1> QED
  BY <1>5, <1>6, <1>7, LogOrderParts

\* A sync at the head: every record it covers is in the WAL or was refused.
LEMMA FsyncLog ==
  ASSUME TreeTypeOK, LogOrder, IoFsyncWal
  PROVE  LogOrder'
<1>0. history \in History /\ QueueOK /\ wal \in Seq(LogRecord) /\ synced \in Nat
      /\ synced <= Len(wal)
  BY DEF TreeTypeOK, QueueOK
<1>1. /\ UNCHANGED treeVars /\ io = "up" /\ io_rx # <<>> /\ io_rx' = Tail(io_rx)
      /\ Head(io_rx).ev = "FsyncWal" /\ wal' = wal
  BY EventTaken DEF IoFsyncWal
<1>2. /\ \A ev \in Pending : ev = Head(io_rx) \/ ev \in Pending'
      /\ \A r : Covered(r) => Covered(r)' \/ AppendWal(r) \notin Pending
  BY <1>0, <1>1, ReceiveCovers
<1>3. /\ history'.acked = history.acked /\ history'.batch = history.batch
      /\ history'.unlogged = history.unlogged
      /\ io' = "down" \/ synced' = Len(wal) \/ history'.fsyncFailed
  <2>1. \/ (io' = "down" \/ synced' = Len(wal)) /\ UNCHANGED history
        \/ history' = [history EXCEPT !.fsyncFailed = TRUE]
    BY DEF IoFsyncWal
  <2>2. CASE history' = [history EXCEPT !.fsyncFailed = TRUE]
    BY <1>0, <2>2 DEF History
  <2> QED
    BY <2>1, <2>2
<1>4. Held' = Held /\ counters' = counters
  BY <1>1, <1>3 DEF Held, treeVars
<1>5. \A r \in Held' : r.key.sequence_num < counters'.seq_num
  BY <1>4, LogOrderParts
<1>6. \A r \in Held' : Logged(r)'
  <2> SUFFICES ASSUME NEW r \in Held' PROVE Logged(r)'
    OBVIOUS
  <2>1. Logged(r)
    BY <1>1, <1>4, LogOrderParts
  <2>2. AppendWal(r)' = AppendWal(r) /\ AppendWal(r) # Head(io_rx)
    BY <1>1, EventFacts DEF AppendWal
  <2> QED
    BY <1>1, <1>2, <1>3, <2>1, <2>2 DEF Logged
<1>7. \A r \in history'.acked : Safe(r)'
  <2> SUFFICES ASSUME NEW r \in history.acked PROVE Safe(r)'
    BY <1>3
  <2>1. Safe(r) /\ Logged(r)
    BY <1>1, LogOrderParts DEF Held
  <2>2. CASE io' = "down" \/ history'.fsyncFailed
    BY <2>2 DEF Safe
  <2>3. CASE synced' = Len(wal)
    <3>1. r \in Range(wal) => \E i \in 1 .. synced' : wal'[i] = r
      BY <1>0, <1>1, <2>3 DEF Range
    <3>2. (\E i \in 1 .. synced : wal[i] = r) => r \in Range(wal)
      BY <1>0 DEF Range
    <3>3. CASE history.fsyncFailed
      <4>1. history'.fsyncFailed
        <5>1. \/ UNCHANGED history
              \/ history' = [history EXCEPT !.fsyncFailed = TRUE]
          BY DEF IoFsyncWal
        <5> QED
          BY <1>0, <3>3, <5>1 DEF History
      <4> QED
        BY <4>1 DEF Safe
    <3>4. CASE ~history.fsyncFailed
      <4>1. r \in Range(wal) \/ Covered(r)' \/ r \in history.unlogged
        BY <1>1, <1>2, <2>1, <3>2, <3>4 DEF Safe, Logged
      <4> QED
        BY <1>3, <3>1, <4>1 DEF Safe
    <3> QED
      BY <3>3, <3>4
  <2> QED
    BY <1>3, <2>2, <2>3
<1> QED
  BY <1>5, <1>6, <1>7, LogOrderParts

(* What append_batch acknowledges is synced, or a sync is queued behind it,  *)
(* unless I/O failed: in every state, whatever the payloads, the clock and   *)
(* the speed of the consumer.                                                *)
THEOREM AckedAreSynced == Spec => []AckedSynced
<1>1. Init => TreeTypeOK /\ LogOrder
  <2> SUFFICES ASSUME Init PROVE LogOrder
    BY InitTree
  <2>1. history.acked = {} /\ history.batch = {}
    BY DEF Init
  <2>2. call.pc # "flush"
    BY DEF Init, Idle
  <2>3. Held = {}
    BY <2>1, <2>2 DEF Held
  <2> QED
    BY <2>1, <2>3, LogOrderParts
<1>2. TreeTypeOK /\ LogOrder /\ [Next]_vars => (TreeTypeOK /\ LogOrder)'
  <2> SUFFICES ASSUME TreeTypeOK, LogOrder, [Next]_vars PROVE LogOrder'
    BY TreeStep
  <2> QED
    BY PayloadLog, TreeLog, EndBatchLog, ConsumerLog, FsyncLog DEF Next
<1>3. LogOrder => AckedSynced
  BY DEF LogOrder
<1> QED
  BY <1>1, <1>2, <1>3, PTL DEF Spec

-----------------------------------------------------------------------------
(* Frozen memtables are accounted for.                                       *)

Accounted(mt) ==
  \/ \E ev \in Pending : IsFlush(ev) /\ ev.memtable = mt
  \/ \E i \in DOMAIN flush_results : flush_results[i].id = mt.id
  \/ \E id \in history.failed : id <= mt.id

LEMMA FrozenParts ==
  /\ FrozenAccounted <=> (io = "up" => \A mt \in Frozen : Accounted(mt))
  /\ FrozenAccounted' <=> (io' = "up" => \A mt \in Frozen' : Accounted(mt)')
BY DEF FrozenAccounted, Accounted, IsFlush

\* The ids the order is about are numbers.
LEMMA Ids ==
  ASSUME TreeTypeOK
  PROVE  /\ memtable.id \in Nat /\ counters.memtable_id \in Nat
         /\ Len(frozen_memtables) \in Nat
         /\ DOMAIN frozen_memtables = 1 .. Len(frozen_memtables)
         /\ \A i \in DOMAIN frozen_memtables : frozen_memtables[i].id \in Nat
         /\ Len(flush_results) \in Nat /\ DOMAIN flush_results = 1 .. Len(flush_results)
         /\ \A i \in DOMAIN flush_results : flush_results[i].id \in Nat
         /\ Len(io_rx) \in Nat /\ DOMAIN io_rx = 1 .. Len(io_rx)
         /\ \A i \in DOMAIN io_rx : IsFlush(io_rx[i]) => io_rx[i].memtable.id \in Nat
<1>1. /\ memtable \in Memtable /\ frozen_memtables \in Seq(Memtable)
      /\ counters \in [memtable_id : Nat, stream_id : Nat, seq_num : Nat]
      /\ flush_results \in Seq(Range(flush_results)) /\ io_rx \in Seq(Pending)
      /\ \A i \in DOMAIN io_rx : EventOK(io_rx[i])
      /\ \A i \in DOMAIN flush_results : flush_results[i].id \in Nat
  BY DEF TreeTypeOK
<1>2. \A i \in DOMAIN frozen_memtables : frozen_memtables[i] \in Memtable
  BY <1>1
<1>3. ASSUME NEW i \in DOMAIN io_rx, IsFlush(io_rx[i])
      PROVE  io_rx[i].memtable.id \in Nat
  <2>1. io_rx[i] \notin [ev : {"AppendWal"}, rec : LogRecord] /\ io_rx[i] # FsyncWal
    BY <1>3, EventFacts DEF IsFlush
  <2>2. io_rx[i].memtable \in Memtable
    BY <1>1, <2>1 DEF EventOK
  <2> QED
    BY <2>2 DEF Memtable
<1>4. /\ Len(frozen_memtables) \in Nat
      /\ DOMAIN frozen_memtables = 1 .. Len(frozen_memtables)
      /\ Len(flush_results) \in Nat /\ DOMAIN flush_results = 1 .. Len(flush_results)
      /\ Len(io_rx) \in Nat /\ DOMAIN io_rx = 1 .. Len(io_rx)
  BY <1>1
<1> QED
  BY <1>1, <1>2, <1>3, <1>4 DEF Memtable

\* The flushes queued stay queued, in their order.
QueueStays ==
  /\ \E d \in {0, 1} : \A j \in DOMAIN io_rx' :
       IsFlush(io_rx'[j]) => j + d \in DOMAIN io_rx /\ io_rx'[j] = io_rx[j + d]
  /\ \A ev \in Pending : IsFlush(ev) => ev \in Pending'

LEMMA SendStays ==
  ASSUME QueueOK, NEW ev, ~IsFlush(ev), io_rx' \in {io_rx, Append(io_rx, ev)}
  PROVE  QueueStays
<1>1. CASE io_rx' = io_rx
  <2>1. io_rx \in Seq(Pending)
    BY DEF QueueOK
  <2>2. \A j \in DOMAIN io_rx : j + 0 = j
    BY <2>1
  <2> QED
    BY <1>1, <2>2 DEF QueueStays, Pending
<1>2. CASE io_rx' = Append(io_rx, ev)
  <2>1. /\ Len(io_rx) \in Nat
        /\ DOMAIN io_rx = 1 .. Len(io_rx) /\ DOMAIN io_rx' = 1 .. (Len(io_rx) + 1)
        /\ io_rx'[Len(io_rx) + 1] = ev
        /\ \A i \in DOMAIN io_rx : io_rx'[i] = io_rx[i]
        /\ Range(io_rx') = Range(io_rx) \cup {ev}
    BY <1>2, AppendOwn DEF QueueOK, Pending
  <2>2. ASSUME NEW j \in DOMAIN io_rx', IsFlush(io_rx'[j])
        PROVE  j + 0 \in DOMAIN io_rx /\ io_rx'[j] = io_rx[j + 0]
    <3>1. j # Len(io_rx) + 1
      BY <2>1, <2>2
    <3> QED
      BY <2>1, <3>1
  <2> QED
    BY <2>1, <2>2 DEF QueueStays, Pending
<1> QED
  BY <1>1, <1>2

LEMMA ReceiveStays ==
  ASSUME QueueOK, io_rx # <<>>, io_rx' = Tail(io_rx), ~IsFlush(Head(io_rx))
  PROVE  QueueStays
<1>1. \A i \in DOMAIN io_rx' : i + 1 \in DOMAIN io_rx /\ io_rx'[i] = io_rx[i + 1]
  BY TailOwn DEF QueueOK, Pending
<1>2. \A ev \in Pending : ev = Head(io_rx) \/ ev \in Pending'
  BY ReceiveCovers
<1> QED
  BY <1>1, <1>2 DEF QueueStays

\* Steps that freeze, flush and drain nothing.
FlushesStay ==
  /\ memtable'.id = memtable.id /\ counters'.memtable_id = counters.memtable_id
  /\ UNCHANGED <<frozen_memtables, flush_results>> /\ history'.failed = history.failed
  /\ io' = "up" => io = "up"
  /\ QueueStays

LEMMA FlushesKept ==
  ASSUME TreeTypeOK, TreeTypeOK', FlushOrder, FlushesStay
  PROVE  FlushOrder'
<1>1. /\ memtable'.id < counters'.memtable_id
      /\ \A i \in DOMAIN frozen_memtables' : frozen_memtables'[i].id < memtable'.id
      /\ \A i, j \in DOMAIN frozen_memtables' :
           i < j => frozen_memtables'[i].id < frozen_memtables'[j].id
      /\ \A i, j \in DOMAIN flush_results' : i < j => flush_results'[i].id < flush_results'[j].id
      /\ \A i \in DOMAIN flush_results' : flush_results'[i].id < memtable'.id
  BY DEF FlushesStay, FlushOrder
<1>2. PICK d \in {0, 1} : \A j \in DOMAIN io_rx' :
        IsFlush(io_rx'[j]) => j + d \in DOMAIN io_rx /\ io_rx'[j] = io_rx[j + d]
  BY DEF FlushesStay, QueueStays
<1>3. ASSUME NEW j \in DOMAIN io_rx', IsFlush(io_rx'[j])
      PROVE  /\ io_rx'[j].memtable.id < memtable'.id
             /\ \A i \in DOMAIN flush_results' : flush_results'[i].id < io_rx'[j].memtable.id
             /\ \A i \in DOMAIN io_rx' :
                  i < j /\ IsFlush(io_rx'[i]) => io_rx'[i].memtable.id < io_rx'[j].memtable.id
  <2>1. j + d \in DOMAIN io_rx /\ io_rx'[j] = io_rx[j + d] /\ IsFlush(io_rx[j + d])
    BY <1>2, <1>3
  <2>2. /\ io_rx'[j].memtable.id < memtable'.id
        /\ \A i \in DOMAIN flush_results' : flush_results'[i].id < io_rx'[j].memtable.id
    BY <2>1 DEF FlushOrder, FlushesStay
  <2>3. ASSUME NEW i \in DOMAIN io_rx', i < j, IsFlush(io_rx'[i])
        PROVE  io_rx'[i].memtable.id < io_rx'[j].memtable.id
    <3>1. i + d \in DOMAIN io_rx /\ io_rx'[i] = io_rx[i + d] /\ IsFlush(io_rx[i + d])
      BY <1>2, <2>3
    <3>2. i \in Nat /\ j \in Nat
      <4>1. io_rx' \in Seq(Pending')
        BY DEF TreeTypeOK
      <4> QED
        BY <4>1
    <3>3. i + d < j + d
      BY <2>3, <3>2
    <3> QED
      BY <2>1, <3>1, <3>3 DEF FlushOrder
  <2> QED
    BY <2>2, <2>3
<1>4. FrozenAccounted'
  <2> SUFFICES ASSUME io' = "up", NEW mt \in Frozen' PROVE Accounted(mt)'
    BY FrozenParts
  <2>1. Accounted(mt)
    BY FrozenParts DEF FlushOrder, FlushesStay, Frozen
  <2> QED
    BY <2>1 DEF Accounted, FlushesStay, QueueStays, IsFlush
<1> QED
  BY <1>1, <1>3, <1>4 DEF FlushOrder, IsFlush

LEMMA QuietStays ==
  ASSUME TreeTypeOK,
         \/ BeginBatch \/ EndBatch \/ EndDrain \/ IoAppendWal \/ IoFsyncWal \/ UNCHANGED vars
         \/ \E p \in Payloads : RefusePayload(p) \/ StreamPanics(p)
         \/ \E p \in Payloads, time \in Clock : AppendPayload(p, time)
  PROVE  FlushesStay
<1>0. /\ QueueOK /\ history \in History /\ memtable \in Memtable
      /\ counters \in [memtable_id : Nat, stream_id : Nat, seq_num : Nat]
  BY DEF TreeTypeOK, QueueOK
<1>1. ~IsFlush(FsyncWal) /\ \A r : ~IsFlush(AppendWal(r))
  BY EventFacts DEF IsFlush
<1>2. io_rx' = io_rx => QueueStays
  BY <1>0, <1>1, SendStays
<1>3. CASE BeginBatch
  <2>1. history'.failed = history.failed
    BY <1>0, <1>3 DEF BeginBatch, History
  <2> QED
    BY <1>2, <1>3, <2>1 DEF BeginBatch, FlushesStay, tables, ioVars
<1>4. CASE EndBatch
  <2>1. history'.failed = history.failed
    BY <1>0, <1>4 DEF EndBatch, History
  <2>2. io_rx' \in {io_rx, Append(io_rx, FsyncWal)}
    BY <1>4 DEF EndBatch, send
  <2>3. QueueStays
    BY <1>0, <1>1, <2>2, SendStays
  <2> QED
    BY <1>4, <2>1, <2>3 DEF EndBatch, FlushesStay, tables, ioVars
<1>5. CASE EndDrain
  BY <1>2, <1>5 DEF EndDrain, FlushesStay, tables, ioVars
<1>6. CASE IoAppendWal
  <2>1. /\ UNCHANGED treeVars /\ io = "up" /\ io_rx # <<>> /\ io_rx' = Tail(io_rx)
        /\ Head(io_rx).ev = "AppendWal"
    BY <1>6, EventTaken DEF IoAppendWal
  <2>2. QueueStays
    BY <1>0, <2>1, ReceiveStays DEF IsFlush
  <2>3. history'.failed = history.failed
    <3>1. PICK r \in LogRecord :
            history' \in {history, [history EXCEPT !.unlogged = history.unlogged \cup {r}]}
      BY <1>6, WalAppended
    <3> QED
      BY <1>0, <3>1 DEF History
  <2> QED
    BY <1>6, <2>1, <2>2, <2>3 DEF IoAppendWal, FlushesStay, treeVars
<1>7. CASE IoFsyncWal
  <2>1. /\ UNCHANGED treeVars /\ io = "up" /\ io_rx # <<>> /\ io_rx' = Tail(io_rx)
        /\ Head(io_rx).ev = "FsyncWal"
    BY <1>7, EventTaken DEF IoFsyncWal
  <2>2. QueueStays
    BY <1>0, <2>1, ReceiveStays DEF IsFlush
  <2>3. history'.failed = history.failed
    <3>1. history' \in {history, [history EXCEPT !.fsyncFailed = TRUE]}
      BY <1>7 DEF IoFsyncWal
    <3> QED
      BY <1>0, <3>1 DEF History
  <2> QED
    BY <1>7, <2>1, <2>2, <2>3 DEF IoFsyncWal, FlushesStay, treeVars
<1>8. CASE UNCHANGED vars
  BY <1>2, <1>8 DEF vars, FlushesStay
<1>9. ASSUME NEW p \in Payloads, RefusePayload(p)
      PROVE  FlushesStay
  BY <1>2, <1>9 DEF RefusePayload, FlushesStay, tables, ioVars
<1>10. ASSUME NEW p \in Payloads, StreamPanics(p)
       PROVE  FlushesStay
  <2>1. counters'.memtable_id = counters.memtable_id
    BY <1>0, <1>10 DEF StreamPanics
  <2> QED
    BY <1>2, <1>10, <2>1 DEF StreamPanics, FlushesStay, tables, ioVars
<1>11. ASSUME NEW p \in Payloads, NEW time \in Clock, AppendPayload(p, time)
       PROVE  FlushesStay
  <2>1. counters'.memtable_id = counters.memtable_id /\ UNCHANGED <<tables, ioVars>>
    BY <1>11, PayloadTaken
  <2>2. PICK r : Taken(r)
    BY <1>11, PayloadTaken
  <2>3. history'.failed = history.failed
    BY <1>0, <2>2, PlaceType DEF Taken
  <2>4. QueueStays
    BY <1>0, <1>1, <2>2, SendStays DEF Taken
  <2> QED
    BY <2>1, <2>2, <2>3, <2>4 DEF Taken, FlushesStay, tables, ioVars
<1> QED
  BY <1>3, <1>4, <1>5, <1>6, <1>7, <1>8, <1>9, <1>10, <1>11

LEMMA QuietFlushes ==
  ASSUME TreeTypeOK, TreeTypeOK', FlushOrder,
         \/ BeginBatch \/ EndBatch \/ EndDrain \/ IoAppendWal \/ IoFsyncWal \/ UNCHANGED vars
         \/ \E p \in Payloads : RefusePayload(p) \/ StreamPanics(p)
         \/ \E p \in Payloads, time \in Clock : AppendPayload(p, time)
  PROVE  FlushOrder'
BY QuietStays, FlushesKept

\* A memtable is frozen: it has the greatest id so far.
LEMMA IssueFlushes ==
  ASSUME TreeTypeOK, TreeTypeOK', FlushOrder, IssueFlush
  PROVE  FlushOrder'
<1> DEFINE n == Len(frozen_memtables)
           ev == FlushMemtable(memtable, stream_buffer)
<1>0. QueueOK /\ frozen_memtables \in Seq(Memtable) /\ memtable \in Memtable
      /\ history \in History
  BY DEF TreeTypeOK, QueueOK
<1>1. /\ memtable'.id = counters.memtable_id
      /\ counters'.memtable_id = counters.memtable_id + 1
      /\ \/ io = "down" /\ io_rx' = io_rx
         \/ io_rx' = Append(io_rx, ev)
      /\ UNCHANGED <<flush_results, io>> /\ frozen_memtables' = Append(frozen_memtables, memtable)
  BY FlushIssued DEF IssueFlush, ioVars
<1>2. history'.failed = history.failed
  <2>1. with_size_limit(counters.memtable_id) \in Memtable
    BY Ids DEF with_size_limit, Memtable
  <2> QED
    BY <2>1, FlushIssued, PlaceType
<1>3. /\ memtable.id \in Nat /\ counters.memtable_id \in Nat /\ n \in Nat
      /\ DOMAIN frozen_memtables = 1 .. n
      /\ \A i \in DOMAIN frozen_memtables : frozen_memtables[i].id \in Nat
      /\ \A i \in DOMAIN flush_results : flush_results[i].id \in Nat
      /\ Len(io_rx) \in Nat /\ DOMAIN io_rx = 1 .. Len(io_rx)
      /\ \A i \in DOMAIN io_rx : IsFlush(io_rx[i]) => io_rx[i].memtable.id \in Nat
  BY Ids
<1>4. /\ DOMAIN frozen_memtables' = 1 .. (n + 1) /\ frozen_memtables'[n + 1] = memtable
      /\ \A i \in 1 .. n : frozen_memtables'[i] = frozen_memtables[i]
  BY <1>0, <1>1
<1>5. IsFlush(ev) /\ ev.memtable = memtable
  BY EventFacts DEF IsFlush
<1> HIDE DEF n, ev
<1>6. memtable.id < memtable'.id /\ memtable'.id < counters'.memtable_id
  BY <1>1, <1>3 DEF FlushOrder
<1>7. \A i \in DOMAIN frozen_memtables' : frozen_memtables'[i].id < memtable'.id
  BY <1>1, <1>3, <1>4, <1>6 DEF FlushOrder
<1>8. \A i, j \in DOMAIN frozen_memtables' :
        i < j => frozen_memtables'[i].id < frozen_memtables'[j].id
  BY <1>3, <1>4 DEF FlushOrder
<1>9. /\ \A i, j \in DOMAIN flush_results' : i < j => flush_results'[i].id < flush_results'[j].id
      /\ \A i \in DOMAIN flush_results' : flush_results'[i].id < memtable'.id
  BY <1>1, <1>3, <1>6 DEF FlushOrder
<1>10. \A j \in DOMAIN io_rx : IsFlush(io_rx[j]) => io_rx[j].memtable.id < memtable'.id
  BY <1>1, <1>3, <1>6 DEF FlushOrder
<1>11. ASSUME NEW j \in DOMAIN io_rx', IsFlush(io_rx'[j])
       PROVE  /\ io_rx'[j].memtable.id < memtable'.id
              /\ \A i \in DOMAIN flush_results' : flush_results'[i].id < io_rx'[j].memtable.id
              /\ \A i \in DOMAIN io_rx' :
                   i < j /\ IsFlush(io_rx'[i]) => io_rx'[i].memtable.id < io_rx'[j].memtable.id
  <2>1. CASE io_rx' = io_rx
    BY <1>1, <1>10, <1>11, <2>1 DEF FlushOrder
  <2>2. CASE io_rx' = Append(io_rx, ev)
    <3>1. /\ DOMAIN io_rx' = 1 .. (Len(io_rx) + 1)
          /\ io_rx'[Len(io_rx) + 1] = ev
          /\ \A i \in DOMAIN io_rx : io_rx'[i] = io_rx[i]
      BY <1>0, <2>2, AppendOwn DEF QueueOK, Pending
    <3>2. CASE j = Len(io_rx) + 1
      <4>1. io_rx'[j].memtable.id = memtable.id
        BY <1>5, <3>1, <3>2
      <4>2. ASSUME NEW i \in DOMAIN io_rx', i < j, IsFlush(io_rx'[i])
            PROVE  io_rx'[i].memtable.id < memtable.id
        <5>1. i \in DOMAIN io_rx /\ io_rx'[i] = io_rx[i]
          BY <1>3, <3>1, <3>2, <4>2
        <5> QED
          BY <4>2, <5>1 DEF FlushOrder
      <4> QED
        BY <1>1, <1>6, <4>1, <4>2 DEF FlushOrder
    <3>3. CASE j # Len(io_rx) + 1
      <4>1. j \in DOMAIN io_rx /\ io_rx'[j] = io_rx[j]
        BY <1>3, <3>1, <3>3
      <4>2. ASSUME NEW i \in DOMAIN io_rx', i < j, IsFlush(io_rx'[i])
            PROVE  io_rx'[i].memtable.id < io_rx'[j].memtable.id
        <5>1. i \in DOMAIN io_rx /\ io_rx'[i] = io_rx[i]
          BY <1>3, <3>1, <4>1, <4>2
        <5> QED
          BY <1>11, <4>1, <4>2, <5>1 DEF FlushOrder
      <4> QED
        BY <1>1, <1>10, <1>11, <4>1, <4>2 DEF FlushOrder
    <3> QED
      BY <3>2, <3>3
  <2> QED
    BY <1>1, <2>1, <2>2
<1>12. FrozenAccounted'
  <2> SUFFICES ASSUME io' = "up", NEW mt \in Frozen' PROVE Accounted(mt)'
    BY FrozenParts
  <2>1. io = "up" /\ Pending' = Pending \cup {ev}
    BY <1>0, <1>1, SendCovers
  <2>2. mt \in Frozen \/ mt = memtable
    BY <1>3, <1>4 DEF Frozen, Range
  <2>3. CASE mt \in Frozen
    <3>1. Accounted(mt)
      BY <2>1, <2>3, FrozenParts DEF FlushOrder
    <3> QED
      BY <1>1, <1>2, <2>1, <3>1 DEF Accounted, IsFlush
  <2>4. CASE mt = memtable
    BY <1>5, <2>1, <2>4 DEF Accounted, IsFlush
  <2> QED
    BY <2>2, <2>3, <2>4
<1> QED
  BY <1>6, <1>7, <1>8, <1>9, <1>11, <1>12 DEF FlushOrder, IsFlush

(* A table is drained.  If it was not made from the memtable at the front,   *)
(* the front memtable has neither a flush queued nor a table waiting: its    *)
(* flush has failed, and accounts for all memtables behind it.               *)
LEMMA DrainFlushes ==
  ASSUME TreeTypeOK, TreeTypeOK', FlushOrder, DrainSstQueue
  PROVE  FlushOrder'
<1> DEFINE h == Head(flush_results)
<1>1. /\ flush_results # <<>> /\ flush_results' = Tail(flush_results)
      /\ UNCHANGED <<memtable, counters, io_rx, io, history>>
      /\ flush_results \in Seq(Range(flush_results)) /\ frozen_memtables \in Seq(Memtable)
  BY DEF DrainSstQueue, TreeTypeOK
<1>2. /\ Len(flush_results) \in Nat \ {0} /\ DOMAIN flush_results = 1 .. Len(flush_results)
      /\ h = flush_results[1] /\ DOMAIN flush_results' = 1 .. (Len(flush_results) - 1)
      /\ \A i \in DOMAIN flush_results' :
           i + 1 \in DOMAIN flush_results /\ flush_results'[i] = flush_results[i + 1]
      /\ \A i \in DOMAIN flush_results :
           i # 1 => i - 1 \in DOMAIN flush_results' /\ flush_results'[i - 1] = flush_results[i]
  BY <1>1, TailOwn
<1>3. \/ frozen_memtables' = frozen_memtables /\ (frozen_memtables # <<>> => Head(frozen_memtables).id # h.id)
      \/ /\ frozen_memtables # <<>> /\ Head(frozen_memtables).id = h.id
         /\ frozen_memtables' = Tail(frozen_memtables)
  BY DEF DrainSstQueue, drain_one
<1>4. /\ \A i \in DOMAIN frozen_memtables : frozen_memtables[i].id \in Nat
      /\ Len(frozen_memtables) \in Nat
      /\ DOMAIN frozen_memtables = 1 .. Len(frozen_memtables)
      /\ \A i \in DOMAIN flush_results : flush_results[i].id \in Nat
  BY Ids
<1>5. frozen_memtables # <<>> => Head(frozen_memtables) = frozen_memtables[1]
                                 /\ 1 \in DOMAIN frozen_memtables
  BY <1>1
<1>6. \E d \in {0, 1} :
        /\ d = 1 => frozen_memtables # <<>> /\ frozen_memtables[1].id = h.id
        /\ d = 0 /\ frozen_memtables # <<>> => frozen_memtables[1].id # h.id
        /\ \A i \in DOMAIN frozen_memtables' : i \in Nat \ {0} /\ i + d \in DOMAIN frozen_memtables
                                               /\ frozen_memtables'[i] = frozen_memtables[i + d]
  <2>1. CASE frozen_memtables' = frozen_memtables /\ (frozen_memtables # <<>> => Head(frozen_memtables).id # h.id)
    <3>1. \A i \in DOMAIN frozen_memtables' : i \in Nat \ {0} /\ i + 0 = i
      BY <1>4, <2>1
    <3> QED
      BY <1>5, <2>1, <3>1
  <2>2. CASE /\ frozen_memtables # <<>> /\ Head(frozen_memtables).id = h.id
             /\ frozen_memtables' = Tail(frozen_memtables)
    <3> DEFINE t == Tail(frozen_memtables)
    <3>1. \A i \in DOMAIN t : i \in Nat \ {0} /\ i + 1 \in DOMAIN frozen_memtables
                              /\ t[i] = frozen_memtables[i + 1]
      BY <1>1, <2>2
    <3> QED
      BY <1>5, <2>2, <3>1
  <2> QED
    BY <1>3, <2>1, <2>2
<1> HIDE DEF h
<1>7. PICK d \in {0, 1} :
        /\ d = 1 => frozen_memtables # <<>> /\ frozen_memtables[1].id = h.id
        /\ d = 0 /\ frozen_memtables # <<>> => frozen_memtables[1].id # h.id
        /\ \A i \in DOMAIN frozen_memtables' : i \in Nat \ {0} /\ i + d \in DOMAIN frozen_memtables
                                               /\ frozen_memtables'[i] = frozen_memtables[i + d]
  BY <1>6
<1>8. memtable'.id < counters'.memtable_id
  BY <1>1 DEF FlushOrder
<1>9. /\ \A i \in DOMAIN frozen_memtables' : frozen_memtables'[i].id < memtable'.id
      /\ \A i, j \in DOMAIN frozen_memtables' :
           i < j => frozen_memtables'[i].id < frozen_memtables'[j].id
  <2>1. \A i \in DOMAIN frozen_memtables' : frozen_memtables'[i].id < memtable'.id
    BY <1>1, <1>7 DEF FlushOrder
  <2>2. ASSUME NEW i \in DOMAIN frozen_memtables', NEW j \in DOMAIN frozen_memtables', i < j
        PROVE  frozen_memtables'[i].id < frozen_memtables'[j].id
    <3>1. i + d < j + d
      BY <1>7, <2>2
    <3> QED
      BY <1>7, <3>1 DEF FlushOrder
  <2> QED
    BY <2>1, <2>2
<1>10. /\ \A i, j \in DOMAIN flush_results' : i < j => flush_results'[i].id < flush_results'[j].id
       /\ \A i \in DOMAIN flush_results' : flush_results'[i].id < memtable'.id
  <2>1. \A i \in DOMAIN flush_results' : flush_results'[i].id < memtable'.id
    BY <1>1, <1>2 DEF FlushOrder
  <2>2. ASSUME NEW i \in DOMAIN flush_results', NEW j \in DOMAIN flush_results', i < j
        PROVE  flush_results'[i].id < flush_results'[j].id
    <3>1. i + 1 < j + 1
      BY <1>2, <2>2
    <3> QED
      BY <1>2, <3>1 DEF FlushOrder
  <2> QED
    BY <2>1, <2>2
<1>11. ASSUME NEW j \in DOMAIN io_rx', IsFlush(io_rx'[j])
       PROVE  /\ io_rx'[j].memtable.id < memtable'.id
              /\ \A i \in DOMAIN flush_results' : flush_results'[i].id < io_rx'[j].memtable.id
              /\ \A i \in DOMAIN io_rx' :
                   i < j /\ IsFlush(io_rx'[i]) => io_rx'[i].memtable.id < io_rx'[j].memtable.id
  BY <1>1, <1>2, <1>11 DEF FlushOrder
<1>12. FrozenAccounted'
  <2> SUFFICES ASSUME io = "up", NEW mt \in Frozen' PROVE Accounted(mt)'
    BY <1>1, FrozenParts
  <2>0. PICK k \in DOMAIN frozen_memtables' : mt = frozen_memtables'[k]
    BY DEF Frozen, Range
  <2> DEFINE front == frozen_memtables[1]
  <2>1. /\ mt = frozen_memtables[k + d] /\ k + d \in DOMAIN frozen_memtables /\ k \in Nat \ {0}
        /\ 1 \in DOMAIN frozen_memtables /\ mt \in Frozen /\ front \in Frozen
        /\ mt.id \in Nat /\ front.id \in Nat
    BY <1>4, <1>7, <2>0 DEF Frozen, Range
  <2>2. Accounted(mt) /\ Accounted(front)
    BY <2>1, FrozenParts DEF FlushOrder
  <2>3. frozen_memtables # <<>>
    BY <2>1
  <2> HIDE DEF front
  <2>4. ASSUME \/ \E ev \in Pending : IsFlush(ev) /\ ev.memtable = mt
               \/ \E i \in DOMAIN flush_results : i # 1 /\ flush_results[i].id = mt.id
               \/ \E id \in history.failed : id <= mt.id
        PROVE  Accounted(mt)'
    <3>1. (\E i \in DOMAIN flush_results : i # 1 /\ flush_results[i].id = mt.id)
            => \E i \in DOMAIN flush_results' : flush_results'[i].id = mt.id
      BY <1>2
    <3>2. Pending' = Pending /\ history' = history
      BY <1>1 DEF Pending
    <3> QED
      BY <2>1, <2>4, <3>1, <3>2 DEF Accounted, IsFlush
  <2>5. CASE flush_results[1].id = mt.id
    <3>1. h.id = mt.id /\ h.id \in Nat
      BY <1>2, <2>1, <2>5
    <3>2. d = 0
      <4>1. CASE d = 1
        <5>1. front.id = mt.id /\ 1 < k + d
          BY <1>7, <2>1, <3>1, <4>1 DEF front
        <5>2. front.id < mt.id
          BY <2>1, <5>1 DEF FlushOrder, front
        <5> QED
          BY <2>1, <5>1, <5>2
      <4> QED
        BY <4>1
    <3>3. front.id < h.id
      <4>1. front.id # mt.id
        BY <1>7, <2>3, <3>1, <3>2 DEF front
      <4>2. k + d # 1
        BY <2>1, <4>1 DEF front
      <4>3. 1 < k + d
        BY <2>1, <3>2, <4>2
      <4> QED
        BY <2>1, <3>1, <4>3 DEF FlushOrder, front
    <3>4. ~ \E ev \in Pending : IsFlush(ev) /\ ev.memtable = front
      <4> SUFFICES ASSUME NEW j \in DOMAIN io_rx, IsFlush(io_rx[j]), io_rx[j].memtable = front
                   PROVE  FALSE
        BY DEF Pending, Range
      <4>1. 1 \in DOMAIN flush_results
        BY <1>2
      <4>2. h.id < front.id
        BY <1>2, <4>1 DEF FlushOrder
      <4> QED
        BY <2>1, <3>1, <3>3, <4>2
    <3>5. ~ \E i \in DOMAIN flush_results : flush_results[i].id = front.id
      <4> SUFFICES ASSUME NEW i \in DOMAIN flush_results, flush_results[i].id = front.id
                   PROVE  FALSE
        OBVIOUS
      <4>1. i = 1 \/ (1 < i /\ 1 \in DOMAIN flush_results)
        BY <1>2
      <4>2. i = 1 \/ h.id < flush_results[i].id
        BY <1>2, <4>1 DEF FlushOrder
      <4> QED
        BY <1>2, <2>1, <3>1, <3>3, <4>2
    <3>6. PICK id \in history.failed : id <= front.id
      BY <2>2, <3>4, <3>5 DEF Accounted
    <3>7. id \in Nat
      BY DEF TreeTypeOK, History
    <3>8. id <= mt.id
      BY <2>1, <3>1, <3>3, <3>6, <3>7
    <3> QED
      BY <2>4, <3>8
  <2>6. CASE flush_results[1].id # mt.id
    BY <2>2, <2>4, <2>6 DEF Accounted
  <2> QED
    BY <2>5, <2>6
<1> QED
  BY <1>8, <1>9, <1>10, <1>11, <1>12 DEF FlushOrder, IsFlush

\* A flush ends: its memtable is older than those still queued, and newer than
\* those whose tables wait to be drained.
LEMMA ConsumerFlushes ==
  ASSUME TreeTypeOK, TreeTypeOK', FlushOrder, IoFlushMemtable
  PROVE  FlushOrder'
<1>0. QueueOK /\ history \in History /\ flush_results \in Seq(Range(flush_results))
  BY DEF TreeTypeOK, QueueOK
<1>1. /\ UNCHANGED treeVars /\ io = "up" /\ io_rx # <<>> /\ io_rx' = Tail(io_rx)
  BY EventTaken DEF IoFlushMemtable
<1>2. PICK mt \in Memtable :
        /\ IsFlush(Head(io_rx)) /\ Head(io_rx).memtable = mt
        /\ \/ \E h : flush_results' = Append(flush_results, [id |-> mt.id, handle |-> h])
              /\ UNCHANGED <<io, history>>
           \/ /\ history' = [history EXCEPT !.failed = history.failed \cup {mt.id}]
              /\ UNCHANGED <<io, flush_results>>
           \/ io' = "down" /\ UNCHANGED <<flush_results, history>>
  BY MemtableFlushed
<1>3. /\ Len(io_rx) \in Nat \ {0} /\ DOMAIN io_rx = 1 .. Len(io_rx) /\ Head(io_rx) = io_rx[1]
      /\ \A i \in DOMAIN io_rx' : i \in Nat \ {0} /\ i + 1 \in DOMAIN io_rx
                                 /\ io_rx'[i] = io_rx[i + 1]
  BY <1>0, <1>1, TailOwn DEF QueueOK, Pending
<1>4. /\ mt.id < memtable.id /\ mt.id \in Nat
      /\ \A i \in DOMAIN flush_results : flush_results[i].id < mt.id
      /\ \A j \in DOMAIN io_rx' : IsFlush(io_rx'[j]) => mt.id < io_rx'[j].memtable.id
  <2>1. 1 \in DOMAIN io_rx /\ IsFlush(io_rx[1]) /\ io_rx[1].memtable = mt
    BY <1>2, <1>3
  <2>2. mt.id < memtable.id /\ \A i \in DOMAIN flush_results : flush_results[i].id < mt.id
    BY <2>1 DEF FlushOrder
  <2>3. ASSUME NEW j \in DOMAIN io_rx', IsFlush(io_rx'[j])
        PROVE  mt.id < io_rx'[j].memtable.id
    <3>1. 1 < j + 1 /\ j + 1 \in DOMAIN io_rx /\ io_rx'[j] = io_rx[j + 1]
      BY <1>3
    <3> QED
      BY <2>1, <2>3, <3>1 DEF FlushOrder
  <2> QED
    BY <2>2, <2>3 DEF Memtable
<1>5. \A i \in DOMAIN flush_results' :
        \/ i \in DOMAIN flush_results /\ flush_results'[i].id = flush_results[i].id
        \/ flush_results'[i].id = mt.id /\ \A j \in DOMAIN flush_results' : j <= i
  <2>1. CASE flush_results' = flush_results
    BY <2>1
  <2>2. ASSUME NEW h, flush_results' = Append(flush_results, [id |-> mt.id, handle |-> h])
        PROVE  \A i \in DOMAIN flush_results' :
                 \/ i \in DOMAIN flush_results /\ flush_results'[i].id = flush_results[i].id
                 \/ flush_results'[i].id = mt.id /\ \A j \in DOMAIN flush_results' : j <= i
    <3> DEFINE e == [id |-> mt.id, handle |-> h]
    <3>1. /\ Len(flush_results) \in Nat /\ DOMAIN flush_results = 1 .. Len(flush_results)
          /\ DOMAIN flush_results' = 1 .. (Len(flush_results) + 1)
          /\ flush_results'[Len(flush_results) + 1] = e
          /\ \A i \in DOMAIN flush_results : flush_results'[i] = flush_results[i]
      BY <1>0, <2>2, AppendOwn
    <3>2. e.id = mt.id
      OBVIOUS
    <3> HIDE DEF e
    <3> QED
      BY <3>1, <3>2
  <2> QED
    BY <1>2, <2>1, <2>2
<1>6. /\ memtable'.id < counters'.memtable_id
      /\ \A i \in DOMAIN frozen_memtables' : frozen_memtables'[i].id < memtable'.id
      /\ \A i, j \in DOMAIN frozen_memtables' :
           i < j => frozen_memtables'[i].id < frozen_memtables'[j].id
  BY <1>1 DEF FlushOrder, treeVars
<1>7. \A i, j \in DOMAIN flush_results' : i < j => flush_results'[i].id < flush_results'[j].id
  <2> SUFFICES ASSUME NEW i \in DOMAIN flush_results', NEW j \in DOMAIN flush_results', i < j
               PROVE  flush_results'[i].id < flush_results'[j].id
    OBVIOUS
  <2>1. i \in Nat /\ j \in Nat
    <3>1. flush_results' \in Seq(Range(flush_results'))
      BY DEF TreeTypeOK
    <3> QED
      BY <3>1
  <2>2. i \in DOMAIN flush_results /\ flush_results'[i].id = flush_results[i].id
    BY <1>5, <2>1
  <2> QED
    BY <1>4, <1>5, <2>2 DEF FlushOrder
<1>8. \A i \in DOMAIN flush_results' : flush_results'[i].id < memtable'.id
  BY <1>1, <1>4, <1>5 DEF FlushOrder, treeVars
<1>9. ASSUME NEW j \in DOMAIN io_rx', IsFlush(io_rx'[j])
      PROVE  /\ io_rx'[j].memtable.id < memtable'.id
             /\ \A i \in DOMAIN flush_results' : flush_results'[i].id < io_rx'[j].memtable.id
             /\ \A i \in DOMAIN io_rx' :
                  i < j /\ IsFlush(io_rx'[i]) => io_rx'[i].memtable.id < io_rx'[j].memtable.id
  <2>1. j + 1 \in DOMAIN io_rx /\ io_rx'[j] = io_rx[j + 1] /\ IsFlush(io_rx[j + 1])
    BY <1>3, <1>9
  <2>2. io_rx'[j].memtable.id < memtable'.id
    BY <1>1, <2>1 DEF FlushOrder, treeVars
  <2>3. \A i \in DOMAIN flush_results' : flush_results'[i].id < io_rx'[j].memtable.id
    BY <1>4, <1>5, <1>9, <2>1 DEF FlushOrder
  <2>4. ASSUME NEW i \in DOMAIN io_rx', i < j, IsFlush(io_rx'[i])
        PROVE  io_rx'[i].memtable.id < io_rx'[j].memtable.id
    <3>1. i + 1 < j + 1 /\ i + 1 \in DOMAIN io_rx /\ io_rx'[i] = io_rx[i + 1]
      BY <1>3, <2>4
    <3> QED
      BY <2>1, <2>4, <3>1 DEF FlushOrder
  <2> QED
    BY <2>2, <2>3, <2>4
<1>10. FrozenAccounted'
  <2> SUFFICES ASSUME io' = "up", NEW m \in Frozen' PROVE Accounted(m)'
    BY FrozenParts
  <2>1. m \in Frozen /\ Accounted(m)
    <3>1. m \in Frozen
      BY <1>1 DEF Frozen, treeVars
    <3> QED
      BY <1>1, <3>1, FrozenParts DEF FlushOrder
  <2>2. \A ev \in Pending : ev = Head(io_rx) \/ ev \in Pending'
    BY <1>0, <1>1, ReceiveCovers
  <2>3. history.failed \subseteq history'.failed
    BY <1>0, <1>2 DEF History
  <2>4. \A i \in DOMAIN flush_results :
          i \in DOMAIN flush_results' /\ flush_results'[i] = flush_results[i]
    <3>1. CASE flush_results' = flush_results
      BY <3>1
    <3>2. ASSUME NEW h, flush_results' = Append(flush_results, [id |-> mt.id, handle |-> h])
          PROVE  \A i \in DOMAIN flush_results :
                   i \in DOMAIN flush_results' /\ flush_results'[i] = flush_results[i]
      <4> DEFINE e == [id |-> mt.id, handle |-> h]
      <4>1. /\ Len(flush_results) \in Nat /\ DOMAIN flush_results = 1 .. Len(flush_results)
            /\ DOMAIN flush_results' = 1 .. (Len(flush_results) + 1)
            /\ \A i \in DOMAIN flush_results : flush_results'[i] = flush_results[i]
        BY <1>0, <3>2, AppendOwn
      <4> QED
        BY <4>1
    <3> QED
      BY <1>2, <3>1, <3>2
  <2>5. \/ \E i \in DOMAIN flush_results' : flush_results'[i].id = mt.id
        \/ mt.id \in history'.failed
    <3>1. CASE history' = [history EXCEPT !.failed = history.failed \cup {mt.id}]
      BY <1>0, <3>1 DEF History
    <3>2. ASSUME NEW h, flush_results' = Append(flush_results, [id |-> mt.id, handle |-> h])
          PROVE  \E i \in DOMAIN flush_results' : flush_results'[i].id = mt.id
      <4> DEFINE e == [id |-> mt.id, handle |-> h]
      <4>1. /\ Len(flush_results) \in Nat
            /\ DOMAIN flush_results' = 1 .. (Len(flush_results) + 1)
            /\ flush_results'[Len(flush_results) + 1] = e
        BY <1>0, <3>2, AppendOwn
      <4>2. e.id = mt.id
        OBVIOUS
      <4> HIDE DEF e
      <4> QED
        BY <4>1, <4>2
    <3> QED
      BY <1>1, <1>2, <3>1, <3>2
  <2>6. CASE \E ev \in Pending : IsFlush(ev) /\ ev.memtable = m
    <3>1. CASE m = mt
      <4>1. mt.id <= mt.id
        BY <1>4
      <4> QED
        BY <2>5, <3>1, <4>1 DEF Accounted
    <3>2. CASE m # mt
      BY <1>2, <2>2, <2>6, <3>2 DEF Accounted, IsFlush
    <3> QED
      BY <3>1, <3>2
  <2>7. CASE \/ \E i \in DOMAIN flush_results : flush_results[i].id = m.id
             \/ \E id \in history.failed : id <= m.id
    BY <2>3, <2>4, <2>7 DEF Accounted
  <2> QED
    BY <2>1, <2>6, <2>7 DEF Accounted
<1> QED
  BY <1>6, <1>7, <1>8, <1>9, <1>10 DEF FlushOrder, IsFlush

LEMMA FlushOrderInit == Init => FlushOrder
<1> SUFFICES ASSUME Init PROVE FlushOrder
  OBVIOUS
<1>1. /\ frozen_memtables = <<>> /\ flush_results = <<>> /\ io_rx = <<>>
      /\ memtable.id = 0 /\ counters.memtable_id = 1
  BY DEF Init, with_size_limit
<1>2. Frozen = {}
  BY <1>1 DEF Frozen, Range
<1> QED
  BY <1>1, <1>2, FrozenParts DEF FlushOrder

LEMMA FlushOrderStep ==
  ASSUME TreeTypeOK, FlushOrder, [Next]_vars
  PROVE  FlushOrder'
<1>1. TreeTypeOK'
  BY TreeStep
<1> QED
  BY <1>1, QuietFlushes, IssueFlushes, DrainFlushes, ConsumerFlushes DEF Next

(* No frozen memtable is forgotten: each has its flush queued or its table   *)
(* waiting for drain_sst_queue, unless the consumer died or a flush failed   *)
(* of this or of an older memtable.                                          *)
THEOREM FrozenAreAccounted == Spec => []FrozenAccounted
<1>1. Init => TreeTypeOK /\ FlushOrder
  BY InitTree, FlushOrderInit
<1>2. TreeTypeOK /\ FlushOrder /\ [Next]_vars => (TreeTypeOK /\ FlushOrder)'
  BY TreeStep, FlushOrderStep
<1>3. FlushOrder => FrozenAccounted
  BY DEF FlushOrder
<1> QED
  BY <1>1, <1>2, <1>3, PTL DEF Spec

-----------------------------------------------------------------------------
(* What a table is made of.                                                  *)

\* The order of the keys is total.
LEMMA KeyOrder ==
  /\ \A a, b, c \in Key : KeyLess(a, b) /\ KeyLess(b, c) => KeyLess(a, c)
  /\ \A a, b \in Key : a = b \/ KeyLess(a, b) \/ KeyLess(b, a)
<1>1. ASSUME NEW a \in Key, NEW b \in Key, NEW c \in Key, KeyLess(a, b), KeyLess(b, c)
      PROVE  KeyLess(a, c)
  BY <1>1 DEF Key, KeyLess
<1>2. ASSUME NEW a \in Key, NEW b \in Key, ~KeyLess(a, b), ~KeyLess(b, a)
      PROVE  a = b
  <2>1. /\ a.stream_id = b.stream_id /\ a.timestamp = b.timestamp
        /\ a.sequence_num = b.sequence_num /\ a.source_id = b.source_id
    BY <1>2 DEF Key, KeyLess
  <2> QED
    BY <2>1 DEF Key
<1> QED
  BY <1>1, <1>2

\* The records in the order of their keys.
InOrder(s, S, n) ==
  s \in [1 .. n -> S] /\ \A i, j \in 1 .. n : i < j => KeyLess(s[i].key, s[j].key)

\* A record is put where it belongs.
LEMMA InsertInOrder ==
  ASSUME NEW S \in SUBSET LogRecord, NEW x \in LogRecord, NEW m \in Nat, NEW s,
         \A y \in S : y.key # x.key, InOrder(s, S, m)
  PROVE  \E t : InOrder(t, S \cup {x}, m + 1)
<1> DEFINE P == {p \in 1 .. (m + 1) : p = m + 1 \/ KeyLess(x.key, s[p].key)}
<1>1. PICK p \in P : \A d \in P : p <= d
  <2>1. m + 1 \in P /\ P \in SUBSET Nat
    OBVIOUS
  <2> HIDE DEF P
  <2> QED
    BY <2>1, LeastNumber
<1>2. \A i \in 1 .. m : s[i] \in S /\ s[i].key \in Key /\ x.key \in Key /\ s[i].key # x.key
  BY DEF InOrder, LogRecord
<1>3. \A i \in 1 .. m : i < p => KeyLess(s[i].key, x.key)
  <2> SUFFICES ASSUME NEW i \in 1 .. m, i < p PROVE KeyLess(s[i].key, x.key)
    OBVIOUS
  <2>1. i \notin P
    BY <1>1
  <2>2. ~KeyLess(x.key, s[i].key)
    BY <2>1
  <2> QED
    BY <1>2, <2>2, KeyOrder
<1>4. \A i \in 1 .. m : p <= i => KeyLess(x.key, s[i].key)
  <2> SUFFICES ASSUME NEW i \in 1 .. m, p <= i PROVE KeyLess(x.key, s[i].key)
    OBVIOUS
  <2>1. p \in 1 .. m /\ KeyLess(x.key, s[p].key)
    BY <1>1
  <2>2. p = i \/ KeyLess(s[p].key, s[i].key)
    BY <2>1 DEF InOrder
  <2> QED
    BY <1>2, <2>1, <2>2, KeyOrder
<1>5. p \in 1 .. (m + 1)
  BY <1>1
<1> HIDE DEF P
<1> DEFINE t == [i \in 1 .. (m + 1) |-> IF i < p THEN s[i] ELSE IF i = p THEN x ELSE s[i - 1]]
<1>6. t \in [1 .. (m + 1) -> S \cup {x}]
  BY <1>2, <1>5
<1>7. ASSUME NEW i \in 1 .. (m + 1), NEW j \in 1 .. (m + 1), i < j
      PROVE  KeyLess(t[i].key, t[j].key)
  <2>1. CASE j < p
    BY <1>5, <1>7, <2>1 DEF InOrder
  <2>2. CASE j = p
    BY <1>3, <1>5, <1>7, <2>2
  <2>3. CASE i = p
    BY <1>4, <1>5, <1>7, <2>3
  <2>4. CASE i > p
    BY <1>5, <1>7, <2>4 DEF InOrder
  <2>5. CASE i < p /\ p < j
    <3>1. i \in 1 .. m /\ j - 1 \in 1 .. m /\ t[i] = s[i] /\ t[j] = s[j - 1] /\ p <= j - 1
      BY <1>5, <1>7, <2>5
    <3> HIDE DEF t
    <3>2. KeyLess(s[i].key, x.key) /\ KeyLess(x.key, s[j - 1].key)
      BY <1>3, <1>4, <2>5, <3>1
    <3> QED
      BY <1>2, <3>1, <3>2, KeyOrder
  <2> QED
    BY <1>5, <1>7, <2>1, <2>2, <2>3, <2>4, <2>5
<1>8. InOrder(t, S \cup {x}, m + 1)
  BY <1>6, <1>7, Zenon DEF InOrder
<1> QED
  BY <1>8

\* Records whose keys differ can be put in order.
LEMMA OrderExists ==
  ASSUME NEW n \in Nat
  PROVE  \A S \in SUBSET LogRecord : Keyed(S) /\ Cardinality(S) = n => \E s : InOrder(s, S, n)
<1> DEFINE Fails(k) == \E S \in SUBSET LogRecord :
                         Keyed(S) /\ Cardinality(S) = k /\ ~\E s : InOrder(s, S, k)
           T == {k \in Nat : Fails(k)}
<1> SUFFICES ASSUME T # {} PROVE FALSE
  <2>1. n \notin T
    OBVIOUS
  <2> QED
    BY <2>1
<1>1. PICK k \in T : \A d \in T : k <= d
  <2> HIDE DEF Fails
  <2>1. T \in SUBSET Nat
    OBVIOUS
  <2> HIDE DEF T
  <2> QED
    BY <2>1, LeastNumber
<1>2. PICK S \in SUBSET LogRecord : Keyed(S) /\ Cardinality(S) = k /\ ~\E s : InOrder(s, S, k)
  BY <1>1
<1>3. IsFiniteSet(S) /\ \A a, b \in S : a.key = b.key => a = b
  BY <1>2 DEF Keyed
<1>4. k \in Nat
  BY <1>1
<1>5. k # 0
  <2> SUFFICES ASSUME k = 0 PROVE FALSE
    OBVIOUS
  <2> DEFINE e == [i \in 1 .. 0 |-> {}]
  <2>1. e \in [1 .. 0 -> S] /\ \A i, j \in 1 .. 0 : i < j => KeyLess(e[i].key, e[j].key)
    OBVIOUS
  <2>2. InOrder(e, S, 0)
    BY <2>1, Zenon DEF InOrder
  <2> QED
    BY <1>2, <2>2
<1>6. PICK x : x \in S
  BY <1>2, <1>3, <1>5, FS_EmptySet
<1>7. IsFiniteSet(S \ {x}) /\ Cardinality(S \ {x}) = k - 1
  BY <1>2, <1>3, <1>6, FS_RemoveElement
<1>8. k - 1 \notin T
  BY <1>1, <1>4, <1>5
<1>9. Keyed(S \ {x}) /\ S \ {x} \in SUBSET LogRecord
  BY <1>3, <1>7 DEF Keyed
<1>10. PICK s : InOrder(s, S \ {x}, k - 1)
  BY <1>4, <1>5, <1>7, <1>8, <1>9
<1>11. \A y \in S \ {x} : y.key # x.key
  BY <1>3, <1>6
<1>12. PICK t : InOrder(t, (S \ {x}) \cup {x}, (k - 1) + 1)
  <2>1. k - 1 \in Nat /\ x \in LogRecord
    BY <1>4, <1>5, <1>6
  <2> QED
    BY <1>9, <1>10, <1>11, <2>1, InsertInOrder
<1>13. (S \ {x}) \cup {x} = S /\ (k - 1) + 1 = k
  BY <1>4, <1>6
<1> QED
  BY <1>2, <1>12, <1>13

LEMMA SortedOrder ==
  ASSUME NEW S \in SUBSET LogRecord, Keyed(S)
  PROVE  Cardinality(S) \in Nat /\ InOrder(Sorted(S), S, Cardinality(S)) /\ Sorted(S) \in Seq(S)
<1>1. PICK n \in Nat : n = Cardinality(S)
  BY FS_CardinalityType DEF Keyed
<1>2. PICK s : InOrder(s, S, n)
  BY <1>1, OrderExists
<1>3. s \in [1 .. n -> S] /\ \A i, j \in DOMAIN s : i < j => KeyLess(s[i].key, s[j].key)
  BY <1>2 DEF InOrder
<1>4. PICK t : t = Sorted(S)
  OBVIOUS
<1>5. t \in [1 .. n -> S] /\ \A i, j \in DOMAIN t : i < j => KeyLess(t[i].key, t[j].key)
  BY <1>1, <1>3, <1>4, Zenon DEF Sorted
<1>6. InOrder(t, S, n) /\ t \in Seq(S)
  BY <1>5 DEF InOrder
<1> QED
  BY <1>1, <1>4, <1>6, Zenon

\* The records of two sequences, and of a sequence of sequences.
LEMMA RangeConcat ==
  ASSUME NEW S, NEW a \in Seq(S), NEW b \in Seq(S)
  PROVE  Range(a \o b) = Range(a) \cup Range(b)
<1>1. PICK ab : ab = a \o b
  OBVIOUS
<1>2. PICK m \in Nat, n \in Nat : m = Len(a) /\ n = Len(b)
  OBVIOUS
<1>3. /\ DOMAIN ab = 1 .. (m + n) /\ DOMAIN a = 1 .. m /\ DOMAIN b = 1 .. n
      /\ (\A i \in 1 .. m : ab[i] = a[i]) /\ \A i \in (m + 1) .. (m + n) : ab[i] = b[i - m]
  BY <1>1, <1>2
<1>4. \A i \in 1 .. n : i + m \in (m + 1) .. (m + n) /\ i + m \in 1 .. (m + n) /\ (i + m) - m = i
  OBVIOUS
<1>5. \A i \in 1 .. n : ab[i + m] = b[i]
  BY <1>3, <1>4
<1>6. \A i \in 1 .. (m + n) : i \in 1 .. m \/ (i \in (m + 1) .. (m + n) /\ i - m \in 1 .. n)
  OBVIOUS
<1>7. ASSUME NEW y \in Range(ab) PROVE y \in Range(a) \cup Range(b)
  BY <1>3, <1>6 DEF Range
<1>8. ASSUME NEW y \in Range(a) PROVE y \in Range(ab)
  <2>1. PICK i \in 1 .. m : y = a[i]
    BY <1>3 DEF Range
  <2>2. i \in 1 .. (m + n)
    OBVIOUS
  <2> QED
    BY <1>3, <2>1, <2>2 DEF Range
<1>9. ASSUME NEW y \in Range(b) PROVE y \in Range(ab)
  <2>1. PICK i \in 1 .. n : y = b[i]
    BY <1>3 DEF Range
  <2> QED
    BY <1>3, <1>4, <1>5, <2>1 DEF Range
<1>10. Range(ab) = Range(a) \cup Range(b)
  BY <1>7, <1>8, <1>9
<1> QED
  BY <1>1, <1>10, Zenon

LEMMA FlattenRange ==
  ASSUME NEW S, NEW x \in Seq(Seq(S))
  PROVE  Range(FlattenSeq(x)) = UNION {Range(x[i]) : i \in 1 .. Len(x)}
<1>1. CASE Len(x) = 0
  <2>1. x = <<>>
    BY <1>1
  <2>2. FlattenSeq(x) = <<>>
    BY <2>1, FlattenEmpty, Zenon
  <2>3. Range(<<>>) = {}
    BY DEF Range
  <2> QED
    BY <1>1, <2>2, <2>3
<1>2. CASE Len(x) # 0
  <2>1. PICK k \in Nat \ {0} : k = Len(x)
    BY <1>2
  <2>2. PICK f : /\ FlattenSeq(x) = f[Len(x)] /\ f[1] = x[1]
                 /\ \A i \in 2 .. Len(x) : f[i] = f[i - 1] \o x[i]
                 /\ \A i \in 1 .. Len(x) : f[i] \in Seq(S)
    BY <1>2, FlattenSteps, Zenon
  <2> DEFINE U(n) == UNION {Range(x[i]) : i \in 1 .. n}
             T == {n \in 1 .. k : Range(f[n]) # U(n)}
  <2>3. T = {}
    <3> SUFFICES ASSUME T # {} PROVE FALSE
      OBVIOUS
    <3>1. PICK c \in T : \A d \in T : c <= d
      <4>1. T \in SUBSET Nat
        OBVIOUS
      <4> HIDE DEF T
      <4> QED
        BY <4>1, LeastNumber
    <3>2. c \in 1 .. k /\ Range(f[c]) # U(c)
      BY <3>1
    <3>3. CASE c = 1
      <4>1. U(c) = Range(x[1])
        BY <3>3
      <4> QED
        BY <2>2, <3>2, <3>3, <4>1
    <3>4. CASE c # 1
      <4>1. c - 1 \in 1 .. k /\ c - 1 \notin T /\ c \in 2 .. Len(x) /\ c \in 1 .. Len(x) /\ c - 1 \in 1 .. Len(x)
        <5>1. c \in Nat /\ c >= 2 /\ c <= k
          BY <3>2, <3>4, SMTT(30)
        <5>2. c - 1 \in 1 .. k /\ c - 1 < c
          BY <5>1
        <5>3. c - 1 \notin T
          <6>1. c - 1 \in T => c <= c - 1
            BY <3>1
          <6> QED
            BY <5>1, <6>1
        <5> QED
          BY <2>1, <5>1, <5>2, <5>3, SMTT(30)
      <4>2. Range(f[c - 1]) = U(c - 1)
        BY <4>1
      <4>3. PICK a \in Seq(S), b \in Seq(S) : a = f[c - 1] /\ b = x[c] /\ f[c] = a \o b
        <5>1. x[c] \in Seq(S)
          BY <4>1
        <5> QED
          BY <2>2, <4>1, <5>1, Zenon
      <4>4. Range(a \o b) = Range(a) \cup Range(b)
        BY RangeConcat
      <4>5. U(c) = U(c - 1) \cup Range(x[c])
        <5>0. c \in Nat /\ 1 <= c
          BY <4>1
        <5>1. \A i \in 1 .. c : i \in 1 .. (c - 1) \/ i = c
          BY <5>0
        <5>2. c \in 1 .. c /\ \A i \in 1 .. (c - 1) : i \in 1 .. c
          BY <5>0
        <5> QED
          BY <5>1, <5>2
      <4> HIDE DEF U
      <4> QED
        BY <3>2, <4>2, <4>3, <4>4, <4>5, Zenon
    <3> QED
      BY <3>3, <3>4
  <2>4. k \in 1 .. k
    BY <2>1
  <2>5. Range(f[k]) = U(k)
    BY <2>3, <2>4
  <2> QED
    BY <2>1, <2>2, <2>5
<1> QED
  BY <1>1, <1>2

\* The writer after each record.
WritesOf(f, recs, k) ==
  f = [i \in 0 .. k |-> IF i = 0 THEN [out |-> "ok", w |-> writer_new(block_size_limit)]
                                 ELSE write_next(f[i - 1], recs[i])]

LEMMA WritesExist ==
  ASSUME NEW n \in Nat, NEW recs
  PROVE  \E f : WritesOf(f, recs, n)
<1> DEFINE start == [out |-> "ok", w |-> writer_new(block_size_limit)]
           Solved(m) == \E f : WritesOf(f, recs, m)
           T == {m \in 0 .. n : ~Solved(m)}
<1> HIDE DEF start
<1>0. \A f, m : WritesOf(f, recs, m)
                  <=> f = [i \in 0 .. m |-> IF i = 0 THEN start ELSE write_next(f[i - 1], recs[i])]
  BY Zenon DEF WritesOf, start
<1>1. SUFFICES ASSUME T # {} PROVE FALSE
  OBVIOUS
<1>2. PICK c \in T : \A d \in T : c <= d
  <2>1. T \in SUBSET Nat
    OBVIOUS
  <2> HIDE DEF T
  <2> QED
    BY <1>1, <2>1, LeastNumber
<1>3. CASE c = 0
  <2> DEFINE f == [i \in 0 .. 0 |-> start]
  <2>1. f = [i \in 0 .. 0 |-> IF i = 0 THEN start ELSE write_next(f[i - 1], recs[i])]
    OBVIOUS
  <2>2. WritesOf(f, recs, 0)
    BY <1>0, <2>1, Zenon
  <2> QED
    BY <1>2, <1>3, <2>2
<1>4. CASE c # 0
  <2>1. c \in Nat /\ c - 1 \in 0 .. n /\ c - 1 \in Nat /\ c - 1 \notin T
    BY <1>2, <1>4
  <2>2. PICK g : WritesOf(g, recs, c - 1)
    BY <2>1
  <2> DEFINE f == [i \in 0 .. c |-> IF i = c THEN write_next(g[c - 1], recs[c]) ELSE g[i]]
  <2>3. \A i \in 0 .. (c - 1) : g[i] = IF i = 0 THEN start ELSE write_next(g[i - 1], recs[i])
    <3>1. g = [i \in 0 .. (c - 1) |-> IF i = 0 THEN start ELSE write_next(g[i - 1], recs[i])]
      BY <1>0, <2>2, Zenon
    <3> QED
      BY <3>1
  <2>4. \A i \in 0 .. c : f[i] = IF i = 0 THEN start ELSE write_next(f[i - 1], recs[i])
    BY <1>4, <2>1, <2>3
  <2>5. f = [i \in 0 .. c |-> IF i = 0 THEN start ELSE write_next(f[i - 1], recs[i])]
    BY <2>4
  <2>6. WritesOf(f, recs, c)
    BY <1>0, <2>5, Zenon
  <2> QED
    BY <1>2, <2>6
<1> QED
  BY <1>3, <1>4

\* All records are in the file, or an error was met.
LEMMA WriteAll ==
  ASSUME NEW recs \in Seq(TableRecord), write_all(recs).out = "ok"
  PROVE  WriterOK(write_all(recs).w) /\ Contents(write_all(recs).w) = recs
<1> DEFINE acc == CHOOSE acc :
                    acc = [i \in 0 .. Len(recs) |->
                             IF i = 0 THEN [out |-> "ok", w |-> writer_new(block_size_limit)]
                                      ELSE write_next(acc[i - 1], recs[i])]
<1>1. PICK k \in Nat : k = Len(recs)
  OBVIOUS
<1>2. acc = [i \in 0 .. Len(recs) |->
               IF i = 0 THEN [out |-> "ok", w |-> writer_new(block_size_limit)]
                        ELSE write_next(acc[i - 1], recs[i])]
  <2>1. \E f : f = [i \in 0 .. Len(recs) |->
                      IF i = 0 THEN [out |-> "ok", w |-> writer_new(block_size_limit)]
                               ELSE write_next(f[i - 1], recs[i])]
    BY <1>1, WritesExist, Zenon DEF WritesOf
  <2> QED
    BY <2>1, Zenon
<1>3. write_all(recs) = acc[Len(recs)]
  BY Zenon DEF write_all
<1> HIDE DEF acc
<1>4. /\ acc[0] = [out |-> "ok", w |-> writer_new(block_size_limit)]
      /\ \A i \in 1 .. k : acc[i] = write_next(acc[i - 1], recs[i])
  BY <1>1, <1>2, SMTT(30)
<1> DEFINE Good(i) == WriterOK(acc[i].w) /\ Contents(acc[i].w) = SubSeq(recs, 1, i)
           T == {i \in 0 .. k : acc[i].out = "ok" /\ ~Good(i)}
<1>5. T = {}
  <2> SUFFICES ASSUME T # {} PROVE FALSE
    OBVIOUS
  <2>1. PICK c \in T : \A d \in T : c <= d
    <3>1. T \in SUBSET Nat
      OBVIOUS
    <3> HIDE DEF T
    <3> QED
      BY <3>1, LeastNumber
  <2>2. c \in 0 .. k /\ acc[c].out = "ok" /\ ~Good(c)
    BY <2>1
  <2>3. CASE c = 0
    <3>1. acc[0].w = writer_new(block_size_limit)
      BY <1>4
    <3>2. SubSeq(recs, 1, 0) = <<>>
      OBVIOUS
    <3>3. WriterOK(acc[0].w) /\ Contents(acc[0].w) = <<>>
      BY <3>1, NewWriter, Zenon
    <3> QED
      BY <2>2, <2>3, <3>2, <3>3, Zenon
  <2>4. CASE c # 0
    <3>1. c \in 1 .. k /\ c - 1 \in 0 .. k /\ c - 1 \notin T /\ c \in 1 .. Len(recs)
      BY <1>1, <2>1, <2>4
    <3>2. acc[c] = write_next(acc[c - 1], recs[c])
      BY <1>4, <3>1
    <3>3. acc[c - 1].out = "ok"
      BY <2>2, <3>2, Zenon DEF write_next
    <3>4. Good(c - 1)
      BY <3>1, <3>3
    <3>5. acc[c] = write(acc[c - 1].w, recs[c])
      BY <3>2, <3>3, Zenon DEF write_next
    <3>6. recs[c] \in TableRecord /\ SubSeq(recs, 1, c) = Append(SubSeq(recs, 1, c - 1), recs[c])
      BY <3>1, LongerPrefix, Zenon
    <3>7. PICK v, r : v = acc[c - 1].w /\ r = recs[c] /\ r \in TableRecord
      BY <3>6
    <3>8. WriterOK(v) /\ write(v, r).out = "ok" /\ Contents(v) = SubSeq(recs, 1, c - 1)
      BY <2>2, <3>4, <3>5, <3>7, Zenon
    <3>9. WriterOK(write(v, r).w) /\ Contents(write(v, r).w) = Append(Contents(v), r)
      BY <3>7, <3>8, WriteRecord, Zenon
    <3> QED
      BY <2>2, <3>5, <3>6, <3>7, <3>8, <3>9, Zenon
  <2> QED
    BY <2>3, <2>4
<1>6. SubSeq(recs, 1, k) = recs /\ k \in 0 .. k
  BY <1>1
<1>7. acc[k].out = "ok"
  BY <1>1, <1>3, Zenon
<1>8. Good(k)
  BY <1>5, <1>6, <1>7
<1> QED
  BY <1>1, <1>3, <1>6, <1>8, Zenon

\* What the blocks of a finished table hold.
LEMMA FinishedTable ==
  ASSUME NEW u, WriterOK(u), u.bw.buffer = <<>>, NEW v, Closed(u, v), NEW sst, sst.handle = finalize_file(v)
  PROVE  InTable(sst) = Range(Contents(u))
<1>1. PICK h : h = sst.handle
  OBVIOUS
<1>2. PICK f : f = u.file
  OBVIOUS
<1>3. /\ DOMAIN h.block_metadata = 1 .. Len(f) /\ Len(f) \in Nat
      /\ \A i \in 1 .. Len(f) : read_block(h, i - 1) = <<f[i].block>>
  <2>1. h = finalize_file(v)
    BY <1>1
  <2>2. /\ h.block_metadata = u.block_meta /\ h.bloom = u.bloom
        /\ DOMAIN h.block_metadata = 1 .. Len(u.file) /\ Len(u.file) \in Nat
        /\ \A i \in 1 .. Len(u.file) : read_block(h, i - 1) = <<u.file[i].block>>
    BY <2>1, ReadBlocks
  <2> QED
    BY <1>2, <2>2, Zenon
<1> DEFINE B == {read_block(h, i - 1) : i \in 1 .. Len(f)}
<1>4. InTable(sst) = UNION {Range(b[1].data) : b \in B \ {<<>>}}
  BY <1>1, <1>3, Zenon DEF InTable
<1>5. \A i \in 1 .. Len(f) : <<f[i].block>> # <<>> /\ <<f[i].block>>[1] = f[i].block
  OBVIOUS
<1>6. InTable(sst) = UNION {Range(f[i].block.data) : i \in 1 .. Len(f)}
  <2>1. ASSUME NEW x PROVE x \in InTable(sst) <=> \E i \in 1 .. Len(f) : x \in Range(f[i].block.data)
    <3>1. x \in InTable(sst) <=> \E b \in B \ {<<>>} : x \in Range(b[1].data)
      BY <1>4
    <3>2. \A b : b \in B \ {<<>>} <=> \E i \in 1 .. Len(f) : b = <<f[i].block>>
      BY <1>3, <1>5
    <3>3. (\E b \in B \ {<<>>} : x \in Range(b[1].data))
            <=> \E i \in 1 .. Len(f) : x \in Range(<<f[i].block>>[1].data)
      <4> HIDE DEF B
      <4> QED
        BY <3>2, Zenon
    <3>4. (\E i \in 1 .. Len(f) : x \in Range(<<f[i].block>>[1].data))
            <=> \E i \in 1 .. Len(f) : x \in Range(f[i].block.data)
      BY <1>5, Zenon
    <3> QED
      BY <3>1, <3>3, <3>4, Zenon
  <2> QED
    BY <2>1
<1>7. PICK x \in Seq(Seq(TableRecord)) : x = DataOf(f) /\ Len(x) = Len(f)
  BY <1>2, DataOfSeq, Zenon DEF WriterOK
<1>8. \A i \in 1 .. Len(f) : x[i] = f[i].block.data
  <2>1. DOMAIN f = 1 .. Len(f)
    BY <1>2, SegmentLens, Zenon DEF WriterOK, Laid
  <2> QED
    BY <1>7, <2>1, Zenon DEF DataOf
<1>9. Range(FlattenSeq(x)) = UNION {Range(x[i]) : i \in 1 .. Len(x)}
  BY FlattenRange
<1>10. UNION {Range(x[i]) : i \in 1 .. Len(x)} = UNION {Range(f[i].block.data) : i \in 1 .. Len(f)}
  BY <1>7, <1>8
<1>11. Contents(u) = FlattenSeq(x)
  <2>1. PICK y \in Seq(TableRecord) : y = FlattenSeq(x)
    BY FlattenType, Zenon
  <2>2. Contents(u) = y \o <<>>
    BY <1>2, <1>7, <2>1, Zenon DEF Contents
  <2>3. y \o <<>> = y
    OBVIOUS
  <2> QED
    BY <2>1, <2>2, <2>3, Zenon
<1> QED
  BY <1>6, <1>9, <1>10, <1>11, Zenon

\* Every record of the set has its place in the order.
LEMMA SortedRange ==
  ASSUME NEW S \in SUBSET LogRecord, Keyed(S)
  PROVE  Sorted(S) \in Seq(S) /\ Range(Sorted(S)) = S
<1>1. PICK s, n : s = Sorted(S) /\ n = Cardinality(S)
  OBVIOUS
<1>2. n \in Nat /\ InOrder(s, S, n) /\ s \in Seq(S)
  BY <1>1, SortedOrder, Zenon
<1>3. s \in [1 .. n -> S] /\ \A i, j \in 1 .. n : i < j => KeyLess(s[i].key, s[j].key)
  BY <1>2, Zenon DEF InOrder
<1>4. ASSUME NEW i \in 1 .. n, NEW j \in 1 .. n, i < j PROVE s[i] # s[j]
  <2>1. KeyLess(s[i].key, s[j].key) /\ s[i] \in S
    BY <1>3, <1>4
  <2>2. PICK k \in Key : k = s[i].key
    BY <2>1 DEF LogRecord
  <2>3. ~KeyLess(k, k)
    BY DEF KeyLess, Key
  <2> QED
    BY <2>1, <2>2, <2>3
<1>5. ASSUME NEW i \in 1 .. n, NEW j \in 1 .. n, i # j PROVE s[i] # s[j]
  <2>1. i < j \/ j < i
    BY <1>2, <1>5
  <2> QED
    BY <1>4, <2>1
<1>6. ASSUME NEW y \in S, y \notin Range(s) PROVE FALSE
  <2>1. s \in [1 .. n -> S \ {y}]
    BY <1>3, <1>6 DEF Range
  <2>2. IsFiniteSet(S \ {y}) /\ Cardinality(S \ {y}) = n - 1
    BY <1>1, FS_RemoveElement DEF Keyed
  <2>3. n # 0
    BY <1>1, FS_EmptySet DEF Keyed
  <2>4. IsFiniteSet(1 .. n) /\ Cardinality(1 .. n) = n
    <3>1. n \in Int /\ 1 \in Int /\ ~(1 > n) /\ n - 1 + 1 = n
      BY <1>2, <2>3
    <3> QED
      BY <3>1, FS_Interval
  <2>5. Cardinality(S \ {y}) < Cardinality(1 .. n)
    BY <1>2, <2>2, <2>4
  <2>6. \E i, j \in 1 .. n : i # j /\ s[i] = s[j]
    <3>1. PICK D, R : D = 1 .. n /\ R = S \ {y}
      OBVIOUS
    <3>2. s \in [D -> R] /\ IsFiniteSet(D) /\ IsFiniteSet(R) /\ Cardinality(R) < Cardinality(D)
      BY <2>1, <2>2, <2>4, <2>5, <3>1
    <3>3. \E i, j \in D : i # j /\ s[i] = s[j]
      BY <3>2, FS_PigeonHole, Zenon
    <3> QED
      BY <3>1, <3>3
  <2> QED
    BY <1>5, <2>6
<1>7. Range(s) = S
  BY <1>3, <1>6 DEF Range
<1> QED
  BY <1>1, <1>2, <1>7, Zenon

LEMMA SortedOrdered ==
  ASSUME NEW S \in SUBSET LogRecord, Keyed(S)
  PROVE  Ordered(Sorted(S)) /\ Sorted(S) \in Seq(TableRecord)
<1>1. PICK s, n : s = Sorted(S) /\ n = Cardinality(S)
  OBVIOUS
<1>2. n \in Nat /\ InOrder(s, S, n) /\ s \in Seq(S)
  BY <1>1, SortedOrder, Zenon
<1>3. s \in [1 .. n -> S] /\ \A i, j \in 1 .. n : i < j => KeyLess(s[i].key, s[j].key)
  BY <1>2, Zenon DEF InOrder
<1>4. Len(s) = n
  BY <1>2, <1>3
<1>5. Ordered(s)
  BY <1>3, <1>4, Zenon DEF Ordered
<1>6. S \subseteq TableRecord
  BY DEF LogRecord, TableRecord
<1>7. s \in Seq(TableRecord)
  BY <1>2, <1>6
<1> QED
  BY <1>1, <1>5, <1>7, Zenon

\* A table whose blocks give its records in the order of their keys.
Readable(sst) == \E s, o : Table(sst.handle, s, o) /\ Range(s) = InTable(sst)

\* The records a flush writes.
Between(mt) == {r \in mt.set : InRange(r.key, mt.first_key[1], mt.last_key[1])}

\* The table of a memtable.
LEMMA TableWritten ==
  ASSUME NEW mt, mt.set \in SUBSET LogRecord, Keyed(mt.set), write_table(mt).out = "ok",
         NEW sst, sst.handle = write_table(mt).handle
  PROVE  InTable(sst) = Between(mt) /\ Readable(sst)
<1>1. PICK S : S = Between(mt)
  OBVIOUS
<1>2. S \in SUBSET LogRecord /\ Keyed(S)
  <2>1. S \in SUBSET mt.set
    BY <1>1 DEF Between
  <2>2. IsFiniteSet(S)
    BY <2>1, FS_Subset DEF Keyed
  <2> QED
    BY <2>1, <2>2 DEF Keyed
<1>3. PICK recs : recs = memtable_range(mt, mt.first_key[1], mt.last_key[1])
  OBVIOUS
<1>4. recs \in Seq(S) /\ Range(recs) = S /\ Ordered(recs)
  <2>1. recs = Sorted(S)
    BY <1>1, <1>3, Zenon DEF memtable_range, Between
  <2> QED
    BY <1>2, <2>1, SortedRange, SortedOrdered, Zenon
<1>5. recs \in Seq(TableRecord)
  <2>1. S \subseteq TableRecord
    BY <1>2 DEF LogRecord, TableRecord
  <2> QED
    BY <1>4, <2>1
<1>6. PICK acc : acc = write_all(recs)
  OBVIOUS
<1>7. write_table(mt) = finish_writes(acc)
  <2>1. CASE RangePanics(mt, mt.first_key[1], mt.last_key[1])
    <3>1. write_table(mt) = [out |-> "panic"]
      BY <2>1, Zenon DEF write_table
    <3>2. write_table(mt).out = "panic"
      BY <3>1
    <3> QED
      BY <3>2
  <2>2. CASE ~RangePanics(mt, mt.first_key[1], mt.last_key[1])
    BY <1>3, <1>6, <2>2, Zenon DEF write_table
  <2> QED
    BY <2>1, <2>2
<1>8. acc.out = "ok" /\ write_table(mt) = finish(finalize(acc.w))
  <2>1. CASE acc.out = "ok"
    BY <1>7, <2>1, Zenon DEF finish_writes
  <2>2. CASE acc.out # "ok"
    <3>1. write_table(mt) = [out |-> acc.out]
      BY <1>7, <2>2, Zenon DEF finish_writes
    <3>2. write_table(mt).out = acc.out
      BY <3>1
    <3> QED
      BY <2>2, <3>2
  <2> QED
    BY <2>1, <2>2
<1>9. PICK done : done = finalize(acc.w)
  OBVIOUS
<1>10. done.out = "ok" /\ write_table(mt).handle = finalize_file(done.w)
  <2>1. CASE done.out = "ok"
    <3>1. write_table(mt) = [out |-> "ok", handle |-> finalize_file(done.w)]
      BY <1>8, <1>9, <2>1, Zenon DEF finish
    <3>2. write_table(mt).handle = finalize_file(done.w)
      BY <3>1
    <3> QED
      BY <2>1, <3>2
  <2>2. CASE done.out # "ok"
    <3>1. write_table(mt) = [out |-> done.out]
      BY <1>8, <1>9, <2>2, Zenon DEF finish
    <3>2. write_table(mt).out = done.out
      BY <3>1
    <3> QED
      BY <2>2, <3>2
  <2> QED
    BY <2>1, <2>2
<1>11. WriterOK(acc.w) /\ Contents(acc.w) = recs
  BY <1>5, <1>6, <1>8, WriteAll, Zenon
<1>12. PICK v : v = acc.w
  OBVIOUS
<1>13. PICK u : WriterOK(u) /\ Contents(u) = Contents(v) /\ u.bw.buffer = <<>> /\ Closed(u, finalize(v).w)
  BY <1>9, <1>10, <1>11, <1>12, FinalizeWriter, Zenon
<1>14. sst.handle = finalize_file(finalize(v).w)
  BY <1>9, <1>10, <1>12, Zenon
<1>15. InTable(sst) = Range(Contents(u))
  BY <1>13, <1>14, FinishedTable, Zenon
<1>16. InTable(sst) = Between(mt) /\ Contents(u) = recs
  BY <1>1, <1>4, <1>11, <1>12, <1>13, <1>15, Zenon
<1>17. PICK x, h : x = finalize(v).w /\ h = sst.handle
  OBVIOUS
<1>18. Closed(u, x) /\ h = finalize_file(x)
  BY <1>13, <1>14, <1>17, Zenon
<1>19. \E o : Table(h, recs, o)
  BY <1>4, <1>13, <1>16, <1>18, TableHolds
<1>20. Readable(sst)
  BY <1>15, <1>16, <1>17, <1>19, Zenon DEF Readable
<1> QED
  BY <1>16, <1>20

-----------------------------------------------------------------------------
(* The log comes first.                                                      *)

\* A table does not change.
LEMMA TableSame == \A sst : InTable(sst)' = InTable(sst)
BY DEF InTable, read_block, ReadAt, StartOf, FileLen, Total, decode_block, OffsetsIncrease, RecordEnd,
       DataLen, wire_len, KEY_SIZE, SZ_U32, MIN_RECORD_WIRE_LENGTH, MAX_RECORD_WIRE_LENGTH

LEMMA KeyedSubset ==
  ASSUME NEW S, Keyed(S), NEW R \in SUBSET S
  PROVE  Keyed(R)
<1>1. IsFiniteSet(R)
  BY FS_Subset DEF Keyed
<1> QED
  BY <1>1 DEF Keyed

LEMMA KeyedSame == \A S : Keyed(S)' = Keyed(S)
BY DEF Keyed

\* The records of the active memtable are records.
LEMMA ActiveType ==
  ASSUME TreeTypeOK
  PROVE  Active \subseteq LogRecord
<1>1. memtable.set \subseteq LogRecord
  BY DEF TreeTypeOK, Memtable
<1>2. CASE call.pc = "flush"
  <2>1. call.rejected \in Seq(LogRecord)
    BY <1>2 DEF TreeTypeOK
  <2>2. Range(call.rejected) \subseteq LogRecord
    BY <2>1 DEF Range
  <2> QED
    BY <1>1, <2>2 DEF Active
<1>3. CASE call.pc # "flush"
  BY <1>1, <1>3 DEF Active
<1> QED
  BY <1>2, <1>3

\* A payload's record, and what becomes of it.
Appended(r) ==
  /\ r \in LogRecord /\ r.key.sequence_num = counters.seq_num /\ r.key.source_id = 0
  /\ \/ /\ io = "down" /\ call' = Idle
        /\ UNCHANGED <<memtable, io_rx, history>>
     \/ /\ io_rx' = Append(io_rx, AppendWal(r))
        /\ call' = [pc |-> "flush", rejected |-> <<r>>]
        /\ UNCHANGED <<memtable, history>>
     \/ /\ io_rx' = Append(io_rx, AppendWal(r))
        /\ call' \in {call, [pc |-> "flush", rejected |-> <<>>]}
        /\ memtable' = Inserted(memtable, r) /\ history' = Place(r, memtable)

LEMMA PayloadAppended ==
  ASSUME TreeTypeOK, NEW p \in Payloads, NEW time \in Clock, AppendPayload(p, time)
  PROVE  \E r : Appended(r) /\ ResolveStream(p, StreamOf(r))
<1>1. PICK stream \in DOMAIN labelmap_by_stream \cup {counters.stream_id} :
        /\ ResolveStream(p, stream)
        /\ LET r == [key |-> [stream_id |-> stream, timestamp |-> time,
                              sequence_num |-> counters.seq_num, source_id |-> 0],
                     len |-> p.len]
               done == append(memtable, r)
           IN IF io = "down"
              THEN /\ call' = Idle
                   /\ UNCHANGED <<memtable, io_rx, history>>
              ELSE /\ send(AppendWal(r))
                   /\ memtable' = done.mt
                   /\ call' = IF done.out = "Full"
                              THEN [pc |-> "flush", rejected |-> done.rejected] ELSE call
                   /\ history' = IF done.rejected = <<>> THEN Place(r, memtable) ELSE history
  BY DEF AppendPayload
<1> DEFINE r == [key |-> [stream_id |-> stream, timestamp |-> time,
                          sequence_num |-> counters.seq_num, source_id |-> 0],
                 len |-> p.len]
           done == append(memtable, r)
<1>2. /\ counters \in [memtable_id : Nat, stream_id : Nat, seq_num : Nat]
      /\ DOMAIN labelmap_by_stream \subseteq Nat /\ memtable \in Memtable
      /\ stream \in Nat /\ time \in Nat /\ p.len \in Nat
  BY LsmAssumption DEF TreeTypeOK
<1>3. /\ r \in LogRecord /\ r.key.sequence_num = counters.seq_num /\ r.key.source_id = 0
      /\ StreamOf(r) = stream
  BY <1>2 DEF LogRecord, Key, StreamOf
<1> HIDE DEF r
<1>4. \/ done.mt = memtable /\ done.rejected = <<r>> /\ done.out = "Full"
      \/ done.mt = Inserted(memtable, r) /\ done.rejected = <<>> /\ done.out \in {"Full", "Ok"}
  BY DEF append
<1> HIDE DEF done
<1>5. Appended(r)
  <2>1. CASE io = "down"
    <3>1. call' = Idle /\ UNCHANGED <<memtable, io_rx, history>>
      BY <1>1, <2>1 DEF r, done
    <3> QED
      BY <1>3, <2>1, <3>1 DEF Appended
  <2>2. CASE io # "down"
    <3>1. /\ io_rx' = Append(io_rx, AppendWal(r)) /\ memtable' = done.mt
          /\ call' = IF done.out = "Full"
                     THEN [pc |-> "flush", rejected |-> done.rejected] ELSE call
          /\ history' = IF done.rejected = <<>> THEN Place(r, memtable) ELSE history
      BY <1>1, <2>2 DEF r, done, send
    <3>2. CASE done.mt = memtable /\ done.rejected = <<r>> /\ done.out = "Full"
      <4>1. <<r>> # <<>>
        OBVIOUS
      <4> QED
        BY <1>3, <3>1, <3>2, <4>1 DEF Appended
    <3>3. CASE done.mt = Inserted(memtable, r) /\ done.rejected = <<>> /\ done.out \in {"Full", "Ok"}
      <4>1. call' \in {call, [pc |-> "flush", rejected |-> <<>>]}
        BY <3>1, <3>3
      <4> QED
        BY <1>3, <3>1, <3>3, <4>1 DEF Appended
    <3> QED
      BY <1>4, <3>2, <3>3
  <2> QED
    BY <2>1, <2>2
<1> QED
  BY <1>1, <1>3, <1>5, Zenon

\* The set and the keys of a memtable with one more record.
LEMMA InsertedSet ==
  ASSUME NEW mt \in Memtable, NEW r
  PROVE  /\ Inserted(mt, r).set = mt.set \cup {r} /\ Inserted(mt, r).id = mt.id
         /\ Inserted(mt, r).first_key = (IF mt.first_key = <<>> THEN <<r.key>> ELSE mt.first_key)
         /\ Inserted(mt, r).last_key = <<r.key>>
BY DEF Inserted, Memtable

\* issue_flush: the new memtable holds at most the rejected record.
LEMMA FlushRenews ==
  ASSUME TreeTypeOK, IssueFlush
  PROVE  /\ memtable' \in {with_size_limit(counters.memtable_id),
                           Inserted(with_size_limit(counters.memtable_id), call.rejected[1])}
         /\ io # "down" => memtable' = IF call.rejected = <<>> THEN with_size_limit(counters.memtable_id)
                                       ELSE Inserted(with_size_limit(counters.memtable_id), call.rejected[1])
         /\ io = "down" => memtable' = with_size_limit(counters.memtable_id)
<1>1. PICK fresh, r : fresh = with_size_limit(counters.memtable_id) /\ r = call.rejected[1]
  OBVIOUS
<1>2. ~Rejects(fresh, r)
  <2>1. fresh.size_bytes = 0
    BY <1>1 DEF with_size_limit
  <2> QED
    BY <2>1 DEF Rejects
<1>3. append(fresh, r).mt = Inserted(fresh, r)
  BY <1>2 DEF append
<1>4. /\ io = "down" => memtable' = fresh
      /\ io # "down" => memtable' = IF call.rejected = <<>> THEN fresh ELSE append(fresh, r).mt
  BY <1>1, Zenon DEF IssueFlush
<1> QED
  BY <1>1, <1>3, <1>4, Zenon

\* An event is only sent: what was on its way still is.
LEMMA SentLogged ==
  ASSUME QueueOK, io_rx' = io_rx \/ \E ev : io_rx' = Append(io_rx, ev),
         history.unlogged \subseteq history'.unlogged, wal' = wal, NEW r, NEW j, LoggedBy(r, j)
  PROVE  LoggedBy(r, j)'
<1>0. AppendWal(r)' = AppendWal(r)
  BY DEF AppendWal
<1>1. CASE r \in history.unlogged \cup Range(wal)
  BY <1>1 DEF LoggedBy
<1>2. CASE \E i \in DOMAIN io_rx : i < j /\ io_rx[i] = AppendWal(r)
  <2>1. PICK i \in DOMAIN io_rx : i < j /\ io_rx[i] = AppendWal(r)
    BY <1>2
  <2>2. i \in DOMAIN io_rx' /\ io_rx'[i] = io_rx[i]
    <3>1. CASE io_rx' = io_rx
      BY <3>1
    <3>2. ASSUME NEW ev, io_rx' = Append(io_rx, ev) PROVE i \in DOMAIN io_rx' /\ io_rx'[i] = io_rx[i]
      <4>1. /\ Len(io_rx) \in Nat /\ DOMAIN io_rx = 1 .. Len(io_rx)
            /\ DOMAIN io_rx' = 1 .. (Len(io_rx) + 1)
            /\ \A k \in DOMAIN io_rx : io_rx'[k] = io_rx[k]
        BY <3>2, AppendOwn DEF QueueOK, Pending
      <4> QED
        BY <4>1
    <3> QED
      BY <3>1, <3>2
  <2> QED
    BY <1>0, <2>1, <2>2 DEF LoggedBy
<1> QED
  BY <1>1, <1>2 DEF LoggedBy

\* An event is taken: the record of an AppendWal has been handled.
LEMMA TakenLogged ==
  ASSUME QueueOK, io_rx # <<>>, io_rx' = Tail(io_rx),
         history.unlogged \subseteq history'.unlogged, Range(wal) \subseteq Range(wal'),
         NEW r, Head(io_rx) = AppendWal(r) => r \in history'.unlogged \cup Range(wal'),
         NEW j \in Nat, LoggedBy(r, j + 1)
  PROVE  LoggedBy(r, j)'
<1>0. AppendWal(r)' = AppendWal(r)
  BY DEF AppendWal
<1>1. CASE r \in history.unlogged \cup Range(wal)
  BY <1>1 DEF LoggedBy
<1>2. CASE \E i \in DOMAIN io_rx : i < j + 1 /\ io_rx[i] = AppendWal(r)
  <2>1. PICK i \in DOMAIN io_rx : i < j + 1 /\ io_rx[i] = AppendWal(r)
    BY <1>2
  <2>2. /\ Len(io_rx) \in Nat \ {0} /\ DOMAIN io_rx = 1 .. Len(io_rx) /\ Head(io_rx) = io_rx[1]
        /\ \A k \in DOMAIN io_rx : k # 1 => k - 1 \in DOMAIN io_rx' /\ io_rx'[k - 1] = io_rx[k]
    BY TailOwn DEF QueueOK, Pending
  <2>3. CASE i = 1
    BY <2>1, <2>2, <2>3 DEF LoggedBy
  <2>4. CASE i # 1
    <3>1. i - 1 \in DOMAIN io_rx' /\ io_rx'[i - 1] = AppendWal(r) /\ i - 1 < j
      BY <2>1, <2>2, <2>4
    <3> QED
      BY <1>0, <3>1 DEF LoggedBy
  <2> QED
    BY <2>3, <2>4
<1> QED
  BY <1>1, <1>2 DEF LoggedBy

\* The length of the queue after a send.
LEMMA SentLength ==
  ASSUME QueueOK, io_rx' = io_rx \/ \E ev : io_rx' = Append(io_rx, ev)
  PROVE  Len(io_rx) \in Nat /\ Len(io_rx') \in Nat /\ Len(io_rx) <= Len(io_rx')
<1>1. io_rx \in Seq(Range(io_rx))
  BY DEF QueueOK, Pending
<1>2. Len(io_rx) \in Nat
  BY <1>1
<1>3. CASE io_rx' = io_rx
  BY <1>2, <1>3
<1>4. ASSUME NEW ev, io_rx' = Append(io_rx, ev) PROVE Len(io_rx') \in Nat /\ Len(io_rx) <= Len(io_rx')
  <2>1. io_rx' \in Seq(Range(io_rx')) /\ DOMAIN io_rx' = 1 .. (Len(io_rx) + 1)
    BY <1>1, <1>4, AppendOwn
  <2>2. DOMAIN io_rx' = 1 .. Len(io_rx') /\ Len(io_rx') \in Nat
    BY <2>1
  <2> QED
    BY <1>2, <2>1, <2>2
<1> QED
  BY <1>2, <1>3, <1>4

LEMMA LoggedLater ==
  ASSUME NEW r, NEW j \in Nat, NEW k \in Nat, j <= k, LoggedBy(r, j), QueueOK
  PROVE  LoggedBy(r, k)
<1>1. DOMAIN io_rx \subseteq Nat
  <2>1. io_rx \in Seq(Range(io_rx))
    BY DEF QueueOK, Pending
  <2> QED
    BY <2>1
<1> QED
  BY <1>1 DEF LoggedBy

\* The tree's steps, all but the append of a record: at most a flush is sent, of
\* records on their way.
Sends ==
  /\ io_rx' = io_rx \/ \E ev : io_rx' = Append(io_rx, ev)
  /\ history'.unlogged = history.unlogged /\ wal' = wal
  /\ counters.seq_num <= counters'.seq_num

FlushLogged(ev) == IsFlush(ev) => Keyed(ev.memtable.set) /\ \A r \in ev.memtable.set : LoggedBy(r, Len(io_rx) + 1)

LEMMA ActiveKept ==
  ASSUME TreeTypeOK, TreeTypeOK', ActiveLogged, Sends, Active' \subseteq Active
  PROVE  ActiveLogged'
<1>1. QueueOK /\ QueueOK' /\ counters.seq_num \in Nat /\ counters'.seq_num \in Nat
  BY DEF TreeTypeOK, QueueOK
<1>2. Keyed(Active)'
  <2>1. Keyed(Active')
    BY KeyedSubset DEF ActiveLogged
  <2> QED
    BY <2>1 DEF Keyed
<1>3. ASSUME NEW r \in Active' PROVE r.key.sequence_num < counters'.seq_num /\ LoggedBy(r, Len(io_rx) + 1)'
  <2>1. r \in Active /\ r.key.sequence_num < counters.seq_num /\ LoggedBy(r, Len(io_rx) + 1)
    BY DEF ActiveLogged
  <2>2. r.key.sequence_num \in Nat
    BY <2>1, ActiveType DEF LogRecord, Key
  <2>3. r.key.sequence_num < counters'.seq_num
    BY <1>1, <2>1, <2>2 DEF Sends
  <2>4. PICK m, n : m = Len(io_rx) + 1 /\ n = Len(io_rx') + 1
    OBVIOUS
  <2>5. m \in Nat /\ n \in Nat /\ m <= n
    BY <1>1, <2>4, SentLength DEF Sends
  <2>6. LoggedBy(r, m)'
    BY <1>1, <2>1, <2>4, SentLogged DEF Sends
  <2>7. LoggedBy(r, n)'
    <3>1. DOMAIN io_rx' \subseteq Nat
      <4>1. io_rx' \in Seq(Range(io_rx'))
        BY <1>1 DEF QueueOK, Pending
      <4> QED
        BY <4>1
    <3> QED
      BY <2>5, <2>6, <3>1 DEF LoggedBy
  <2> QED
    BY <2>3, <2>4, <2>7 DEF LoggedBy
<1> QED
  BY <1>2, <1>3 DEF ActiveLogged

LEMMA QueueKept ==
  ASSUME TreeTypeOK, QueueLogged, Sends,
         io_rx' = io_rx \/ \E ev : io_rx' = Append(io_rx, ev) /\ FlushLogged(ev)
  PROVE  QueueLogged'
<1>1. QueueOK
  BY DEF TreeTypeOK, QueueOK
<1>2. \A r, j : LoggedBy(r, j) => LoggedBy(r, j)'
  BY <1>1, SentLogged DEF Sends
<1>3. CASE io_rx' = io_rx
  BY <1>2, <1>3 DEF QueueLogged, IsFlush, Keyed
<1>4. ASSUME NEW ev, io_rx' = Append(io_rx, ev), FlushLogged(ev) PROVE QueueLogged'
  <2>1. /\ Len(io_rx) \in Nat /\ DOMAIN io_rx = 1 .. Len(io_rx)
        /\ DOMAIN io_rx' = 1 .. (Len(io_rx) + 1) /\ io_rx'[Len(io_rx) + 1] = ev
        /\ \A k \in DOMAIN io_rx : io_rx'[k] = io_rx[k]
    BY <1>1, <1>4, AppendOwn DEF QueueOK, Pending
  <2>2. ASSUME NEW j \in DOMAIN io_rx', IsFlush(io_rx'[j])
        PROVE  Keyed(io_rx'[j].memtable.set) /\ \A r \in io_rx'[j].memtable.set : LoggedBy(r, j)'
    <3>1. CASE j = Len(io_rx) + 1
      BY <1>2, <1>4, <2>1, <2>2, <3>1, Zenon DEF FlushLogged
    <3>2. CASE j # Len(io_rx) + 1
      <4>1. j \in DOMAIN io_rx
        BY <2>1, <3>2
      <4> QED
        BY <1>2, <2>1, <2>2, <4>1, Zenon DEF QueueLogged
    <3> QED
      BY <3>1, <3>2
  <2> QED
    BY <2>2 DEF QueueLogged, IsFlush, Keyed
<1> QED
  BY <1>3, <1>4

LEMMA FirstKept ==
  ASSUME LogFirst, Tables' \subseteq Tables, history.unlogged \subseteq history'.unlogged,
         Range(wal) \subseteq Range(wal')
  PROVE  LogFirst'
<1>1. ASSUME NEW sst \in Tables', NEW r \in InTable(sst)' PROVE r \in history'.unlogged \cup Range(wal')
  <2>1. r \in InTable(sst)
    BY TableSame
  <2> QED
    BY <2>1 DEF LogFirst
<1> QED
  BY <1>1 DEF LogFirst

LEMMA FsyncNoFlush == FlushLogged(FsyncWal) /\ \A r : FlushLogged(AppendWal(r))
BY EventFacts DEF FlushLogged, IsFlush

\* A step of the tree that appends no record.
LEMMA TreeBefore ==
  ASSUME TreeTypeOK, TreeTypeOK', LogBeforeFlush, Sends, Active' \subseteq Active, Tables' \subseteq Tables,
         sst_handles' \in Seq(Range(sst_handles')),
         io_rx' = io_rx \/ \E ev : io_rx' = Append(io_rx, ev) /\ FlushLogged(ev)
  PROVE  LogBeforeFlush'
<1>1. ActiveLogged /\ QueueLogged /\ LogFirst
  BY DEF LogBeforeFlush
<1>2. ActiveLogged'
  BY <1>1, ActiveKept
<1>3. QueueLogged'
  BY <1>1, QueueKept
<1>4. LogFirst'
  BY <1>1, FirstKept DEF Sends
<1> QED
  BY <1>2, <1>3, <1>4 DEF LogBeforeFlush

LEMMA QuietBefore ==
  ASSUME TreeTypeOK, TreeTypeOK', LogBeforeFlush,
         \/ BeginBatch \/ EndBatch \/ EndDrain \/ UNCHANGED vars
         \/ \E p \in Payloads : RefusePayload(p) \/ StreamPanics(p)
  PROVE  LogBeforeFlush'
<1>0. history \in History /\ counters \in [memtable_id : Nat, stream_id : Nat, seq_num : Nat]
  BY DEF TreeTypeOK
<1>1. /\ UNCHANGED <<wal, memtable, sst_handles, flush_results>> /\ history'.unlogged = history.unlogged
      /\ counters'.seq_num = counters.seq_num
      /\ io_rx' = io_rx \/ io_rx' = Append(io_rx, FsyncWal)
      /\ call' = call \/ call'.pc # "flush"
  <2>1. CASE BeginBatch
    BY <1>0, <2>1 DEF BeginBatch, History, tables, ioVars
  <2>2. CASE EndBatch
    BY <1>0, <2>2 DEF EndBatch, History, tables, ioVars, send, Idle
  <2>3. CASE EndDrain
    BY <2>3 DEF EndDrain, tables, ioVars, Idle
  <2>4. CASE UNCHANGED vars
    BY <2>4 DEF vars
  <2>5. ASSUME NEW p \in Payloads, RefusePayload(p)
        PROVE  /\ UNCHANGED <<wal, memtable, sst_handles, flush_results>> /\ history'.unlogged = history.unlogged
               /\ counters'.seq_num = counters.seq_num
               /\ io_rx' = io_rx /\ call'.pc # "flush"
    BY <2>5 DEF RefusePayload, tables, ioVars, Idle
  <2>6. ASSUME NEW p \in Payloads, StreamPanics(p)
        PROVE  /\ UNCHANGED <<wal, memtable, sst_handles, flush_results>> /\ history'.unlogged = history.unlogged
               /\ counters'.seq_num = counters.seq_num
               /\ io_rx' = io_rx /\ call'.pc # "flush"
    BY <1>0, <2>6 DEF StreamPanics, tables, ioVars
  <2> QED
    BY <2>1, <2>2, <2>3, <2>4, <2>5, <2>6
<1>2. Sends
  <2>1. counters'.seq_num = counters.seq_num /\ counters.seq_num \in Nat
    BY <1>0, <1>1
  <2> QED
    BY <1>1, <2>1 DEF Sends
<1>3. Active' \subseteq Active
  BY <1>1 DEF Active
<1>4. Tables' \subseteq Tables /\ sst_handles' \in Seq(Range(sst_handles'))
  BY <1>1 DEF Tables, LogBeforeFlush
<1>5. io_rx' = io_rx \/ \E ev : io_rx' = Append(io_rx, ev) /\ FlushLogged(ev)
  BY <1>1, FsyncNoFlush
<1> QED
  BY <1>2, <1>3, <1>4, <1>5, TreeBefore

\* The tables when a handle is drained.
LEMMA DrainedTables ==
  ASSUME sst_handles \in Seq(Range(sst_handles)), flush_results \in Seq(Range(flush_results)), DrainSstQueue
  PROVE  /\ sst_handles' \in Seq(Range(sst_handles')) /\ Tables' = Tables
         /\ Head(flush_results) \in Range(sst_handles')
<1>1. /\ flush_results # <<>> /\ flush_results' = Tail(flush_results)
      /\ sst_handles' = Append(sst_handles, Head(flush_results))
  BY DEF DrainSstQueue, drain_one
<1>2. /\ sst_handles' \in Seq(Range(sst_handles'))
      /\ Range(sst_handles') = Range(sst_handles) \cup {Head(flush_results)}
  BY <1>1, AppendOwn
<1>3. Range(flush_results) = {Head(flush_results)} \cup Range(flush_results')
  <2>1. /\ DOMAIN flush_results = 1 .. Len(flush_results) /\ Len(flush_results) \in Nat \ {0}
        /\ Head(flush_results) = flush_results[1]
        /\ \A i \in DOMAIN flush_results' : i + 1 \in DOMAIN flush_results /\ flush_results'[i] = flush_results[i + 1]
        /\ \A i \in DOMAIN flush_results : i # 1 => i - 1 \in DOMAIN flush_results' /\ flush_results'[i - 1] = flush_results[i]
    BY <1>1, TailOwn
  <2>2. 1 \in DOMAIN flush_results
    BY <2>1
  <2>3. ASSUME NEW x \in Range(flush_results) PROVE x \in {Head(flush_results)} \cup Range(flush_results')
    BY <2>1, SMTT(30) DEF Range
  <2>4. ASSUME NEW x \in {Head(flush_results)} \cup Range(flush_results') PROVE x \in Range(flush_results)
    BY <2>1, <2>2 DEF Range
  <2> QED
    BY <2>3, <2>4
<1> QED
  BY <1>2, <1>3 DEF Tables

LEMMA DrainBefore ==
  ASSUME TreeTypeOK, TreeTypeOK', LogBeforeFlush, DrainSstQueue
  PROVE  LogBeforeFlush'
<1>1. UNCHANGED <<wal, memtable, history, counters, io_rx>> /\ counters.seq_num \in Nat
  BY DEF DrainSstQueue, TreeTypeOK
<1>2. call'.pc # "flush"
  BY DEF DrainSstQueue, Draining
<1>3. Active' \subseteq Active
  BY <1>1, <1>2 DEF Active
<1>4. sst_handles' \in Seq(Range(sst_handles')) /\ Tables' \subseteq Tables
  BY DrainedTables DEF LogBeforeFlush, TreeTypeOK
<1>5. Sends
  BY <1>1 DEF Sends
<1> QED
  BY <1>1, <1>3, <1>4, <1>5, TreeBefore

\* The active memtable after issue_flush.
LEMMA FlushActive ==
  ASSUME TreeTypeOK, IssueFlush
  PROVE  Active' \subseteq Active
<1>0. memtable \in Memtable /\ QueueOK /\ counters \in [memtable_id : Nat, stream_id : Nat, seq_num : Nat]
      /\ history \in History
  BY DEF TreeTypeOK, QueueOK
<1>1. /\ counters'.seq_num = counters.seq_num
      /\ call.pc = "flush" /\ call.rejected \in Seq(LogRecord)
      /\ \/ io = "down" /\ call' = Idle /\ UNCHANGED <<io_rx, history>>
         \/ /\ io_rx' = Append(io_rx, FlushMemtable(memtable, stream_buffer))
            /\ call' = [pc |-> "append"]
            /\ \/ call.rejected = <<>> /\ history' = history
               \/ /\ call.rejected # <<>> /\ call.rejected[1] \in LogRecord
                  /\ history' = Place(call.rejected[1], with_size_limit(counters.memtable_id))
  BY FlushIssued
<1>2. PICK fresh : fresh = with_size_limit(counters.memtable_id)
  OBVIOUS
<1>3. fresh \in Memtable /\ fresh.set = {}
  BY <1>0, <1>2 DEF with_size_limit, Memtable
<1>4. memtable'.set \subseteq Range(call.rejected)
  <2>1. CASE call.rejected = <<>>
    <3>1. memtable' = fresh
      BY <1>2, <2>1, FlushRenews, Zenon
    <3> QED
      BY <1>3, <3>1
  <2>2. CASE call.rejected # <<>>
    <3>1. call.rejected[1] \in Range(call.rejected)
      BY <1>1, <2>2 DEF Range
    <3>2. memtable' \in {fresh, Inserted(fresh, call.rejected[1])}
      BY <1>2, FlushRenews, Zenon
    <3>3. Inserted(fresh, call.rejected[1]).set = fresh.set \cup {call.rejected[1]}
      BY <1>3, InsertedSet, Zenon
    <3> QED
      BY <1>3, <3>1, <3>2, <3>3
  <2> QED
    BY <2>1, <2>2
<1>5. call'.pc # "flush"
  BY <1>1 DEF Idle
<1> QED
  BY <1>1, <1>4, <1>5 DEF Active

LEMMA IssueBefore ==
  ASSUME TreeTypeOK, TreeTypeOK', LogBeforeFlush, IssueFlush
  PROVE  LogBeforeFlush'
<1>0. memtable \in Memtable /\ QueueOK /\ counters \in [memtable_id : Nat, stream_id : Nat, seq_num : Nat]
      /\ history \in History
  BY DEF TreeTypeOK, QueueOK
<1>1. /\ counters'.seq_num = counters.seq_num
      /\ call.pc = "flush" /\ call.rejected \in Seq(LogRecord)
      /\ \/ io = "down" /\ call' = Idle /\ UNCHANGED <<io_rx, history>>
         \/ /\ io_rx' = Append(io_rx, FlushMemtable(memtable, stream_buffer))
            /\ call' = [pc |-> "append"]
            /\ \/ call.rejected = <<>> /\ history' = history
               \/ /\ call.rejected # <<>> /\ call.rejected[1] \in LogRecord
                  /\ history' = Place(call.rejected[1], with_size_limit(counters.memtable_id))
  BY FlushIssued
<1>2. PICK fresh : fresh = with_size_limit(counters.memtable_id)
  OBVIOUS
<1>3. fresh \in Memtable /\ fresh.set = {}
  BY <1>0, <1>2 DEF with_size_limit, Memtable
<1>6. Active' \subseteq Active
  BY FlushActive
<1>7. /\ UNCHANGED <<wal, sst_handles, flush_results>>
      /\ history'.unlogged = history.unlogged
  <2>1. UNCHANGED <<wal, sst_handles, flush_results>>
    BY DEF IssueFlush, ioVars
  <2>2. history'.unlogged = history.unlogged
    BY <1>1, <1>2, <1>3, PlaceType
  <2> QED
    BY <2>1, <2>2
<1>8. Sends
  BY <1>0, <1>1, <1>7 DEF Sends
<1>9. FlushLogged(FlushMemtable(memtable, stream_buffer))
  <2>1. memtable.set \subseteq Active
    BY DEF Active
  <2>2. Keyed(memtable.set)
    BY <2>1, KeyedSubset DEF LogBeforeFlush, ActiveLogged
  <2>3. \A r \in memtable.set : LoggedBy(r, Len(io_rx) + 1)
    BY <2>1 DEF LogBeforeFlush, ActiveLogged
  <2> QED
    BY <2>2, <2>3, EventFacts, Zenon DEF FlushLogged
<1>10. Tables' \subseteq Tables /\ sst_handles' \in Seq(Range(sst_handles'))
  BY <1>7 DEF Tables, LogBeforeFlush
<1> QED
  BY <1>1, <1>6, <1>8, <1>9, <1>10, TreeBefore

\* A set of records takes one with a number of its own.
LEMMA KeyedInsert ==
  ASSUME NEW S \in SUBSET LogRecord, Keyed(S), NEW r \in LogRecord,
         \A x \in S : x.key.sequence_num # r.key.sequence_num
  PROVE  Keyed(S \cup {r})
<1>1. IsFiniteSet(S \cup {r})
  BY FS_AddElement DEF Keyed
<1> QED
  BY <1>1 DEF Keyed

\* The active memtable with a payload's record, or with the record rejected.
Takes(r) ==
  \/ call' = [pc |-> "flush", rejected |-> <<r>>] /\ memtable' = memtable
  \/ call' \in {call, [pc |-> "flush", rejected |-> <<>>]} /\ memtable' = Inserted(memtable, r)

LEMMA PayloadActive ==
  ASSUME memtable \in Memtable, call.pc = "append", NEW r, Takes(r)
  PROVE  Active' = Active \cup {r}
<1>1. Active = memtable.set
  BY DEF Active
<1>2. CASE call' = [pc |-> "flush", rejected |-> <<r>>] /\ memtable' = memtable
  <2>1. call'.pc = "flush" /\ call'.rejected = <<r>>
    BY <1>2
  <2>2. Range(<<r>>) = {r}
    BY DEF Range
  <2> QED
    BY <1>1, <1>2, <2>1, <2>2 DEF Active
<1>3. CASE call' \in {call, [pc |-> "flush", rejected |-> <<>>]} /\ memtable' = Inserted(memtable, r)
  <2>1. Range(<<>>) = {}
    BY DEF Range
  <2>2. call'.pc # "flush" \/ call'.rejected = <<>>
    BY <1>3
  <2>3. memtable'.set = memtable.set \cup {r}
    BY <1>3, InsertedSet
  <2> QED
    BY <1>1, <2>1, <2>2, <2>3 DEF Active
<1> QED
  BY <1>2, <1>3 DEF Takes

LEMMA PayloadBefore ==
  ASSUME TreeTypeOK, TreeTypeOK', LogBeforeFlush, NEW p \in Payloads, NEW time \in Clock,
         AppendPayload(p, time)
  PROVE  LogBeforeFlush'
<1>0. /\ memtable \in Memtable /\ QueueOK /\ counters.seq_num \in Nat /\ history \in History
  BY DEF TreeTypeOK, QueueOK
<1>1. PICK r : Appended(r)
  BY PayloadAppended
<1>2. /\ counters'.seq_num = counters.seq_num + 1 /\ call.pc = "append"
      /\ UNCHANGED <<tables, ioVars>>
  BY PayloadTaken
<1>3. r \in LogRecord /\ r.key.sequence_num = counters.seq_num
  BY <1>1 DEF Appended
<1>4. UNCHANGED <<wal, sst_handles, flush_results>>
  BY <1>2 DEF tables, ioVars
<1>5. Tables' \subseteq Tables /\ sst_handles' \in Seq(Range(sst_handles'))
  BY <1>4 DEF Tables, LogBeforeFlush
<1>6. history'.unlogged = history.unlogged
  BY <1>0, <1>1, <1>3, PlaceType DEF Appended
<1>7. counters.seq_num <= counters'.seq_num
  BY <1>0, <1>2
<1>8. CASE io = "down" /\ call' = Idle /\ UNCHANGED <<memtable, io_rx, history>>
  <2>1. call'.pc # "flush"
    BY <1>8 DEF Idle
  <2>2. Active' \subseteq Active
    BY <1>8, <2>1 DEF Active
  <2>3. Sends
    BY <1>4, <1>6, <1>7, <1>8 DEF Sends
  <2> QED
    BY <1>5, <1>8, <2>2, <2>3, TreeBefore
<1>9. CASE io_rx' = Append(io_rx, AppendWal(r)) /\ Takes(r)
  <2>1. Active' = Active \cup {r}
    BY <1>0, <1>2, <1>9, PayloadActive
  <2>2. Sends
    BY <1>4, <1>6, <1>7, <1>9 DEF Sends
  <2>3. QueueLogged'
    BY <1>9, <2>2, QueueKept, FsyncNoFlush DEF LogBeforeFlush
  <2>4. LogFirst'
    BY <1>5, <2>2, FirstKept DEF LogBeforeFlush, Sends
  <2>5. ActiveLogged'
    <3>1. Keyed(Active) /\ \A x \in Active : x.key.sequence_num < counters.seq_num /\ LoggedBy(x, Len(io_rx) + 1)
      BY DEF LogBeforeFlush, ActiveLogged
    <3>2. Keyed(Active')
      <4>1. \A x \in Active : x.key.sequence_num # r.key.sequence_num
        BY <1>0, <1>3, <3>1
      <4>2. Active \in SUBSET LogRecord
        BY ActiveType
      <4>3. Keyed(Active \cup {r})
        BY <1>3, <3>1, <4>1, <4>2, KeyedInsert
      <4> QED
        BY <2>1, <4>3
    <3>3. /\ Len(io_rx) \in Nat /\ DOMAIN io_rx = 1 .. Len(io_rx) /\ io_rx' \in Seq(Range(io_rx'))
          /\ DOMAIN io_rx' = 1 .. (Len(io_rx) + 1) /\ io_rx'[Len(io_rx) + 1] = AppendWal(r)
      BY <1>0, <1>9, AppendOwn, SMTT(30) DEF QueueOK, Pending
    <3>4. PICK l \in Nat : l = Len(io_rx)
      BY <3>3, Zenon
    <3>5. Len(io_rx') = l + 1
      BY <3>3, <3>4
    <3>6. ASSUME NEW x \in Active' PROVE x.key.sequence_num < counters'.seq_num /\ LoggedBy(x, Len(io_rx) + 1)'
      <4>1. CASE x = r
        <5>1. AppendWal(r)' = AppendWal(r)
          BY DEF AppendWal
        <5>2. l + 1 \in DOMAIN io_rx' /\ l + 1 < Len(io_rx') + 1 /\ io_rx'[l + 1] = AppendWal(r)
          BY <3>3, <3>4, <3>5
        <5>3. LoggedBy(r, Len(io_rx) + 1)'
          BY <5>1, <5>2 DEF LoggedBy
        <5> QED
          BY <1>0, <1>2, <1>3, <4>1, <5>3
      <4>2. CASE x # r
        <5>1. x \in Active
          BY <2>1, <4>2
        <5>2. x.key.sequence_num \in Nat
          BY <5>1, ActiveType DEF LogRecord, Key
        <5>3. LoggedBy(x, l + 1)
          BY <3>1, <3>4, <5>1
        <5>4. LoggedBy(x, l + 1)'
          BY <1>0, <2>2, <5>3, SentLogged DEF Sends
        <5>5. DOMAIN io_rx' \subseteq Nat
          BY <3>3
        <5>6. LoggedBy(x, Len(io_rx) + 1)'
          BY <3>5, <5>4, <5>5 DEF LoggedBy
        <5> QED
          BY <1>0, <1>7, <3>1, <5>1, <5>2, <5>6, <1>2
      <4> QED
        BY <4>1, <4>2
    <3> QED
      BY <3>2, <3>6 DEF ActiveLogged, Keyed
  <2> QED
    BY <1>5, <2>3, <2>4, <2>5 DEF LogBeforeFlush
<1> QED
  BY <1>1, <1>8, <1>9 DEF Appended, Takes

\* A memtable taken from the channel: what its table holds.
LEMMA TableFlushed ==
  ASSUME TreeTypeOK, IoFlushMemtable
  PROVE  \E mt \in Memtable :
           /\ IsFlush(Head(io_rx)) /\ Head(io_rx).memtable = mt
           /\ \/ /\ write_table(mt).out = "ok"
                 /\ flush_results' = Append(flush_results, [id |-> mt.id, handle |-> write_table(mt).handle])
                 /\ manifest' = manifest \o (<<MemtableFlush(mt.id)>> \o Head(io_rx).entries)
                 /\ UNCHANGED <<io, history>>
              \/ /\ history' = [history EXCEPT !.failed = history.failed \cup {mt.id}]
                 /\ UNCHANGED <<io, flush_results>>
              \/ io' = "down" /\ UNCHANGED <<flush_results, history, manifest>>
<1>1. PICK mt \in Memtable : IsFlush(Head(io_rx)) /\ Head(io_rx).memtable = mt
  BY MemtableFlushed
<1>2. \/ /\ write_table(mt).out = "ok"
         /\ flush_results' = Append(flush_results, [id |-> mt.id, handle |-> write_table(mt).handle])
         /\ manifest' = manifest \o (<<MemtableFlush(mt.id)>> \o Head(io_rx).entries)
         /\ UNCHANGED <<io, history>>
      \/ /\ history' = [history EXCEPT !.failed = history.failed \cup {mt.id}]
         /\ UNCHANGED <<io, flush_results>>
      \/ io' = "down" /\ UNCHANGED <<flush_results, history, manifest>>
  BY <1>1, ZenonT(60) DEF IoFlushMemtable, FlushFails
<1> QED
  BY <1>1, <1>2

\* The table of a memtable has the records between its first and its last key.
LEMMA NewTable ==
  ASSUME QueueOK, QueueLogged, io_rx # <<>>, flush_results \in Seq(Range(flush_results)),
         sst_handles' = sst_handles,
         NEW mt \in Memtable, IsFlush(Head(io_rx)), Head(io_rx).memtable = mt, write_table(mt).out = "ok",
         flush_results' = Append(flush_results, [id |-> mt.id, handle |-> write_table(mt).handle])
  PROVE  \E sst : /\ Tables' = Tables \cup {sst} /\ InTable(sst) = Between(mt)
                  /\ Range(flush_results') = Range(flush_results) \cup {sst} /\ sst.id = mt.id
                  /\ Readable(sst)
<1>1. PICK sst : sst = [id |-> mt.id, handle |-> write_table(mt).handle]
  OBVIOUS
<1>2. sst.handle = write_table(mt).handle /\ sst.id = mt.id
  BY <1>1
<1>3. Range(flush_results') = Range(flush_results) \cup {sst}
  BY <1>1, AppendOwn
<1>4. Tables' = Tables \cup {sst}
  BY <1>3 DEF Tables
<1>5. 1 \in DOMAIN io_rx /\ io_rx[1] = Head(io_rx)
  <2>1. Len(io_rx) \in Nat \ {0} /\ DOMAIN io_rx = 1 .. Len(io_rx) /\ Head(io_rx) = io_rx[1]
    BY TailOwn DEF QueueOK, Pending
  <2> QED
    BY <2>1
<1>6. Keyed(mt.set)
  BY <1>5, Zenon DEF QueueLogged
<1>7. mt.set \in SUBSET LogRecord
  BY DEF Memtable
<1>8. InTable(sst) = Between(mt) /\ Readable(sst)
  BY <1>2, <1>6, <1>7, TableWritten, Zenon
<1> QED
  BY <1>2, <1>3, <1>4, <1>8

\* The consumer handles an event.
LEMMA ConsumerBefore ==
  ASSUME TreeTypeOK, TreeTypeOK', LogBeforeFlush, IoAppendWal \/ IoFsyncWal \/ IoFlushMemtable
  PROVE  LogBeforeFlush'
<1>0. QueueOK /\ history \in History /\ wal \in Seq(LogRecord) /\ flush_results \in Seq(Range(flush_results))
  BY DEF TreeTypeOK, QueueOK
<1>1. /\ UNCHANGED treeVars /\ io_rx # <<>> /\ io_rx' = Tail(io_rx)
  BY EventTaken DEF IoAppendWal, IoFsyncWal, IoFlushMemtable
<1>2. UNCHANGED <<memtable, call, counters, sst_handles>> /\ Active' = Active
  BY <1>1 DEF treeVars, Active
<1>3. /\ history.unlogged \subseteq history'.unlogged /\ Range(wal) \subseteq Range(wal')
      /\ \A r : Head(io_rx) = AppendWal(r) => r \in history'.unlogged \cup Range(wal')
  <2>1. CASE IoAppendWal
    <3>1. PICK r \in LogRecord :
            /\ Head(io_rx) = AppendWal(r)
            /\ \/ wal' = Append(wal, r) /\ UNCHANGED history
               \/ /\ history' = [history EXCEPT !.unlogged = history.unlogged \cup {r}]
                  /\ UNCHANGED wal
      BY <2>1, WalAppended
    <3>2. \A x : Head(io_rx) = AppendWal(x) => x = r
      <4>1. ASSUME NEW x, Head(io_rx) = AppendWal(x) PROVE x = r
        <5>1. AppendWal(x).rec = x /\ AppendWal(r).rec = r
          BY DEF AppendWal
        <5> QED
          BY <3>1, <4>1, <5>1, Zenon
      <4> QED
        BY <4>1, Zenon
    <3>3. CASE wal' = Append(wal, r) /\ UNCHANGED history
      <4>1. wal \in Seq(Range(wal))
        BY <1>0 DEF Range
      <4>2. Range(wal') = Range(wal) \cup {r}
        BY <3>3, <4>1, AppendOwn
      <4> QED
        BY <3>2, <3>3, <4>2
    <3>4. CASE history' = [history EXCEPT !.unlogged = history.unlogged \cup {r}] /\ UNCHANGED wal
      <4>1. history'.unlogged = history.unlogged \cup {r}
        BY <1>0, <3>4 DEF History
      <4> QED
        BY <3>2, <3>4, <4>1
    <3> QED
      BY <3>1, <3>3, <3>4
  <2>2. CASE IoFsyncWal
    <3>1. Head(io_rx).ev = "FsyncWal" /\ wal' = wal
      BY <2>2 DEF IoFsyncWal, TakeEvent
    <3>2. history'.unlogged = history.unlogged
      BY <1>0, <2>2 DEF IoFsyncWal, History
    <3>3. \A r : Head(io_rx) # AppendWal(r)
      BY <3>1, EventFacts
    <3> QED
      BY <3>1, <3>2, <3>3
  <2>3. CASE IoFlushMemtable
    <3>1. Head(io_rx).ev = "FlushMemtable" /\ wal' = wal
      BY <2>3 DEF IoFlushMemtable, TakeEvent
    <3>2. PICK mt \in Memtable : \/ history' = [history EXCEPT !.failed = history.failed \cup {mt.id}]
                                 \/ UNCHANGED history
      BY <2>3, TableFlushed
    <3>3. history'.unlogged = history.unlogged
      BY <1>0, <3>2 DEF History
    <3>4. \A r : Head(io_rx) # AppendWal(r)
      BY <3>1, EventFacts
    <3> QED
      BY <3>1, <3>3, <3>4
  <2> QED
    BY <2>1, <2>2, <2>3
<1>4. ASSUME NEW r, NEW j \in Nat, LoggedBy(r, j + 1) PROVE LoggedBy(r, j)'
  BY <1>0, <1>1, <1>3, <1>4, TakenLogged
<1>5. /\ Len(io_rx) \in Nat \ {0} /\ DOMAIN io_rx = 1 .. Len(io_rx) /\ Head(io_rx) = io_rx[1]
      /\ io_rx' \in Seq(Range(io_rx')) /\ DOMAIN io_rx' = 1 .. (Len(io_rx) - 1)
      /\ \A i \in DOMAIN io_rx' : i + 1 \in DOMAIN io_rx /\ io_rx'[i] = io_rx[i + 1]
  BY <1>0, <1>1, TailOwn DEF QueueOK, Pending
<1>6. Len(io_rx') + 1 = Len(io_rx) /\ Len(io_rx) \in Nat
  <2>1. PICK q : q = io_rx'
    OBVIOUS
  <2>2. q \in Seq(Range(io_rx')) /\ DOMAIN q = 1 .. (Len(io_rx) - 1) /\ Len(q) = Len(io_rx')
    BY <1>5, <2>1, Zenon
  <2>a. Len(q) \in Nat /\ DOMAIN q = 1 .. Len(q)
    <3>1. PICK S : S = Range(io_rx')
      OBVIOUS
    <3>2. q \in Seq(S)
      BY <2>2, <3>1, ZenonT(60)
    <3> QED
      BY <3>2
  <2>3. PICK n \in Nat \ {0} : n = Len(io_rx)
    BY <1>5, Zenon
  <2>4. PICK m \in Nat : m = Len(q) /\ DOMAIN q = 1 .. m
    BY <2>a, Zenon
  <2>5. 1 .. m = 1 .. (n - 1)
    BY <2>2, <2>3, <2>4
  <2>6. m \in 0 .. (n - 1) /\ n - 1 \in 0 .. m
    <3>1. m = 0 \/ m \in 1 .. (n - 1)
      BY <2>5
    <3>2. n - 1 = 0 \/ n - 1 \in 1 .. m
      BY <2>5
    <3> QED
      BY <3>1, <3>2
  <2>7. m + 1 = n /\ n \in Nat
    BY <2>6
  <2>8. Len(io_rx') = m /\ Len(io_rx) = n
    BY <2>2, <2>3, <2>4, Zenon
  <2> QED
    BY <2>7, <2>8, Zenon
<1>7. ActiveLogged'
  <2>1. Keyed(Active) /\ \A x \in Active : x.key.sequence_num < counters.seq_num /\ LoggedBy(x, Len(io_rx) + 1)
    BY DEF LogBeforeFlush, ActiveLogged
  <2>2. PICK l \in Nat : l = Len(io_rx) /\ l = Len(io_rx') + 1
    BY <1>6
  <2>3. ASSUME NEW x \in Active' PROVE x.key.sequence_num < counters'.seq_num /\ LoggedBy(x, Len(io_rx) + 1)'
    <3>1. LoggedBy(x, l + 1)
      BY <1>2, <2>1, <2>2
    <3>2. LoggedBy(x, l)'
      BY <1>4, <3>1
    <3> QED
      BY <1>2, <2>1, <2>2, <3>2 DEF LoggedBy
  <2> QED
    BY <1>2, <2>1, <2>3 DEF ActiveLogged, Keyed
<1>8. QueueLogged'
  <2>1. ASSUME NEW j \in DOMAIN io_rx', IsFlush(io_rx'[j])
        PROVE  Keyed(io_rx'[j].memtable.set) /\ \A r \in io_rx'[j].memtable.set : LoggedBy(r, j)'
    <3>1. j \in Nat /\ j + 1 \in DOMAIN io_rx /\ io_rx'[j] = io_rx[j + 1]
      BY <1>5
    <3>2. Keyed(io_rx'[j].memtable.set) /\ \A r \in io_rx'[j].memtable.set : LoggedBy(r, j + 1)
      BY <2>1, <3>1, Zenon DEF LogBeforeFlush, QueueLogged
    <3> QED
      BY <1>4, <3>1, <3>2
  <2> QED
    BY <2>1 DEF QueueLogged, IsFlush, Keyed
<1>9. LogFirst'
  <2>1. CASE Tables' \subseteq Tables
    BY <1>3, <2>1, FirstKept DEF LogBeforeFlush
  <2>2. ASSUME NEW mt \in Memtable, IsFlush(Head(io_rx)), Head(io_rx).memtable = mt, write_table(mt).out = "ok",
               flush_results' = Append(flush_results, [id |-> mt.id, handle |-> write_table(mt).handle])
        PROVE  LogFirst'
    <3>1. PICK sst : Tables' = Tables \cup {sst} /\ InTable(sst) = Between(mt)
      BY <1>0, <1>1, <1>2, <2>2, NewTable DEF LogBeforeFlush
    <3>5. Keyed(mt.set) /\ \A r \in mt.set : LoggedBy(r, 1)
      <4>1. 1 \in DOMAIN io_rx /\ io_rx[1] = Head(io_rx)
        BY <1>5
      <4> QED
        BY <2>2, <4>1, Zenon DEF LogBeforeFlush, QueueLogged
    <3>6. \A r \in mt.set : r \in history.unlogged \cup Range(wal)
      <4>1. \A i \in DOMAIN io_rx : ~(i < 1)
        BY <1>5
      <4> QED
        BY <3>5, <4>1, Zenon DEF LoggedBy
    <3>7. InTable(sst) \subseteq mt.set
      BY <3>1 DEF Between
    <3>8. ASSUME NEW t \in Tables', NEW r \in InTable(t)' PROVE r \in history'.unlogged \cup Range(wal')
      <4>1. r \in InTable(t)
        BY TableSame
      <4>2. r \in history.unlogged \cup Range(wal)
        <5>1. CASE t = sst
          BY <3>6, <3>7, <4>1, <5>1
        <5>2. CASE t # sst
          BY <3>1, <4>1, <5>2 DEF LogBeforeFlush, LogFirst
        <5> QED
          BY <5>1, <5>2
      <4> QED
        BY <1>3, <4>2
    <3> QED
      BY <3>8 DEF LogFirst
  <2>3. CASE IoAppendWal \/ IoFsyncWal
    <3>1. flush_results' = flush_results
      BY <2>3 DEF IoAppendWal, IoFsyncWal
    <3> QED
      BY <1>2, <2>1, <3>1 DEF Tables
  <2>4. CASE IoFlushMemtable
    <3>1. PICK mt \in Memtable :
           /\ IsFlush(Head(io_rx)) /\ Head(io_rx).memtable = mt
           /\ \/ /\ write_table(mt).out = "ok"
                 /\ flush_results' = Append(flush_results, [id |-> mt.id, handle |-> write_table(mt).handle])
              \/ UNCHANGED flush_results
      BY <2>4, TableFlushed
    <3>2. CASE UNCHANGED flush_results
      BY <1>2, <2>1, <3>2 DEF Tables
    <3> QED
      BY <2>2, <3>1, <3>2
  <2> QED
    BY <2>3, <2>4
<1>10. sst_handles' \in Seq(Range(sst_handles'))
  BY <1>2 DEF LogBeforeFlush
<1> QED
  BY <1>7, <1>8, <1>9, <1>10 DEF LogBeforeFlush

LEMMA BeforeInit == Init => LogBeforeFlush
<1> SUFFICES ASSUME Init PROVE LogBeforeFlush
  OBVIOUS
<1>1. memtable.set = {} /\ call.pc = "idle" /\ io_rx = <<>> /\ sst_handles = <<>> /\ flush_results = <<>>
  BY DEF Init, with_size_limit, Idle
<1>2. Active = {}
  BY <1>1 DEF Active
<1>3. Tables = {} /\ sst_handles \in Seq(Range(sst_handles))
  BY <1>1 DEF Tables, Range
<1>4. ActiveLogged
  BY <1>2, FS_EmptySet DEF ActiveLogged, Keyed
<1>5. QueueLogged
  BY <1>1 DEF QueueLogged
<1> QED
  BY <1>3, <1>4, <1>5 DEF LogBeforeFlush, LogFirst

LEMMA BeforeStep ==
  ASSUME TreeTypeOK, LogBeforeFlush, [Next]_vars
  PROVE  LogBeforeFlush'
<1>1. TreeTypeOK'
  BY TreeStep
<1> QED
  BY <1>1, QuietBefore, IssueBefore, DrainBefore, PayloadBefore, ConsumerBefore DEF Next

\* A record of a table went to the WAL before the table was written, and is there
\* unless the WAL refused it: its AppendWal event is sent before the FlushMemtable
\* event of its memtable, and the consumer takes them in order.
THEOREM LogComesFirst == Spec => []LogFirst
<1>1. Init => TreeTypeOK /\ LogBeforeFlush
  BY InitTree, BeforeInit
<1>2. TreeTypeOK /\ LogBeforeFlush /\ [Next]_vars => (TreeTypeOK /\ LogBeforeFlush)'
  BY TreeStep, BeforeStep
<1>3. LogBeforeFlush => LogFirst
  BY DEF LogBeforeFlush
<1> QED
  BY <1>1, <1>2, <1>3, PTL DEF Spec

-----------------------------------------------------------------------------
(* Streams are named.                                                        *)

\* The registry only grows.
Grows ==
  /\ DOMAIN labelmap_by_stream \subseteq DOMAIN labelmap_by_stream'
  /\ \A s \in DOMAIN labelmap_by_stream : labelmap_by_stream'[s] = labelmap_by_stream[s]
  /\ \A s \in DOMAIN labelmap_by_stream' : s < counters'.stream_id

LEMMA NamesGrow ==
  ASSUME Grows, NEW s \in DOMAIN labelmap_by_stream, NEW a, NEW b, Range(a) \subseteq Range(b), Names(a, s)
  PROVE  StreamUpdate(s, labelmap_by_stream'[s]) \in Range(b)
BY DEF Names, Grows

LEMMA RegisteredGrows ==
  ASSUME Grows, NEW R, Registered(R), NEW S \in SUBSET R
  PROVE  \A r \in S : StreamOf(r) \in DOMAIN labelmap_by_stream'
BY DEF Registered, Grows

\* What names a stream still does when an event is sent.
LEMMA NamedKept ==
  ASSUME Grows, QueueOK, io_rx' = io_rx \/ \E ev : io_rx' = Append(io_rx, ev), manifest' = manifest,
         NEW s \in DOMAIN labelmap_by_stream, NEW j, Named(s, j)
  PROVE  Named(s, j)'
<1>1. CASE Names(manifest, s)
  <2>1. StreamUpdate(s, labelmap_by_stream'[s]) \in Range(manifest')
    BY <1>1, NamesGrow
  <2> QED
    BY <2>1 DEF Named, Names, StreamUpdate
<1>2. ASSUME NEW i \in DOMAIN io_rx, i <= j, IsFlush(io_rx[i]), Names(io_rx[i].entries, s)
      PROVE  Named(s, j)'
  <2>1. i \in DOMAIN io_rx' /\ io_rx'[i] = io_rx[i]
    <3>1. CASE io_rx' = io_rx
      BY <3>1
    <3>2. ASSUME NEW ev, io_rx' = Append(io_rx, ev) PROVE i \in DOMAIN io_rx' /\ io_rx'[i] = io_rx[i]
      <4>1. /\ Len(io_rx) \in Nat /\ DOMAIN io_rx = 1 .. Len(io_rx)
            /\ DOMAIN io_rx' = 1 .. (Len(io_rx) + 1)
            /\ \A k \in DOMAIN io_rx : io_rx'[k] = io_rx[k]
        BY <3>2, AppendOwn DEF QueueOK, Pending
      <4> QED
        BY <4>1
    <3> QED
      BY <3>1, <3>2
  <2>2. StreamUpdate(s, labelmap_by_stream'[s]) \in Range(io_rx'[i].entries)
    BY <1>2, <2>1, NamesGrow
  <2> QED
    BY <1>2, <2>1, <2>2 DEF Named, Names, IsFlush, StreamUpdate
<1> QED
  BY <1>1, <1>2 DEF Named

\* Or when an event is taken: the entries of a flush go to the manifest.
LEMMA NamedTaken ==
  ASSUME Grows, QueueOK, io_rx # <<>>, io_rx' = Tail(io_rx), Range(manifest) \subseteq Range(manifest'),
         IsFlush(Head(io_rx)) => Range(Head(io_rx).entries) \subseteq Range(manifest'),
         NEW s \in DOMAIN labelmap_by_stream, NEW j \in Nat, Named(s, j + 1)
  PROVE  Named(s, j)'
<1>1. CASE Names(manifest, s)
  <2>1. StreamUpdate(s, labelmap_by_stream'[s]) \in Range(manifest')
    BY <1>1, NamesGrow
  <2> QED
    BY <2>1 DEF Named, Names, StreamUpdate
<1>2. ASSUME NEW i \in DOMAIN io_rx, i <= j + 1, IsFlush(io_rx[i]), Names(io_rx[i].entries, s)
      PROVE  Named(s, j)'
  <2>1. /\ Len(io_rx) \in Nat \ {0} /\ DOMAIN io_rx = 1 .. Len(io_rx) /\ Head(io_rx) = io_rx[1]
        /\ \A k \in DOMAIN io_rx : k # 1 => k - 1 \in DOMAIN io_rx' /\ io_rx'[k - 1] = io_rx[k]
    BY TailOwn DEF QueueOK, Pending
  <2>2. CASE i = 1
    <3>1. StreamUpdate(s, labelmap_by_stream'[s]) \in Range(manifest')
      BY <1>2, <2>1, <2>2, NamesGrow
    <3> QED
      BY <3>1 DEF Named, Names, StreamUpdate
  <2>3. CASE i # 1
    <3>1. i - 1 \in DOMAIN io_rx' /\ io_rx'[i - 1] = io_rx[i] /\ i - 1 <= j
      BY <1>2, <2>1, <2>3
    <3>2. StreamUpdate(s, labelmap_by_stream'[s]) \in Range(io_rx'[i - 1].entries)
      BY <1>2, <3>1, NamesGrow
    <3> QED
      BY <1>2, <3>1, <3>2 DEF Named, Names, IsFlush, StreamUpdate
  <2> QED
    BY <2>2, <2>3
<1> QED
  BY <1>1, <1>2 DEF Named

\* The streams of the tables, as long as there is no new one.
LEMMA NamedTables ==
  ASSUME Grows, AllRegistered, StreamsNamed, Tables' \subseteq Tables, manifest' = manifest,
         history'.failed = history.failed
  PROVE  StreamsNamed'
<1> SUFFICES ASSUME history'.failed = {}, NEW sst \in Tables', NEW r \in InTable(sst)'
             PROVE  \E i \in DOMAIN manifest' : manifest'[i] = StreamUpdate(r.key.stream_id, labelmap_by_stream'[r.key.stream_id])
  BY DEF StreamsNamed, StreamUpdate
<1>1. r \in InTable(sst) /\ sst \in Tables
  BY TableSame
<1>2. r.key.stream_id \in DOMAIN labelmap_by_stream
  BY <1>1 DEF AllRegistered, Registered, StreamOf
<1>3. labelmap_by_stream'[r.key.stream_id] = labelmap_by_stream[r.key.stream_id]
  BY <1>2 DEF Grows
<1>4. \E i \in DOMAIN manifest : manifest[i] = StreamUpdate(r.key.stream_id, labelmap_by_stream[r.key.stream_id])
  BY <1>1, Zenon DEF StreamsNamed
<1> QED
  BY <1>3, <1>4, Zenon

\* An event that the tree may send: a flush has the names its memtable needs.
FlushNamed(ev) ==
  IsFlush(ev) =>
    /\ ev.entries \in Seq(Range(ev.entries)) /\ Registered(ev.memtable.set)
    /\ history.failed = {} /\ io = "up" => \A r \in ev.memtable.set :
         Named(StreamOf(r), Len(io_rx)) \/ Names(ev.entries, StreamOf(r))

SendsNamed == io_rx' = io_rx \/ \E ev : io_rx' = Append(io_rx, ev) /\ FlushNamed(ev)

\* What is registered stays so when an event is sent.
LEMMA RegisteredKept ==
  ASSUME QueueOK, Grows, AllRegistered, SendsNamed, Registered(Active)', Tables' \subseteq Tables
  PROVE  AllRegistered'
<1>1. ASSUME NEW j \in DOMAIN io_rx', IsFlush(io_rx'[j])
      PROVE  \A r \in io_rx'[j].memtable.set : StreamOf(r) \in DOMAIN labelmap_by_stream'
  <2>1. CASE io_rx' = io_rx
    BY <1>1, <2>1, RegisteredGrows DEF AllRegistered
  <2>2. ASSUME NEW ev, io_rx' = Append(io_rx, ev), FlushNamed(ev)
        PROVE  \A r \in io_rx'[j].memtable.set : StreamOf(r) \in DOMAIN labelmap_by_stream'
    <3>1. /\ Len(io_rx) \in Nat /\ DOMAIN io_rx = 1 .. Len(io_rx)
          /\ DOMAIN io_rx' = 1 .. (Len(io_rx) + 1) /\ io_rx'[Len(io_rx) + 1] = ev
          /\ \A k \in DOMAIN io_rx : io_rx'[k] = io_rx[k]
      BY <2>2, AppendOwn DEF QueueOK, Pending
    <3>2. CASE j = Len(io_rx) + 1
      <4>1. Registered(ev.memtable.set)
        BY <1>1, <2>2, <3>1, <3>2 DEF FlushNamed
      <4> QED
        BY <3>1, <3>2, <4>1, RegisteredGrows
    <3>3. CASE j # Len(io_rx) + 1
      <4>1. j \in DOMAIN io_rx
        BY <3>1, <3>3
      <4>2. Registered(io_rx[j].memtable.set)
        BY <1>1, <3>1, <4>1 DEF AllRegistered
      <4> QED
        BY <3>1, <4>1, <4>2, RegisteredGrows
    <3> QED
      BY <3>2, <3>3
  <2> QED
    BY <2>1, <2>2 DEF SendsNamed
<1>2. ASSUME NEW sst \in Tables', NEW r \in InTable(sst)' PROVE StreamOf(r) \in DOMAIN labelmap_by_stream'
  <2>1. r \in InTable(sst) /\ Registered(InTable(sst))
    BY TableSame DEF AllRegistered
  <2> QED
    BY <2>1, RegisteredGrows
<1> QED
  BY <1>1, <1>2 DEF AllRegistered, Registered, Grows, StreamOf, IsFlush

\* So are the entries of the flushes in the channel.
LEMMA EntriesKept ==
  ASSUME QueueOK, EntriesOK, SendsNamed, manifest' = manifest, stream_buffer' \in Seq(Range(stream_buffer'))
  PROVE  EntriesOK'
<1>1. ASSUME NEW j \in DOMAIN io_rx', IsFlush(io_rx'[j])
      PROVE  io_rx'[j].entries \in Seq(Range(io_rx'[j].entries))
  <2>1. CASE io_rx' = io_rx
    BY <1>1, <2>1 DEF EntriesOK
  <2>2. ASSUME NEW ev, io_rx' = Append(io_rx, ev), FlushNamed(ev)
        PROVE  io_rx'[j].entries \in Seq(Range(io_rx'[j].entries))
    <3>1. /\ Len(io_rx) \in Nat /\ DOMAIN io_rx = 1 .. Len(io_rx)
          /\ DOMAIN io_rx' = 1 .. (Len(io_rx) + 1) /\ io_rx'[Len(io_rx) + 1] = ev
          /\ \A k \in DOMAIN io_rx : io_rx'[k] = io_rx[k]
      BY <2>2, AppendOwn DEF QueueOK, Pending
    <3>2. CASE j = Len(io_rx) + 1
      BY <1>1, <2>2, <3>1, <3>2 DEF FlushNamed
    <3>3. CASE j # Len(io_rx) + 1
      <4>1. j \in DOMAIN io_rx
        BY <3>1, <3>3
      <4> QED
        BY <1>1, <3>1, <4>1 DEF EntriesOK
    <3> QED
      BY <3>2, <3>3
  <2> QED
    BY <2>1, <2>2 DEF SendsNamed
<1> QED
  BY <1>1 DEF EntriesOK, IsFlush

\* And the names of the streams of the memtables to flush.
LEMMA QueueNamedKept ==
  ASSUME QueueOK, Grows, AllRegistered, QueueNamed, SendsNamed, manifest' = manifest,
         history.failed = {}, io = "up"
  PROVE  QueueNamed'
<1>0. \A s \in DOMAIN labelmap_by_stream : \A j : Named(s, j) => Named(s, j)'
  BY NamedKept DEF SendsNamed
<1>1. ASSUME NEW j \in DOMAIN io_rx', IsFlush(io_rx'[j]), NEW r \in io_rx'[j].memtable.set
      PROVE  Named(StreamOf(r), j)'
  <2>1. CASE io_rx' = io_rx
    <3>1. Named(StreamOf(r), j) /\ StreamOf(r) \in DOMAIN labelmap_by_stream
      BY <1>1, <2>1 DEF QueueNamed, AllRegistered, Registered
    <3> QED
      BY <1>0, <3>1 DEF StreamOf
  <2>2. ASSUME NEW ev, io_rx' = Append(io_rx, ev), FlushNamed(ev)
        PROVE  Named(StreamOf(r), j)'
    <3>1. /\ Len(io_rx) \in Nat /\ DOMAIN io_rx = 1 .. Len(io_rx)
          /\ DOMAIN io_rx' = 1 .. (Len(io_rx) + 1) /\ io_rx'[Len(io_rx) + 1] = ev
          /\ \A k \in DOMAIN io_rx : io_rx'[k] = io_rx[k]
      BY <2>2, AppendOwn DEF QueueOK, Pending
    <3>2. CASE j = Len(io_rx) + 1
      <4>1. PICK s : s = StreamOf(r)
        OBVIOUS
      <4>2. s \in DOMAIN labelmap_by_stream /\ (Named(s, Len(io_rx)) \/ Names(ev.entries, s))
        BY <1>1, <2>2, <3>1, <3>2, <4>1, Zenon DEF FlushNamed, Registered
      <4>3. CASE Named(s, Len(io_rx))
        <5>1. Named(s, j)
          BY <3>1, <3>2, <4>3 DEF Named
        <5> QED
          BY <1>0, <4>1, <4>2, <5>1 DEF StreamOf
      <4>4. CASE Names(ev.entries, s)
        <5>1. s \in DOMAIN labelmap_by_stream
          BY <4>2
        <5>2. StreamUpdate(s, labelmap_by_stream'[s]) \in Range(io_rx'[j].entries)
          BY <3>1, <3>2, <4>4, <5>1, NamesGrow
        <5>3. j <= j
          BY <3>1, <3>2
        <5>4. Named(s, j)'
          BY <1>1, <5>2, <5>3 DEF Named, Names, IsFlush, StreamUpdate
        <5> QED
          BY <4>1, <5>4 DEF StreamOf
      <4> QED
        BY <4>2, <4>3, <4>4
    <3>3. CASE j # Len(io_rx) + 1
      <4>1. j \in DOMAIN io_rx
        BY <3>1, <3>3
      <4>2. Named(StreamOf(r), j) /\ StreamOf(r) \in DOMAIN labelmap_by_stream
        BY <1>1, <3>1, <4>1 DEF QueueNamed, AllRegistered, Registered
      <4> QED
        BY <1>0, <4>2 DEF StreamOf
    <3> QED
      BY <3>2, <3>3
  <2> QED
    BY <2>1, <2>2 DEF SendsNamed
<1> QED
  BY <1>1 DEF QueueNamed, IsFlush, StreamOf

\* The buffer is kept, added to or handed to a flush; a new stream is in it.
Buffers ==
  /\ \A s \in DOMAIN labelmap_by_stream' \ DOMAIN labelmap_by_stream :
       StreamUpdate(s, labelmap_by_stream'[s]) \in Range(stream_buffer')
  /\ \/ Range(stream_buffer) \subseteq Range(stream_buffer')
     \/ \E ev : io_rx' = Append(io_rx, ev) /\ IsFlush(ev) /\ Range(stream_buffer) \subseteq Range(ev.entries)

LEMMA AnnouncedKept ==
  ASSUME QueueOK, Grows, Announced, call.pc # "panicked", SendsNamed, manifest' = manifest, Buffers
  PROVE  Announced'
<1>1. ASSUME NEW s \in DOMAIN labelmap_by_stream'
      PROVE  Named(s, Len(io_rx))' \/ StreamUpdate(s, labelmap_by_stream'[s]) \in Range(stream_buffer')
  <2>1. CASE s \notin DOMAIN labelmap_by_stream
    BY <2>1 DEF Buffers
  <2>2. CASE s \in DOMAIN labelmap_by_stream
    <3>1. Named(s, Len(io_rx)) \/ Names(stream_buffer, s)
      BY <2>2 DEF Announced
    <3>2. Len(io_rx) \in Nat /\ Len(io_rx') \in Nat /\ Len(io_rx) <= Len(io_rx')
      BY SentLength DEF SendsNamed
    <3>3. PICK m \in Nat, n \in Nat : m = Len(io_rx) /\ n = Len(io_rx') /\ m <= n
      BY <3>2
    <3>4. CASE Named(s, Len(io_rx))
      <4>1. Named(s, m)'
        BY <2>2, <3>3, <3>4, NamedKept DEF SendsNamed
      <4>2. DOMAIN io_rx' \subseteq Nat
        <5>1. CASE io_rx' = io_rx
          <6>1. io_rx \in Seq(Range(io_rx))
            BY DEF QueueOK, Pending
          <6> QED
            BY <5>1, <6>1
        <5>2. ASSUME NEW ev, io_rx' = Append(io_rx, ev) PROVE DOMAIN io_rx' \subseteq Nat
          <6>1. Len(io_rx) \in Nat /\ DOMAIN io_rx' = 1 .. (Len(io_rx) + 1)
            BY <5>2, AppendOwn DEF QueueOK, Pending
          <6> QED
            BY <6>1
        <5> QED
          BY <5>1, <5>2 DEF SendsNamed
      <4>3. \A i \in DOMAIN io_rx' : i <= m => i <= n
        BY <3>3, <4>2
      <4> QED
        BY <3>3, <4>1, <4>3 DEF Named
    <3>5. CASE Names(stream_buffer, s)
      <4>1. CASE Range(stream_buffer) \subseteq Range(stream_buffer')
        BY <2>2, <3>5, <4>1, NamesGrow
      <4>2. ASSUME NEW ev, io_rx' = Append(io_rx, ev), IsFlush(ev), Range(stream_buffer) \subseteq Range(ev.entries)
            PROVE  Named(s, Len(io_rx))'
        <5>1. /\ Len(io_rx) \in Nat /\ DOMAIN io_rx' = 1 .. (Len(io_rx) + 1) /\ io_rx'[Len(io_rx) + 1] = ev
              /\ io_rx' \in Seq(Range(io_rx'))
          BY <4>2, AppendOwn DEF QueueOK, Pending
        <5>2. Len(io_rx') = m + 1
          <6>1. DOMAIN io_rx' = 1 .. n /\ DOMAIN io_rx' = 1 .. (m + 1)
            BY <3>3, <5>1
          <6> QED
            BY <3>3, <6>1
        <5>3. m + 1 \in DOMAIN io_rx' /\ m + 1 <= Len(io_rx') /\ io_rx'[m + 1] = ev
          BY <3>3, <5>1, <5>2
        <5>4. StreamUpdate(s, labelmap_by_stream'[s]) \in Range(ev.entries)
          BY <2>2, <3>5, <4>2, NamesGrow
        <5> QED
          BY <4>2, <5>3, <5>4 DEF Named, Names, IsFlush, StreamUpdate
      <4> QED
        BY <4>1, <4>2 DEF Buffers
    <3> QED
      BY <3>1, <3>4, <3>5
  <2> QED
    BY <2>1, <2>2
<1> QED
  BY <1>1, Zenon DEF Announced, Names, StreamUpdate

\* A step of the tree.
LEMMA TreeNamed ==
  ASSUME TreeTypeOK, NamedBeforeFlush, Grows, Registered(Active)', SendsNamed, Tables' \subseteq Tables,
         UNCHANGED <<manifest, io>>, history'.failed = history.failed,
         stream_buffer' \in Seq(Range(stream_buffer')),
         io = "down" \/ call'.pc = "panicked" \/ (call.pc # "panicked" /\ Buffers)
  PROVE  NamedBeforeFlush'
<1>0. QueueOK /\ EntriesOK /\ AllRegistered /\ StreamsNamed
  BY DEF TreeTypeOK, QueueOK, NamedBeforeFlush
<1>1. EntriesOK'
  BY <1>0, EntriesKept
<1>2. AllRegistered'
  BY <1>0, RegisteredKept
<1>3. StreamsNamed'
  BY <1>0, NamedTables
<1>4. ASSUME history'.failed = {}, io' = "up" PROVE Announced' /\ QueueNamed'
  <2>1. history.failed = {} /\ io = "up"
    BY <1>4
  <2>2. Announced /\ QueueNamed
    BY <2>1 DEF NamedBeforeFlush
  <2>3. QueueNamed'
    BY <1>0, <2>1, <2>2, QueueNamedKept
  <2>4. CASE call'.pc = "panicked"
    BY <2>3, <2>4 DEF Announced
  <2>5. CASE call.pc # "panicked" /\ Buffers
    <3>1. Announced'
      BY <1>0, <2>2, <2>5, AnnouncedKept
    <3> QED
      BY <2>3, <3>1
  <2>6. io # "down"
    BY <2>1
  <2> QED
    BY <2>4, <2>5, <2>6
<1> QED
  BY <1>1, <1>2, <1>3, <1>4 DEF NamedBeforeFlush

LEMMA NoFlushNamed == FlushNamed(FsyncWal) /\ \A r : FlushNamed(AppendWal(r))
BY EventFacts DEF FlushNamed, IsFlush

\* A step that leaves the registry and the buffer alone.
LEMMA RegistrySame ==
  ASSUME AllRegistered, UNCHANGED <<labelmap_by_stream, stream_buffer>>, counters'.stream_id = counters.stream_id
  PROVE  Grows /\ Buffers
<1>1. Grows
  BY DEF Grows, AllRegistered
<1>2. Buffers
  BY DEF Buffers
<1> QED
  BY <1>1, <1>2

LEMMA QuietNamed ==
  ASSUME TreeTypeOK, NamedBeforeFlush,
         BeginBatch \/ EndBatch \/ EndDrain \/ UNCHANGED vars \/ (\E p \in Payloads : RefusePayload(p))
  PROVE  NamedBeforeFlush'
<1>0. history \in History /\ AllRegistered /\ EntriesOK
  BY DEF TreeTypeOK, NamedBeforeFlush
<1>1. /\ UNCHANGED <<memtable, sst_handles, flush_results, manifest, io, labelmap_by_stream, stream_buffer, counters>>
      /\ history'.failed = history.failed
      /\ io_rx' = io_rx \/ io_rx' = Append(io_rx, FsyncWal)
      /\ call' = call \/ (call'.pc # "flush" /\ call.pc # "panicked")
  <2>1. CASE BeginBatch
    BY <1>0, <2>1 DEF BeginBatch, History, tables, ioVars, Idle
  <2>2. CASE EndBatch
    BY <1>0, <2>2 DEF EndBatch, History, tables, ioVars, send, Idle
  <2>3. CASE EndDrain
    BY <2>3 DEF EndDrain, tables, ioVars, Idle, Draining
  <2>4. CASE \E p \in Payloads : RefusePayload(p)
    BY <2>4 DEF RefusePayload, tables, ioVars, Idle
  <2>5. CASE UNCHANGED vars
    BY <2>5 DEF vars
  <2> QED
    BY <2>1, <2>2, <2>3, <2>4, <2>5
<1>2. Active' \subseteq Active
  BY <1>1 DEF Active
<1>3. Grows /\ Buffers
  BY <1>0, <1>1, RegistrySame
<1>4. SendsNamed
  BY <1>1, NoFlushNamed DEF SendsNamed
<1>5. Registered(Active)'
  BY <1>0, <1>2, <1>3, RegisteredGrows DEF AllRegistered, Registered, StreamOf
<1>6. Tables' \subseteq Tables /\ stream_buffer' \in Seq(Range(stream_buffer'))
  BY <1>0, <1>1 DEF Tables, EntriesOK
<1> QED
  BY <1>1, <1>3, <1>4, <1>5, <1>6, TreeNamed

\* insert, under the next number.
LEMMA InsertGrows ==
  ASSUME TreeTypeOK, AllRegistered, NEW labels, insert(counters.stream_id, labels),
         counters'.stream_id = counters.stream_id + 1
  PROVE  /\ Grows /\ DOMAIN labelmap_by_stream' = DOMAIN labelmap_by_stream \cup {counters.stream_id}
         /\ labelmap_by_stream'[counters.stream_id] = labels
<1>0. counters.stream_id \in Nat /\ DOMAIN labelmap_by_stream \subseteq Nat
  BY DEF TreeTypeOK
<1>1. PICK n \in Nat : n = counters.stream_id
  BY <1>0
<1>2. \A s \in DOMAIN labelmap_by_stream : s < n /\ s \in Nat
  BY <1>0, <1>1 DEF AllRegistered
<1>3. labelmap_by_stream' = [s \in DOMAIN labelmap_by_stream \cup {n} |->
                               IF s = n THEN labels ELSE labelmap_by_stream[s]]
  BY <1>1 DEF insert
<1>4. DOMAIN labelmap_by_stream' = DOMAIN labelmap_by_stream \cup {n} /\ labelmap_by_stream'[n] = labels
  BY <1>3
<1>5. \A s \in DOMAIN labelmap_by_stream : labelmap_by_stream'[s] = labelmap_by_stream[s]
  BY <1>2, <1>3
<1>6. \A s \in DOMAIN labelmap_by_stream' : s < n + 1
  BY <1>2, <1>4
<1> QED
  BY <1>1, <1>4, <1>5, <1>6 DEF Grows

LEMMA PanicNamed ==
  ASSUME TreeTypeOK, NamedBeforeFlush, NEW p \in Payloads, StreamPanics(p)
  PROVE  NamedBeforeFlush'
<1>0. counters \in [memtable_id : Nat, stream_id : Nat, seq_num : Nat] /\ AllRegistered /\ EntriesOK
  BY DEF TreeTypeOK, NamedBeforeFlush
<1>1. /\ UNCHANGED <<memtable, sst_handles, flush_results, manifest, io, stream_buffer, io_rx, history>>
      /\ call'.pc = "panicked"
      /\ insert(counters.stream_id, p.labels) /\ counters'.stream_id = counters.stream_id + 1
  BY <1>0 DEF StreamPanics, tables, ioVars
<1>2. Active' \subseteq Active
  BY <1>1 DEF Active
<1>3. Grows
  BY <1>0, <1>1, InsertGrows
<1>4. Registered(Active)'
  BY <1>0, <1>2, <1>3, RegisteredGrows DEF AllRegistered, Registered, StreamOf
<1>5. Tables' \subseteq Tables /\ stream_buffer' \in Seq(Range(stream_buffer')) /\ SendsNamed
  BY <1>0, <1>1 DEF Tables, EntriesOK, SendsNamed
<1> QED
  BY <1>1, <1>3, <1>4, <1>5, TreeNamed

LEMMA DrainNamed ==
  ASSUME TreeTypeOK, LogBeforeFlush, NamedBeforeFlush, DrainSstQueue
  PROVE  NamedBeforeFlush'
<1>0. AllRegistered /\ EntriesOK
  BY DEF NamedBeforeFlush
<1>1. /\ UNCHANGED <<memtable, manifest, io, labelmap_by_stream, stream_buffer, counters, io_rx, history>>
      /\ call'.pc # "flush" /\ call.pc # "panicked"
  BY DEF DrainSstQueue, Draining, Idle
<1>2. Active' \subseteq Active
  BY <1>1 DEF Active
<1>3. Grows /\ Buffers
  BY <1>0, <1>1, RegistrySame
<1>4. Registered(Active)'
  BY <1>0, <1>2, <1>3, RegisteredGrows DEF AllRegistered, Registered, StreamOf
<1>5. Tables' \subseteq Tables
  BY DrainedTables DEF LogBeforeFlush, TreeTypeOK
<1>6. stream_buffer' \in Seq(Range(stream_buffer')) /\ SendsNamed
  BY <1>0, <1>1 DEF EntriesOK, SendsNamed
<1> QED
  BY <1>1, <1>3, <1>4, <1>5, <1>6, TreeNamed

LEMMA IssueNamed ==
  ASSUME TreeTypeOK, NamedBeforeFlush, IssueFlush
  PROVE  NamedBeforeFlush'
<1>0. /\ AllRegistered /\ EntriesOK /\ memtable \in Memtable /\ history \in History
      /\ counters \in [memtable_id : Nat, stream_id : Nat, seq_num : Nat]
  BY DEF NamedBeforeFlush, TreeTypeOK
<1>1. /\ call.pc = "flush" /\ call.rejected \in Seq(LogRecord)
      /\ \/ io = "down" /\ call' = Idle /\ UNCHANGED <<io_rx, history>>
         \/ /\ io_rx' = Append(io_rx, FlushMemtable(memtable, stream_buffer))
            /\ call' = [pc |-> "append"]
            /\ \/ call.rejected = <<>> /\ history' = history
               \/ /\ call.rejected # <<>> /\ call.rejected[1] \in LogRecord
                  /\ history' = Place(call.rejected[1], with_size_limit(counters.memtable_id))
  BY FlushIssued
<1>2. PICK fresh : fresh = with_size_limit(counters.memtable_id)
  OBVIOUS
<1>3. fresh \in Memtable
  BY <1>0, <1>2 DEF with_size_limit, Memtable
<1>4. history'.failed = history.failed
  BY <1>1, <1>2, <1>3, PlaceType
<1>5. /\ UNCHANGED <<labelmap_by_stream, sst_handles, flush_results, manifest, io>>
      /\ stream_buffer' = <<>> /\ counters'.stream_id = counters.stream_id
  BY <1>0 DEF IssueFlush, ioVars
<1>6. Grows
  BY <1>0, <1>5 DEF Grows, AllRegistered
<1>7. Registered(Active)'
  BY <1>0, <1>6, FlushActive, RegisteredGrows DEF AllRegistered, Registered, StreamOf
<1>8. Tables' \subseteq Tables
  BY <1>5 DEF Tables
<1>9. stream_buffer' \in Seq(Range(stream_buffer'))
  BY <1>5
<1>10. PICK ev : ev = FlushMemtable(memtable, stream_buffer)
  OBVIOUS
<1>11. IsFlush(ev) /\ ev.memtable = memtable /\ ev.entries = stream_buffer
  BY <1>10 DEF FlushMemtable, IsFlush
<1>12. FlushNamed(ev)
  <2>1. memtable.set \subseteq Active
    BY DEF Active
  <2>2. Registered(memtable.set)
    BY <1>0, <2>1 DEF AllRegistered, Registered
  <2>3. ASSUME history.failed = {}, io = "up", NEW r \in memtable.set
        PROVE  Named(StreamOf(r), Len(io_rx)) \/ Names(stream_buffer, StreamOf(r))
    BY <1>1, <2>2, <2>3 DEF NamedBeforeFlush, Announced, Registered
  <2>4. stream_buffer \in Seq(Range(stream_buffer))
    BY <1>0 DEF EntriesOK
  <2> QED
    BY <1>11, <2>2, <2>3, <2>4, Zenon DEF FlushNamed
<1>13. SendsNamed
  BY <1>1, <1>10, <1>12 DEF SendsNamed
<1>14. io = "down" \/ (call.pc # "panicked" /\ Buffers)
  BY <1>1, <1>5, <1>10, <1>11 DEF Buffers
<1> QED
  BY <1>4, <1>5, <1>6, <1>7, <1>8, <1>9, <1>13, <1>14, TreeNamed

LEMMA PayloadNamed ==
  ASSUME TreeTypeOK, NamedBeforeFlush, NEW p \in Payloads, NEW time \in Clock, AppendPayload(p, time)
  PROVE  NamedBeforeFlush'
<1>0. /\ AllRegistered /\ EntriesOK /\ memtable \in Memtable /\ history \in History
      /\ counters \in [memtable_id : Nat, stream_id : Nat, seq_num : Nat]
  BY DEF NamedBeforeFlush, TreeTypeOK
<1>1. PICK r : Appended(r) /\ ResolveStream(p, StreamOf(r))
  BY PayloadAppended
<1>2. call.pc = "append" /\ UNCHANGED <<tables, ioVars>>
  BY PayloadTaken
<1>3. UNCHANGED <<sst_handles, flush_results, manifest, io>>
  BY <1>2 DEF tables, ioVars
<1>4. Tables' \subseteq Tables
  BY <1>3 DEF Tables
<1>5. history'.failed = history.failed
  BY <1>0, <1>1, PlaceType DEF Appended
<1>6. Grows /\ StreamOf(r) \in DOMAIN labelmap_by_stream' /\ stream_buffer' \in Seq(Range(stream_buffer')) /\ Buffers
  <2>1. CASE StreamOf(r) \in get_stream_id_by_labelmap(p.labels)
             /\ counters' = [counters EXCEPT !.seq_num = @ + 1]
             /\ UNCHANGED <<labelmap_by_stream, stream_buffer>>
    <3>1. counters'.stream_id = counters.stream_id
      BY <1>0, <2>1
    <3>2. Grows /\ Buffers
      BY <1>0, <2>1, <3>1, RegistrySame
    <3>3. StreamOf(r) \in DOMAIN labelmap_by_stream'
      BY <2>1 DEF get_stream_id_by_labelmap
    <3> QED
      BY <1>0, <2>1, <3>2, <3>3 DEF EntriesOK
  <2>2. CASE /\ StreamOf(r) = counters.stream_id
             /\ counters' = [counters EXCEPT !.seq_num = @ + 1, !.stream_id = @ + 1]
             /\ insert(StreamOf(r), p.labels)
             /\ stream_buffer' = Append(stream_buffer, StreamUpdate(StreamOf(r), p.labels))
    <3>1. counters'.stream_id = counters.stream_id + 1
      BY <1>0, <2>2
    <3>2. /\ Grows /\ DOMAIN labelmap_by_stream' = DOMAIN labelmap_by_stream \cup {counters.stream_id}
          /\ labelmap_by_stream'[counters.stream_id] = p.labels
      BY <1>0, <2>2, <3>1, InsertGrows
    <3>3. /\ stream_buffer' \in Seq(Range(stream_buffer'))
          /\ Range(stream_buffer') = Range(stream_buffer) \cup {StreamUpdate(counters.stream_id, p.labels)}
      BY <1>0, <2>2, AppendOwn DEF EntriesOK
    <3>4. Buffers
      BY <3>2, <3>3 DEF Buffers
    <3> QED
      BY <2>2, <3>2, <3>3, <3>4
  <2> QED
    BY <1>1, <2>1, <2>2 DEF ResolveStream
<1>7. Active' \subseteq Active \cup {r} /\ SendsNamed
  <2>1. CASE io = "down" /\ call' = Idle /\ UNCHANGED <<memtable, io_rx, history>>
    <3>1. call'.pc # "flush"
      BY <2>1 DEF Idle
    <3> QED
      BY <2>1, <3>1 DEF Active, SendsNamed
  <2>2. CASE io_rx' = Append(io_rx, AppendWal(r)) /\ Takes(r)
    BY <1>0, <1>2, <2>2, PayloadActive, NoFlushNamed DEF SendsNamed
  <2> QED
    BY <1>1, <2>1, <2>2 DEF Appended, Takes
<1>8. Registered(Active)'
  <2>1. \A x \in Active : StreamOf(x) \in DOMAIN labelmap_by_stream'
    BY <1>0, <1>6, RegisteredGrows DEF AllRegistered
  <2>2. \A x \in Active' : StreamOf(x) \in DOMAIN labelmap_by_stream'
    BY <1>6, <1>7, <2>1
  <2> QED
    BY <2>2 DEF Registered, StreamOf
<1> QED
  BY <1>2, <1>3, <1>4, <1>5, <1>6, <1>7, <1>8, TreeNamed

\* What a flush appends to the manifest.
LEMMA ManifestAppended ==
  ASSUME EntriesOK, QueueOK, io_rx # <<>>, IsFlush(Head(io_rx)), NEW id,
         NEW entries, entries = <<MemtableFlush(id)>> \o Head(io_rx).entries
  PROVE  /\ entries \in Seq(Range(entries))
         /\ manifest \o entries \in Seq(Range(manifest \o entries))
         /\ Range(manifest \o entries) = Range(manifest) \cup Range(entries)
         /\ Range(Head(io_rx).entries) \subseteq Range(entries)
<1>1. 1 \in DOMAIN io_rx /\ io_rx[1] = Head(io_rx)
  <2>1. Len(io_rx) \in Nat \ {0} /\ DOMAIN io_rx = 1 .. Len(io_rx) /\ Head(io_rx) = io_rx[1]
    BY TailOwn DEF QueueOK, Pending
  <2> QED
    BY <2>1
<1>2. PICK e, m : e = Head(io_rx).entries /\ m = MemtableFlush(id)
  OBVIOUS
<1>3. e \in Seq(Range(e)) /\ manifest \in Seq(Range(manifest))
  BY <1>1, <1>2, Zenon DEF EntriesOK
<1>4. PICK S : S = Range(e) \cup Range(manifest) \cup {m}
  OBVIOUS
<1>5. e \in Seq(S) /\ manifest \in Seq(S) /\ <<m>> \in Seq(S)
  <2>1. e \in Seq(S)
    BY <1>3, <1>4
  <2>2. manifest \in Seq(S)
    BY <1>3, <1>4
  <2>3. <<m>> \in Seq(S)
    BY <1>4
  <2> QED
    BY <2>1, <2>2, <2>3
<1>6. entries \in Seq(S)
  BY <1>2, <1>5
<1>13. \A x, y \in Seq(S) : Range(x \o y) = Range(x) \cup Range(y)
  BY RangeConcat
<1>7. Range(entries) = Range(<<m>>) \cup Range(e)
  BY <1>2, <1>5, <1>13, Zenon
<1>8. Range(manifest \o entries) = Range(manifest) \cup Range(entries)
  BY <1>5, <1>6, <1>13, Zenon
<1>9. PICK c : c = manifest \o entries
  OBVIOUS
<1>10. c \in Seq(S)
  BY <1>5, <1>6, <1>9
<1>11. \A s \in Seq(S) : s \in Seq(Range(s))
  <2>1. ASSUME NEW s \in Seq(S) PROVE s \in Seq(Range(s))
    BY DEF Range
  <2> QED
    BY <2>1
<1>12. Range(Head(io_rx).entries) \subseteq Range(entries)
  BY <1>2, <1>7
<1> QED
  BY <1>6, <1>8, <1>9, <1>10, <1>11, <1>12, Zenon

\* The manifest stays a sequence, whatever part of the entries is written.
LEMMA ManifestSeq ==
  ASSUME EntriesOK, QueueOK, IoFlushMemtable
  PROVE  manifest' \in Seq(Range(manifest'))
<1>0. manifest \in Seq(Range(manifest))
  BY DEF EntriesOK
<1>1. io_rx # <<>> /\ IsFlush(Head(io_rx))
  BY DEF IoFlushMemtable, TakeEvent, IsFlush
<1>2. PICK mt, entries :
        /\ entries = <<MemtableFlush(mt.id)>> \o Head(io_rx).entries
        /\ \/ manifest' = manifest \o entries
           \/ \E n \in 0 .. (Len(entries) - 1) : manifest' = manifest \o SubSeq(entries, 1, n)
           \/ manifest' = manifest \o <<>>
           \/ manifest' = manifest
  BY DEF IoFlushMemtable, FlushFails
<1>3. entries \in Seq(Range(entries)) /\ manifest \o entries \in Seq(Range(manifest \o entries))
  BY <1>1, <1>2, ManifestAppended
<1>4. PICK S : S = Range(manifest) \cup Range(entries)
  OBVIOUS
<1>5. manifest \in Seq(S) /\ entries \in Seq(S)
  <2>1. manifest \in Seq(S)
    BY <1>0, <1>4
  <2>2. entries \in Seq(S)
    BY <1>3, <1>4
  <2> QED
    BY <2>1, <2>2
<1>6. \A s \in Seq(S) : s \in Seq(Range(s))
  <2>1. ASSUME NEW s \in Seq(S) PROVE s \in Seq(Range(s))
    BY DEF Range
  <2> QED
    BY <2>1
<1>7. manifest' \in Seq(S)
  <2>1. CASE manifest' = manifest \o entries
    BY <1>5, <2>1
  <2>2. ASSUME NEW n \in 0 .. (Len(entries) - 1), manifest' = manifest \o SubSeq(entries, 1, n)
        PROVE  manifest' \in Seq(S)
    <3>1. SubSeq(entries, 1, n) \in Seq(S)
      BY <1>5
    <3> QED
      BY <1>5, <2>2, <3>1
  <2>3. CASE manifest' = manifest \o <<>>
    BY <1>5, <2>3
  <2>4. CASE manifest' = manifest
    BY <1>5, <2>4
  <2> QED
    BY <1>2, <2>1, <2>2, <2>3, <2>4
<1> QED
  BY <1>6, <1>7, Zenon

\* The queue without its first event.
LEMMA RestOfQueue ==
  ASSUME QueueOK, io_rx # <<>>, io_rx' = Tail(io_rx)
  PROVE  /\ 1 \in DOMAIN io_rx /\ io_rx[1] = Head(io_rx)
         /\ Len(io_rx') \in Nat /\ Len(io_rx) = Len(io_rx') + 1
         /\ \A j \in DOMAIN io_rx' : j \in Nat /\ j + 1 \in DOMAIN io_rx /\ io_rx'[j] = io_rx[j + 1]
<1>1. /\ Len(io_rx) \in Nat \ {0} /\ DOMAIN io_rx = 1 .. Len(io_rx) /\ Head(io_rx) = io_rx[1]
      /\ DOMAIN io_rx' = 1 .. (Len(io_rx) - 1)
      /\ \A i \in DOMAIN io_rx' : i + 1 \in DOMAIN io_rx /\ io_rx'[i] = io_rx[i + 1]
  BY TailOwn DEF QueueOK, Pending
<1>2. PICK S : S = Range(io_rx)
  OBVIOUS
<1>3. io_rx \in Seq(S)
  BY <1>2 DEF QueueOK, Pending
<1>4. Len(Tail(io_rx)) = Len(io_rx) - 1
  BY <1>1, <1>3
<1> QED
  BY <1>1, <1>4

\* The events that remain: their memtables, entries and names.
LEMMA RestNamed ==
  ASSUME QueueOK, Grows, NamedBeforeFlush, io_rx # <<>>, io_rx' = Tail(io_rx), io = "up",
         UNCHANGED <<memtable, call, stream_buffer>>, manifest' \in Seq(Range(manifest')),
         \A sst \in Tables' : Registered(InTable(sst)), StreamsNamed',
         labelmap_by_stream' = labelmap_by_stream,
         history'.failed = {} /\ io' = "up" =>
           /\ history.failed = {} /\ Range(manifest) \subseteq Range(manifest')
           /\ IsFlush(Head(io_rx)) => Range(Head(io_rx).entries) \subseteq Range(manifest')
  PROVE  NamedBeforeFlush'
<1>0. EntriesOK /\ AllRegistered
  BY DEF NamedBeforeFlush
<1>1. /\ Len(io_rx') \in Nat /\ Len(io_rx) = Len(io_rx') + 1
      /\ \A j \in DOMAIN io_rx' : j \in Nat /\ j + 1 \in DOMAIN io_rx /\ io_rx'[j] = io_rx[j + 1]
  BY RestOfQueue
<1>2. EntriesOK'
  BY <1>0, <1>1 DEF EntriesOK, IsFlush
<1>3. AllRegistered'
  <2>1. Active' = Active
    BY DEF Active
  <2>2. \A r \in Active : StreamOf(r) \in DOMAIN labelmap_by_stream
    BY <1>0 DEF AllRegistered, Registered
  <2>3. \A j \in DOMAIN io_rx' : IsFlush(io_rx'[j]) =>
          \A r \in io_rx'[j].memtable.set : StreamOf(r) \in DOMAIN labelmap_by_stream
    BY <1>0, <1>1 DEF AllRegistered, Registered
  <2>4. \A sst \in Tables' : \A r \in InTable(sst)' : StreamOf(r) \in DOMAIN labelmap_by_stream
    BY TableSame DEF Registered
  <2> QED
    BY <2>1, <2>2, <2>3, <2>4 DEF AllRegistered, Registered, StreamOf, Grows, IsFlush
<1>4. ASSUME history'.failed = {}, io' = "up" PROVE Announced' /\ QueueNamed'
  <2>0. Announced /\ QueueNamed
    BY <1>4 DEF NamedBeforeFlush
  <2>1. \A s \in DOMAIN labelmap_by_stream : \A j \in Nat : Named(s, j + 1) => Named(s, j)'
    BY <1>4, NamedTaken
  <2>2. PICK n \in Nat : n = Len(io_rx') /\ n + 1 = Len(io_rx)
    BY <1>1
  <2>3. Announced'
    <3>1. ASSUME NEW s \in DOMAIN labelmap_by_stream, call.pc # "panicked"
          PROVE  Named(s, n)' \/ Names(stream_buffer, s)
      <4>1. Named(s, n + 1) \/ Names(stream_buffer, s)
        BY <2>0, <2>2, <3>1, Zenon DEF Announced
      <4> QED
        BY <2>1, <4>1
    <3> QED
      BY <2>2, <3>1 DEF Announced, Named, Names, StreamUpdate
  <2>4. ASSUME NEW j \in DOMAIN io_rx', IsFlush(io_rx'[j]), NEW r \in io_rx'[j].memtable.set
        PROVE  Named(StreamOf(r), j)'
    <3>1. Named(StreamOf(r), j + 1) /\ StreamOf(r) \in DOMAIN labelmap_by_stream
      BY <1>0, <1>1, <2>0, <2>4 DEF QueueNamed, AllRegistered, Registered
    <3> QED
      BY <1>1, <2>1, <3>1 DEF StreamOf
  <2>5. QueueNamed'
    BY <2>4 DEF QueueNamed, IsFlush, StreamOf
  <2> QED
    BY <2>3, <2>5
<1> QED
  BY <1>2, <1>3, <1>4 DEF NamedBeforeFlush

\* The table of a flush has streams that the manifest names by then.
LEMMA FlushedNamed ==
  ASSUME QueueOK, NamedBeforeFlush, io_rx # <<>>, io = "up", Grows, manifest \in Seq(Range(manifest)),
         labelmap_by_stream' = labelmap_by_stream, history' = history,
         Range(manifest) \cup Range(Head(io_rx).entries) \subseteq Range(manifest'),
         IsFlush(Head(io_rx)), NEW mt, Head(io_rx).memtable = mt,
         NEW sst, Tables' = Tables \cup {sst}, InTable(sst) \subseteq mt.set
  PROVE  (\A t \in Tables' : Registered(InTable(t))) /\ StreamsNamed'
<1>0. AllRegistered /\ 1 \in DOMAIN io_rx /\ io_rx[1] = Head(io_rx)
  <2>1. Len(io_rx) \in Nat \ {0} /\ DOMAIN io_rx = 1 .. Len(io_rx) /\ Head(io_rx) = io_rx[1]
    BY TailOwn DEF QueueOK, Pending
  <2> QED
    BY <2>1 DEF NamedBeforeFlush
<1>1. Registered(mt.set)
  BY <1>0, Zenon DEF AllRegistered
<1>2. \A t \in Tables' : Registered(InTable(t))
  <2>1. Registered(InTable(sst))
    BY <1>1 DEF Registered
  <2> QED
    BY <1>0, <2>1 DEF AllRegistered
<1>3. ASSUME history.failed = {}, NEW t \in Tables', NEW r \in InTable(t)
      PROVE  StreamUpdate(r.key.stream_id, labelmap_by_stream[r.key.stream_id]) \in Range(manifest')
  <2>1. CASE t \in Tables
    <3>1. \E i \in DOMAIN manifest : manifest[i] = StreamUpdate(r.key.stream_id, labelmap_by_stream[r.key.stream_id])
      BY <1>3, <2>1, Zenon DEF NamedBeforeFlush, StreamsNamed
    <3> QED
      BY <3>1 DEF Range
  <2>2. CASE t = sst
    <3>1. Named(StreamOf(r), 1)
      BY <1>0, <1>3, <2>2, Zenon DEF NamedBeforeFlush, QueueNamed
    <3>2. Names(manifest, StreamOf(r)) \/ Names(Head(io_rx).entries, StreamOf(r))
      <4>1. \A i \in DOMAIN io_rx : i <= 1 => i = 1
        <5>1. Len(io_rx) \in Nat \ {0} /\ DOMAIN io_rx = 1 .. Len(io_rx)
          BY TailOwn DEF QueueOK, Pending
        <5> QED
          BY <5>1
      <4> QED
        BY <1>0, <3>1, <4>1, Zenon DEF Named
    <3> QED
      BY <3>2 DEF Names, StreamOf
  <2> QED
    BY <2>1, <2>2
<1>4. ASSUME history'.failed = {}, NEW t \in Tables', NEW r \in InTable(t)'
      PROVE  \E i \in DOMAIN manifest' : manifest'[i] = StreamUpdate(r.key.stream_id, labelmap_by_stream'[r.key.stream_id])
  <2>1. StreamUpdate(r.key.stream_id, labelmap_by_stream[r.key.stream_id]) \in Range(manifest')
    BY <1>3, <1>4, TableSame
  <2> QED
    BY <2>1 DEF Range
<1> QED
  BY <1>2, <1>4 DEF StreamsNamed, StreamUpdate

LEMMA ConsumerNamed ==
  ASSUME TreeTypeOK, LogBeforeFlush, NamedBeforeFlush, IoAppendWal \/ IoFsyncWal \/ IoFlushMemtable
  PROVE  NamedBeforeFlush'
<1>0. /\ QueueOK /\ history \in History /\ flush_results \in Seq(Range(flush_results))
      /\ EntriesOK /\ AllRegistered /\ QueueLogged /\ StreamsNamed
  BY DEF TreeTypeOK, QueueOK, NamedBeforeFlush, LogBeforeFlush
<1>1. UNCHANGED treeVars /\ io_rx # <<>> /\ io_rx' = Tail(io_rx) /\ io = "up"
  BY EventTaken DEF IoAppendWal, IoFsyncWal, IoFlushMemtable
<1>2. UNCHANGED <<memtable, call, counters, sst_handles, stream_buffer, labelmap_by_stream>>
  BY <1>1 DEF treeVars
<1>3. Grows /\ manifest \in Seq(Range(manifest))
  BY <1>0, <1>2, RegistrySame DEF EntriesOK
<1>4. ASSUME flush_results' = flush_results
      PROVE  \A sst \in Tables' : Registered(InTable(sst))
  BY <1>0, <1>2, <1>4 DEF Tables, AllRegistered
<1>5. ASSUME UNCHANGED <<flush_results, manifest>>, history'.failed = history.failed
      PROVE  StreamsNamed'
  <2>1. Tables' \subseteq Tables
    BY <1>2, <1>5 DEF Tables
  <2> QED
    BY <1>0, <1>3, <1>5, <2>1, NamedTables
<1>6. CASE IoAppendWal \/ IoFsyncWal
  <2>1. UNCHANGED <<flush_results, manifest>> /\ history'.failed = history.failed
    BY <1>0, <1>6 DEF IoAppendWal, IoFsyncWal, History
  <2>2. ~IsFlush(Head(io_rx))
    BY <1>6 DEF IoAppendWal, IoFsyncWal, TakeEvent, IsFlush
  <2> QED
    BY <1>0, <1>1, <1>2, <1>3, <1>4, <1>5, <2>1, <2>2, RestNamed
<1>7. CASE IoFlushMemtable
  <2>0. manifest' \in Seq(Range(manifest'))
    BY <1>0, <1>7, ManifestSeq
  <2>1. PICK mt \in Memtable :
           /\ IsFlush(Head(io_rx)) /\ Head(io_rx).memtable = mt
           /\ \/ /\ write_table(mt).out = "ok"
                 /\ flush_results' = Append(flush_results, [id |-> mt.id, handle |-> write_table(mt).handle])
                 /\ manifest' = manifest \o (<<MemtableFlush(mt.id)>> \o Head(io_rx).entries)
                 /\ UNCHANGED <<io, history>>
              \/ /\ history' = [history EXCEPT !.failed = history.failed \cup {mt.id}]
                 /\ UNCHANGED <<io, flush_results>>
              \/ io' = "down" /\ UNCHANGED <<flush_results, history, manifest>>
    BY <1>7, TableFlushed
  <2>2. CASE /\ write_table(mt).out = "ok"
             /\ flush_results' = Append(flush_results, [id |-> mt.id, handle |-> write_table(mt).handle])
             /\ manifest' = manifest \o (<<MemtableFlush(mt.id)>> \o Head(io_rx).entries)
             /\ UNCHANGED <<io, history>>
    <3>1. PICK sst : Tables' = Tables \cup {sst} /\ InTable(sst) = Between(mt)
      BY <1>0, <1>1, <1>2, <2>1, <2>2, NewTable
    <3>2. InTable(sst) \subseteq mt.set
      BY <3>1 DEF Between
    <3>3. Range(manifest) \cup Range(Head(io_rx).entries) \subseteq Range(manifest')
      <4>1. PICK entries : entries = <<MemtableFlush(mt.id)>> \o Head(io_rx).entries
        OBVIOUS
      <4>2. /\ Range(manifest \o entries) = Range(manifest) \cup Range(entries)
            /\ Range(Head(io_rx).entries) \subseteq Range(entries)
        BY <1>0, <1>1, <2>1, <4>1, ManifestAppended
      <4>3. Range(manifest') = Range(manifest \o entries)
        BY <2>2, <4>1, Zenon
      <4> QED
        BY <4>2, <4>3
    <3>4. (\A t \in Tables' : Registered(InTable(t))) /\ StreamsNamed'
      BY <1>0, <1>1, <1>2, <1>3, <2>1, <2>2, <3>1, <3>2, <3>3, FlushedNamed
    <3> QED
      BY <1>0, <1>1, <1>2, <1>3, <2>0, <2>2, <3>3, <3>4, RestNamed
  <2>3. CASE history' = [history EXCEPT !.failed = history.failed \cup {mt.id}] /\ UNCHANGED <<io, flush_results>>
    <3>1. history'.failed # {}
      BY <1>0, <2>3 DEF History
    <3>2. StreamsNamed'
      BY <3>1 DEF StreamsNamed
    <3> QED
      BY <1>0, <1>1, <1>2, <1>3, <1>4, <2>0, <2>3, <3>1, <3>2, RestNamed
  <2>4. CASE io' = "down" /\ UNCHANGED <<flush_results, history, manifest>>
    <3>1. io' # "up"
      BY <2>4
    <3> QED
      BY <1>0, <1>1, <1>2, <1>3, <1>4, <1>5, <2>0, <2>4, <3>1, RestNamed
  <2> QED
    BY <2>1, <2>2, <2>3, <2>4
<1> QED
  BY <1>6, <1>7

LEMMA NamedInit == Init => NamedBeforeFlush
<1> SUFFICES ASSUME Init PROVE NamedBeforeFlush
  OBVIOUS
<1>1. /\ memtable.set = {} /\ call.pc = "idle" /\ io_rx = <<>> /\ sst_handles = <<>> /\ flush_results = <<>>
      /\ stream_buffer = <<>> /\ manifest = <<>> /\ labelmap_by_stream = <<>>
  BY DEF Init, with_size_limit, Idle
<1>2. Active = {} /\ Tables = {} /\ DOMAIN labelmap_by_stream = {} /\ DOMAIN io_rx = {}
  BY <1>1 DEF Active, Tables, Range
<1>3. EntriesOK
  BY <1>1, <1>2 DEF EntriesOK
<1>4. AllRegistered
  BY <1>2 DEF AllRegistered, Registered
<1>5. Announced /\ QueueNamed /\ StreamsNamed
  BY <1>2 DEF Announced, QueueNamed, StreamsNamed
<1> QED
  BY <1>3, <1>4, <1>5 DEF NamedBeforeFlush

\* As long as no flush has failed, the manifest names the labels of the streams of
\* every finished table: a stream's update goes out with the flush of the memtable
\* that was active when the stream was first seen.
THEOREM StreamsAreNamed == Spec => []StreamsNamed
<1>1. Init => TreeTypeOK /\ LogBeforeFlush /\ NamedBeforeFlush
  BY InitTree, BeforeInit, NamedInit
<1>2. TreeTypeOK /\ LogBeforeFlush /\ NamedBeforeFlush /\ [Next]_vars
        => (TreeTypeOK /\ LogBeforeFlush /\ NamedBeforeFlush)'
  <2> SUFFICES ASSUME TreeTypeOK, LogBeforeFlush, NamedBeforeFlush, [Next]_vars
               PROVE  TreeTypeOK' /\ LogBeforeFlush' /\ NamedBeforeFlush'
    OBVIOUS
  <2>1. TreeTypeOK' /\ LogBeforeFlush'
    BY TreeStep, BeforeStep
  <2>2. NamedBeforeFlush'
    BY QuietNamed, PanicNamed, DrainNamed, IssueNamed, PayloadNamed, ConsumerNamed DEF Next
  <2> QED
    BY <2>1, <2>2
<1>3. NamedBeforeFlush => StreamsNamed
  BY DEF NamedBeforeFlush
<1> QED
  BY <1>1, <1>2, <1>3, PTL DEF Spec

-----------------------------------------------------------------------------
(* Nothing vanishes.                                                         *)

\* A bounded set of numbers has a greatest one.
LEMMA GreatestNumber ==
  ASSUME NEW T \in SUBSET Nat, T # {}, NEW b \in Nat, \A x \in T : x <= b
  PROVE  \E c \in T : \A d \in T : d <= c
<1> DEFINE D == {n \in Nat : \E x \in T : n = b - x}
<1>1. D \in SUBSET Nat /\ D # {}
  <2>1. PICK x \in T : TRUE
    OBVIOUS
  <2>2. b - x \in Nat /\ b - x = b - x
    BY <2>1
  <2>3. b - x \in D
    BY <2>1, <2>2
  <2> QED
    BY <2>3
<1>2. PICK n \in D : \A m \in D : n <= m
  BY <1>1, LeastNumber
<1>3. PICK c \in T : n = b - c
  BY DEF D
<1>4. ASSUME NEW d \in T PROVE d <= c
  <2>1. b - d \in D
    BY DEF D
  <2>2. n <= b - d
    BY <1>2, <2>1
  <2> QED
    BY <1>3, <2>2
<1> QED
  BY <1>4

Placement == [rec : LogRecord, mid : Nat]

LEMMA PlacedType ==
  ASSUME TreeTypeOK
  PROVE  /\ history.placed \in Seq(Placement) /\ Len(history.placed) \in Nat
         /\ DOMAIN history.placed = 1 .. Len(history.placed)
         /\ \A mid : PlacedIn(mid) \in SUBSET Nat /\ \A i \in PlacedIn(mid) : i <= Len(history.placed)
<1>1. history.placed \in Seq(Placement)
  BY DEF TreeTypeOK, History, Placement
<1>2. Len(history.placed) \in Nat /\ DOMAIN history.placed = 1 .. Len(history.placed)
  BY <1>1
<1> QED
  BY <1>1, <1>2 DEF PlacedIn

\* The records of a memtable that are between its first and its last key.
LEMMA FaithfulBetween ==
  ASSUME TreeTypeOK, NEW mt, Faithful(mt), Straight(mt.id), NEW i \in PlacedIn(mt.id)
  PROVE  history.placed[i].rec \in Between(mt)
<1>1. PICK P, q, n : P = PlacedIn(mt.id) /\ q = history.placed /\ n = Len(history.placed)
  OBVIOUS
<1>2. P \in SUBSET Nat /\ P # {} /\ n \in Nat /\ \A j \in P : j <= n
  BY <1>1, PlacedType
<1>3. PICK a \in P : \A j \in P : a <= j
  BY <1>2, LeastNumber
<1>4. PICK z \in P : \A j \in P : j <= z
  BY <1>2, GreatestNumber
<1>5. q[i].rec \in mt.set /\ mt.first_key = <<q[a].rec.key>> /\ mt.last_key = <<q[z].rec.key>>
  BY <1>1, <1>3, <1>4, Zenon DEF Faithful
<1>6. InRange(q[i].rec.key, q[a].rec.key, q[z].rec.key)
  BY <1>1, <1>3, <1>4, Zenon DEF Straight
<1>7. mt.first_key[1] = q[a].rec.key /\ mt.last_key[1] = q[z].rec.key
  BY <1>5
<1>8. InRange(q[i].rec.key, mt.first_key[1], mt.last_key[1])
  BY <1>6, <1>7, Zenon
<1> QED
  BY <1>1, <1>5, <1>8 DEF Between

\* Nothing is placed in the memtable.
Undisturbed(mid) ==
  /\ {i \in DOMAIN history'.placed : history'.placed[i].mid = mid} = PlacedIn(mid)
  /\ \A i \in PlacedIn(mid) : history'.placed[i] = history.placed[i]

LEMMA FaithfulKept ==
  ASSUME NEW mt, Undisturbed(mt.id), Faithful(mt)
  PROVE  Faithful(mt)'
<1>1. PlacedIn(mt.id)' = PlacedIn(mt.id)
  BY DEF Undisturbed, PlacedIn
<1>2. \A i \in PlacedIn(mt.id) : history'.placed[i] = history.placed[i]
  BY DEF Undisturbed
<1> QED
  BY <1>1, <1>2 DEF Faithful

LEMMA KeepsKept ==
  ASSUME NEW sst, Undisturbed(sst.id), Keeps(sst)
  PROVE  Keeps(sst)'
<1>1. PlacedIn(sst.id)' = PlacedIn(sst.id)
  BY DEF Undisturbed, PlacedIn
<1>2. \A i \in PlacedIn(sst.id) : history'.placed[i] = history.placed[i]
  BY DEF Undisturbed
<1>3. ASSUME Straight(sst.id)' PROVE Straight(sst.id)
  <2>1. ASSUME NEW i \in PlacedIn(sst.id), NEW first \in PlacedIn(sst.id), NEW last \in PlacedIn(sst.id),
               \A j \in PlacedIn(sst.id) : first <= j /\ j <= last
        PROVE  InRange(history.placed[i].rec.key, history.placed[first].rec.key, history.placed[last].rec.key)
    <3>1. InRange(history.placed[i].rec.key, history.placed[first].rec.key, history.placed[last].rec.key)'
      BY <1>1, <1>3, <2>1, Zenon DEF Straight
    <3>2. InRange(history'.placed[i].rec.key, history'.placed[first].rec.key, history'.placed[last].rec.key)
      BY <3>1 DEF InRange, KeyLeq, KeyLess
    <3> QED
      BY <1>2, <3>2, Zenon
  <2> QED
    BY <2>1, Zenon DEF Straight
<1>4. ASSUME Straight(sst.id)', NEW i \in PlacedIn(sst.id) PROVE history'.placed[i].rec \in InTable(sst)'
  BY <1>2, <1>3, <1>4, TableSame DEF Keeps
<1> QED
  BY <1>1, <1>4 DEF Keeps

LEMMA NothingPlaced ==
  ASSUME history'.placed = history.placed
  PROVE  \A mid : Undisturbed(mid)
BY DEF Undisturbed, PlacedIn

\* q is history.placed with a record at n.
PlacedAt(q, n, r, mid) ==
  /\ \A other : other # mid => Undisturbed(other)
  /\ n \in Nat /\ DOMAIN q = DOMAIN history.placed \cup {n} /\ q[n] = [rec |-> r, mid |-> mid]
  /\ \A i \in DOMAIN history.placed : i < n /\ i \in Nat /\ q[i] = history.placed[i]
  /\ {i \in DOMAIN q : q[i].mid = mid} = PlacedIn(mid) \cup {n}

LEMMA OnePlaced ==
  ASSUME TreeTypeOK, NEW r, NEW mid, history'.placed = Append(history.placed, [rec |-> r, mid |-> mid]),
         NEW n, n = Len(history.placed) + 1, NEW q, q = history'.placed
  PROVE  PlacedAt(q, n, r, mid)
<1>0. history.placed \in Seq(Placement) /\ Len(history.placed) \in Nat /\ DOMAIN history.placed = 1 .. Len(history.placed)
  BY PlacedType
<1>1. history.placed \in Seq(Range(history.placed))
  BY <1>0, SMTT(30) DEF Range
<1>2. PICK e : e = [rec |-> r, mid |-> mid]
  OBVIOUS
<1>3. /\ DOMAIN q = 1 .. n /\ q[n] = e /\ \A i \in DOMAIN history.placed : q[i] = history.placed[i]
  BY <1>1, <1>2, AppendOwn
<1>4. n \in Nat /\ DOMAIN q = DOMAIN history.placed \cup {n} /\ \A i \in DOMAIN history.placed : i < n /\ i \in Nat
  BY <1>0, <1>3
<1>5. {i \in DOMAIN q : q[i].mid = mid} = PlacedIn(mid) \cup {n}
  <2>1. e.mid = mid
    BY <1>2
  <2> QED
    BY <1>3, <1>4, <2>1 DEF PlacedIn
<1>6. ASSUME NEW other, other # mid PROVE Undisturbed(other)
  <2>1. e.mid = mid
    BY <1>2
  <2>2. {i \in DOMAIN q : q[i].mid = other} = PlacedIn(other)
    BY <1>3, <1>4, <1>6, <2>1 DEF PlacedIn
  <2>3. \A i \in PlacedIn(other) : q[i] = history.placed[i]
    BY <1>3 DEF PlacedIn
  <2> QED
    BY <2>2, <2>3 DEF Undisturbed
<1> QED
  BY <1>2, <1>3, <1>4, <1>5, <1>6 DEF PlacedAt

\* The active memtable is what was placed in it.
ActiveFaithful(mt) == Faithful(mt) /\ (PlacedIn(mt.id) = {} => mt.first_key = <<>>)

\* It takes a record.
LEMMA FaithfulInsert ==
  ASSUME TreeTypeOK, NEW mt \in Memtable, ActiveFaithful(mt), NEW r,
         history'.placed = Append(history.placed, [rec |-> r, mid |-> mt.id])
  PROVE  ActiveFaithful(Inserted(mt, r))'
<1>1. PICK n, q : n = Len(history.placed) + 1 /\ q = history'.placed
  OBVIOUS
<1>2. /\ n \in Nat /\ DOMAIN q = DOMAIN history.placed \cup {n} /\ q[n] = [rec |-> r, mid |-> mt.id]
      /\ \A i \in DOMAIN history.placed : i < n /\ i \in Nat /\ q[i] = history.placed[i]
      /\ {i \in DOMAIN q : q[i].mid = mt.id} = PlacedIn(mt.id) \cup {n}
  <2>1. PICK m : m = mt.id
    OBVIOUS
  <2>2. history'.placed = Append(history.placed, [rec |-> r, mid |-> m])
    BY <2>1, Zenon
  <2>3. PlacedAt(q, n, r, m)
    BY <1>1, <2>2, OnePlaced
  <2> QED
    BY <2>1, <2>3, Zenon DEF PlacedAt
<1>3. PICK new : new = Inserted(mt, r)
  OBVIOUS
<1>4. /\ new.set = mt.set \cup {r} /\ new.id = mt.id /\ new.last_key = <<r.key>>
      /\ new.first_key = IF mt.first_key = <<>> THEN <<r.key>> ELSE mt.first_key
  BY <1>3, InsertedSet, Zenon
<1>5. PICK P : P = PlacedIn(mt.id)
  OBVIOUS
<1>6. PlacedIn(new.id)' = P \cup {n}
  BY <1>1, <1>2, <1>4, <1>5 DEF PlacedIn
<1>7. P \in SUBSET Nat /\ P \subseteq DOMAIN history.placed
  BY <1>5, PlacedType DEF PlacedIn
<1>8. q[n].rec = r
  BY <1>2
<1>9. \A i \in P : ~(n <= i) /\ i # n /\ q[i] = history.placed[i]
  <2>1. \A i \in P : i < n /\ i \in Nat /\ q[i] = history.placed[i]
    BY <1>2, <1>7, Zenon
  <2>2. n \in Nat
    BY <1>2
  <2> QED
    BY <2>1, <2>2
<1>10. ASSUME NEW i \in P \cup {n} PROVE q[i].rec \in new.set
  <2>1. CASE i = n
    BY <1>4, <1>8, <2>1
  <2>2. CASE i \in P
    BY <1>4, <1>5, <1>9, <2>2 DEF ActiveFaithful, Faithful
  <2> QED
    BY <2>1, <2>2
<1>11. ASSUME NEW i \in P \cup {n}, \A j \in P \cup {n} : i <= j PROVE new.first_key = <<q[i].rec.key>>
  <2>1. CASE i = n
    <3>1. P = {}
      BY <1>9, <1>11, <2>1
    <3>2. mt.first_key = <<>>
      BY <1>5, <3>1 DEF ActiveFaithful
    <3> QED
      BY <1>4, <1>8, <2>1, <3>2
  <2>2. CASE i \in P
    <3>1. mt.first_key = <<history.placed[i].rec.key>>
      BY <1>5, <1>11, <2>2, Zenon DEF ActiveFaithful, Faithful
    <3>2. mt.first_key # <<>>
      BY <3>1
    <3> QED
      BY <1>4, <1>9, <2>2, <3>1, <3>2, Zenon
  <2> QED
    BY <2>1, <2>2
<1>12. ASSUME NEW i \in P \cup {n}, \A j \in P \cup {n} : j <= i PROVE new.last_key = <<q[i].rec.key>>
  <2>1. i = n
    BY <1>9, <1>12
  <2> QED
    BY <1>4, <1>8, <2>1
<1>13. Faithful(new)'
  BY <1>1, <1>6, <1>10, <1>11, <1>12 DEF Faithful
<1>14. PlacedIn(new.id)' # {}
  BY <1>6
<1>15. ActiveFaithful(new)'
  BY <1>13, <1>14 DEF ActiveFaithful
<1>16. Inserted(mt, r)' = Inserted(mt, r)
  BY DEF Inserted, size_of, KEY_SIZE
<1> QED
  BY <1>3, <1>15, <1>16 DEF ActiveFaithful, Faithful, PlacedIn

\* A step that disturbs at most the active memtable, and loses none.
LEMMA LostStep ==
  ASSUME \A mid : mid # memtable'.id => Undisturbed(mid), ActiveFaithful(memtable)', memtable'.id \in Nat,
         \A mt \in Frozen' : Faithful(mt) /\ mt.id # memtable'.id,
         \A j \in DOMAIN io_rx' : IsFlush(io_rx'[j]) =>
           Faithful(io_rx'[j].memtable) /\ io_rx'[j].memtable.id # memtable'.id,
         \A sst \in Tables' : sst.id \in 0 .. (memtable'.id - 1) /\ Keeps(sst),
         \A i \in DOMAIN history'.placed : Located(history.placed[i].mid)'
  PROVE  NothingLost'
<1>1. \A mt \in Frozen' : Faithful(mt)'
  BY FaithfulKept
<1>2. (\A j \in DOMAIN io_rx : IsFlush(io_rx[j]) => Faithful(io_rx[j].memtable))'
  <2>1. ASSUME NEW j \in DOMAIN io_rx', IsFlush(io_rx'[j]) PROVE Faithful(io_rx[j].memtable)'
    <3>1. PICK mt : mt = io_rx'[j].memtable
      OBVIOUS
    <3>2. Faithful(mt) /\ Undisturbed(mt.id)
      BY <2>1, <3>1, Zenon
    <3>3. Faithful(mt)'
      BY <3>2, FaithfulKept
    <3> QED
      BY <3>1, <3>3 DEF Faithful, PlacedIn
  <2> QED
    BY <2>1 DEF IsFlush
<1>3. \A sst \in Tables' : sst.id \in 0 .. (memtable'.id - 1) /\ Keeps(sst)'
  <2>1. ASSUME NEW sst \in Tables' PROVE Keeps(sst)'
    <3>1. sst.id # memtable'.id
      BY <2>1
    <3> QED
      BY <2>1, <3>1, KeepsKept
  <2> QED
    BY <2>1
<1>4. (Faithful(memtable) /\ (PlacedIn(memtable.id) = {} => memtable.first_key = <<>>))'
  BY DEF ActiveFaithful
<1>5. (\A i \in DOMAIN history.placed : Located(history.placed[i].mid))'
  OBVIOUS
<1>6. (\A mt \in Frozen : Faithful(mt))'
  BY <1>1
<1>7. (\A sst \in Tables : sst.id \in 0 .. (memtable.id - 1) /\ Keeps(sst))'
  BY <1>3
<1> QED
  BY <1>2, <1>4, <1>5, <1>6, <1>7, Zenon DEF NothingLost

\* The memtables that are no longer active have smaller ids.
LEMMA OlderIds ==
  ASSUME TreeTypeOK, FlushOrder
  PROVE  /\ memtable.id \in Nat
         /\ \A mt \in Frozen : mt.id \in 0 .. (memtable.id - 1)
         /\ \A j \in DOMAIN io_rx : IsFlush(io_rx[j]) => io_rx[j].memtable.id \in 0 .. (memtable.id - 1)
<1>1. memtable.id \in Nat /\ frozen_memtables \in Seq(Memtable)
  BY DEF TreeTypeOK, Memtable
<1>2. \A mt \in Frozen : mt.id \in 0 .. (memtable.id - 1)
  <2>1. ASSUME NEW i \in DOMAIN frozen_memtables PROVE frozen_memtables[i].id \in 0 .. (memtable.id - 1)
    <3>1. frozen_memtables[i] \in Memtable
      BY <1>1
    <3>2. frozen_memtables[i].id \in Nat /\ frozen_memtables[i].id < memtable.id
      BY <3>1 DEF FlushOrder, Memtable
    <3> QED
      BY <1>1, <3>2
  <2> QED
    BY <2>1 DEF Frozen, Range
<1>3. ASSUME NEW j \in DOMAIN io_rx, IsFlush(io_rx[j]) PROVE io_rx[j].memtable.id \in 0 .. (memtable.id - 1)
  <2>1. io_rx[j].memtable.id \in Nat
    BY <1>3, Ids
  <2>2. io_rx[j].memtable.id < memtable.id
    BY <1>3 DEF FlushOrder
  <2> QED
    BY <1>1, <2>1, <2>2
<1> QED
  BY <1>1, <1>2, <1>3

\* Steps that freeze, flush and drain nothing.
LEMMA LostStay ==
  ASSUME TreeTypeOK, FlushOrder, NothingLost, FlushesStay, sst_handles' = sst_handles,
         \A mid : mid # memtable.id => Undisturbed(mid), ActiveFaithful(memtable)',
         \A i \in DOMAIN history'.placed :
           \/ i \in DOMAIN history.placed /\ history'.placed[i] = history.placed[i]
           \/ history'.placed[i].mid = memtable.id
  PROVE  NothingLost'
<1>1. /\ memtable.id \in Nat
      /\ \A mt \in Frozen : mt.id \in 0 .. (memtable.id - 1)
      /\ \A j \in DOMAIN io_rx : IsFlush(io_rx[j]) => io_rx[j].memtable.id \in 0 .. (memtable.id - 1)
  BY OlderIds
<1>2. memtable'.id = memtable.id /\ UNCHANGED <<frozen_memtables, flush_results>> /\ QueueStays
  BY DEF FlushesStay
<1>3. Frozen' = Frozen /\ Tables' = Tables
  BY <1>2 DEF Frozen, Tables
<1>4. \A mt \in Frozen' : Faithful(mt) /\ mt.id # memtable'.id
  BY <1>1, <1>2, <1>3 DEF NothingLost
<1>5. ASSUME NEW j \in DOMAIN io_rx', IsFlush(io_rx'[j])
      PROVE  Faithful(io_rx'[j].memtable) /\ io_rx'[j].memtable.id # memtable'.id
  <2>1. PICK k \in DOMAIN io_rx : io_rx'[j] = io_rx[k]
    BY <1>2, <1>5 DEF QueueStays
  <2>2. PICK mt : mt = io_rx[k].memtable
    OBVIOUS
  <2>3. Faithful(mt) /\ mt.id \in 0 .. (memtable.id - 1)
    BY <1>1, <1>5, <2>1, <2>2, Zenon DEF NothingLost
  <2>4. mt.id # memtable.id
    BY <1>1, <2>3
  <2> QED
    BY <1>2, <2>1, <2>2, <2>3, <2>4, Zenon
<1>6. \A sst \in Tables' : sst.id \in 0 .. (memtable'.id - 1) /\ Keeps(sst)
  BY <1>2, <1>3 DEF NothingLost
<1>7. ASSUME NEW i \in DOMAIN history'.placed PROVE Located(history.placed[i].mid)'
  <2>1. PICK m : m = history'.placed[i].mid
    OBVIOUS
  <2>2. Located(m)
    <3>1. CASE i \in DOMAIN history.placed /\ history'.placed[i] = history.placed[i]
      BY <2>1, <3>1 DEF NothingLost
    <3>2. CASE history'.placed[i].mid = memtable.id
      BY <2>1, <3>2 DEF Located
    <3> QED
      BY <3>1, <3>2
  <2> QED
    BY <1>2, <1>3, <2>1, <2>2 DEF Located
<1> QED
  BY <1>1, <1>2, <1>4, <1>5, <1>6, <1>7, LostStep

LEMMA QuietLost ==
  ASSUME TreeTypeOK, FlushOrder, NothingLost,
         \/ BeginBatch \/ EndBatch \/ EndDrain \/ IoAppendWal \/ IoFsyncWal \/ UNCHANGED vars
         \/ \E p \in Payloads : RefusePayload(p) \/ StreamPanics(p)
  PROVE  NothingLost'
<1>0. history \in History
  BY DEF TreeTypeOK
<1>1. UNCHANGED <<memtable, sst_handles>> /\ history'.placed = history.placed
  <2>1. CASE BeginBatch
    BY <1>0, <2>1 DEF BeginBatch, History, tables
  <2>2. CASE EndBatch
    BY <1>0, <2>2 DEF EndBatch, History, tables
  <2>3. CASE EndDrain
    BY <2>3 DEF EndDrain, tables
  <2>4. CASE IoAppendWal \/ IoFsyncWal
    BY <1>0, <2>4 DEF IoAppendWal, IoFsyncWal, TakeEvent, treeVars, History
  <2>5. CASE UNCHANGED vars
    BY <2>5 DEF vars
  <2>6. CASE \E p \in Payloads : RefusePayload(p) \/ StreamPanics(p)
    BY <2>6 DEF RefusePayload, StreamPanics, tables
  <2> QED
    BY <2>1, <2>2, <2>3, <2>4, <2>5, <2>6
<1>2. \A mid : Undisturbed(mid)
  BY <1>1, NothingPlaced
<1>3. ActiveFaithful(memtable)'
  BY <1>1 DEF NothingLost, ActiveFaithful, Faithful, PlacedIn
<1>4. FlushesStay
  BY QuietStays
<1> QED
  BY <1>1, <1>2, <1>3, <1>4, LostStay

LEMMA PayloadLost ==
  ASSUME TreeTypeOK, FlushOrder, NothingLost, NEW p \in Payloads, NEW time \in Clock, AppendPayload(p, time)
  PROVE  NothingLost'
<1>0. history \in History /\ memtable \in Memtable
  BY DEF TreeTypeOK
<1>1. FlushesStay
  BY QuietStays
<1>2. sst_handles' = sst_handles
  BY DEF AppendPayload, tables
<1>3. PICK r : Appended(r)
  BY PayloadAppended
<1>4. CASE UNCHANGED <<memtable, history>>
  <2>1. \A mid : Undisturbed(mid)
    BY <1>4, NothingPlaced
  <2>2. ActiveFaithful(memtable)'
    BY <1>4 DEF NothingLost, ActiveFaithful, Faithful, PlacedIn
  <2> QED
    BY <1>1, <1>2, <1>4, <2>1, <2>2, LostStay
<1>5. CASE memtable' = Inserted(memtable, r) /\ history' = Place(r, memtable)
  <2>1. PICK n, q, m : n = Len(history.placed) + 1 /\ q = history'.placed /\ m = memtable.id
    OBVIOUS
  <2>2. history'.placed = Append(history.placed, [rec |-> r, mid |-> memtable.id])
    BY <1>0, <1>5 DEF Place, History
  <2>3. history'.placed = Append(history.placed, [rec |-> r, mid |-> m])
    BY <2>1, <2>2, Zenon
  <2>4. PlacedAt(q, n, r, m)
    BY <2>1, <2>3, OnePlaced
  <2>5. \A mid : mid # memtable.id => Undisturbed(mid)
    BY <2>1, <2>4, Zenon DEF PlacedAt
  <2>6. ActiveFaithful(memtable)'
    <3>1. PICK mt \in Memtable : mt = memtable
      BY <1>0
    <3>2. ActiveFaithful(mt)
      BY <3>1 DEF NothingLost, ActiveFaithful, Faithful, PlacedIn
    <3>3. ActiveFaithful(Inserted(mt, r))'
      BY <2>2, <3>1, <3>2, FaithfulInsert
    <3>4. Inserted(mt, r)' = memtable'
      BY <1>5, <3>1 DEF Inserted, size_of, KEY_SIZE
    <3> QED
      BY <3>3, <3>4 DEF ActiveFaithful, Faithful, PlacedIn
  <2>7. \A i \in DOMAIN history'.placed :
           \/ i \in DOMAIN history.placed /\ history'.placed[i] = history.placed[i]
           \/ history'.placed[i].mid = memtable.id
    <3>1. q[n].mid = m
      BY <2>4 DEF PlacedAt
    <3> QED
      BY <2>1, <2>4, <3>1, Zenon DEF PlacedAt
  <2> QED
    BY <1>1, <1>2, <2>5, <2>6, <2>7, LostStay
<1> QED
  BY <1>3, <1>4, <1>5 DEF Appended

\* The ids of the memtables that records were placed in.
LEMMA PlacedIds ==
  ASSUME TreeTypeOK, FlushOrder, NothingLost
  PROVE  PlacedIn(counters.memtable_id) = {}
<1>1. /\ memtable.id \in Nat
      /\ \A mt \in Frozen : mt.id \in 0 .. (memtable.id - 1)
  BY OlderIds
<1>2. counters.memtable_id \in Nat /\ memtable.id < counters.memtable_id
  BY Ids DEF FlushOrder
<1>3. ASSUME NEW i \in DOMAIN history.placed PROVE history.placed[i].mid # counters.memtable_id
  <2>1. PICK m : m = history.placed[i].mid
    OBVIOUS
  <2>2. Located(m)
    BY <2>1 DEF NothingLost
  <2>3. m \in 0 .. memtable.id
    BY <1>1, <2>2 DEF Located, NothingLost
  <2> QED
    BY <1>1, <1>2, <2>1, <2>3
<1> QED
  BY <1>3 DEF PlacedIn

\* The new memtable, with the record the old one rejected.
LEMMA IssuePlaced ==
  ASSUME TreeTypeOK, FlushOrder, NothingLost, IssueFlush
  PROVE  /\ memtable'.id = counters.memtable_id /\ ActiveFaithful(memtable)'
         /\ \A mid : mid # counters.memtable_id => Undisturbed(mid)
         /\ \A i \in DOMAIN history'.placed :
              \/ i \in DOMAIN history.placed /\ history'.placed[i] = history.placed[i]
              \/ history'.placed[i].mid = counters.memtable_id
<1>0. history \in History /\ counters.memtable_id \in Nat
  BY DEF TreeTypeOK
<1>1. PICK fresh : fresh = with_size_limit(counters.memtable_id)
  OBVIOUS
<1>2. fresh \in Memtable /\ fresh.id = counters.memtable_id /\ fresh.first_key = <<>>
  BY <1>0, <1>1 DEF with_size_limit, Memtable
<1>3. memtable'.id = counters.memtable_id
  BY FlushIssued
<1>4. PlacedIn(counters.memtable_id) = {}
  BY PlacedIds
<1>5. ActiveFaithful(fresh)
  BY <1>2, <1>4 DEF ActiveFaithful, Faithful
<1>6. \/ memtable' = fresh /\ history' = history
      \/ \E r : memtable' = Inserted(fresh, r) /\ history' = Place(r, fresh)
  <2>1. CASE io = "down"
    <3>1. memtable' = fresh
      BY <1>1, <2>1, FlushRenews, Zenon
    <3>2. history' = history
      BY <2>1 DEF IssueFlush
    <3> QED
      BY <3>1, <3>2
  <2>2. CASE io # "down" /\ call.rejected = <<>>
    <3>1. memtable' = fresh
      BY <1>1, <2>2, FlushRenews, Zenon
    <3>2. history' = history
      BY <2>2 DEF IssueFlush
    <3> QED
      BY <3>1, <3>2
  <2>3. CASE io # "down" /\ call.rejected # <<>>
    <3>1. memtable' = Inserted(fresh, call.rejected[1])
      BY <1>1, <2>3, FlushRenews, Zenon
    <3>2. history' = Place(call.rejected[1], fresh)
      BY <1>1, <2>3, Zenon DEF IssueFlush
    <3> QED
      BY <3>1, <3>2, Zenon
  <2> QED
    BY <2>1, <2>2, <2>3
<1>7. CASE memtable' = fresh /\ history' = history
  <2>1. \A mid : Undisturbed(mid)
    BY <1>7, NothingPlaced
  <2>2. ActiveFaithful(memtable)'
    BY <1>5, <1>7 DEF ActiveFaithful, Faithful, PlacedIn
  <2> QED
    BY <1>3, <1>7, <2>1, <2>2
<1>8. ASSUME NEW r, memtable' = Inserted(fresh, r), history' = Place(r, fresh)
      PROVE  /\ ActiveFaithful(memtable)'
             /\ \A mid : mid # counters.memtable_id => Undisturbed(mid)
             /\ \A i \in DOMAIN history'.placed :
                  \/ i \in DOMAIN history.placed /\ history'.placed[i] = history.placed[i]
                  \/ history'.placed[i].mid = counters.memtable_id
  <2>1. PICK n, q, m : n = Len(history.placed) + 1 /\ q = history'.placed /\ m = counters.memtable_id
    OBVIOUS
  <2>2. history'.placed = Append(history.placed, [rec |-> r, mid |-> fresh.id])
    BY <1>0, <1>8 DEF Place, History
  <2>3. history'.placed = Append(history.placed, [rec |-> r, mid |-> m])
    BY <1>2, <2>1, <2>2, Zenon
  <2>4. PlacedAt(q, n, r, m)
    BY <2>1, <2>3, OnePlaced
  <2>5. \A mid : mid # counters.memtable_id => Undisturbed(mid)
    BY <2>1, <2>4, Zenon DEF PlacedAt
  <2>6. ActiveFaithful(memtable)'
    <3>1. ActiveFaithful(Inserted(fresh, r))'
      BY <1>2, <1>5, <2>2, FaithfulInsert
    <3>2. Inserted(fresh, r)' = memtable'
      BY <1>8 DEF Inserted, size_of, KEY_SIZE
    <3> QED
      BY <3>1, <3>2 DEF ActiveFaithful, Faithful, PlacedIn
  <2>7. \A i \in DOMAIN history'.placed :
           \/ i \in DOMAIN history.placed /\ history'.placed[i] = history.placed[i]
           \/ history'.placed[i].mid = counters.memtable_id
    <3>1. q[n].mid = m
      BY <2>4 DEF PlacedAt
    <3> QED
      BY <2>1, <2>4, <3>1, Zenon DEF PlacedAt
  <2> QED
    BY <2>5, <2>6, <2>7
<1> QED
  BY <1>3, <1>6, <1>7, <1>8

LEMMA IssueLost ==
  ASSUME TreeTypeOK, FlushOrder, NothingLost, IssueFlush
  PROVE  NothingLost'
<1>1. /\ memtable'.id = counters.memtable_id /\ ActiveFaithful(memtable)'
      /\ \A mid : mid # counters.memtable_id => Undisturbed(mid)
      /\ \A i \in DOMAIN history'.placed :
           \/ i \in DOMAIN history.placed /\ history'.placed[i] = history.placed[i]
           \/ history'.placed[i].mid = counters.memtable_id
  BY IssuePlaced
<1>2. /\ memtable.id \in Nat /\ counters.memtable_id \in Nat /\ memtable.id < counters.memtable_id
      /\ \A mt \in Frozen : mt.id \in 0 .. (memtable.id - 1)
      /\ \A j \in DOMAIN io_rx : IsFlush(io_rx[j]) => io_rx[j].memtable.id \in 0 .. (memtable.id - 1)
  BY OlderIds, Ids DEF FlushOrder
<1>3. UNCHANGED <<sst_handles, flush_results>> /\ frozen_memtables' = Append(frozen_memtables, memtable)
  BY DEF IssueFlush, ioVars
<1>4. Tables' = Tables
  BY <1>3 DEF Tables
<1>5. Frozen' = Frozen \cup {memtable}
  <2>1. frozen_memtables \in Seq(Memtable)
    BY DEF TreeTypeOK
  <2>2. frozen_memtables \in Seq(Range(frozen_memtables))
    BY <2>1 DEF Range
  <2> QED
    BY <1>3, <2>2, AppendOwn DEF Frozen
<1>6. \A mt \in Frozen' : Faithful(mt) /\ mt.id # memtable'.id
  <2>1. Faithful(memtable) /\ memtable.id # memtable'.id
    BY <1>1, <1>2 DEF NothingLost
  <2>2. \A mt \in Frozen : Faithful(mt) /\ mt.id # memtable'.id
    BY <1>1, <1>2 DEF NothingLost
  <2> QED
    BY <1>5, <2>1, <2>2
<1>7. ASSUME NEW j \in DOMAIN io_rx', IsFlush(io_rx'[j])
      PROVE  Faithful(io_rx'[j].memtable) /\ io_rx'[j].memtable.id # memtable'.id
  <2>1. PICK mt : mt = io_rx'[j].memtable
    OBVIOUS
  <2>2. mt = memtable \/ \E k \in DOMAIN io_rx : IsFlush(io_rx[k]) /\ io_rx[k].memtable = mt
    <3>1. CASE io_rx' = io_rx
      BY <1>7, <2>1, <3>1
    <3>2. CASE io_rx' = Append(io_rx, FlushMemtable(memtable, stream_buffer))
      <4>1. PICK ev : ev = FlushMemtable(memtable, stream_buffer)
        OBVIOUS
      <4>2. ev.memtable = memtable
        BY <4>1, EventFacts, Zenon
      <4>3. /\ Len(io_rx) \in Nat /\ DOMAIN io_rx = 1 .. Len(io_rx)
            /\ DOMAIN io_rx' = 1 .. (Len(io_rx) + 1) /\ io_rx'[Len(io_rx) + 1] = ev
            /\ \A k \in DOMAIN io_rx : io_rx'[k] = io_rx[k]
        <5>1. io_rx \in Seq(Range(io_rx))
          BY DEF TreeTypeOK, Pending
        <5> QED
          BY <3>2, <4>1, <5>1, AppendOwn
      <4>4. j = Len(io_rx) + 1 \/ j \in DOMAIN io_rx
        BY <4>3
      <4> QED
        BY <1>7, <2>1, <4>2, <4>3, <4>4, Zenon
    <3> QED
      BY <3>1, <3>2, FlushIssued
  <2>3. Faithful(mt) /\ mt.id \in 0 .. memtable.id
    <3>1. CASE mt = memtable
      BY <1>2, <3>1 DEF NothingLost
    <3>2. ASSUME NEW k \in DOMAIN io_rx, IsFlush(io_rx[k]), io_rx[k].memtable = mt
          PROVE  Faithful(mt) /\ mt.id \in 0 .. memtable.id
      <4>1. Faithful(mt) /\ mt.id \in 0 .. (memtable.id - 1)
        BY <1>2, <3>2, Zenon DEF NothingLost
      <4> QED
        BY <1>2, <4>1
    <3> QED
      BY <2>2, <3>1, <3>2
  <2>4. mt.id # memtable'.id
    BY <1>1, <1>2, <2>3
  <2> QED
    BY <2>1, <2>3, <2>4, Zenon
<1>8. \A sst \in Tables' : sst.id \in 0 .. (memtable'.id - 1) /\ Keeps(sst)
  BY <1>1, <1>2, <1>4 DEF NothingLost
<1>9. ASSUME NEW i \in DOMAIN history'.placed PROVE Located(history.placed[i].mid)'
  <2>1. PICK m : m = history'.placed[i].mid
    OBVIOUS
  <2>2. CASE i \in DOMAIN history.placed /\ history'.placed[i] = history.placed[i]
    <3>1. Located(m)
      BY <2>1, <2>2 DEF NothingLost
    <3> QED
      BY <1>4, <1>5, <2>1, <3>1 DEF Located
  <2>3. CASE history'.placed[i].mid = counters.memtable_id
    BY <1>1, <2>3 DEF Located
  <2> QED
    BY <1>1, <2>2, <2>3
<1> QED
  BY <1>1, <1>2, <1>6, <1>7, <1>8, <1>9, LostStep

\* A memtable leaves frozen_memtables only as its table enters sst_handles.
LEMMA DrainLost ==
  ASSUME TreeTypeOK, FlushOrder, LogBeforeFlush, NothingLost, DrainSstQueue
  PROVE  NothingLost'
<1>1. PICK h : h = Head(flush_results)
  OBVIOUS
<1>2. /\ UNCHANGED <<memtable, io_rx, history>> /\ frozen_memtables \in Seq(Memtable)
      /\ \/ frozen_memtables' = frozen_memtables
         \/ /\ frozen_memtables # <<>> /\ Head(frozen_memtables).id = h.id
            /\ frozen_memtables' = Tail(frozen_memtables)
  BY <1>1 DEF DrainSstQueue, drain_one, TreeTypeOK
<1>3. Tables' = Tables /\ h \in Tables
  <2>1. Tables' = Tables /\ h \in Range(sst_handles')
    BY <1>1, DrainedTables DEF LogBeforeFlush, TreeTypeOK
  <2> QED
    BY <2>1 DEF Tables
<1>4. Frozen' \subseteq Frozen /\ \A mt \in Frozen : mt \in Frozen' \/ mt.id = h.id
  <2>1. CASE frozen_memtables' = frozen_memtables
    BY <2>1 DEF Frozen
  <2>2. CASE /\ frozen_memtables # <<>> /\ Head(frozen_memtables).id = h.id
             /\ frozen_memtables' = Tail(frozen_memtables)
    <3>1. frozen_memtables \in Seq(Range(frozen_memtables))
      BY <1>2 DEF Range
    <3>2. /\ DOMAIN frozen_memtables = 1 .. Len(frozen_memtables) /\ Head(frozen_memtables) = frozen_memtables[1]
          /\ \A i \in DOMAIN frozen_memtables' :
               i + 1 \in DOMAIN frozen_memtables /\ frozen_memtables'[i] = frozen_memtables[i + 1]
          /\ \A i \in DOMAIN frozen_memtables :
               i # 1 => i - 1 \in DOMAIN frozen_memtables' /\ frozen_memtables'[i - 1] = frozen_memtables[i]
      BY <2>2, <3>1, TailOwn
    <3>3. Frozen' \subseteq Frozen
      BY <3>2 DEF Frozen, Range
    <3>4. ASSUME NEW mt \in Frozen PROVE mt \in Frozen' \/ mt.id = h.id
      <4>1. PICK i \in DOMAIN frozen_memtables : mt = frozen_memtables[i]
        BY DEF Frozen, Range
      <4>2. CASE i = 1
        BY <2>2, <3>2, <4>1, <4>2
      <4>3. CASE i # 1
        BY <3>2, <4>1, <4>3 DEF Frozen, Range
      <4> QED
        BY <4>2, <4>3
    <3> QED
      BY <3>3, <3>4
  <2> QED
    BY <1>2, <2>1, <2>2
<1>5. /\ memtable.id \in Nat
      /\ \A mt \in Frozen : mt.id \in 0 .. (memtable.id - 1)
      /\ \A j \in DOMAIN io_rx : IsFlush(io_rx[j]) => io_rx[j].memtable.id \in 0 .. (memtable.id - 1)
  BY OlderIds
<1>6. \A mid : Undisturbed(mid)
  BY <1>2, NothingPlaced
<1>7. ActiveFaithful(memtable)'
  BY <1>2 DEF NothingLost, ActiveFaithful, Faithful, PlacedIn
<1>8. \A mt \in Frozen' : Faithful(mt) /\ mt.id # memtable'.id
  BY <1>2, <1>4, <1>5 DEF NothingLost
<1>9. \A j \in DOMAIN io_rx' : IsFlush(io_rx'[j]) =>
        Faithful(io_rx'[j].memtable) /\ io_rx'[j].memtable.id # memtable'.id
  BY <1>2, <1>5 DEF NothingLost
<1>10. \A sst \in Tables' : sst.id \in 0 .. (memtable'.id - 1) /\ Keeps(sst)
  BY <1>2, <1>3 DEF NothingLost
<1>11. ASSUME NEW i \in DOMAIN history'.placed PROVE Located(history.placed[i].mid)'
  <2>1. PICK m : m = history.placed[i].mid
    OBVIOUS
  <2>2. Located(m)
    BY <1>2, <2>1 DEF NothingLost
  <2>3. m = memtable.id \/ (\E mt \in Frozen' : mt.id = m) \/ \E sst \in Tables' : sst.id = m
    BY <1>3, <1>4, <2>2 DEF Located
  <2> QED
    BY <1>2, <2>1, <2>3 DEF Located
<1> QED
  BY <1>2, <1>5, <1>6, <1>7, <1>8, <1>9, <1>10, <1>11, LostStep

\* The table of a memtable whose records lie between its keys has all of them.
LEMMA FlushLost ==
  ASSUME TreeTypeOK, FlushOrder, LogBeforeFlush, NothingLost, IoFlushMemtable
  PROVE  NothingLost'
<1>0. /\ QueueOK /\ history \in History /\ flush_results \in Seq(Range(flush_results)) /\ QueueLogged
  BY DEF TreeTypeOK, QueueOK, LogBeforeFlush
<1>1. UNCHANGED treeVars /\ io_rx # <<>> /\ io_rx' = Tail(io_rx)
  BY EventTaken DEF IoFlushMemtable
<1>2. UNCHANGED <<memtable, frozen_memtables, sst_handles>> /\ Frozen' = Frozen
  BY <1>1 DEF treeVars, Frozen
<1>3. /\ memtable.id \in Nat
      /\ \A mt \in Frozen : mt.id \in 0 .. (memtable.id - 1)
      /\ \A j \in DOMAIN io_rx : IsFlush(io_rx[j]) => io_rx[j].memtable.id \in 0 .. (memtable.id - 1)
  BY OlderIds
<1>4. /\ 1 \in DOMAIN io_rx /\ io_rx[1] = Head(io_rx)
      /\ \A j \in DOMAIN io_rx' : j + 1 \in DOMAIN io_rx /\ io_rx'[j] = io_rx[j + 1]
  BY <1>0, <1>1, RestOfQueue
<1>5. PICK mt \in Memtable :
         /\ IsFlush(Head(io_rx)) /\ Head(io_rx).memtable = mt
         /\ \/ /\ write_table(mt).out = "ok"
               /\ flush_results' = Append(flush_results, [id |-> mt.id, handle |-> write_table(mt).handle])
               /\ manifest' = manifest \o (<<MemtableFlush(mt.id)>> \o Head(io_rx).entries)
               /\ UNCHANGED <<io, history>>
            \/ /\ history' = [history EXCEPT !.failed = history.failed \cup {mt.id}]
               /\ UNCHANGED <<io, flush_results>>
            \/ io' = "down" /\ UNCHANGED <<flush_results, history, manifest>>
  BY TableFlushed
<1>6. history'.placed = history.placed
  BY <1>0, <1>5 DEF History
<1>7. Faithful(mt) /\ mt.id \in 0 .. (memtable.id - 1)
  BY <1>3, <1>4, <1>5, Zenon DEF NothingLost
<1>8. Tables \subseteq Tables' /\ \A sst \in Tables' : sst \in Tables \/ (sst.id = mt.id /\ InTable(sst) = Between(mt))
  <2>1. CASE flush_results' = flush_results
    BY <1>2, <2>1 DEF Tables
  <2>2. CASE /\ write_table(mt).out = "ok"
             /\ flush_results' = Append(flush_results, [id |-> mt.id, handle |-> write_table(mt).handle])
    <3>1. PICK sst : /\ Tables' = Tables \cup {sst} /\ InTable(sst) = Between(mt)
                     /\ Range(flush_results') = Range(flush_results) \cup {sst} /\ sst.id = mt.id
      BY <1>0, <1>1, <1>2, <1>5, <2>2, NewTable
    <3> QED
      BY <3>1
  <2> QED
    BY <1>5, <2>1, <2>2
<1>9. \A sst \in Tables' : sst.id \in 0 .. (memtable'.id - 1) /\ Keeps(sst)
  <2>1. ASSUME NEW sst \in Tables', sst.id = mt.id, InTable(sst) = Between(mt) PROVE Keeps(sst)
    <3>1. ASSUME Straight(mt.id), NEW i \in PlacedIn(mt.id) PROVE history.placed[i].rec \in Between(mt)
      BY <1>7, <3>1, FaithfulBetween
    <3> QED
      BY <2>1, <3>1, Zenon DEF Keeps
  <2> QED
    BY <1>2, <1>7, <1>8, <2>1 DEF NothingLost
<1>10. \A mid : Undisturbed(mid)
  BY <1>6, NothingPlaced
<1>11. ActiveFaithful(memtable)'
  BY <1>2, <1>6 DEF NothingLost, ActiveFaithful, Faithful, PlacedIn
<1>12. \A t \in Frozen' : Faithful(t) /\ t.id # memtable'.id
  BY <1>2, <1>3 DEF NothingLost
<1>13. ASSUME NEW j \in DOMAIN io_rx', IsFlush(io_rx'[j])
       PROVE  Faithful(io_rx'[j].memtable) /\ io_rx'[j].memtable.id # memtable'.id
  <2>1. PICK t : t = io_rx[j + 1].memtable
    OBVIOUS
  <2>2. Faithful(t) /\ t.id \in 0 .. (memtable.id - 1)
    BY <1>3, <1>4, <1>13, <2>1, Zenon DEF NothingLost
  <2>3. t.id # memtable.id
    BY <1>3, <2>2
  <2>4. io_rx'[j].memtable = t
    BY <1>4, <2>1, Zenon
  <2> QED
    BY <1>2, <2>2, <2>3, <2>4, Zenon
<1>14. ASSUME NEW i \in DOMAIN history'.placed PROVE Located(history.placed[i].mid)'
  <2>1. PICK m : m = history.placed[i].mid
    OBVIOUS
  <2>2. Located(m)
    BY <1>6, <2>1 DEF NothingLost
  <2>3. m = memtable.id \/ (\E t \in Frozen : t.id = m) \/ \E sst \in Tables' : sst.id = m
    BY <1>8, <2>2 DEF Located
  <2> QED
    BY <1>2, <1>6, <2>1, <2>3 DEF Located
<1> QED
  BY <1>2, <1>3, <1>9, <1>10, <1>11, <1>12, <1>13, <1>14, LostStep

LEMMA LostInit == Init => NothingLost
<1> SUFFICES ASSUME Init PROVE NothingLost
  OBVIOUS
<1>1. /\ memtable.first_key = <<>> /\ frozen_memtables = <<>> /\ io_rx = <<>> /\ sst_handles = <<>>
      /\ flush_results = <<>> /\ history.placed = <<>>
  BY DEF Init, with_size_limit
<1>2. Frozen = {} /\ Tables = {} /\ DOMAIN io_rx = {} /\ DOMAIN history.placed = {}
  BY <1>1 DEF Frozen, Tables, Range
<1>3. Faithful(memtable)
  BY <1>2 DEF Faithful, PlacedIn
<1> QED
  BY <1>1, <1>2, <1>3 DEF NothingLost

LEMMA LostParts == NothingLost => NothingVanishes
<1> SUFFICES ASSUME NothingLost, NEW i \in DOMAIN history.placed, Straight(history.placed[i].mid)
             PROVE  \/ history.placed[i].rec \in memtable.set
                    \/ \E mt \in Frozen : history.placed[i].rec \in mt.set
                    \/ \E sst \in Tables : history.placed[i].rec \in InTable(sst)
  BY DEF NothingVanishes
<1>1. PICK m : m = history.placed[i].mid
  OBVIOUS
<1>2. i \in PlacedIn(m) /\ Located(m) /\ Straight(m)
  BY <1>1 DEF PlacedIn, NothingLost
<1>3. CASE m = memtable.id
  BY <1>2, <1>3, Zenon DEF NothingLost, Faithful
<1>4. ASSUME NEW mt \in Frozen, mt.id = m PROVE history.placed[i].rec \in mt.set
  BY <1>2, <1>4, Zenon DEF NothingLost, Faithful
<1>5. ASSUME NEW sst \in Tables, sst.id = m PROVE history.placed[i].rec \in InTable(sst)
  BY <1>2, <1>5, Zenon DEF NothingLost, Keeps
<1> QED
  BY <1>2, <1>3, <1>4, <1>5 DEF Located

\* A record that append_batch has taken stays in a memtable or in a table, through
\* failed flushes, a dead consumer and drains in any order, if its memtable's first
\* and last record appended have the least and the greatest key: flush_memtable
\* writes what lies between the two, and drain_sst_queue drops the memtable of the
\* table it adds and no other.
THEOREM NothingVanishesTheorem == Spec => []NothingVanishes
<1> DEFINE Inv == TreeTypeOK /\ FlushOrder /\ LogBeforeFlush /\ NothingLost
<1>1. Init => Inv
  BY InitTree, FlushOrderInit, BeforeInit, LostInit
<1>2. Inv /\ [Next]_vars => Inv'
  <2> SUFFICES ASSUME TreeTypeOK, FlushOrder, LogBeforeFlush, NothingLost, [Next]_vars PROVE Inv'
    OBVIOUS
  <2>1. TreeTypeOK' /\ FlushOrder' /\ LogBeforeFlush'
    BY TreeStep, FlushOrderStep, BeforeStep
  <2>2. NothingLost'
    BY QuietLost, PayloadLost, IssueLost, DrainLost, FlushLost DEF Next
  <2> QED
    BY <2>1, <2>2
<1>3. Inv => NothingVanishes
  BY LostParts
<1> QED
  BY <1>1, <1>2, <1>3, PTL DEF Spec

-----------------------------------------------------------------------------
(* The queries.  Every record placed has a number of its own.                *)

\* A record with a number that no record placed has.
Fresh(r) ==
  /\ r.key.sequence_num < counters'.seq_num /\ r.key.source_id = 0
  /\ \A i \in DOMAIN history.placed : Number(i) # r.key.sequence_num

Places == \E r, mid : history'.placed = Append(history.placed, [rec |-> r, mid |-> mid]) /\ Fresh(r)

\* A number is given out, or a record placed that has one.
LEMMA NumbersStep ==
  ASSUME TreeTypeOK, Numbers, counters.seq_num <= counters'.seq_num, counters'.seq_num <= MaxSeq,
         counters'.seq_num \in Nat,
         \/ history'.placed = history.placed /\ \A r \in Rejected' : Fresh(r)
         \/ Places /\ Rejected' = {}
  PROVE  Numbers'
<1>1. /\ history.placed \in Seq(Placement) /\ Len(history.placed) \in Nat
      /\ DOMAIN history.placed = 1 .. Len(history.placed)
  BY PlacedType
<1>2. \A i \in DOMAIN history.placed :
        /\ Number(i) \in Nat /\ Number(i) < counters.seq_num /\ history.placed[i].rec.key.source_id = 0
  <2>1. \A i \in DOMAIN history.placed : history.placed[i] \in Placement
    BY <1>1
  <2> QED
    BY <2>1 DEF Numbers, Placement, LogRecord, Key, Number
<1>3. counters.seq_num \in Nat
  BY DEF TreeTypeOK
<1>4. \A i \in DOMAIN history.placed : Number(i) < counters'.seq_num
  BY <1>2, <1>3
<1>5. CASE history'.placed = history.placed /\ \A r \in Rejected' : Fresh(r)
  BY <1>2, <1>4, <1>5 DEF Numbers, Number, Fresh
<1>6. CASE Places /\ Rejected' = {}
  <2>1. PICK r, mid : history'.placed = Append(history.placed, [rec |-> r, mid |-> mid]) /\ Fresh(r)
    BY <1>6 DEF Places
  <2>2. PICK n, q : n = Len(history.placed) + 1 /\ q = history'.placed
    OBVIOUS
  <2>3. PlacedAt(q, n, r, mid)
    BY <2>1, <2>2, OnePlaced
  <2>4. /\ DOMAIN q = DOMAIN history.placed \cup {n} /\ q[n] = [rec |-> r, mid |-> mid]
        /\ \A i \in DOMAIN history.placed : q[i] = history.placed[i]
    BY <2>3, Zenon DEF PlacedAt
  <2>5. q[n].rec = r
    BY <2>4
  <2>6. \A i \in DOMAIN q : q[i].rec.key.sequence_num < counters'.seq_num /\ q[i].rec.key.source_id = 0
    BY <1>2, <1>4, <2>1, <2>4, <2>5 DEF Fresh, Number
  <2>7. ASSUME NEW i \in DOMAIN q, NEW j \in DOMAIN q, q[i].rec.key.sequence_num = q[j].rec.key.sequence_num
        PROVE  i = j
    <3>1. CASE i # n /\ j # n
      <4>1. i \in DOMAIN history.placed /\ j \in DOMAIN history.placed
        BY <2>4, <3>1
      <4>2. Number(i) = Number(j)
        BY <2>4, <2>7, <4>1 DEF Number
      <4> QED
        BY <4>1, <4>2 DEF Numbers
    <3>2. CASE i = n /\ j # n
      <4>1. j \in DOMAIN history.placed
        BY <2>4, <3>2
      <4> QED
        BY <2>1, <2>4, <2>5, <2>7, <3>2, <4>1 DEF Fresh, Number
    <3>3. CASE i # n /\ j = n
      <4>1. i \in DOMAIN history.placed
        BY <2>4, <3>3
      <4> QED
        BY <2>1, <2>4, <2>5, <2>7, <3>3, <4>1 DEF Fresh, Number
    <3> QED
      BY <3>1, <3>2, <3>3
  <2> QED
    BY <1>6, <2>2, <2>6, <2>7 DEF Numbers, Number
<1> QED
  BY <1>5, <1>6

\* What the steps do that neither take a record nor freeze a memtable.
LEMMA QuietState ==
  ASSUME TreeTypeOK,
         \/ BeginBatch \/ EndBatch \/ EndDrain \/ IoAppendWal \/ IoFsyncWal \/ UNCHANGED vars
         \/ DrainSstQueue \/ IoFlushMemtable
         \/ \E p \in Payloads : RefusePayload(p) \/ StreamPanics(p)
  PROVE  /\ memtable' = memtable /\ history'.placed = history.placed
         /\ counters'.seq_num = counters.seq_num /\ Rejected' \subseteq Rejected
<1>0. history \in History /\ counters \in [memtable_id : Nat, stream_id : Nat, seq_num : Nat]
  BY DEF TreeTypeOK
<1>1. CASE BeginBatch
  BY <1>0, <1>1 DEF BeginBatch, History, Rejected
<1>2. CASE EndBatch
  BY <1>0, <1>2 DEF EndBatch, History, Rejected, Idle
<1>3. CASE EndDrain
  BY <1>3 DEF EndDrain, Rejected, Idle
<1>4. CASE IoAppendWal \/ IoFsyncWal
  BY <1>0, <1>4 DEF IoAppendWal, IoFsyncWal, TakeEvent, treeVars, History, Rejected
<1>5. CASE UNCHANGED vars
  BY <1>5 DEF vars, Rejected
<1>6. CASE DrainSstQueue
  BY <1>6 DEF DrainSstQueue, Rejected, Draining
<1>7. CASE IoFlushMemtable
  <2>1. UNCHANGED <<memtable, counters, call>>
    BY <1>7 DEF IoFlushMemtable, TakeEvent, treeVars
  <2>2. history'.placed = history.placed
    BY <1>0, <1>7, TableFlushed DEF History
  <2> QED
    BY <2>1, <2>2, SMTT(30) DEF Rejected
<1>8. CASE \E p \in Payloads : RefusePayload(p) \/ StreamPanics(p)
  BY <1>0, <1>8 DEF RefusePayload, StreamPanics, Rejected, Idle
<1> QED
  BY <1>1, <1>2, <1>3, <1>4, <1>5, <1>6, <1>7, <1>8

LEMMA QuietNumbers ==
  ASSUME TreeTypeOK, Numbers, history'.placed = history.placed,
         counters'.seq_num = counters.seq_num, Rejected' \subseteq Rejected
  PROVE  Numbers'
<1>1. counters.seq_num \in Nat
  BY DEF TreeTypeOK
<1>2. \A r \in Rejected' : Fresh(r)
  BY DEF Numbers, Fresh
<1> QED
  BY <1>1, <1>2, NumbersStep DEF Numbers

\* What a payload's record does.
LEMMA PayloadState ==
  ASSUME TreeTypeOK, NEW p \in Payloads, NEW time \in Clock, AppendPayload(p, time)
  PROVE  /\ counters.seq_num \in Nat /\ counters'.seq_num = counters.seq_num + 1 /\ counters'.seq_num <= MaxSeq
         /\ \E r \in LogRecord :
              /\ r.key.sequence_num = counters.seq_num /\ r.key.source_id = 0
              /\ \/ memtable' = memtable /\ history'.placed = history.placed /\ Rejected' \subseteq {r}
                 \/ /\ memtable'.set = memtable.set \cup {r} /\ memtable'.id = memtable.id /\ Rejected' = {}
                    /\ history'.placed = Append(history.placed, [rec |-> r, mid |-> memtable.id])
<1>0. history \in History /\ memtable \in Memtable /\ counters.seq_num \in Nat
  BY DEF TreeTypeOK
<1>1. counters'.seq_num = counters.seq_num + 1 /\ call.pc = "append"
  BY PayloadTaken
<1>2. counters'.seq_num <= MaxSeq
  BY <1>0, <1>1, LsmAssumption DEF AppendPayload, Accepts
<1>3. PICK r : Appended(r)
  BY PayloadAppended
<1>4. r \in LogRecord /\ r.key.sequence_num = counters.seq_num /\ r.key.source_id = 0
  BY <1>3 DEF Appended
<1>5. \A rej : Range(<<rej>>) = {rej}
  BY DEF Range
<1>6. Range(<<>>) = {}
  BY DEF Range
<1>7. CASE call' = Idle /\ UNCHANGED <<memtable, history>>
  <2>1. Rejected' = {}
    BY <1>7 DEF Rejected, Idle
  <2> QED
    BY <1>0, <1>1, <1>2, <1>4, <1>7, <2>1
<1>8. CASE call' = [pc |-> "flush", rejected |-> <<r>>] /\ UNCHANGED <<memtable, history>>
  <2>1. Rejected' = {r}
    BY <1>5, <1>8 DEF Rejected
  <2> QED
    BY <1>0, <1>1, <1>2, <1>4, <1>8, <2>1
<1>9. CASE /\ call' \in {call, [pc |-> "flush", rejected |-> <<>>]}
           /\ memtable' = Inserted(memtable, r) /\ history' = Place(r, memtable)
  <2>1. Rejected' = {}
    BY <1>1, <1>6, <1>9 DEF Rejected
  <2>2. memtable'.set = memtable.set \cup {r} /\ memtable'.id = memtable.id
    BY <1>0, <1>9, InsertedSet
  <2>3. history'.placed = Append(history.placed, [rec |-> r, mid |-> memtable.id])
    BY <1>0, <1>9 DEF Place, History
  <2> QED
    BY <1>0, <1>1, <1>2, <1>4, <2>1, <2>2, <2>3
<1> QED
  BY <1>3, <1>7, <1>8, <1>9 DEF Appended

LEMMA PayloadNumbers ==
  ASSUME TreeTypeOK, Numbers, NEW p \in Payloads, NEW time \in Clock, AppendPayload(p, time)
  PROVE  Numbers'
<1>1. counters.seq_num \in Nat /\ counters'.seq_num = counters.seq_num + 1 /\ counters'.seq_num <= MaxSeq
  BY PayloadState
<1>2. PICK r \in LogRecord :
        /\ r.key.sequence_num = counters.seq_num /\ r.key.source_id = 0
        /\ \/ memtable' = memtable /\ history'.placed = history.placed /\ Rejected' \subseteq {r}
           \/ /\ memtable'.set = memtable.set \cup {r} /\ memtable'.id = memtable.id /\ Rejected' = {}
              /\ history'.placed = Append(history.placed, [rec |-> r, mid |-> memtable.id])
  BY PayloadState
<1>3. Fresh(r)
  BY <1>1, <1>2 DEF Fresh, Numbers
<1>4. counters.seq_num <= counters'.seq_num /\ counters'.seq_num \in Nat
  BY <1>1
<1>5. CASE history'.placed = history.placed /\ Rejected' \subseteq {r}
  BY <1>1, <1>3, <1>4, <1>5, NumbersStep
<1>6. CASE Rejected' = {} /\ history'.placed = Append(history.placed, [rec |-> r, mid |-> memtable.id])
  <2>1. Places
    BY <1>3, <1>6 DEF Places
  <2> QED
    BY <1>1, <1>4, <1>6, <2>1, NumbersStep
<1> QED
  BY <1>2, <1>5, <1>6

\* What issue_flush does.
LEMMA IssueState ==
  ASSUME TreeTypeOK, IssueFlush
  PROVE  /\ counters'.seq_num = counters.seq_num /\ Rejected' = {}
         /\ frozen_memtables' = Append(frozen_memtables, memtable)
         /\ UNCHANGED <<sst_handles, flush_results>> /\ history'.failed = history.failed
         /\ \/ io_rx' = io_rx
            \/ io_rx' = Append(io_rx, FlushMemtable(memtable, stream_buffer))
         /\ \/ memtable'.set = {} /\ history'.placed = history.placed
            \/ \E r \in Rejected :
                 /\ memtable'.set = {r}
                 /\ history'.placed = Append(history.placed, [rec |-> r, mid |-> memtable'.id])
<1>0. history \in History /\ counters.memtable_id \in Nat
  BY DEF TreeTypeOK
<1>1. PICK fresh : fresh = with_size_limit(counters.memtable_id)
  OBVIOUS
<1>2. fresh \in Memtable /\ fresh.set = {} /\ fresh.id = counters.memtable_id
  BY <1>0, <1>1 DEF with_size_limit, Memtable
<1>3. /\ memtable'.id = counters.memtable_id /\ counters'.seq_num = counters.seq_num
      /\ call.pc = "flush" /\ call.rejected \in Seq(LogRecord)
      /\ \/ /\ io = "down" /\ call' = Idle
            /\ UNCHANGED <<io_rx, history>>
         \/ /\ io_rx' = Append(io_rx, FlushMemtable(memtable, stream_buffer))
            /\ call' = [pc |-> "append"]
            /\ \/ call.rejected = <<>> /\ history' = history
               \/ /\ call.rejected # <<>> /\ call.rejected[1] \in LogRecord
                  /\ history' = Place(call.rejected[1], fresh)
  BY <1>1, FlushIssued
<1>4. /\ frozen_memtables' = Append(frozen_memtables, memtable)
      /\ UNCHANGED <<sst_handles, flush_results>>
  BY DEF IssueFlush, ioVars
<1>5. Rejected' = {}
  BY <1>3 DEF Rejected, Idle
<1>6. /\ io # "down" => memtable' = IF call.rejected = <<>> THEN fresh ELSE Inserted(fresh, call.rejected[1])
      /\ io = "down" => memtable' = fresh
  BY <1>1, FlushRenews, Zenon
<1>7. history'.failed = history.failed
  BY <1>2, <1>3, PlaceType
<1>8. CASE io = "down" /\ UNCHANGED <<io_rx, history>>
  BY <1>2, <1>3, <1>4, <1>5, <1>6, <1>7, <1>8
<1>9. CASE io # "down" /\ call.rejected = <<>>
  BY <1>2, <1>3, <1>4, <1>5, <1>6, <1>7, <1>9
<1>10. CASE io # "down" /\ call.rejected # <<>>
  <2>1. PICK r : r = call.rejected[1]
    OBVIOUS
  <2>2. r \in Rejected
    BY <1>3, <1>10, <2>1 DEF Rejected, Range
  <2>3. memtable' = Inserted(fresh, r) /\ history' = Place(r, fresh)
    BY <1>3, <1>6, <1>10, <2>1
  <2>4. memtable'.set = {r}
    BY <1>2, <2>3, InsertedSet
  <2>5. history'.placed = Append(history.placed, [rec |-> r, mid |-> memtable'.id])
    BY <1>0, <1>2, <1>3, <2>3 DEF Place, History
  <2> QED
    BY <1>3, <1>4, <1>5, <1>7, <1>10, <2>2, <2>4, <2>5
<1>11. CASE io = "down" /\ ~UNCHANGED <<io_rx, history>>
  <2>1. io_rx' = io_rx /\ history' = history
    BY <1>11 DEF IssueFlush
  <2> QED
    BY <1>11, <2>1
<1> QED
  BY <1>8, <1>9, <1>10, <1>11

LEMMA IssueNumbers ==
  ASSUME TreeTypeOK, Numbers, IssueFlush
  PROVE  Numbers'
<1>1. counters.seq_num \in Nat
  BY DEF TreeTypeOK
<1>2. /\ counters'.seq_num = counters.seq_num /\ Rejected' = {}
      /\ \/ history'.placed = history.placed
         \/ \E r \in Rejected : \E mid : history'.placed = Append(history.placed, [rec |-> r, mid |-> mid])
  BY IssueState
<1>3. \A r \in Rejected : Fresh(r)
  BY <1>2 DEF Fresh, Numbers
<1>4. history'.placed = history.placed \/ Places
  BY <1>2, <1>3 DEF Places
<1> QED
  BY <1>1, <1>2, <1>4, NumbersStep DEF Numbers

-----------------------------------------------------------------------------
(* Memtables and tables have the records placed in the memtable.             *)

\* A table has records of its memtable only, and its cursor finds them.
TableSound(sst) == InTable(sst) \subseteq PlacedRecords(sst.id) /\ Readable(sst)

Sound == Housed /\ \A sst \in Tables : Readable(sst)

LEMMA ReadableSame == \A sst : Readable(sst)' = Readable(sst)
<1>1. \A h, s, o : Table(h, s, o)' = Table(h, s, o)
  BY DEF Table, Ordered, BlockHolds, TableRecord, Key, KeyLess, read_block, ReadAt, StartOf, FileLen,
         Total, decode_block, OffsetsIncrease, RecordEnd, DataLen, wire_len, KEY_SIZE, SZ_U32,
         MIN_RECORD_WIRE_LENGTH, MAX_RECORD_WIRE_LENGTH
<1> QED
  BY <1>1, TableSame DEF Readable

\* What is placed stays placed.
LEMMA PlacedKept ==
  ASSUME TreeTypeOK,
         \/ history'.placed = history.placed
         \/ \E r, mid : history'.placed = Append(history.placed, [rec |-> r, mid |-> mid])
  PROVE  \A mid : PlacedRecords(mid) \subseteq PlacedRecords(mid)'
<1>1. CASE history'.placed = history.placed
  BY <1>1 DEF PlacedRecords, PlacedIn
<1>2. ASSUME NEW r, NEW mid, history'.placed = Append(history.placed, [rec |-> r, mid |-> mid])
      PROVE  \A other : PlacedRecords(other) \subseteq PlacedRecords(other)'
  <2>2. PICK n, q : n = Len(history.placed) + 1 /\ q = history'.placed
    OBVIOUS
  <2>3. PlacedAt(q, n, r, mid)
    BY <1>2, <2>2, OnePlaced
  <2>4. /\ DOMAIN q = DOMAIN history.placed \cup {n}
        /\ \A i \in DOMAIN history.placed : q[i] = history.placed[i]
    BY <2>3, Zenon DEF PlacedAt
  <2> QED
    BY <2>2, <2>4 DEF PlacedRecords, PlacedIn
<1> QED
  BY <1>1, <1>2

LEMMA PlacedNew ==
  ASSUME TreeTypeOK, NEW r, NEW mid, history'.placed = Append(history.placed, [rec |-> r, mid |-> mid])
  PROVE  r \in PlacedRecords(mid)'
<1>1. PICK n, q : n = Len(history.placed) + 1 /\ q = history'.placed
  OBVIOUS
<1>2. PlacedAt(q, n, r, mid)
  BY <1>1, OnePlaced
<1>3. n \in DOMAIN q /\ q[n] = [rec |-> r, mid |-> mid]
  BY <1>2, Zenon DEF PlacedAt
<1>4. q[n].rec = r /\ q[n].mid = mid
  BY <1>3
<1> QED
  BY <1>1, <1>3, <1>4 DEF PlacedRecords, PlacedIn

\* The memtables and tables after a step are those of before, or one that is as it should be.
LEMMA SoundStep ==
  ASSUME Sound, \A mid : PlacedRecords(mid) \subseteq PlacedRecords(mid)',
         \E mid : mid = memtable'.id /\ memtable'.set \subseteq PlacedRecords(mid)',
         Frozen' \subseteq Frozen \cup {memtable},
         \A j \in DOMAIN io_rx' : IsFlush(io_rx'[j]) =>
           \/ io_rx'[j].memtable = memtable
           \/ \E i \in DOMAIN io_rx : IsFlush(io_rx[i]) /\ io_rx'[j].memtable = io_rx[i].memtable,
         \A sst \in Tables' : sst \in Tables \/ TableSound(sst)
  PROVE  Sound'
<1>1. (memtable.set \subseteq PlacedRecords(memtable.id))'
  BY DEF PlacedRecords, PlacedIn
<1>2. ASSUME NEW mt \in Frozen' PROVE mt.set \subseteq PlacedRecords(mt.id)'
  BY Zenon DEF Sound, Housed
<1>3. ASSUME NEW j \in DOMAIN io_rx', IsFlush(io_rx'[j])
      PROVE  (io_rx[j].memtable.set \subseteq PlacedRecords(io_rx[j].memtable.id))'
  <2>1. PICK mt : mt = io_rx'[j].memtable
    OBVIOUS
  <2>2. mt.set \subseteq PlacedRecords(mt.id)
    BY <1>3, <2>1, Zenon DEF Sound, Housed
  <2>3. mt.set \subseteq PlacedRecords(mt.id)'
    BY <2>2
  <2> QED
    BY <2>1, <2>3 DEF PlacedRecords, PlacedIn
<1>4. ASSUME NEW sst \in Tables' PROVE InTable(sst)' \subseteq PlacedRecords(sst.id)' /\ Readable(sst)'
  <2>1. TableSound(sst)
    BY DEF Sound, Housed, TableSound
  <2>2. InTable(sst)' = InTable(sst) /\ Readable(sst)' = Readable(sst)
    BY TableSame, ReadableSame
  <2> QED
    BY <2>1, <2>2 DEF TableSound
<1>5. (\A mt \in Frozen \cup {memtable} : mt.set \subseteq PlacedRecords(mt.id))'
  BY <1>1, <1>2
<1>6. (\A j \in DOMAIN io_rx : IsFlush(io_rx[j]) =>
       io_rx[j].memtable.set \subseteq PlacedRecords(io_rx[j].memtable.id))'
  BY <1>3 DEF IsFlush
<1>7. (\A sst \in Tables : InTable(sst) \subseteq PlacedRecords(sst.id) /\ Readable(sst))'
  BY <1>4
<1> QED
  BY <1>5, <1>6, <1>7 DEF Sound, Housed

\* The steps that leave memtables and tables where they are.
LEMMA QuietSound ==
  ASSUME TreeTypeOK, Sound,
         \/ BeginBatch \/ EndBatch \/ EndDrain \/ IoAppendWal \/ IoFsyncWal \/ UNCHANGED vars
         \/ \E p \in Payloads : RefusePayload(p) \/ StreamPanics(p)
  PROVE  Sound'
<1>1. memtable' = memtable /\ history'.placed = history.placed
  BY QuietState
<1>2. FlushesStay
  BY QuietStays
<1>3. sst_handles' = sst_handles
  BY DEF BeginBatch, EndBatch, EndDrain, IoAppendWal, IoFsyncWal, vars, RefusePayload, StreamPanics,
         TakeEvent, treeVars, tables
<1>4. Tables' = Tables /\ Frozen' = Frozen
  BY <1>2, <1>3 DEF FlushesStay, Tables, Frozen
<1>5. \A mid : PlacedRecords(mid) \subseteq PlacedRecords(mid)'
  BY <1>1, PlacedKept
<1>6. \E mid : mid = memtable'.id /\ memtable'.set \subseteq PlacedRecords(mid)'
  BY <1>1, <1>5 DEF Sound, Housed
<1>7. \A j \in DOMAIN io_rx' : IsFlush(io_rx'[j]) =>
        \E i \in DOMAIN io_rx : IsFlush(io_rx[i]) /\ io_rx'[j].memtable = io_rx[i].memtable
  BY <1>2 DEF FlushesStay, QueueStays
<1> QED
  BY <1>4, <1>5, <1>6, <1>7, SoundStep

LEMMA PayloadSound ==
  ASSUME TreeTypeOK, Sound, NEW p \in Payloads, NEW time \in Clock, AppendPayload(p, time)
  PROVE  Sound'
<1>1. PICK r : \/ memtable' = memtable /\ history'.placed = history.placed
               \/ /\ memtable'.set = memtable.set \cup {r} /\ memtable'.id = memtable.id
                  /\ history'.placed = Append(history.placed, [rec |-> r, mid |-> memtable.id])
  BY PayloadState
<1>2. FlushesStay
  BY QuietStays
<1>3. sst_handles' = sst_handles
  BY DEF AppendPayload, tables
<1>4. Tables' = Tables /\ Frozen' = Frozen
  BY <1>2, <1>3 DEF FlushesStay, Tables, Frozen
<1>5. \A mid : PlacedRecords(mid) \subseteq PlacedRecords(mid)'
  BY <1>1, PlacedKept
<1>6. \E mid : mid = memtable'.id /\ memtable'.set \subseteq PlacedRecords(mid)'
  <2>1. PICK mid : mid = memtable.id
    OBVIOUS
  <2>2. memtable.set \subseteq PlacedRecords(mid)'
    BY <1>5, <2>1 DEF Sound, Housed
  <2>3. CASE memtable' = memtable
    BY <2>1, <2>2, <2>3
  <2>4. CASE /\ memtable'.set = memtable.set \cup {r} /\ memtable'.id = memtable.id
             /\ history'.placed = Append(history.placed, [rec |-> r, mid |-> memtable.id])
    <3>1. r \in PlacedRecords(mid)'
      BY <2>1, <2>4, PlacedNew
    <3> QED
      BY <2>1, <2>2, <2>4, <3>1
  <2> QED
    BY <1>1, <2>3, <2>4
<1>7. \A j \in DOMAIN io_rx' : IsFlush(io_rx'[j]) =>
        \E i \in DOMAIN io_rx : IsFlush(io_rx[i]) /\ io_rx'[j].memtable = io_rx[i].memtable
  BY <1>2 DEF FlushesStay, QueueStays
<1> QED
  BY <1>4, <1>5, <1>6, <1>7, SoundStep

\* The flushes queued after issue_flush.
LEMMA IssueQueue ==
  ASSUME TreeTypeOK, IssueFlush
  PROVE  \A j \in DOMAIN io_rx' : IsFlush(io_rx'[j]) =>
           \/ io_rx'[j].memtable = memtable /\ j \notin DOMAIN io_rx
           \/ j \in DOMAIN io_rx /\ io_rx'[j] = io_rx[j]
<1>1. PICK ev : ev = FlushMemtable(memtable, stream_buffer)
  OBVIOUS
<1>2. ev.memtable = memtable
  BY <1>1 DEF FlushMemtable
<1>3. CASE io_rx' = io_rx
  BY <1>3
<1>4. CASE io_rx' = Append(io_rx, ev)
  <2>1. /\ Len(io_rx) \in Nat
        /\ DOMAIN io_rx = 1 .. Len(io_rx) /\ DOMAIN io_rx' = 1 .. (Len(io_rx) + 1)
        /\ io_rx'[Len(io_rx) + 1] = ev
        /\ \A i \in DOMAIN io_rx : io_rx'[i] = io_rx[i]
    BY <1>4, AppendOwn DEF TreeTypeOK, Pending
  <2> QED
    BY <1>2, <2>1
<1> QED
  BY <1>1, <1>3, <1>4, IssueState

LEMMA IssueSound ==
  ASSUME TreeTypeOK, Sound, IssueFlush
  PROVE  Sound'
<1>1. /\ frozen_memtables' = Append(frozen_memtables, memtable)
      /\ UNCHANGED <<sst_handles, flush_results>>
      /\ \/ memtable'.set = {} /\ history'.placed = history.placed
         \/ \E r : /\ memtable'.set = {r}
                   /\ history'.placed = Append(history.placed, [rec |-> r, mid |-> memtable'.id])
  BY IssueState
<1>2. Frozen' = Frozen \cup {memtable}
  <2>1. frozen_memtables \in Seq(Range(frozen_memtables))
    BY DEF TreeTypeOK, Range
  <2> QED
    BY <1>1, <2>1, AppendOwn DEF Frozen
<1>3. Tables' = Tables
  BY <1>1 DEF Tables
<1>4. \A mid : PlacedRecords(mid) \subseteq PlacedRecords(mid)'
  BY <1>1, PlacedKept
<1>5. \E mid : mid = memtable'.id /\ memtable'.set \subseteq PlacedRecords(mid)'
  <2>1. PICK mid : mid = memtable'.id
    OBVIOUS
  <2>2. CASE memtable'.set = {}
    BY <2>1, <2>2
  <2>3. ASSUME NEW r, memtable'.set = {r},
               history'.placed = Append(history.placed, [rec |-> r, mid |-> memtable'.id])
        PROVE  memtable'.set \subseteq PlacedRecords(mid)'
    <3>1. r \in PlacedRecords(mid)'
      BY <2>1, <2>3, PlacedNew
    <3> QED
      BY <2>3, <3>1
  <2> QED
    BY <1>1, <2>1, <2>2, <2>3
<1>6. \A j \in DOMAIN io_rx' : IsFlush(io_rx'[j]) =>
        \/ io_rx'[j].memtable = memtable
        \/ \E i \in DOMAIN io_rx : IsFlush(io_rx[i]) /\ io_rx'[j].memtable = io_rx[i].memtable
  BY IssueQueue
<1> QED
  BY <1>2, <1>3, <1>4, <1>5, <1>6, SoundStep

\* The memtables that stay frozen as a handle is drained.
LEMMA DrainFrozen ==
  ASSUME TreeTypeOK, DrainSstQueue
  PROVE  Frozen' \subseteq Frozen
<1>1. \/ frozen_memtables' = frozen_memtables
      \/ frozen_memtables # <<>> /\ frozen_memtables' = Tail(frozen_memtables)
  BY DEF DrainSstQueue, drain_one
<1>2. frozen_memtables \in Seq(Range(frozen_memtables))
  BY DEF TreeTypeOK, Range
<1>3. CASE frozen_memtables' = frozen_memtables
  BY <1>3 DEF Frozen
<1>4. CASE frozen_memtables # <<>> /\ frozen_memtables' = Tail(frozen_memtables)
  <2>1. \A i \in DOMAIN frozen_memtables' :
          i + 1 \in DOMAIN frozen_memtables /\ frozen_memtables'[i] = frozen_memtables[i + 1]
    BY <1>2, <1>4, TailOwn
  <2> QED
    BY <2>1 DEF Frozen, Range
<1> QED
  BY <1>1, <1>3, <1>4

LEMMA DrainSound ==
  ASSUME TreeTypeOK, LogBeforeFlush, Sound, DrainSstQueue
  PROVE  Sound'
<1>1. memtable' = memtable /\ history'.placed = history.placed /\ io_rx' = io_rx
  BY DEF DrainSstQueue
<1>2. Tables' = Tables
  BY DrainedTables DEF LogBeforeFlush, TreeTypeOK
<1>3. Frozen' \subseteq Frozen
  BY DrainFrozen
<1>4. \A mid : PlacedRecords(mid) \subseteq PlacedRecords(mid)'
  BY <1>1, PlacedKept
<1>5. \E mid : mid = memtable'.id /\ memtable'.set \subseteq PlacedRecords(mid)'
  BY <1>1, <1>4 DEF Sound, Housed
<1>6. \A j \in DOMAIN io_rx' : IsFlush(io_rx'[j]) =>
        \E i \in DOMAIN io_rx : IsFlush(io_rx[i]) /\ io_rx'[j].memtable = io_rx[i].memtable
  BY <1>1
<1> QED
  BY <1>2, <1>3, <1>4, <1>5, <1>6, SoundStep

LEMMA FlushSound ==
  ASSUME TreeTypeOK, LogBeforeFlush, Sound, IoFlushMemtable
  PROVE  Sound'
<1>0. /\ QueueOK /\ flush_results \in Seq(Range(flush_results)) /\ QueueLogged
  BY DEF TreeTypeOK, QueueOK, LogBeforeFlush
<1>1. UNCHANGED treeVars /\ io_rx # <<>> /\ io_rx' = Tail(io_rx)
  BY EventTaken DEF IoFlushMemtable
<1>2. sst_handles' = sst_handles /\ Frozen' = Frozen
  BY <1>1 DEF treeVars, Frozen
<1>3. memtable' = memtable /\ history'.placed = history.placed
  BY QuietState
<1>4. /\ 1 \in DOMAIN io_rx /\ io_rx[1] = Head(io_rx)
      /\ \A j \in DOMAIN io_rx' : j + 1 \in DOMAIN io_rx /\ io_rx'[j] = io_rx[j + 1]
  BY <1>0, <1>1, RestOfQueue
<1>5. PICK mt \in Memtable :
         /\ IsFlush(Head(io_rx)) /\ Head(io_rx).memtable = mt
         /\ \/ /\ write_table(mt).out = "ok"
               /\ flush_results' = Append(flush_results, [id |-> mt.id, handle |-> write_table(mt).handle])
            \/ flush_results' = flush_results
  BY TableFlushed
<1>6. mt.set \subseteq PlacedRecords(mt.id)
  BY <1>4, <1>5, Zenon DEF Sound, Housed
<1>7. \A sst \in Tables' : sst \in Tables \/ TableSound(sst)
  <2>1. CASE flush_results' = flush_results
    BY <1>2, <2>1 DEF Tables
  <2>2. CASE /\ write_table(mt).out = "ok"
             /\ flush_results' = Append(flush_results, [id |-> mt.id, handle |-> write_table(mt).handle])
    <3>1. PICK sst : /\ Tables' = Tables \cup {sst} /\ InTable(sst) = Between(mt)
                     /\ sst.id = mt.id /\ Readable(sst)
      BY <1>0, <1>1, <1>2, <1>5, <2>2, NewTable
    <3>2. InTable(sst) \subseteq PlacedRecords(sst.id)
      BY <1>6, <3>1 DEF Between
    <3> QED
      BY <3>1, <3>2 DEF TableSound
  <2> QED
    BY <1>5, <2>1, <2>2
<1>8. \A mid : PlacedRecords(mid) \subseteq PlacedRecords(mid)'
  BY <1>3, PlacedKept
<1>9. \E mid : mid = memtable'.id /\ memtable'.set \subseteq PlacedRecords(mid)'
  BY <1>3, <1>8 DEF Sound, Housed
<1>10. \A j \in DOMAIN io_rx' : IsFlush(io_rx'[j]) =>
        \E i \in DOMAIN io_rx : IsFlush(io_rx[i]) /\ io_rx'[j].memtable = io_rx[i].memtable
  BY <1>4
<1> QED
  BY <1>2, <1>7, <1>8, <1>9, <1>10, SoundStep

-----------------------------------------------------------------------------
(* Tables are drained in the order of their ids.                             *)

\* The tables drained: their ids.
LEMMA HandleIds ==
  ASSUME TreeTypeOK, LogBeforeFlush, NothingLost
  PROVE  /\ sst_handles \in Seq(Range(sst_handles)) /\ Len(sst_handles) \in Nat
         /\ DOMAIN sst_handles = 1 .. Len(sst_handles)
         /\ \A i \in DOMAIN sst_handles : sst_handles[i].id \in Nat /\ sst_handles[i].id < memtable.id
<1>1. sst_handles \in Seq(Range(sst_handles))
  BY DEF LogBeforeFlush
<1>2. Len(sst_handles) \in Nat /\ DOMAIN sst_handles = 1 .. Len(sst_handles)
  BY <1>1
<1>3. ASSUME NEW i \in DOMAIN sst_handles PROVE sst_handles[i].id \in Nat /\ sst_handles[i].id < memtable.id
  <2>1. sst_handles[i] \in Tables
    BY DEF Tables, Range
  <2>2. sst_handles[i].id \in 0 .. (memtable.id - 1) /\ memtable.id \in Nat
    BY <2>1, Ids DEF NothingLost
  <2> QED
    BY <2>2
<1> QED
  BY <1>1, <1>2, <1>3

\* The three parts of Drained.
HandlesRise == \A i, j \in DOMAIN sst_handles : i < j => sst_handles[i].id < sst_handles[j].id

HandlesOldest ==
  \A i \in DOMAIN sst_handles :
    /\ \A j \in DOMAIN flush_results : sst_handles[i].id < flush_results[j].id
    /\ \A j \in DOMAIN io_rx : IsFlush(io_rx[j]) => sst_handles[i].id < io_rx[j].memtable.id

NoneBehind(mt) ==
  /\ \A i \in DOMAIN sst_handles : sst_handles[i].id < mt.id
  /\ \A i \in DOMAIN flush_results :
       mt.id <= flush_results[i].id => \E j \in DOMAIN flush_results : flush_results[j].id = mt.id

LEMMA DrainedParts ==
  Drained <=> HandlesRise /\ HandlesOldest /\ (history.failed = {} => \A mt \in Frozen : NoneBehind(mt))
BY Zenon DEF Drained, HandlesRise, HandlesOldest, NoneBehind

LEMMA DrainedPrimed ==
  ASSUME HandlesRise', HandlesOldest', history'.failed = {} => \A mt \in Frozen' : NoneBehind(mt)'
  PROVE  Drained'
BY Zenon DEF Drained, HandlesRise, HandlesOldest, NoneBehind

LEMMA QuietDrained ==
  ASSUME Drained, FlushesStay, sst_handles' = sst_handles
  PROVE  Drained'
<1>1. /\ UNCHANGED <<frozen_memtables, flush_results>> /\ history'.failed = history.failed
      /\ \A j \in DOMAIN io_rx' : IsFlush(io_rx'[j]) =>
           \E i \in DOMAIN io_rx : IsFlush(io_rx[i]) /\ io_rx'[j].memtable = io_rx[i].memtable
  BY DEF FlushesStay, QueueStays
<1>2. Frozen' = Frozen
  BY <1>1 DEF Frozen
<1>3. HandlesRise /\ HandlesOldest /\ (history.failed = {} => \A mt \in Frozen : NoneBehind(mt))
  BY DrainedParts
<1>4. HandlesRise'
  BY <1>3 DEF HandlesRise
<1>5. HandlesOldest'
  <2>1. ASSUME NEW i \in DOMAIN sst_handles, NEW j \in DOMAIN io_rx', IsFlush(io_rx'[j])
        PROVE  sst_handles[i].id < io_rx'[j].memtable.id
    BY <1>1, <1>3, <2>1 DEF HandlesOldest
  <2> QED
    BY <1>1, <1>3, <2>1 DEF HandlesOldest, IsFlush
<1>6. ASSUME history'.failed = {}, NEW mt \in Frozen' PROVE NoneBehind(mt)'
  BY <1>1, <1>2, <1>3, <1>6 DEF NoneBehind
<1> QED
  BY <1>4, <1>5, <1>6, DrainedPrimed

LEMMA IssueDrained ==
  ASSUME TreeTypeOK, FlushOrder, LogBeforeFlush, NothingLost, Drained, IssueFlush
  PROVE  Drained'
<1>1. /\ frozen_memtables' = Append(frozen_memtables, memtable)
      /\ UNCHANGED <<sst_handles, flush_results>> /\ history'.failed = history.failed
  BY IssueState
<1>2. Frozen' = Frozen \cup {memtable}
  <2>1. frozen_memtables \in Seq(Range(frozen_memtables))
    BY DEF TreeTypeOK, Range
  <2> QED
    BY <1>1, <2>1, AppendOwn DEF Frozen
<1>3. HandlesRise /\ HandlesOldest /\ (history.failed = {} => \A mt \in Frozen : NoneBehind(mt))
  BY DrainedParts
<1>4. HandlesRise'
  BY <1>1, <1>3 DEF HandlesRise
<1>5. \A i \in DOMAIN sst_handles : sst_handles[i].id < memtable.id
  BY HandleIds
<1>6. HandlesOldest'
  <2>1. ASSUME NEW i \in DOMAIN sst_handles, NEW j \in DOMAIN io_rx', IsFlush(io_rx'[j])
        PROVE  sst_handles[i].id < io_rx'[j].memtable.id
    BY <1>3, <1>5, <2>1, IssueQueue DEF HandlesOldest
  <2> QED
    BY <1>1, <1>3, <2>1 DEF HandlesOldest, IsFlush
<1>7. NoneBehind(memtable)
  <2>1. \A i \in DOMAIN flush_results : flush_results[i].id < memtable.id
    BY DEF FlushOrder
  <2>2. memtable.id \in Nat /\ \A i \in DOMAIN flush_results : flush_results[i].id \in Nat
    BY Ids
  <2> QED
    BY <1>5, <2>1, <2>2 DEF NoneBehind
<1>8. ASSUME history'.failed = {}, NEW mt \in Frozen' PROVE NoneBehind(mt)'
  <2>1. NoneBehind(mt)
    BY <1>1, <1>2, <1>3, <1>7, <1>8
  <2> QED
    BY <1>1, <2>1 DEF NoneBehind
<1> QED
  BY <1>4, <1>6, <1>8, DrainedPrimed

\* The memtable whose table is drained goes: the others are younger.
LEMMA DrainYounger ==
  ASSUME TreeTypeOK, FlushOrder, Drained, DrainSstQueue, history.failed = {}, NEW mt \in Frozen'
  PROVE  Head(flush_results).id < mt.id
<1>0. PICK fr, rs, h : fr = frozen_memtables /\ rs = flush_results /\ h = Head(flush_results)
  OBVIOUS
<1>1. /\ fr \in Seq(Range(fr)) /\ Len(fr) \in Nat /\ DOMAIN fr = 1 .. Len(fr)
      /\ (\A i \in DOMAIN fr : fr[i].id \in Nat)
      /\ Len(rs) \in Nat /\ DOMAIN rs = 1 .. Len(rs) /\ rs \in Seq(Range(rs))
      /\ (\A i \in DOMAIN rs : rs[i].id \in Nat)
  <2>1. fr \in Seq(Memtable) /\ rs \in Seq(Range(rs))
    BY <1>0 DEF TreeTypeOK
  <2>2. fr \in Seq(Range(fr))
    BY <2>1 DEF Range
  <2> QED
    BY <1>0, <2>1, <2>2, Ids
<1>2. /\ \A i, j \in DOMAIN fr : i < j => fr[i].id < fr[j].id
      /\ \A i, j \in DOMAIN rs : i < j => rs[i].id < rs[j].id
  BY <1>0 DEF FlushOrder
<1>3. /\ rs # <<>>
      /\ \/ frozen_memtables' = fr /\ ~(fr # <<>> /\ Head(fr).id = h.id)
         \/ fr # <<>> /\ Head(fr).id = h.id /\ frozen_memtables' = Tail(fr)
  BY <1>0 DEF DrainSstQueue, drain_one
<1>4. 1 \in DOMAIN rs /\ h = rs[1]
  BY <1>0, <1>1, <1>3
<1>5. \A m \in Frozen : \A i \in DOMAIN rs : m.id <= rs[i].id => \E j \in DOMAIN rs : rs[j].id = m.id
  BY <1>0, DrainedParts DEF NoneBehind
<1>6. ASSUME NEW i \in DOMAIN fr PROVE fr[i].id >= h.id
  <2>1. SUFFICES ASSUME fr[i].id < h.id PROVE FALSE
    BY <1>1, <1>4
  <2>2. fr[i] \in Frozen
    BY <1>0 DEF Frozen, Range
  <2>3. fr[i].id <= rs[1].id
    BY <1>1, <1>4, <2>1
  <2>4. PICK j \in DOMAIN rs : rs[j].id = fr[i].id
    BY <1>4, <1>5, <2>2, <2>3
  <2>5. j = 1 \/ 1 < j
    BY <1>1
  <2>6. rs[1].id <= rs[j].id
    BY <1>1, <1>2, <1>4, <2>5
  <2> QED
    BY <1>1, <1>4, <2>1, <2>4, <2>6
<1>7. CASE frozen_memtables' = fr /\ ~(fr # <<>> /\ Head(fr).id = h.id)
  <2>1. PICK i \in DOMAIN fr : mt = fr[i]
    BY <1>7 DEF Frozen, Range
  <2>2. 1 \in DOMAIN fr /\ fr # <<>> /\ Head(fr) = fr[1]
    BY <1>1, <2>1
  <2>3. fr[1].id # h.id
    BY <1>7, <2>2
  <2>4. fr[1].id > h.id
    BY <1>1, <1>4, <1>6, <2>2, <2>3
  <2>5. fr[1].id <= fr[i].id
    BY <1>1, <1>2, <2>2
  <2> QED
    BY <1>0, <1>1, <1>4, <2>1, <2>2, <2>4, <2>5
<1>8. CASE fr # <<>> /\ Head(fr).id = h.id /\ frozen_memtables' = Tail(fr)
  <2>1. \A i \in DOMAIN Tail(fr) : i + 1 \in DOMAIN fr /\ Tail(fr)[i] = fr[i + 1]
    BY <1>1, <1>8, TailOwn
  <2>2. PICK i \in DOMAIN Tail(fr) : mt = Tail(fr)[i]
    BY <1>8 DEF Frozen, Range
  <2>3. i + 1 \in DOMAIN fr /\ mt = fr[i + 1] /\ 1 \in DOMAIN fr /\ Head(fr) = fr[1] /\ i \in DOMAIN Tail(fr)
    BY <1>1, <1>8, <2>1, <2>2
  <2>4. i \in 1 .. (Len(fr) - 1)
    BY <1>1, <1>8, <2>3, TailOwn
  <2>5. fr[1].id < fr[i + 1].id
    BY <1>1, <1>2, <2>3, <2>4, SMTT(30)
  <2> QED
    BY <1>0, <1>8, <2>3, <2>5
<1> QED
  BY <1>3, <1>7, <1>8

LEMMA DrainDrained ==
  ASSUME TreeTypeOK, FlushOrder, LogBeforeFlush, NothingLost, Drained, DrainSstQueue
  PROVE  Drained'
<1>0. PICK ss, rs, h : ss = sst_handles /\ rs = flush_results /\ h = Head(flush_results)
  OBVIOUS
<1>1. /\ rs # <<>> /\ rs \in Seq(Range(rs)) /\ flush_results' = Tail(rs) /\ sst_handles' = Append(ss, h)
      /\ io_rx' = io_rx /\ history' = history
  BY <1>0 DEF DrainSstQueue, drain_one, TreeTypeOK
<1>2. /\ Len(rs) \in Nat /\ DOMAIN rs = 1 .. Len(rs) /\ h = rs[1] /\ 1 \in DOMAIN rs
      /\ \A i \in DOMAIN rs : rs[i].id \in Nat
  BY <1>0, <1>1, Ids
<1>3. /\ \A i \in DOMAIN flush_results' : i \in Nat /\ 1 < i + 1 /\ i + 1 \in DOMAIN rs /\ flush_results'[i] = rs[i + 1]
      /\ \A i \in DOMAIN rs : i # 1 => i - 1 \in DOMAIN flush_results' /\ flush_results'[i - 1] = rs[i]
  <2>1. /\ DOMAIN flush_results' = 1 .. (Len(rs) - 1)
        /\ \A i \in DOMAIN flush_results' : i + 1 \in DOMAIN rs /\ flush_results'[i] = rs[i + 1]
        /\ \A i \in DOMAIN rs : i # 1 => i - 1 \in DOMAIN flush_results' /\ flush_results'[i - 1] = rs[i]
    BY <1>1, TailOwn
  <2> QED
    BY <1>2, <2>1
<1>4. /\ ss \in Seq(Range(ss)) /\ Len(ss) \in Nat /\ DOMAIN ss = 1 .. Len(ss)
      /\ \A i \in DOMAIN ss : ss[i].id \in Nat
  BY <1>0, HandleIds
<1>5. /\ DOMAIN sst_handles' = 1 .. (Len(ss) + 1) /\ sst_handles'[Len(ss) + 1] = h
      /\ \A i \in DOMAIN ss : sst_handles'[i] = ss[i]
  BY <1>1, <1>4, AppendOwn
<1>6. /\ \A i, j \in DOMAIN ss : i < j => ss[i].id < ss[j].id
      /\ \A i \in DOMAIN ss : \A j \in DOMAIN rs : ss[i].id < rs[j].id
      /\ \A i \in DOMAIN ss : \A j \in DOMAIN io_rx : IsFlush(io_rx[j]) => ss[i].id < io_rx[j].memtable.id
      /\ history.failed = {} => \A mt \in Frozen : NoneBehind(mt)
  BY <1>0, DrainedParts DEF HandlesRise, HandlesOldest
<1>7. /\ \A i, j \in DOMAIN rs : i < j => rs[i].id < rs[j].id
      /\ \A j \in DOMAIN io_rx : IsFlush(io_rx[j]) => \A i \in DOMAIN rs : rs[i].id < io_rx[j].memtable.id
  BY <1>0 DEF FlushOrder
<1>8. HandlesRise'
  <2>1. ASSUME NEW i \in DOMAIN sst_handles', NEW j \in DOMAIN sst_handles', i < j
        PROVE  sst_handles'[i].id < sst_handles'[j].id
    <3>1. i \in DOMAIN ss
      BY <1>4, <1>5, <2>1
    <3>2. CASE j \in DOMAIN ss
      BY <1>5, <1>6, <2>1, <3>1, <3>2
    <3>3. CASE j = Len(ss) + 1
      BY <1>2, <1>5, <1>6, <3>1, <3>3
    <3> QED
      BY <1>4, <1>5, <3>2, <3>3
  <2> QED
    BY <2>1 DEF HandlesRise
<1>9. HandlesOldest'
  <2>1. ASSUME NEW i \in DOMAIN sst_handles', NEW j \in DOMAIN flush_results'
        PROVE  sst_handles'[i].id < flush_results'[j].id
    <3>1. CASE i \in DOMAIN ss
      BY <1>3, <1>5, <1>6, <3>1
    <3>2. CASE i = Len(ss) + 1
      BY <1>2, <1>3, <1>5, <1>7, <3>2, ZenonT(60)
    <3> QED
      BY <1>4, <1>5, <3>1, <3>2
  <2>2. ASSUME NEW i \in DOMAIN sst_handles', NEW j \in DOMAIN io_rx, IsFlush(io_rx[j])
        PROVE  sst_handles'[i].id < io_rx[j].memtable.id
    <3>1. CASE i \in DOMAIN ss
      BY <1>5, <1>6, <2>2, <3>1
    <3>2. CASE i = Len(ss) + 1
      BY <1>2, <1>5, <1>7, <2>2, <3>2
    <3> QED
      BY <1>4, <1>5, <3>1, <3>2
  <2> QED
    BY <1>1, <2>1, <2>2 DEF HandlesOldest, IsFlush
<1>10. ASSUME history'.failed = {}, NEW mt \in Frozen' PROVE NoneBehind(mt)'
  <2>1. h.id < mt.id /\ mt \in Frozen
    BY <1>0, <1>1, <1>10, DrainYounger, DrainFrozen
  <2>2. NoneBehind(mt)
    BY <1>1, <1>6, <1>10, <2>1
  <2>3. ASSUME NEW i \in DOMAIN sst_handles' PROVE sst_handles'[i].id < mt.id
    BY <1>0, <1>4, <1>5, <2>1, <2>2 DEF NoneBehind
  <2>4. ASSUME NEW i \in DOMAIN flush_results', mt.id <= flush_results'[i].id
        PROVE  \E j \in DOMAIN flush_results' : flush_results'[j].id = mt.id
    <3>1. PICK j \in DOMAIN rs : rs[j].id = mt.id
      BY <1>0, <1>3, <2>2, <2>4 DEF NoneBehind
    <3>2. j # 1
      BY <1>2, <2>1, <3>1
    <3> QED
      BY <1>3, <3>1, <3>2
  <2> QED
    BY <2>3, <2>4 DEF NoneBehind
<1> QED
  BY <1>8, <1>9, <1>10, DrainedPrimed

LEMMA FlushDrained ==
  ASSUME TreeTypeOK, FlushOrder, Drained, IoFlushMemtable
  PROVE  Drained'
<1>0. /\ QueueOK /\ history \in History /\ flush_results \in Seq(Range(flush_results)) /\ io = "up"
  BY DEF TreeTypeOK, QueueOK, IoFlushMemtable, TakeEvent
<1>1. UNCHANGED treeVars /\ io_rx # <<>> /\ io_rx' = Tail(io_rx)
  BY EventTaken DEF IoFlushMemtable
<1>2. sst_handles' = sst_handles /\ Frozen' = Frozen
  BY <1>1 DEF treeVars, Frozen
<1>3. /\ 1 \in DOMAIN io_rx /\ io_rx[1] = Head(io_rx)
      /\ \A j \in DOMAIN io_rx' : j + 1 \in DOMAIN io_rx /\ io_rx'[j] = io_rx[j + 1]
  BY <1>0, <1>1, RestOfQueue
<1>4. PICK mt, e :
         /\ mt \in Memtable /\ IsFlush(Head(io_rx)) /\ Head(io_rx).memtable = mt /\ e.id = mt.id
         /\ \/ /\ flush_results' = Append(flush_results, e)
               /\ history' = history
            \/ /\ history' = [history EXCEPT !.failed = history.failed \cup {mt.id}]
               /\ flush_results' = flush_results
            \/ flush_results' = flush_results /\ history' = history
  <2>1. PICK mt \in Memtable :
           /\ IsFlush(Head(io_rx)) /\ Head(io_rx).memtable = mt
           /\ \/ /\ flush_results' = Append(flush_results, [id |-> mt.id, handle |-> write_table(mt).handle])
                 /\ history' = history
              \/ /\ history' = [history EXCEPT !.failed = history.failed \cup {mt.id}]
                 /\ flush_results' = flush_results
              \/ flush_results' = flush_results /\ history' = history
    BY TableFlushed
  <2>2. PICK e : e = [id |-> mt.id, handle |-> write_table(mt).handle]
    OBVIOUS
  <2>3. e.id = mt.id
    BY <2>2
  <2> QED
    BY <2>1, <2>2, <2>3
<1>5. HandlesRise /\ HandlesOldest /\ (history.failed = {} => \A m \in Frozen : NoneBehind(m))
  BY DrainedParts
<1>6. HandlesRise'
  BY <1>2, <1>5 DEF HandlesRise
<1>7. \A i \in DOMAIN sst_handles : sst_handles[i].id < mt.id
  BY <1>3, <1>4, <1>5 DEF HandlesOldest
<1>8. \A i \in DOMAIN sst_handles : \A j \in DOMAIN io_rx' :
        IsFlush(io_rx'[j]) => sst_handles[i].id < io_rx'[j].memtable.id
  BY <1>3, <1>5 DEF HandlesOldest
<1>9. CASE flush_results' = flush_results /\ (history' = history \/ history'.failed # {})
  <2>1. HandlesOldest'
    BY <1>2, <1>5, <1>8, <1>9 DEF HandlesOldest, IsFlush
  <2>2. ASSUME history'.failed = {}, NEW m \in Frozen' PROVE NoneBehind(m)'
    <3>1. NoneBehind(m)
      BY <1>2, <1>5, <1>9, <2>2
    <3> QED
      BY <1>2, <1>9, <3>1 DEF NoneBehind
  <2> QED
    BY <1>6, <2>1, <2>2, DrainedPrimed
<1>10. CASE flush_results' = Append(flush_results, e) /\ history' = history
  <2>1. PICK n : n = Len(flush_results) + 1
    OBVIOUS
  <2>2. /\ DOMAIN flush_results' = DOMAIN flush_results \cup {n} /\ flush_results'[n] = e
        /\ \A i \in DOMAIN flush_results : flush_results'[i] = flush_results[i]
    <3>1. /\ DOMAIN flush_results = 1 .. Len(flush_results) /\ Len(flush_results) \in Nat
          /\ DOMAIN flush_results' = 1 .. (Len(flush_results) + 1) /\ flush_results'[Len(flush_results) + 1] = e
          /\ \A i \in DOMAIN flush_results : flush_results'[i] = flush_results[i]
      BY <1>0, <1>10, AppendOwn
    <3> QED
      BY <2>1, <3>1
  <2>3. HandlesOldest'
    <3>1. ASSUME NEW i \in DOMAIN sst_handles, NEW j \in DOMAIN flush_results'
          PROVE  sst_handles[i].id < flush_results'[j].id
      BY <1>4, <1>5, <1>7, <2>2 DEF HandlesOldest
    <3> QED
      BY <1>2, <1>8, <3>1 DEF HandlesOldest, IsFlush
  <2>4. ASSUME history'.failed = {}, NEW m \in Frozen PROVE NoneBehind(m)'
    <3>1. NoneBehind(m) /\ history.failed = {}
      BY <1>5, <1>10, <2>4
    <3>2. ASSUME m.id <= mt.id PROVE \E j \in DOMAIN flush_results' : flush_results'[j].id = m.id
      <4>1. CASE m.id = mt.id
        BY <1>4, <2>2, <4>1
      <4>2. CASE m.id # mt.id
        <5>1. \/ \E ev \in Pending : ev.ev = "FlushMemtable" /\ ev.memtable = m
              \/ \E i \in DOMAIN flush_results : flush_results[i].id = m.id
          BY <1>0, <3>1 DEF FlushOrder, FrozenAccounted
        <5>2. ASSUME NEW ev \in Pending, ev.ev = "FlushMemtable", ev.memtable = m PROVE FALSE
          <6>1. PICK j \in DOMAIN io_rx : io_rx[j] = ev
            BY DEF Pending, Range
          <6>2. IsFlush(io_rx[j]) /\ IsFlush(io_rx[1])
            BY <1>3, <1>4, <5>2, <6>1 DEF IsFlush
          <6>3. j # 1 /\ io_rx[j].memtable = m /\ io_rx[1].memtable = mt
            BY <1>3, <1>4, <4>2, <5>2, <6>1
          <6>4. 1 < j
            BY <6>3, Ids
          <6>5. io_rx[1].memtable.id < io_rx[j].memtable.id
            BY <1>3, <6>2, <6>4 DEF FlushOrder
          <6>6. io_rx[j].memtable.id \in Nat /\ io_rx[1].memtable.id \in Nat
            BY <1>3, <6>2, Ids
          <6> QED
            BY <3>2, <6>3, <6>5, <6>6
        <5> QED
          BY <2>2, <5>1, <5>2
      <4> QED
        BY <4>1, <4>2
    <3>3. ASSUME NEW i \in DOMAIN flush_results', m.id <= flush_results'[i].id
          PROVE  \E j \in DOMAIN flush_results' : flush_results'[j].id = m.id
      <4>1. CASE i \in DOMAIN flush_results
        BY <2>2, <3>1, <3>3, <4>1 DEF NoneBehind
      <4>2. CASE i = n
        BY <1>4, <2>2, <3>2, <3>3, <4>2
      <4> QED
        BY <2>2, <4>1, <4>2
    <3> QED
      BY <1>2, <3>1, <3>3 DEF NoneBehind
  <2> QED
    BY <1>2, <1>6, <2>3, <2>4, DrainedPrimed
<1>11. history' = [history EXCEPT !.failed = history.failed \cup {mt.id}] => history'.failed # {}
  BY <1>0 DEF History
<1> QED
  BY <1>4, <1>9, <1>10, <1>11

\* The tree as the queries need it.
Queryable ==
  /\ TreeTypeOK /\ FlushOrder /\ LogBeforeFlush /\ NothingLost
  /\ Numbers /\ Sound /\ Drained

LEMMA QueryableInit == Init => Queryable
<1> SUFFICES ASSUME Init PROVE Numbers /\ Sound /\ Drained
  BY InitTree, FlushOrderInit, BeforeInit, LostInit DEF Queryable
<1>1. /\ memtable.set = {} /\ frozen_memtables = <<>> /\ io_rx = <<>> /\ sst_handles = <<>>
      /\ flush_results = <<>> /\ history.placed = <<>> /\ counters.seq_num = 0 /\ call.pc # "flush"
  BY DEF Init, with_size_limit, Idle
<1>2. Frozen = {} /\ Tables = {} /\ DOMAIN io_rx = {} /\ DOMAIN history.placed = {} /\ DOMAIN sst_handles = {}
  BY <1>1 DEF Frozen, Tables, Range
<1>3. Numbers
  BY <1>1, <1>2, LsmAssumption DEF Numbers, Rejected
<1>4. Sound
  BY <1>1, <1>2 DEF Sound, Housed
<1>5. Drained
  BY <1>2 DEF Drained
<1> QED
  BY <1>3, <1>4, <1>5

LEMMA QueryableStep == Queryable /\ [Next]_vars => Queryable'
<1> SUFFICES ASSUME Queryable, [Next]_vars PROVE Queryable'
  OBVIOUS
<1>0. TreeTypeOK /\ FlushOrder /\ LogBeforeFlush /\ NothingLost /\ Numbers /\ Sound /\ Drained
  BY DEF Queryable
<1>1. TreeTypeOK' /\ FlushOrder' /\ LogBeforeFlush'
  BY <1>0, TreeStep, FlushOrderStep, BeforeStep
<1>2. NothingLost'
  BY <1>0, QuietLost, PayloadLost, IssueLost, DrainLost, FlushLost DEF Next
<1>3. CASE \/ BeginBatch \/ EndBatch \/ EndDrain \/ IoAppendWal \/ IoFsyncWal \/ UNCHANGED vars
           \/ \E p \in Payloads : RefusePayload(p) \/ StreamPanics(p)
  <2>1. Numbers'
    BY <1>0, <1>3, QuietState, QuietNumbers
  <2>2. Sound'
    BY <1>0, <1>3, QuietSound
  <2>3. FlushesStay
    BY <1>0, <1>3, QuietStays
  <2>4. sst_handles' = sst_handles
    BY <1>3 DEF BeginBatch, EndBatch, EndDrain, IoAppendWal, IoFsyncWal, vars, RefusePayload, StreamPanics,
                TakeEvent, treeVars, tables
  <2>5. Drained'
    BY <1>0, <2>3, <2>4, QuietDrained
  <2> QED
    BY <1>1, <1>2, <2>1, <2>2, <2>5 DEF Queryable
<1>4. ASSUME NEW p \in Payloads, NEW time \in Clock, AppendPayload(p, time) PROVE Queryable'
  <2>1. Numbers' /\ Sound'
    BY <1>0, <1>4, PayloadNumbers, PayloadSound
  <2>2. FlushesStay /\ sst_handles' = sst_handles
    BY <1>0, <1>4, QuietStays DEF AppendPayload, tables
  <2>3. Drained'
    BY <1>0, <2>2, QuietDrained
  <2> QED
    BY <1>1, <1>2, <2>1, <2>3 DEF Queryable
<1>5. CASE IssueFlush
  BY <1>0, <1>1, <1>2, <1>5, IssueNumbers, IssueSound, IssueDrained DEF Queryable
<1>6. CASE DrainSstQueue
  <2>1. Numbers'
    BY <1>0, <1>6, QuietState, QuietNumbers
  <2> QED
    BY <1>0, <1>1, <1>2, <1>6, <2>1, DrainSound, DrainDrained DEF Queryable
<1>7. CASE IoFlushMemtable
  <2>1. Numbers'
    BY <1>0, <1>7, QuietState, QuietNumbers
  <2> QED
    BY <1>0, <1>1, <1>2, <1>7, <2>1, FlushSound, FlushDrained DEF Queryable
<1> QED
  BY <1>3, <1>4, <1>5, <1>6, <1>7 DEF Next

LEMMA QueryableAlways == Spec => []Queryable
BY QueryableInit, QueryableStep, PTL DEF Spec

\* The records placed in one memtable, and in two.
LEMMA PlacedFacts ==
  ASSUME TreeTypeOK, Numbers
  PROVE  \A mid :
           /\ PlacedRecords(mid) \in SUBSET LogRecord /\ Keyed(PlacedRecords(mid))
           /\ \A r \in PlacedRecords(mid) : r.key.source_id = 0 /\ r.key.sequence_num <= MAX_U64
           /\ \A other : other # mid =>
                \A r \in PlacedRecords(mid), t \in PlacedRecords(other) : r.key # t.key
<1>0. PICK q, n : q = history.placed /\ n = Len(history.placed)
  OBVIOUS
<1>1. q \in Seq(Placement) /\ n \in Nat /\ DOMAIN q = 1 .. n
  BY <1>0, PlacedType
<1>2. \A i \in 1 .. n : q[i] \in Placement
  BY <1>0, <1>1
<1>3. \A i \in 1 .. n : q[i].rec \in LogRecord /\ q[i].rec.key \in Key /\ q[i].rec.key.sequence_num \in Nat
  BY <1>2 DEF Placement, LogRecord, Key
<1>4. /\ \A i \in 1 .. n : q[i].rec.key.sequence_num < counters.seq_num /\ q[i].rec.key.source_id = 0
      /\ \A i, j \in 1 .. n : q[i].rec.key = q[j].rec.key => i = j
  BY <1>0, <1>1 DEF Numbers, Number
<1>5. counters.seq_num <= MAX_U64 /\ counters.seq_num \in Nat /\ MAX_U64 \in Nat
  <2>1. counters.seq_num <= MaxSeq /\ counters.seq_num \in Nat
    BY DEF Numbers, TreeTypeOK
  <2> QED
    BY <2>1, MaxU64Assumption, LsmAssumption
<1>6. \A mid : \A r \in PlacedRecords(mid) : \E i \in 1 .. n : q[i].rec = r /\ q[i].mid = mid
  BY <1>0, <1>1 DEF PlacedRecords, PlacedIn
<1>7. ASSUME NEW mid PROVE IsFiniteSet(PlacedRecords(mid))
  <2>1. PlacedIn(mid) \subseteq 1 .. n
    BY <1>0, <1>1 DEF PlacedIn
  <2>2. IsFiniteSet(PlacedIn(mid))
    BY <1>1, <2>1, FS_Interval, FS_Subset
  <2>3. PICK P : P = PlacedIn(mid)
    OBVIOUS
  <2>4. IsFiniteSet({q[i].rec : i \in P})
    <3> DEFINE F(i) == q[i].rec
    <3>1. PICK f : f = [i \in P |-> q[i].rec]
      OBVIOUS
    <3>2. PICK T : T = {q[i].rec : i \in P}
      OBVIOUS
    <3>3. f \in Surjection(P, T)
      BY <3>1, <3>2 DEF Surjection
    <3>4. IsFiniteSet(P)
      BY <2>2, <2>3
    <3>5. IsFiniteSet(T)
      BY <3>3, <3>4, FS_Surjection
    <3> QED
      BY <3>2, <3>5
  <2> QED
    BY <1>0, <2>3, <2>4 DEF PlacedRecords
<1>8. \A mid : Keyed(PlacedRecords(mid))
  BY <1>4, <1>6, <1>7 DEF Keyed
<1>9. \A mid : PlacedRecords(mid) \subseteq LogRecord
  BY <1>3, <1>6
<1>10. ASSUME NEW i \in 1 .. n PROVE q[i].rec.key.sequence_num <= MAX_U64
  BY <1>3, <1>4, <1>5
<1>11. \A mid : \A r \in PlacedRecords(mid) : r.key.source_id = 0 /\ r.key.sequence_num <= MAX_U64
  BY <1>4, <1>6, <1>10
<1>12. \A mid, other : other # mid =>
         \A r \in PlacedRecords(mid), t \in PlacedRecords(other) : r.key # t.key
  BY <1>4, <1>6
<1> QED
  BY <1>8, <1>9, <1>11, <1>12

\* The keys of a query.
LEMMA QueryKeys ==
  ASSUME NEW stream \in Nat, NEW from \in Nat, NEW to \in Nat
  PROVE  /\ low(stream, from) \in Key /\ high(stream, to) \in Key /\ low(stream, from).stream_id = stream
         /\ from <= to => \A mt : ~RangePanics(mt, low(stream, from), high(stream, to))
BY MaxU64Assumption DEF low, high, Key, RangePanics, KeyLess

\* The keys between them.
LEMMA QueryRange ==
  ASSUME NEW stream \in Nat, NEW from \in Nat, NEW to \in Nat,
         NEW k \in Key, k.source_id = 0, k.sequence_num <= MAX_U64
  PROVE  InRange(k, low(stream, from), high(stream, to))
           <=> k.stream_id = stream /\ from <= k.timestamp /\ k.timestamp <= to
<1>1. PICK a, b : a = low(stream, from) /\ b = high(stream, to)
  OBVIOUS
<1>2. /\ a = [stream_id |-> stream, timestamp |-> from, sequence_num |-> 0, source_id |-> 0]
      /\ b = [stream_id |-> stream, timestamp |-> to, sequence_num |-> MAX_U64, source_id |-> MAX_U64]
  BY <1>1 DEF low, high
<1>3. /\ a.stream_id = stream /\ a.timestamp = from /\ a.sequence_num = 0 /\ a.source_id = 0
      /\ b.stream_id = stream /\ b.timestamp = to /\ b.sequence_num = MAX_U64 /\ b.source_id = MAX_U64
  BY <1>2
<1>4. PICK ks, kt, kn : ks = k.stream_id /\ kt = k.timestamp /\ kn = k.sequence_num
  OBVIOUS
<1>5. ks \in Nat /\ kt \in Nat /\ kn \in Nat /\ k.source_id = 0 /\ kn <= MAX_U64
      /\ k = [stream_id |-> ks, timestamp |-> kt, sequence_num |-> kn, source_id |-> 0]
  BY <1>4 DEF Key
<1>6. KeyLeq(a, k) <=> stream < ks \/ (stream = ks /\ from <= kt)
  <2>1. KeyLess(a, k) <=> stream < ks \/ (stream = ks /\ (from < kt \/ (from = kt /\ 0 < kn)))
    BY <1>3, <1>4, <1>5 DEF KeyLess
  <2>2. a = k <=> stream = ks /\ from = kt /\ kn = 0
    BY <1>2, <1>3, <1>4, <1>5
  <2> QED
    BY <1>5, <2>1, <2>2 DEF KeyLeq
<1>7. KeyLeq(k, b) <=> ks < stream \/ (stream = ks /\ kt <= to)
  <2>1. KeyLess(k, b) <=>
          \/ ks < stream
          \/ /\ stream = ks
             /\ kt < to \/ (kt = to /\ (kn < MAX_U64 \/ (kn = MAX_U64 /\ 0 < MAX_U64)))
    BY <1>3, <1>4, <1>5 DEF KeyLess
  <2>2. k = b <=> stream = ks /\ kt = to /\ kn = MAX_U64 /\ MAX_U64 = 0
    BY <1>2, <1>3, <1>4, <1>5
  <2> QED
    BY <1>5, <2>1, <2>2, MaxU64Assumption DEF KeyLeq
<1> QED
  BY <1>1, <1>4, <1>5, <1>6, <1>7 DEF InRange

-----------------------------------------------------------------------------
(* What a query finds in a memtable and in a table.                          *)

\* The memtables in the order MergeIter takes them.
Member(i) == IF i = 1 THEN memtable ELSE frozen_memtables[i - 1]

LEMMA Members ==
  ASSUME TreeTypeOK, FlushOrder
  PROVE  /\ Len(frozen_memtables) \in Nat
         /\ \A i \in 1 .. (Len(frozen_memtables) + 1) :
              Member(i) \in Memtable /\ Member(i) \in Frozen \cup {memtable} /\ Member(i).id \in Nat
         /\ \A mt \in Frozen \cup {memtable} : \E i \in 1 .. (Len(frozen_memtables) + 1) : Member(i) = mt
         /\ \A i, j \in 1 .. (Len(frozen_memtables) + 1) : i # j => Member(i).id # Member(j).id
<1>0. PICK fr, n : fr = frozen_memtables /\ n = Len(frozen_memtables)
  OBVIOUS
<1>1. /\ fr \in Seq(Memtable) /\ n \in Nat /\ DOMAIN fr = 1 .. n /\ memtable \in Memtable
      /\ memtable.id \in Nat /\ \A i \in 1 .. n : fr[i].id \in Nat
  <2>1. fr \in Seq(Memtable) /\ memtable \in Memtable
    BY <1>0 DEF TreeTypeOK
  <2> QED
    BY <1>0, <2>1, Ids
<1>2. \A i \in 1 .. n : fr[i] \in Memtable /\ fr[i] \in Frozen
  BY <1>0, <1>1 DEF Frozen, Range
<1>3. /\ \A i \in 1 .. n : fr[i].id < memtable.id
      /\ \A i, j \in 1 .. n : i < j => fr[i].id < fr[j].id
  BY <1>0, <1>1 DEF FlushOrder
<1>4. Member(1) = memtable /\ \A i \in 2 .. (n + 1) : Member(i) = fr[i - 1] /\ i - 1 \in 1 .. n
  BY <1>0, <1>1 DEF Member
<1>5. \A i \in 1 .. (n + 1) : i = 1 \/ i \in 2 .. (n + 1)
  BY <1>1
<1>6. \A i \in 1 .. (n + 1) : Member(i) \in Memtable /\ Member(i) \in Frozen \cup {memtable} /\ Member(i).id \in Nat
  BY <1>1, <1>2, <1>4, <1>5
<1>7. ASSUME NEW mt \in Frozen \cup {memtable} PROVE \E i \in 1 .. (n + 1) : Member(i) = mt
  <2>1. CASE mt = memtable
    BY <1>1, <1>4, <2>1
  <2>2. CASE mt \in Frozen
    <3>1. PICK i \in 1 .. n : mt = fr[i]
      BY <1>0, <1>1, <2>2 DEF Frozen, Range
    <3>2. i + 1 \in 2 .. (n + 1) /\ i + 1 \in 1 .. (n + 1) /\ (i + 1) - 1 = i
      BY <1>1
    <3> QED
      BY <1>4, <3>1, <3>2
  <2> QED
    BY <2>1, <2>2
<1>8. ASSUME NEW i \in 1 .. (n + 1), NEW j \in 1 .. (n + 1), i < j PROVE Member(i).id # Member(j).id
  <2>1. j \in 2 .. (n + 1) /\ Member(j) = fr[j - 1] /\ j - 1 \in 1 .. n
    BY <1>1, <1>4, <1>8
  <2>2. CASE i = 1
    BY <1>1, <1>3, <1>4, <2>1, <2>2
  <2>3. CASE i \in 2 .. (n + 1)
    <3>1. Member(i) = fr[i - 1] /\ i - 1 \in 1 .. n /\ i - 1 < j - 1
      BY <1>1, <1>4, <1>8, <2>3
    <3>2. fr[i - 1].id < fr[j - 1].id
      BY <1>3, <2>1, <3>1
    <3> QED
      BY <1>1, <2>1, <3>1, <3>2
  <2> QED
    BY <1>5, <2>2, <2>3
<1>9. ASSUME NEW i \in 1 .. (n + 1), NEW j \in 1 .. (n + 1), i # j PROVE Member(i).id # Member(j).id
  <2>1. i < j \/ j < i
    BY <1>1, <1>9
  <2> QED
    BY <1>8, <2>1
<1> QED
  BY <1>0, <1>1, <1>6, <1>7, <1>9

\* A sequence that gives the records of a set in the order of their keys.
Lists(v, S) == v \in Seq(TableRecord) /\ Ordered(v) /\ \A r : (\E a \in 1 .. Len(v) : v[a] = r) <=> r \in S

LEMMA SortedLists ==
  ASSUME NEW S \in SUBSET LogRecord, Keyed(S)
  PROVE  Lists(Sorted(S), S)
<1>1. PICK v : v = Sorted(S)
  OBVIOUS
<1>2. v \in Seq(TableRecord) /\ Ordered(v) /\ Range(v) = S
  BY <1>1, SortedRange, SortedOrdered, Zenon
<1>3. DOMAIN v = 1 .. Len(v)
  BY <1>2
<1>4. \A r : (\E a \in 1 .. Len(v) : v[a] = r) <=> r \in S
  BY <1>2, <1>3 DEF Range
<1> QED
  BY <1>1, <1>2, <1>4, Zenon DEF Lists

\* A memtable gives its records of the stream in the queried time.
LEMMA MemtableGives ==
  ASSUME TreeTypeOK, Numbers, Sound, NEW mt \in Frozen \cup {memtable},
         NEW stream \in Nat, NEW q, q.from \in Nat, q.to \in Nat
  PROVE  /\ Lists(memtable_range(mt, low(stream, q.from), high(stream, q.to)), Wanted(stream, q, mt.set))
         /\ Wanted(stream, q, mt.set) \subseteq PlacedRecords(mt.id)
<1>1. PICK lo, hi, W : lo = low(stream, q.from) /\ hi = high(stream, q.to) /\ W = Wanted(stream, q, mt.set)
  OBVIOUS
<1>2. mt.set \subseteq PlacedRecords(mt.id)
  BY DEF Sound, Housed
<1>3. /\ PlacedRecords(mt.id) \in SUBSET LogRecord /\ Keyed(PlacedRecords(mt.id))
      /\ \A r \in PlacedRecords(mt.id) : r.key.source_id = 0 /\ r.key.sequence_num <= MAX_U64
  BY PlacedFacts
<1>4. W \subseteq PlacedRecords(mt.id) /\ W \in SUBSET LogRecord
  BY <1>1, <1>2, <1>3 DEF Wanted
<1>5. Keyed(W)
  BY <1>3, <1>4, KeyedSubset
<1>6. {r \in mt.set : InRange(r.key, lo, hi)} = W
  <2>1. ASSUME NEW r \in mt.set
        PROVE  InRange(r.key, lo, hi) <=> r.key.stream_id = stream /\ q.from <= r.key.timestamp /\ r.key.timestamp <= q.to
    <3>1. r.key \in Key /\ r.key.source_id = 0 /\ r.key.sequence_num <= MAX_U64
      BY <1>2, <1>3 DEF LogRecord
    <3> QED
      BY <1>1, <3>1, QueryRange
  <2> QED
    BY <1>1, <2>1 DEF Wanted
<1>7. memtable_range(mt, lo, hi) = Sorted(W)
  BY <1>6, Zenon DEF memtable_range
<1>8. Lists(Sorted(W), W)
  BY <1>4, <1>5, SortedLists
<1> QED
  BY <1>1, <1>4, <1>7, <1>8, Zenon

\* What a table gives: some of its records, in the order of their keys; where one
\* block is found for the stream all of those in the range but one.
Gives(sst, y, stream, q) ==
  /\ y[1] \in Seq(TableRecord) /\ Ordered(y[1])
  /\ \A a \in 1 .. Len(y[1]) : y[1][a] \in InTable(sst)
  /\ Cardinality(block_idx_for_stream_id(sst.handle, stream)) = 1 =>
       \E lost : \A r \in Wanted(stream, q, InTable(sst)) :
         r # lost => \E a \in 1 .. Len(y[1]) : y[1][a] = r

LEMMA TableGives ==
  ASSUME TreeTypeOK, Numbers, Sound, NEW sst \in Tables,
         NEW stream \in Nat, NEW q, q.from \in Nat, q.to \in Nat,
         NEW y \in Yields(sst.handle, low(stream, q.from), high(stream, q.to)), y # <<>>
  PROVE  Gives(sst, y, stream, q)
<1>1. PICK lo, hi, h : lo = low(stream, q.from) /\ hi = high(stream, q.to) /\ h = sst.handle
  OBVIOUS
<1>2. lo \in Key /\ hi \in Key /\ lo.stream_id = stream
  BY <1>1, QueryKeys
<1>3. InTable(sst) \subseteq PlacedRecords(sst.id) /\ Readable(sst)
  BY DEF Sound, Housed
<1>4. PICK s, o : Table(h, s, o) /\ Range(s) = InTable(sst)
  BY <1>1, <1>3 DEF Readable
<1>5. s \in Seq(TableRecord) /\ Len(s) \in Nat /\ DOMAIN s = 1 .. Len(s)
  <2>1. s \in Seq(TableRecord)
    BY <1>4, Zenon DEF Table
  <2> QED
    BY <2>1
<1>6. \A r : r \in InTable(sst) <=> \E i \in 1 .. Len(s) : s[i] = r
  BY <1>4, <1>5 DEF Range
<1>7. CASE may_contain(h.bloom, lo.stream_id)
  <2>1. PICK b \in StartBlocks(h, Included(lo)) : y = Yield(h, cursor_new(h, Included(lo), b), hi)
    BY <1>1, <1>7 DEF Yields
  <2>2. PICK c : c = cursor_new(h, Included(lo), b)
    OBVIOUS
  <2>3. c.ok /\ y = <<cursor_yield(h, c, Included(hi))>>
    BY <2>1, <2>2 DEF Yield
  <2>4. PICK v : v = cursor_yield(h, c, Included(hi))
    OBVIOUS
  <2>5. y[1] = v
    BY <2>3, <2>4
  <2>6. PICK p : Stands(h, s, o, c, p)
    BY <1>2, <1>4, <2>2, <2>3, StartStands
  <2>7. PICK end : end = Included(hi)
    OBVIOUS
  <2>8. Bounded(end)
    BY <1>2, <2>7 DEF Bounded, Included
  <2>9. YieldsFrom(s, v, p, end)
    BY <1>4, <2>4, <2>6, <2>7, <2>8, YieldGives
  <2>10. v \in Seq(TableRecord) /\ Ordered(v) /\ \A a \in 1 .. Len(v) : \E i \in 1 .. Len(s) : v[a] = s[i]
    BY <1>4, <2>9, YieldPart
  <2>11. ASSUME Cardinality(block_idx_for_stream_id(h, stream)) = 1
         PROVE  \E lost : \A r \in Wanted(stream, q, InTable(sst)) :
                  r # lost => \E a \in 1 .. Len(v) : v[a] = r
    <3>1. Cardinality(block_idx_for_stream_id(h, lo.stream_id)) <= 1
      BY <1>2, <2>11
    <3>2. PICK w, n : /\ w = cursor_yield(h, cursor_new(h, Included(lo), b), Included(hi)) /\ n \in Nat
                      /\ AllBut(s, w, n, lo, hi)
      <4>1. cursor_new(h, Included(lo), b).ok
        BY <2>2, <2>3
      <4> QED
        BY <1>2, <1>4, <3>1, <4>1, StartLoses
    <3>3. w = v
      BY <2>2, <2>4, <3>2, Zenon
    <3>4. PICK lost : lost = s[n]
      OBVIOUS
    <3>5. ASSUME NEW r \in Wanted(stream, q, InTable(sst)), r # lost PROVE \E a \in 1 .. Len(v) : v[a] = r
      <4>1. PICK i \in 1 .. Len(s) : s[i] = r
        BY <1>6, <3>5 DEF Wanted
      <4>2. r \in PlacedRecords(sst.id)
        BY <1>3, <3>5 DEF Wanted
      <4>3. r.key \in Key /\ r.key.source_id = 0 /\ r.key.sequence_num <= MAX_U64
        BY <4>2, PlacedFacts DEF LogRecord
      <4>4. InRange(r.key, lo, hi)
        BY <1>1, <3>5, <4>3, QueryRange DEF Wanted
      <4> QED
        BY <3>2, <3>3, <3>4, <3>5, <4>1, <4>4 DEF InRange, AllBut
    <3> QED
      BY <3>5
  <2> QED
    BY <1>1, <1>6, <2>5, <2>10, <2>11, ZenonT(60) DEF Gives
<1>8. CASE ~may_contain(h.bloom, lo.stream_id)
  <2>1. y = <<<<>>>>
    BY <1>1, <1>8 DEF Yields
  <2>2. y[1] = <<>>
    BY <2>1
  <2>3. y[1] \in Seq(TableRecord) /\ Len(y[1]) = 0
    BY <2>2
  <2>4. Ordered(y[1]) /\ \A a \in 1 .. Len(y[1]) : y[1][a] \in InTable(sst)
    BY <2>3 DEF Ordered
  <2>5. block_idx_for_stream_id(h, stream) = {}
    BY <1>2, <1>8 DEF block_idx_for_stream_id
  <2>6. Cardinality({}) = 0
    BY FS_EmptySet
  <2> QED
    BY <1>1, <2>3, <2>4, <2>5, <2>6 DEF Gives
<1> QED
  BY <1>7, <1>8

\* What a call of range does is what the iterator of one of the streams does.
LEMMA RangeOutcome ==
  ASSUME NEW labels, NEW from, NEW to, label_intersection(labels) # {}, NEW o \in lsm_range(labels, from, to)
  PROVE  \E s \in label_intersection(labels) : o \in MergeIters(low(s, from), high(s, to))
<1>1. PICK L, each : /\ L = label_intersection(labels)
                     /\ each = [s \in label_intersection(labels) |-> merge_iter(s, from, to)]
  OBVIOUS
<1>2. o \in FirstOf(each)
  BY <1>1 DEF lsm_range
<1>3. o \in UNION Range(each)
  BY <1>2 DEF FirstOf
<1>4. PICK s \in DOMAIN each : o \in each[s]
  BY <1>3 DEF Range
<1>5. s \in L /\ o \in merge_iter(s, from, to)
  BY <1>1, <1>4
<1> QED
  BY <1>1, <1>5 DEF merge_iter

\* The sources of an iterator, and what each of them gives.
Given(x, yields, stream, q) ==
  /\ Sources(x) /\ Len(x) = Len(frozen_memtables) + 1 + Len(sst_handles)
  /\ \A i \in 1 .. (Len(frozen_memtables) + 1) : Lists(x[i], Wanted(stream, q, Member(i).set))
  /\ \A i \in 1 .. Len(sst_handles) :
       x[Len(frozen_memtables) + 1 + i] = yields[i][1] /\ Gives(sst_handles[i], yields[i], stream, q)

LEMMA ConcatParts ==
  ASSUME NEW T, NEW u \in Seq(T), NEW v \in Seq(T)
  PROVE  /\ u \o v \in Seq(T) /\ Len(u \o v) = Len(u) + Len(v)
         /\ \A i \in 1 .. (Len(u) + Len(v)) : (u \o v)[i] = IF i <= Len(u) THEN u[i] ELSE v[i - Len(u)]
OBVIOUS

LEMMA GivenSources ==
  ASSUME Queryable, NEW stream \in Nat, NEW q, q.from \in Nat, q.to \in Nat, NEW lo, NEW hi,
         lo = low(stream, q.from), hi = high(stream, q.to),
         NEW yields \in OneOfEach([i \in DOMAIN sst_handles |-> Yields(sst_handles[i].handle, lo, hi)]),
         <<>> \notin Range(yields)
  PROVE  Given(Ranges(lo, hi) \o [i \in DOMAIN yields |-> yields[i][1]], yields, stream, q)
<1>0. TreeTypeOK /\ FlushOrder /\ LogBeforeFlush /\ NothingLost /\ Numbers /\ Sound /\ Drained
  BY DEF Queryable
<1>1. PICK n, m : n = Len(frozen_memtables) + 1 /\ m = Len(sst_handles)
  OBVIOUS
<1>2. /\ n \in Nat /\ m \in Nat /\ DOMAIN sst_handles = 1 .. m
      /\ \A i \in 1 .. n : Member(i) \in Frozen \cup {memtable}
  BY <1>0, <1>1, Members, HandleIds
<1>3. PICK u, v : u = Ranges(lo, hi) /\ v = [i \in DOMAIN yields |-> yields[i][1]]
  OBVIOUS
<1>4. u = [i \in 1 .. n |-> memtable_range(Member(i), lo, hi)]
  BY <1>1, <1>3, Zenon DEF Ranges, Member
<1>5. \A i \in 1 .. n : Lists(u[i], Wanted(stream, q, Member(i).set))
  <2>1. ASSUME NEW i \in 1 .. n PROVE Lists(u[i], Wanted(stream, q, Member(i).set))
    <3>1. PICK mt : mt = Member(i)
      OBVIOUS
    <3>2. mt \in Frozen \cup {memtable} /\ u[i] = memtable_range(mt, lo, hi)
      BY <1>2, <1>4, <3>1
    <3>3. Lists(memtable_range(mt, low(stream, q.from), high(stream, q.to)), Wanted(stream, q, mt.set))
      BY <1>0, <3>2, MemtableGives
    <3> QED
      BY <3>1, <3>2, <3>3, Zenon
  <2> QED
    BY <2>1
<1>6. PICK each : each = [i \in DOMAIN sst_handles |-> Yields(sst_handles[i].handle, lo, hi)]
  OBVIOUS
<1>7. DOMAIN each = 1 .. m /\ \A i \in 1 .. m : each[i] = Yields(sst_handles[i].handle, lo, hi)
  BY <1>2, <1>6
<1>8. DOMAIN yields = 1 .. m /\ \A i \in 1 .. m : yields[i] \in each[i]
  <2>1. yields \in OneOfEach(each)
    BY <1>6, Zenon
  <2> QED
    BY <1>7, <2>1 DEF OneOfEach
<1>9. \A i \in 1 .. m : Gives(sst_handles[i], yields[i], stream, q)
  <2>1. ASSUME NEW i \in 1 .. m PROVE Gives(sst_handles[i], yields[i], stream, q)
    <3>1. PICK sst, y : sst = sst_handles[i] /\ y = yields[i]
      OBVIOUS
    <3>2. sst \in Tables
      BY <1>2, <3>1 DEF Tables, Range
    <3>3. y \in Yields(sst.handle, low(stream, q.from), high(stream, q.to))
      BY <1>7, <1>8, <3>1, Zenon
    <3>4. y # <<>>
      BY <1>8, <3>1 DEF Range
    <3>5. Gives(sst, y, stream, q)
      BY <1>0, <3>2, <3>3, <3>4, TableGives
    <3> QED
      BY <3>1, <3>5, Zenon
  <2> QED
    BY <2>1
<1>10. v = [i \in 1 .. m |-> yields[i][1]]
  BY <1>3, <1>8
<1>11. (\A i \in 1 .. n : u[i] \in Seq(TableRecord) /\ Ordered(u[i])) /\ DOMAIN u = 1 .. n
  BY <1>4, <1>5 DEF Lists
<1>12. (\A i \in 1 .. m : v[i] \in Seq(TableRecord) /\ Ordered(v[i])) /\ DOMAIN v = 1 .. m
  BY <1>9, <1>10 DEF Gives
<1>13. u \in Seq(Seq(TableRecord)) /\ v \in Seq(Seq(TableRecord)) /\ Len(u) = n /\ Len(v) = m
  <2>1. u = [i \in 1 .. n |-> u[i]] /\ v = [i \in 1 .. m |-> v[i]]
    BY <1>4, <1>10, <1>11, <1>12
  <2>2. u \in [1 .. n -> Seq(TableRecord)] /\ v \in [1 .. m -> Seq(TableRecord)]
    BY <1>11, <1>12, <2>1
  <2> QED
    BY <1>2, <2>2
<1>14. PICK x : x = u \o v
  OBVIOUS
<1>15. /\ x \in Seq(Seq(TableRecord)) /\ Len(x) = n + m
       /\ (\A i \in 1 .. n : x[i] = u[i]) /\ (\A i \in 1 .. m : x[n + i] = v[i])
  <2>1. x \in Seq(Seq(TableRecord)) /\ Len(x) = n + m
    BY <1>13, <1>14, ConcatParts
  <2>2. \A i \in 1 .. (n + m) : x[i] = IF i <= n THEN u[i] ELSE v[i - n]
    BY <1>13, <1>14, ConcatParts, SMTT(30)
  <2>3. \A i \in 1 .. n : i \in 1 .. (n + m) /\ i <= n
    BY <1>2
  <2>4. \A i \in 1 .. m : n + i \in 1 .. (n + m) /\ ~(n + i <= n) /\ (n + i) - n = i
    BY <1>2
  <2>5. \A i \in 1 .. m : x[n + i] = v[(n + i) - n]
    BY <2>2, <2>4
  <2> QED
    BY <2>1, <2>2, <2>3, <2>4, <2>5
<1>16. \A i \in 1 .. Len(x) : Ordered(x[i])
  <2>1. ASSUME NEW i \in 1 .. (n + m) PROVE Ordered(x[i])
    <3>1. CASE i <= n
      BY <1>2, <1>11, <1>15, <3>1
    <3>2. CASE ~(i <= n)
      <4>1. i - n \in 1 .. m /\ n + (i - n) = i
        BY <1>2, <3>2
      <4>2. x[i] = v[i - n]
        BY <1>15, <4>1
      <4> QED
        BY <1>12, <4>1, <4>2
    <3> QED
      BY <3>1, <3>2
  <2> QED
    BY <1>15, <2>1
<1>17. Sources(x)
  BY <1>15, <1>16 DEF Sources
<1>18. \A i \in 1 .. n : Lists(x[i], Wanted(stream, q, Member(i).set))
  BY <1>5, <1>15
<1>19. \A i \in 1 .. m : x[n + i] = yields[i][1]
  BY <1>10, <1>15
<1>20. Given(x, yields, stream, q)
  BY <1>1, <1>9, <1>15, <1>17, <1>18, <1>19 DEF Given
<1> QED
  BY <1>3, <1>14, <1>20, Zenon

\* The memtable a source has its records from.
Home(i) == IF i <= Len(frozen_memtables) + 1 THEN Member(i).id
           ELSE sst_handles[i - (Len(frozen_memtables) + 1)].id

\* Without a failed flush, or without a table, these are different memtables.
LEMMA HomesDiffer ==
  ASSUME Queryable, history.failed = {} \/ sst_handles = <<>>,
         NEW i \in 1 .. (Len(frozen_memtables) + 1 + Len(sst_handles)),
         NEW j \in 1 .. (Len(frozen_memtables) + 1 + Len(sst_handles)), i < j
  PROVE  Home(i) # Home(j)
<1>0. TreeTypeOK /\ FlushOrder /\ LogBeforeFlush /\ NothingLost /\ Numbers /\ Sound /\ Drained
  BY DEF Queryable
<1>1. PICK n, m : n = Len(frozen_memtables) + 1 /\ m = Len(sst_handles)
  OBVIOUS
<1>2. /\ n \in Nat /\ m \in Nat
      /\ \A a \in 1 .. n : Member(a) \in Frozen \cup {memtable} /\ Member(a).id \in Nat
      /\ \A a, b \in 1 .. n : a # b => Member(a).id # Member(b).id
  BY <1>0, <1>1, Members, HandleIds
<1>3. DOMAIN sst_handles = 1 .. m /\ \A a \in 1 .. m : sst_handles[a].id \in Nat /\ sst_handles[a].id < memtable.id
  BY <1>0, <1>1, HandleIds
<1>4. \A a, b \in 1 .. m : a < b => sst_handles[a].id < sst_handles[b].id
  BY <1>0, <1>3 DEF Drained
<1>5. i \in 1 .. (n + m) /\ j \in 1 .. (n + m)
  BY <1>1
<1>6. CASE j <= n
  <2>1. i \in 1 .. n /\ j \in 1 .. n /\ i # j /\ i <= n
    BY <1>2, <1>5, <1>6
  <2> QED
    BY <1>1, <1>2, <1>6, <2>1 DEF Home
<1>7. CASE n < i
  <2>1. i - n \in 1 .. m /\ j - n \in 1 .. m /\ i - n < j - n /\ ~(i <= n) /\ ~(j <= n)
    BY <1>2, <1>5, <1>7
  <2>2. sst_handles[i - n].id < sst_handles[j - n].id
    BY <1>4, <2>1
  <2>3. sst_handles[i - n].id # sst_handles[j - n].id
    BY <1>3, <2>1, <2>2
  <2> QED
    BY <1>1, <2>1, <2>3 DEF Home
<1>8. CASE i <= n /\ n < j
  <2>1. i \in 1 .. n /\ j - n \in 1 .. m /\ ~(j <= n)
    BY <1>2, <1>5, <1>8
  <2>2. sst_handles # <<>>
    BY <1>1, <1>2, <2>1
  <2>3. history.failed = {}
    BY <2>2
  <2>4. \A mt \in Frozen : sst_handles[j - n].id < mt.id
    BY <1>0, <1>3, <2>1, <2>3 DEF Drained
  <2>5. sst_handles[j - n].id < Member(i).id
    BY <1>2, <1>3, <2>1, <2>4
  <2>6. sst_handles[j - n].id # Member(i).id
    BY <1>2, <1>3, <2>1, <2>5
  <2> QED
    BY <1>1, <1>8, <2>1, <2>6 DEF Home
<1> QED
  BY <1>2, <1>5, <1>6, <1>7, <1>8

LEMMA GivenHomes ==
  ASSUME Queryable, NEW x, NEW yields, NEW stream, NEW q, Given(x, yields, stream, q),
         NEW i \in 1 .. Len(x), NEW a \in 1 .. Len(x[i])
  PROVE  x[i][a] \in PlacedRecords(Home(i))
<1>0. TreeTypeOK /\ FlushOrder /\ LogBeforeFlush /\ NothingLost /\ Numbers /\ Sound /\ Drained
  BY DEF Queryable
<1>1. PICK n, m : n = Len(frozen_memtables) + 1 /\ m = Len(sst_handles)
  OBVIOUS
<1>2. /\ n \in Nat /\ m \in Nat /\ DOMAIN sst_handles = 1 .. m /\ i \in 1 .. (n + m)
      /\ \A k \in 1 .. n : Member(k) \in Frozen \cup {memtable}
  BY <1>0, <1>1, Members, HandleIds DEF Given
<1>3. CASE i <= n
  <2>1. i \in 1 .. n
    BY <1>2, <1>3
  <2>2. PICK mt : mt = Member(i) /\ mt \in Frozen \cup {memtable}
    BY <1>2, <2>1
  <2>3. Lists(x[i], Wanted(stream, q, mt.set))
    BY <1>1, <2>1, <2>2 DEF Given
  <2>4. x[i][a] \in Wanted(stream, q, mt.set)
    BY <2>3 DEF Lists
  <2>5. x[i][a] \in mt.set
    BY <2>4 DEF Wanted
  <2>6. x[i][a] \in PlacedRecords(mt.id)
    BY <1>0, <2>2, <2>5 DEF Sound, Housed
  <2>7. Home(i) = mt.id
    BY <1>1, <1>3, <2>2 DEF Home
  <2> QED
    BY <2>6, <2>7
<1>4. CASE ~(i <= n)
  <2>1. i - n \in 1 .. m /\ n + (i - n) = i
    BY <1>2, <1>4
  <2>2. PICK k, sst, y : k = i - n /\ sst = sst_handles[k] /\ y = yields[k]
    OBVIOUS
  <2>3. k \in 1 .. m /\ n + k = i
    BY <2>1, <2>2
  <2>4. x[n + k] = y[1] /\ Gives(sst, y, stream, q)
    BY <1>1, <2>2, <2>3 DEF Given
  <2>5. x[i] = y[1]
    BY <2>3, <2>4
  <2>6. x[i][a] \in InTable(sst)
    BY <2>4, <2>5 DEF Gives
  <2>7. sst \in Tables
    BY <1>2, <2>2, <2>3 DEF Tables, Range
  <2>8. x[i][a] \in PlacedRecords(sst.id)
    BY <1>0, <2>6, <2>7 DEF Sound, Housed
  <2>9. Home(i) = sst.id
    BY <1>1, <1>4, <2>2 DEF Home
  <2> QED
    BY <2>8, <2>9
<1> QED
  BY <1>3, <1>4

LEMMA GivenApart ==
  ASSUME Queryable, history.failed = {} \/ sst_handles = <<>>,
         NEW x, NEW yields, NEW stream, NEW q, Given(x, yields, stream, q)
  PROVE  Apart(x)
<1>0. TreeTypeOK /\ Numbers
  BY DEF Queryable
<1>1. Len(x) = Len(frozen_memtables) + 1 + Len(sst_handles) /\ Sources(x)
  BY DEF Given
<1>2. Len(x) \in Nat
  BY <1>1, SourceFacts
<1>3. ASSUME NEW i \in 1 .. Len(x), NEW j \in 1 .. Len(x), i # j,
             NEW a \in 1 .. Len(x[i]), NEW b \in 1 .. Len(x[j])
      PROVE  x[i][a].key # x[j][b].key
  <2>1. i < j \/ j < i
    BY <1>2, <1>3
  <2>2. Home(i) # Home(j)
    BY <1>1, <2>1, HomesDiffer
  <2>3. x[i][a] \in PlacedRecords(Home(i)) /\ x[j][b] \in PlacedRecords(Home(j))
    BY GivenHomes
  <2> QED
    BY <1>0, <2>2, <2>3, PlacedFacts
<1> QED
  BY <1>3 DEF Apart

-----------------------------------------------------------------------------
(* What a query answers.                                                     *)

\* An iterator gives an error, or merges its sources.
LEMMA Answered ==
  ASSUME Queryable, NEW stream \in Nat, NEW q, q.from \in Nat, q.to \in Nat,
         NEW o \in MergeIters(low(stream, q.from), high(stream, q.to))
  PROVE  /\ o.out # "ok" => o.recs = <<>>
         /\ o.out = "ok" => \E x, yields : Given(x, yields, stream, q) /\ o.recs = merge(x)
         /\ sst_handles = <<>> /\ q.from <= q.to => o.out = "ok"
<1>1. PICK lo, hi : lo = low(stream, q.from) /\ hi = high(stream, q.to)
  OBVIOUS
<1>2. PICK yields \in OneOfEach([i \in DOMAIN sst_handles |-> Yields(sst_handles[i].handle, lo, hi)]) :
        o = Iterated(lo, hi, yields)
  BY <1>1 DEF MergeIters
<1>3. o.out # "ok" => o.recs = <<>>
  BY <1>2 DEF Iterated
<1>4. ASSUME o.out = "ok" PROVE \E x, ys : Given(x, ys, stream, q) /\ o.recs = merge(x)
  <2>1. PICK x : x = Ranges(lo, hi) \o [i \in DOMAIN yields |-> yields[i][1]]
    OBVIOUS
  <2>2. <<>> \notin Range(yields) /\ o.recs = merge(x)
    BY <1>2, <1>4, <2>1 DEF Iterated
  <2>3. Given(x, yields, stream, q)
    BY <1>1, <2>1, <2>2, GivenSources
  <2> QED
    BY <2>2, <2>3
<1>5. ASSUME sst_handles = <<>>, q.from <= q.to PROVE o.out = "ok"
  <2>1. DOMAIN yields = {}
    BY <1>5 DEF OneOfEach
  <2>2. <<>> \notin Range(yields)
    BY <2>1 DEF Range
  <2>3. \A mt : ~RangePanics(mt, lo, hi)
    BY <1>1, <1>5, QueryKeys
  <2> QED
    BY <1>2, <2>2, <2>3 DEF Iterated
<1> QED
  BY <1>3, <1>4, <1>5

\* The streams of a query.
LEMMA QueryStreams ==
  ASSUME TreeTypeOK, NEW labels PROVE label_intersection(labels) \subseteq Nat
BY DEF label_intersection, TreeTypeOK

LEMMA AnswersAscend ==
  ASSUME Queryable, NEW stream \in Nat, NEW q, q.from \in Nat, q.to \in Nat,
         NEW o \in MergeIters(low(stream, q.from), high(stream, q.to))
  PROVE  /\ \A i \in 1 .. (Len(o.recs) - 1) : KeyLeq(o.recs[i].key, o.recs[i + 1].key)
         /\ history.failed = {} => \A i \in 1 .. (Len(o.recs) - 1) : KeyLess(o.recs[i].key, o.recs[i + 1].key)
<1>1. CASE o.out # "ok"
  <2>1. o.recs = <<>>
    BY <1>1, Answered
  <2> QED
    BY <2>1
<1>2. CASE o.out = "ok"
  <2>1. PICK x, yields : Given(x, yields, stream, q) /\ o.recs = merge(x)
    BY <1>2, Answered
  <2>2. Sources(x)
    BY <2>1 DEF Given
  <2>3. PICK v : v = merge(x)
    OBVIOUS
  <2>4. v \in Seq(TableRecord) /\ Rising(v) /\ (Apart(x) => Ordered(v))
    BY <2>2, <2>3, MergeGives, Zenon
  <2>5. Len(v) \in Nat
    BY <2>4
  <2>6. \A i \in 1 .. (Len(v) - 1) : i \in 1 .. Len(v) /\ i + 1 \in 1 .. Len(v) /\ i < i + 1
    BY <2>5
  <2>7. \A i \in 1 .. (Len(v) - 1) : KeyLeq(v[i].key, v[i + 1].key)
    BY <2>4, <2>6 DEF Rising
  <2>8. ASSUME history.failed = {} PROVE \A i \in 1 .. (Len(v) - 1) : KeyLess(v[i].key, v[i + 1].key)
    <3>1. Apart(x)
      BY <2>1, <2>8, GivenApart
    <3> QED
      BY <2>4, <2>6, <3>1 DEF Ordered
  <2> QED
    BY <2>1, <2>3, <2>7, <2>8, Zenon
<1> QED
  BY <1>1, <1>2

LEMMA AscendingHolds == Queryable => RangeAscending
<1> SUFFICES ASSUME Queryable, NEW q \in Queries, NEW o \in lsm_range(q.labels, q.from, q.to)
             PROVE  /\ Ascending(o.recs, KeyLeq)
                    /\ history.failed = {} => Ascending(o.recs, KeyLess)
  BY Zenon DEF RangeAscending
<1>1. q.from \in Nat /\ q.to \in Nat /\ TreeTypeOK
  BY QueryAssumption DEF Queryable
<1>2. /\ \A i \in 1 .. (Len(o.recs) - 1) : KeyLeq(o.recs[i].key, o.recs[i + 1].key)
      /\ history.failed = {} => \A i \in 1 .. (Len(o.recs) - 1) : KeyLess(o.recs[i].key, o.recs[i + 1].key)
  <2>1. CASE label_intersection(q.labels) = {}
    <3>1. o.recs = <<>>
      BY <2>1 DEF lsm_range
    <3> QED
      BY <3>1
  <2>2. CASE label_intersection(q.labels) # {}
    <3>1. PICK s \in label_intersection(q.labels) : o \in MergeIters(low(s, q.from), high(s, q.to))
      BY <2>2, RangeOutcome
    <3>2. s \in Nat
      BY <1>1, QueryStreams
    <3> QED
      BY <1>1, <3>1, <3>2, AnswersAscend
  <2> QED
    BY <2>1, <2>2
<1> QED
  BY <1>2, Zenon DEF Ascending

\* The records of an answer are those of its sources.
LEMMA AnswerRecords ==
  ASSUME NEW x, NEW yields, NEW stream, NEW q, Given(x, yields, stream, q)
  PROVE  /\ merge(x) \in Seq(TableRecord)
         /\ \A r : r \in Range(merge(x)) <=> Among(x, r)
<1>1. Sources(x)
  BY DEF Given
<1>2. PICK v : v = merge(x)
  OBVIOUS
<1>3. v \in Seq(TableRecord) /\ \A r : (\E i \in 1 .. Len(v) : v[i] = r) <=> Among(x, r)
  BY <1>1, <1>2, MergeGives, Zenon
<1>4. DOMAIN v = 1 .. Len(v)
  BY <1>3
<1>5. \A r : r \in Range(v) <=> Among(x, r)
  BY <1>3, <1>4 DEF Range
<1> QED
  BY <1>2, <1>3, <1>5, Zenon

LEMMA LossHolds == Queryable => LossBounded
<1> SUFFICES ASSUME Queryable, NEW q \in Queries, NEW o \in lsm_range(q.labels, q.from, q.to),
                    o.out = "ok", label_intersection(q.labels) # {}
             PROVE  \E s \in label_intersection(q.labels) :
                      /\ \A mt \in Frozen \cup {memtable} : Wanted(s, q, mt.set) \subseteq Range(o.recs)
                      /\ \A i \in DOMAIN sst_handles :
                           Cardinality(block_idx_for_stream_id(sst_handles[i].handle, s)) = 1 =>
                             Cardinality(Wanted(s, q, InTable(sst_handles[i])) \ Range(o.recs)) <= 1
  BY Zenon DEF LossBounded
<1>1. /\ q.from \in Nat /\ q.to \in Nat
      /\ TreeTypeOK /\ FlushOrder /\ LogBeforeFlush /\ NothingLost /\ Numbers /\ Sound /\ Drained
  BY QueryAssumption DEF Queryable
<1>2. PICK s \in label_intersection(q.labels) : o \in MergeIters(low(s, q.from), high(s, q.to))
  BY RangeOutcome
<1>3. s \in Nat
  BY <1>1, QueryStreams
<1>4. PICK x, yields : Given(x, yields, s, q) /\ o.recs = merge(x)
  BY <1>1, <1>2, <1>3, Answered
<1>5. PICK got : got = Range(o.recs)
  OBVIOUS
<1>6. \A r : r \in got <=> Among(x, r)
  BY <1>4, <1>5, AnswerRecords, Zenon
<1>7. PICK n, m : n = Len(frozen_memtables) + 1 /\ m = Len(sst_handles)
  OBVIOUS
<1>8. /\ n \in Nat /\ m \in Nat /\ DOMAIN sst_handles = 1 .. m
      /\ \A mt \in Frozen \cup {memtable} : \E i \in 1 .. n : Member(i) = mt
  BY <1>1, <1>7, Members, HandleIds
<1>9. /\ Len(x) = n + m
      /\ \A i \in 1 .. n : Lists(x[i], Wanted(s, q, Member(i).set))
      /\ \A i \in 1 .. m : x[n + i] = yields[i][1] /\ Gives(sst_handles[i], yields[i], s, q)
  BY <1>4, <1>7 DEF Given
<1>10. ASSUME NEW mt \in Frozen \cup {memtable} PROVE Wanted(s, q, mt.set) \subseteq got
  <2>1. PICK i \in 1 .. n : Member(i) = mt
    BY <1>8
  <2>2. i \in 1 .. Len(x)
    BY <1>8, <1>9
  <2>3. Lists(x[i], Wanted(s, q, mt.set))
    BY <1>9, <2>1
  <2> QED
    BY <1>6, <2>2, <2>3 DEF Lists, Among
<1>11. ASSUME NEW i \in DOMAIN sst_handles, Cardinality(block_idx_for_stream_id(sst_handles[i].handle, s)) = 1
       PROVE  Cardinality(Wanted(s, q, InTable(sst_handles[i])) \ got) <= 1
  <2>1. PICK sst, y : sst = sst_handles[i] /\ y = yields[i]
    OBVIOUS
  <2>2. i \in 1 .. m /\ n + i \in 1 .. Len(x)
    BY <1>8, <1>9
  <2>3. x[n + i] = y[1] /\ Gives(sst, y, s, q)
    BY <1>9, <2>1, <2>2
  <2>4. PICK lost : \A r \in Wanted(s, q, InTable(sst)) : r # lost => \E a \in 1 .. Len(y[1]) : y[1][a] = r
    BY <1>11, <2>1, <2>3 DEF Gives
  <2>5. Wanted(s, q, InTable(sst)) \ got \subseteq {lost}
    BY <1>6, <2>2, <2>3, <2>4 DEF Among
  <2>6. PICK S : S = Wanted(s, q, InTable(sst)) \ got
    OBVIOUS
  <2>7. S = {} \/ S = {lost}
    BY <2>5, <2>6
  <2>8. Cardinality({}) = 0 /\ Cardinality({lost}) = 1
    BY FS_EmptySet, FS_Singleton
  <2>9. Cardinality(S) <= 1
    BY <2>7, <2>8
  <2> QED
    BY <2>1, <2>6, <2>9, Zenon
<1> QED
  BY <1>5, <1>10, <1>11, Zenon

LEMMA MemtablesHold == Queryable => RangeMemtables
<1> SUFFICES ASSUME Queryable, sst_handles = <<>>, NEW q \in Queries, NEW o \in lsm_range(q.labels, q.from, q.to),
                    q.from <= q.to, label_intersection(q.labels) # {}
             PROVE  /\ o.out = "ok"
                    /\ \E s \in label_intersection(q.labels) :
                         o.recs = Sorted(Wanted(s, q, UNION {mt.set : mt \in Frozen \cup {memtable}}))
  BY Zenon DEF RangeMemtables
<1>1. /\ q.from \in Nat /\ q.to \in Nat
      /\ TreeTypeOK /\ FlushOrder /\ LogBeforeFlush /\ NothingLost /\ Numbers /\ Sound /\ Drained
  BY QueryAssumption DEF Queryable
<1>2. PICK s \in label_intersection(q.labels) : o \in MergeIters(low(s, q.from), high(s, q.to))
  BY RangeOutcome
<1>3. s \in Nat
  BY <1>1, QueryStreams
<1>4. o.out = "ok"
  BY <1>1, <1>2, <1>3, Answered
<1>5. PICK x, yields : Given(x, yields, s, q) /\ o.recs = merge(x)
  BY <1>1, <1>2, <1>3, <1>4, Answered
<1>6. PICK v : v = merge(x)
  OBVIOUS
<1>7. Sources(x) /\ Apart(x)
  BY <1>5, GivenApart DEF Given
<1>8. v \in Seq(TableRecord) /\ Ordered(v) /\ \A r : (\E i \in 1 .. Len(v) : v[i] = r) <=> Among(x, r)
  BY <1>6, <1>7, MergeGives, Zenon
<1>9. PICK n : n = Len(frozen_memtables) + 1
  OBVIOUS
<1>10. /\ n \in Nat
       /\ \A mt \in Frozen \cup {memtable} : \E i \in 1 .. n : Member(i) = mt
       /\ \A i \in 1 .. n : Member(i) \in Frozen \cup {memtable}
  BY <1>1, <1>9, Members
<1>11. Len(x) = n /\ \A i \in 1 .. n : Lists(x[i], Wanted(s, q, Member(i).set))
  <2>1. Len(sst_handles) = 0
    OBVIOUS
  <2> QED
    BY <1>5, <1>9, <1>10, <2>1 DEF Given
<1>12. PICK S : S = Wanted(s, q, UNION {mt.set : mt \in Frozen \cup {memtable}})
  OBVIOUS
<1>13. \A r : r \in S <=> \E mt \in Frozen \cup {memtable} : r \in Wanted(s, q, mt.set)
  BY <1>12 DEF Wanted
<1>14. \A r : Among(x, r) <=> r \in S
  <2>1. ASSUME NEW r, Among(x, r) PROVE r \in S
    <3>1. PICK i \in 1 .. n : \E a \in 1 .. Len(x[i]) : x[i][a] = r
      BY <1>11, <2>1 DEF Among
    <3>2. r \in Wanted(s, q, Member(i).set)
      BY <1>11, <3>1 DEF Lists
    <3> QED
      BY <1>10, <1>13, <3>2
  <2>2. ASSUME NEW r \in S PROVE Among(x, r)
    <3>1. PICK mt \in Frozen \cup {memtable} : r \in Wanted(s, q, mt.set)
      BY <1>13
    <3>2. PICK i \in 1 .. n : Member(i) = mt
      BY <1>10
    <3>3. Lists(x[i], Wanted(s, q, mt.set))
      BY <1>11, <3>2
    <3> QED
      BY <1>11, <3>1, <3>3 DEF Lists, Among
  <2> QED
    BY <2>1, <2>2
<1>15. S \in SUBSET LogRecord /\ Keyed(S)
  <2>1. ASSUME NEW r \in S PROVE \E i \in 1 .. Len(v) : v[i] = r
    BY <1>8, <1>14
  <2>2. ASSUME NEW i \in 1 .. Len(v) PROVE v[i] \in S
    BY <1>8, <1>14
  <2>3. S = Range(v) /\ DOMAIN v = 1 .. Len(v) /\ Len(v) \in Nat
    BY <1>8, <2>1, <2>2 DEF Range
  <2>4. S \in SUBSET LogRecord
    <3>1. \A i \in 1 .. Len(v) : v[i] \in TableRecord
      BY <1>8
    <3>2. TableRecord = LogRecord
      BY DEF TableRecord, LogRecord
    <3> QED
      BY <2>1, <3>1, <3>2
  <2>5. IsFiniteSet(S)
    <3>1. v \in Surjection(1 .. Len(v), S)
      BY <1>8, <2>1, <2>2, <2>3 DEF Surjection
    <3>2. IsFiniteSet(1 .. Len(v))
      BY <2>3, FS_Interval
    <3> QED
      BY <3>1, <3>2, FS_Surjection
  <2>6. ASSUME NEW a \in S, NEW b \in S, a.key = b.key PROVE a = b
    <3>1. PICK i \in 1 .. Len(v), j \in 1 .. Len(v) : v[i] = a /\ v[j] = b
      BY <2>1
    <3>2. i < j \/ j < i \/ i = j
      BY <2>3
    <3>3. a.key \in Key
      BY <2>4 DEF LogRecord
    <3>4. ~KeyLess(a.key, a.key)
      BY <3>3 DEF Key, KeyLess
    <3> QED
      BY <1>8, <2>6, <3>1, <3>2, <3>4 DEF Ordered
  <2> QED
    BY <2>4, <2>5, <2>6 DEF Keyed
<1>16. PICK t : t = Sorted(S)
  OBVIOUS
<1>17. Lists(t, S)
  BY <1>15, <1>16, SortedLists
<1>18. \A r : (\E i \in 1 .. Len(v) : v[i] = r) <=> (\E i \in 1 .. Len(t) : t[i] = r)
  BY <1>8, <1>14, <1>17 DEF Lists
<1>19. v = t
  BY <1>8, <1>17, <1>18, OrderedSame DEF Lists
<1>20. o.recs = Sorted(Wanted(s, q, UNION {mt.set : mt \in Frozen \cup {memtable}}))
  BY <1>5, <1>6, <1>12, <1>16, <1>19, Zenon
<1> QED
  BY <1>4, <1>20

\* Every record placed has a number of its own and is in no other memtable or
\* table than those of the memtable that append_batch placed it in; without a failed
\* flush the table drain_sst_queue adds takes the place of that memtable.
THEOREM RecordsHaveOneHome == Spec => []OneHome
<1>1. Queryable => OneHome
  BY DEF Queryable, Sound, OneHome
<1> QED
  BY <1>1, QueryableAlways, PTL

\* LsmTree::range gives its records in the order of their keys, whatever the
\* memtables and tables hold and wherever the binary search of a table ends, and none
\* of them twice unless a flush has failed: MergeIter takes the least of the heads, and
\* drain_sst_queue drops the memtable as it adds its table.
THEOREM RangesAscend == Spec => []RangeAscending
BY QueryableAlways, AscendingHolds, PTL

\* An answer of LsmTree::range has all records of one matching stream that the
\* memtables hold in the queried time, and lacks at most one of each table in which one
\* block is found for the stream: the one MergeIter's cursor is opened on and passes over.
THEOREM RangeLossBounded == Spec => []LossBounded
BY QueryableAlways, LossHolds, PTL

\* While there is no table, LsmTree::range succeeds and gives exactly the records of
\* one matching stream in the queried time, sorted: the bounds low and high it builds
\* leave out none, and the merge of the memtables is what sorting all of them gives.
THEOREM MemtableRangesExact == Spec => []RangeMemtables
BY QueryableAlways, MemtablesHold, PTL
=============================================================================
