-------------------------------- MODULE Conn --------------------------------
(***************************************************************************)
(* Connections of logregator-core: the accept loop and the connection      *)
(* handlers (server.rs), the client (client.rs), the codec between them    *)
(* (proto.rs) and the command channel to the engine, whose answers are     *)
(* those of Backend::handle_insert, handle_batch_insert and handle_range   *)
(* (storage/backend.rs).                                                   *)
(*                                                                         *)
(* A connection carries bytes: a request may arrive in parts, and both     *)
(* directions are bounded.  An answer waits while the path to the client   *)
(* is full; a request waits while the path to a handler that does not read *)
(* is.  A caller may drop a call it has waited for too long and use the    *)
(* client again, as the benchmark does after its 30 seconds.               *)
(***************************************************************************)
EXTENDS Proto, Integers, FiniteSets

CONSTANTS
  Conns,            \* connections, one client each
  Requests,         \* Requests[c]: messages the client of c sends
  Stored,           \* records the engine holds when it is opened
  Cancellable,      \* types of the calls a caller may drop
  MaxCalls,         \* bound on the calls of all clients
  Chunks,           \* bytes of what is under way that may arrive first
  PathFrames,       \* answers the path to a client holds
  PathBytes,        \* bytes the path to a handler holds that does not read
  ChannelCapacity,  \* channel_capacity of the runtime
  RangeBatchSize,   \* range_batch_size of the backend
  RecordChannel,    \* capacity of the record channel, 512 in the code
  FLUSH_THRESHOLD,  \* 8192 in the code
  Faults,           \* what may fail: "insert", "range", "task", "engine",
                    \* "accept"
  MaxFaults         \* bound on the failures

ASSUME ConnAssumption ==
  /\ IsFiniteSet(Conns)
  /\ MaxCalls \in Nat /\ Chunks \subseteq Nat \ {0}
  /\ PathFrames \in Nat \ {0} /\ PathBytes \in Nat \ {0} /\ ChannelCapacity \in Nat \ {0}
  /\ RangeBatchSize \in Nat \ {0} /\ RecordChannel \in Nat \ {0}
  /\ FLUSH_THRESHOLD \in Nat /\ MaxFaults \in Nat

\* The clients send messages of the protocol, and the lengths of frames and
\* texts fit the four bytes they are written to.
ASSUME MessageAssumption ==
  /\ \A c \in Conns : \A req \in Requests[c] :
       IsRequest(req) /\ client_encode(req).size < U32Bound
  /\ IsRecords(Stored)
  /\ IsText("failed") /\ IsText("engine closed") /\ JsonLen \in 1 .. (U32Bound - 1)

VARIABLES
  \* the client of a connection
  sock,       \* "none", "open", "fin" after a close, "rst" when bytes that
              \* nobody reads met a closed socket
  call,       \* the call under way: its number, 0 for none, the message and
              \* the records acknowledged to anyone before it
  got,        \* the records Client::range has collected
  issued,     \* history: messages of the calls
  cancelled,  \* numbers of the calls dropped by their caller
  result,     \* what the last call returned
  \* the bytes under way
  up,         \* frames of the client that the handler has not taken
  arrived,    \* bytes of up that have arrived
  down,       \* messages that the client has not taken, and for which request
  \* the server
  listening,  \* run_main_loop runs
  hand,       \* where the handler of a connection stands
  cur,        \* the message it works on
  handled,    \* history: messages it has decoded
  wbuf,       \* Framed's write buffer
  record_frames,
  \* the engine
  running,    \* run_engine_loop runs
  queue,      \* the command channel
  oneshot,    \* answer of the engine to the command of a connection
  task,       \* handle_range's blocking task
  rchan,      \* the record channel: batches, and whether a sender is left
  store,      \* records inserted, in order
  seq_counter,
  acked,      \* history: records whose insert returned Ok to its caller
  \* Metrics
  connections_accepted, connections_active, frames_read, frames_written,
  records_inserted, insert_failures,
  flushed,    \* history: frames the handlers have written to their sockets
  faults      \* number of failures

clientVars == <<sock, call, got, issued, cancelled, result, acked>>
netVars == <<up, arrived, down>>
handlerVars == <<hand, cur, handled, wbuf, record_frames>>
storeVars == <<store, seq_counter, records_inserted, insert_failures>>
engineVars == <<running, queue, oneshot, task, rchan, storeVars>>
connMetrics == <<connections_accepted, connections_active>>
frameMetrics == <<frames_read, frames_written, flushed>>

MayFail(f) == f \in Faults /\ faults < MaxFaults
vars == <<clientVars, netVars, listening, handlerVars, engineVars, connMetrics, frameMetrics, faults>>

Idle == [num |-> 0, req |-> Ping, seen |-> {}]
NoTask == [left |-> <<>>, ok |-> TRUE, alive |-> FALSE]
Nothing == [is |-> "pending"]
Closed == [batches |-> <<>>, open |-> FALSE]

Init ==
  /\ sock = [c \in Conns |-> "none"] /\ call = [c \in Conns |-> Idle]
  /\ got = [c \in Conns |-> <<>>] /\ issued = [c \in Conns |-> <<>>]
  /\ cancelled = [c \in Conns |-> {}]
  /\ result = [c \in Conns |-> [num |-> 0]]
  /\ up = [c \in Conns |-> <<>>] /\ arrived = [c \in Conns |-> 0]
  /\ down = [c \in Conns |-> <<>>]
  /\ listening = TRUE
  /\ hand = [c \in Conns |-> "none"] /\ cur = [c \in Conns |-> Ping]
  /\ handled = [c \in Conns |-> <<>>] /\ wbuf = [c \in Conns |-> <<>>]
  /\ record_frames = [c \in Conns |-> 0]
  /\ running = TRUE /\ queue = <<>>
  /\ oneshot = [c \in Conns |-> Nothing]
  /\ task = [c \in Conns |-> NoTask] /\ rchan = [c \in Conns |-> Closed]
  /\ store = [i \in DOMAIN Stored |-> [rec |-> Stored[i], seq |-> i, by |-> <<>>]]
  /\ seq_counter = Len(Stored) + 1 /\ acked = {}
  /\ connections_accepted = 0 /\ connections_active = 0
  /\ frames_read = 0 /\ frames_written = 0
  /\ records_inserted = 0 /\ insert_failures = 0 /\ flushed = 0 /\ faults = 0

Calls == Cardinality(UNION {{c} \X DOMAIN issued[c] : c \in Conns})

Bytes(frames) ==
  LET n[i \in 0 .. Len(frames)] == IF i = 0 THEN 0 ELSE n[i - 1] + frames[i].size
  IN  n[Len(frames)]

\* The handler has returned, or nobody will ever accept the connection.
Gone(c) == hand[c] \in {"ended", "failed", "refused"}

-----------------------------------------------------------------------------
(* The client.                                                               *)

(* Client::connect: the connection waits in the backlog of the listener.     *)
Connect(c) ==
  /\ sock[c] = "none" /\ listening
  /\ sock' = [sock EXCEPT ![c] = "open"]
  /\ hand' = [hand EXCEPT ![c] = "backlog"]
  /\ UNCHANGED <<call, got, issued, cancelled, result, acked, netVars, listening, faults, cur, handled,
                 wbuf, record_frames, engineVars, connMetrics, frameMetrics>>

\* Framed::send encodes the whole frame before it writes the first byte.
Call(c, req) ==
  /\ sock[c] = "open" /\ call[c].num = 0 /\ Calls < MaxCalls
  /\ issued' = [issued EXCEPT ![c] = Append(@, req)]
  /\ call' = [call EXCEPT ![c] = [num |-> Len(issued[c]) + 1, req |-> req, seen |-> acked]]
  /\ got' = [got EXCEPT ![c] = <<>>]
  /\ up' = [up EXCEPT ![c] = Append(@, client_encode(req))]
  /\ UNCHANGED <<sock, cancelled, result, acked, arrived, down, listening, faults, handlerVars,
                 engineVars, connMetrics, frameMetrics>>

\* The call writes on, a part of what is left or all of it.  A handler takes
\* bytes off the socket in Framed::next alone: while it waits for the engine
\* or in a flush, the client's send goes on only as far as the sockets hold.
Arrive(c) ==
  /\ call[c].num > 0 /\ ~Gone(c)
  /\ \E n \in Chunks \union {PathBytes, Bytes(up[c])} :
       /\ arrived[c] < n /\ n <= Bytes(up[c])
       /\ hand[c] = "reading" \/ n <= PathBytes
       /\ arrived' = [arrived EXCEPT ![c] = n]
  /\ UNCHANGED <<clientVars, up, down, listening, faults, handlerVars, engineVars, connMetrics,
                 frameMetrics>>

Inserts == {"Insert", "BatchInsert"}

\* The answer each method takes for its own.
Expected(req) ==
  CASE req.type \in Inserts -> "InsertOk"
    [] req.type = "Range" -> "RangeEnd"
    [] req.type = "Metrics" -> "Metrics"
    [] req.type = "Ping" -> "Pong"

\* Mutant of Ends: range returns after its first record.
EndsFirst(req, msg) == TRUE

\* range goes on after a record; every other message ends a call.
Ends(req, msg) == ~(req.type = "Range" /\ msg.type = "RangeRecord")

Return(c, msg, of) ==
  /\ result' = [result EXCEPT ![c] = [num |-> call[c].num, req |-> call[c].req,
                                      seen |-> call[c].seen, got |-> got[c], of |-> of,
                                      msg |-> msg,
                                      ok |-> msg.type = Expected(call[c].req)]]
  /\ call' = [call EXCEPT ![c] = Idle]

\* History: the records of the request that an InsertOk answers.
NowAcked(c, msg, of) ==
  IF msg.type # "InsertOk" THEN acked
  ELSE acked \union {store[i].seq : i \in {j \in DOMAIN store : store[j].by = <<c, of>>}}

(* insert, batch_insert, get_metrics, ping and range, once the request has   *)
(* been sent: the next answer.                                               *)
Receive(c) ==
  /\ call[c].num > 0
  /\ arrived[c] = Bytes(up[c])
  /\ down[c] # <<>>
  /\ down' = [down EXCEPT ![c] = Tail(@)]
  /\ LET msg == Head(down[c]).msg IN
       IF Ends(call[c].req, msg)
       THEN /\ Return(c, msg, Head(down[c]).of)
            /\ acked' = NowAcked(c, msg, Head(down[c]).of)
            /\ got' = [got EXCEPT ![c] = <<>>]
       ELSE /\ got' = [got EXCEPT ![c] = Append(@, msg.record)]
            /\ UNCHANGED <<result, call, acked>>
  /\ UNCHANGED <<sock, issued, cancelled, up, arrived, listening, faults, handlerVars, engineVars,
                 connMetrics, frameMetrics>>

\* The server has closed: sending fails, or reading does, and answers that
\* were not read may be lost with a reset.
ReceiveClosed(c) ==
  /\ call[c].num > 0 /\ Gone(c)
  /\ Return(c, [type |-> "closed"], 0)
  /\ got' = [got EXCEPT ![c] = <<>>]
  /\ UNCHANGED <<sock, issued, cancelled, acked, netVars, listening, faults, handlerVars, engineVars,
                 connMetrics, frameMetrics>>

(* A timeout around a call: what is written stays under way.                 *)
Cancel(c) ==
  /\ call[c].num > 0 /\ call[c].req.type \in Cancellable
  /\ call' = [call EXCEPT ![c] = Idle]
  /\ cancelled' = [cancelled EXCEPT ![c] = @ \union {call[c].num}]
  /\ UNCHANGED <<sock, got, issued, result, acked, netVars, listening, faults, handlerVars, engineVars,
                 connMetrics, frameMetrics>>

(* The Client is dropped; unread answers turn the close into a reset.        *)
Close(c) ==
  /\ sock[c] = "open" /\ call[c].num = 0
  /\ sock' = [sock EXCEPT ![c] = IF down[c] = <<>> THEN "fin" ELSE "rst"]
  /\ down' = [down EXCEPT ![c] = <<>>]
  /\ UNCHANGED <<call, got, issued, cancelled, result, acked, up, arrived, listening,
                 faults, handlerVars, engineVars, connMetrics, frameMetrics>>

-----------------------------------------------------------------------------
(* run_main_loop                                                             *)
Accept(c) ==
  /\ listening /\ hand[c] = "backlog"
  /\ hand' = [hand EXCEPT ![c] = "spawned"]
  /\ connections_accepted' = connections_accepted + 1
  /\ connections_active' = connections_active + 1
  /\ UNCHANGED <<clientVars, netVars, listening, faults, cur, handled, wbuf, record_frames, engineVars,
                 frameMetrics>>

\* The loop ends with the first error of accept, and the listener with it.
AcceptFails ==
  /\ MayFail("accept") /\ listening
  /\ faults' = faults + 1
  /\ listening' = FALSE
  /\ hand' = [c \in Conns |-> IF hand[c] = "backlog" THEN "refused" ELSE hand[c]]
  /\ UNCHANGED <<clientVars, netVars, cur, handled, wbuf, record_frames, engineVars, connMetrics,
                 frameMetrics>>

-----------------------------------------------------------------------------
(* handle_conn                                                               *)

StartHandler(c) ==
  /\ hand[c] = "spawned"
  /\ hand' = [hand EXCEPT ![c] = "reading"]
  /\ connections_active' = connections_active + 1
  /\ UNCHANGED <<clientVars, netVars, listening, faults, cur, handled, wbuf, record_frames, engineVars,
                 connections_accepted, frameMetrics>>

\* Every `?`: the handler's locals are dropped, the record channel's receiver
\* among them; connections_active stays.
Fail(c) ==
  /\ hand' = [hand EXCEPT ![c] = "failed"]
  /\ wbuf' = [wbuf EXCEPT ![c] = <<>>]
  /\ UNCHANGED <<cur, connMetrics, record_frames>>

\* Framed::next with a whole frame in the buffer.
ReadFrame(c) ==
  /\ hand[c] = "reading" /\ up[c] # <<>>
  /\ Complete(Head(up[c]), arrived[c])
  /\ up' = [up EXCEPT ![c] = Tail(@)]
  /\ arrived' = [arrived EXCEPT ![c] = @ - Head(up[c]).size]
  /\ frames_read' = frames_read + 1
  /\ \E msg \in {server_decode(Head(up[c]))} :
       /\ handled' = [handled EXCEPT ![c] = Append(@, msg)]
       /\ cur' = [cur EXCEPT ![c] = msg]
       /\ hand' = [hand EXCEPT ![c] = CASE msg.type = "Malformed" -> "failed"
                                        [] msg.type = "Ping" -> "answer"
                                        [] OTHER -> "command"]
  /\ UNCHANGED <<clientVars, down, listening, faults, wbuf, record_frames, engineVars, connMetrics,
                 frames_written, flushed>>

\* Framed::next after the client has closed: what arrived of a frame, or a
\* reset, is an error.
ReadEnd(c) ==
  /\ hand[c] = "reading" /\ sock[c] \in {"fin", "rst"}
  /\ up[c] = <<>> \/ sock[c] = "rst" \/ ~Complete(Head(up[c]), arrived[c])
  /\ IF sock[c] = "rst" \/ arrived[c] > 0
     THEN Fail(c) /\ frames_read' = frames_read + 1
     ELSE /\ hand' = [hand EXCEPT ![c] = "ended"]
          /\ connections_active' = connections_active - 1
          /\ UNCHANGED <<cur, wbuf, record_frames, connections_accepted, frames_read>>
  /\ UNCHANGED <<clientVars, netVars, listening, faults, handled, engineVars, frames_written, flushed>>

\* cmd_tx.send: the channel is bounded, and closed once the engine is gone.
SendCommand(c) ==
  /\ hand[c] = "command"
  /\ IF ~running
     THEN Fail(c) /\ UNCHANGED <<queue, oneshot, rchan>>
     ELSE /\ Len(queue) < ChannelCapacity
          /\ queue' = Append(queue, c)
          /\ oneshot' = [oneshot EXCEPT ![c] = Nothing]
          /\ rchan' = [rchan EXCEPT ![c] = [batches |-> <<>>, open |-> cur[c].type = "Range"]]
          /\ hand' = [hand EXCEPT ![c] = IF cur[c].type = "Range" THEN "records" ELSE "answer"]
          /\ record_frames' = [record_frames EXCEPT ![c] = 0]
          /\ UNCHANGED <<cur, wbuf, connMetrics>>
  /\ UNCHANGED <<clientVars, netVars, listening, faults, handled, running, task, storeVars, frameMetrics>>

\* What the handler writes, with the request it answers.
Out(c, msg) == [msg |-> msg, of |-> Len(handled[c])]

\* The bytes of an answer: records are laid out by the handler, everything else
\* goes through the codec.
WireFrame(msg) ==
  IF msg.type = "RangeRecord" THEN write_record_frame(msg.record) ELSE server_encode(msg)

\* The write buffer holds nothing but frames of records during a query.
WBytes(frames) == Bytes([i \in DOMAIN frames |-> [size |-> record_frame_len(frames[i].msg.record)]])

\* record_recv.recv, write_record_frame and the flush above the threshold
RecvRecords(c) ==
  /\ hand[c] = "records" /\ rchan[c].batches # <<>>
  /\ rchan' = [rchan EXCEPT ![c].batches = Tail(@)]
  /\ record_frames' = [record_frames EXCEPT ![c] = @ + Len(Head(rchan[c].batches))]
  /\ \E b \in {wbuf[c] \o [i \in DOMAIN Head(rchan[c].batches) |->
                             Out(c, RangeRecord(Head(rchan[c].batches)[i]))]} :
       /\ wbuf' = [wbuf EXCEPT ![c] = b]
       /\ hand' = [hand EXCEPT ![c] =
                     IF WBytes(b) > FLUSH_THRESHOLD THEN "flush" ELSE "records"]
  /\ UNCHANGED <<clientVars, netVars, listening, faults, cur, handled, running, queue, oneshot, task,
                 storeVars, connMetrics, frameMetrics>>

\* record_recv.recv answers None: the final flush.
RecordsEnd(c) ==
  /\ hand[c] = "records" /\ rchan[c] = Closed
  /\ hand' = [hand EXCEPT ![c] = "final flush"]
  /\ UNCHANGED <<clientVars, netVars, listening, faults, cur, handled, wbuf, record_frames, engineVars,
                 connMetrics, frameMetrics>>

\* Mutant of counted: the records of a query are not counted.
countedNone(c) == 0

\* What frames_written is increased by once the final flush is done.
counted(c) == record_frames[c]

After(pc) == CASE pc = "flush" -> "records"
               [] pc = "final flush" -> "answer"
               [] pc = "reply" -> "reading"

\* flush: bytes leave as the path takes them.  A closed client takes any, and
\* answers with a reset, or the write fails.
Flush(c) ==
  /\ hand[c] \in {"flush", "final flush", "reply"}
  /\ \/ /\ sock[c] # "open" /\ Fail(c)
        /\ UNCHANGED <<sock, down, frames_written, flushed>>
     \/ \E n \in {IF sock[c] # "open" \/ Len(wbuf[c]) < PathFrames - Len(down[c])
                  THEN Len(wbuf[c]) ELSE PathFrames - Len(down[c])} :
          /\ n > 0 \/ wbuf[c] = <<>>
          /\ wbuf' = [wbuf EXCEPT ![c] = SubSeq(@, n + 1, Len(@))]
          /\ flushed' = flushed + n
          /\ IF sock[c] = "open"
             THEN down' = [down EXCEPT ![c] = @ \o SubSeq(wbuf[c], 1, n)] /\ UNCHANGED sock
             ELSE sock' = [sock EXCEPT ![c] = IF n > 0 THEN "rst" ELSE @] /\ UNCHANGED down
          /\ IF n = Len(wbuf[c])
             THEN /\ hand' = [hand EXCEPT ![c] = After(@)]
                  /\ frames_written' = IF hand[c] = "final flush"
                                       THEN frames_written + counted(c) ELSE frames_written
             ELSE UNCHANGED <<hand, frames_written>>
          /\ UNCHANGED <<cur, record_frames, connMetrics>>
  /\ UNCHANGED <<call, got, issued, cancelled, result, acked, up, arrived, listening, faults, handled,
                 engineVars, frames_read>>

\* Mutant of reply_to: an engine that closed ends a query as if it were complete.
reply_toEnds(req, answer) ==
  CASE req.type = "Ping" -> Pong
    [] req.type = "Metrics" -> MetricsJson(answer.json)
    [] req.type = "Range" /\ answer.is \in {"ok", "dropped"} -> RangeEnd
    [] req.type \in Inserts /\ answer.is = "ok" -> InsertOk
    [] OTHER -> ErrorText("failed")

\* Mutant of reply_to: an error of the engine is acknowledged.
reply_toOk(req, answer) ==
  CASE req.type = "Ping" -> Pong
    [] req.type = "Metrics" -> MetricsJson(answer.json)
    [] req.type = "Range" /\ answer.is = "ok" -> RangeEnd
    [] req.type \in Inserts -> InsertOk
    [] req.type = "Range" /\ answer.is = "dropped" -> ErrorText("engine closed")
    [] OTHER -> ErrorText("failed")

reply_to(req, answer) ==
  CASE req.type = "Ping" -> Pong
    [] req.type = "Metrics" -> MetricsJson(answer.json)
    [] req.type = "Range" /\ answer.is = "ok" -> RangeEnd
    [] req.type = "Range" /\ answer.is = "dropped" -> ErrorText("engine closed")
    [] req.type \in Inserts /\ answer.is = "ok" -> InsertOk
    [] OTHER -> ErrorText("failed")

\* The answer of the engine arrives, frames_written is increased, and send
\* encodes the reply.  A command the engine dropped ends the handler, unless
\* it is a query.
Answer(c) ==
  /\ hand[c] = "answer"
  /\ cur[c].type # "Ping" => oneshot[c].is # "pending"
  /\ IF oneshot[c].is = "dropped" /\ cur[c].type \notin {"Ping", "Range"}
     THEN Fail(c) /\ UNCHANGED frames_written
     ELSE /\ frames_written' = frames_written + 1
          /\ wbuf' = [wbuf EXCEPT ![c] = Append(@, Out(c, reply_to(cur[c], oneshot[c])))]
          /\ hand' = [hand EXCEPT ![c] = "reply"]
          /\ UNCHANGED <<cur, record_frames, connMetrics>>
  /\ UNCHANGED <<clientVars, netVars, listening, faults, handled, engineVars, frames_read, flushed>>

-----------------------------------------------------------------------------
(* The engine, as the connections see it.                                    *)

InsertCount(msg) == Len(msg.records)

\* Mutant of records_counted: a batch counts once.
records_countedOnce(msg) == 1

\* What records_inserted is increased by.
records_counted(msg) == InsertCount(msg)

\* handle_insert and handle_batch_insert.  A batch that fails has used its
\* sequence numbers.
EngineInsert(c, msg) ==
  \/ /\ store' = store \o [i \in 1 .. InsertCount(msg) |->
                             [rec |-> msg.records[i], seq |-> seq_counter + i - 1,
                              by |-> <<c, Len(handled[c])>>]]
     /\ seq_counter' = seq_counter + InsertCount(msg)
     /\ records_inserted' = records_inserted + records_counted(msg)
     /\ oneshot' = [oneshot EXCEPT ![c] = [is |-> "ok"]]
     /\ UNCHANGED <<insert_failures, task, rchan, faults>>
  \/ /\ MayFail("insert")
     /\ faults' = faults + 1
     /\ oneshot' = [oneshot EXCEPT ![c] = [is |-> "err"]]
     /\ seq_counter' = IF msg.type = "Insert" THEN seq_counter
                       ELSE seq_counter + InsertCount(msg)
     /\ insert_failures' = insert_failures + InsertCount(msg)
     /\ UNCHANGED <<store, records_inserted, task, rchan>>

\* The records of a query.
Matches(msg, e) ==
  /\ e.rec.source_id = msg.source_id /\ e.rec.key = msg.key
  /\ msg.start_ts <= e.rec.ts /\ e.rec.ts < msg.end_ts
  /\ msg.filter \in {"", e.rec.value}

ProtoRecord(e) ==
  [source_id |-> e.rec.source_id, ts |-> e.rec.ts, seq |-> e.seq, key |-> e.rec.key,
   value |-> e.rec.value]

Selected(msg, entries) ==
  LET recs[i \in 0 .. Len(entries)] ==
        IF i = 0 THEN <<>>
        ELSE IF Matches(msg, entries[i]) THEN Append(recs[i - 1], ProtoRecord(entries[i]))
        ELSE recs[i - 1]
  IN  recs[Len(entries)]


\* handle_range returns, and its sender of the record channel goes with it.
refuse(r) == [r EXCEPT !.open = FALSE]

\* handle_range: bounds that are refused, or the task over what is stored now.
\* The order of the records, and SSTables that are left out without an error,
\* are in RangeQuery.
EngineRange(c, msg) ==
  /\ IF msg.start_ts > msg.end_ts \/ msg.start_ts < 0
     THEN /\ oneshot' = [oneshot EXCEPT ![c] = [is |-> "err"]]
          /\ rchan' = [rchan EXCEPT ![c] = refuse(@)]
          /\ UNCHANGED <<task, faults>>
     ELSE /\ \E recs \in {Selected(msg, store)} : \E n \in 0 .. Len(recs) :
               /\ n = Len(recs) \/ MayFail("range")
               /\ faults' = IF n = Len(recs) THEN faults ELSE faults + 1
               /\ task' = [task EXCEPT ![c] = [left |-> SubSeq(recs, 1, n),
                                               ok |-> n = Len(recs), alive |-> TRUE]]
          /\ UNCHANGED <<oneshot, rchan>>
  /\ UNCHANGED storeVars

\* Command::Metrics: a snapshot of the counters.
EngineMetrics(c) ==
  /\ oneshot' = [oneshot EXCEPT ![c] =
                   [is |-> "ok", json |-> [records_inserted |-> records_inserted]]]
  /\ UNCHANGED <<task, rchan, storeVars, faults>>

Engine ==
  /\ running /\ queue # <<>>
  /\ queue' = Tail(queue)
  /\ LET c == Head(queue)
     IN  \/ cur[c].type \in Inserts /\ EngineInsert(c, cur[c])
         \/ cur[c].type = "Range" /\ EngineRange(c, cur[c])
         \/ cur[c].type = "Metrics" /\ EngineMetrics(c)
  /\ UNCHANGED <<clientVars, netVars, listening, handlerVars, running, connMetrics, frameMetrics>>

\* The engine's task is gone: the commands in its channel are dropped.
EngineStops ==
  /\ MayFail("engine") /\ running
  /\ faults' = faults + 1
  /\ running' = FALSE
  /\ queue' = <<>>
  /\ \E dropped \in {{queue[i] : i \in DOMAIN queue}} :
       /\ oneshot' = [c \in Conns |-> IF c \in dropped THEN [is |-> "dropped"] ELSE oneshot[c]]
       /\ rchan' = [c \in Conns |-> IF c \in dropped THEN Closed ELSE rchan[c]]
  /\ UNCHANGED <<clientVars, netVars, listening, handlerVars, task, storeVars, connMetrics,
                 frameMetrics>>

\* The blocking task sends a batch; without a receiver it ends.
TaskSends(c) ==
  /\ task[c].alive /\ task[c].left # <<>>
  /\ \/ /\ ~Gone(c) /\ Len(rchan[c].batches) < RecordChannel
        /\ \E n \in {IF Len(task[c].left) < RangeBatchSize THEN Len(task[c].left)
                     ELSE RangeBatchSize} :
             /\ rchan' = [rchan EXCEPT ![c].batches = Append(@, SubSeq(task[c].left, 1, n))]
             /\ task' = [task EXCEPT ![c].left = SubSeq(@, n + 1, Len(@))]
     \/ /\ Gone(c)
        /\ task' = [task EXCEPT ![c].left = <<>>]
        /\ UNCHANGED rchan
  /\ UNCHANGED <<clientVars, netVars, listening, faults, handlerVars, running, queue, oneshot, storeVars,
                 connMetrics, frameMetrics>>

\* end_sender.send, and the record channel's sender is dropped.  A task that
\* panics drops both.
TaskEnds(c) ==
  /\ task[c].alive
  /\ \/ /\ task[c].left = <<>>
        /\ oneshot' = [oneshot EXCEPT ![c] = [is |-> IF task[c].ok THEN "ok" ELSE "err"]]
        /\ UNCHANGED faults
     \/ /\ MayFail("task")
        /\ faults' = faults + 1
        /\ oneshot' = [oneshot EXCEPT ![c] = [is |-> "dropped"]]
  /\ task' = [task EXCEPT ![c] = NoTask]
  /\ rchan' = [rchan EXCEPT ![c].open = FALSE]
  /\ UNCHANGED <<clientVars, netVars, listening, handlerVars, running, queue, storeVars,
                 connMetrics, frameMetrics>>

-----------------------------------------------------------------------------
Handler(c) ==
  \/ StartHandler(c) \/ ReadFrame(c) \/ ReadEnd(c) \/ SendCommand(c) \/ RecvRecords(c)
  \/ RecordsEnd(c) \/ Flush(c) \/ Answer(c)

Client(c) == Arrive(c) \/ Receive(c) \/ ReceiveClosed(c)

Next ==
  \/ \E c \in Conns :
       \/ Connect(c) \/ (\E req \in Requests[c] : Call(c, req)) \/ Client(c) \/ Cancel(c) \/ Close(c)
       \/ Accept(c) \/ Handler(c) \/ TaskSends(c) \/ TaskEnds(c)
  \/ AcceptFails \/ Engine \/ EngineStops

Spec == Init /\ [][Next]_vars

\* Every task of the runtime is polled, the engine and a started range task
\* go on, and a caller that waits keeps polling its call.
FairSpec ==
  /\ Spec
  /\ WF_vars(Engine)
  /\ \A c \in Conns : /\ WF_vars(Accept(c)) /\ WF_vars(Handler(c)) /\ WF_vars(Client(c))
                      /\ WF_vars(TaskSends(c)) /\ WF_vars(TaskEnds(c))
=============================================================================
