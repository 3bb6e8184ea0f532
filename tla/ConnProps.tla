----------------------------- MODULE ConnProps ------------------------------
(***************************************************************************)
(* What the connections of logregator-core promise.                        *)
(***************************************************************************)
EXTENDS Conn

\* The last call of c has returned what the server answered.
Answered(c) == result[c].num > 0 /\ result[c].msg.type # "closed"

\* The calls before call k that their caller has dropped.
DroppedBefore(c, k) == {m \in cancelled[c] : m < k}

\* No query among the first k calls was itself dropped or made after one that
\* was: such a query leaves its records in the way of the calls after it.
Orderly(c, k, dropped) ==
  \A n \in 1 .. k : issued[c][n].type = "Range" => \A m \in dropped : n < m

(* Each call returns the answer to its own request (client.rs), and never    *)
(* one to a later request.  Where callers have dropped calls the answers     *)
(* lag by exactly one request for each of them: the client never catches up. *)
(* A query that is dropped, or made after that, adds its records to the lag. *)
AnswersMatch ==
  \A c \in Conns :
    Answered(c) =>
      /\ result[c].of <= result[c].num
      /\ Orderly(c, result[c].num, DroppedBefore(c, result[c].num)) =>
           result[c].of = result[c].num - Cardinality(DroppedBefore(c, result[c].num))

(* A handler decodes the messages that its client encoded, all of them and   *)
(* in their order, however the bytes of a frame are cut, and also when a     *)
(* caller drops a call in the middle of a frame (ServerCodec::decode).       *)
RequestsArrive == \A c \in Conns : IsPrefix(handled[c], issued[c])

AllRequests == UNION {Requests[c] : c \in Conns}

(* What RequestsArrive needs to be inductive: what a handler has not decoded *)
(* yet are the frames of the messages that follow, each of them whole.       *)
RequestsInFlight ==
  /\ issued \in [Conns -> Seq(AllRequests)] /\ handled \in [Conns -> Seq(AllRequests)]
  /\ up \in [Conns -> Seq({client_encode(req) : req \in AllRequests})]
  /\ \A c \in Conns :
       /\ Len(handled[c]) + Len(up[c]) = Len(issued[c])
       /\ \A i \in 1 .. Len(handled[c]) : handled[c][i] = issued[c][i]
       /\ \A i \in 1 .. Len(up[c]) : up[c][i] = client_encode(issued[c][Len(handled[c]) + i])

(* What a handler writes is what the client decodes, record frames that      *)
(* write_record_frame puts together by hand too: they are those of           *)
(* ServerCodec::encode, of the length that the flush threshold is compared   *)
(* with.                                                                     *)
AnswersDecode ==
  \A c \in Conns : \A i \in DOMAIN down[c] :
    LET msg == down[c][i].msg
    IN  /\ client_decode(WireFrame(msg)) = msg
        /\ msg.type = "RangeRecord" => /\ WireFrame(msg) = server_encode(msg)
                                       /\ WireFrame(msg).size = record_frame_len(msg.record)

\* Every record that is stored or sent, and what is made of it.
Writes == {req \in AllRequests : req.type \in {"Insert", "BatchInsert"}}
Records == {Stored[i] : i \in DOMAIN Stored}
           \union UNION {{req.records[i] : i \in DOMAIN req.records} : req \in Writes}
Entries == [rec : Records, seq : Nat, by : {<<>>} \union (Conns \X Nat)]
ProtoRecords == {ProtoRecord([rec |-> r, seq |-> n]) : r \in Records, n \in Nat}
Answers == {[is |-> x] : x \in {"pending", "ok", "err", "dropped"}}
           \union [is : {"ok"}, json : [records_inserted : Nat]]
Replies == {RangeRecord(r) : r \in ProtoRecords} \union {MetricsJson(a.json) : a \in Answers}
           \union {InsertOk, RangeEnd, Pong, ErrorText("failed"), ErrorText("engine closed")}
Written == [msg : Replies, of : Nat]

(* What AnswersDecode needs to be inductive: where the answers of a handler  *)
(* come from, and that the path to a client never holds too many.            *)
AnswersTyped ==
  /\ cur \in [Conns -> AllRequests \union {Ping}] /\ queue \in Seq(Conns)
  /\ oneshot \in [Conns -> Answers]
  /\ store \in Seq(Entries) /\ seq_counter \in Nat /\ records_inserted \in Nat
  /\ task \in [Conns -> [left : Seq(ProtoRecords), ok : BOOLEAN, alive : BOOLEAN]]
  /\ rchan \in [Conns -> [batches : Seq(Seq(ProtoRecords)), open : BOOLEAN]]
  /\ wbuf \in [Conns -> Seq(Written)] /\ down \in [Conns -> Seq(Written)]
  /\ \A c \in Conns : Len(down[c]) <= PathFrames

\* The entries of a request are its records in their order, in one piece.
InOnePiece(entries, by, records) ==
  \E n \in 0 .. Len(entries) :
    /\ {i \in DOMAIN entries : entries[i].by = by} = (n + 1) .. (n + Len(records))
    /\ \A i \in 1 .. Len(records) : entries[n + i].rec = records[i]

\* The store holds the records of request k of c.
AppliedTo(c, k) ==
  /\ k \in DOMAIN issued[c] /\ issued[c][k].type \in Inserts
  /\ InOnePiece(store, <<c, k>>, issued[c][k].records)

(* Insert and BatchInsert in handle_conn: InsertOk is only sent for a        *)
(* request whose records the engine has stored, each of them once and those  *)
(* of a batch in one piece.  A caller that dropped a call before takes it    *)
(* for the answer to the next.                                               *)
AckedApplied ==
  \A c \in Conns :
    Answered(c) /\ result[c].msg.type = "InsertOk" => AppliedTo(c, result[c].of)

Queued == ToSet(queue)
QueuedOnce == \A i, j \in DOMAIN queue : i < j => queue[i] # queue[j]

\* A command in the channel: its handler waits for the answer, and nobody
\* works on it yet.
Waits(c) ==
  /\ oneshot[c] = Nothing /\ ~task[c].alive /\ cur[c].type # "Ping"
  /\ IF cur[c].type = "Range"
     THEN hand[c] = "records" /\ rchan[c].batches = <<>> /\ rchan[c].open
     ELSE hand[c] = "answer"

InQuery == {"records", "flush", "final flush"}
Working == InQuery \union {"command", "answer", "reply"}

\* A handler works on the message it decoded last, and the task of a query is
\* there for the handler that takes its records.
InStep(c) ==
  /\ task[c].alive => hand[c] \in {"records", "flush", "failed"} /\ rchan[c].open
  /\ hand[c] \in InQuery => cur[c].type = "Range"
  /\ hand[c] = "command" => cur[c].type # "Ping"
  /\ hand[c] \in Working => handled[c] # <<>> /\ cur[c] = handled[c][Len(handled[c])]

CommandsInFlight ==
  /\ QueuedOnce
  /\ \A c \in Queued : Waits(c)
  /\ \A c \in Conns : InStep(c)

\* An answer that says InsertOk answers a request that is applied.
Truthful(c, w) == w.msg.type = "InsertOk" => AppliedTo(c, w.of)

\* The handler is about to write such an answer.
Told(c) == hand[c] = "answer" /\ oneshot[c].is = "ok" /\ cur[c].type \in Inserts

\* The records of a request are not stored before its command is taken.
StoredWhenTaken ==
  \A i \in DOMAIN store : store[i].by # <<>> =>
    LET c == store[i].by[1]
        k == store[i].by[2]
    IN  k <= Len(handled[c]) /\ (k = Len(handled[c]) => hand[c] # "command" /\ c \notin Queued)

(* What AckedApplied needs to be inductive, with CommandsInFlight: the       *)
(* records of a request are stored when its command is taken and not before, *)
(* and an answer that says so, wherever it is on its way, comes after that.  *)
InsertsInFlight ==
  /\ StoredWhenTaken
  /\ \A c \in Conns :
       /\ Told(c) => AppliedTo(c, Len(handled[c]))
       /\ \A w \in ToSet(wbuf[c]) \union ToSet(down[c]) : Truthful(c, w)
  /\ DOMAIN result = Conns /\ AckedApplied

\* The calls of a client are its requests in their order, one at a time.
Numbered(c) ==
  /\ call[c].num \in {0, Len(issued[c])}
  /\ call[c].num > 0 => /\ sock[c] = "open" /\ call[c].req = issued[c][call[c].num]
                        /\ call[c].num \notin cancelled[c] /\ result[c].num < call[c].num
  /\ cancelled[c] \subseteq 1 .. Len(issued[c])
  /\ result[c].num \in 0 .. Len(issued[c])

CallsNumbered ==
  /\ DOMAIN call = Conns /\ cancelled \in [Conns -> SUBSET Nat]
  /\ \A c \in Conns : Numbered(c)

\* The last call of c has found the connection closed.
FoundClosed(c) == result[c].num > 0 /\ result[c].msg.type = "closed"

\* A call that finds the connection closed is the last that returns anything
\* else: the frame of a later one never arrives as a whole.
Arrives(c) ==
  /\ arrived[c] <= Bytes(up[c])
  /\ FoundClosed(c) => Gone(c) /\ (call[c].num > 0 => arrived[c] < Bytes(up[c]))

BytesArrive == arrived \in [Conns -> Nat] /\ \A c \in Conns : Arrives(c)

\* The request whose answer the client reads next.
Due(c) == Len(issued[c]) + (IF call[c].num = 0 THEN 1 ELSE 0) - Cardinality(cancelled[c])

\* Answers in the order of their requests from due on, each complete before
\* the next one begins, and the request that is to be answered after them.
Following(w) == IF w.msg.type = "RangeRecord" THEN w.of ELSE w.of + 1
Lined(q, due) ==
  /\ q # <<>> => q[1].of = due
  /\ \A i \in 1 .. (Len(q) - 1) : q[i + 1].of = Following(q[i])
EndOf(q, due) == IF q = <<>> THEN due ELSE Following(q[Len(q)])

\* What a client has not read, and the request its handler answers next.
Unread(c) == down[c] \o wbuf[c]
Ahead(c) == IF hand[c] \in Working \ {"reply"} THEN Len(handled[c]) ELSE Len(handled[c]) + 1

InLine(c) ==
  /\ Lined(Unread(c), Due(c))
  /\ ~Gone(c) => EndOf(Unread(c), Due(c)) = Ahead(c)

\* The client may still read answers, and its queries are not in the way.
Reading(c) ==
  /\ sock[c] \in {"none", "open"} /\ ~FoundClosed(c)
  /\ Orderly(c, Len(issued[c]), cancelled[c])

\* An answer is to a request that was decoded, and a record to a query.
ToRequest(c, w) ==
  w.of \in DOMAIN handled[c] /\ (w.msg.type = "RangeRecord" => handled[c][w.of].type = "Range")

(* What AnswersMatch needs to be inductive, with CallsNumbered and           *)
(* BytesArrive: what is on its way to a client answers its requests in their *)
(* order, from the one that is due up to the one the handler works on.       *)
AnswersInLine ==
  /\ \A c \in Conns : \A w \in ToSet(wbuf[c]) \union ToSet(down[c]) : ToRequest(c, w)
  /\ \A c \in Conns : Reading(c) => InLine(c)
  /\ AnswersMatch

(* Range in handle_conn and Client::range: what range returns is what the    *)
(* engine held at one moment, complete, and every matching record whose      *)
(* insert had returned to any client before the call is in it.               *)
RangeAnswers ==
  \A c \in Conns :
    Answered(c) /\ result[c].ok /\ result[c].req.type = "Range" /\ cancelled[c] = {} =>
      /\ \E n \in 0 .. Len(store) : result[c].got = Selected(result[c].req, SubSeq(store, 1, n))
      /\ \A e \in {store[i] : i \in DOMAIN store} :
           e.seq \in result[c].seen /\ Matches(result[c].req, e) =>
             ProtoRecord(e) \in {result[c].got[i] : i \in DOMAIN result[c].got}

(* Command::Metrics is answered after the commands before it: the snapshot   *)
(* counts every record that was acknowledged before the call (backend.rs).   *)
MetricsFresh ==
  \A c \in Conns :
    Answered(c) /\ result[c].ok /\ result[c].req.type = "Metrics" /\ cancelled[c] = {} =>
      result[c].msg.json.records_inserted >= Cardinality(result[c].seen)

\* Entries are numbered in their order, the counter of inserts is their number,
\* and what a call has seen acknowledged is among those inserted.
StoreNumbered ==
  /\ Len(store) = Len(Stored) + records_inserted
  /\ \A i \in DOMAIN store :
       store[i].seq < seq_counter /\ (store[i].by # <<>> => i > Len(Stored))
  /\ \A i, j \in DOMAIN store : i < j => store[i].seq < store[j].seq
  /\ acked \subseteq {store[i].seq : i \in (Len(Stored) + 1) .. Len(store)}
  /\ \A c \in Conns : call[c].seen \subseteq acked

\* A snapshot that answers the call under way counts what the call has seen.
CountsSeen(c, json) == json.records_inserted >= Cardinality(call[c].seen)

\* The handler is about to write such a snapshot.
SnapshotTaken(c) ==
  hand[c] = "answer" /\ cur[c].type = "Metrics" /\ oneshot[c].is \notin {"pending", "dropped"}

(* What MetricsFresh needs to be inductive, with AnswersInLine: a snapshot,  *)
(* wherever it is on its way, was taken after what its call has seen.        *)
SnapshotsInFlight ==
  /\ StoreNumbered
  /\ \A c \in Conns : call[c].num > 0 =>
       /\ SnapshotTaken(c) /\ Len(handled[c]) = call[c].num => CountsSeen(c, oneshot[c].json)
       /\ \A w \in ToSet(wbuf[c]) \union ToSet(down[c]) :
            w.msg.type = "Metrics" /\ w.of = call[c].num => CountsSeen(c, w.msg.json)
  /\ MetricsFresh

\* The request of the call under way has not reached the engine.
Untaken(c) == Len(handled[c]) < call[c].num \/ hand[c] = "command" \/ c \in Queued

\* What the client has of a query, and what is on its way to it: the records
\* of sel in their order, and the end after the last.
Delivers(had, unread, sel) ==
  /\ Len(had) <= Len(sel) /\ \A i \in 1 .. Len(had) : had[i] = sel[i]
  /\ \A i \in 1 .. Len(unread) :
       /\ unread[i].msg.type = "RangeRecord" => /\ Len(had) + i <= Len(sel)
                                               /\ unread[i].msg = RangeRecord(sel[Len(had) + i])
       /\ unread[i].msg.type = "RangeEnd" => Len(had) + i - 1 = Len(sel)

Delivered(c, sel) == Delivers(got[c], Unread(c), sel)

\* The batches are the records of sel between two places.
Laid(bs, sel, from, to) ==
  \E at \in [0 .. Len(bs) -> 0 .. Len(sel)] :
    /\ at[0] = from /\ at[Len(bs)] = to
    /\ \A j \in 1 .. Len(bs) :
         /\ at[j] = at[j - 1] + Len(bs[j])
         /\ \A i \in 1 .. Len(bs[j]) : bs[j][i] = sel[at[j - 1] + i]

\* What a task has not sent are the records of sel after the first to.
ToSend(t, sel, to) ==
  t.alive => \E end \in to .. Len(sel) : /\ t.left = SubSeq(sel, to + 1, end)
                                         /\ t.ok => end = Len(sel)

\* What the handler at pc has not written of sel is in the record channel, and
\* after that with the task; an answer that says the query is complete comes
\* after all of it.
Flows(pc, bs, t, answer, from, sel) ==
  \E to \in 0 .. Len(sel) :
    /\ Laid(bs, sel, from, to) /\ ToSend(t, sel, to)
    /\ pc \in {"final flush", "answer"} => bs = <<>>
    /\ answer.is = "ok" => ~t.alive /\ to = Len(sel)

Flowing(c, sel) ==
  Len(handled[c]) = call[c].num /\ hand[c] \in InQuery \union {"answer"} =>
    Flows(hand[c], rchan[c].batches, task[c], oneshot[c], Len(got[c]) + Len(Unread(c)), sel)

\* The call under way is a query that can still be answered.
Querying(c) == Reading(c) /\ cancelled[c] = {} /\ call[c].num > 0 /\ call[c].req.type = "Range"

QueryInFlight(c) ==
  /\ Untaken(c) => got[c] = <<>> /\ Unread(c) = <<>>
  /\ \E n \in 0 .. Len(store) :
       /\ call[c].seen \subseteq {store[j].seq : j \in 1 .. n}
       /\ \E sel \in {Selected(call[c].req, SubSeq(store, 1, n))} : Delivered(c, sel) /\ Flowing(c, sel)

(* What RangeAnswers needs to be inductive, with AnswersInLine: what is on   *)
(* its way from the task of a query to its caller are the records that the   *)
(* store held when the command was taken, after all the caller had seen.     *)
QueriesInFlight ==
  /\ got \in [Conns -> Seq(ProtoRecords)]
  /\ \A c \in Conns : Answered(c) => result[c].seen \subseteq acked
  /\ \A c \in Conns : Querying(c) => QueryInFlight(c)
  /\ RangeAnswers

\* Connections whose handler runs, and those whose handler has returned Err.
Handlers(c) == hand[c] \notin {"none", "backlog", "refused", "spawned", "ended"}

SockStates == {"none", "open", "fin", "rst"}
HandStates == {"none", "backlog", "refused", "spawned", "reading", "command", "records", "flush",
               "final flush", "answer", "reply", "ended", "failed"}

(* The states of sockets and handlers, which every proof about connections   *)
(* needs: a connection nobody has opened has no handler.                     *)
HandlersTyped ==
  /\ hand \in [Conns -> HandStates] /\ sock \in [Conns -> SockStates]
  /\ \A c \in Conns : sock[c] = "none" => hand[c] = "none"

(* frames_written counts a reply before it is sent and the records of a      *)
(* query after they are: between requests it is the number of frames         *)
(* written, unless a handler has failed (server.rs).                         *)
FramesCounted ==
  (\A c \in Conns : hand[c] = "reading" \/ ~Handlers(c)) => frames_written = flushed

\* For each handler: the record frames it has written and not counted yet, and
\* the frames of a reply it has counted and not written yet.
NotCounted ==
  [c \in Conns |-> IF hand[c] \in InQuery THEN record_frames[c] - Len(wbuf[c]) ELSE 0]
NotWritten == [c \in Conns |-> IF hand[c] = "reply" THEN Len(wbuf[c]) ELSE 0]

\* As many frames as f gives the handlers together.
Together(f) == UNION {{c} \X (1 .. f[c]) : c \in Conns}

(* What FramesCounted needs to be inductive: counter and frames differ by    *)
(* what the queries have written and the replies have not, and a write       *)
(* buffer is empty between requests.                                         *)
FramesInFlight ==
  /\ record_frames \in [Conns -> Nat] /\ frames_written \in Nat /\ flushed \in Nat
  /\ \A c \in Conns :
       /\ hand[c] \in InQuery => Len(wbuf[c]) <= record_frames[c]
       /\ hand[c] \notin InQuery \union {"reply"} => wbuf[c] = <<>>
  /\ (\A c \in Conns : hand[c] # "failed") =>
       frames_written + Cardinality(Together(NotCounted)) = flushed + Cardinality(Together(NotWritten))

\* The client has dropped a query and sends a request that the path does not
\* hold: its handler waits in a flush for the client to read the answers to
\* the query, and the client's send for the handler to read.
Jammed(c) ==
  /\ \E k \in cancelled[c] : issued[c][k].type = "Range"
  /\ hand[c] \in {"flush", "final flush", "reply"}
  /\ wbuf[c] # <<>> /\ Len(down[c]) = PathFrames
  /\ PathBytes <= arrived[c] /\ arrived[c] < Bytes(up[c])

=============================================================================
