---------------------------- MODULE AnswerProofs ----------------------------
(***************************************************************************)
(* Proofs about the answers that the clients of logregator-core get: to    *)
(* which request each belongs, and what it says, for any number of         *)
(* clients, any requests and any faults.                                   *)
(***************************************************************************)
EXTENDS ConnProofs

-----------------------------------------------------------------------------
(* The numbers of the calls.                                                 *)

\* What a call that returns leaves in its result.
LEMMA ReturnedCall ==
  ASSUME NEW c, NEW msg, NEW of, Return(c, msg, of)
  PROVE  \E r : /\ result' = [result EXCEPT ![c] = r] /\ call' = [call EXCEPT ![c] = Idle]
                /\ r.msg = msg /\ r.of = of /\ r.num = call[c].num /\ r.req = call[c].req
                /\ r.seen = call[c].seen /\ r.got = got[c]
                /\ r.ok <=> (msg.type = Expected(call[c].req))
<1>1. PICK ok : ok = (msg.type = Expected(call[c].req))
  OBVIOUS
<1>2. PICK r : r = [num |-> call[c].num, req |-> call[c].req, seen |-> call[c].seen, got |-> got[c],
                    of |-> of, msg |-> msg, ok |-> ok]
  OBVIOUS
<1>3. result' = [result EXCEPT ![c] = r] /\ call' = [call EXCEPT ![c] = Idle]
  BY <1>1, <1>2, Zenon DEF Return
<1>4. /\ r.msg = msg /\ r.of = of /\ r.num = call[c].num /\ r.req = call[c].req
      /\ r.seen = call[c].seen /\ r.got = got[c] /\ r.ok = ok
  BY <1>2
<1>5. r.ok <=> (msg.type = Expected(call[c].req))
  BY <1>1, <1>4, Zenon
<1> QED
  BY <1>3, <1>4, <1>5, Zenon

\* What Numbered says is about the client of one connection.
LEMMA SameNumbered ==
  ASSUME NEW d \in Conns, Numbered(d), sock'[d] = sock[d] \/ call[d].num = 0, call'[d] = call[d],
         issued'[d] = issued[d], cancelled'[d] = cancelled[d], result'[d] = result[d]
  PROVE  Numbered(d)'
<1>1. sock'[d] = sock[d] \/ ~(call[d].num > 0)
  OBVIOUS
<1> QED
  BY <1>1, Zenon DEF Numbered

LEMMA InitNumbered == Init => CallsNumbered
<1> SUFFICES ASSUME Init PROVE CallsNumbered
  OBVIOUS
<1>1. DOMAIN call = Conns /\ cancelled \in [Conns -> SUBSET Nat]
  BY DEF Init
<1>2. ASSUME NEW c \in Conns PROVE Numbered(c)
  <2>1. issued[c] = <<>> /\ cancelled[c] = {} /\ call[c] = Idle /\ result[c] = [num |-> 0]
    BY DEF Init
  <2>2. call[c].num = 0 /\ result[c].num = 0
    BY <2>1 DEF Idle
  <2> QED
    BY <2>1, <2>2 DEF Numbered
<1> QED
  BY <1>1, <1>2 DEF CallsNumbered

LEMMA CallNumbered ==
  ASSUME RequestsInFlight, CallsNumbered, NEW c \in Conns, NEW req \in Requests[c], Call(c, req)
  PROVE  CallsNumbered'
<1>1. /\ sock[c] = "open" /\ call[c].num = 0 /\ issued' = [issued EXCEPT ![c] = Append(@, req)]
      /\ call' = [call EXCEPT ![c] = [num |-> Len(issued[c]) + 1, req |-> req, seen |-> acked]]
      /\ UNCHANGED <<sock, cancelled, result>>
  BY DEF Call
<1>2. DOMAIN call = Conns /\ cancelled \in [Conns -> SUBSET Nat] /\ issued \in [Conns -> Seq(AllRequests)]
  BY DEF CallsNumbered, RequestsInFlight
<1>3. PICK s \in Seq(AllRequests) : s = issued[c]
  BY <1>2
<1>4. Len(s) \in Nat /\ req \in AllRequests
  BY DEF AllRequests
<1>5. issued'[c] = Append(s, req) /\ \A d \in Conns \ {c} : issued'[d] = issued[d]
  BY <1>1, <1>2, <1>3
<1>6. Len(issued'[c]) = Len(s) + 1 /\ issued'[c][Len(s) + 1] = req
  BY <1>4, <1>5
<1>7. PICK k : k = call'[c]
  OBVIOUS
<1>8. k = [num |-> Len(s) + 1, req |-> req, seen |-> acked]
  BY <1>1, <1>2, <1>3, <1>7
<1>9. k.num = Len(s) + 1 /\ k.req = req
  BY <1>8
<1>10. /\ cancelled[c] \subseteq 1 .. Len(s) /\ result[c].num \in 0 .. Len(s)
  BY <1>3 DEF CallsNumbered, Numbered
<1>11. Numbered(c)'
  <2>1. call'[c].num = Len(s) + 1 /\ call'[c].req = req
    BY <1>7, <1>9
  <2>2. Len(s) + 1 \notin cancelled[c] /\ cancelled[c] \subseteq 1 .. (Len(s) + 1)
    BY <1>4, <1>10
  <2>3. result[c].num < Len(s) + 1 /\ result[c].num \in 0 .. (Len(s) + 1)
    BY <1>4, <1>10
  <2> QED
    BY <1>1, <1>6, <2>1, <2>2, <2>3, Zenon DEF Numbered
<1>12. ASSUME NEW d \in Conns \ {c} PROVE Numbered(d)'
  <2>1. call'[d] = call[d] /\ Numbered(d)
    BY <1>1, <1>2 DEF CallsNumbered
  <2> QED
    BY <1>1, <1>5, <2>1, SameNumbered
<1> QED
  BY <1>1, <1>2, <1>11, <1>12 DEF CallsNumbered

\* A call that ends: its number is the last, and no call has it again.
LEMMA EndNumbered ==
  ASSUME RequestsInFlight, CallsNumbered, NEW c \in Conns, call[c].num > 0,
         call' = [call EXCEPT ![c] = Idle], UNCHANGED <<sock, issued>>,
         \/ /\ UNCHANGED result
            /\ cancelled' = [cancelled EXCEPT ![c] = @ \union {call[c].num}]
         \/ /\ UNCHANGED cancelled
            /\ DOMAIN result = Conns /\ \E r : result' = [result EXCEPT ![c] = r] /\ r.num = call[c].num
  PROVE  CallsNumbered'
<1>1. DOMAIN call = Conns /\ cancelled \in [Conns -> SUBSET Nat] /\ issued \in [Conns -> Seq(AllRequests)]
  BY DEF CallsNumbered, RequestsInFlight
<1>2. PICK n \in Nat : n = Len(issued[c])
  BY <1>1
<1>3. call[c].num = n /\ n \in 1 .. n /\ cancelled[c] \subseteq 1 .. n /\ result[c].num \in 0 .. n
  BY <1>2 DEF CallsNumbered, Numbered
<1>4. call'[c] = Idle /\ call'[c].num = 0
  BY <1>1 DEF Idle
<1>5. \A d \in Conns \ {c} : call'[d] = call[d] /\ cancelled'[d] = cancelled[d] /\ result'[d] = result[d]
  BY <1>1
<1>6. cancelled' \in [Conns -> SUBSET Nat] /\ cancelled'[c] \subseteq 1 .. n
  <2>1. CASE UNCHANGED cancelled
    BY <1>1, <1>3, <2>1
  <2>2. CASE cancelled' = [cancelled EXCEPT ![c] = @ \union {call[c].num}]
    <3>1. cancelled' = [cancelled EXCEPT ![c] = cancelled[c] \union {n}]
      BY <1>3, <2>2
    <3>2. cancelled[c] \union {n} \subseteq 1 .. n /\ cancelled[c] \union {n} \in SUBSET Nat
      BY <1>1, <1>3
    <3> QED
      BY <1>1, <3>1, <3>2
  <2> QED
    BY <2>1, <2>2
<1>7. result'[c].num \in 0 .. n
  <2>1. CASE UNCHANGED result
    BY <1>3, <2>1
  <2>2. ASSUME DOMAIN result = Conns, NEW r, result' = [result EXCEPT ![c] = r], r.num = call[c].num
        PROVE  result'[c].num \in 0 .. n
    BY <1>3, <2>2
  <2> QED
    BY <2>1, <2>2
<1>8. Numbered(c)'
  <2>1. ~(call'[c].num > 0)
    BY <1>4
  <2> QED
    BY <1>2, <1>4, <1>6, <1>7, <2>1, Zenon DEF Numbered
<1>9. ASSUME NEW d \in Conns \ {c} PROVE Numbered(d)'
  BY <1>5, SameNumbered DEF CallsNumbered
<1>10. DOMAIN call' = Conns
  BY <1>1
<1> QED
  BY <1>6, <1>8, <1>9, <1>10 DEF CallsNumbered

LEMMA NextNumbered ==
  HandlersTyped /\ RequestsInFlight /\ InsertsInFlight /\ CallsNumbered /\ [Next]_vars => CallsNumbered'
<1> SUFFICES ASSUME HandlersTyped, RequestsInFlight, InsertsInFlight, CallsNumbered, [Next]_vars
             PROVE  CallsNumbered'
  OBVIOUS
<1>1. DOMAIN result = Conns /\ DOMAIN sock = Conns
  BY DEF InsertsInFlight, HandlersTyped
<1>2. ASSUME UNCHANGED <<call, issued, cancelled, result>>,
             \A d \in Conns : sock'[d] = sock[d] \/ call[d].num = 0
      PROVE  CallsNumbered'
  BY <1>2, SameNumbered DEF CallsNumbered
<1>3. ASSUME NEW c \in Conns, NEW req \in Requests[c], Call(c, req) PROVE CallsNumbered'
  BY <1>3, CallNumbered
<1>4. ASSUME NEW c \in Conns, Receive(c) PROVE CallsNumbered'
  <2>1. call[c].num > 0 /\ UNCHANGED <<sock, issued, cancelled>>
    BY <1>4 DEF Receive
  <2>2. PICK w : w = Head(down[c])
    OBVIOUS
  <2>3. Return(c, w.msg, w.of) \/ UNCHANGED <<result, call>>
    BY <1>4, <2>2, Zenon DEF Receive
  <2>4. CASE Return(c, w.msg, w.of)
    <3>1. \E r : result' = [result EXCEPT ![c] = r] /\ call' = [call EXCEPT ![c] = Idle] /\ r.num = call[c].num
      BY <2>4, ReturnedCall
    <3> QED
      BY <1>1, <2>1, <3>1, EndNumbered
  <2> QED
    BY <1>2, <2>1, <2>3, <2>4
<1>5. ASSUME NEW c \in Conns, ReceiveClosed(c) PROVE CallsNumbered'
  <2>1. call[c].num > 0 /\ UNCHANGED <<sock, issued, cancelled>>
    BY <1>5 DEF ReceiveClosed
  <2>2. Return(c, [type |-> "closed"], 0)
    BY <1>5 DEF ReceiveClosed
  <2>3. \E r : result' = [result EXCEPT ![c] = r] /\ call' = [call EXCEPT ![c] = Idle] /\ r.num = call[c].num
    BY <2>2, ReturnedCall
  <2> QED
    BY <1>1, <2>1, <2>3, EndNumbered
<1>6. ASSUME NEW c \in Conns, Cancel(c) PROVE CallsNumbered'
  BY <1>6, EndNumbered DEF Cancel
<1>7. ASSUME NEW c \in Conns, Connect(c) \/ Close(c) PROVE CallsNumbered'
  <2>1. /\ UNCHANGED <<call, issued, cancelled, result>>
        /\ \E to \in SockStates : sock' = [sock EXCEPT ![c] = to]
        /\ sock[c] # "open" \/ call[c].num = 0
    BY <1>7 DEF Connect, Close, SockStates
  <2>2. call[c].num = 0
    BY <2>1 DEF CallsNumbered, Numbered, RequestsInFlight
  <2> QED
    BY <1>1, <1>2, <2>1, <2>2
<1>8. ASSUME NEW c \in Conns, Flush(c) PROVE CallsNumbered'
  <2>1. /\ UNCHANGED <<call, issued, cancelled, result>>
        /\ UNCHANGED sock \/ (sock[c] # "open" /\ \E to \in SockStates : sock' = [sock EXCEPT ![c] = to])
    <3>1. UNCHANGED <<call, issued, cancelled, result>>
      BY <1>8 DEF Flush
    <3>2. sock[c] \in SockStates /\ "rst" \in SockStates
      BY DEF HandlersTyped, SockStates
    <3>3. \/ UNCHANGED sock
          \/ /\ sock[c] # "open"
             /\ \E n : sock' = [sock EXCEPT ![c] = IF n > 0 THEN "rst" ELSE @]
      BY <1>8, Zenon DEF Flush
    <3> QED
      BY <3>1, <3>2, <3>3
  <2>2. sock[c] # "open" => call[c].num = 0
    BY DEF CallsNumbered, Numbered, RequestsInFlight
  <2> QED
    BY <1>1, <1>2, <2>1, <2>2
<1>9. ASSUME NEW c \in Conns,
             \/ Arrive(c) \/ Accept(c) \/ StartHandler(c) \/ ReadFrame(c) \/ ReadEnd(c)
             \/ SendCommand(c) \/ RecvRecords(c) \/ RecordsEnd(c) \/ Answer(c) \/ TaskSends(c)
             \/ TaskEnds(c)
      PROVE  CallsNumbered'
  <2>1. UNCHANGED <<sock, call, issued, cancelled, result>>
    BY <1>9 DEF Arrive, Accept, StartHandler, ReadFrame, ReadEnd, SendCommand, RecvRecords,
                RecordsEnd, Answer, TaskSends, TaskEnds, clientVars
  <2> QED
    BY <1>2, <2>1, SMTT(30)
<1>10. CASE AcceptFails \/ Engine \/ EngineStops \/ UNCHANGED vars
  <2>1. UNCHANGED <<sock, call, issued, cancelled, result>>
    BY <1>10 DEF AcceptFails, Engine, EngineStops, vars, clientVars
  <2> QED
    BY <1>2, <2>1
<1> QED
  BY <1>3, <1>4, <1>5, <1>6, <1>7, <1>8, <1>9, <1>10 DEF Next, Handler, Client

-----------------------------------------------------------------------------
(* The bytes under way.                                                      *)

\* A frame of the protocol, and what its length says.
Sized(frame) ==
  /\ frame.size \in Nat \ {0}
  /\ frame.size < U32Bound => \A n \in Nat : Complete(frame, n) => frame.size <= n

LEMMA PayloadSized ==
  ASSUME NEW type, NEW payload, NEW n, Payload(payload, n)
  PROVE  Sized(Frame(type, payload))
<1>1. PICK frame : frame = Frame(type, payload)
  OBVIOUS
<1>2. PICK e : e = FieldEnds(payload)[n]
  OBVIOUS
<1>3. frame.size = 5 + e /\ frame.at[0].v = (1 + e) % U32Bound
  <2>1. LET f == Frame(type, payload)
            ends == FieldEnds(payload)
        IN  /\ f.size = 5 + ends[n] /\ PayloadLen(f) = ends[n]
            /\ MessageType(f) = type /\ f.at[0].v = (1 + ends[n]) % U32Bound
    BY FrameFacts
  <2> QED
    BY <1>1, <1>2, <2>1, Zenon
<1>4. e \in Nat
  BY <1>2, FrameHead
<1>5. ASSUME 5 + e < U32Bound PROVE frame.at[0].v = 1 + e
  <2>1. (1 + e) % U32Bound = 1 + e
    BY <1>4, <1>5, ProtoAssumption
  <2> QED
    BY <1>3, <2>1
<1>6. Sized(frame)
  BY <1>3, <1>4, <1>5, ProtoAssumption DEF Sized, Complete, LENGTH_SZ
<1> QED
  BY <1>1, <1>6

LEMMA RangeFieldsPayload ==
  ASSUME NEW m, IsText(m.key), IsText(m.filter)
  PROVE  \E n : Payload(RangeFields(m), n)
<1>1. PICK p : p = RangeFields(m)
  OBVIOUS
<1>2. PICK n \in Nat : n = 7
  OBVIOUS
<1>3. /\ Len(p) = 7 /\ DOMAIN p = 1 .. 7
      /\ p[1] = i64(m.source_id) /\ p[2] = str_len(m.key) /\ p[3] = str(m.key)
      /\ p[4] = i64(m.start_ts) /\ p[5] = i64(m.end_ts)
      /\ p[6] = str_len(m.filter) /\ p[7] = str(m.filter)
      /\ p \in Seq({i64(m.source_id), str_len(m.key), str(m.key), i64(m.start_ts), i64(m.end_ts),
                    str_len(m.filter), str(m.filter)})
  BY <1>1 DEF RangeFields
<1>4. \E S : p \in Seq(S)
  BY <1>3, Zenon
<1>5. StrLen(m.key) \in Nat /\ StrLen(m.filter) \in Nat
  BY DEF IsText
<1>6. /\ p[1].w = 8 /\ p[2].w = 4 /\ p[3].w = StrLen(m.key) /\ p[4].w = 8 /\ p[5].w = 8
      /\ p[6].w = 4 /\ p[7].w = StrLen(m.filter)
  BY <1>3 DEF i64, str, slice, str_len, u32
<1>7. \A i \in 1 .. 7 : p[i].w \in Nat
  BY <1>5, <1>6
<1>8. Fields(p, n)
  BY <1>2, <1>3, <1>7 DEF Fields
<1> QED
  BY <1>1, <1>4, <1>8, Zenon DEF Payload

LEMMA InsertFieldsPayload ==
  ASSUME NEW rec, IsRecord(rec)
  PROVE  \E n : Payload(InsertFields(rec), n)
<1> DEFINE p == InsertFields(rec)
<1>1. PICK n \in Nat : n = 6
  OBVIOUS
<1>2. Fields(p, n)
  BY <1>1, InsertFieldsFacts DEF Fields
<1>3. p \in Seq({p[i] : i \in 1 .. 6})
  BY InsertFieldsFacts
<1> QED
  BY <1>2, <1>3, Zenon DEF Payload

LEMMA RequestSized ==
  ASSUME NEW msg, IsRequest(msg)
  PROVE  Sized(client_encode(msg))
<1>1. CASE msg.type = "Insert" /\ IsRecord(msg.records[1])
  <2>1. client_encode(msg) = Frame(1, InsertFields(msg.records[1]))
    BY <1>1 DEF client_encode
  <2>2. PICK rec : rec = msg.records[1]
    OBVIOUS
  <2> QED
    BY <1>1, <2>1, <2>2, InsertFieldsPayload, PayloadSized, Zenon
<1>2. CASE msg.type = "BatchInsert" /\ IsRecords(msg.records)
  <2>1. client_encode(msg) = Frame(3, BatchFields(msg.records))
    BY <1>2 DEF client_encode
  <2>2. PICK recs : recs = msg.records
    OBVIOUS
  <2>3. PICK n \in Nat : n = Len(recs)
    BY <1>2, <2>2 DEF IsRecords
  <2>4. Payload(BatchFields(recs), 1 + 6 * n)
    <3>1. IsBatch(BatchFields(recs), recs, n)
      BY <1>2, <2>2, <2>3, BatchFacts
    <3> QED
      BY <3>1, Zenon DEF IsBatch
  <2> QED
    BY <2>1, <2>2, <2>4, PayloadSized, Zenon
<1>3. CASE msg.type = "Range" /\ IsText(msg.key) /\ IsText(msg.filter)
  <2>1. client_encode(msg) = Frame(2, RangeFields(msg))
    BY <1>3 DEF client_encode
  <2> QED
    BY <1>3, <2>1, RangeFieldsPayload, PayloadSized, Zenon
<1>4. CASE msg \in {Metrics, Ping}
  <2>1. msg.type = "Metrics" \/ msg.type = "Ping"
    BY <1>4 DEF Metrics, Ping
  <2>2. client_encode(msg) = Frame(4, <<>>) \/ client_encode(msg) = Frame(5, <<>>)
    BY <2>1 DEF client_encode
  <2>3. PICK n \in Nat : n = 0
    OBVIOUS
  <2>4. PICK p : p = <<>>
    OBVIOUS
  <2>5. Payload(p, n)
    <3>1. Fields(<<>>, n) /\ <<>> \in Seq({})
      BY <2>3 DEF Fields
    <3> QED
      BY <2>4, <3>1, Zenon DEF Payload
  <2> QED
    BY <2>2, <2>4, <2>5, PayloadSized, Zenon
<1> QED
  BY <1>1, <1>2, <1>3, <1>4 DEF IsRequest

\* The frames that clients send.
Frames == {client_encode(req) : req \in AllRequests}

LEMMA FramesSized ==
  ASSUME NEW frame \in Frames
  PROVE  /\ frame.size \in Nat /\ frame.size > 0
         /\ \A n \in Nat : Complete(frame, n) => frame.size <= n
<1>1. PICK req \in AllRequests : frame = client_encode(req)
  BY DEF Frames
<1>2. IsRequest(req) /\ client_encode(req).size < U32Bound
  BY MessageAssumption DEF AllRequests
<1>3. Sized(client_encode(req))
  BY <1>2, RequestSized
<1> QED
  BY <1>1, <1>2, <1>3 DEF Sized

\* The recursion of Bytes has a solution, and Bytes is the last of its sums.
SumsOf(n, frames) ==
  /\ n \in [0 .. Len(frames) -> Nat] /\ n[0] = 0
  /\ \A i \in 1 .. Len(frames) : n[i] = n[i - 1] + frames[i].size

LEMMA BytesSums ==
  ASSUME NEW frames, Len(frames) \in Nat, \A i \in 1 .. Len(frames) : frames[i].size \in Nat
  PROVE  \E n : SumsOf(n, frames) /\ Bytes(frames) = n[Len(frames)]
<1> DEFINE widths == [i \in 1 .. Len(frames) |-> [w |-> frames[i].size]]
<1>1. PICK k \in Nat : k = Len(frames)
  OBVIOUS
<1>2. Fields(widths, k)
  <2>1. widths \in Seq({[w |-> frames[i].size] : i \in 1 .. Len(frames)}) /\ Len(widths) = k
    BY <1>1
  <2>2. \A i \in 1 .. k : widths[i].w = frames[i].size
    BY <1>1
  <2> QED
    BY <1>1, <2>1, <2>2 DEF Fields
<1>3. PICK e : e = [i \in 0 .. k |-> IF i = 0 THEN 0 ELSE e[i - 1] + widths[i].w]
  <2> HIDE DEF widths
  <2> QED
    BY <1>2, EndsExist
<1>4. e = [i \in 0 .. k |-> IF i = 0 THEN 0 ELSE e[i - 1] + frames[i].size]
  <2>1. \A i \in 0 .. k : i # 0 => widths[i].w = frames[i].size
    BY <1>1
  <2> HIDE DEF widths
  <2> QED
    BY <1>3, <2>1
<1> DEFINE n == CHOOSE n : n = [i \in 0 .. Len(frames) |-> IF i = 0 THEN 0 ELSE n[i - 1] + frames[i].size]
<1>5. n = [i \in 0 .. Len(frames) |-> IF i = 0 THEN 0 ELSE n[i - 1] + frames[i].size]
  <2>1. \E f : f = [i \in 0 .. Len(frames) |-> IF i = 0 THEN 0 ELSE f[i - 1] + frames[i].size]
    BY <1>1, <1>4, Zenon
  <2> QED
    BY <2>1, Zenon
<1>6. Bytes(frames) = n[Len(frames)]
  BY Zenon DEF Bytes
<1> HIDE DEF n
<1>7. n[0] = 0 /\ DOMAIN n = 0 .. k /\ \A i \in 1 .. k : n[i] = n[i - 1] + frames[i].size
  BY <1>1, <1>5
<1>8. \A i \in 0 .. k : n[i] \in Nat
  <2> DEFINE T == {i \in 0 .. k : n[i] \notin Nat}
  <2> SUFFICES ASSUME T # {} PROVE FALSE
    OBVIOUS
  <2>1. PICK c \in T : \A d \in T : c <= d
    <3>1. T \in SUBSET Nat
      OBVIOUS
    <3> HIDE DEF T
    <3> QED
      BY <3>1, LeastNumber
  <2>2. c # 0 /\ c \in 1 .. k /\ c - 1 \in 0 .. k /\ c - 1 \notin T
    BY <1>7, <2>1
  <2>3. n[c - 1] \in Nat /\ n[c] = n[c - 1] + frames[c].size /\ frames[c].size \in Nat
    BY <1>1, <1>7, <2>2
  <2> QED
    BY <2>1, <2>3
<1>9. n \in [0 .. Len(frames) -> Nat]
  BY <1>1, <1>5, <1>8
<1> QED
  BY <1>1, <1>6, <1>7, <1>9 DEF SumsOf

\* Two sums over the same frames, one of them o further on.
Parallel(a, b, x, k, o) ==
  /\ \A i \in 0 .. k : a[i] \in Nat /\ b[i + o] \in Nat
  /\ a[0] = 0 /\ \A i \in 1 .. k : x[i] \in Nat
  /\ \A i \in 1 .. k : a[i] = a[i - 1] + x[i] /\ b[i + o] = b[i - 1 + o] + x[i]

LEMMA SumsAgree ==
  ASSUME NEW k \in Nat, NEW o \in Nat, NEW a, NEW b, NEW x, Parallel(a, b, x, k, o)
  PROVE  b[k + o] = a[k] + b[0 + o]
<1> USE DEF Parallel
<1> DEFINE T == {i \in 0 .. k : b[i + o] # a[i] + b[0 + o]}
<1> SUFFICES ASSUME T # {} PROVE FALSE
  OBVIOUS
<1>1. PICK c \in T : \A d \in T : c <= d
  <2>1. T \in SUBSET Nat
    OBVIOUS
  <2> HIDE DEF T
  <2> QED
    BY <2>1, LeastNumber
<1>2. c # 0 /\ c \in 1 .. k /\ c - 1 \in 0 .. k /\ c - 1 \notin T /\ 0 \in 0 .. k
  BY <1>1
<1>3. b[c - 1 + o] = a[c - 1] + b[0 + o]
  BY <1>2
<1>4. a[c] = a[c - 1] + x[c] /\ b[c + o] = b[c - 1 + o] + x[c] /\ x[c] \in Nat
  BY <1>2
<1>5. a[c - 1] \in Nat /\ b[0 + o] \in Nat
  BY <1>2
<1>6. b[c + o] = a[c] + b[0 + o]
  BY <1>3, <1>4, <1>5
<1> QED
  BY <1>1, <1>6

LEMMA BytesNat ==
  ASSUME NEW s \in Seq(Frames)
  PROVE  /\ Bytes(s) \in Nat /\ Len(s) \in Nat
         /\ \A i \in 1 .. Len(s) : s[i].size \in Nat /\ s[i].size > 0
<1>1. Len(s) \in Nat /\ \A i \in 1 .. Len(s) : s[i] \in Frames
  OBVIOUS
<1>2. \A i \in 1 .. Len(s) : s[i].size \in Nat /\ s[i].size > 0
  BY <1>1, FramesSized
<1>3. PICK n : SumsOf(n, s) /\ Bytes(s) = n[Len(s)]
  BY <1>1, <1>2, BytesSums
<1> QED
  BY <1>1, <1>2, <1>3 DEF SumsOf

LEMMA BytesAppend ==
  ASSUME NEW s \in Seq(Frames), NEW frame \in Frames
  PROVE  Bytes(Append(s, frame)) = Bytes(s) + frame.size
<1>1. PICK k \in Nat : k = Len(s)
  OBVIOUS
<1>2. PICK t \in Seq(Frames) : t = Append(s, frame)
  <2>1. Append(s, frame) \in Seq(Frames)
    OBVIOUS
  <2> QED
    BY <2>1, Zenon
<1>3. Len(t) = k + 1 /\ t[k + 1] = frame /\ \A i \in 1 .. k : t[i] = s[i]
  BY <1>1, <1>2
<1>4. PICK a : SumsOf(a, s) /\ Bytes(s) = a[k]
  BY <1>1, BytesNat, BytesSums
<1>5. PICK b : SumsOf(b, t) /\ Bytes(t) = b[k + 1]
  BY <1>3, BytesNat, BytesSums
<1>6. PICK x : x = [i \in 1 .. k |-> s[i].size]
  OBVIOUS
<1>7. PICK o \in Nat : o = 0
  OBVIOUS
<1>8. \A i \in 1 .. k : x[i] = s[i].size /\ x[i] = t[i].size /\ x[i] \in Nat
  BY <1>1, <1>3, <1>6, BytesNat
<1>9. /\ \A i \in 0 .. k : a[i] \in Nat /\ b[i] \in Nat
      /\ a[0] = 0 /\ b[0] = 0 /\ b[k + 1] = b[k] + frame.size
      /\ \A i \in 1 .. k : a[i] = a[i - 1] + x[i] /\ b[i] = b[i - 1] + x[i]
  <2>1. a \in [0 .. k -> Nat] /\ a[0] = 0 /\ \A i \in 1 .. k : a[i] = a[i - 1] + s[i].size
    BY <1>1, <1>4, Zenon DEF SumsOf
  <2>2. /\ b \in [0 .. (k + 1) -> Nat] /\ b[0] = 0
        /\ \A i \in 1 .. (k + 1) : b[i] = b[i - 1] + t[i].size
    BY <1>3, <1>5, Zenon DEF SumsOf
  <2>3. \A i \in 0 .. k : a[i] \in Nat /\ b[i] \in Nat
    BY <2>1, <2>2
  <2>4. k + 1 \in 1 .. (k + 1) /\ (k + 1) - 1 = k /\ \A i \in 1 .. k : i \in 1 .. (k + 1)
    OBVIOUS
  <2>5. b[k + 1] = b[k] + frame.size
    BY <1>3, <2>2, <2>4
  <2>6. \A i \in 1 .. k : a[i] = a[i - 1] + x[i] /\ b[i] = b[i - 1] + x[i]
    BY <1>8, <2>1, <2>2, <2>4
  <2> QED
    BY <2>1, <2>2, <2>3, <2>5, <2>6
<1>10. b[k + o] = a[k] + b[0 + o]
  <2>1. \A i \in 0 .. k : a[i] \in Nat /\ b[i + o] \in Nat
    BY <1>7, <1>9
  <2>2. \A i \in 1 .. k : a[i] = a[i - 1] + x[i] /\ b[i + o] = b[i - 1 + o] + x[i]
    BY <1>7, <1>9
  <2>3. Parallel(a, b, x, k, o)
    BY <1>8, <1>9, <2>1, <2>2 DEF Parallel
  <2> QED
    BY <2>3, SumsAgree
<1> QED
  BY <1>2, <1>4, <1>5, <1>7, <1>9, <1>10

LEMMA BytesTail ==
  ASSUME NEW s \in Seq(Frames), s # <<>>
  PROVE  Bytes(s) = Bytes(Tail(s)) + Head(s).size
<1>1. PICK t \in Seq(Frames) : t = Tail(s)
  BY TailType
<1>2. PICK k \in Nat : k = Len(t)
  OBVIOUS
<1>3. Len(s) = k + 1 /\ s[1] = Head(s) /\ \A i \in 1 .. k : t[i] = s[i + 1]
  BY <1>1, <1>2
<1>4. PICK a : SumsOf(a, t) /\ Bytes(t) = a[k]
  BY <1>2, BytesNat, BytesSums
<1>5. PICK b : SumsOf(b, s) /\ Bytes(s) = b[k + 1]
  BY <1>3, BytesNat, BytesSums
<1>6. PICK x : x = [i \in 1 .. k |-> t[i].size]
  OBVIOUS
<1>7. PICK o \in Nat : o = 1
  OBVIOUS
<1>8. \A i \in 1 .. k : x[i] = t[i].size /\ x[i] = s[i + 1].size /\ x[i] \in Nat
  BY <1>2, <1>3, <1>6, BytesNat
<1>9. /\ \A i \in 0 .. k : a[i] \in Nat /\ b[i + 1] \in Nat
      /\ a[0] = 0 /\ b[0] = 0 /\ b[1] = b[0] + s[1].size
      /\ \A i \in 1 .. k : a[i] = a[i - 1] + x[i]
  <2>1. a \in [0 .. k -> Nat] /\ a[0] = 0 /\ \A i \in 1 .. k : a[i] = a[i - 1] + t[i].size
    BY <1>2, <1>4, Zenon DEF SumsOf
  <2>2. /\ b \in [0 .. (k + 1) -> Nat] /\ b[0] = 0
        /\ \A i \in 1 .. (k + 1) : b[i] = b[i - 1] + s[i].size
    BY <1>3, <1>5, Zenon DEF SumsOf
  <2>3. \A i \in 0 .. k : a[i] \in Nat /\ b[i + 1] \in Nat
    BY <2>1, <2>2
  <2>4. 1 \in 1 .. (k + 1) /\ 1 - 1 = 0
    OBVIOUS
  <2>5. b[1] = b[0] + s[1].size
    BY <2>2, <2>4, Zenon
  <2>6. \A i \in 1 .. k : a[i] = a[i - 1] + x[i]
    BY <1>8, <2>1
  <2> QED
    BY <2>1, <2>2, <2>3, <2>5, <2>6
<1>10. ASSUME NEW i \in 1 .. k PROVE b[i + 1] = b[i] + x[i]
  <2>1. i + 1 \in 1 .. (k + 1) /\ (i + 1) - 1 = i
    OBVIOUS
  <2>2. b[i + 1] = b[(i + 1) - 1] + s[i + 1].size
    BY <1>3, <1>5, <2>1 DEF SumsOf
  <2> QED
    BY <1>8, <2>1, <2>2
<1>11. b[k + o] = a[k] + b[0 + o]
  <2>1. \A i \in 0 .. k : a[i] \in Nat /\ b[i + o] \in Nat
    BY <1>7, <1>9
  <2>2. \A i \in 1 .. k : a[i] = a[i - 1] + x[i] /\ b[i + o] = b[i - 1 + o] + x[i]
    <3>1. \A i \in 1 .. k : i - 1 + o = i /\ i + o = i + 1
      BY <1>7
    <3> QED
      BY <1>9, <1>10, <3>1
  <2>3. Parallel(a, b, x, k, o)
    BY <1>8, <1>9, <2>1, <2>2 DEF Parallel
  <2> QED
    BY <2>3, SumsAgree
<1>12. s[1].size \in Nat
  BY <1>3, BytesNat
<1>13. b[0 + o] = s[1].size
  BY <1>7, <1>9, <1>12
<1> QED
  BY <1>1, <1>3, <1>4, <1>5, <1>7, <1>11, <1>13

\* A handler that has returned does not come back.
LEMMA NextGone == HandlersTyped /\ [Next]_vars => \A c \in Conns : Gone(c) => Gone(c)'
<1> SUFFICES ASSUME HandlersTyped, [Next]_vars, NEW d \in Conns, Gone(d) PROVE Gone(d)'
  OBVIOUS
<1> DEFINE Ended == {"ended", "failed", "refused"}
<1>1. hand[d] \in Ended /\ DOMAIN hand = Conns /\ sock[d] # "none"
  BY DEF Gone, HandlersTyped
<1>2. ASSUME NEW c \in Conns, hand[c] \notin Ended, NEW to, hand' = [hand EXCEPT ![c] = to]
      PROVE  Gone(d)'
  BY <1>1, <1>2 DEF Gone
<1>3. CASE UNCHANGED hand
  BY <1>1, <1>3 DEF Gone
<1>4. ASSUME NEW c \in Conns, Connect(c) PROVE Gone(d)'
  <2>1. hand[c] \notin Ended /\ hand' = [hand EXCEPT ![c] = "backlog"]
    BY <1>4 DEF Connect, HandlersTyped
  <2> QED
    BY <1>2, <2>1
<1>5. ASSUME NEW c \in Conns,
             \/ StartHandler(c) \/ ReadEnd(c) \/ SendCommand(c) \/ RecordsEnd(c) \/ Answer(c)
             \/ Accept(c)
      PROVE  Gone(d)'
  <2>1. hand[c] \notin Ended
    BY <1>5 DEF StartHandler, ReadEnd, SendCommand, RecordsEnd, Answer, Accept
  <2>2. \E to : hand' = [hand EXCEPT ![c] = to]
    BY <1>5, Zenon DEF StartHandler, ReadEnd, SendCommand, RecordsEnd, Answer, Accept, Fail
  <2> QED
    BY <1>2, <2>1, <2>2
<1>6. ASSUME NEW c \in Conns, ReadFrame(c) PROVE Gone(d)'
  <2>1. hand[c] \notin Ended
    BY <1>6 DEF ReadFrame
  <2>2. \E to : hand' = [hand EXCEPT ![c] = to]
    BY <1>6, Zenon DEF ReadFrame
  <2> QED
    BY <1>2, <2>1, <2>2
<1>7. ASSUME NEW c \in Conns, RecvRecords(c) PROVE Gone(d)'
  <2>1. hand[c] \notin Ended
    BY <1>7 DEF RecvRecords
  <2>2. \E to : hand' = [hand EXCEPT ![c] = to]
    BY <1>7, Zenon DEF RecvRecords
  <2> QED
    BY <1>2, <2>1, <2>2
<1>8. ASSUME NEW c \in Conns, Flush(c) PROVE Gone(d)'
  <2>1. hand[c] \notin Ended
    BY <1>8 DEF Flush
  <2>2. UNCHANGED hand \/ hand' = [hand EXCEPT ![c] = "failed"] \/ hand' = [hand EXCEPT ![c] = After(@)]
    BY <1>8, Zenon DEF Flush, Fail
  <2>3. UNCHANGED hand \/ \E to : hand' = [hand EXCEPT ![c] = to]
    BY <2>2, Zenon
  <2> QED
    BY <1>2, <1>3, <2>1, <2>3
<1>9. ASSUME AcceptFails PROVE Gone(d)'
  BY <1>1, <1>9 DEF AcceptFails, Gone
<1>10. ASSUME NEW c \in Conns,
              \/ (\E req \in Requests[c] : Call(c, req)) \/ Client(c) \/ Cancel(c) \/ Close(c)
              \/ TaskSends(c) \/ TaskEnds(c)
       PROVE  UNCHANGED hand
  BY <1>10 DEF Call, Client, Arrive, Receive, ReceiveClosed, Cancel, Close, TaskSends, TaskEnds,
               handlerVars
<1>11. ASSUME Engine \/ EngineStops \/ UNCHANGED vars PROVE UNCHANGED hand
  BY <1>11 DEF Engine, EngineStops, vars, handlerVars
<1> QED
  BY <1>3, <1>4, <1>5, <1>6, <1>7, <1>8, <1>9, <1>10, <1>11 DEF Next, Handler

LEMMA InitArrives == Init => BytesArrive
<1> SUFFICES ASSUME Init PROVE BytesArrive
  OBVIOUS
<1>1. arrived \in [Conns -> Nat]
  BY DEF Init
<1>2. ASSUME NEW c \in Conns PROVE Arrives(c)
  <2>1. arrived[c] = 0 /\ up[c] = <<>> /\ result[c] = [num |-> 0]
    BY DEF Init
  <2>2. up[c] \in Seq(Frames) /\ ~FoundClosed(c)
    BY <2>1 DEF FoundClosed
  <2>3. Bytes(up[c]) \in Nat
    BY <2>2, BytesNat
  <2> QED
    BY <2>1, <2>2, <2>3 DEF Arrives
<1> QED
  BY <1>1, <1>2 DEF BytesArrive

\* Arrives speaks of one connection: its client, and the call under way.
LEMMA SameArrives ==
  ASSUME NEW d \in Conns, Arrives(d), Gone(d) => Gone(d)', arrived'[d] = arrived[d], up'[d] = up[d],
         \/ result'[d] = result[d] /\ call'[d] = call[d]
         \/ call'[d].num = 0 /\ (FoundClosed(d)' => Gone(d)')
  PROVE  Arrives(d)'
<1>1. arrived'[d] <= Bytes(up[d])'
  BY Zenon DEF Arrives
<1>2. CASE result'[d] = result[d] /\ call'[d] = call[d]
  <2>1. FoundClosed(d)' => FoundClosed(d)
    BY <1>2, Zenon DEF FoundClosed
  <2> QED
    BY <1>1, <1>2, <2>1, Zenon DEF Arrives
<1>3. CASE call'[d].num = 0 /\ (FoundClosed(d)' => Gone(d)')
  <2>1. ~(call'[d].num > 0)
    BY <1>3
  <2> QED
    BY <1>1, <1>3, <2>1, Zenon DEF Arrives
<1> QED
  BY <1>2, <1>3

LEMMA CallArrives ==
  ASSUME HandlersTyped, RequestsInFlight, CallsNumbered, BytesArrive, NEW c \in Conns,
         NEW req \in Requests[c], Call(c, req)
  PROVE  BytesArrive'
<1>1. /\ up' = [up EXCEPT ![c] = Append(@, client_encode(req))] /\ UNCHANGED <<arrived, hand, result>>
      /\ \E k : call' = [call EXCEPT ![c] = k]
  BY DEF Call, handlerVars
<1>2. up \in [Conns -> Seq(Frames)] /\ DOMAIN call = Conns /\ arrived \in [Conns -> Nat]
  BY DEF RequestsInFlight, CallsNumbered, BytesArrive, Frames
<1>3. PICK s \in Seq(Frames) : s = up[c]
  BY <1>2
<1>4. PICK frame \in Frames : frame = client_encode(req)
  BY DEF Frames, AllRequests
<1>5. up'[c] = Append(s, frame) /\ \A d \in Conns \ {c} : up'[d] = up[d] /\ call'[d] = call[d]
  BY <1>1, <1>2, <1>3, <1>4
<1>6. Bytes(Append(s, frame)) = Bytes(s) + frame.size /\ frame.size \in Nat /\ frame.size > 0
  BY BytesAppend, FramesSized
<1>7. Bytes(s) \in Nat /\ arrived[c] \in Nat /\ arrived[c] <= Bytes(s)
  BY <1>2, <1>3, BytesNat DEF BytesArrive, Arrives
<1>8. arrived[c] < Bytes(Append(s, frame)) /\ arrived[c] <= Bytes(Append(s, frame))
  BY <1>6, <1>7
<1>9. arrived'[c] < Bytes(up[c])' /\ arrived'[c] <= Bytes(up[c])'
  BY <1>1, <1>5, <1>8, Zenon
<1>10. FoundClosed(c)' => Gone(c)'
  BY <1>1 DEF BytesArrive, Arrives, FoundClosed, Gone
<1>11. Arrives(c)'
  BY <1>9, <1>10, Zenon DEF Arrives
<1>12. ASSUME NEW d \in Conns \ {c} PROVE Arrives(d)'
  <2>1. Arrives(d) /\ (Gone(d) => Gone(d)')
    BY <1>1 DEF BytesArrive, Gone
  <2> QED
    BY <1>1, <1>5, <2>1, SameArrives
<1> QED
  BY <1>1, <1>2, <1>11, <1>12 DEF BytesArrive

\* The bytes of a call arrive while its handler is there.
LEMMA ArriveArrives ==
  ASSUME RequestsInFlight, BytesArrive, NEW c \in Conns, Arrive(c)
  PROVE  BytesArrive'
<1>1. UNCHANGED <<call, up, result, hand>> /\ ~Gone(c)
  BY DEF Arrive, clientVars, handlerVars
<1>2. up \in [Conns -> Seq(Frames)] /\ arrived \in [Conns -> Nat]
  BY DEF RequestsInFlight, BytesArrive, Frames
<1>3. PICK b \in Nat : b = Bytes(up[c])
  BY <1>2, BytesNat
<1>4. PICK n \in Chunks \union {PathBytes, b} : n <= b /\ arrived' = [arrived EXCEPT ![c] = n]
  BY <1>3, Zenon DEF Arrive
<1>5. n \in Nat
  BY <1>3, <1>4, ConnAssumption
<1>6. arrived' \in [Conns -> Nat] /\ arrived'[c] = n /\ \A d \in Conns \ {c} : arrived'[d] = arrived[d]
  BY <1>2, <1>4, <1>5
<1>7. ~FoundClosed(c)'
  BY <1>1, Zenon DEF BytesArrive, Arrives, FoundClosed
<1>8. Arrives(c)'
  <2>1. arrived'[c] <= Bytes(up[c])'
    BY <1>1, <1>3, <1>4, <1>6, Zenon
  <2> QED
    BY <1>7, <2>1, Zenon DEF Arrives
<1>9. ASSUME NEW d \in Conns \ {c} PROVE Arrives(d)'
  <2>1. Arrives(d) /\ (Gone(d) => Gone(d)')
    BY <1>1 DEF BytesArrive, Gone
  <2> QED
    BY <1>1, <1>6, <2>1, SameArrives
<1> QED
  BY <1>6, <1>8, <1>9 DEF BytesArrive

\* A frame is taken once all of it has arrived.
LEMMA ReadArrives ==
  ASSUME HandlersTyped, RequestsInFlight, BytesArrive, NEW c \in Conns, ReadFrame(c)
  PROVE  BytesArrive'
<1>1. /\ UNCHANGED <<call, result>> /\ hand[c] = "reading" /\ up[c] # <<>>
      /\ Complete(Head(up[c]), arrived[c]) /\ up' = [up EXCEPT ![c] = Tail(@)]
      /\ arrived' = [arrived EXCEPT ![c] = @ - Head(up[c]).size]
      /\ \E to : hand' = [hand EXCEPT ![c] = to]
  BY Zenon DEF ReadFrame, clientVars
<1>2. up \in [Conns -> Seq(Frames)] /\ arrived \in [Conns -> Nat] /\ DOMAIN hand = Conns
  BY DEF RequestsInFlight, BytesArrive, Frames, HandlersTyped
<1>3. PICK s \in Seq(Frames) : s = up[c]
  BY <1>2
<1>4. PICK a \in Nat : a = arrived[c]
  BY <1>2
<1>5. s # <<>> /\ Head(s) \in Frames /\ Tail(s) \in Seq(Frames) /\ Complete(Head(s), a)
  BY <1>1, <1>3, <1>4, TailType
<1>6. PICK x \in Nat : x = Head(s).size /\ x <= a
  BY <1>5, FramesSized
<1>7. Bytes(s) = Bytes(Tail(s)) + x /\ Bytes(Tail(s)) \in Nat /\ a <= Bytes(s)
  <2>1. a <= Bytes(s)
    BY <1>3, <1>4 DEF BytesArrive, Arrives
  <2> QED
    BY <1>5, <1>6, <2>1, BytesTail, BytesNat
<1>8. a - x \in Nat /\ a - x <= Bytes(Tail(s))
  BY <1>6, <1>7
<1>9. arrived' = [arrived EXCEPT ![c] = a - x]
  BY <1>1, <1>3, <1>4, <1>6
<1>10. /\ arrived' \in [Conns -> Nat] /\ arrived'[c] = a - x /\ up'[c] = Tail(s)
       /\ \A d \in Conns \ {c} : arrived'[d] = arrived[d] /\ up'[d] = up[d] /\ hand'[d] = hand[d]
  BY <1>1, <1>2, <1>3, <1>8, <1>9
<1>11. ~FoundClosed(c)'
  <2>1. ~Gone(c)
    BY <1>1 DEF Gone
  <2>2. ~FoundClosed(c)
    BY <2>1 DEF BytesArrive, Arrives
  <2> QED
    BY <1>1, <2>2, Zenon DEF FoundClosed
<1>12. Arrives(c)'
  <2>1. arrived'[c] <= Bytes(up[c])'
    BY <1>8, <1>10, Zenon
  <2> QED
    BY <1>11, <2>1, Zenon DEF Arrives
<1>13. ASSUME NEW d \in Conns \ {c} PROVE Arrives(d)'
  <2>1. Arrives(d) /\ (Gone(d) => Gone(d)')
    BY <1>10 DEF BytesArrive, Gone
  <2> QED
    BY <1>1, <1>10, <2>1, SameArrives
<1> QED
  BY <1>10, <1>12, <1>13 DEF BytesArrive

LEMMA NextArrives ==
  HandlersTyped /\ RequestsInFlight /\ AnswersTyped /\ InsertsInFlight /\ CallsNumbered /\ BytesArrive
    /\ [Next]_vars => BytesArrive'
<1> SUFFICES ASSUME HandlersTyped, RequestsInFlight, AnswersTyped, InsertsInFlight, CallsNumbered,
                    BytesArrive, [Next]_vars
             PROVE  BytesArrive'
  OBVIOUS
<1>1. \A d \in Conns : Arrives(d) /\ (Gone(d) => Gone(d)')
  BY NextGone DEF BytesArrive
<1>2. DOMAIN result = Conns /\ DOMAIN call = Conns
  BY DEF InsertsInFlight, CallsNumbered
<1>3. ASSUME UNCHANGED <<arrived, up, result, call>> PROVE BytesArrive'
  BY <1>1, <1>3, SameArrives DEF BytesArrive
<1>4. ASSUME NEW c \in Conns, Receive(c) \/ ReceiveClosed(c) \/ Cancel(c) PROVE BytesArrive'
  <2>1. UNCHANGED <<arrived, up, hand>>
    BY <1>4 DEF Receive, ReceiveClosed, Cancel, netVars, handlerVars
  <2>2. CASE Cancel(c)
    <3>1. UNCHANGED result /\ call' = [call EXCEPT ![c] = Idle]
      BY <2>2 DEF Cancel
    <3>2. call'[c].num = 0 /\ \A d \in Conns \ {c} : call'[d] = call[d]
      BY <1>2, <3>1 DEF Idle
    <3>3. FoundClosed(c)' => Gone(c)'
      BY <1>1, <3>1, Zenon DEF FoundClosed, Arrives
    <3>4. \A d \in Conns : Arrives(d)'
      BY <1>1, <2>1, <3>1, <3>2, <3>3, SameArrives
    <3> QED
      BY <2>1, <3>4 DEF BytesArrive
  <2>3. ASSUME NEW msg, NEW of, Return(c, msg, of), msg.type = "closed" => Gone(c)
        PROVE  BytesArrive'
    <3>1. PICK r : result' = [result EXCEPT ![c] = r] /\ call' = [call EXCEPT ![c] = Idle] /\ r.msg = msg
      BY <2>3, ReturnedCall
    <3>2. /\ call'[c].num = 0 /\ \A d \in Conns \ {c} : call'[d] = call[d] /\ result'[d] = result[d]
          /\ result'[c] = r
      BY <1>2, <3>1 DEF Idle
    <3>3. FoundClosed(c)' => Gone(c)'
      BY <1>1, <2>3, <3>1, <3>2, Zenon DEF FoundClosed
    <3>4. \A d \in Conns : Arrives(d)'
      BY <1>1, <2>1, <3>2, <3>3, SameArrives
    <3> QED
      BY <2>1, <3>4 DEF BytesArrive
  <2>4. CASE ReceiveClosed(c)
    BY <2>3, <2>4 DEF ReceiveClosed
  <2>5. CASE Receive(c)
    <3>1. PICK w : w = Head(down[c])
      OBVIOUS
    <3>2. Return(c, w.msg, w.of) \/ UNCHANGED <<result, call>>
      BY <2>5, <3>1, Zenon DEF Receive
    <3>3. w \in Written
      <4>1. PICK s \in Seq(Written) : s = down[c] /\ s # <<>>
        BY <2>5 DEF Receive, AnswersTyped
      <4> QED
        BY <3>1, <4>1, TailType
    <3>4. w.msg.type # "closed"
      <4>1. w.msg \in Replies
        BY <3>3 DEF Written
      <4>2. PICK m \in Replies : m = w.msg
        BY <4>1
      <4>3. IsReply(m)
        BY RepliesAre
      <4>4. m.type # "closed"
        BY <4>3 DEF IsReply, InsertOk, RangeEnd, Pong
      <4> QED
        BY <4>2, <4>4
    <3> QED
      BY <1>3, <2>1, <2>3, <3>2, <3>4
  <2> QED
    BY <1>4, <2>2, <2>4, <2>5
<1>5. ASSUME NEW c \in Conns,
             \/ Connect(c) \/ Close(c) \/ Accept(c) \/ StartHandler(c) \/ ReadEnd(c)
             \/ SendCommand(c) \/ RecvRecords(c) \/ RecordsEnd(c) \/ Flush(c) \/ Answer(c)
             \/ TaskSends(c) \/ TaskEnds(c)
      PROVE  BytesArrive'
  <2>1. UNCHANGED <<arrived, up, result, call>>
    BY <1>5 DEF Connect, Close, Accept, StartHandler, ReadEnd, SendCommand, RecvRecords,
                RecordsEnd, Flush, Answer, TaskSends, TaskEnds, clientVars, netVars
  <2> QED
    BY <1>3, <2>1, SMTT(30)
<1>6. CASE AcceptFails \/ Engine \/ EngineStops \/ UNCHANGED vars
  <2>1. UNCHANGED <<arrived, up, result, call>>
    BY <1>6 DEF AcceptFails, Engine, EngineStops, vars, clientVars, netVars
  <2> QED
    BY <1>3, <2>1
<1> QED
  BY <1>3, <1>4, <1>5, <1>6, CallArrives, ArriveArrives, ReadArrives DEF Next, Handler, Client

-----------------------------------------------------------------------------
(* The order of the answers.                                                 *)

LEMMA LinedAppend ==
  ASSUME NEW q \in Seq(Written), NEW due \in Int, Lined(q, due), NEW w \in Written, w.of = EndOf(q, due)
  PROVE  Lined(Append(q, w), due) /\ EndOf(Append(q, w), due) = Following(w)
<1>1. PICK n \in Nat : n = Len(q)
  OBVIOUS
<1>2. PICK p \in Seq(Written) : p = Append(q, w)
  <2>1. Append(q, w) \in Seq(Written)
    OBVIOUS
  <2> QED
    BY <2>1, Zenon
<1>3. p # <<>> /\ Len(p) = n + 1 /\ p[n + 1] = w /\ (\A i \in 1 .. n : p[i] = q[i]) /\ (n = 0 <=> q = <<>>)
  BY <1>1, <1>2
<1>4. EndOf(p, due) = Following(w)
  BY <1>3, Zenon DEF EndOf
<1>5. p[1].of = due
  <2>1. CASE n = 0
    BY <1>3, <2>1 DEF EndOf
  <2>2. CASE n # 0
    BY <1>1, <1>3, <2>2 DEF Lined
  <2> QED
    BY <2>1, <2>2
<1>6. ASSUME NEW i \in 1 .. n PROVE p[i + 1].of = Following(p[i])
  <2>1. CASE i = n
    <3>1. q # <<>> /\ p[i] = q[n] /\ p[i + 1] = w
      BY <1>3, <2>1
    <3>2. w.of = Following(q[n])
      BY <1>1, <3>1, Zenon DEF EndOf
    <3> QED
      BY <3>1, <3>2
  <2>2. CASE i # n
    <3>1. i \in 1 .. (n - 1) /\ i + 1 \in 1 .. n
      BY <2>2
    <3>2. q[i + 1].of = Following(q[i])
      BY <1>1, <3>1 DEF Lined
    <3> QED
      BY <1>3, <3>1, <3>2
  <2> QED
    BY <2>1, <2>2
<1>7. Len(p) - 1 = n
  BY <1>3
<1>8. Lined(p, due)
  BY <1>5, <1>6, <1>7, Zenon DEF Lined
<1> QED
  BY <1>2, <1>4, <1>8

\* The records of a query: each is to the same request as the one before it.
LEMMA LinedRecords ==
  ASSUME NEW q \in Seq(Written), NEW due \in Int, Lined(q, due), NEW f \in Seq(Written),
         \A i \in 1 .. Len(f) : f[i].msg.type = "RangeRecord" /\ f[i].of = EndOf(q, due)
  PROVE  Lined(q \o f, due) /\ EndOf(q \o f, due) = EndOf(q, due)
<1>1. PICK n \in Nat : n = Len(q)
  OBVIOUS
<1>2. PICK m \in Nat : m = Len(f)
  OBVIOUS
<1>3. PICK p \in Seq(Written) : p = q \o f
  <2>1. q \o f \in Seq(Written)
    OBVIOUS
  <2> QED
    BY <2>1, Zenon
<1>4. /\ Len(p) = n + m /\ (\A i \in 1 .. n : p[i] = q[i]) /\ (\A i \in 1 .. m : p[n + i] = f[i])
      /\ (n = 0 <=> q = <<>>) /\ (n + m = 0 <=> p = <<>>)
  BY <1>1, <1>2, <1>3
<1>5. \A i \in 1 .. m : Following(f[i]) = EndOf(q, due) /\ f[i].of = EndOf(q, due)
  BY <1>2 DEF Following
<1>6. CASE m = 0
  <2>1. p = q
    BY <1>1, <1>3, <1>4, <1>6, SMTT(30)
  <2> QED
    BY <1>3, <2>1
<1>7. CASE m # 0
  <2>1. p # <<>> /\ p[Len(p)] = f[m] /\ m \in 1 .. m
    BY <1>4, <1>7
  <2>2. EndOf(p, due) = EndOf(q, due)
    <3>1. EndOf(p, due) = Following(f[m])
      BY <2>1, Zenon DEF EndOf
    <3> QED
      BY <1>5, <2>1, <3>1
  <2>3. p[1].of = due
    <3>1. CASE n = 0
      <4>1. p[1] = f[1] /\ EndOf(q, due) = due /\ 1 \in 1 .. m
        BY <1>4, <1>7, <3>1 DEF EndOf
      <4> QED
        BY <1>5, <4>1
    <3>2. CASE n # 0
      BY <1>1, <1>4, <3>2 DEF Lined
    <3> QED
      BY <3>1, <3>2
  <2>4. ASSUME NEW i \in 1 .. (n + m - 1) PROVE p[i + 1].of = Following(p[i])
    <3>1. CASE i < n
      <4>1. i \in 1 .. (n - 1) /\ i + 1 \in 1 .. n /\ i \in 1 .. n
        BY <3>1
      <4>2. q[i + 1].of = Following(q[i])
        BY <1>1, <4>1 DEF Lined
      <4> QED
        BY <1>4, <4>1, <4>2
    <3>2. CASE i = n
      <4>1. p[i] = q[n] /\ p[i + 1] = f[1] /\ 1 \in 1 .. m /\ q # <<>>
        BY <1>4, <1>7, <3>2
      <4>2. EndOf(q, due) = Following(q[n])
        BY <1>1, <4>1, Zenon DEF EndOf
      <4> QED
        BY <1>5, <4>1, <4>2
    <3>3. CASE i > n
      <4>1. PICK j \in 1 .. (m - 1) : i = n + j
        <5>1. i - n \in 1 .. (m - 1) /\ i = n + (i - n)
          BY <3>3
        <5> QED
          BY <5>1
      <4>2. j \in 1 .. m /\ j + 1 \in 1 .. m /\ i + 1 = n + (j + 1)
        BY <4>1
      <4>3. p[i] = f[j] /\ p[i + 1] = f[j + 1]
        BY <1>4, <4>1, <4>2
      <4> QED
        BY <1>5, <4>2, <4>3
    <3> QED
      BY <3>1, <3>2, <3>3
  <2>5. Len(p) - 1 = n + m - 1
    BY <1>4
  <2>6. Lined(p, due)
    BY <2>3, <2>4, <2>5, Zenon DEF Lined
  <2> QED
    BY <1>3, <2>2, <2>6
<1> QED
  BY <1>6, <1>7

LEMMA LinedTail ==
  ASSUME NEW q \in Seq(Written), NEW due \in Int, Lined(q, due), q # <<>>
  PROVE  /\ q[1].of = due /\ Lined(Tail(q), Following(q[1]))
         /\ EndOf(Tail(q), Following(q[1])) = EndOf(q, due)
<1>1. PICK n \in Nat : Len(q) = n + 1
  <2>1. Len(q) - 1 \in Nat /\ Len(q) = (Len(q) - 1) + 1
    OBVIOUS
  <2> QED
    BY <2>1
<1>2. PICK t \in Seq(Written) : t = Tail(q)
  BY TailType
<1>3. Len(t) = n /\ (\A i \in 1 .. n : t[i] = q[i + 1]) /\ (n = 0 <=> t = <<>>)
  BY <1>1, <1>2, SMTT(30)
<1>4. \A i \in 1 .. n : q[i + 1].of = Following(q[i])
  <2>1. Len(q) - 1 = n
    BY <1>1
  <2> QED
    BY <2>1, Zenon DEF Lined
<1>5. CASE n = 0
  <2>1. t = <<>> /\ q[Len(q)] = q[1] /\ Len(t) - 1 < 1
    BY <1>1, <1>3, <1>5
  <2>2. EndOf(t, Following(q[1])) = EndOf(q, due)
    BY <2>1, Zenon DEF EndOf
  <2>3. Lined(t, Following(q[1]))
    BY <1>3, <1>5, <2>1 DEF Lined
  <2> QED
    BY <1>2, <2>2, <2>3 DEF Lined
<1>6. CASE n # 0
  <2>1. t # <<>> /\ t[n] = q[n + 1] /\ t[1] = q[2] /\ 1 \in 1 .. n
    BY <1>3, <1>6
  <2>2. EndOf(t, Following(q[1])) = EndOf(q, due)
    BY <1>1, <1>3, <2>1, Zenon DEF EndOf
  <2>3. t[1].of = Following(q[1])
    <3>1. q[1 + 1].of = Following(q[1])
      BY <1>4, <2>1
    <3> QED
      BY <2>1, <3>1
  <2>4. ASSUME NEW i \in 1 .. (n - 1) PROVE t[i + 1].of = Following(t[i])
    <3>1. i \in 1 .. n /\ i + 1 \in 1 .. n
      OBVIOUS
    <3>2. t[i] = q[i + 1] /\ t[i + 1] = q[(i + 1) + 1] /\ q[(i + 1) + 1].of = Following(q[i + 1])
      BY <1>3, <1>4, <3>1
    <3> QED
      BY <3>2
  <2>5. Lined(t, Following(q[1]))
    BY <1>3, <2>3, <2>4, Zenon DEF Lined
  <2> QED
    BY <1>2, <2>2, <2>5 DEF Lined
<1> QED
  BY <1>5, <1>6, SMTT(30)

\* What is lost is at the end.
LEMMA LinedPrefix ==
  ASSUME NEW p \in Seq(Written), NEW r \in Seq(Written), NEW due \in Int, Lined(p \o r, due)
  PROVE  Lined(p \o <<>>, due)
<1>1. PICK n \in Nat : n = Len(p)
  OBVIOUS
<1>2. PICK q \in Seq(Written) : q = p \o r
  <2>1. p \o r \in Seq(Written)
    OBVIOUS
  <2> QED
    BY <2>1, Zenon
<1>3. Len(q) \in Nat /\ n <= Len(q) /\ (\A i \in 1 .. n : q[i] = p[i]) /\ (p # <<>> => n > 0 /\ q # <<>>)
  BY <1>1, <1>2
<1>4. p # <<>> => p[1].of = due
  BY <1>2, <1>3 DEF Lined
<1>5. ASSUME NEW i \in 1 .. (n - 1) PROVE p[i + 1].of = Following(p[i])
  <2>1. i \in 1 .. (Len(q) - 1) /\ i \in 1 .. n /\ i + 1 \in 1 .. n
    BY <1>3
  <2>2. q[i + 1].of = Following(q[i])
    BY <1>2, <2>1 DEF Lined
  <2> QED
    BY <1>3, <2>1, <2>2
<1>6. Lined(p, due)
  BY <1>1, <1>4, <1>5, Zenon DEF Lined
<1>7. p \o <<>> = p
  OBVIOUS
<1> QED
  BY <1>6, <1>7

\* A flush moves answers and keeps their order.
LEMMA Flushed ==
  ASSUME NEW p \in Seq(Written), NEW w \in Seq(Written), NEW n \in 0 .. Len(w)
  PROVE  (p \o SubSeq(w, 1, n)) \o SubSeq(w, n + 1, Len(w)) = p \o w
<1>1. PICK a \in Seq(Written) : a = SubSeq(w, 1, n)
  BY SubSeqType
<1>2. PICK b \in Seq(Written) : b = SubSeq(w, n + 1, Len(w))
  BY SubSeqType
<1>3. Len(w) \in Nat /\ Len(a) = n /\ \A i \in 1 .. n : a[i] = w[i]
  BY <1>1
<1>4. Len(b) = Len(w) - n /\ \A i \in 1 .. (Len(w) - n) : b[i] = w[n + i]
  BY <1>2
<1>5. a \o b = w
  <2>1. PICK q \in Seq(Written) : q = a \o b
    BY ConcatParts
  <2>2. Len(q) = Len(w)
    <3>1. Len(q) = Len(a) + Len(b)
      BY <2>1, ConcatParts
    <3> QED
      BY <1>3, <1>4, <3>1
  <2>3. ASSUME NEW i \in 1 .. Len(w) PROVE q[i] = w[i]
    <3>1. CASE i <= n
      BY <1>3, <2>1, <3>1
    <3>2. CASE i > n
      <4>1. PICK j \in 1 .. Len(b) : i = n + j
        <5>1. i - n \in 1 .. Len(b) /\ i = n + (i - n)
          BY <1>3, <1>4, <3>2
        <5> QED
          BY <5>1
      <4>2. q[i] = b[j] /\ b[j] = w[n + j]
        BY <1>3, <1>4, <2>1, <4>1, ConcatParts
      <4> QED
        BY <4>1, <4>2
    <3> QED
      BY <1>3, <3>1, <3>2
  <2>4. q = w
    BY <2>2, <2>3, SMTT(30)
  <2> QED
    BY <2>1, <2>4
<1>6. (p \o a) \o b = p \o (a \o b)
  BY SMTT(30)
<1> QED
  BY <1>1, <1>2, <1>5, <1>6

\* What RecvRecords appends: the batch at the head of the record channel.
RecvEffect(c, b, f) ==
  /\ b \in Seq(ProtoRecords) /\ b = Head(rchan[c].batches)
  /\ f \in Seq(Written) /\ Len(f) = Len(b)
  /\ \A i \in 1 .. Len(f) : f[i].msg = RangeRecord(b[i]) /\ f[i].of = Len(handled[c])
  /\ wbuf'[c] = wbuf[c] \o f /\ \A d \in Conns \ {c} : wbuf'[d] = wbuf[d]

LEMMA RecvWrites ==
  ASSUME RequestsInFlight, AnswersTyped, NEW c \in Conns, RecvRecords(c)
  PROVE  \E b, f : RecvEffect(c, b, f)
<1>1. PICK b \in Seq(ProtoRecords) : b = Head(rchan[c].batches)
  <2>1. PICK bs \in Seq(Seq(ProtoRecords)) : bs = rchan[c].batches
    BY DEF AnswersTyped
  <2>2. bs # <<>>
    BY <2>1 DEF RecvRecords
  <2>3. Head(bs) \in Seq(ProtoRecords)
    BY <2>2, TailType
  <2> QED
    BY <2>1, <2>3
<1>2. PICK f : f = [i \in DOMAIN b |-> Out(c, RangeRecord(b[i]))]
  OBVIOUS
<1>3. wbuf' = [wbuf EXCEPT ![c] = wbuf[c] \o f]
  BY <1>1, <1>2, Zenon DEF RecvRecords
<1>4. DOMAIN wbuf = Conns
  BY DEF AnswersTyped
<1>5. PICK k \in Nat : k = Len(handled[c])
  BY DEF RequestsInFlight
<1>6. Len(b) \in Nat /\ DOMAIN b = 1 .. Len(b)
  OBVIOUS
<1>7. ASSUME NEW i \in 1 .. Len(b)
      PROVE  f[i] \in Written /\ f[i].msg = RangeRecord(b[i]) /\ f[i].of = k
  <2>1. f[i] = [msg |-> RangeRecord(b[i]), of |-> k]
    BY <1>2, <1>5, <1>6 DEF Out
  <2>2. b[i] \in ProtoRecords
    OBVIOUS
  <2>3. RangeRecord(b[i]) \in Replies
    BY <2>2 DEF Replies
  <2> QED
    BY <2>1, <2>3 DEF Written
<1>8. f \in Seq(Written) /\ Len(f) = Len(b)
  <2>1. f \in [1 .. Len(b) -> Written]
    BY <1>2, <1>6, <1>7
  <2> QED
    BY <1>6, <2>1
<1>9. RecvEffect(c, b, f)
  BY <1>1, <1>3, <1>4, <1>5, <1>7, <1>8 DEF RecvEffect
<1> QED
  BY <1>9

\* What Answer appends: the reply to the message the handler works on.
AnswerEffect(c, w) ==
  /\ w \in Written /\ w.msg = reply_to(cur[c], oneshot[c]) /\ w.of = Len(handled[c])
  /\ wbuf'[c] = Append(wbuf[c], w) /\ \A d \in Conns \ {c} : wbuf'[d] = wbuf[d]

LEMMA AnswerWrites ==
  ASSUME RequestsInFlight, AnswersTyped, AnswersTyped', NEW c \in Conns, Answer(c), ~Fail(c)
  PROVE  \E w : AnswerEffect(c, w)
<1>1. wbuf' = [wbuf EXCEPT ![c] = Append(@, Out(c, reply_to(cur[c], oneshot[c])))]
  BY DEF Answer
<1>2. PICK msg : msg = reply_to(cur[c], oneshot[c])
  OBVIOUS
<1>3. PICK w : w = [msg |-> msg, of |-> Len(handled[c])]
  OBVIOUS
<1>4. w = Out(c, msg)
  BY <1>3, Zenon DEF Out
<1>5. w.msg = msg /\ w.of = Len(handled[c])
  BY <1>3
<1>6. DOMAIN wbuf = Conns
  BY DEF AnswersTyped
<1>7. wbuf'[c] = Append(wbuf[c], w) /\ \A d \in Conns \ {c} : wbuf'[d] = wbuf[d]
  BY <1>1, <1>2, <1>4, <1>6, Zenon
<1>8. w \in Written
  <2>1. PICK s \in Seq(Written) : s = wbuf[c]
    BY DEF AnswersTyped
  <2>2. Append(s, w) \in Seq(Written)
    BY <1>7, <2>1 DEF AnswersTyped
  <2>3. PICK S : S = Written \union {w}
    OBVIOUS
  <2>4. s \in Seq(S) /\ w \in S
    BY <2>3
  <2>5. Append(s, w)[Len(s) + 1] = w /\ Len(s) + 1 \in DOMAIN Append(s, w)
    BY <2>4
  <2> QED
    BY <2>2, <2>5
<1> QED
  BY <1>2, <1>5, <1>7, <1>8, Zenon DEF AnswerEffect

\* What Flush moves, when the handler does not fail.
FlushEffect(c, n) ==
  /\ n \in 0 .. Len(wbuf[c])
  /\ wbuf'[c] = SubSeq(wbuf[c], n + 1, Len(wbuf[c]))
  /\ down'[c] = IF sock[c] = "open" THEN down[c] \o SubSeq(wbuf[c], 1, n) ELSE down[c]
  /\ \A d \in Conns \ {c} : wbuf'[d] = wbuf[d] /\ down'[d] = down[d]
  /\ UNCHANGED hand \/ hand' = [hand EXCEPT ![c] = After(@)]
  /\ cur' = cur

LEMMA FlushWrites ==
  ASSUME AnswersTyped, NEW c \in Conns, Flush(c)
  PROVE  (Fail(c) /\ UNCHANGED down) \/ \E n : FlushEffect(c, n)
<1>1. CASE Fail(c) /\ UNCHANGED <<sock, down, frames_written, flushed>>
  BY <1>1
<1>2. ASSUME NEW n, n = (IF sock[c] # "open" \/ Len(wbuf[c]) < PathFrames - Len(down[c])
                         THEN Len(wbuf[c]) ELSE PathFrames - Len(down[c])),
             wbuf' = [wbuf EXCEPT ![c] = SubSeq(@, n + 1, Len(@))],
             IF sock[c] = "open" THEN down' = [down EXCEPT ![c] = @ \o SubSeq(wbuf[c], 1, n)]
             ELSE down' = down,
             hand' = [hand EXCEPT ![c] = After(@)] \/ UNCHANGED hand,
             cur' = cur
      PROVE  FlushEffect(c, n)
  <2>1. PICK w \in Seq(Written) : w = wbuf[c]
    BY DEF AnswersTyped
  <2>2. PICK p \in Seq(Written) : p = down[c]
    BY DEF AnswersTyped
  <2>3. Len(w) \in Nat /\ Len(p) \in Nat /\ Len(p) <= PathFrames /\ PathFrames \in Nat
    BY <2>2, ConnAssumption DEF AnswersTyped
  <2>4. n = IF sock[c] # "open" \/ Len(w) < PathFrames - Len(p) THEN Len(w) ELSE PathFrames - Len(p)
    BY <1>2, <2>1, <2>2, Zenon
  <2>5. n \in 0 .. Len(w)
    BY <2>3, <2>4
  <2>6. DOMAIN wbuf = Conns /\ DOMAIN down = Conns
    BY DEF AnswersTyped
  <2>7. wbuf'[c] = SubSeq(wbuf[c], n + 1, Len(wbuf[c])) /\ \A d \in Conns \ {c} : wbuf'[d] = wbuf[d]
    BY <1>2, <2>6, Zenon
  <2>8. /\ down'[c] = IF sock[c] = "open" THEN down[c] \o SubSeq(wbuf[c], 1, n) ELSE down[c]
        /\ \A d \in Conns \ {c} : down'[d] = down[d]
    BY <1>2, <2>6, Zenon
  <2> QED
    BY <1>2, <2>1, <2>5, <2>7, <2>8, Zenon DEF FlushEffect
<1>3. \/ Fail(c) /\ UNCHANGED <<sock, down, frames_written, flushed>>
      \/ \E n : /\ n = (IF sock[c] # "open" \/ Len(wbuf[c]) < PathFrames - Len(down[c])
                         THEN Len(wbuf[c]) ELSE PathFrames - Len(down[c]))
                /\ wbuf' = [wbuf EXCEPT ![c] = SubSeq(@, n + 1, Len(@))]
                /\ IF sock[c] = "open" THEN down' = [down EXCEPT ![c] = @ \o SubSeq(wbuf[c], 1, n)]
                   ELSE down' = down
                /\ hand' = [hand EXCEPT ![c] = After(@)] \/ UNCHANGED hand
                /\ cur' = cur
  BY Zenon DEF Flush
<1> QED
  BY <1>1, <1>2, <1>3

\* A handler that fails loses what it has not written.
LEMMA FailWrites ==
  ASSUME HandlersTyped, AnswersTyped, NEW c \in Conns, Fail(c)
  PROVE  /\ wbuf'[c] = <<>> /\ hand'[c] = "failed" /\ cur' = cur
         /\ \A d \in Conns \ {c} : wbuf'[d] = wbuf[d] /\ hand'[d] = hand[d]
BY DEF Fail, HandlersTyped, AnswersTyped

\* An answer that is on its way after a step was before it, or is new.
JustWritten(d, w) ==
  /\ w.of = Len(handled[d]) /\ handled' = handled /\ cur' = cur
  /\ \/ hand[d] = "records" /\ w.msg.type = "RangeRecord"
     \/ /\ hand[d] = "answer" /\ w.msg = reply_to(cur[d], oneshot[d])
        /\ cur[d].type # "Ping" => oneshot[d].is # "pending"
        /\ cur[d].type \notin {"Ping", "Range"} => oneshot[d].is # "dropped"
OnItsWay(d) == ToSet(wbuf[d]) \union ToSet(down[d])
WrittenBefore == \A d \in Conns : \A w \in OnItsWay(d)' : w \in OnItsWay(d) \/ JustWritten(d, w)

LEMMA ToSetConcat ==
  ASSUME NEW p \in Seq(Written), NEW q \in Seq(Written)
  PROVE  ToSet(p \o q) = ToSet(p) \union ToSet(q)
<1>1. /\ DOMAIN p = 1 .. Len(p) /\ DOMAIN q = 1 .. Len(q) /\ Len(p) \in Nat /\ Len(q) \in Nat
      /\ DOMAIN (p \o q) = 1 .. (Len(p) + Len(q))
      /\ \A x \in 1 .. Len(p) : (p \o q)[x] = p[x]
      /\ \A x \in 1 .. Len(q) : (p \o q)[Len(p) + x] = q[x]
  BY ConcatParts
<1>2. ASSUME NEW w \in ToSet(p \o q) PROVE w \in ToSet(p) \union ToSet(q)
  <2>1. PICK i \in 1 .. (Len(p) + Len(q)) : w = (p \o q)[i]
    BY <1>1 DEF ToSet
  <2>2. CASE i \in 1 .. Len(p)
    BY <1>1, <2>1, <2>2 DEF ToSet
  <2>3. CASE i \notin 1 .. Len(p)
    <3>1. i - Len(p) \in 1 .. Len(q) /\ i = Len(p) + (i - Len(p))
      BY <1>1, <2>3
    <3>2. w = q[i - Len(p)]
      BY <1>1, <2>1, <3>1
    <3> QED
      BY <1>1, <3>1, <3>2 DEF ToSet
  <2> QED
    BY <2>2, <2>3
<1>3. ASSUME NEW w \in ToSet(p) PROVE w \in ToSet(p \o q)
  <2>1. PICK i \in 1 .. Len(p) : w = p[i]
    BY <1>1 DEF ToSet
  <2>2. i \in 1 .. (Len(p) + Len(q)) /\ w = (p \o q)[i]
    BY <1>1, <2>1
  <2> QED
    BY <1>1, <2>2 DEF ToSet
<1>4. ASSUME NEW w \in ToSet(q) PROVE w \in ToSet(p \o q)
  <2>1. PICK i \in 1 .. Len(q) : w = q[i]
    BY <1>1 DEF ToSet
  <2>2. Len(p) + i \in 1 .. (Len(p) + Len(q)) /\ w = (p \o q)[Len(p) + i]
    BY <1>1, <2>1
  <2> QED
    BY <1>1, <2>2 DEF ToSet
<1> QED
  BY <1>2, <1>3, <1>4

LEMMA ToSetParts ==
  ASSUME NEW s \in Seq(Written)
  PROVE  /\ s # <<>> => ToSet(Tail(s)) \subseteq ToSet(s) /\ Head(s) \in ToSet(s)
         /\ \A n \in 0 .. Len(s) : /\ ToSet(SubSeq(s, 1, n)) \subseteq ToSet(s)
                                   /\ ToSet(SubSeq(s, n + 1, Len(s))) \subseteq ToSet(s)
         /\ \A w \in Written : ToSet(Append(s, w)) = ToSet(s) \union {w}
         /\ ToSet(<<>>) = {}
<1>1. ASSUME s # <<>> PROVE ToSet(Tail(s)) \subseteq ToSet(s) /\ Head(s) \in ToSet(s)
  <2>1. \A i \in DOMAIN Tail(s) : i + 1 \in DOMAIN s /\ Tail(s)[i] = s[i + 1]
    BY <1>1
  <2>2. 1 \in DOMAIN s /\ Head(s) = s[1]
    BY <1>1
  <2> QED
    BY <2>1, <2>2 DEF ToSet
<1>2. ASSUME NEW n \in 0 .. Len(s)
      PROVE  /\ ToSet(SubSeq(s, 1, n)) \subseteq ToSet(s)
             /\ ToSet(SubSeq(s, n + 1, Len(s))) \subseteq ToSet(s)
  <2>1. \A i \in DOMAIN SubSeq(s, 1, n) : i \in DOMAIN s /\ SubSeq(s, 1, n)[i] = s[i]
    OBVIOUS
  <2>2. \A i \in DOMAIN SubSeq(s, n + 1, Len(s)) :
          n + i \in DOMAIN s /\ SubSeq(s, n + 1, Len(s))[i] = s[n + i]
    OBVIOUS
  <2>3. ToSet(SubSeq(s, 1, n)) \subseteq ToSet(s)
    BY <2>1 DEF ToSet
  <2>4. ToSet(SubSeq(s, n + 1, Len(s))) \subseteq ToSet(s)
    BY <2>2 DEF ToSet
  <2> QED
    BY <2>3, <2>4
<1>3. ASSUME NEW w \in Written PROVE ToSet(Append(s, w)) = ToSet(s) \union {w}
  <2>1. /\ Len(s) \in Nat /\ DOMAIN s = 1 .. Len(s) /\ DOMAIN Append(s, w) = 1 .. (Len(s) + 1)
        /\ Append(s, w)[Len(s) + 1] = w /\ \A i \in 1 .. Len(s) : Append(s, w)[i] = s[i]
    OBVIOUS
  <2>2. ASSUME NEW x \in ToSet(Append(s, w)) PROVE x \in ToSet(s) \union {w}
    <3>1. PICK i \in 1 .. (Len(s) + 1) : x = Append(s, w)[i]
      BY <2>1 DEF ToSet
    <3>2. i \in 1 .. Len(s) \/ i = Len(s) + 1
      BY <2>1, <3>1
    <3> QED
      BY <2>1, <3>1, <3>2 DEF ToSet
  <2>3. ASSUME NEW x \in ToSet(s) \union {w} PROVE x \in ToSet(Append(s, w))
    <3>1. CASE x = w
      <4>1. Len(s) + 1 \in 1 .. (Len(s) + 1)
        BY <2>1
      <4> QED
        BY <2>1, <3>1, <4>1 DEF ToSet
    <3>2. CASE x \in ToSet(s)
      <4>1. PICK i \in 1 .. Len(s) : x = s[i]
        BY <2>1, <3>2 DEF ToSet
      <4>2. i \in 1 .. (Len(s) + 1) /\ x = Append(s, w)[i]
        BY <2>1, <4>1
      <4> QED
        BY <2>1, <4>2 DEF ToSet
    <3> QED
      BY <3>1, <3>2
  <2> QED
    BY <2>2, <2>3
<1>4. ToSet(<<>>) = {}
  BY DEF ToSet
<1> QED
  BY <1>1, <1>2, <1>3, <1>4

LEMMA NextWritten ==
  HandlersTyped /\ RequestsInFlight /\ AnswersTyped /\ [Next]_vars => WrittenBefore
<1> SUFFICES ASSUME HandlersTyped, RequestsInFlight, AnswersTyped, [Next]_vars PROVE WrittenBefore
  OBVIOUS
<1>1. \A d \in Conns : wbuf[d] \in Seq(Written) /\ down[d] \in Seq(Written)
  BY DEF AnswersTyped
<1>2. DOMAIN wbuf = Conns /\ DOMAIN down = Conns
  BY DEF AnswersTyped
<1>3. AnswersTyped'
  BY NextAnswers
<1>4. ASSUME UNCHANGED <<wbuf, down>> PROVE WrittenBefore
  BY <1>4, Zenon DEF WrittenBefore, OnItsWay
<1>5. ASSUME NEW c \in Conns, Fail(c), UNCHANGED down PROVE WrittenBefore
  <2>1. wbuf'[c] = <<>> /\ \A d \in Conns \ {c} : wbuf'[d] = wbuf[d]
    BY <1>5, FailWrites
  <2>2. ASSUME NEW d \in Conns, NEW w \in OnItsWay(d)' PROVE w \in OnItsWay(d)
    <3>1. w \in ToSet(wbuf'[d]) \/ w \in ToSet(down[d])
      BY <1>5, <2>2 DEF OnItsWay
    <3>2. ToSet(wbuf'[d]) \subseteq ToSet(wbuf[d])
      BY <2>1 DEF ToSet
    <3> QED
      BY <3>1, <3>2 DEF OnItsWay
  <2> QED
    BY <2>2 DEF WrittenBefore
<1>6. ASSUME NEW c \in Conns, Receive(c) \/ Close(c) PROVE WrittenBefore
  <2>1. PICK s \in Seq(Written) : s = down[c]
    BY <1>1
  <2>2. UNCHANGED wbuf /\ ToSet(down'[c]) \subseteq ToSet(s) /\ \A d \in Conns \ {c} : down'[d] = down[d]
    <3>1. CASE Receive(c)
      <4>1. s # <<>> /\ down' = [down EXCEPT ![c] = Tail(s)] /\ UNCHANGED wbuf
        BY <2>1, <3>1 DEF Receive, handlerVars
      <4>2. down'[c] = Tail(s) /\ \A d \in Conns \ {c} : down'[d] = down[d]
        BY <1>2, <4>1
      <4> QED
        BY <4>1, <4>2, ToSetParts
    <3>2. CASE Close(c)
      <4>1. down' = [down EXCEPT ![c] = <<>>] /\ UNCHANGED wbuf
        BY <3>2 DEF Close, handlerVars
      <4>2. down'[c] = <<>> /\ \A d \in Conns \ {c} : down'[d] = down[d]
        BY <1>2, <4>1
      <4> QED
        BY <4>1, <4>2 DEF ToSet
    <3> QED
      BY <1>6, <3>1, <3>2
  <2>3. ASSUME NEW d \in Conns PROVE OnItsWay(d)' \subseteq OnItsWay(d)
    <3>1. ToSet(down'[d]) \subseteq ToSet(down[d])
      BY <2>1, <2>2
    <3> QED
      BY <2>2, <3>1 DEF OnItsWay
  <2> QED
    BY <2>3 DEF WrittenBefore
<1>7. ASSUME NEW c \in Conns, RecvRecords(c) PROVE WrittenBefore
  <2>1. PICK b, f : RecvEffect(c, b, f)
    BY <1>7, RecvWrites
  <2>2. UNCHANGED <<handled, cur, down>> /\ hand[c] = "records"
    BY <1>7 DEF RecvRecords, netVars
  <2>3. ASSUME NEW w \in ToSet(f) PROVE JustWritten(c, w)
    <3>1. PICK i \in 1 .. Len(f) : w = f[i]
      BY <2>1, <2>3 DEF ToSet, RecvEffect
    <3>2. w.of = Len(handled[c]) /\ w.msg = RangeRecord(b[i])
      BY <2>1, <3>1 DEF RecvEffect
    <3>3. RangeRecord(b[i]).type = "RangeRecord"
      BY DEF RangeRecord
    <3>4. w.msg.type = "RangeRecord"
      BY <3>2, <3>3
    <3> QED
      BY <2>2, <3>2, <3>4, Zenon DEF JustWritten
  <2>4. ToSet(wbuf'[c]) = ToSet(wbuf[c]) \union ToSet(f)
    <3>1. wbuf'[c] = wbuf[c] \o f /\ f \in Seq(Written) /\ wbuf[c] \in Seq(Written)
      BY <1>1, <2>1 DEF RecvEffect
    <3> QED
      BY <3>1, ToSetConcat
  <2>5. \A d \in Conns \ {c} : wbuf'[d] = wbuf[d]
    BY <2>1 DEF RecvEffect
  <2>6. ASSUME NEW d \in Conns, NEW w \in OnItsWay(d)' PROVE w \in OnItsWay(d) \/ JustWritten(d, w)
    <3>1. w \in ToSet(wbuf'[d]) \/ w \in ToSet(down[d])
      BY <2>2, <2>6 DEF OnItsWay
    <3> QED
      BY <2>3, <2>4, <2>5, <3>1 DEF OnItsWay
  <2> QED
    BY <2>6 DEF WrittenBefore
<1>8. ASSUME NEW c \in Conns, Answer(c) PROVE WrittenBefore
  <2>1. UNCHANGED <<handled, down>> /\ hand[c] = "answer"
    BY <1>8 DEF Answer, netVars
  <2>2. CASE Fail(c)
    BY <1>5, <2>1, <2>2
  <2>3. CASE ~Fail(c)
    <3>1. PICK x : AnswerEffect(c, x)
      BY <1>3, <1>8, <2>3, AnswerWrites
    <3>2. cur' = cur
      BY <1>8, <2>3 DEF Answer
    <3>3. JustWritten(c, x)
      <4>1. /\ cur[c].type # "Ping" => oneshot[c].is # "pending"
            /\ cur[c].type \notin {"Ping", "Range"} => oneshot[c].is # "dropped"
        BY <1>8, <2>3 DEF Answer
      <4> QED
        BY <2>1, <3>1, <3>2, <4>1, Zenon DEF JustWritten, AnswerEffect
    <3>4. ToSet(wbuf'[c]) = ToSet(wbuf[c]) \union {x}
      <4>1. wbuf'[c] = Append(wbuf[c], x) /\ x \in Written /\ wbuf[c] \in Seq(Written)
        BY <1>1, <3>1 DEF AnswerEffect
      <4> QED
        BY <4>1, ToSetParts
    <3>5. \A d \in Conns \ {c} : wbuf'[d] = wbuf[d]
      BY <3>1 DEF AnswerEffect
    <3>6. ASSUME NEW d \in Conns, NEW w \in OnItsWay(d)' PROVE w \in OnItsWay(d) \/ JustWritten(d, w)
      <4>1. w \in ToSet(wbuf'[d]) \/ w \in ToSet(down[d])
        BY <2>1, <3>6 DEF OnItsWay
      <4> QED
        BY <3>3, <3>4, <3>5, <4>1 DEF OnItsWay
    <3> QED
      BY <3>6 DEF WrittenBefore
  <2> QED
    BY <2>2, <2>3
<1>9. ASSUME NEW c \in Conns, Flush(c) PROVE WrittenBefore
  <2>1. CASE Fail(c) /\ UNCHANGED down
    BY <1>5, <2>1
  <2>2. ASSUME NEW n, FlushEffect(c, n) PROVE WrittenBefore
    <3>1. PICK w \in Seq(Written) : w = wbuf[c]
      BY <1>1
    <3>2. PICK p \in Seq(Written) : p = down[c]
      BY <1>1
    <3>3. n \in 0 .. Len(w) /\ wbuf'[c] = SubSeq(w, n + 1, Len(w))
      BY <2>2, <3>1 DEF FlushEffect
    <3>4. down'[c] = p \/ down'[c] = p \o SubSeq(w, 1, n)
      BY <2>2, <3>1, <3>2 DEF FlushEffect
    <3>5. ToSet(SubSeq(w, 1, n)) \subseteq ToSet(w) /\ ToSet(SubSeq(w, n + 1, Len(w))) \subseteq ToSet(w)
      BY <3>3, ToSetParts
    <3>6. ToSet(p \o SubSeq(w, 1, n)) = ToSet(p) \union ToSet(SubSeq(w, 1, n))
      <4>1. SubSeq(w, 1, n) \in Seq(Written)
        BY <3>3, SubSeqType
      <4> QED
        BY <4>1, ToSetConcat
    <3>7. \A d \in Conns \ {c} : wbuf'[d] = wbuf[d] /\ down'[d] = down[d]
      BY <2>2 DEF FlushEffect
    <3>8. ToSet(wbuf'[c]) \subseteq ToSet(w) /\ ToSet(down'[c]) \subseteq ToSet(w) \union ToSet(p)
      BY <3>3, <3>4, <3>5, <3>6, Zenon
    <3>9. ASSUME NEW d \in Conns PROVE OnItsWay(d)' \subseteq OnItsWay(d)
      <4>1. CASE d = c
        BY <3>1, <3>2, <3>8, <4>1 DEF OnItsWay
      <4>2. CASE d # c
        BY <3>7, <4>2 DEF OnItsWay
      <4> QED
        BY <4>1, <4>2
    <3> QED
      BY <3>9 DEF WrittenBefore
  <2> QED
    BY <1>9, <2>1, <2>2, FlushWrites
<1>10. ASSUME NEW c \in Conns, SendCommand(c) \/ ReadEnd(c) PROVE WrittenBefore
  <2>1. UNCHANGED down /\ (Fail(c) \/ UNCHANGED wbuf)
    BY <1>10 DEF SendCommand, ReadEnd, netVars
  <2> QED
    BY <1>4, <1>5, <2>1
<1>11. ASSUME NEW c \in Conns,
              \/ Connect(c) \/ (\E req \in Requests[c] : Call(c, req)) \/ Arrive(c) \/ ReceiveClosed(c)
              \/ Cancel(c) \/ Accept(c) \/ StartHandler(c) \/ ReadFrame(c) \/ RecordsEnd(c)
              \/ TaskSends(c) \/ TaskEnds(c)
       PROVE  WrittenBefore
  <2>1. UNCHANGED <<wbuf, down>>
    BY <1>11 DEF Connect, Call, Arrive, ReceiveClosed, Cancel, Accept, StartHandler, ReadFrame,
                 RecordsEnd, TaskSends, TaskEnds, netVars, handlerVars
  <2> QED
    BY <1>4, <2>1
<1>12. CASE AcceptFails \/ Engine \/ EngineStops \/ UNCHANGED vars
  <2>1. UNCHANGED <<wbuf, down>>
    BY <1>12 DEF AcceptFails, Engine, EngineStops, vars, netVars, handlerVars
  <2> QED
    BY <1>4, <2>1
<1> QED
  BY <1>6, <1>7, <1>8, <1>9, <1>10, <1>11, <1>12 DEF Next, Handler, Client

\* Messages are only ever added to those decoded.
HandledGrows ==
  \A c \in Conns : \A k \in DOMAIN handled[c] : k \in DOMAIN handled'[c] /\ handled'[c][k] = handled[c][k]

LEMMA NextHandled == RequestsInFlight /\ [Next]_vars => HandledGrows
<1> SUFFICES ASSUME RequestsInFlight, [Next]_vars PROVE HandledGrows
  OBVIOUS
<1>1. ASSUME NEW c \in Conns, ReadFrame(c) PROVE HandledGrows
  <2>1. PICK req : req = server_decode(Head(up[c]))
    OBVIOUS
  <2>2. handled' = [handled EXCEPT ![c] = Append(@, req)] /\ req \in AllRequests
    BY <1>1, <2>1, ReadRequests DEF ReadFrame
  <2>3. handled \in [Conns -> Seq(AllRequests)]
    BY DEF RequestsInFlight
  <2>4. PICK s \in Seq(AllRequests) : s = handled[c]
    BY <2>3
  <2>5. handled'[c] = Append(s, req) /\ \A d \in Conns \ {c} : handled'[d] = handled[d]
    BY <2>2, <2>3, <2>4
  <2>6. \A k \in DOMAIN s : k \in DOMAIN Append(s, req) /\ Append(s, req)[k] = s[k]
    BY <2>2
  <2> QED
    BY <2>4, <2>5, <2>6, Zenon DEF HandledGrows
<1>2. CASE UNCHANGED handled
  BY <1>2 DEF HandledGrows
<1>3. ASSUME NEW c \in Conns,
             \/ Connect(c) \/ (\E req \in Requests[c] : Call(c, req)) \/ Client(c) \/ Cancel(c)
             \/ Close(c) \/ Accept(c) \/ TaskSends(c) \/ TaskEnds(c)
      PROVE  UNCHANGED handled
  BY <1>3, SMTT(30) DEF Connect, Call, Client, Arrive, Receive, ReceiveClosed, Cancel, Close, Accept, TaskSends,
              TaskEnds, handlerVars
<1>4. ASSUME NEW c \in Conns,
             \/ StartHandler(c) \/ ReadEnd(c) \/ SendCommand(c) \/ RecvRecords(c) \/ RecordsEnd(c)
             \/ Flush(c) \/ Answer(c)
      PROVE  UNCHANGED handled
  BY <1>4 DEF StartHandler, ReadEnd, SendCommand, RecvRecords, RecordsEnd, Flush, Answer
<1>5. ASSUME AcceptFails \/ Engine \/ EngineStops \/ UNCHANGED vars PROVE UNCHANGED handled
  BY <1>5 DEF AcceptFails, Engine, EngineStops, vars, handlerVars
<1> QED
  BY <1>1, <1>2, <1>3, <1>4, <1>5 DEF Next, Handler

LEMMA ReplyIs ==
  ASSUME NEW req, NEW a
  PROVE  /\ reply_to(req, a).type # "RangeRecord"
         /\ reply_to(req, a).type = "Metrics" => req.type = "Metrics" /\ reply_to(req, a) = MetricsJson(a.json)
<1>1. PICK msg : msg = reply_to(req, a)
  OBVIOUS
<1>2. \/ msg = MetricsJson(a.json) /\ req.type = "Metrics"
      \/ msg \in {InsertOk, RangeEnd, Pong, ErrorText("failed"), ErrorText("engine closed")}
  <2>1. CASE req.type = "Metrics"
    BY <1>1, <2>1 DEF reply_to, Inserts
  <2>2. CASE req.type # "Metrics"
    <3>1. PICK json : json = MetricsJson(a.json)
      OBVIOUS
    <3>2. msg \in {InsertOk, RangeEnd, Pong, ErrorText("failed"), ErrorText("engine closed")}
      BY <1>1, <2>2 DEF reply_to, Inserts
    <3> QED
      BY <3>2
  <2> QED
    BY <2>1, <2>2
<1>3. MetricsJson(a.json).type = "Metrics"
  BY DEF MetricsJson
<1>4. InsertOk.type = "InsertOk" /\ RangeEnd.type = "RangeEnd" /\ Pong.type = "Pong"
  BY DEF InsertOk, RangeEnd, Pong
<1>5. ErrorText("failed").type = "Error" /\ ErrorText("engine closed").type = "Error"
  BY DEF ErrorText
<1>6. CASE msg = MetricsJson(a.json) /\ req.type = "Metrics"
  BY <1>1, <1>3, <1>6
<1>7. CASE msg \in {InsertOk, RangeEnd, Pong, ErrorText("failed"), ErrorText("engine closed")}
  <2>1. msg.type \in {"InsertOk", "RangeEnd", "Pong", "Error"}
    BY <1>4, <1>5, <1>7
  <2> QED
    BY <1>1, <2>1
<1> QED
  BY <1>2, <1>6, <1>7

\* The message that a handler works on is the last it has decoded.
LEMMA WorksOn ==
  ASSUME RequestsInFlight, CommandsInFlight, NEW c \in Conns, hand[c] \in {"records", "answer"}
  PROVE  /\ Len(handled[c]) \in DOMAIN handled[c] /\ handled[c][Len(handled[c])] = cur[c]
         /\ hand[c] = "records" => cur[c].type = "Range"
<1>1. handled[c] # <<>> /\ handled[c][Len(handled[c])] = cur[c] /\ (hand[c] = "records" => cur[c].type = "Range")
  BY DEF CommandsInFlight, InStep, Working, InQuery
<1>2. handled[c] \in Seq(AllRequests)
  BY DEF RequestsInFlight
<1> QED
  BY <1>1, <1>2

AllToRequest == \A c \in Conns : \A w \in OnItsWay(c) : ToRequest(c, w)

LEMMA NextToRequest ==
  ASSUME RequestsInFlight, CommandsInFlight, AllToRequest, WrittenBefore, HandledGrows
  PROVE  AllToRequest'
<1> SUFFICES ASSUME NEW c \in Conns, NEW w \in OnItsWay(c)' PROVE ToRequest(c, w)'
  BY DEF AllToRequest
<1>1. CASE w \in OnItsWay(c)
  <2>1. ToRequest(c, w)
    BY <1>1 DEF AllToRequest
  <2>2. PICK k : k = w.of
    OBVIOUS
  <2>3. k \in DOMAIN handled[c] /\ k \in DOMAIN handled'[c] /\ handled'[c][k] = handled[c][k]
    BY <2>1, <2>2 DEF HandledGrows, ToRequest
  <2> QED
    BY <2>1, <2>2, <2>3, Zenon DEF ToRequest
<1>2. CASE JustWritten(c, w)
  <2>1. handled' = handled /\ w.of = Len(handled[c]) /\ hand[c] \in {"records", "answer"}
    BY <1>2 DEF JustWritten
  <2>2. /\ Len(handled[c]) \in DOMAIN handled[c] /\ handled[c][Len(handled[c])] = cur[c]
        /\ hand[c] = "records" => cur[c].type = "Range"
    BY <2>1, WorksOn
  <2>3. w.msg.type = "RangeRecord" => hand[c] = "records"
    BY <1>2, ReplyIs DEF JustWritten
  <2>4. ToRequest(c, w)
    BY <2>1, <2>2, <2>3, Zenon DEF ToRequest
  <2> QED
    BY <2>1, <2>4, Zenon DEF ToRequest
<1> QED
  BY <1>1, <1>2 DEF WrittenBefore

LEMMA DueType ==
  ASSUME RequestsInFlight, CallsNumbered, NEW c \in Conns
  PROVE  /\ Due(c) \in Int /\ Len(issued[c]) \in Nat /\ IsFiniteSet(cancelled[c])
         /\ Cardinality(cancelled[c]) \in Nat
<1>1. PICK n \in Nat : n = Len(issued[c])
  BY DEF RequestsInFlight
<1>2. cancelled[c] \in SUBSET (1 .. n)
  BY <1>1 DEF CallsNumbered, Numbered
<1>3. IsFiniteSet(1 .. n)
  BY FS_Interval
<1>4. IsFiniteSet(cancelled[c])
  BY <1>2, <1>3, FS_Subset
<1>5. Cardinality(cancelled[c]) \in Nat
  BY <1>4, FS_CardinalityType
<1> QED
  BY <1>1, <1>4, <1>5 DEF Due

\* What made a client's queries disorderly does not go away.
LEMMA OrderlyBack ==
  ASSUME RequestsInFlight, RequestsInFlight', IssuedGrows, NEW d \in Conns,
         cancelled[d] \subseteq cancelled'[d], Orderly(d, Len(issued[d]), cancelled[d])'
  PROVE  Orderly(d, Len(issued[d]), cancelled[d])
<1>1. PICK s \in Seq(AllRequests) : s = issued[d]
  BY DEF RequestsInFlight
<1>2. PICK t \in Seq(AllRequests) : t = issued'[d]
  BY DEF RequestsInFlight
<1>3. \A n \in 1 .. Len(s) : n \in 1 .. Len(t) /\ t[n] = s[n]
  <2>1. DOMAIN s = 1 .. Len(s) /\ DOMAIN t = 1 .. Len(t)
    OBVIOUS
  <2> QED
    BY <1>1, <1>2, <2>1, Zenon DEF IssuedGrows
<1>4. \A n \in 1 .. Len(t) : t[n].type = "Range" => \A m \in cancelled'[d] : n < m
  BY <1>2, Zenon DEF Orderly
<1>5. \A n \in 1 .. Len(s) : s[n].type = "Range" => \A m \in cancelled[d] : n < m
  BY <1>3, <1>4
<1> QED
  BY <1>1, <1>5, Zenon DEF Orderly

LEMMA ReadingBack ==
  ASSUME RequestsInFlight, RequestsInFlight', IssuedGrows, NEW d \in Conns,
         sock'[d] \in {"none", "open"} => sock[d] \in {"none", "open"}, result'[d] = result[d],
         cancelled[d] \subseteq cancelled'[d], Reading(d)'
  PROVE  Reading(d)
<1>1. ~FoundClosed(d)
  BY Zenon DEF Reading, FoundClosed
<1>2. Orderly(d, Len(issued[d]), cancelled[d])
  BY OrderlyBack DEF Reading
<1> QED
  BY <1>1, <1>2 DEF Reading

LineStays(d) == Reading(d)' => InLine(d)'

LEMMA SameLine ==
  ASSUME RequestsInFlight, RequestsInFlight', IssuedGrows, AnswersInLine, NEW d \in Conns,
         sock'[d] \in {"none", "open"} => sock[d] \in {"none", "open"}, result'[d] = result[d],
         cancelled[d] \subseteq cancelled'[d], Due(d)' = Due(d), Unread(d)' = Unread(d),
         Gone(d)' \/ (Ahead(d)' = Ahead(d) /\ ~Gone(d))
  PROVE  LineStays(d)
<1> SUFFICES ASSUME Reading(d)' PROVE InLine(d)'
  BY DEF LineStays
<1>1. InLine(d)
  BY ReadingBack DEF AnswersInLine
<1>2. PICK due : due = Due(d) /\ due = Due(d)'
  OBVIOUS
<1>3. PICK q : q = Unread(d) /\ q = Unread(d)'
  OBVIOUS
<1>4. Lined(q, due) /\ (~Gone(d) => EndOf(q, due) = Ahead(d))
  BY <1>1, <1>2, <1>3, Zenon DEF InLine
<1>5. Lined(Unread(d)', Due(d)')
  BY <1>2, <1>3, <1>4
<1>6. ~Gone(d)' => EndOf(Unread(d)', Due(d)') = Ahead(d)'
  BY <1>2, <1>3, <1>4
<1>7. Lined(Unread(d), Due(d))' /\ (~Gone(d)' => EndOf(Unread(d), Due(d))' = Ahead(d)')
  BY <1>5, <1>6 DEF Lined, EndOf, Following
<1> QED
  BY <1>7, Zenon DEF InLine

\* A step that reads and writes no answer of d.
LEMMA HandLine ==
  ASSUME RequestsInFlight, RequestsInFlight', IssuedGrows, AnswersInLine, NEW d \in Conns,
         sock'[d] = sock[d] \/ sock[d] = "none", call'[d] = call[d], issued'[d] = issued[d],
         cancelled'[d] = cancelled[d], result'[d] = result[d], down'[d] = down[d], wbuf'[d] = wbuf[d],
         \/ hand'[d] = hand[d] /\ handled'[d] = handled[d]
         \/ Gone(d)' \/ (Ahead(d)' = Ahead(d) /\ ~Gone(d))
  PROVE  LineStays(d)
<1>1. Due(d)' = Due(d)
  BY Zenon DEF Due
<1>2. Unread(d)' = Unread(d)
  BY Zenon DEF Unread
<1>3. Gone(d)' \/ (Ahead(d)' = Ahead(d) /\ ~Gone(d))
  <2>1. CASE hand'[d] = hand[d] /\ handled'[d] = handled[d]
    <3>1. Ahead(d)' = Ahead(d)
      BY <2>1, Zenon DEF Ahead
    <3>2. Gone(d)' <=> Gone(d)
      BY <2>1, Zenon DEF Gone
    <3> QED
      BY <3>1, <3>2
  <2> QED
    BY <2>1
<1> QED
  BY <1>1, <1>2, <1>3, SameLine

\* A new call: the answer that is due stays the same.
LEMMA CallLine ==
  ASSUME RequestsInFlight, RequestsInFlight', IssuedGrows, CallsNumbered, AnswersInLine, NEW c \in Conns,
         NEW req \in Requests[c], Call(c, req)
  PROVE  LineStays(c)
<1>1. /\ call[c].num = 0 /\ issued' = [issued EXCEPT ![c] = Append(@, req)]
      /\ call' = [call EXCEPT ![c] = [num |-> Len(issued[c]) + 1, req |-> req, seen |-> acked]]
      /\ UNCHANGED <<sock, cancelled, result, down, hand, handled, wbuf>>
  BY DEF Call, handlerVars
<1>2. PICK s \in Seq(AllRequests) : s = issued[c]
  BY DEF RequestsInFlight
<1>3. DOMAIN issued = Conns /\ DOMAIN call = Conns /\ req \in AllRequests
  BY DEF RequestsInFlight, CallsNumbered, AllRequests
<1>4. issued'[c] = Append(s, req) /\ call'[c] = [num |-> Len(s) + 1, req |-> req, seen |-> acked]
  BY <1>1, <1>2, <1>3, Zenon
<1>5. Len(issued'[c]) = Len(s) + 1 /\ Len(s) \in Nat
  BY <1>3, <1>4
<1>6. call'[c].num # 0
  <2>1. call'[c].num = Len(s) + 1
    BY <1>4
  <2> QED
    BY <1>5, <2>1
<1>7. PICK k \in Nat : k = Cardinality(cancelled[c])
  BY DueType
<1>8. Due(c)' = Len(s) + 1 + 0 - k
  BY <1>1, <1>5, <1>6, <1>7, Zenon DEF Due
<1>9. Due(c) = Len(s) + 1 - k
  BY <1>1, <1>2, <1>7, Zenon DEF Due
<1>10. Due(c)' = Due(c)
  BY <1>5, <1>7, <1>8, <1>9
<1>11. Unread(c)' = Unread(c) /\ Ahead(c)' = Ahead(c) /\ (Gone(c)' <=> Gone(c))
  BY <1>1, Zenon DEF Unread, Ahead, Gone
<1> QED
  BY <1>1, <1>10, <1>11, SameLine

\* A call that its caller drops: the client takes its answer for the next.
LEMMA CancelLine ==
  ASSUME RequestsInFlight, RequestsInFlight', IssuedGrows, CallsNumbered, AnswersInLine, NEW c \in Conns,
         Cancel(c)
  PROVE  LineStays(c)
<1>1. /\ call[c].num > 0 /\ call' = [call EXCEPT ![c] = Idle]
      /\ cancelled' = [cancelled EXCEPT ![c] = @ \union {call[c].num}]
      /\ UNCHANGED <<sock, issued, result, down, hand, handled, wbuf>>
  BY DEF Cancel, handlerVars, netVars
<1>2. DOMAIN call = Conns /\ DOMAIN cancelled = Conns
  BY DEF CallsNumbered
<1>3. PICK n : n = call[c].num
  OBVIOUS
<1>4. n \notin cancelled[c] /\ n # 0
  BY <1>1, <1>3 DEF CallsNumbered, Numbered
<1>5. cancelled'[c] = cancelled[c] \union {n} /\ call'[c].num = 0
  <2>1. call'[c] = Idle /\ cancelled'[c] = cancelled[c] \union {n}
    BY <1>1, <1>2, <1>3, Zenon
  <2> QED
    BY <2>1 DEF Idle
<1>6. PICK k \in Nat : k = Cardinality(cancelled[c])
  BY DueType
<1>7. Cardinality(cancelled[c] \union {n}) = k + 1
  BY <1>4, <1>6, DueType, FS_AddElement
<1>8. PICK m \in Nat : m = Len(issued[c])
  BY DueType
<1>9. Due(c) = m + 0 - k
  BY <1>3, <1>4, <1>6, <1>8, Zenon DEF Due
<1>10. Due(c)' = m + 1 - (k + 1)
  BY <1>1, <1>5, <1>7, <1>8, Zenon DEF Due
<1>11. Due(c)' = Due(c)
  BY <1>9, <1>10
<1>12. Unread(c)' = Unread(c) /\ Ahead(c)' = Ahead(c) /\ (Gone(c)' <=> Gone(c))
  BY <1>1, Zenon DEF Unread, Ahead, Gone
<1>13. cancelled[c] \subseteq cancelled'[c]
  BY <1>5
<1> QED
  BY <1>1, <1>11, <1>12, <1>13, SameLine

\* The handler fails: what it has not written is lost, and nothing follows.
LEMMA FailLine ==
  ASSUME HandlersTyped, RequestsInFlight, RequestsInFlight', AnswersTyped, IssuedGrows, CallsNumbered,
         AnswersInLine, NEW c \in Conns, Fail(c),
         UNCHANGED <<sock, call, issued, cancelled, result, down, handled>>
  PROVE  LineStays(c)
<1> SUFFICES ASSUME Reading(c)' PROVE InLine(c)'
  BY DEF LineStays
<1>1. wbuf'[c] = <<>> /\ Gone(c)'
  BY FailWrites DEF Gone
<1>2. InLine(c)
  BY ReadingBack DEF AnswersInLine
<1>3. PICK p \in Seq(Written) : p = down[c]
  BY DEF AnswersTyped
<1>4. PICK r \in Seq(Written) : r = wbuf[c]
  BY DEF AnswersTyped
<1>5. PICK due \in Int : due = Due(c)
  BY DueType
<1>6. due = Due(c)'
  BY <1>5, Zenon DEF Due
<1>7. Lined(p \o r, due)
  BY <1>2, <1>3, <1>4, <1>5, Zenon DEF InLine, Unread
<1>8. Lined(p \o <<>>, due)
  BY <1>7, LinedPrefix
<1>9. Unread(c)' = p \o <<>>
  BY <1>1, <1>3, Zenon DEF Unread
<1>10. Lined(Unread(c)', Due(c)')
  BY <1>6, <1>8, <1>9, Zenon
<1>11. Lined(Unread(c), Due(c))'
  BY <1>10 DEF Lined, Following
<1> QED
  BY <1>1, <1>11, Zenon DEF InLine

\* A flush moves answers along.
LEMMA FlushLine ==
  ASSUME HandlersTyped, RequestsInFlight, RequestsInFlight', AnswersTyped, IssuedGrows, CallsNumbered,
         AnswersInLine, NEW c \in Conns, Flush(c)
  PROVE  LineStays(c)
<1>1. UNCHANGED <<call, issued, cancelled, result, handled>> /\ hand[c] \in {"flush", "final flush", "reply"}
  BY DEF Flush
<1>2. sock[c] # "none" /\ DOMAIN sock = Conns /\ sock[c] \in SockStates /\ DOMAIN hand = Conns
  BY <1>1 DEF HandlersTyped
<1>3. CASE sock[c] # "open"
  <2>1. sock'[c] \notin {"none", "open"}
    <3>1. UNCHANGED sock \/ \E n : sock' = [sock EXCEPT ![c] = IF n > 0 THEN "rst" ELSE @]
      BY Zenon DEF Flush
    <3> QED
      BY <1>2, <1>3, <3>1
  <2> QED
    BY <2>1 DEF LineStays, Reading
<1>4. CASE sock[c] = "open"
  <2>1. UNCHANGED sock /\ \E n : FlushEffect(c, n)
    <3>1. UNCHANGED sock
      BY <1>4, Zenon DEF Flush
    <3>2. ~Fail(c)
      <4>1. hand' = [hand EXCEPT ![c] = After(@)] \/ UNCHANGED hand
        BY <1>4, Zenon DEF Flush
      <4>2. hand'[c] \in {"flush", "final flush", "reply", "records", "answer", "reading"}
        BY <1>1, <1>2, <4>1 DEF After
      <4> QED
        BY <1>2, <4>2 DEF Fail
    <3> QED
      BY <3>1, <3>2, FlushWrites
  <2>2. PICK n : FlushEffect(c, n)
    BY <2>1
  <2>3. PICK p \in Seq(Written) : p = down[c]
    BY DEF AnswersTyped
  <2>4. PICK w \in Seq(Written) : w = wbuf[c]
    BY DEF AnswersTyped
  <2>5. /\ n \in 0 .. Len(w) /\ wbuf'[c] = SubSeq(w, n + 1, Len(w))
        /\ down'[c] = p \o SubSeq(w, 1, n)
    BY <1>4, <2>2, <2>3, <2>4 DEF FlushEffect
  <2>6. Unread(c)' = Unread(c)
    <3>1. (p \o SubSeq(w, 1, n)) \o SubSeq(w, n + 1, Len(w)) = p \o w
      BY <2>5, Flushed
    <3> QED
      BY <2>3, <2>4, <2>5, <3>1, Zenon DEF Unread
  <2>7. Due(c)' = Due(c)
    BY <1>1, Zenon DEF Due
  <2>8. hand'[c] = hand[c] \/ hand'[c] = After(hand[c])
    BY <1>2, <2>2 DEF FlushEffect
  <2>9. Ahead(c)' = Ahead(c) /\ ~Gone(c)
    BY <1>1, <2>8 DEF Ahead, After, Gone, Working, InQuery
  <2> QED
    BY <1>1, <2>1, <2>6, <2>7, <2>9, SameLine
<1> QED
  BY <1>3, <1>4

\* The records of a batch follow those written before them.
LEMMA RecvLine ==
  ASSUME HandlersTyped, RequestsInFlight, RequestsInFlight', AnswersTyped, IssuedGrows, CallsNumbered,
         AnswersInLine, NEW c \in Conns, RecvRecords(c)
  PROVE  LineStays(c)
<1> SUFFICES ASSUME Reading(c)' PROVE InLine(c)'
  BY DEF LineStays
<1>1. UNCHANGED <<sock, call, issued, cancelled, result, handled, down>> /\ hand[c] = "records"
  BY DEF RecvRecords, clientVars, netVars
<1>2. hand'[c] \in {"flush", "records"}
  <2>1. \E b : hand' = [hand EXCEPT ![c] = IF WBytes(b) > FLUSH_THRESHOLD THEN "flush" ELSE "records"]
    BY Zenon DEF RecvRecords
  <2> QED
    BY <2>1 DEF HandlersTyped
<1>3. InLine(c)
  BY <1>1, ReadingBack DEF AnswersInLine
<1>4. PICK b, f : RecvEffect(c, b, f)
  BY RecvWrites
<1>5. f \in Seq(Written) /\ wbuf'[c] = wbuf[c] \o f
  BY <1>4 DEF RecvEffect
<1>6. PICK p \in Seq(Written) : p = down[c]
  BY DEF AnswersTyped
<1>7. PICK w \in Seq(Written) : w = wbuf[c]
  BY DEF AnswersTyped
<1>8. PICK due \in Int : due = Due(c)
  BY DueType
<1>9. due = Due(c)'
  BY <1>1, <1>8, Zenon DEF Due
<1>10. PICK q \in Seq(Written) : q = p \o w
  <2>1. p \o w \in Seq(Written)
    OBVIOUS
  <2> QED
    BY <2>1, Zenon
<1>11. Ahead(c) = Len(handled[c]) /\ Ahead(c)' = Len(handled[c]) /\ ~Gone(c)
  BY <1>1, <1>2 DEF Ahead, Gone, Working, InQuery
<1>12. Lined(q, due) /\ EndOf(q, due) = Len(handled[c])
  BY <1>3, <1>6, <1>7, <1>8, <1>10, <1>11, Zenon DEF InLine, Unread
<1>13. ASSUME NEW i \in 1 .. Len(f) PROVE f[i].msg.type = "RangeRecord" /\ f[i].of = EndOf(q, due)
  <2>1. f[i].msg = RangeRecord(b[i]) /\ f[i].of = Len(handled[c])
    BY <1>4 DEF RecvEffect
  <2>2. RangeRecord(b[i]).type = "RangeRecord"
    BY DEF RangeRecord
  <2> QED
    BY <1>12, <2>1, <2>2
<1>14. Lined(q \o f, due) /\ EndOf(q \o f, due) = EndOf(q, due)
  BY <1>5, <1>12, <1>13, LinedRecords
<1>15. Unread(c)' = q \o f
  <2>1. p \o (w \o f) = (p \o w) \o f
    BY <1>5
  <2> QED
    BY <1>1, <1>5, <1>6, <1>7, <1>10, <2>1, Zenon DEF Unread
<1>16. Lined(Unread(c)', Due(c)') /\ EndOf(Unread(c)', Due(c)') = Ahead(c)'
  BY <1>9, <1>11, <1>12, <1>14, <1>15
<1>17. Lined(Unread(c), Due(c))' /\ EndOf(Unread(c), Due(c))' = Ahead(c)'
  BY <1>16 DEF Lined, EndOf, Following
<1> QED
  BY <1>17, Zenon DEF InLine

\* The reply is the last answer to its request.
LEMMA AnswerLine ==
  ASSUME HandlersTyped, RequestsInFlight, RequestsInFlight', AnswersTyped, AnswersTyped', IssuedGrows,
         CallsNumbered, AnswersInLine, NEW c \in Conns, Answer(c)
  PROVE  LineStays(c)
<1>1. UNCHANGED <<sock, call, issued, cancelled, result, handled, down>> /\ hand[c] = "answer"
  BY DEF Answer, clientVars, netVars
<1>2. CASE Fail(c)
  BY <1>1, <1>2, FailLine
<1>3. CASE ~Fail(c)
  <2> SUFFICES ASSUME Reading(c)' PROVE InLine(c)'
    BY DEF LineStays
  <2>1. hand'[c] = "reply"
    BY <1>3 DEF Answer, HandlersTyped
  <2>2. InLine(c)
    BY <1>1, ReadingBack DEF AnswersInLine
  <2>3. PICK x : AnswerEffect(c, x)
    BY <1>3, AnswerWrites
  <2>4. x \in Written /\ wbuf'[c] = Append(wbuf[c], x) /\ x.of = Len(handled[c])
    BY <2>3 DEF AnswerEffect
  <2>5. x.msg.type # "RangeRecord"
    <3>1. x.msg = reply_to(cur[c], oneshot[c])
      BY <2>3 DEF AnswerEffect
    <3>2. reply_to(cur[c], oneshot[c]).type # "RangeRecord"
      BY ReplyIs
    <3> QED
      BY <3>1, <3>2, Zenon
  <2>6. PICK p \in Seq(Written) : p = down[c]
    BY DEF AnswersTyped
  <2>7. PICK w \in Seq(Written) : w = wbuf[c]
    BY DEF AnswersTyped
  <2>8. PICK due \in Int : due = Due(c)
    BY DueType
  <2>9. due = Due(c)'
    BY <1>1, <2>8, Zenon DEF Due
  <2>10. PICK q \in Seq(Written) : q = p \o w
    <3>1. p \o w \in Seq(Written)
      OBVIOUS
    <3> QED
      BY <3>1, Zenon
  <2>11. Ahead(c) = Len(handled[c]) /\ Ahead(c)' = Len(handled[c]) + 1 /\ ~Gone(c)
    BY <1>1, <2>1 DEF Ahead, Gone, Working, InQuery
  <2>12. Lined(q, due) /\ EndOf(q, due) = x.of
    BY <2>2, <2>4, <2>6, <2>7, <2>8, <2>10, <2>11, Zenon DEF InLine, Unread
  <2>13. Lined(Append(q, x), due) /\ EndOf(Append(q, x), due) = Following(x)
    BY <2>4, <2>12, LinedAppend
  <2>14. Following(x) = Len(handled[c]) + 1
    BY <2>4, <2>5 DEF Following
  <2>15. Unread(c)' = Append(q, x)
    <3>1. p \o Append(w, x) = Append(p \o w, x)
      BY <2>4
    <3> QED
      BY <1>1, <2>4, <2>6, <2>7, <2>10, <3>1, Zenon DEF Unread
  <2>16. Lined(Unread(c)', Due(c)') /\ EndOf(Unread(c)', Due(c)') = Ahead(c)'
    BY <2>9, <2>11, <2>13, <2>14, <2>15
  <2>17. Lined(Unread(c), Due(c))' /\ EndOf(Unread(c), Due(c))' = Ahead(c)'
    BY <2>16 DEF Lined, EndOf, Following
  <2> QED
    BY <2>17, Zenon DEF InLine
<1> QED
  BY <1>2, <1>3

\* Whoever takes an answer has not found the connection closed: the frame of
\* the call has arrived as a whole.
LEMMA ReceiveReads ==
  ASSUME CallsNumbered, BytesArrive, AnswersTyped, AnswersInLine, NEW c \in Conns, Receive(c),
         Orderly(c, Len(issued[c]), cancelled[c])
  PROVE  Reading(c) /\ InLine(c)
<1>1. call[c].num > 0 /\ arrived[c] = Bytes(up[c])
  BY DEF Receive
<1>2. PICK a \in Nat : a = arrived[c]
  BY DEF BytesArrive
<1>3. ~FoundClosed(c)
  BY <1>1, <1>2 DEF BytesArrive, Arrives
<1>4. sock[c] = "open"
  BY <1>1 DEF CallsNumbered, Numbered
<1> QED
  BY <1>3, <1>4 DEF Reading, AnswersInLine

\* What Receive takes is the first answer that the client has not read.
LEMMA ReceiveTakes ==
  ASSUME AnswersTyped, NEW c \in Conns, Receive(c)
  PROVE  \E q \in Seq(Written) :
           /\ q = Unread(c) /\ q # <<>> /\ q[1] = Head(down[c]) /\ q[1] \in Written
           /\ q[1] \in ToSet(down[c]) /\ Unread(c)' = Tail(q)
<1>1. PICK s \in Seq(Written) : s = down[c]
  BY DEF AnswersTyped
<1>2. PICK w \in Seq(Written) : w = wbuf[c]
  BY DEF AnswersTyped
<1>3. s # <<>> /\ down' = [down EXCEPT ![c] = Tail(@)] /\ UNCHANGED wbuf
  BY <1>1 DEF Receive, handlerVars
<1>4. down'[c] = Tail(s)
  BY <1>1, <1>3 DEF AnswersTyped
<1>5. PICK q \in Seq(Written) : q = s \o w
  <2>1. s \o w \in Seq(Written)
    OBVIOUS
  <2> QED
    BY <2>1, Zenon
<1>6. q # <<>> /\ q[1] = Head(s) /\ Tail(s) \o w = Tail(q)
  <2>1. PICK n \in Nat : Len(s) = n + 1
    <3>1. Len(s) - 1 \in Nat /\ Len(s) = (Len(s) - 1) + 1
      BY <1>3
    <3> QED
      BY <3>1
  <2>2. PICK t \in Seq(Written) : t = Tail(s)
    BY <1>3, TailType
  <2>3. Len(t) = n /\ \A i \in 1 .. n : t[i] = s[i + 1]
    BY <2>1, <2>2
  <2>4. PICK m \in Nat : m = Len(w)
    OBVIOUS
  <2>5. /\ Len(q) = n + 1 + m /\ (\A i \in 1 .. (n + 1) : q[i] = s[i])
        /\ \A i \in 1 .. m : q[n + 1 + i] = w[i]
    <3>1. /\ Len(q) = Len(s) + m /\ (\A i \in 1 .. Len(s) : q[i] = s[i])
          /\ \A i \in 1 .. m : q[Len(s) + i] = w[i]
      BY <1>5, <2>4
    <3> QED
      BY <2>1, <3>1
  <2>6. q # <<>> /\ q[1] = s[1] /\ Head(s) = s[1]
    BY <1>3, <2>1, <2>4, <2>5
  <2>7. PICK u \in Seq(Written) : u = Tail(q)
    BY <2>6, TailType
  <2>8. Len(u) = n + m /\ \A i \in 1 .. (n + m) : u[i] = q[i + 1]
    BY <2>4, <2>5, <2>6, <2>7
  <2>9. PICK v \in Seq(Written) : v = t \o w
    <3>1. t \o w \in Seq(Written)
      OBVIOUS
    <3> QED
      BY <3>1, Zenon
  <2>10. Len(v) = n + m /\ (\A i \in 1 .. n : v[i] = t[i]) /\ \A i \in 1 .. m : v[n + i] = w[i]
    <3>1. /\ Len(v) = Len(t) + m /\ (\A i \in 1 .. Len(t) : v[i] = t[i])
          /\ \A i \in 1 .. m : v[Len(t) + i] = w[i]
      BY <2>4, <2>9
    <3> QED
      BY <2>3, <3>1
  <2>11. ASSUME NEW i \in 1 .. (n + m) PROVE u[i] = v[i]
    <3>1. CASE i <= n
      <4>1. i \in 1 .. n /\ i + 1 \in 1 .. (n + 1)
        BY <3>1
      <4> QED
        BY <2>3, <2>5, <2>8, <2>10, <4>1
    <3>2. CASE i > n
      <4>1. PICK j \in 1 .. m : i = n + j
        <5>1. i - n \in 1 .. m /\ i = n + (i - n)
          BY <3>2
        <5> QED
          BY <5>1
      <4>2. i + 1 = n + 1 + j
        BY <4>1
      <4>3. u[i] = q[n + 1 + j] /\ v[i] = w[j]
        BY <2>8, <2>10, <4>1, <4>2
      <4> QED
        BY <2>5, <4>1, <4>3
    <3> QED
      BY <3>1, <3>2
  <2>12. u = v
    BY <2>8, <2>10, <2>11
  <2> QED
    BY <2>2, <2>6, <2>7, <2>9, <2>12
<1>7. q[1] \in Written /\ q[1] \in ToSet(s)
  BY <1>3, <1>6, TailType, ToSetParts
<1>8. Unread(c) = q /\ Unread(c)' = Tail(q)
  BY <1>1, <1>2, <1>3, <1>4, <1>5, <1>6, Zenon DEF Unread
<1> QED
  BY <1>1, <1>6, <1>7, <1>8

\* A record is never taken for an answer of another kind: the call under way
\* is the query it belongs to.
LEMMA RecordsOfQuery ==
  ASSUME RequestsInFlight, CallsNumbered, NEW c \in Conns, call[c].num > 0,
         Orderly(c, Len(issued[c]), cancelled[c]), NEW w, ToRequest(c, w), w.msg.type = "RangeRecord",
         w.of = Due(c)
  PROVE  call[c].req.type = "Range"
<1>1. PICK s \in Seq(AllRequests) : s = issued[c]
  BY DEF RequestsInFlight
<1>2. PICK n \in Nat : n = Len(s)
  OBVIOUS
<1>3. /\ call[c].num = n /\ n # 0 /\ call[c].req = s[n] /\ n \notin cancelled[c]
      /\ cancelled[c] \subseteq 1 .. n
  BY <1>1, <1>2 DEF CallsNumbered, Numbered
<1>4. PICK k : k = w.of
  OBVIOUS
<1>5. k \in 1 .. n /\ s[k].type = "Range"
  <2>1. PICK h \in Seq(AllRequests) : h = handled[c]
    BY DEF RequestsInFlight
  <2>2. Len(h) + Len(up[c]) = n /\ Len(up[c]) \in Nat /\ \A i \in 1 .. Len(h) : h[i] = s[i]
    BY <1>1, <1>2, <2>1 DEF RequestsInFlight
  <2>3. k \in DOMAIN h /\ h[k].type = "Range"
    BY <1>4, <2>1 DEF ToRequest
  <2> QED
    BY <1>2, <2>2, <2>3
<1>6. \A m \in cancelled[c] : k < m
  BY <1>1, <1>2, <1>5, Zenon DEF Orderly
<1>7. PICK x \in Nat : x = Cardinality(cancelled[c])
  BY DueType
<1>8. k = n - x
  <2>1. Due(c) = n + 0 - x
    BY <1>1, <1>2, <1>3, <1>7, Zenon DEF Due
  <2> QED
    BY <1>4, <2>1
<1>9. cancelled[c] \in SUBSET ((k + 1) .. (n - 1))
  BY <1>3, <1>5, <1>6
<1>10. IsFiniteSet((k + 1) .. (n - 1)) /\ Cardinality((k + 1) .. (n - 1)) = IF k + 1 > n - 1 THEN 0 ELSE n - 1 - k
  <2>1. k + 1 \in Int /\ n - 1 \in Int
    BY <1>5
  <2>2. Cardinality((k + 1) .. (n - 1)) = IF k + 1 > n - 1 THEN 0 ELSE (n - 1) - (k + 1) + 1
    BY <2>1, FS_Interval
  <2> QED
    BY <1>5, <2>1, <2>2, FS_Interval
<1>11. x <= (IF k + 1 > n - 1 THEN 0 ELSE n - 1 - k)
  BY <1>7, <1>9, <1>10, FS_Subset
<1>12. x = 0 /\ k = n
  BY <1>5, <1>8, <1>11
<1> QED
  BY <1>3, <1>5, <1>12

LEMMA ReceiveLine ==
  ASSUME RequestsInFlight, RequestsInFlight', AnswersTyped, IssuedGrows, CallsNumbered, BytesArrive,
         AnswersInLine, NEW c \in Conns, Receive(c)
  PROVE  LineStays(c)
<1> SUFFICES ASSUME Reading(c)' PROVE InLine(c)'
  BY DEF LineStays
<1>1. UNCHANGED <<sock, issued, cancelled, hand, handled>> /\ call[c].num > 0
  BY DEF Receive, handlerVars
<1>2. Orderly(c, Len(issued[c]), cancelled[c])
  BY <1>1, OrderlyBack DEF Reading
<1>3. InLine(c)
  BY <1>2, ReceiveReads
<1>4. PICK q \in Seq(Written) : /\ q = Unread(c) /\ q # <<>> /\ q[1] = Head(down[c]) /\ q[1] \in Written
                                /\ q[1] \in ToSet(down[c]) /\ Unread(c)' = Tail(q)
  BY ReceiveTakes
<1>5. PICK due \in Int : due = Due(c)
  BY DueType
<1>6. PICK w : w = q[1]
  OBVIOUS
<1>7. ToRequest(c, w)
  BY <1>4, <1>6 DEF AnswersInLine
<1>8. Lined(q, due) /\ (~Gone(c) => EndOf(q, due) = Ahead(c))
  BY <1>3, <1>4, <1>5, Zenon DEF InLine
<1>9. w.of = due /\ Lined(Tail(q), Following(w)) /\ EndOf(Tail(q), Following(w)) = EndOf(q, due)
  BY <1>4, <1>6, <1>8, LinedTail
<1>10. Due(c)' = Following(w)
  <2>1. PICK n \in Nat : n = Len(issued[c])
    BY DueType
  <2>2. PICK k \in Nat : k = Cardinality(cancelled[c])
    BY DueType
  <2>3. due = n + 0 - k
    <3>1. call[c].num # 0
      BY <1>1
    <3> QED
      BY <1>5, <2>1, <2>2, <3>1, Zenon DEF Due
  <2>4. CASE Ends(call[c].req, w.msg)
    <3>1. Return(c, w.msg, w.of)
      BY <1>4, <1>6, <2>4, Zenon DEF Receive
    <3>2. call' = [call EXCEPT ![c] = Idle] /\ DOMAIN call = Conns
      BY <3>1 DEF Return, CallsNumbered
    <3>3. call'[c].num = 0
      BY <3>2 DEF Idle
    <3>4. Due(c)' = n + 1 - k
      BY <1>1, <2>1, <2>2, <3>3, Zenon DEF Due
    <3>5. w.msg.type # "RangeRecord"
      BY <1>1, <1>2, <1>5, <1>7, <1>9, <2>4, RecordsOfQuery DEF Ends
    <3>6. Following(w) = due + 1
      BY <1>9, <3>5 DEF Following
    <3> QED
      BY <2>3, <3>4, <3>6
  <2>5. CASE ~Ends(call[c].req, w.msg)
    <3>1. UNCHANGED call
      BY <1>4, <1>6, <2>5, Zenon DEF Receive
    <3>2. Due(c)' = due
      BY <1>1, <1>5, <3>1, Zenon DEF Due
    <3>3. Following(w) = due
      BY <1>9, <2>5 DEF Following, Ends
    <3> QED
      BY <3>2, <3>3
  <2> QED
    BY <2>4, <2>5
<1>11. Ahead(c)' = Ahead(c) /\ (Gone(c)' <=> Gone(c))
  BY <1>1, Zenon DEF Ahead, Gone
<1>12. Lined(Unread(c)', Due(c)') /\ (~Gone(c)' => EndOf(Unread(c)', Due(c)') = Ahead(c)')
  BY <1>4, <1>8, <1>9, <1>10, <1>11
<1>13. Lined(Unread(c), Due(c))' /\ (~Gone(c)' => EndOf(Unread(c), Due(c))' = Ahead(c)')
  BY <1>12 DEF Lined, EndOf, Following
<1> QED
  BY <1>13, Zenon DEF InLine

\* Every step keeps the answers in line.
LEMMA NextInLine ==
  ASSUME HandlersTyped, RequestsInFlight, AnswersTyped, InsertsInFlight, CallsNumbered, BytesArrive,
         AnswersInLine, [Next]_vars, NEW d \in Conns
  PROVE  LineStays(d)
<1>1. RequestsInFlight' /\ AnswersTyped' /\ IssuedGrows
  BY NextRequests, NextAnswers, NextIssued
<1>2. /\ DOMAIN hand = Conns /\ DOMAIN sock = Conns /\ DOMAIN handled = Conns /\ DOMAIN call = Conns
      /\ DOMAIN issued = Conns /\ DOMAIN cancelled = Conns /\ DOMAIN result = Conns
      /\ DOMAIN down = Conns /\ DOMAIN wbuf = Conns
  BY DEF HandlersTyped, RequestsInFlight, AnswersTyped, CallsNumbered, InsertsInFlight
<1>3. ASSUME NEW c \in Conns, NEW req \in Requests[c], Call(c, req) PROVE LineStays(d)
  <2>1. CASE d = c
    BY <1>1, <1>3, <2>1, CallLine
  <2>2. CASE d # c
    <3>1. /\ issued'[d] = issued[d] /\ call'[d] = call[d]
          /\ UNCHANGED <<sock, cancelled, result, down, wbuf, hand, handled>>
      BY <1>2, <1>3, <2>2 DEF Call, handlerVars
    <3> QED
      BY <1>1, <3>1, HandLine
  <2> QED
    BY <2>1, <2>2
<1>4. ASSUME NEW c \in Conns, Cancel(c) PROVE LineStays(d)
  <2>1. CASE d = c
    BY <1>1, <1>4, <2>1, CancelLine
  <2>2. CASE d # c
    <3>1. /\ cancelled'[d] = cancelled[d] /\ call'[d] = call[d]
          /\ UNCHANGED <<sock, issued, result, down, wbuf, hand, handled>>
      BY <1>2, <1>4, <2>2 DEF Cancel, handlerVars, netVars
    <3> QED
      BY <1>1, <3>1, HandLine
  <2> QED
    BY <2>1, <2>2
<1>5. ASSUME NEW c \in Conns, Receive(c) PROVE LineStays(d)
  <2>1. CASE d = c
    BY <1>1, <1>5, <2>1, ReceiveLine
  <2>2. CASE d # c
    <3>1. UNCHANGED <<sock, cancelled, issued, wbuf, hand, handled>> /\ down'[d] = down[d]
      BY <1>2, <1>5, <2>2 DEF Receive, handlerVars
    <3>2. PICK w : w = Head(down[c])
      OBVIOUS
    <3>3. Return(c, w.msg, w.of) \/ UNCHANGED <<result, call>>
      BY <1>5, <3>2, Zenon DEF Receive
    <3>4. result'[d] = result[d] /\ call'[d] = call[d]
      <4>1. CASE Return(c, w.msg, w.of)
        <5>1. PICK r : result' = [result EXCEPT ![c] = r] /\ call' = [call EXCEPT ![c] = Idle]
          BY <4>1, ReturnedCall
        <5> QED
          BY <1>2, <2>2, <5>1
      <4> QED
        BY <3>3, <4>1
    <3> QED
      BY <1>1, <3>1, <3>4, HandLine
  <2> QED
    BY <2>1, <2>2
<1>6. ASSUME NEW c \in Conns, ReceiveClosed(c) PROVE LineStays(d)
  <2>1. Return(c, [type |-> "closed"], 0) /\ call[c].num > 0
    BY <1>6 DEF ReceiveClosed
  <2>2. PICK r : /\ result' = [result EXCEPT ![c] = r] /\ call' = [call EXCEPT ![c] = Idle]
                 /\ r.msg = [type |-> "closed"] /\ r.num = call[c].num
    BY <2>1, ReturnedCall
  <2>3. CASE d = c
    <3>1. result'[d] = r
      BY <1>2, <2>2, <2>3
    <3>2. r.num > 0 /\ r.msg.type = "closed"
      BY <2>1, <2>2
    <3>3. FoundClosed(d)'
      BY <3>1, <3>2, Zenon DEF FoundClosed
    <3> QED
      BY <3>3, Zenon DEF LineStays, Reading
  <2>4. CASE d # c
    <3>1. UNCHANGED <<sock, cancelled, issued, wbuf, hand, handled, down>>
      BY <1>6 DEF ReceiveClosed, handlerVars, netVars
    <3>2. result'[d] = result[d] /\ call'[d] = call[d]
      BY <1>2, <2>2, <2>4
    <3> QED
      BY <1>1, <3>1, <3>2, HandLine
  <2> QED
    BY <2>3, <2>4
<1>7. ASSUME NEW c \in Conns, Close(c) PROVE LineStays(d)
  <2>1. CASE d = c
    <3>1. sock'[d] \notin {"none", "open"}
      BY <1>2, <1>7, <2>1 DEF Close
    <3> QED
      BY <3>1, Zenon DEF LineStays, Reading
  <2>2. CASE d # c
    <3>1. /\ UNCHANGED <<cancelled, issued, call, result, wbuf, hand, handled>>
          /\ down'[d] = down[d] /\ sock'[d] = sock[d]
      BY <1>2, <1>7, <2>2 DEF Close, handlerVars
    <3> QED
      BY <1>1, <3>1, HandLine
  <2> QED
    BY <2>1, <2>2
<1>8. ASSUME NEW c \in Conns, Connect(c) PROVE LineStays(d)
  <2>1. UNCHANGED <<cancelled, issued, call, result, wbuf, handled, down>>
    BY <1>8 DEF Connect, netVars
  <2>2. CASE d = c
    <3>1. sock[d] = "none" /\ hand[d] = "none" /\ hand'[d] = "backlog"
      BY <1>2, <1>8, <2>2 DEF Connect, HandlersTyped
    <3>2. Ahead(d)' = Ahead(d) /\ ~Gone(d)
      BY <2>1, <3>1 DEF Ahead, Gone, Working, InQuery
    <3> QED
      BY <1>1, <2>1, <3>1, <3>2, HandLine
  <2>3. CASE d # c
    <3>1. hand'[d] = hand[d] /\ sock'[d] = sock[d]
      BY <1>2, <1>8, <2>3 DEF Connect
    <3> QED
      BY <1>1, <2>1, <3>1, HandLine
  <2> QED
    BY <2>2, <2>3
<1>9. ASSUME NEW c \in Conns, Flush(c) PROVE LineStays(d)
  <2>1. CASE d = c
    BY <1>1, <1>9, <2>1, FlushLine
  <2>2. CASE d # c
    <3>1. UNCHANGED <<cancelled, issued, call, result, handled>>
      BY <1>9 DEF Flush
    <3>2. sock'[d] = sock[d]
      <4>1. UNCHANGED sock \/ \E n : sock' = [sock EXCEPT ![c] = IF n > 0 THEN "rst" ELSE @]
        BY <1>9, Zenon DEF Flush
      <4> QED
        BY <1>2, <2>2, <4>1
    <3>3. hand'[d] = hand[d] /\ wbuf'[d] = wbuf[d] /\ down'[d] = down[d]
      <4>1. CASE Fail(c) /\ UNCHANGED down
        BY <2>2, <4>1, FailWrites
      <4>2. ASSUME NEW n, FlushEffect(c, n) PROVE hand'[d] = hand[d] /\ wbuf'[d] = wbuf[d] /\ down'[d] = down[d]
        BY <1>2, <2>2, <4>2 DEF FlushEffect
      <4> QED
        BY <1>9, <4>1, <4>2, FlushWrites
    <3> QED
      BY <1>1, <3>1, <3>2, <3>3, HandLine
  <2> QED
    BY <2>1, <2>2
<1>10. ASSUME UNCHANGED <<clientVars, down>> PROVE UNCHANGED <<sock, call, issued, cancelled, result, down>>
  BY <1>10 DEF clientVars
<1>11. ASSUME NEW c \in Conns, RecvRecords(c) \/ Answer(c) PROVE LineStays(d)
  <2>1. CASE d = c
    BY <1>1, <1>11, <2>1, RecvLine, AnswerLine
  <2>2. CASE d # c
    <3>1. UNCHANGED <<clientVars, down, handled>>
      BY <1>11 DEF RecvRecords, Answer, netVars
    <3>2. wbuf'[d] = wbuf[d] /\ hand'[d] = hand[d]
      <4>1. (\E b : wbuf' = [wbuf EXCEPT ![c] = b]) /\ (\E to : hand' = [hand EXCEPT ![c] = to])
        <5>1. CASE RecvRecords(c)
          BY <5>1, Zenon DEF RecvRecords
        <5>2. CASE Answer(c)
          BY <5>2, Zenon DEF Answer, Fail
        <5> QED
          BY <1>11, <5>1, <5>2
      <4> QED
        BY <1>2, <2>2, <4>1
    <3> QED
      BY <1>1, <1>10, <3>1, <3>2, HandLine
  <2> QED
    BY <2>1, <2>2
<1>12. ASSUME NEW c \in Conns, Fail(c), UNCHANGED <<clientVars, down, handled>> PROVE LineStays(d)
  <2>1. CASE d = c
    BY <1>1, <1>10, <1>12, <2>1, FailLine
  <2>2. CASE d # c
    <3>1. wbuf'[d] = wbuf[d] /\ hand'[d] = hand[d]
      BY <1>12, <2>2, FailWrites
    <3> QED
      BY <1>1, <1>10, <1>12, <3>1, HandLine
  <2> QED
    BY <2>1, <2>2
<1>13. ASSUME NEW c \in Conns, NEW from, NEW to, UNCHANGED <<clientVars, down, wbuf, handled>>,
              hand[c] = from, hand' = [hand EXCEPT ![c] = to],
              \/ to \in {"ended", "failed", "refused"}
              \/ from \in HandStates \ (Working \ {"reply"}) /\ to \in HandStates \ (Working \ {"reply"})
              \/ from \in Working \ {"reply"} /\ to \in Working \ {"reply"},
              from \notin {"ended", "failed", "refused"}
       PROVE  LineStays(d)
  <2>1. CASE d = c
    <3>1. hand'[d] = to /\ hand[d] = from
      BY <1>2, <1>13, <2>1
    <3>2. Gone(d)' \/ (Ahead(d)' = Ahead(d) /\ ~Gone(d))
      BY <1>13, <3>1 DEF Gone, Ahead
    <3> QED
      BY <1>1, <1>10, <1>13, <3>2, HandLine
  <2>2. CASE d # c
    <3>1. hand'[d] = hand[d]
      BY <1>2, <1>13, <2>2
    <3> QED
      BY <1>1, <1>10, <1>13, <3>1, HandLine
  <2> QED
    BY <2>1, <2>2
<1>14. ASSUME NEW c \in Conns, Accept(c) \/ StartHandler(c) \/ RecordsEnd(c) PROVE LineStays(d)
  <2>1. UNCHANGED <<clientVars, down, wbuf, handled>>
    BY <1>14 DEF Accept, StartHandler, RecordsEnd, netVars
  <2>2. \/ hand[c] = "backlog" /\ hand' = [hand EXCEPT ![c] = "spawned"]
        \/ hand[c] = "spawned" /\ hand' = [hand EXCEPT ![c] = "reading"]
        \/ hand[c] = "records" /\ hand' = [hand EXCEPT ![c] = "final flush"]
    BY <1>14 DEF Accept, StartHandler, RecordsEnd
  <2> QED
    BY <1>13, <2>1, <2>2 DEF HandStates, Working, InQuery
<1>15. ASSUME NEW c \in Conns, ReadEnd(c) PROVE LineStays(d)
  <2>1. UNCHANGED <<clientVars, down, handled>> /\ hand[c] = "reading"
    BY <1>15 DEF ReadEnd, netVars
  <2>2. Fail(c) \/ (UNCHANGED wbuf /\ hand' = [hand EXCEPT ![c] = "ended"])
    BY <1>15 DEF ReadEnd
  <2> QED
    BY <1>12, <1>13, <2>1, <2>2
<1>16. ASSUME NEW c \in Conns, SendCommand(c) PROVE LineStays(d)
  <2>1. UNCHANGED <<clientVars, down, handled>> /\ hand[c] = "command"
    BY <1>16 DEF SendCommand, netVars
  <2>2. \/ Fail(c)
        \/ UNCHANGED wbuf /\ \E to \in {"records", "answer"} : hand' = [hand EXCEPT ![c] = to]
    BY <1>16 DEF SendCommand
  <2> QED
    BY <1>12, <1>13, <2>1, <2>2 DEF Working, InQuery
<1>17. ASSUME NEW c \in Conns, ReadFrame(c) PROVE LineStays(d)
  <2>1. UNCHANGED <<clientVars, down, wbuf>> /\ hand[c] = "reading"
    BY <1>17 DEF ReadFrame
  <2>2. PICK msg : msg = server_decode(Head(up[c]))
    OBVIOUS
  <2>3. /\ handled' = [handled EXCEPT ![c] = Append(@, msg)]
        /\ hand' = [hand EXCEPT ![c] = CASE msg.type = "Malformed" -> "failed"
                                         [] msg.type = "Ping" -> "answer"
                                         [] OTHER -> "command"]
    BY <1>17, <2>2, Zenon DEF ReadFrame
  <2>4. CASE d = c
    <3>1. hand'[d] \in {"failed", "answer", "command"}
      BY <1>2, <2>3, <2>4
    <3>2. PICK h \in Seq(AllRequests) : h = handled[d]
      BY DEF RequestsInFlight
    <3>3. PICK g \in Seq(AllRequests) : g = handled'[d]
      BY <1>1 DEF RequestsInFlight
    <3>4. g = Append(h, msg)
      BY <1>2, <2>3, <2>4, <3>2, <3>3, Zenon
    <3>5. Len(g) = Len(h) + 1
      BY <3>2, <3>4
    <3>6. ~Gone(d) /\ Ahead(d) = Len(h) + 1
      BY <2>1, <2>4, <3>2 DEF Gone, Ahead, Working, InQuery
    <3>7. Gone(d)' \/ Ahead(d)' = Len(g)
      BY <3>1, <3>3 DEF Gone, Ahead, Working, InQuery
    <3> QED
      BY <1>1, <1>10, <2>1, <3>5, <3>6, <3>7, HandLine
  <2>5. CASE d # c
    <3>1. hand'[d] = hand[d] /\ handled'[d] = handled[d]
      BY <1>2, <2>3, <2>5
    <3> QED
      BY <1>1, <1>10, <2>1, <3>1, HandLine
  <2> QED
    BY <2>4, <2>5
<1>18. CASE AcceptFails
  <2>1. UNCHANGED <<clientVars, down, wbuf, handled>>
    BY <1>18 DEF AcceptFails, netVars
  <2>2. hand'[d] = hand[d] \/ hand'[d] = "refused"
    BY <1>18 DEF AcceptFails
  <2>3. hand'[d] = hand[d] \/ Gone(d)'
    BY <2>2 DEF Gone
  <2> QED
    BY <1>1, <1>10, <2>1, <2>3, HandLine
<1>19. ASSUME UNCHANGED <<clientVars, down, wbuf, hand, handled>> PROVE LineStays(d)
  BY <1>1, <1>10, <1>19, HandLine
<1>20. ASSUME NEW c \in Conns, Arrive(c) \/ TaskSends(c) \/ TaskEnds(c) PROVE LineStays(d)
  <2>1. UNCHANGED <<clientVars, down, wbuf, hand, handled>>
    BY <1>20 DEF Arrive, TaskSends, TaskEnds, netVars, handlerVars
  <2> QED
    BY <1>19, <2>1
<1>21. CASE Engine \/ EngineStops \/ UNCHANGED vars
  <2>1. UNCHANGED <<clientVars, down, wbuf, hand, handled>>
    BY <1>21 DEF Engine, EngineStops, vars, netVars, handlerVars
  <2> QED
    BY <1>19, <2>1
<1> QED
  BY <1>3, <1>4, <1>5, <1>6, <1>7, <1>8, <1>9, <1>11, <1>14, <1>15, <1>16, <1>17, <1>18, <1>20, <1>21
     DEF Next, Handler, Client

\* AnswersMatch speaks of one connection at a time.
Matching(c) ==
  Answered(c) =>
    /\ result[c].of <= result[c].num
    /\ Orderly(c, result[c].num, DroppedBefore(c, result[c].num)) =>
         result[c].of = result[c].num - Cardinality(DroppedBefore(c, result[c].num))

\* A call that has returned keeps its answer: calls dropped later are later.
LEMMA SameMatching ==
  ASSUME RequestsInFlight, RequestsInFlight', IssuedGrows, CallsNumbered, NEW d \in Conns, Matching(d),
         result'[d] = result[d],
         \/ cancelled'[d] = cancelled[d]
         \/ cancelled'[d] = cancelled[d] \union {call[d].num} /\ call[d].num > 0
  PROVE  Matching(d)'
<1> SUFFICES ASSUME Answered(d)'
             PROVE  /\ result'[d].of <= result'[d].num
                    /\ Orderly(d, result[d].num, DroppedBefore(d, result[d].num))' =>
                         result'[d].of = result'[d].num - Cardinality(DroppedBefore(d, result[d].num)')
  BY Zenon DEF Matching
<1>1. Answered(d)
  BY Zenon DEF Answered
<1>2. PICK r : r = result[d] /\ r = result'[d]
  OBVIOUS
<1>3. PICK s \in Seq(AllRequests) : s = issued[d]
  BY DEF RequestsInFlight
<1>4. PICK t \in Seq(AllRequests) : t = issued'[d]
  BY DEF RequestsInFlight
<1>5. \A n \in 1 .. Len(s) : t[n] = s[n]
  <2>1. DOMAIN s = 1 .. Len(s)
    OBVIOUS
  <2> QED
    BY <1>3, <1>4, <2>1, Zenon DEF IssuedGrows
<1>6. PICK k \in 0 .. Len(s) : k = r.num
  BY <1>2, <1>3 DEF CallsNumbered, Numbered
<1>7. cancelled[d] \subseteq Nat
  BY DEF CallsNumbered
<1>8. DroppedBefore(d, k)' = DroppedBefore(d, k)
  <2>1. CASE cancelled'[d] = cancelled[d]
    BY <2>1 DEF DroppedBefore
  <2>2. CASE cancelled'[d] = cancelled[d] \union {call[d].num} /\ call[d].num > 0
    <3>1. k < call[d].num /\ call[d].num = Len(s)
      BY <1>2, <1>3, <1>6, <2>2 DEF CallsNumbered, Numbered
    <3> QED
      BY <1>7, <2>2, <3>1 DEF DroppedBefore
  <2> QED
    BY <2>1, <2>2
<1>9. PICK x : x = DroppedBefore(d, k) /\ x = DroppedBefore(d, k)'
  BY <1>8
<1>10. ASSUME Orderly(d, k, x)' PROVE Orderly(d, k, x)
  <2>1. \A n \in 1 .. k : t[n].type = "Range" => \A m \in x : n < m
    BY <1>4, <1>10, Zenon DEF Orderly
  <2>2. \A n \in 1 .. k : n \in 1 .. Len(s)
    BY <1>6
  <2>3. \A n \in 1 .. k : s[n].type = "Range" => \A m \in x : n < m
    BY <1>5, <2>1, <2>2
  <2> QED
    BY <1>3, <2>3, Zenon DEF Orderly
<1>11. r.of <= k /\ (Orderly(d, k, x) => r.of = k - Cardinality(x))
  BY <1>1, <1>2, <1>6, <1>9, Zenon DEF Matching
<1>12. ASSUME Orderly(d, result[d].num, DroppedBefore(d, result[d].num))' PROVE Orderly(d, k, x)'
  <2>1. \A n \in 1 .. k : t[n].type = "Range" => \A m \in x : n < m
    BY <1>2, <1>4, <1>6, <1>9, <1>12, Zenon DEF Orderly
  <2> QED
    BY <1>4, <2>1, Zenon DEF Orderly
<1>13. DroppedBefore(d, result[d].num)' = x
  BY <1>2, <1>6, <1>9, Zenon DEF DroppedBefore
<1> QED
  BY <1>2, <1>6, <1>10, <1>11, <1>12, <1>13, Zenon

\* The answer that a call takes is the one that is due.
LEMMA ReceiveMatching ==
  ASSUME RequestsInFlight, RequestsInFlight', AnswersTyped, IssuedGrows, InsertsInFlight, CallsNumbered,
         BytesArrive, AnswersInLine, NEW c \in Conns, Receive(c)
  PROVE  Matching(c)'
<1>1. UNCHANGED <<issued, cancelled>> /\ call[c].num > 0
  BY DEF Receive
<1>2. PICK q \in Seq(Written) : /\ q = Unread(c) /\ q # <<>> /\ q[1] = Head(down[c]) /\ q[1] \in Written
                                /\ q[1] \in ToSet(down[c]) /\ Unread(c)' = Tail(q)
  BY ReceiveTakes
<1>3. PICK w : w = q[1]
  OBVIOUS
<1>4. Return(c, w.msg, w.of) \/ UNCHANGED result
  BY <1>2, <1>3, Zenon DEF Receive
<1>5. CASE UNCHANGED result
  BY <1>1, <1>5, SameMatching DEF AnswersInLine, AnswersMatch, Matching
<1>6. CASE Return(c, w.msg, w.of)
  <2>1. PICK r : result' = [result EXCEPT ![c] = r] /\ r.of = w.of /\ r.num = call[c].num
    BY <1>6, ReturnedCall
  <2>2. result'[c] = r
    BY <2>1 DEF InsertsInFlight
  <2>3. PICK n \in Nat : n = Len(issued[c])
    BY DueType
  <2>4. r.num = n /\ n # 0 /\ n \notin cancelled[c] /\ cancelled[c] \subseteq 1 .. n /\ call[c].num = n
    BY <1>1, <2>1, <2>3 DEF CallsNumbered, Numbered
  <2>5. PICK k : k = w.of
    OBVIOUS
  <2>6. k \in 1 .. n
    <3>1. ToRequest(c, w)
      BY <1>2, <1>3 DEF AnswersInLine
    <3>2. PICK h \in Seq(AllRequests) : h = handled[c]
      BY DEF RequestsInFlight
    <3>3. Len(h) + Len(up[c]) = n /\ Len(up[c]) \in Nat
      BY <2>3, <3>2 DEF RequestsInFlight
    <3>4. k \in DOMAIN h
      BY <2>5, <3>1, <3>2 DEF ToRequest
    <3> QED
      BY <3>3, <3>4
  <2>7. DroppedBefore(c, n) = cancelled[c]
    BY <2>4 DEF DroppedBefore
  <2>8. ASSUME Orderly(c, n, cancelled[c]) PROVE k = n - Cardinality(cancelled[c])
    <3>1. Orderly(c, Len(issued[c]), cancelled[c])
      BY <2>3, <2>8
    <3>2. InLine(c)
      BY <3>1, ReceiveReads
    <3>3. k = Due(c)
      BY <1>2, <1>3, <2>5, <3>2 DEF InLine, Lined
    <3>4. PICK x \in Nat : x = Cardinality(cancelled[c])
      BY DueType
    <3>5. Due(c) = n + 0 - x
      BY <2>3, <2>4, <3>4, Zenon DEF Due
    <3> QED
      BY <3>3, <3>4, <3>5
  <2>9. /\ result'[c].num = n /\ result'[c].of = k
    BY <2>1, <2>2, <2>4, <2>5
  <2>10. k <= n
    BY <2>6
  <2>11. Orderly(c, n, cancelled[c])' <=> Orderly(c, n, cancelled[c])
    BY <1>1, Zenon DEF Orderly
  <2>12. DroppedBefore(c, n)' = cancelled[c]
    BY <1>1, <2>7, Zenon DEF DroppedBefore
  <2>13. PICK x : x = cancelled[c] /\ x = cancelled'[c]
    BY <1>1
  <2>14. DroppedBefore(c, result[c].num)' = x
    BY <2>9, <2>12, <2>13, Zenon DEF DroppedBefore
  <2>15. Orderly(c, result[c].num, DroppedBefore(c, result[c].num))' => Orderly(c, n, x)
    <3> SUFFICES ASSUME Orderly(c, result[c].num, DroppedBefore(c, result[c].num))' PROVE Orderly(c, n, x)
      OBVIOUS
    <3>1. \A i \in 1 .. n : issued[c][i].type = "Range" => \A m \in x : i < m
      BY <1>1, <2>9, <2>14, Zenon DEF Orderly
    <3> QED
      BY <3>1, Zenon DEF Orderly
  <2> QED
    BY <2>8, <2>9, <2>10, <2>13, <2>14, <2>15, Zenon DEF Matching
<1> QED
  BY <1>4, <1>5, <1>6

LEMMA NextMatching ==
  ASSUME HandlersTyped, RequestsInFlight, AnswersTyped, InsertsInFlight, CallsNumbered, BytesArrive,
         AnswersInLine, [Next]_vars, NEW d \in Conns
  PROVE  Matching(d)'
<1>1. RequestsInFlight' /\ IssuedGrows /\ Matching(d)
  BY NextRequests, NextIssued DEF AnswersInLine, AnswersMatch, Matching
<1>2. DOMAIN result = Conns /\ DOMAIN cancelled = Conns
  BY DEF InsertsInFlight, CallsNumbered
<1>3. ASSUME NEW c \in Conns, Receive(c) PROVE Matching(d)'
  <2>1. CASE d = c
    BY <1>1, <1>3, <2>1, ReceiveMatching
  <2>2. CASE d # c
    <3>1. PICK w : w = Head(down[c])
      OBVIOUS
    <3>2. Return(c, w.msg, w.of) \/ UNCHANGED result
      BY <1>3, <3>1, Zenon DEF Receive
    <3>3. result'[d] = result[d]
      <4>1. CASE Return(c, w.msg, w.of)
        <5>1. PICK r : result' = [result EXCEPT ![c] = r]
          BY <4>1, ReturnedCall
        <5> QED
          BY <1>2, <2>2, <5>1
      <4> QED
        BY <3>2, <4>1
    <3>4. UNCHANGED cancelled
      BY <1>3 DEF Receive
    <3> QED
      BY <1>1, <3>3, <3>4, SameMatching
  <2> QED
    BY <2>1, <2>2
<1>4. ASSUME NEW c \in Conns, ReceiveClosed(c) PROVE Matching(d)'
  <2>1. Return(c, [type |-> "closed"], 0) /\ UNCHANGED cancelled
    BY <1>4 DEF ReceiveClosed
  <2>2. PICK r : result' = [result EXCEPT ![c] = r] /\ r.msg = [type |-> "closed"]
    BY <2>1, ReturnedCall
  <2>3. CASE d = c
    <3>1. result'[d].msg.type = "closed"
      <4>1. result'[d] = r
        BY <1>2, <2>2, <2>3
      <4>2. r.msg.type = "closed"
        BY <2>2
      <4> QED
        BY <4>1, <4>2
    <3> QED
      BY <3>1, Zenon DEF Matching, Answered
  <2>4. CASE d # c
    <3>1. result'[d] = result[d]
      BY <1>2, <2>2, <2>4
    <3> QED
      BY <1>1, <2>1, <3>1, SameMatching
  <2> QED
    BY <2>3, <2>4
<1>5. ASSUME NEW c \in Conns, Cancel(c) PROVE Matching(d)'
  <2>1. /\ UNCHANGED result /\ call[c].num > 0
        /\ cancelled' = [cancelled EXCEPT ![c] = @ \union {call[c].num}]
    BY <1>5 DEF Cancel
  <2>2. \/ cancelled'[d] = cancelled[d]
        \/ cancelled'[d] = cancelled[d] \union {call[d].num} /\ call[d].num > 0
    BY <1>2, <2>1
  <2> QED
    BY <1>1, <2>1, <2>2, SameMatching
<1>6. ASSUME UNCHANGED <<result, cancelled>> PROVE Matching(d)'
  BY <1>1, <1>6, SameMatching
<1>7. ASSUME NEW c \in Conns,
             \/ Connect(c) \/ (\E req \in Requests[c] : Call(c, req)) \/ Arrive(c) \/ Close(c)
             \/ Accept(c) \/ Handler(c) \/ TaskSends(c) \/ TaskEnds(c)
      PROVE  Matching(d)'
  <2>1. CASE Connect(c) \/ (\E req \in Requests[c] : Call(c, req)) \/ Arrive(c) \/ Close(c)
    BY <1>6, <2>1, SMTT(30) DEF Connect, Call, Arrive, Close, clientVars
  <2>2. CASE Accept(c) \/ Handler(c) \/ TaskSends(c) \/ TaskEnds(c)
    BY <1>6, <2>2 DEF Accept, Handler, StartHandler, ReadFrame, ReadEnd, SendCommand, RecvRecords,
                      RecordsEnd, Flush, Answer, TaskSends, TaskEnds, clientVars
  <2> QED
    BY <1>7, <2>1, <2>2
<1>8. CASE AcceptFails \/ Engine \/ EngineStops \/ UNCHANGED vars
  BY <1>6, <1>8 DEF AcceptFails, Engine, EngineStops, vars, clientVars
<1> QED
  BY <1>3, <1>4, <1>5, <1>7, <1>8 DEF Next, Client

LEMMA InitLine == Init => AnswersInLine
<1> SUFFICES ASSUME Init PROVE AnswersInLine
  OBVIOUS
<1>1. ASSUME NEW c \in Conns
      PROVE  /\ down[c] = <<>> /\ wbuf[c] = <<>> /\ issued[c] = <<>> /\ cancelled[c] = {} /\ handled[c] = <<>>
             /\ hand[c] = "none" /\ call[c] = Idle /\ result[c] = [num |-> 0]
  BY DEF Init
<1>2. \A c \in Conns : ToSet(wbuf[c]) \union ToSet(down[c]) = {}
  BY <1>1 DEF ToSet
<1>3. ASSUME NEW c \in Conns PROVE InLine(c)
  <2>1. Unread(c) = <<>>
    BY <1>1 DEF Unread
  <2>2. call[c].num = 0 /\ Len(issued[c]) = 0 /\ Len(handled[c]) = 0
    BY <1>1 DEF Idle
  <2>3. Due(c) = 1
    <3>1. Due(c) = 0 + 1 - Cardinality({})
      BY <1>1, <2>2, Zenon DEF Due
    <3> QED
      BY <3>1, FS_EmptySet
  <2>4. Ahead(c) = 1
    <3>1. hand[c] \notin Working
      BY <1>1 DEF Working, InQuery
    <3>2. Ahead(c) = 0 + 1
      BY <2>2, <3>1, Zenon DEF Ahead
    <3> QED
      BY <3>2
  <2>5. Lined(<<>>, 1) /\ EndOf(<<>>, 1) = 1
    BY DEF Lined, EndOf
  <2> QED
    BY <2>1, <2>3, <2>4, <2>5 DEF InLine
<1>4. AnswersMatch
  BY <1>1 DEF AnswersMatch, Answered
<1> QED
  BY <1>2, <1>3, <1>4 DEF AnswersInLine

LEMMA NextLine ==
  HandlersTyped /\ RequestsInFlight /\ AnswersTyped /\ CommandsInFlight /\ InsertsInFlight /\ CallsNumbered
    /\ BytesArrive /\ AnswersInLine /\ [Next]_vars => AnswersInLine'
<1> SUFFICES ASSUME HandlersTyped, RequestsInFlight, AnswersTyped, CommandsInFlight, InsertsInFlight,
                    CallsNumbered, BytesArrive, AnswersInLine, [Next]_vars
             PROVE  AnswersInLine'
  OBVIOUS
<1>1. AllToRequest
  BY DEF AllToRequest, AnswersInLine, OnItsWay
<1>2. AllToRequest'
  BY <1>1, NextToRequest, NextWritten, NextHandled
<1>3. \A c \in Conns : LineStays(c) /\ Matching(c)'
  BY NextInLine, NextMatching
<1>4. AnswersMatch'
  BY <1>3, Zenon DEF AnswersMatch, Matching
<1> QED
  BY <1>2, <1>3, <1>4 DEF AnswersInLine, AllToRequest, OnItsWay, LineStays

(* Everything the order of the answers needs is an invariant.                *)
ConnInv ==
  /\ HandlersTyped /\ RequestsInFlight /\ AnswersTyped /\ CommandsInFlight /\ InsertsInFlight
  /\ CallsNumbered /\ BytesArrive /\ AnswersInLine

LEMMA InitConn == Init => ConnInv
BY InitHandlers, InitRequests, InitAnswers, InitCommands, InitInserts, InitNumbered, InitArrives, InitLine
   DEF ConnInv

LEMMA NextConn == ConnInv /\ [Next]_vars => ConnInv'
BY NextHandlers, NextRequests, NextAnswers, NextCommands, NextInserts, NextNumbered, NextArrives, NextLine
   DEF ConnInv

(* AnswersMatch: whatever the clients, their requests and the capacities,    *)
(* and whatever fails, a call returns the answer to its own request as long  *)
(* as no caller has dropped one; from then on the answers of that client lag *)
(* by one request for each dropped call, and never lead.                     *)
THEOREM AnswersMatchTheorem == Spec => []AnswersMatch
<1>1. ConnInv => AnswersMatch
  BY DEF ConnInv, AnswersInLine
<1> QED
  BY <1>1, InitConn, NextConn, PTL DEF Spec

-----------------------------------------------------------------------------
(* The store, and what the calls have seen of it.                            *)

\* What an insert adds to the store.
AddedBy(c, e) ==
  /\ e \in Seq(Entries) /\ store' = store \o e
  /\ \A i \in 1 .. Len(e) : e[i].seq = seq_counter + i - 1 /\ e[i].by # <<>>
  /\ seq_counter' = seq_counter + Len(e) /\ records_inserted' = records_inserted + Len(e)

LEMMA InsertAdds ==
  ASSUME RequestsInFlight, AnswersTyped, NEW c \in Conns, cur[c].type \in Inserts,
         EngineInsert(c, cur[c]), store' # store \/ seq_counter' # seq_counter \/ records_inserted' # records_inserted
  PROVE  \/ \E e : AddedBy(c, e)
         \/ UNCHANGED <<store, records_inserted>> /\ seq_counter' \in Nat /\ seq_counter' >= seq_counter
<1>1. PICK req \in AllRequests : req = cur[c] /\ req.type \in {"Insert", "BatchInsert"}
  BY DEF AnswersTyped, Inserts, Ping
<1>2. PICK n \in Nat : n = Len(req.records)
  BY <1>1, WritesRecords
<1>3. \A i \in 1 .. n : req.records[i] \in Records
  BY <1>1, <1>2, WritesRecords
<1>4. PICK m \in Nat : m = seq_counter
  BY DEF AnswersTyped
<1>5. PICK k \in Nat : k = Len(handled[c])
  <2>1. handled[c] \in Seq(AllRequests)
    BY DEF RequestsInFlight
  <2> QED
    BY <2>1
<1>6. InsertCount(cur[c]) = n /\ records_counted(cur[c]) = n
  BY <1>1, <1>2 DEF InsertCount, records_counted
<1>7. PICK e : e = [i \in 1 .. n |-> [rec |-> req.records[i], seq |-> m + i - 1, by |-> <<c, k>>]]
  OBVIOUS
<1>8. \/ store' = store \o e /\ seq_counter' = m + n /\ records_inserted' = records_inserted + n
      \/ UNCHANGED <<store, records_inserted>> /\ (seq_counter' = m \/ seq_counter' = m + n)
  BY <1>1, <1>4, <1>5, <1>6, <1>7, Zenon DEF EngineInsert
<1>9. ASSUME NEW i \in 1 .. n
      PROVE  e[i] \in Entries /\ e[i].seq = m + i - 1 /\ e[i].by # <<>>
  <2>1. PICK r \in Records : r = req.records[i]
    BY <1>3
  <2>2. PICK s \in Nat : s = m + i - 1
    OBVIOUS
  <2>3. PICK b \in {<<>>} \union (Conns \X Nat) : b = <<c, k>>
    OBVIOUS
  <2>4. b # <<>>
    BY <2>3
  <2>5. e[i] = [rec |-> r, seq |-> s, by |-> b]
    BY <1>7, <2>1, <2>2, <2>3, Zenon
  <2>6. e[i] \in Entries
    BY <2>5 DEF Entries
  <2> QED
    BY <2>2, <2>4, <2>5, <2>6
<1>10. e \in Seq(Entries) /\ Len(e) = n
  <2>1. e \in [1 .. n -> Entries]
    BY <1>7, <1>9
  <2> QED
    BY <2>1
<1>11. CASE store' = store \o e /\ seq_counter' = m + n /\ records_inserted' = records_inserted + n
  <2>1. AddedBy(c, e)
    BY <1>4, <1>9, <1>10, <1>11 DEF AddedBy
  <2> QED
    BY <2>1
<1>12. CASE UNCHANGED <<store, records_inserted>> /\ (seq_counter' = m \/ seq_counter' = m + n)
  BY <1>4, <1>12
<1> QED
  BY <1>8, <1>11, <1>12

\* Every step: the store is what it was, or an insert has added to it.
StoreStep ==
  \/ UNCHANGED <<store, records_inserted>> /\ seq_counter' \in Nat /\ seq_counter' >= seq_counter
  \/ (\E c \in Conns : \E e : AddedBy(c, e)) /\ UNCHANGED <<call, acked>>

LEMMA NextStore == RequestsInFlight /\ AnswersTyped /\ [Next]_vars => StoreStep
<1> SUFFICES ASSUME RequestsInFlight, AnswersTyped, [Next]_vars PROVE StoreStep
  OBVIOUS
<1>1. ASSUME UNCHANGED storeVars PROVE StoreStep
  <2>1. UNCHANGED <<store, records_inserted, seq_counter>> /\ seq_counter \in Nat
    BY <1>1 DEF storeVars, AnswersTyped
  <2> QED
    BY <2>1 DEF StoreStep
<1>2. CASE Engine
  <2>1. PICK c \in Conns : c = Head(queue)
    <3>1. PICK q \in Seq(Conns) : q = queue
      BY DEF AnswersTyped
    <3>2. q # <<>>
      BY <1>2, <3>1 DEF Engine
    <3> QED
      BY <3>1, <3>2, TailType
  <2>2. \/ cur[c].type \in Inserts /\ EngineInsert(c, cur[c])
        \/ EngineRange(c, cur[c]) \/ EngineMetrics(c)
    BY <1>2, <2>1, Zenon DEF Engine
  <2>3. CASE cur[c].type \in Inserts /\ EngineInsert(c, cur[c])
    <3>1. UNCHANGED <<call, acked>> /\ seq_counter \in Nat
      BY <1>2 DEF Engine, clientVars, AnswersTyped
    <3>2. CASE store' # store \/ seq_counter' # seq_counter \/ records_inserted' # records_inserted
      BY <2>3, <3>1, <3>2, InsertAdds DEF StoreStep
    <3>3. CASE UNCHANGED <<store, seq_counter, records_inserted>>
      BY <3>1, <3>3 DEF StoreStep
    <3> QED
      BY <3>2, <3>3
  <2>4. CASE EngineRange(c, cur[c]) \/ EngineMetrics(c)
    BY <1>1, <2>4 DEF EngineRange, EngineMetrics
  <2> QED
    BY <2>2, <2>3, <2>4
<1>3. ASSUME NEW c \in Conns,
             \/ Connect(c) \/ (\E req \in Requests[c] : Call(c, req)) \/ Client(c) \/ Cancel(c)
             \/ Close(c) \/ Accept(c) \/ TaskSends(c) \/ TaskEnds(c)
      PROVE  UNCHANGED storeVars
  BY <1>3, SMTT(30) DEF Connect, Call, Client, Arrive, Receive, ReceiveClosed, Cancel, Close, Accept, TaskSends,
              TaskEnds, engineVars
<1>4. ASSUME NEW c \in Conns, Handler(c) PROVE UNCHANGED storeVars
  BY <1>4 DEF Handler, StartHandler, ReadFrame, ReadEnd, SendCommand, RecvRecords, RecordsEnd, Flush,
              Answer, engineVars
<1>5. ASSUME AcceptFails \/ EngineStops \/ UNCHANGED vars PROVE UNCHANGED storeVars
  BY <1>5 DEF AcceptFails, EngineStops, vars, engineVars
<1> QED
  BY <1>1, <1>2, <1>3, <1>4, <1>5 DEF Next

\* Every step: the call of d goes on, ends, or is a new one.
CallStep(d) ==
  \/ call'[d] = call[d]
  \/ call'[d] = Idle
  \/ call'[d].num = Len(issued[d]) + 1 /\ call'[d].seen = acked

LEMMA NextCall ==
  ASSUME CallsNumbered, [Next]_vars, NEW d \in Conns
  PROVE  CallStep(d)
<1>1. DOMAIN call = Conns
  BY DEF CallsNumbered
<1>2. ASSUME NEW c \in Conns, NEW req \in Requests[c], Call(c, req) PROVE CallStep(d)
  <2>1. PICK k : k = [num |-> Len(issued[c]) + 1, req |-> req, seen |-> acked]
    OBVIOUS
  <2>2. call' = [call EXCEPT ![c] = k] /\ k.num = Len(issued[c]) + 1 /\ k.seen = acked
    BY <1>2, <2>1 DEF Call
  <2> QED
    BY <1>1, <2>2 DEF CallStep
<1>3. ASSUME NEW c \in Conns, Receive(c) \/ ReceiveClosed(c) \/ Cancel(c) PROVE CallStep(d)
  <2>1. call' = call \/ call' = [call EXCEPT ![c] = Idle]
    BY <1>3, Zenon DEF Receive, ReceiveClosed, Cancel, Return
  <2> QED
    BY <1>1, <2>1, Zenon DEF CallStep
<1>4. CASE UNCHANGED call
  BY <1>4 DEF CallStep
<1>5. ASSUME NEW c \in Conns,
             \/ Connect(c) \/ Arrive(c) \/ Close(c) \/ Accept(c) \/ TaskSends(c) \/ TaskEnds(c)
      PROVE  UNCHANGED call
  BY <1>5, SMTT(30) DEF Connect, Arrive, Close, Accept, TaskSends, TaskEnds, clientVars
<1>6. ASSUME NEW c \in Conns, Handler(c) PROVE UNCHANGED call
  BY <1>6 DEF Handler, StartHandler, ReadFrame, ReadEnd, SendCommand, RecvRecords, RecordsEnd, Flush,
              Answer, clientVars
<1>7. ASSUME AcceptFails \/ Engine \/ EngineStops \/ UNCHANGED vars PROVE UNCHANGED call
  BY <1>7 DEF AcceptFails, Engine, EngineStops, vars, clientVars
<1> QED
  BY <1>2, <1>3, <1>4, <1>5, <1>6, <1>7 DEF Next, Client

\* What is acknowledged was stored by a request, and stays acknowledged.
AckedStep ==
  /\ acked \subseteq acked'
  /\ acked' \subseteq acked \union {store[i].seq : i \in {j \in DOMAIN store : store[j].by # <<>>}}

LEMMA NextAcked == [Next]_vars => AckedStep
<1> SUFFICES ASSUME [Next]_vars PROVE AckedStep
  OBVIOUS
<1>1. ASSUME NEW c \in Conns, Receive(c) PROVE AckedStep
  <2>1. \/ acked' = acked
        \/ \E of : acked' = acked \union {store[i].seq : i \in {j \in DOMAIN store : store[j].by = <<c, of>>}}
    BY <1>1, Zenon DEF Receive, NowAcked
  <2>2. \A of : <<c, of>> # <<>>
    OBVIOUS
  <2> QED
    BY <2>1, <2>2 DEF AckedStep
<1>2. CASE UNCHANGED acked
  BY <1>2 DEF AckedStep
<1>3. ASSUME NEW c \in Conns,
             \/ Connect(c) \/ (\E req \in Requests[c] : Call(c, req)) \/ Arrive(c) \/ ReceiveClosed(c)
             \/ Cancel(c) \/ Close(c) \/ Accept(c) \/ TaskSends(c) \/ TaskEnds(c)
      PROVE  UNCHANGED acked
  BY <1>3, SMTT(30) DEF Connect, Call, Arrive, ReceiveClosed, Cancel, Close, Accept, TaskSends, TaskEnds, clientVars
<1>4. ASSUME NEW c \in Conns, Handler(c) PROVE UNCHANGED acked
  BY <1>4 DEF Handler, StartHandler, ReadFrame, ReadEnd, SendCommand, RecvRecords, RecordsEnd, Flush,
              Answer, clientVars
<1>5. ASSUME AcceptFails \/ Engine \/ EngineStops \/ UNCHANGED vars PROVE UNCHANGED acked
  BY <1>5 DEF AcceptFails, Engine, EngineStops, vars, clientVars
<1> QED
  BY <1>1, <1>2, <1>3, <1>4, <1>5 DEF Next, Client

LEMMA InitStoreNumbered == Init => StoreNumbered
<1> SUFFICES ASSUME Init PROVE StoreNumbered
  OBVIOUS
<1>1. PICK s : s = Stored
  OBVIOUS
<1>2. s \in Seq(Records) /\ DOMAIN s = 1 .. Len(s) /\ Len(s) \in Nat
  <2>1. IsRecords(Stored)
    BY MessageAssumption
  <2>2. \A i \in DOMAIN Stored : Stored[i] \in Records
    BY DEF Records
  <2> QED
    BY <1>1, <2>1, <2>2 DEF IsRecords
<1>3. store = [i \in 1 .. Len(s) |-> [rec |-> s[i], seq |-> i, by |-> <<>>]]
  BY <1>1, <1>2 DEF Init
<1>4. Len(store) = Len(s) /\ DOMAIN store = 1 .. Len(s)
  <2>1. store \in Seq(Entries)
    BY InitAnswers DEF AnswersTyped
  <2> QED
    BY <1>2, <1>3, <2>1
<1>5. \A i \in 1 .. Len(s) : store[i].seq = i /\ store[i].by = <<>>
  BY <1>3
<1>6. seq_counter = Len(s) + 1 /\ records_inserted = 0 /\ acked = {}
  BY <1>1 DEF Init
<1>7. \A c \in Conns : call[c].seen = {}
  BY DEF Init, Idle
<1> QED
  BY <1>1, <1>2, <1>4, <1>5, <1>6, <1>7 DEF StoreNumbered

LEMMA NextStoreNumbered ==
  RequestsInFlight /\ AnswersTyped /\ CallsNumbered /\ StoreNumbered /\ [Next]_vars => StoreNumbered'
<1> SUFFICES ASSUME RequestsInFlight, AnswersTyped, CallsNumbered, StoreNumbered, [Next]_vars
             PROVE  StoreNumbered'
  OBVIOUS
<1>1. StoreStep /\ AckedStep
  BY NextStore, NextAcked
<1>2. PICK s \in Seq(Entries) : s = store
  BY DEF AnswersTyped
<1>3. PICK m \in Nat : m = seq_counter
  BY DEF AnswersTyped
<1>4. PICK n \in Nat : n = Len(Stored)
  BY MessageAssumption DEF IsRecords
<1>5. /\ Len(s) = n + records_inserted /\ Len(s) \in Nat /\ DOMAIN s = 1 .. Len(s)
      /\ (\A i \in 1 .. Len(s) : s[i].seq < m /\ (s[i].by # <<>> => i > n) /\ s[i].seq \in Nat)
      /\ (\A i, j \in 1 .. Len(s) : i < j => s[i].seq < s[j].seq)
      /\ acked \subseteq {s[i].seq : i \in (n + 1) .. Len(s)}
      /\ records_inserted \in Nat
  <2>1. Len(s) \in Nat /\ DOMAIN s = 1 .. Len(s) /\ records_inserted \in Nat
    BY DEF AnswersTyped
  <2>2. \A i \in 1 .. Len(s) : s[i].seq \in Nat
    <3>1. \A x \in Entries : x.seq \in Nat
      BY DEF Entries
    <3> QED
      BY <2>1, <3>1
  <2> QED
    BY <1>2, <1>3, <1>4, <2>1, <2>2 DEF StoreNumbered
<1>6. \A c \in Conns : call'[c].seen \subseteq acked'
  <2> SUFFICES ASSUME NEW c \in Conns PROVE call'[c].seen \subseteq acked'
    OBVIOUS
  <2>1. call[c].seen \subseteq acked
    BY DEF StoreNumbered
  <2>2. Idle.seen = {}
    BY DEF Idle
  <2>3. call'[c].seen = call[c].seen \/ call'[c].seen = {} \/ call'[c].seen = acked
    BY <2>2, NextCall, Zenon DEF CallStep
  <2> QED
    BY <1>1, <2>1, <2>3 DEF AckedStep
<1>7. CASE UNCHANGED <<store, records_inserted>> /\ seq_counter' \in Nat /\ seq_counter' >= seq_counter
  <2>1. \A i \in 1 .. Len(s) : s[i].seq < seq_counter'
    BY <1>3, <1>5, <1>7
  <2>2. acked' \subseteq {s[i].seq : i \in (n + 1) .. Len(s)}
    <3>1. \A j \in DOMAIN s : s[j].by # <<>> => j \in (n + 1) .. Len(s)
      BY <1>5
    <3> QED
      BY <1>1, <1>2, <1>5, <3>1 DEF AckedStep
  <2>3. store' = s /\ records_inserted' = records_inserted
    BY <1>2, <1>7
  <2> QED
    BY <1>4, <1>5, <1>6, <2>1, <2>2, <2>3 DEF StoreNumbered
<1>8. ASSUME NEW c \in Conns, NEW e, AddedBy(c, e), UNCHANGED <<call, acked>> PROVE StoreNumbered'
  <2>1. PICK l \in Nat : l = Len(s)
    OBVIOUS
  <2>2. PICK k \in Nat : k = Len(e)
    BY <1>8 DEF AddedBy
  <2>3. PICK t \in Seq(Entries) : t = s \o e
    <3>1. s \o e \in Seq(Entries)
      BY <1>8 DEF AddedBy
    <3> QED
      BY <3>1, Zenon
  <2>4. /\ Len(t) = l + k /\ DOMAIN t = 1 .. (l + k)
        /\ (\A i \in 1 .. l : t[i] = s[i]) /\ (\A i \in 1 .. k : t[l + i] = e[i])
    BY <1>8, <2>1, <2>2, <2>3, ConcatParts DEF AddedBy
  <2>5. /\ store' = t /\ seq_counter' = m + k /\ records_inserted' = records_inserted + k
        /\ \A i \in 1 .. k : e[i].seq = m + i - 1 /\ e[i].by # <<>>
    BY <1>2, <1>3, <1>8, <2>2, <2>3 DEF AddedBy
  <2>6. \A i \in 1 .. (l + k) : i \in 1 .. l \/ (i - l \in 1 .. k /\ i = l + (i - l))
    BY <2>1, <2>2
  <2>7. \A i \in 1 .. (l + k) : IF i \in 1 .. l THEN t[i] = s[i] ELSE t[i].seq = m + (i - l) - 1 /\ t[i].by # <<>>
    <3> SUFFICES ASSUME NEW i \in 1 .. (l + k), i \notin 1 .. l
                 PROVE  t[i].seq = m + (i - l) - 1 /\ t[i].by # <<>>
      BY <2>4
    <3>1. PICK j \in 1 .. k : j = i - l /\ i = l + j
      BY <2>6
    <3>2. t[l + j] = e[j] /\ e[j].seq = m + j - 1 /\ e[j].by # <<>>
      BY <2>4, <2>5
    <3> QED
      BY <3>1, <3>2
  <2>8. \A i \in 1 .. (l + k) : t[i].seq < m + k /\ (t[i].by # <<>> => i > n)
    <3> SUFFICES ASSUME NEW i \in 1 .. (l + k) PROVE t[i].seq < m + k /\ (t[i].by # <<>> => i > n)
      OBVIOUS
    <3>1. CASE i \in 1 .. l
      <4>1. t[i] = s[i] /\ s[i].seq < m /\ s[i].seq \in Nat /\ (s[i].by # <<>> => i > n)
        BY <1>5, <2>1, <2>4, <3>1
      <4> QED
        BY <2>2, <4>1
    <3>2. CASE i \notin 1 .. l
      <4>1. t[i].seq = m + (i - l) - 1 /\ i > l /\ l >= n
        BY <1>5, <2>1, <2>7, <3>2
      <4> QED
        BY <4>1
    <3> QED
      BY <3>1, <3>2
  <2>9. ASSUME NEW i \in 1 .. (l + k), NEW j \in 1 .. (l + k), i < j PROVE t[i].seq < t[j].seq
    <3>1. CASE j \in 1 .. l
      <4>1. i \in 1 .. l /\ t[i] = s[i] /\ t[j] = s[j]
        BY <2>4, <2>9, <3>1
      <4> QED
        BY <1>5, <2>1, <2>9, <3>1, <4>1
    <3>2. CASE j \notin 1 .. l /\ i \in 1 .. l
      <4>1. t[i] = s[i] /\ s[i].seq < m /\ s[i].seq \in Nat
        BY <1>5, <2>1, <2>4, <3>2
      <4>2. t[j].seq = m + (j - l) - 1 /\ j > l
        BY <2>7, <3>2
      <4> QED
        BY <4>1, <4>2, SMTT(30)
    <3>3. CASE i \notin 1 .. l
      <4>1. j \notin 1 .. l
        BY <2>9, <3>3
      <4>2. t[j].seq = m + (j - l) - 1 /\ t[i].seq = m + (i - l) - 1
        BY <2>7, <3>3, <4>1
      <4> QED
        BY <2>9, <4>2
    <3> QED
      BY <3>1, <3>2, <3>3
  <2>10. acked' \subseteq {t[i].seq : i \in (n + 1) .. (l + k)}
    <3>1. \A i \in (n + 1) .. l : i \in (n + 1) .. (l + k) /\ t[i] = s[i]
      BY <2>4
    <3> QED
      BY <1>5, <1>8, <2>1, <3>1
  <2>11. l + k = n + (records_inserted + k)
    BY <1>5, <2>1
  <2> QED
    BY <1>4, <1>6, <2>4, <2>5, <2>8, <2>9, <2>10, <2>11 DEF StoreNumbered
<1> QED
  BY <1>1, <1>7, <1>8 DEF StoreStep

\* The counter of inserts is at least the number of records that a call has
\* seen acknowledged.
LEMMA SeenCounted ==
  ASSUME AnswersTyped, StoreNumbered, NEW S \in SUBSET acked
  PROVE  records_inserted >= Cardinality(S)
<1>1. PICK s \in Seq(Entries) : s = store
  BY DEF AnswersTyped
<1>2. PICK n \in Nat : n = Len(Stored)
  BY MessageAssumption DEF IsRecords
<1>3. PICK k \in Nat : k = records_inserted
  BY DEF AnswersTyped
<1>4. Len(s) = n + k /\ acked \subseteq {s[i].seq : i \in (n + 1) .. (n + k)}
  BY <1>1, <1>2, <1>3 DEF StoreNumbered
<1>5. PICK f : f = [i \in (n + 1) .. (n + k) |-> s[i].seq]
  OBVIOUS
<1>6. PICK T : T = {s[i].seq : i \in (n + 1) .. (n + k)}
  OBVIOUS
<1>7. f \in Surjection((n + 1) .. (n + k), T)
  BY <1>5, <1>6 DEF Surjection
<1>8. IsFiniteSet((n + 1) .. (n + k)) /\ Cardinality((n + 1) .. (n + k)) = k
  <2>1. n + 1 \in Int /\ n + k \in Int
    OBVIOUS
  <2>2. Cardinality((n + 1) .. (n + k)) = IF n + 1 > n + k THEN 0 ELSE (n + k) - (n + 1) + 1
    BY <2>1, FS_Interval
  <2> QED
    BY <2>1, <2>2, FS_Interval
<1>9. IsFiniteSet(T) /\ Cardinality(T) <= k
  BY <1>7, <1>8, FS_Surjection
<1>10. S \in SUBSET T
  BY <1>4, <1>6
<1>11. Cardinality(S) <= Cardinality(T) /\ IsFiniteSet(S)
  BY <1>9, <1>10, FS_Subset
<1>12. Cardinality(S) \in Nat /\ Cardinality(T) \in Nat
  BY <1>9, <1>11, FS_CardinalityType
<1> QED
  BY <1>3, <1>9, <1>11, <1>12

-----------------------------------------------------------------------------
(* What an answer says.                                                      *)

\* Every step: the last result of d stays, or a call has returned another.
Returns(d) == Receive(d) /\ Return(d, Head(down[d]).msg, Head(down[d]).of)
ResultStep(d) ==
  /\ cancelled[d] \subseteq cancelled'[d]
  /\ result'[d] = result[d] \/ result'[d].msg.type = "closed" \/ Returns(d)

LEMMA NextResult ==
  ASSUME InsertsInFlight, CallsNumbered, [Next]_vars, NEW d \in Conns
  PROVE  ResultStep(d)
<1>1. DOMAIN result = Conns /\ DOMAIN cancelled = Conns
  BY DEF InsertsInFlight, CallsNumbered
<1>2. ASSUME NEW c \in Conns, Receive(c) PROVE ResultStep(d)
  <2>1. PICK w : w = Head(down[c])
    OBVIOUS
  <2>2. UNCHANGED cancelled /\ (Return(c, w.msg, w.of) \/ UNCHANGED result)
    BY <1>2, <2>1, Zenon DEF Receive
  <2>3. CASE Return(c, w.msg, w.of)
    <3>1. PICK r : result' = [result EXCEPT ![c] = r]
      BY <2>3, ReturnedCall
    <3>2. CASE d = c
      BY <1>2, <2>1, <2>2, <2>3, <3>2 DEF ResultStep, Returns
    <3>3. CASE d # c
      BY <1>1, <2>2, <3>1, <3>3 DEF ResultStep
    <3> QED
      BY <3>2, <3>3
  <2>4. CASE UNCHANGED result
    BY <2>2, <2>4 DEF ResultStep
  <2> QED
    BY <2>2, <2>3, <2>4
<1>3. ASSUME NEW c \in Conns, ReceiveClosed(c) PROVE ResultStep(d)
  <2>1. Return(c, [type |-> "closed"], 0) /\ UNCHANGED cancelled
    BY <1>3 DEF ReceiveClosed
  <2>2. PICK r : result' = [result EXCEPT ![c] = r] /\ r.msg = [type |-> "closed"]
    BY <2>1, ReturnedCall
  <2>3. r.msg.type = "closed"
    BY <2>2
  <2>4. result'[d] = result[d] \/ result'[d] = r
    BY <1>1, <2>2
  <2> QED
    BY <2>1, <2>3, <2>4 DEF ResultStep
<1>4. ASSUME NEW c \in Conns, Cancel(c) PROVE ResultStep(d)
  BY <1>1, <1>4 DEF Cancel, ResultStep
<1>5. CASE UNCHANGED <<result, cancelled>>
  BY <1>5 DEF ResultStep
<1>6. ASSUME NEW c \in Conns,
             \/ Connect(c) \/ (\E req \in Requests[c] : Call(c, req)) \/ Arrive(c) \/ Close(c)
             \/ Accept(c) \/ TaskSends(c) \/ TaskEnds(c)
      PROVE  UNCHANGED <<result, cancelled>>
  BY <1>6, SMTT(30) DEF Connect, Call, Arrive, Close, Accept, TaskSends, TaskEnds, clientVars
<1>7. ASSUME NEW c \in Conns, Handler(c) PROVE UNCHANGED <<result, cancelled>>
  BY <1>7 DEF Handler, StartHandler, ReadFrame, ReadEnd, SendCommand, RecvRecords, RecordsEnd, Flush,
              Answer, clientVars
<1>8. ASSUME AcceptFails \/ Engine \/ EngineStops \/ UNCHANGED vars PROVE UNCHANGED <<result, cancelled>>
  BY <1>8 DEF AcceptFails, Engine, EngineStops, vars, clientVars
<1> QED
  BY <1>2, <1>3, <1>4, <1>5, <1>6, <1>7, <1>8 DEF Next, Client

\* Without dropped calls, what a call returns answers its own request.
LEMMA ReturnsOwn ==
  ASSUME RequestsInFlight, AnswersTyped, InsertsInFlight, CallsNumbered, BytesArrive, AnswersInLine,
         NEW c \in Conns, Returns(c), cancelled'[c] = {}
  PROVE  \E w, r :
           /\ w = Head(down[c]) /\ w \in ToSet(down[c]) /\ w.of = call[c].num /\ call[c].num > 0
           /\ result'[c] = r /\ r.msg = w.msg /\ r.req = call[c].req /\ r.seen = call[c].seen
           /\ r.got = got[c] /\ (r.ok <=> w.msg.type = Expected(call[c].req))
<1>1. Receive(c) /\ call[c].num > 0 /\ UNCHANGED cancelled
  BY DEF Returns, Receive
<1>2. PICK w : w = Head(down[c])
  OBVIOUS
<1>3. PICK q \in Seq(Written) : q = Unread(c) /\ q # <<>> /\ q[1] = w /\ w \in ToSet(down[c])
  BY <1>1, <1>2, ReceiveTakes
<1>4. Orderly(c, Len(issued[c]), cancelled[c])
  BY <1>1 DEF Orderly
<1>5. w.of = Due(c)
  BY <1>1, <1>3, <1>4, ReceiveReads DEF InLine, Lined
<1>6. Due(c) = call[c].num
  <2>1. PICK n \in Nat : n = Len(issued[c])
    BY DueType
  <2>2. call[c].num = n /\ n # 0
    BY <1>1, <2>1 DEF CallsNumbered, Numbered
  <2>3. Due(c) = n + 0 - Cardinality({})
    BY <1>1, <2>1, <2>2, Zenon DEF Due
  <2> QED
    BY <2>2, <2>3, FS_EmptySet
<1>7. Return(c, w.msg, w.of)
  BY <1>2, Zenon DEF Returns
<1>8. PICK r : /\ result' = [result EXCEPT ![c] = r] /\ r.msg = w.msg /\ r.req = call[c].req
               /\ r.seen = call[c].seen /\ r.got = got[c] /\ (r.ok <=> w.msg.type = Expected(call[c].req))
  BY <1>7, ReturnedCall
<1>9. result'[c] = r
  BY <1>8 DEF InsertsInFlight
<1> QED
  BY <1>1, <1>2, <1>3, <1>5, <1>6, <1>8, <1>9, Zenon

\* A snapshot that is about to be written was, or has just been taken.
JustTaken(d) == oneshot'[d].json.records_inserted = records_inserted
SnapshotStep(d) ==
  SnapshotTaken(d)' =>
    handled'[d] = handled[d] /\ ((SnapshotTaken(d) /\ oneshot'[d] = oneshot[d]) \/ JustTaken(d))

LEMMA EngineSnapshot ==
  ASSUME AnswersTyped, NEW c \in Conns, NEW d \in Conns, Engine, c = Head(queue)
  PROVE  SnapshotStep(d)
<1>1. UNCHANGED <<hand, cur, handled>>
  BY DEF Engine, handlerVars
<1>2. DOMAIN oneshot = Conns
  BY DEF AnswersTyped
<1>3. \/ cur[c].type \in Inserts /\ EngineInsert(c, cur[c])
      \/ cur[c].type = "Range" /\ EngineRange(c, cur[c])
      \/ cur[c].type = "Metrics" /\ EngineMetrics(c)
  BY Zenon DEF Engine
<1>4. CASE oneshot'[d] = oneshot[d]
  BY <1>1, <1>4, Zenon DEF SnapshotStep, SnapshotTaken
<1>5. CASE cur[c].type # "Metrics"
  <2>1. \E a : oneshot' = [oneshot EXCEPT ![c] = a] \/ oneshot' = oneshot
    BY <1>3, <1>5, Zenon DEF EngineInsert, EngineRange
  <2>2. CASE d = c
    BY <1>1, <1>5, <2>2, Zenon DEF SnapshotStep, SnapshotTaken
  <2>3. CASE d # c
    BY <1>2, <1>4, <2>1, <2>3
  <2> QED
    BY <2>2, <2>3
<1>6. CASE EngineMetrics(c)
  <2>1. PICK a : a = [is |-> "ok", json |-> [records_inserted |-> records_inserted]]
    OBVIOUS
  <2>2. oneshot' = [oneshot EXCEPT ![c] = a] /\ a.json.records_inserted = records_inserted
    BY <1>6, <2>1 DEF EngineMetrics
  <2>3. CASE d = c
    <3>1. oneshot'[d] = a
      BY <1>2, <2>2, <2>3
    <3> QED
      BY <1>1, <2>2, <3>1, Zenon DEF SnapshotStep, JustTaken
  <2>4. CASE d # c
    BY <1>2, <1>4, <2>2, <2>4
  <2> QED
    BY <2>3, <2>4
<1> QED
  BY <1>3, <1>5, <1>6 DEF Inserts

LEMMA NextSnapshot ==
  ASSUME HandlersTyped, RequestsInFlight, AnswersTyped, CommandsInFlight, [Next]_vars, NEW d \in Conns
  PROVE  SnapshotStep(d)
<1>1. DOMAIN hand = Conns /\ DOMAIN handled = Conns /\ DOMAIN cur = Conns /\ DOMAIN oneshot = Conns
  BY DEF HandlersTyped, RequestsInFlight, AnswersTyped
<1>2. ASSUME hand'[d] = hand[d], cur'[d] = cur[d], handled'[d] = handled[d], oneshot'[d] = oneshot[d]
      PROVE  SnapshotStep(d)
  BY <1>2, Zenon DEF SnapshotStep, SnapshotTaken
<1>3. ASSUME hand'[d] # "answer" PROVE SnapshotStep(d)
  BY <1>3, Zenon DEF SnapshotStep, SnapshotTaken
<1>4. ASSUME UNCHANGED <<hand, cur, handled, oneshot>> PROVE SnapshotStep(d)
  BY <1>2, <1>4
<1>5. ASSUME NEW c \in Conns, NEW to, to # "answer", hand' = [hand EXCEPT ![c] = to],
             UNCHANGED <<cur, handled, oneshot>>
      PROVE  SnapshotStep(d)
  <2>1. CASE d = c
    BY <1>1, <1>3, <1>5, <2>1
  <2>2. CASE d # c
    BY <1>1, <1>2, <1>5, <2>2
  <2> QED
    BY <2>1, <2>2
<1>6. ASSUME NEW c \in Conns, Connect(c) \/ Accept(c) \/ StartHandler(c) \/ RecordsEnd(c)
      PROVE  SnapshotStep(d)
  <2>1. UNCHANGED <<cur, handled, oneshot>>
    BY <1>6 DEF Connect, Accept, StartHandler, RecordsEnd, engineVars
  <2>2. \E to \in {"backlog", "spawned", "reading", "final flush"} : hand' = [hand EXCEPT ![c] = to]
    BY <1>6 DEF Connect, Accept, StartHandler, RecordsEnd
  <2> QED
    BY <1>5, <2>1, <2>2
<1>7. ASSUME NEW c \in Conns, ReadEnd(c) PROVE SnapshotStep(d)
  <2>1. UNCHANGED <<cur, handled, oneshot>>
    BY <1>7 DEF ReadEnd, engineVars, Fail
  <2>2. \E to \in {"failed", "ended"} : hand' = [hand EXCEPT ![c] = to]
    BY <1>7 DEF ReadEnd, Fail
  <2> QED
    BY <1>5, <2>1, <2>2
<1>8. ASSUME NEW c \in Conns, RecvRecords(c) PROVE SnapshotStep(d)
  <2>1. UNCHANGED <<cur, handled, oneshot>>
    BY <1>8 DEF RecvRecords
  <2>2. \E b : hand' = [hand EXCEPT ![c] = IF WBytes(b) > FLUSH_THRESHOLD THEN "flush" ELSE "records"]
    BY <1>8, Zenon DEF RecvRecords
  <2>3. \E to \in {"flush", "records"} : hand' = [hand EXCEPT ![c] = to]
    BY <2>2
  <2> QED
    BY <1>5, <2>1, <2>3
<1>9. ASSUME NEW c \in Conns, Answer(c) PROVE SnapshotStep(d)
  <2>1. UNCHANGED <<cur, handled, oneshot>>
    BY <1>9 DEF Answer, engineVars, Fail
  <2>2. \E to \in {"failed", "reply"} : hand' = [hand EXCEPT ![c] = to]
    BY <1>9 DEF Answer, Fail
  <2> QED
    BY <1>5, <2>1, <2>2
<1>10. ASSUME NEW c \in Conns, Flush(c) PROVE SnapshotStep(d)
  <2>1. UNCHANGED <<cur, handled, oneshot>>
    <3>1. UNCHANGED <<handled, oneshot>>
      BY <1>10 DEF Flush, engineVars
    <3>2. UNCHANGED cur
      BY <1>10, Zenon DEF Flush, Fail
    <3> QED
      BY <3>1, <3>2
  <2>2. \/ UNCHANGED hand \/ hand' = [hand EXCEPT ![c] = "failed"]
        \/ hand' = [hand EXCEPT ![c] = After(@)] /\ hand[c] \in {"flush", "final flush", "reply"}
    BY <1>10, Zenon DEF Flush, Fail
  <2>3. CASE hand' = [hand EXCEPT ![c] = After(@)] /\ hand[c] \in {"flush", "final flush", "reply"}
    <3>1. CASE hand[c] = "final flush"
      <4>1. cur[c].type = "Range"
        BY <3>1 DEF CommandsInFlight, InStep, InQuery
      <4>2. CASE d = c
        BY <2>1, <4>1, <4>2, Zenon DEF SnapshotStep, SnapshotTaken
      <4>3. CASE d # c
        BY <1>1, <1>2, <2>1, <2>3, <4>3
      <4> QED
        BY <4>2, <4>3
    <3>2. CASE hand[c] # "final flush"
      <4>1. \E to \in {"records", "reading"} : hand' = [hand EXCEPT ![c] = to]
        <5>1. After(hand[c]) \in {"records", "reading"}
          BY <2>3, <3>2 DEF After
        <5> QED
          BY <2>3, <5>1
      <4> QED
        BY <1>5, <2>1, <4>1
    <3> QED
      BY <3>1, <3>2
  <2> QED
    BY <1>4, <1>5, <2>1, <2>2, <2>3
<1>11. ASSUME NEW c \in Conns, SendCommand(c) PROVE SnapshotStep(d)
  <2>1. UNCHANGED <<cur, handled>>
    BY <1>11 DEF SendCommand, Fail
  <2>2. \/ hand' = [hand EXCEPT ![c] = "failed"] /\ UNCHANGED oneshot
        \/ oneshot' = [oneshot EXCEPT ![c] = Nothing] /\ \E to : hand' = [hand EXCEPT ![c] = to]
    BY <1>11 DEF SendCommand, Fail
  <2>3. CASE oneshot' = [oneshot EXCEPT ![c] = Nothing] /\ \E to : hand' = [hand EXCEPT ![c] = to]
    <3>1. CASE d = c
      <4>1. oneshot'[d] = Nothing /\ Nothing.is = "pending"
        BY <1>1, <2>3, <3>1 DEF Nothing
      <4>2. oneshot'[d].is = "pending"
        BY <4>1, Zenon
      <4> QED
        BY <4>2, Zenon DEF SnapshotStep, SnapshotTaken
    <3>2. CASE d # c
      BY <1>1, <1>2, <2>1, <2>3, <3>2
    <3> QED
      BY <3>1, <3>2
  <2> QED
    BY <1>5, <2>1, <2>2, <2>3
<1>12. ASSUME NEW c \in Conns, ReadFrame(c) PROVE SnapshotStep(d)
  <2>1. PICK msg : msg = server_decode(Head(up[c]))
    OBVIOUS
  <2>2. /\ handled' = [handled EXCEPT ![c] = Append(@, msg)] /\ cur' = [cur EXCEPT ![c] = msg]
        /\ hand' = [hand EXCEPT ![c] = CASE msg.type = "Malformed" -> "failed"
                                         [] msg.type = "Ping" -> "answer"
                                         [] OTHER -> "command"]
        /\ UNCHANGED oneshot
    BY <1>12, <2>1, Zenon DEF ReadFrame, engineVars
  <2>3. CASE d = c
    <3>1. cur'[d] = msg
      BY <1>1, <2>2, <2>3
    <3>2. CASE msg.type = "Metrics"
      <4>1. hand'[d] = "command"
        BY <1>1, <2>2, <2>3, <3>2
      <4> QED
        BY <1>3, <4>1
    <3>3. CASE msg.type # "Metrics"
      BY <3>1, <3>3, Zenon DEF SnapshotStep, SnapshotTaken
    <3> QED
      BY <3>2, <3>3
  <2>4. CASE d # c
    BY <1>1, <1>2, <2>2, <2>4
  <2> QED
    BY <2>3, <2>4
<1>13. ASSUME NEW c \in Conns, TaskEnds(c) PROVE SnapshotStep(d)
  <2>1. UNCHANGED <<hand, cur, handled>> /\ \E a : oneshot' = [oneshot EXCEPT ![c] = a]
    BY <1>13 DEF TaskEnds, handlerVars
  <2>2. hand[c] # "answer"
    BY <1>13 DEF TaskEnds, CommandsInFlight, InStep
  <2>3. CASE d = c
    BY <1>3, <2>1, <2>2, <2>3
  <2>4. CASE d # c
    BY <1>1, <1>2, <2>1, <2>4
  <2> QED
    BY <2>3, <2>4
<1>14. CASE Engine
  <2>1. PICK c \in Conns : c = Head(queue)
    <3>1. PICK q \in Seq(Conns) : q = queue
      BY DEF AnswersTyped
    <3>2. q # <<>>
      BY <1>14, <3>1 DEF Engine
    <3> QED
      BY <3>1, <3>2, TailType
  <2> QED
    BY <1>14, <2>1, EngineSnapshot
<1>15. CASE EngineStops
  <2>1. UNCHANGED <<hand, cur, handled>> /\ (oneshot'[d] = oneshot[d] \/ oneshot'[d] = [is |-> "dropped"])
    <3>1. UNCHANGED <<hand, cur, handled>>
      BY <1>15 DEF EngineStops, handlerVars
    <3>2. \E S : oneshot' = [c \in Conns |-> IF c \in S THEN [is |-> "dropped"] ELSE oneshot[c]]
      BY <1>15, Zenon DEF EngineStops
    <3> QED
      BY <3>1, <3>2, Zenon
  <2>2. CASE oneshot'[d] = [is |-> "dropped"]
    <3>1. oneshot'[d].is = "dropped"
      BY <2>2
    <3> QED
      BY <3>1, Zenon DEF SnapshotStep, SnapshotTaken
  <2> QED
    BY <1>2, <2>1, <2>2
<1>16. CASE AcceptFails
  <2>1. UNCHANGED <<cur, handled, oneshot>> /\ (hand'[d] = hand[d] \/ hand'[d] = "refused")
    BY <1>16 DEF AcceptFails, engineVars
  <2> QED
    BY <1>2, <1>3, <2>1
<1>17. ASSUME NEW c \in Conns,
              \/ (\E req \in Requests[c] : Call(c, req)) \/ Client(c) \/ Cancel(c) \/ Close(c) \/ TaskSends(c)
       PROVE  UNCHANGED <<hand, cur, handled, oneshot>>
  BY <1>17 DEF Call, Client, Arrive, Receive, ReceiveClosed, Cancel, Close, TaskSends, handlerVars, engineVars
<1>18. ASSUME UNCHANGED vars PROVE UNCHANGED <<hand, cur, handled, oneshot>>
  BY <1>18 DEF vars, handlerVars, engineVars
<1> QED
  BY <1>4, <1>6, <1>7, <1>8, <1>9, <1>10, <1>11, <1>12, <1>13, <1>14, <1>15, <1>16, <1>17, <1>18
     DEF Next, Handler

\* The snapshots for the call under way count what the call has seen.
SnapshotsCount(c) ==
  call[c].num > 0 =>
    /\ SnapshotTaken(c) /\ Len(handled[c]) = call[c].num => CountsSeen(c, oneshot[c].json)
    /\ \A w \in OnItsWay(c) : w.msg.type = "Metrics" /\ w.of = call[c].num => CountsSeen(c, w.msg.json)

\* A new call: nothing on its way answers it yet.
LEMMA NothingAhead ==
  ASSUME RequestsInFlight, AllToRequest, NEW d \in Conns
  PROVE  /\ Len(handled[d]) \in Nat /\ Len(issued[d]) \in Nat /\ Len(handled[d]) <= Len(issued[d])
         /\ \A w \in OnItsWay(d) : w.of \in Nat /\ w.of <= Len(issued[d])
<1>1. PICK h \in Seq(AllRequests) : h = handled[d]
  BY DEF RequestsInFlight
<1>2. PICK n \in Nat : n = Len(issued[d])
  BY DEF RequestsInFlight
<1>3. Len(h) \in Nat /\ Len(h) <= n /\ DOMAIN h = 1 .. Len(h)
  <2>1. Len(h) + Len(up[d]) = n /\ Len(up[d]) \in Nat
    BY <1>1, <1>2 DEF RequestsInFlight
  <2> QED
    BY <2>1
<1>4. ASSUME NEW w \in OnItsWay(d) PROVE w.of \in 1 .. Len(h)
  BY <1>1, <1>3 DEF AllToRequest, ToRequest
<1> QED
  BY <1>1, <1>2, <1>3, <1>4

LEMMA NextSnapshotsCount ==
  ASSUME HandlersTyped, RequestsInFlight, AnswersTyped, CommandsInFlight, InsertsInFlight, CallsNumbered,
         BytesArrive, AnswersInLine, StoreNumbered, [Next]_vars, NEW d \in Conns, SnapshotsCount(d)
  PROVE  SnapshotsCount(d)'
<1>1. WrittenBefore /\ SnapshotStep(d) /\ CallStep(d)
  BY NextWritten, NextSnapshot, NextCall
<1>2. AllToRequest
  BY DEF AllToRequest, AnswersInLine, OnItsWay
<1>3. CASE call'[d] = call[d]
  <2> SUFFICES ASSUME call[d].num > 0 PROVE SnapshotsCount(d)'
    BY <1>3, Zenon DEF SnapshotsCount
  <2>1. PICK k : k = call[d] /\ k = call'[d]
    BY <1>3
  <2>2. records_inserted >= Cardinality(k.seen)
    <3>1. k.seen \in SUBSET acked
      BY <2>1 DEF StoreNumbered
    <3> QED
      BY <3>1, SeenCounted
  <2>3. ASSUME SnapshotTaken(d)', Len(handled'[d]) = k.num
        PROVE  oneshot'[d].json.records_inserted >= Cardinality(k.seen)
    <3>1. handled'[d] = handled[d] /\ ((SnapshotTaken(d) /\ oneshot'[d] = oneshot[d]) \/ JustTaken(d))
      BY <1>1, <2>3 DEF SnapshotStep
    <3>2. CASE SnapshotTaken(d) /\ oneshot'[d] = oneshot[d]
      <4>1. CountsSeen(d, oneshot[d].json)
        BY <2>1, <2>3, <3>1, <3>2, Zenon DEF SnapshotsCount
      <4> QED
        BY <2>1, <3>2, <4>1, Zenon DEF CountsSeen
    <3>3. CASE JustTaken(d)
      BY <2>2, <3>3, Zenon DEF JustTaken
    <3> QED
      BY <3>1, <3>2, <3>3
  <2>4. ASSUME NEW w \in OnItsWay(d)', w.msg.type = "Metrics", w.of = k.num
        PROVE  w.msg.json.records_inserted >= Cardinality(k.seen)
    <3>1. CASE w \in OnItsWay(d)
      <4>1. CountsSeen(d, w.msg.json)
        BY <2>1, <2>4, <3>1, Zenon DEF SnapshotsCount
      <4> QED
        BY <2>1, <4>1, Zenon DEF CountsSeen
    <3>2. CASE JustWritten(d, w)
      <4>1. w.of = Len(handled[d])
        BY <3>2 DEF JustWritten
      <4>2. /\ hand[d] = "answer" /\ w.msg = reply_to(cur[d], oneshot[d])
            /\ cur[d].type # "Ping" => oneshot[d].is # "pending"
            /\ cur[d].type \notin {"Ping", "Range"} => oneshot[d].is # "dropped"
        BY <2>4, <3>2 DEF JustWritten
      <4>3. cur[d].type = "Metrics" /\ w.msg = MetricsJson(oneshot[d].json)
        BY <2>4, <4>2, ReplyIs
      <4>4. SnapshotTaken(d)
        BY <4>2, <4>3 DEF SnapshotTaken
      <4>5. CountsSeen(d, oneshot[d].json)
        BY <2>1, <2>4, <4>1, <4>4, Zenon DEF SnapshotsCount
      <4>6. w.msg.json = oneshot[d].json
        BY <4>3 DEF MetricsJson
      <4> QED
        BY <2>1, <4>5, <4>6, Zenon DEF CountsSeen
    <3> QED
      BY <1>1, <3>1, <3>2 DEF WrittenBefore
  <2> QED
    BY <2>1, <2>3, <2>4, Zenon DEF SnapshotsCount, CountsSeen
<1>4. CASE call'[d] = Idle
  <2>1. ~(call'[d].num > 0)
    BY <1>4 DEF Idle
  <2> QED
    BY <2>1, Zenon DEF SnapshotsCount
<1>5. CASE call'[d].num = Len(issued[d]) + 1
  <2>1. PICK n \in Nat : n = Len(issued[d])
    BY <1>2, NothingAhead
  <2>2. Len(handled[d]) # n + 1
    BY <1>2, <2>1, NothingAhead
  <2>3. SnapshotTaken(d)' => Len(handled'[d]) # n + 1
    BY <1>1, <2>2, Zenon DEF SnapshotStep
  <2>4. ASSUME NEW w \in OnItsWay(d)' PROVE w.of # n + 1
    <3>1. CASE w \in OnItsWay(d)
      BY <1>2, <2>1, <3>1, NothingAhead
    <3>2. CASE JustWritten(d, w)
      BY <2>2, <3>2 DEF JustWritten
    <3> QED
      BY <1>1, <3>1, <3>2 DEF WrittenBefore
  <2> QED
    BY <1>5, <2>1, <2>3, <2>4, Zenon DEF SnapshotsCount
<1> QED
  BY <1>1, <1>3, <1>4, <1>5 DEF CallStep

\* MetricsFresh speaks of one connection at a time.
Fresh(c) ==
  Answered(c) /\ result[c].ok /\ result[c].req.type = "Metrics" /\ cancelled[c] = {} =>
    result[c].msg.json.records_inserted >= Cardinality(result[c].seen)

LEMMA NextFresh ==
  ASSUME RequestsInFlight, AnswersTyped, InsertsInFlight, CallsNumbered, BytesArrive, AnswersInLine,
         [Next]_vars, NEW d \in Conns, SnapshotsCount(d), Fresh(d)
  PROVE  Fresh(d)'
<1> SUFFICES ASSUME Answered(d)', result'[d].ok, result'[d].req.type = "Metrics", cancelled'[d] = {}
             PROVE  result'[d].msg.json.records_inserted >= Cardinality(result'[d].seen)
  BY Zenon DEF Fresh
<1>1. ResultStep(d)
  BY NextResult
<1>2. CASE result'[d] = result[d]
  <2>1. cancelled[d] = {}
    BY <1>1 DEF ResultStep
  <2>2. Answered(d)
    BY <1>2, Zenon DEF Answered
  <2>3. PICK r : r = result[d] /\ r = result'[d]
    BY <1>2
  <2>4. r.msg.json.records_inserted >= Cardinality(r.seen)
    BY <2>1, <2>2, <2>3, Zenon DEF Fresh
  <2> QED
    BY <2>3, <2>4, Zenon
<1>3. CASE Returns(d)
  <2>1. PICK w, r :
          /\ w = Head(down[d]) /\ w \in ToSet(down[d]) /\ w.of = call[d].num /\ call[d].num > 0
          /\ result'[d] = r /\ r.msg = w.msg /\ r.req = call[d].req /\ r.seen = call[d].seen
          /\ r.got = got[d] /\ (r.ok <=> w.msg.type = Expected(call[d].req))
    BY <1>3, ReturnsOwn
  <2>2. PICK req : req = call[d].req
    OBVIOUS
  <2>3. req.type = "Metrics" /\ w.msg.type = Expected(req)
    BY <2>1, <2>2, Zenon
  <2>4. w.msg.type = "Metrics"
    BY <2>3 DEF Expected, Inserts
  <2>5. CountsSeen(d, w.msg.json)
    BY <2>1, <2>4, Zenon DEF SnapshotsCount, OnItsWay
  <2> QED
    BY <2>1, <2>5, Zenon DEF CountsSeen
<1>4. CASE result'[d].msg.type = "closed"
  BY <1>4, Zenon DEF Answered
<1> QED
  BY <1>1, <1>2, <1>3, <1>4 DEF ResultStep

LEMMA InitSnapshots == Init => SnapshotsInFlight
<1> SUFFICES ASSUME Init PROVE SnapshotsInFlight
  OBVIOUS
<1>1. ASSUME NEW c \in Conns PROVE ~(call[c].num > 0) /\ ~Answered(c)
  BY DEF Init, Idle, Answered
<1> QED
  BY <1>1, InitStoreNumbered, Zenon DEF SnapshotsInFlight, MetricsFresh

LEMMA NextSnapshots == ConnInv /\ SnapshotsInFlight /\ [Next]_vars => SnapshotsInFlight'
<1> SUFFICES ASSUME ConnInv, SnapshotsInFlight, [Next]_vars PROVE SnapshotsInFlight'
  OBVIOUS
<1> USE DEF ConnInv
<1>1. StoreNumbered /\ StoreNumbered'
  BY NextStoreNumbered DEF SnapshotsInFlight
<1>2. \A c \in Conns : SnapshotsCount(c) /\ Fresh(c)
  BY Zenon DEF SnapshotsInFlight, SnapshotsCount, OnItsWay, MetricsFresh, Fresh
<1>3. \A c \in Conns : SnapshotsCount(c)' /\ Fresh(c)'
  BY <1>1, <1>2, NextSnapshotsCount, NextFresh
<1> QED
  BY <1>1, <1>3, Zenon DEF SnapshotsInFlight, SnapshotsCount, OnItsWay, MetricsFresh, Fresh

(* MetricsFresh: the snapshot that get_metrics returns counts every record   *)
(* whose insert had been acknowledged to any client before the call,         *)
(* whatever the other clients do meanwhile and whatever fails, as long as no *)
(* call of this client was dropped.                                          *)
THEOREM MetricsFreshTheorem == Spec => []MetricsFresh
<1>1. Init => ConnInv /\ SnapshotsInFlight
  BY InitConn, InitSnapshots
<1>2. ConnInv /\ SnapshotsInFlight /\ [Next]_vars => (ConnInv /\ SnapshotsInFlight)'
  BY NextConn, NextSnapshots
<1>3. SnapshotsInFlight => MetricsFresh
  BY DEF SnapshotsInFlight
<1> QED
  BY <1>1, <1>2, <1>3, PTL DEF Spec

-----------------------------------------------------------------------------
(* What a query selects, and the batches it comes in.                        *)

\* Every entry that matches is among what a query selects.
LEMMA SelectedHas ==
  ASSUME NEW msg, NEW es \in Seq(Entries), NEW j \in 1 .. Len(es), Matches(msg, es[j])
  PROVE  \E i \in 1 .. Len(Selected(msg, es)) : Selected(msg, es)[i] = ProtoRecord(es[j])
<1>1. PICK f : SelectedUpTo(f, msg, es) /\ Selected(msg, es) = f[Len(es)]
  BY SelectedSteps
<1>2. PICK n \in Nat : n = Len(es)
  OBVIOUS
<1>3. PICK r \in ProtoRecords : r = ProtoRecord(es[j])
  BY <1>1 DEF SelectedUpTo
<1> DEFINE In(i) == \E k \in 1 .. Len(f[i]) : f[i][k] = r
           T == {i \in j .. n : ~In(i)}
<1>4. SUFFICES ASSUME T # {} PROVE FALSE
  <2>1. n \in j .. n
    BY <1>2
  <2>2. T = {} => In(n)
    BY <2>1
  <2> HIDE DEF T
  <2> QED
    BY <1>1, <1>2, <1>3, <2>2, Zenon
<1> HIDE DEF In
<1>5. PICK c \in T : \A d \in T : c <= d
  <2>1. T \in SUBSET Nat
    BY <1>2
  <2> HIDE DEF T
  <2> QED
    BY <1>4, <2>1, LeastNumber
<1>6. c \in 1 .. n /\ c - 1 \in 0 .. n /\ c \in j .. n /\ ~In(c) /\ j \in 1 .. n
  BY <1>2, <1>5
<1>7. PICK a \in Seq(ProtoRecords) : a = f[c - 1]
  BY <1>1, <1>2, <1>6 DEF SelectedUpTo
<1>8. PICK e \in ProtoRecords : e = ProtoRecord(es[c])
  BY <1>1, <1>2, <1>6 DEF SelectedUpTo
<1>9. f[c] = IF Matches(msg, es[c]) THEN Append(a, e) ELSE a
  BY <1>1, <1>2, <1>6, <1>7, <1>8, Zenon DEF SelectedUpTo
<1>10. PICK b \in Seq(ProtoRecords) : b = Append(a, e)
  <2>1. Append(a, e) \in Seq(ProtoRecords)
    OBVIOUS
  <2> QED
    BY <2>1, Zenon
<1>11. Len(b) = Len(a) + 1 /\ Len(a) \in Nat /\ b[Len(a) + 1] = e /\ \A k \in 1 .. Len(a) : b[k] = a[k]
  BY <1>10
<1>12. CASE c = j
  <2>1. f[c] = b /\ e = r
    BY <1>3, <1>8, <1>9, <1>10, <1>12, Zenon
  <2>2. Len(a) + 1 \in 1 .. Len(b) /\ b[Len(a) + 1] = r
    BY <1>11, <2>1
  <2>3. In(c)
    BY <2>1, <2>2, Zenon DEF In
  <2> QED
    BY <1>6, <2>3
<1>13. CASE c # j
  <2>1. c - 1 \in j .. n /\ c - 1 \notin T
    BY <1>5, <1>6, <1>13
  <2>2. In(c - 1)
    BY <2>1
  <2>3. PICK k \in 1 .. Len(a) : a[k] = r
    BY <1>7, <2>2, Zenon DEF In
  <2>4. k \in 1 .. Len(b) /\ b[k] = r
    BY <1>11, <2>3
  <2>5. f[c] = a \/ f[c] = b
    BY <1>9, <1>10, Zenon
  <2>6. In(c)
    BY <2>3, <2>4, <2>5, Zenon DEF In
  <2> QED
    BY <1>6, <2>6
<1> QED
  BY <1>12, <1>13

\* The batch b is what follows in sel.
NextOf(b, sel, from) == from + Len(b) <= Len(sel) /\ \A i \in 1 .. Len(b) : b[i] = sel[from + i]

LEMMA LaidNone ==
  ASSUME NEW sel \in Seq(ProtoRecords), NEW n \in 0 .. Len(sel)
  PROVE  Laid(<<>>, sel, n, n)
<1>1. PICK bs \in Seq(Seq(ProtoRecords)) : bs = <<>>
  <2>1. <<>> \in Seq(Seq(ProtoRecords))
    OBVIOUS
  <2> QED
    BY <2>1, Zenon
<1>2. Len(bs) = 0
  BY <1>1
<1>3. PICK at : at = [j \in 0 .. Len(bs) |-> n]
  OBVIOUS
<1>4. at \in [0 .. Len(bs) -> 0 .. Len(sel)] /\ at[0] = n /\ at[Len(bs)] = n
  BY <1>2, <1>3
<1>5. Laid(bs, sel, n, n)
  BY <1>2, <1>4 DEF Laid
<1> QED
  BY <1>1, <1>5

LEMMA LaidEmpty ==
  ASSUME NEW sel \in Seq(ProtoRecords), NEW from, NEW to, Laid(<<>>, sel, from, to)
  PROVE  from = to
<1>1. PICK bs \in Seq(Seq(ProtoRecords)) : bs = <<>>
  <2>1. <<>> \in Seq(Seq(ProtoRecords))
    OBVIOUS
  <2> QED
    BY <2>1, Zenon
<1>2. Len(bs) = 0 /\ Laid(bs, sel, from, to)
  BY <1>1
<1> QED
  BY <1>2 DEF Laid

LEMMA LaidBounds ==
  ASSUME NEW bs \in Seq(Seq(ProtoRecords)), NEW sel \in Seq(ProtoRecords), NEW from, NEW to,
         Laid(bs, sel, from, to)
  PROVE  from \in 0 .. Len(sel) /\ to \in 0 .. Len(sel)
<1>1. PICK at \in [0 .. Len(bs) -> 0 .. Len(sel)] : at[0] = from /\ at[Len(bs)] = to
  BY DEF Laid
<1>2. 0 \in 0 .. Len(bs) /\ Len(bs) \in 0 .. Len(bs)
  OBVIOUS
<1> QED
  BY <1>1, <1>2

\* The task sends the next batch.
LEMMA LaidAppend ==
  ASSUME NEW bs \in Seq(Seq(ProtoRecords)), NEW sel \in Seq(ProtoRecords), NEW from, NEW to \in 0 .. Len(sel),
         Laid(bs, sel, from, to), NEW b \in Seq(ProtoRecords), NextOf(b, sel, to)
  PROVE  Laid(Append(bs, b), sel, from, to + Len(b))
<1>1. PICK at \in [0 .. Len(bs) -> 0 .. Len(sel)] :
        /\ at[0] = from /\ at[Len(bs)] = to
        /\ \A j \in 1 .. Len(bs) : /\ at[j] = at[j - 1] + Len(bs[j])
                                   /\ \A i \in 1 .. Len(bs[j]) : bs[j][i] = sel[at[j - 1] + i]
  BY DEF Laid
<1>2. PICK n \in Nat : n = Len(bs)
  OBVIOUS
<1>3. PICK s \in Nat : s = Len(sel)
  OBVIOUS
<1>4. PICK m \in Nat : m = Len(b)
  OBVIOUS
<1>5. PICK cs \in Seq(Seq(ProtoRecords)) : cs = Append(bs, b)
  <2>1. Append(bs, b) \in Seq(Seq(ProtoRecords))
    OBVIOUS
  <2> QED
    BY <2>1, Zenon
<1>6. Len(cs) = n + 1 /\ cs[n + 1] = b /\ \A j \in 1 .. n : cs[j] = bs[j]
  BY <1>2, <1>5
<1>7. to + m \in 0 .. s /\ \A i \in 1 .. m : b[i] = sel[to + i]
  BY <1>3, <1>4 DEF NextOf
<1>8. PICK in : in = [j \in 0 .. (n + 1) |-> IF j = n + 1 THEN to + m ELSE at[j]]
  OBVIOUS
<1>9. in \in [0 .. (n + 1) -> 0 .. s]
  <2>1. \A j \in 0 .. n : at[j] \in 0 .. s
    BY <1>1, <1>2, <1>3
  <2>2. ASSUME NEW j \in 0 .. (n + 1) PROVE in[j] \in 0 .. s
    <3>1. CASE j = n + 1
      BY <1>7, <1>8, <3>1
    <3>2. CASE j # n + 1
      BY <1>8, <2>1, <3>2
    <3> QED
      BY <3>1, <3>2
  <2> QED
    BY <1>8, <2>2
<1>10. in[n + 1] = to + m /\ \A j \in 0 .. n : in[j] = at[j]
  BY <1>8
<1>11. in[0] = from
  BY <1>1, <1>10
<1>12. ASSUME NEW j \in 1 .. (n + 1)
       PROVE  /\ in[j] = in[j - 1] + Len(cs[j])
              /\ \A i \in 1 .. Len(cs[j]) : cs[j][i] = sel[in[j - 1] + i]
  <2>1. CASE j = n + 1
    <3>1. in[j - 1] = to
      BY <1>1, <1>2, <1>10, <2>1
    <3>2. cs[j] = b /\ in[j] = to + m
      BY <1>6, <1>10, <2>1
    <3> QED
      BY <1>4, <1>7, <3>1, <3>2
  <2>2. CASE j # n + 1
    <3>1. j \in 1 .. n /\ j \in 0 .. n /\ j - 1 \in 0 .. n
      BY <2>2
    <3>2. in[j] = at[j] /\ in[j - 1] = at[j - 1] /\ cs[j] = bs[j]
      BY <1>6, <1>10, <3>1
    <3>3. /\ at[j] = at[j - 1] + Len(bs[j])
          /\ \A i \in 1 .. Len(bs[j]) : bs[j][i] = sel[at[j - 1] + i]
      BY <1>1, <1>2, <3>1
    <3> QED
      BY <3>2, <3>3, Zenon
  <2> QED
    BY <2>1, <2>2
<1>13. Laid(cs, sel, from, to + m)
  <2>1. PICK k : k = Len(cs)
    OBVIOUS
  <2>2. k = n + 1 /\ in[k] = to + m
    BY <1>6, <1>10, <2>1
  <2>3. in \in [0 .. k -> 0 .. Len(sel)]
    BY <1>3, <1>9, <2>2
  <2>4. \A j \in 1 .. k : /\ in[j] = in[j - 1] + Len(cs[j])
                           /\ \A i \in 1 .. Len(cs[j]) : cs[j][i] = sel[in[j - 1] + i]
    BY <1>12, <2>2
  <2>5. PICK end : end = to + m
    OBVIOUS
  <2>6. in[Len(cs)] = end /\ in \in [0 .. Len(cs) -> 0 .. Len(sel)]
    BY <2>1, <2>2, <2>3, <2>5
  <2>7. \A j \in 1 .. Len(cs) : /\ in[j] = in[j - 1] + Len(cs[j])
                                 /\ \A i \in 1 .. Len(cs[j]) : cs[j][i] = sel[in[j - 1] + i]
    BY <2>1, <2>4, Zenon
  <2>8. Laid(cs, sel, from, end)
    BY <1>11, <2>6, <2>7, Zenon DEF Laid
  <2> QED
    BY <2>5, <2>8
<1> QED
  BY <1>4, <1>5, <1>13

\* The handler takes the first batch.
LEMMA LaidTail ==
  ASSUME NEW bs \in Seq(Seq(ProtoRecords)), NEW sel \in Seq(ProtoRecords), NEW from, NEW to,
         Laid(bs, sel, from, to), bs # <<>>, NEW b \in Seq(ProtoRecords), b = Head(bs)
  PROVE  from \in Nat /\ NextOf(b, sel, from) /\ Laid(Tail(bs), sel, from + Len(b), to)
<1>1. PICK at \in [0 .. Len(bs) -> 0 .. Len(sel)] :
        /\ at[0] = from /\ at[Len(bs)] = to
        /\ \A j \in 1 .. Len(bs) : /\ at[j] = at[j - 1] + Len(bs[j])
                                   /\ \A i \in 1 .. Len(bs[j]) : bs[j][i] = sel[at[j - 1] + i]
  BY DEF Laid
<1>2. PICK n \in Nat : Len(bs) = n + 1
  <2>1. Len(bs) - 1 \in Nat /\ Len(bs) = (Len(bs) - 1) + 1
    OBVIOUS
  <2> QED
    BY <2>1
<1>3. PICK s \in Nat : s = Len(sel)
  OBVIOUS
<1>4. PICK m \in Nat : m = Len(b)
  OBVIOUS
<1>5. PICK cs \in Seq(Seq(ProtoRecords)) : cs = Tail(bs)
  BY TailType
<1>6. Len(cs) = n /\ bs[1] = b /\ \A j \in 1 .. n : cs[j] = bs[j + 1]
  BY <1>2, <1>5
<1>7. at \in [0 .. (n + 1) -> 0 .. s] /\ at[n + 1] = to
  BY <1>1, <1>2, <1>3
<1>8. \A j \in 1 .. (n + 1) : /\ at[j] = at[j - 1] + Len(bs[j])
                              /\ \A i \in 1 .. Len(bs[j]) : bs[j][i] = sel[at[j - 1] + i]
  BY <1>1, <1>2
<1>9. 1 \in 1 .. (n + 1) /\ 1 - 1 = 0
  OBVIOUS
<1>10. at[1] = from + m /\ \A i \in 1 .. m : b[i] = sel[from + i]
  BY <1>1, <1>4, <1>6, <1>8, <1>9
<1>11. from \in Nat /\ from + m <= s
  BY <1>1, <1>7, <1>9, <1>10, SMTT(30)
<1>12. PICK in : in = [j \in 0 .. n |-> at[j + 1]]
  OBVIOUS
<1>13. in \in [0 .. n -> 0 .. s] /\ in[0] = from + m /\ in[n] = to
  BY <1>7, <1>10, <1>12, SMTT(30)
<1>14. ASSUME NEW j \in 1 .. n
       PROVE  /\ in[j] = in[j - 1] + Len(cs[j])
              /\ \A i \in 1 .. Len(cs[j]) : cs[j][i] = sel[in[j - 1] + i]
  <2>1. j + 1 \in 1 .. (n + 1) /\ (j + 1) - 1 = j /\ j \in 0 .. n /\ j - 1 \in 0 .. n /\ (j - 1) + 1 = j
    OBVIOUS
  <2>2. in[j] = at[j + 1] /\ in[j - 1] = at[j] /\ cs[j] = bs[j + 1]
    BY <1>6, <1>12, <2>1
  <2>3. /\ at[j + 1] = at[j] + Len(bs[j + 1])
        /\ \A i \in 1 .. Len(bs[j + 1]) : bs[j + 1][i] = sel[at[j] + i]
    BY <1>8, <2>1, SMTT(30)
  <2> QED
    BY <2>2, <2>3, Zenon
<1>15. Laid(cs, sel, from + m, to)
  BY <1>3, <1>6, <1>13, <1>14, Zenon DEF Laid
<1>16. NextOf(b, sel, from)
  BY <1>3, <1>4, <1>10, <1>11 DEF NextOf
<1> QED
  BY <1>4, <1>5, <1>11, <1>15, <1>16

-----------------------------------------------------------------------------
(* A query on its way from the task to the caller.                           *)

LEMMA RecordOf ==
  ASSUME NEW r
  PROVE  RangeRecord(r).type = "RangeRecord" /\ RangeRecord(r).record = r
BY DEF RangeRecord

LEMMA DeliversNone ==
  ASSUME NEW sel \in Seq(ProtoRecords), NEW had \in Seq(ProtoRecords), NEW q \in Seq(Written),
         had = <<>>, q = <<>>
  PROVE  Delivers(had, q, sel)
<1>1. Len(had) = 0 /\ Len(q) = 0 /\ Len(sel) \in Nat
  OBVIOUS
<1> QED
  BY <1>1 DEF Delivers

LEMMA DeliversPrefix ==
  ASSUME NEW had \in Seq(ProtoRecords), NEW p \in Seq(Written), NEW r \in Seq(Written),
         NEW sel \in Seq(ProtoRecords), Delivers(had, p \o r, sel)
  PROVE  Delivers(had, p \o <<>>, sel)
<1>1. PICK q \in Seq(Written) : q = p \o r
  BY ConcatParts
<1>2. PICK n \in Nat : n = Len(p)
  OBVIOUS
<1>3. Len(q) \in Nat /\ n <= Len(q) /\ \A i \in 1 .. n : q[i] = p[i]
  BY <1>1, <1>2
<1>4. /\ Len(had) <= Len(sel) /\ \A i \in 1 .. Len(had) : had[i] = sel[i]
      /\ \A i \in 1 .. Len(q) :
           /\ q[i].msg.type = "RangeRecord" => /\ Len(had) + i <= Len(sel)
                                              /\ q[i].msg = RangeRecord(sel[Len(had) + i])
           /\ q[i].msg.type = "RangeEnd" => Len(had) + i - 1 = Len(sel)
  BY <1>1, Zenon DEF Delivers
<1>5. ASSUME NEW i \in 1 .. n PROVE i \in 1 .. Len(q) /\ q[i] = p[i]
  BY <1>3
<1>6. Delivers(had, p, sel)
  BY <1>2, <1>4, <1>5, Zenon DEF Delivers
<1>7. p \o <<>> = p
  OBVIOUS
<1> QED
  BY <1>6, <1>7

\* The frames that carry the records of b.
FramesOf(f, b) == Len(f) = Len(b) /\ \A i \in 1 .. Len(b) : f[i].msg = RangeRecord(b[i])

\* The handler writes the records of a batch.
LEMMA DeliversRecords ==
  ASSUME NEW had \in Seq(ProtoRecords), NEW q \in Seq(Written), NEW sel \in Seq(ProtoRecords),
         Delivers(had, q, sel), NEW f \in Seq(Written), NEW b \in Seq(ProtoRecords), FramesOf(f, b),
         NEW from \in Nat, from = Len(had) + Len(q), NextOf(b, sel, from)
  PROVE  Delivers(had, q \o f, sel)
<1>1. PICK n \in Nat : n = Len(q)
  OBVIOUS
<1>2. PICK m \in Nat : m = Len(b)
  OBVIOUS
<1>3. PICK h \in Nat : h = Len(had)
  OBVIOUS
<1>4. PICK s \in Nat : s = Len(sel)
  OBVIOUS
<1>5. PICK p \in Seq(Written) : p = q \o f
  BY ConcatParts
<1>6. Len(p) = n + m /\ (\A i \in 1 .. n : p[i] = q[i]) /\ \A i \in 1 .. m : p[n + i] = f[i]
  <2>1. /\ Len(p) = Len(q) + Len(f) /\ (\A i \in 1 .. Len(q) : p[i] = q[i])
        /\ \A i \in 1 .. Len(f) : p[Len(q) + i] = f[i]
    BY <1>5
  <2>2. Len(f) = m
    BY <1>2 DEF FramesOf
  <2> QED
    BY <1>1, <2>1, <2>2
<1>7. h <= s /\ \A i \in 1 .. h : had[i] = sel[i]
  BY <1>3, <1>4 DEF Delivers
<1>8. ASSUME NEW i \in 1 .. (n + m)
      PROVE  /\ p[i].msg.type = "RangeRecord" => h + i <= s /\ p[i].msg = RangeRecord(sel[h + i])
             /\ p[i].msg.type = "RangeEnd" => h + i - 1 = s
  <2>1. CASE i <= n
    <3>1. i \in 1 .. n /\ p[i] = q[i]
      BY <1>6, <2>1
    <3>2. /\ q[i].msg.type = "RangeRecord" => h + i <= s /\ q[i].msg = RangeRecord(sel[h + i])
          /\ q[i].msg.type = "RangeEnd" => h + i - 1 = s
      BY <1>1, <1>3, <1>4, <3>1, Zenon DEF Delivers
    <3> QED
      BY <3>1, <3>2, Zenon
  <2>2. CASE i > n
    <3>1. PICK j \in 1 .. m : i = n + j
      <4>1. i - n \in 1 .. m /\ i = n + (i - n)
        BY <2>2
      <4> QED
        BY <4>1
    <3>2. p[i] = f[j] /\ f[j].msg = RangeRecord(b[j]) /\ b[j] = sel[from + j]
      BY <1>2, <1>6, <3>1 DEF FramesOf, NextOf
    <3>3. from + j = h + i /\ h + i <= s
      <4>1. from = h + n /\ from + m <= s
        BY <1>1, <1>2, <1>3, <1>4, Zenon DEF NextOf
      <4>2. from + j <= s
        BY <4>1
      <4>3. (h + n) + j = h + (n + j)
        OBVIOUS
      <4>4. from + j = h + i
        BY <3>1, <4>1, <4>3, Zenon
      <4> QED
        BY <4>2, <4>4
    <3>4. p[i].msg = RangeRecord(sel[h + i])
      BY <3>2, <3>3
    <3>5. p[i].msg.type = "RangeRecord"
      BY <3>4, RecordOf
    <3> QED
      BY <3>3, <3>4, <3>5
  <2> QED
    BY <2>1, <2>2
<1>9. Delivers(had, p, sel)
  <2>1. \A i \in 1 .. Len(p) :
           /\ p[i].msg.type = "RangeRecord" => h + i <= s /\ p[i].msg = RangeRecord(sel[h + i])
           /\ p[i].msg.type = "RangeEnd" => h + i - 1 = s
    BY <1>6, <1>8
  <2> QED
    BY <1>3, <1>4, <1>7, <2>1, Zenon DEF Delivers
<1> QED
  BY <1>5, <1>9

\* The handler writes its reply.
LEMMA DeliversReply ==
  ASSUME NEW had \in Seq(ProtoRecords), NEW q \in Seq(Written), NEW sel \in Seq(ProtoRecords),
         Delivers(had, q, sel), NEW w \in Written, w.msg.type # "RangeRecord",
         w.msg.type = "RangeEnd" => Len(had) + Len(q) = Len(sel)
  PROVE  Delivers(had, Append(q, w), sel)
<1>1. PICK n \in Nat : n = Len(q)
  OBVIOUS
<1>3. PICK h \in Nat : h = Len(had)
  OBVIOUS
<1>4. PICK s \in Nat : s = Len(sel)
  OBVIOUS
<1>5. PICK p \in Seq(Written) : p = Append(q, w)
  <2>1. Append(q, w) \in Seq(Written)
    OBVIOUS
  <2> QED
    BY <2>1, Zenon
<1>6. Len(p) = n + 1 /\ p[n + 1] = w /\ \A i \in 1 .. n : p[i] = q[i]
  BY <1>1, <1>5
<1>7. h <= s /\ \A i \in 1 .. h : had[i] = sel[i]
  BY <1>3, <1>4 DEF Delivers
<1>8. ASSUME NEW i \in 1 .. (n + 1)
      PROVE  /\ p[i].msg.type = "RangeRecord" => h + i <= s /\ p[i].msg = RangeRecord(sel[h + i])
             /\ p[i].msg.type = "RangeEnd" => h + i - 1 = s
  <2>1. CASE i <= n
    <3>1. i \in 1 .. n /\ p[i] = q[i]
      BY <1>6, <2>1
    <3>2. /\ q[i].msg.type = "RangeRecord" => h + i <= s /\ q[i].msg = RangeRecord(sel[h + i])
          /\ q[i].msg.type = "RangeEnd" => h + i - 1 = s
      BY <1>1, <1>3, <1>4, <3>1, Zenon DEF Delivers
    <3> QED
      BY <3>1, <3>2, Zenon
  <2>2. CASE i > n
    <3>1. i = n + 1 /\ p[i] = w
      BY <1>6, <2>2
    <3>2. h + i - 1 = h + n
      BY <3>1
    <3> QED
      BY <1>1, <1>3, <1>4, <3>1, <3>2
  <2> QED
    BY <2>1, <2>2
<1>9. Delivers(had, p, sel)
  <2>1. \A i \in 1 .. Len(p) :
           /\ p[i].msg.type = "RangeRecord" => h + i <= s /\ p[i].msg = RangeRecord(sel[h + i])
           /\ p[i].msg.type = "RangeEnd" => h + i - 1 = s
    BY <1>6, <1>8
  <2> QED
    BY <1>3, <1>4, <1>7, <2>1, Zenon DEF Delivers
<1> QED
  BY <1>5, <1>9

\* The client takes a record.
LEMMA DeliversTake ==
  ASSUME NEW had \in Seq(ProtoRecords), NEW q \in Seq(Written), NEW sel \in Seq(ProtoRecords),
         Delivers(had, q, sel), q # <<>>, q[1].msg.type = "RangeRecord"
  PROVE  /\ q[1].msg.record \in ProtoRecords
         /\ Delivers(Append(had, q[1].msg.record), Tail(q), sel)
         /\ Len(Append(had, q[1].msg.record)) + Len(Tail(q)) = Len(had) + Len(q)
<1>1. PICK n \in Nat : Len(q) = n + 1
  <2>1. Len(q) - 1 \in Nat /\ Len(q) = (Len(q) - 1) + 1
    OBVIOUS
  <2> QED
    BY <2>1
<1>2. PICK r : r = q[1].msg.record
  OBVIOUS
<1>3. PICK h \in Nat : h = Len(had)
  OBVIOUS
<1>4. PICK s \in Nat : s = Len(sel)
  OBVIOUS
<1>5. h <= s /\ \A i \in 1 .. h : had[i] = sel[i]
  BY <1>3, <1>4 DEF Delivers
<1>6. \A i \in 1 .. (n + 1) :
           /\ q[i].msg.type = "RangeRecord" => h + i <= s /\ q[i].msg = RangeRecord(sel[h + i])
           /\ q[i].msg.type = "RangeEnd" => h + i - 1 = s
  BY <1>1, <1>3, <1>4, Zenon DEF Delivers
<1>7. h + 1 <= s /\ r = sel[h + 1]
  <2>1. 1 \in 1 .. (n + 1)
    OBVIOUS
  <2>2. h + 1 <= s /\ q[1].msg = RangeRecord(sel[h + 1])
    BY <1>6, <2>1, Zenon
  <2> QED
    BY <1>2, <2>2, RecordOf
<1>8. r \in ProtoRecords
  BY <1>3, <1>4, <1>7
<1>9. PICK g \in Seq(ProtoRecords) : g = Append(had, r)
  <2>1. Append(had, r) \in Seq(ProtoRecords)
    BY <1>8
  <2> QED
    BY <2>1, Zenon
<1>10. Len(g) = h + 1 /\ g[h + 1] = r /\ \A i \in 1 .. h : g[i] = had[i]
  BY <1>3, <1>8, <1>9
<1>11. PICK t \in Seq(Written) : t = Tail(q)
  BY TailType
<1>12. Len(t) = n /\ \A i \in 1 .. n : t[i] = q[i + 1]
  BY <1>1, <1>11
<1>13. \A i \in 1 .. (h + 1) : g[i] = sel[i]
  <2>1. ASSUME NEW i \in 1 .. (h + 1) PROVE g[i] = sel[i]
    <3>1. CASE i = h + 1
      BY <1>7, <1>10, <3>1
    <3>2. CASE i # h + 1
      BY <1>5, <1>10, <3>2
    <3> QED
      BY <3>1, <3>2
  <2> QED
    BY <2>1
<1>14. ASSUME NEW i \in 1 .. n
       PROVE  /\ t[i].msg.type = "RangeRecord" => (h + 1) + i <= s /\ t[i].msg = RangeRecord(sel[(h + 1) + i])
              /\ t[i].msg.type = "RangeEnd" => (h + 1) + i - 1 = s
  <2>1. PICK j \in 1 .. (n + 1) : j = i + 1
    OBVIOUS
  <2>2. t[i] = q[j]
    BY <1>12, <2>1
  <2>3. h + j = (h + 1) + i /\ h + j - 1 = (h + 1) + i - 1
    BY <2>1
  <2>4. /\ q[j].msg.type = "RangeRecord" => h + j <= s /\ q[j].msg = RangeRecord(sel[h + j])
        /\ q[j].msg.type = "RangeEnd" => h + j - 1 = s
    BY <1>6
  <2> QED
    BY <2>2, <2>3, <2>4, Zenon
<1>15. Delivers(g, t, sel)
  BY <1>4, <1>7, <1>10, <1>12, <1>13, <1>14, Zenon DEF Delivers
<1>16. Len(g) + Len(t) = Len(had) + Len(q)
  BY <1>1, <1>3, <1>10, <1>12
<1> QED
  BY <1>2, <1>8, <1>9, <1>11, <1>15, <1>16, Zenon

\* The client reads the end: it has everything.
LEMMA DeliversAll ==
  ASSUME NEW had \in Seq(ProtoRecords), NEW q \in Seq(Written), NEW sel \in Seq(ProtoRecords),
         Delivers(had, q, sel), q # <<>>, q[1].msg.type = "RangeEnd"
  PROVE  had = sel
<1>1. 1 \in 1 .. Len(q)
  OBVIOUS
<1>2. Len(had) + 1 - 1 = Len(sel)
  BY <1>1, Zenon DEF Delivers
<1>3. Len(had) = Len(sel)
  BY <1>2
<1>4. \A i \in 1 .. Len(had) : had[i] = sel[i]
  BY DEF Delivers
<1> QED
  BY <1>3, <1>4

Alive(t) == t.alive

FlowsUpTo(to, pc, bs, t, answer, from, sel) ==
  /\ to \in 0 .. Len(sel) /\ Laid(bs, sel, from, to) /\ ToSend(t, sel, to)
  /\ pc \in {"final flush", "answer"} => bs = <<>>
  /\ answer.is = "ok" => ~t.alive /\ to = Len(sel)

LEMMA FlowsTo ==
  ASSUME NEW pc, NEW bs, NEW t, NEW answer, NEW from, NEW sel, NEW to,
         FlowsUpTo(to, pc, bs, t, answer, from, sel)
  PROVE  Flows(pc, bs, t, answer, from, sel)
BY Zenon DEF Flows, FlowsUpTo

LEMMA FlowsFrom ==
  ASSUME NEW pc, NEW bs, NEW t, NEW answer, NEW from, NEW sel, Flows(pc, bs, t, answer, from, sel)
  PROVE  \E to \in 0 .. Len(sel) : FlowsUpTo(to, pc, bs, t, answer, from, sel)
BY Zenon DEF Flows, FlowsUpTo

LEMMA LenNat == ASSUME NEW S, NEW s \in Seq(S) PROVE Len(s) \in Nat
OBVIOUS

LEMMA NumbersBetween ==
  ASSUME NEW s \in Nat, NEW n \in 0 .. s, NEW m \in n .. s
  PROVE  n \in Nat /\ m \in Nat /\ n <= m /\ m <= s
OBVIOUS

\* What is left of a part of a sequence.
LEMMA SubSeqRest ==
  ASSUME NEW S, NEW s \in Seq(S), NEW n \in Nat, NEW k \in Nat, NEW m \in Nat, n + k + m <= Len(s),
         NEW left, left = SubSeq(s, n + 1, n + k + m)
  PROVE  /\ left \in Seq(S) /\ Len(left) = k + m /\ \A i \in 1 .. (k + m) : left[i] = s[n + i]
         /\ SubSeq(left, k + 1, k + m) = SubSeq(s, n + k + 1, n + k + m)
<1>1. left \in Seq(S) /\ Len(left) = k + m /\ \A i \in 1 .. (k + m) : left[i] = s[n + i]
  <2>1. PICK e \in Nat : e = n + k + m /\ e <= Len(s) /\ e - n = k + m /\ n <= e
    OBVIOUS
  <2>2. PICK x : x = SubSeq(s, n + 1, e)
    OBVIOUS
  <2>3. x \in Seq(S) /\ Len(x) = e - n /\ \A i \in 1 .. (e - n) : x[i] = s[n + i]
    BY <2>1, <2>2
  <2> QED
    BY <2>1, <2>2, <2>3, Zenon
<1>2. PICK x \in Seq(S) : x = SubSeq(left, k + 1, k + m)
  <2>1. SubSeq(left, k + 1, k + m) \in Seq(S)
    BY <1>1
  <2> QED
    BY <2>1, Zenon
<1>3. PICK y \in Seq(S) : y = SubSeq(s, n + k + 1, n + k + m)
  <2>1. SubSeq(s, n + k + 1, n + k + m) \in Seq(S)
    OBVIOUS
  <2> QED
    BY <2>1, Zenon
<1>4. Len(x) = m /\ \A i \in 1 .. m : x[i] = left[k + i]
  <2>1. PICK e \in Nat : e = k + m /\ e - k = m /\ k <= e
    OBVIOUS
  <2>2. PICK l \in Seq(S) : l = left /\ Len(l) = e /\ x = SubSeq(l, k + 1, e)
    BY <1>1, <1>2, <2>1, Zenon
  <2>3. Len(x) = e - k /\ \A i \in 1 .. (e - k) : x[i] = l[k + i]
    BY <2>1, <2>2
  <2> QED
    BY <2>1, <2>2, <2>3, Zenon
<1>5. Len(y) = m /\ \A i \in 1 .. m : y[i] = s[n + k + i]
  BY <1>3
<1>6. ASSUME NEW i \in 1 .. m PROVE x[i] = y[i]
  <2>1. PICK j \in 1 .. (k + m) : j = k + i /\ n + j = n + k + i
    OBVIOUS
  <2>2. x[i] = left[j] /\ left[j] = s[n + j] /\ y[i] = s[n + j]
    BY <1>1, <1>4, <1>5, <2>1
  <2> QED
    BY <2>2
<1>7. x = y
  BY <1>4, <1>5, <1>6
<1> QED
  BY <1>1, <1>2, <1>3, <1>7

\* The first k records that are left.
FirstLeft(left, k, b, sel, to, end) ==
  /\ b \in Seq(ProtoRecords) /\ Len(b) = k /\ NextOf(b, sel, to)
  /\ SubSeq(left, k + 1, Len(left)) = SubSeq(sel, to + k + 1, end)
  /\ to + k \in 0 .. Len(sel) /\ end \in (to + k) .. Len(sel)

LEMMA SendsNext ==
  ASSUME NEW sel \in Seq(ProtoRecords), NEW to \in Nat, NEW end \in Nat, to <= end, end <= Len(sel),
         NEW left, left = SubSeq(sel, to + 1, end), NEW k \in 0 .. Len(left), NEW b, b = SubSeq(left, 1, k)
  PROVE  FirstLeft(left, k, b, sel, to, end)
<1>1. left \in Seq(ProtoRecords) /\ Len(left) = end - to
  OBVIOUS
<1>2. PICK m \in Nat : end = to + k + m /\ k \in Nat /\ Len(left) = k + m
  <2>1. k \in Nat /\ end - to - k \in Nat /\ end = to + k + (end - to - k) /\ end - to = k + (end - to - k)
    BY <1>1
  <2> QED
    BY <1>1, <2>1
<1>3. to + k + m <= Len(sel) /\ left = SubSeq(sel, to + 1, to + k + m)
  BY <1>2
<1>4. /\ \A i \in 1 .. (k + m) : left[i] = sel[to + i]
      /\ SubSeq(left, k + 1, k + m) = SubSeq(sel, to + k + 1, to + k + m)
  BY <1>2, <1>3, SubSeqRest
<1>5. b \in Seq(ProtoRecords) /\ Len(b) = k /\ \A i \in 1 .. k : b[i] = left[i]
  BY <1>1
<1>6. \A i \in 1 .. k : b[i] = sel[to + i]
  BY <1>2, <1>4, <1>5
<1>7. to + k <= Len(sel) /\ to + k \in 0 .. Len(sel) /\ end \in (to + k) .. Len(sel)
  BY <1>2, <1>3
<1>8. NextOf(b, sel, to)
  BY <1>5, <1>6, <1>7 DEF NextOf
<1> QED
  BY <1>2, <1>4, <1>5, <1>7, <1>8 DEF FirstLeft

\* The query is not taken, or refused.
LEMMA FlowsNone ==
  ASSUME NEW pc, NEW t, NEW answer, NEW sel \in Seq(ProtoRecords), ~Alive(t), answer.is # "ok"
  PROVE  Flows(pc, <<>>, t, answer, 0, sel)
<1>1. 0 \in 0 .. Len(sel)
  OBVIOUS
<1>2. Laid(<<>>, sel, 0, 0)
  BY <1>1, LaidNone
<1>3. FlowsUpTo(0, pc, <<>>, t, answer, 0, sel)
  BY <1>1, <1>2, Zenon DEF FlowsUpTo, ToSend, Alive
<1> QED
  BY <1>3, FlowsTo, Zenon

\* The task is started over what is selected, which it may not reach the end of.
LEMMA FlowsStarts ==
  ASSUME NEW pc, NEW t, NEW answer, NEW sel \in Seq(ProtoRecords), answer.is # "ok",
         NEW n \in 0 .. Len(sel), t.left = SubSeq(sel, 1, n), t.ok => n = Len(sel)
  PROVE  Flows(pc, <<>>, t, answer, 0, sel)
<1>1. 0 \in 0 .. Len(sel) /\ 0 + 1 = 1
  OBVIOUS
<1>2. Laid(<<>>, sel, 0, 0)
  BY <1>1, LaidNone
<1>3. ToSend(t, sel, 0)
  BY <1>1, Zenon DEF ToSend
<1>4. FlowsUpTo(0, pc, <<>>, t, answer, 0, sel)
  BY <1>1, <1>2, <1>3, Zenon DEF FlowsUpTo
<1> QED
  BY <1>4, FlowsTo, Zenon

\* The task sends the first k records it has left.
Sends(t, k, u) ==
  k \in 0 .. Len(t.left) /\ u.left = SubSeq(t.left, k + 1, Len(t.left)) /\ (u.ok => t.ok)

LEMMA FlowsSends ==
  ASSUME NEW pc, NEW bs \in Seq(Seq(ProtoRecords)), NEW t, NEW answer, NEW from,
         NEW sel \in Seq(ProtoRecords), Flows(pc, bs, t, answer, from, sel), Alive(t),
         pc \notin {"final flush", "answer"}, NEW k, NEW u, Sends(t, k, u)
  PROVE  Flows(pc, Append(bs, SubSeq(t.left, 1, k)), u, answer, from, sel)
<1>0. Len(sel) \in Nat
  BY LenNat, Zenon
<1>1. PICK to \in 0 .. Len(sel) : FlowsUpTo(to, pc, bs, t, answer, from, sel)
  BY FlowsFrom, Zenon
<1>2. to \in 0 .. Len(sel) /\ Laid(bs, sel, from, to) /\ ToSend(t, sel, to) /\ answer.is # "ok"
  BY <1>1, Zenon DEF FlowsUpTo, Alive
<1>3. PICK end \in to .. Len(sel) : t.left = SubSeq(sel, to + 1, end) /\ (t.ok => end = Len(sel))
  BY <1>2, Zenon DEF ToSend, Alive
<1>4. PICK left : left = t.left /\ left = SubSeq(sel, to + 1, end)
  BY <1>3, Zenon
<1>5. end \in Nat /\ to \in Nat /\ to <= end /\ end <= Len(sel)
  BY <1>0, <1>2, <1>3, NumbersBetween, Zenon
<1>6. k \in 0 .. Len(left) /\ u.left = SubSeq(left, k + 1, Len(left))
  BY <1>4, Zenon DEF Sends
<1>7. PICK b : b = SubSeq(left, 1, k)
  OBVIOUS
<1>8. /\ b \in Seq(ProtoRecords) /\ Len(b) = k /\ NextOf(b, sel, to)
      /\ SubSeq(left, k + 1, Len(left)) = SubSeq(sel, to + k + 1, end)
      /\ to + k \in 0 .. Len(sel) /\ end \in (to + k) .. Len(sel)
  <2>1. FirstLeft(left, k, b, sel, to, end)
    BY <1>4, <1>5, <1>6, <1>7, SendsNext, Zenon
  <2> QED
    BY <2>1, Zenon DEF FirstLeft
<1>15. Laid(Append(bs, b), sel, from, to + k)
  <2>1. Laid(Append(bs, b), sel, from, to + Len(b))
    BY <1>2, <1>8, LaidAppend, Zenon
  <2> QED
    BY <1>8, <2>1, Zenon
<1>16. u.left = SubSeq(sel, (to + k) + 1, end)
  BY <1>6, <1>8, Zenon
<1>17. to + k \in 0 .. Len(sel) /\ end \in (to + k) .. Len(sel)
  BY <1>8, Zenon
<1>18. ToSend(u, sel, to + k)
  <2>1. u.ok => end = Len(sel)
    BY <1>3, Zenon DEF Sends
  <2> QED
    BY <1>16, <1>17, <2>1, Zenon DEF ToSend
<1>19. FlowsUpTo(to + k, pc, Append(bs, b), u, answer, from, sel)
  BY <1>2, <1>15, <1>17, <1>18, Zenon DEF FlowsUpTo
<1>20. Flows(pc, Append(bs, b), u, answer, from, sel)
  BY <1>19, FlowsTo, Zenon
<1> QED
  BY <1>4, <1>7, <1>20, Zenon

\* The task ends, with everything sent if it says so.
LEMMA FlowsEnds ==
  ASSUME NEW pc, NEW bs, NEW t, NEW answer, NEW from, NEW sel \in Seq(ProtoRecords),
         Flows(pc, bs, t, answer, from, sel), Alive(t), NEW u, ~Alive(u), NEW said,
         said.is = "ok" => t.left = <<>> /\ t.ok
  PROVE  Flows(pc, bs, u, said, from, sel)
<1>1. PICK to \in 0 .. Len(sel) : FlowsUpTo(to, pc, bs, t, answer, from, sel)
  BY FlowsFrom, Zenon
<1>2. to \in 0 .. Len(sel) /\ ToSend(t, sel, to)
  BY <1>1, Zenon DEF FlowsUpTo, Alive
<1>3. ASSUME said.is = "ok" PROVE to = Len(sel)
  <2>1. PICK end \in to .. Len(sel) : t.left = SubSeq(sel, to + 1, end) /\ (t.ok => end = Len(sel))
    BY <1>2, Zenon DEF ToSend, Alive
  <2>2. SubSeq(sel, to + 1, Len(sel)) = <<>>
    BY <1>3, <2>1, Zenon
  <2>3. PICK x \in Seq(ProtoRecords) : x = SubSeq(sel, to + 1, Len(sel))
    BY <1>2, SubSeqType
  <2>4. Len(x) = Len(sel) - to /\ to \in Nat /\ Len(sel) \in Nat
    BY <1>2, <2>3
  <2>5. Len(x) = 0
    BY <2>2, <2>3
  <2> QED
    BY <2>4, <2>5
<1>4. FlowsUpTo(to, pc, bs, u, said, from, sel)
  BY <1>1, <1>3, Zenon DEF FlowsUpTo, ToSend, Alive
<1> QED
  BY <1>4, FlowsTo, Zenon

\* The handler takes the first batch.
LEMMA FlowsTakes ==
  ASSUME NEW pc, NEW bs \in Seq(Seq(ProtoRecords)), NEW t, NEW answer, NEW from,
         NEW sel \in Seq(ProtoRecords), Flows(pc, bs, t, answer, from, sel), bs # <<>>,
         NEW b \in Seq(ProtoRecords), b = Head(bs), NEW next, next \notin {"final flush", "answer"}
  PROVE  from \in Nat /\ NextOf(b, sel, from) /\ Flows(next, Tail(bs), t, answer, from + Len(b), sel)
<1>1. PICK to \in 0 .. Len(sel) : FlowsUpTo(to, pc, bs, t, answer, from, sel)
  BY FlowsFrom, Zenon
<1>2. Laid(bs, sel, from, to)
  BY <1>1, Zenon DEF FlowsUpTo, Alive
<1>3. from \in Nat /\ NextOf(b, sel, from) /\ Laid(Tail(bs), sel, from + Len(b), to)
  BY <1>2, LaidTail, Zenon
<1>4. FlowsUpTo(to, next, Tail(bs), t, answer, from + Len(b), sel)
  BY <1>1, <1>3, Zenon DEF FlowsUpTo
<1>5. Flows(next, Tail(bs), t, answer, from + Len(b), sel)
  BY <1>4, FlowsTo, Zenon
<1> QED
  BY <1>3, <1>5, Zenon

\* The handler goes on, or the engine drops the command.
LEMMA FlowsMoves ==
  ASSUME NEW pc, NEW bs, NEW t, NEW answer, NEW from, NEW sel, Flows(pc, bs, t, answer, from, sel),
         NEW next, next \in {"final flush", "answer"} => bs = <<>> \/ pc \in {"final flush", "answer"},
         NEW said, said.is = "ok" => said = answer
  PROVE  Flows(next, bs, t, said, from, sel)
<1>1. PICK to \in 0 .. Len(sel) : FlowsUpTo(to, pc, bs, t, answer, from, sel)
  BY FlowsFrom, Zenon
<1>2. FlowsUpTo(to, next, bs, t, said, from, sel)
  BY <1>1, Zenon DEF FlowsUpTo, Alive
<1> QED
  BY <1>2, FlowsTo, Zenon

\* An answer that says the query is complete.
LEMMA FlowsDone ==
  ASSUME NEW bs, NEW t, NEW answer, NEW from, NEW sel \in Seq(ProtoRecords),
         Flows("answer", bs, t, answer, from, sel), answer.is = "ok"
  PROVE  from = Len(sel)
<1>1. PICK to \in 0 .. Len(sel) : FlowsUpTo(to, "answer", bs, t, answer, from, sel)
  BY FlowsFrom, Zenon
<1>2. Laid(<<>>, sel, from, to) /\ to = Len(sel)
  BY <1>1, Zenon DEF FlowsUpTo, Alive
<1> QED
  BY <1>2, LaidEmpty

-----------------------------------------------------------------------------
(* The steps of a query.                                                     *)

GotTyped == got \in [Conns -> Seq(ProtoRecords)]

LEMMA UnreadType ==
  ASSUME AnswersTyped, NEW d \in Conns
  PROVE  Unread(d) \in Seq(Written)
<1>1. down[d] \in Seq(Written) /\ wbuf[d] \in Seq(Written)
  BY DEF AnswersTyped
<1> QED
  BY <1>1, ConcatParts, Zenon DEF Unread

\* A query that can still be answered is the last request of its client, and
\* the next answer is to it.
LEMMA QueryNumbers ==
  ASSUME ConnInv, NEW d \in Conns, Querying(d)
  PROVE  /\ call[d].num \in Nat /\ call[d].num = Len(issued[d]) /\ Due(d) = call[d].num
         /\ InLine(d) /\ sock[d] = "open" /\ Len(handled[d]) \in Nat /\ Len(handled[d]) <= call[d].num
         /\ call[d].req = issued[d][call[d].num]
<1> USE DEF ConnInv
<1>1. Reading(d) /\ cancelled[d] = {} /\ call[d].num > 0
  BY DEF Querying
<1>2. PICK n \in Nat : n = Len(issued[d])
  BY DueType
<1>3. call[d].num = n /\ n # 0 /\ sock[d] = "open" /\ call[d].req = issued[d][call[d].num]
  BY <1>1, <1>2 DEF CallsNumbered, Numbered
<1>4. Due(d) = n
  <2>1. Due(d) = n + 0 - Cardinality({})
    BY <1>1, <1>2, <1>3, Zenon DEF Due
  <2> QED
    BY <2>1, FS_EmptySet
<1>5. InLine(d)
  BY <1>1 DEF AnswersInLine
<1>6. Len(handled[d]) \in Nat /\ Len(handled[d]) <= n
  <2>1. PICK h \in Seq(AllRequests) : h = handled[d]
    BY DEF RequestsInFlight
  <2>2. Len(h) + Len(up[d]) = n /\ Len(up[d]) \in Nat
    BY <1>2, <2>1 DEF RequestsInFlight
  <2>3. Len(h) \in Nat /\ Len(h) <= n
    BY <2>2
  <2> QED
    BY <2>1, <2>3, Zenon
<1> QED
  BY <1>2, <1>3, <1>4, <1>5, <1>6

\* The handler works on the query and on nothing else.
LEMMA QueryWorks ==
  ASSUME ConnInv, NEW d \in Conns, Querying(d), QueryInFlight(d), hand[d] \in Working \ {"reply"}
  PROVE  Len(handled[d]) = call[d].num /\ cur[d] = call[d].req /\ cur[d].type = "Range"
<1> USE DEF ConnInv
<1>1. PICK n \in Nat : n = call[d].num /\ n = Due(d)
  BY QueryNumbers
<1>2. PICK k \in Nat : k = Len(handled[d]) /\ k <= n
  BY <1>1, QueryNumbers
<1>3. k = n
  <2>1. SUFFICES ASSUME k < n PROVE FALSE
    BY <1>2
  <2>2. Untaken(d)
    BY <1>1, <1>2, <2>1 DEF Untaken
  <2>3. Unread(d) = <<>>
    BY <2>2 DEF QueryInFlight
  <2>4. ~Gone(d) /\ Ahead(d) = k
    BY <1>2 DEF Gone, Ahead, Working, InQuery
  <2>5. EndOf(Unread(d), Due(d)) = k
    BY <2>4, QueryNumbers DEF InLine
  <2>6. EndOf(Unread(d), Due(d)) = n
    BY <1>1, <2>3, Zenon DEF EndOf
  <2> QED
    BY <1>2, <2>1, <2>5, <2>6
<1>4. handled[d] # <<>> /\ cur[d] = handled[d][k]
  BY <1>2 DEF CommandsInFlight, InStep
<1>5. PICK h \in Seq(AllRequests) : h = handled[d]
  BY DEF RequestsInFlight
<1>6. k \in 1 .. Len(h)
  BY <1>2, <1>4, <1>5
<1>7. h[k] = issued[d][k]
  BY <1>5, <1>6 DEF RequestsInFlight
<1>8. call[d].req = issued[d][k]
  BY <1>1, <1>3, QueryNumbers
<1>9. cur[d] = call[d].req
  BY <1>4, <1>5, <1>7, <1>8, Zenon
<1> QED
  BY <1>1, <1>2, <1>3, <1>9 DEF Querying

\* A step keeps what is on its way of a query, whatever it selects.
FlowKept(d) ==
  /\ Untaken(d)' => got'[d] = <<>> /\ Unread(d)' = <<>>
  /\ \A sel \in Seq(ProtoRecords) :
       Delivered(d, sel) /\ Flowing(d, sel) => Delivered(d, sel)' /\ Flowing(d, sel)'

\* What is asked of a step that leaves the handler of d in the query.
FlowsNext(d, sel) ==
  Flows(hand'[d], rchan'[d].batches, task'[d], oneshot'[d], Len(got'[d]) + Len(Unread(d)'), sel)

LEMMA FlowNext ==
  ASSUME NEW d \in Conns, NEW sel, Delivers(got'[d], Unread(d)', sel),
         Len(handled'[d]) = call'[d].num /\ hand'[d] \in InQuery \union {"answer"} => FlowsNext(d, sel)
  PROVE  Delivered(d, sel)' /\ Flowing(d, sel)'
<1>1. Delivered(d, sel)'
  BY DEF Delivered, Delivers
<1>2. Flowing(d, sel)'
  BY DEF Flowing, FlowsNext, Flows, Laid, ToSend
<1> QED
  BY <1>1, <1>2

\* Steps that move no answer of d.
LEMMA KeepFlow ==
  ASSUME NEW d \in Conns, Querying(d), QueryInFlight(d), call'[d] = call[d], got'[d] = got[d],
         handled'[d] = handled[d], Unread(d)' = Unread(d), d \in Queued' => Untaken(d),
         hand'[d] = "command" => hand[d] = "command",
         \A sel \in Seq(ProtoRecords) :
           /\ Len(handled[d]) = call[d].num /\ hand'[d] \in InQuery \union {"answer"}
           /\ Flowing(d, sel)
           => Flows(hand'[d], rchan'[d].batches, task'[d], oneshot'[d], Len(got[d]) + Len(Unread(d)), sel)
  PROVE  FlowKept(d)
<1>1. Untaken(d)' => Untaken(d)
  BY Zenon DEF Untaken
<1>2. Untaken(d)' => got'[d] = <<>> /\ Unread(d)' = <<>>
  BY <1>1, Zenon DEF QueryInFlight
<1>3. ASSUME NEW sel \in Seq(ProtoRecords), Delivered(d, sel), Flowing(d, sel)
      PROVE  Delivered(d, sel)' /\ Flowing(d, sel)'
  <2>1. Delivers(got'[d], Unread(d)', sel)
    BY <1>3, Zenon DEF Delivered
  <2>2. Len(handled'[d]) = call'[d].num /\ hand'[d] \in InQuery \union {"answer"} => FlowsNext(d, sel)
    BY <1>3, Zenon DEF FlowsNext
  <2> QED
    BY <2>1, <2>2, FlowNext, Zenon
<1> QED
  BY <1>2, <1>3, Zenon DEF FlowKept

\* Nothing of d moves.
LEMMA QuietFlow ==
  ASSUME NEW d \in Conns, Querying(d), QueryInFlight(d), call'[d] = call[d], got'[d] = got[d],
         handled'[d] = handled[d], Unread(d)' = Unread(d), hand'[d] = hand[d],
         rchan'[d].batches = rchan[d].batches, task'[d] = task[d],
         oneshot'[d] = oneshot[d] \/ oneshot'[d].is = "dropped", d \in Queued' => Untaken(d)
  PROVE  FlowKept(d)
<1>1. ASSUME NEW sel \in Seq(ProtoRecords), Len(handled[d]) = call[d].num,
             hand'[d] \in InQuery \union {"answer"}, Flowing(d, sel)
      PROVE  Flows(hand'[d], rchan'[d].batches, task'[d], oneshot'[d], Len(got[d]) + Len(Unread(d)), sel)
  <2>1. Flows(hand[d], rchan[d].batches, task[d], oneshot[d], Len(got[d]) + Len(Unread(d)), sel)
    BY <1>1, Zenon DEF Flowing
  <2>2. oneshot'[d].is = "ok" => oneshot'[d] = oneshot[d]
    OBVIOUS
  <2>3. PICK pc, bs, t, answer, said, from :
          /\ pc = hand[d] /\ bs = rchan[d].batches /\ t = task[d] /\ answer = oneshot[d]
          /\ said = oneshot'[d] /\ from = Len(got[d]) + Len(Unread(d))
    OBVIOUS
  <2>4. Flows(pc, bs, t, answer, from, sel) /\ (said.is = "ok" => said = answer)
    BY <2>1, <2>2, <2>3, Zenon
  <2>5. Flows(pc, bs, t, said, from, sel)
    BY <2>4, FlowsMoves
  <2> QED
    BY <2>3, <2>5, Zenon
<1> QED
  BY <1>1, KeepFlow, Zenon

\* The handler of d leaves the query, or is in none.
LEMMA OtherFlow ==
  ASSUME NEW d \in Conns, Querying(d), QueryInFlight(d), call'[d] = call[d], got'[d] = got[d],
         handled'[d] = handled[d], Unread(d)' = Unread(d),
         hand'[d] \notin InQuery \union {"answer", "command"}, d \in Queued' => Untaken(d)
  PROVE  FlowKept(d)
<1>1. hand'[d] \notin InQuery \union {"answer"} /\ hand'[d] # "command"
  OBVIOUS
<1> QED
  BY <1>1, KeepFlow, Zenon

\* A query under way, and a step that does not end its call.
Underway(d) == ConnInv /\ GotTyped /\ Querying(d) /\ QueryInFlight(d) /\ call'[d] = call[d]

LEMMA EmptyUnread ==
  ASSUME AnswersTyped, NEW d \in Conns, Unread(d) = <<>>
  PROVE  down[d] = <<>> /\ wbuf[d] = <<>>
<1>1. PICK p \in Seq(Written) : p = down[d]
  BY DEF AnswersTyped
<1>2. PICK w \in Seq(Written) : w = wbuf[d]
  BY DEF AnswersTyped
<1>3. p \o w = <<>>
  BY <1>1, <1>2, Zenon DEF Unread
<1>4. p = <<>> /\ w = <<>>
  BY <1>3
<1> QED
  BY <1>1, <1>2, <1>4

\* The handler fails: what it has not written is lost.
LEMMA FailFlow ==
  ASSUME NEW d \in Conns, Underway(d), Fail(d), UNCHANGED <<got, handled, queue, down>>
  PROVE  FlowKept(d)
<1>1. HandlersTyped /\ AnswersTyped /\ Querying(d) /\ QueryInFlight(d) /\ GotTyped /\ call'[d] = call[d]
  BY DEF Underway, ConnInv
<1>2. wbuf'[d] = <<>> /\ hand'[d] = "failed"
  BY <1>1, FailWrites
<1>3. PICK p \in Seq(Written) : p = down[d]
  BY <1>1 DEF AnswersTyped
<1>4. PICK r \in Seq(Written) : r = wbuf[d]
  BY <1>1 DEF AnswersTyped
<1>5. Unread(d)' = p \o <<>> /\ Unread(d) = p \o r
  BY <1>2, <1>3, <1>4, Zenon DEF Unread
<1>6. ASSUME Untaken(d)' PROVE got'[d] = <<>> /\ Unread(d)' = <<>>
  <2>1. Untaken(d)
    <3>1. Queued' = Queued
      BY Zenon DEF Queued
    <3> QED
      BY <1>1, <1>2, <1>6, <3>1 DEF Untaken
  <2>2. got[d] = <<>> /\ Unread(d) = <<>>
    BY <1>1, <2>1 DEF QueryInFlight
  <2>3. p = <<>>
    BY <1>1, <1>3, <2>2, EmptyUnread
  <2>4. p \o <<>> = p
    OBVIOUS
  <2> QED
    BY <1>5, <2>2, <2>3, <2>4, Zenon
<1>7. ASSUME NEW sel \in Seq(ProtoRecords), Delivered(d, sel), Flowing(d, sel)
      PROVE  Delivered(d, sel)' /\ Flowing(d, sel)'
  <2>1. PICK g \in Seq(ProtoRecords) : g = got[d]
    BY <1>1 DEF GotTyped
  <2>2. Delivers(g, p \o r, sel)
    BY <1>5, <1>7, <2>1, Zenon DEF Delivered
  <2>3. Delivers(g, p \o <<>>, sel)
    BY <2>2, DeliversPrefix
  <2>4. Delivers(got'[d], Unread(d)', sel)
    BY <1>5, <2>1, <2>3, Zenon
  <2>5. hand'[d] \notin InQuery \union {"answer"}
    BY <1>2 DEF InQuery
  <2> QED
    BY <2>4, <2>5, FlowNext, Zenon
<1> QED
  BY <1>6, <1>7, Zenon DEF FlowKept

\* The handler decodes a request: until the query is taken nothing moves.
LEMMA ReadFlow ==
  ASSUME NEW d \in Conns, Underway(d), ReadFrame(d), RequestsInFlight', CommandsInFlight', HandlersTyped'
  PROVE  FlowKept(d)
<1>1. /\ ConnInv /\ RequestsInFlight /\ AnswersTyped /\ Querying(d) /\ QueryInFlight(d) /\ GotTyped
      /\ call'[d] = call[d] /\ HandlersTyped
  BY DEF Underway, ConnInv
<1>2. up[d] # <<>> /\ UNCHANGED <<got, issued, down, wbuf, queue>>
  BY DEF ReadFrame, clientVars, engineVars
<1>3. Unread(d)' = Unread(d)
  BY <1>2, Zenon DEF Unread
<1>4. PICK n \in Nat : n = call[d].num /\ n = Len(issued[d])
  BY <1>1, QueryNumbers
<1>5. Len(handled[d]) < n
  <2>1. PICK h \in Seq(AllRequests) : h = handled[d]
    BY <1>1 DEF RequestsInFlight
  <2>2. PICK u \in Seq({client_encode(req) : req \in AllRequests}) : u = up[d]
    BY <1>1 DEF RequestsInFlight
  <2>3. Len(h) + Len(u) = n
    BY <1>1, <1>4, <2>1, <2>2 DEF RequestsInFlight
  <2>4. Len(u) > 0
    BY <1>2, <2>2
  <2>5. Len(h) < n
    BY <2>3, <2>4
  <2> QED
    BY <2>1, <2>5
<1>6. got[d] = <<>> /\ Unread(d) = <<>>
  <2>1. Untaken(d)
    BY <1>4, <1>5, Zenon DEF Untaken
  <2> QED
    BY <1>1, <2>1, Zenon DEF QueryInFlight
<1>7. ~(Len(handled'[d]) = n /\ hand'[d] \in InQuery \union {"answer"})
  <2>1. SUFFICES ASSUME Len(handled'[d]) = n, hand'[d] \in InQuery \union {"answer"} PROVE FALSE
    OBVIOUS
  <2>2. PICK msg : /\ cur' = [cur EXCEPT ![d] = msg]
                   /\ hand' = [hand EXCEPT ![d] = CASE msg.type = "Malformed" -> "failed"
                                                    [] msg.type = "Ping" -> "answer"
                                                    [] OTHER -> "command"]
    BY Zenon DEF ReadFrame
  <2>3. hand'[d] = CASE msg.type = "Malformed" -> "failed"
                     [] msg.type = "Ping" -> "answer"
                     [] OTHER -> "command"
    BY <1>1, <2>2 DEF HandlersTyped
  <2>4. msg.type = "Ping"
    BY <2>1, <2>3 DEF InQuery
  <2>5. cur'[d] = msg
    BY <1>1, <2>2 DEF AnswersTyped
  <2>6. handled'[d] # <<>> /\ cur'[d] = handled'[d][Len(handled'[d])]
    BY <2>1 DEF CommandsInFlight, InStep, Working
  <2>7. PICK h \in Seq(AllRequests) : h = handled'[d]
    BY DEF RequestsInFlight
  <2>8. n \in 1 .. Len(h)
    BY <1>4, <2>1, <2>6, <2>7
  <2>9. h[n] = issued[d][n]
    BY <1>2, <2>7, <2>8 DEF RequestsInFlight
  <2>10. msg = call[d].req
    BY <1>1, <1>4, <2>1, <2>5, <2>6, <2>7, <2>9, QueryNumbers
  <2> QED
    BY <1>1, <2>4, <2>10 DEF Querying
<1>8. ASSUME NEW sel \in Seq(ProtoRecords), Delivered(d, sel), Flowing(d, sel)
      PROVE  Delivered(d, sel)' /\ Flowing(d, sel)'
  <2>1. Delivers(got'[d], Unread(d)', sel)
    BY <1>2, <1>3, <1>8, Zenon DEF Delivered
  <2> QED
    BY <1>1, <1>4, <1>7, <2>1, FlowNext, Zenon
<1> QED
  BY <1>2, <1>3, <1>6, <1>8, Zenon DEF FlowKept

\* The command of the query is sent.
LEMMA SendFlow ==
  ASSUME NEW d \in Conns, Underway(d), SendCommand(d)
  PROVE  FlowKept(d)
<1>1. /\ ConnInv /\ AnswersTyped /\ Querying(d) /\ QueryInFlight(d) /\ GotTyped
      /\ call'[d] = call[d] /\ HandlersTyped /\ CommandsInFlight
  BY DEF Underway, ConnInv
<1>2. hand[d] = "command" /\ UNCHANGED <<got, down, handled, task>>
  BY DEF SendCommand, clientVars, netVars
<1>3. CASE Fail(d) /\ UNCHANGED queue
  BY <1>2, <1>3, FailFlow
<1>4. CASE ~(Fail(d) /\ UNCHANGED queue)
  <2>1. /\ UNCHANGED wbuf /\ oneshot' = [oneshot EXCEPT ![d] = Nothing]
        /\ \E o : rchan' = [rchan EXCEPT ![d] = [batches |-> <<>>, open |-> o]]
        /\ \E to \in {"records", "answer"} : hand' = [hand EXCEPT ![d] = to]
    BY <1>4 DEF SendCommand
  <2>2. oneshot'[d].is # "ok"
    BY <1>1, <2>1 DEF AnswersTyped, Nothing
  <2>3. rchan'[d].batches = <<>>
    BY <1>1, <2>1 DEF AnswersTyped
  <2>4. hand'[d] # "command"
    BY <1>1, <2>1 DEF HandlersTyped
  <2>5. Untaken(d)
    BY <1>2 DEF Untaken
  <2>6. got[d] = <<>> /\ Unread(d) = <<>>
    BY <1>1, <2>5 DEF QueryInFlight
  <2>7. Unread(d)' = Unread(d)
    BY <1>2, <2>1, Zenon DEF Unread
  <2>8. Len(got[d]) + Len(Unread(d)) = 0
    BY <2>6
  <2>9. ~Alive(task'[d])
    BY <1>1, <1>2 DEF Alive, CommandsInFlight, InStep
  <2>10. ASSUME NEW sel \in Seq(ProtoRecords)
         PROVE  Flows(hand'[d], rchan'[d].batches, task'[d], oneshot'[d], Len(got[d]) + Len(Unread(d)), sel)
    <3>1. PICK pc, t, answer : pc = hand'[d] /\ t = task'[d] /\ answer = oneshot'[d]
      OBVIOUS
    <3>2. ~Alive(t) /\ answer.is # "ok"
      BY <2>2, <2>9, <3>1, Zenon
    <3>3. Flows(pc, <<>>, t, answer, 0, sel)
      BY <3>2, FlowsNone
    <3> QED
      BY <2>3, <2>8, <3>1, <3>3, Zenon
  <2> QED
    BY <1>1, <1>2, <2>4, <2>5, <2>7, <2>10, KeepFlow, Zenon
<1> QED
  BY <1>3, <1>4

\* The terms of Flows, for a query whose handler is in it.
FlowsNow(d, pc, bs, t, answer, from) ==
  /\ pc = hand[d] /\ bs = rchan[d].batches /\ t = task[d] /\ answer = oneshot[d]
  /\ from = Len(got[d]) + Len(Unread(d))

\* The task sends a batch.
LEMMA TaskSendsFlow ==
  ASSUME NEW d \in Conns, Underway(d), TaskSends(d)
  PROVE  FlowKept(d)
<1>1. /\ ConnInv /\ AnswersTyped /\ Querying(d) /\ QueryInFlight(d) /\ GotTyped
      /\ call'[d] = call[d] /\ HandlersTyped /\ CommandsInFlight
  BY DEF Underway, ConnInv
<1>2. UNCHANGED <<got, down, wbuf, hand, handled, oneshot, queue>> /\ Alive(task[d])
  BY DEF TaskSends, clientVars, netVars, handlerVars, Alive
<1>3. Unread(d)' = Unread(d) /\ Queued' = Queued
  BY <1>2, Zenon DEF Unread, Queued
<1>4. d \in Queued' => Untaken(d)
  BY <1>3, Zenon DEF Untaken
<1>5. hand[d] \in {"records", "flush", "failed"}
  BY <1>1, <1>2 DEF CommandsInFlight, InStep, Alive
<1>6. CASE Gone(d)
  <2>1. hand'[d] \notin InQuery \union {"answer", "command"}
    BY <1>2, <1>6 DEF Gone, InQuery
  <2> QED
    BY <1>1, <1>2, <1>3, <1>4, <2>1, OtherFlow
<1>7. CASE ~Gone(d)
  <2>1. PICK t : t = task[d] /\ t \in [left : Seq(ProtoRecords), ok : BOOLEAN, alive : BOOLEAN]
    BY <1>1 DEF AnswersTyped
  <2>2. PICK bs \in Seq(Seq(ProtoRecords)) : bs = rchan[d].batches
    BY <1>1 DEF AnswersTyped
  <2>3. PICK k : /\ k = (IF Len(t.left) < RangeBatchSize THEN Len(t.left) ELSE RangeBatchSize)
                 /\ rchan' = [rchan EXCEPT ![d].batches = Append(@, SubSeq(task[d].left, 1, k))]
                 /\ task' = [task EXCEPT ![d].left = SubSeq(@, k + 1, Len(@))]
    BY <1>7, <2>1, Zenon DEF TaskSends
  <2>4. k \in 0 .. Len(t.left)
    BY <2>1, <2>3, ConnAssumption
  <2>5. DOMAIN rchan = Conns /\ DOMAIN task = Conns
    BY <1>1 DEF AnswersTyped
  <2>6. rchan'[d].batches = Append(bs, SubSeq(t.left, 1, k))
    <3>1. PICK r \in [batches : Seq(Seq(ProtoRecords)), open : BOOLEAN] : r = rchan[d]
      BY <1>1 DEF AnswersTyped
    <3>2. rchan'[d] = [r EXCEPT !.batches = Append(@, SubSeq(t.left, 1, k))]
      BY <2>1, <2>3, <2>5, <3>1, Zenon
    <3> QED
      BY <2>2, <3>1, <3>2
  <2>7. PICK u : u = [t EXCEPT !.left = SubSeq(@, k + 1, Len(@))]
    OBVIOUS
  <2>8. task'[d] = u
    BY <2>1, <2>3, <2>5, <2>7, Zenon
  <2>9. Sends(t, k, u)
    <3>1. u.left = SubSeq(t.left, k + 1, Len(t.left)) /\ u.ok = t.ok
      BY <2>1, <2>7
    <3> QED
      BY <2>4, <3>1, Zenon DEF Sends
  <2>10. ASSUME NEW sel \in Seq(ProtoRecords), Len(handled[d]) = call[d].num,
                hand'[d] \in InQuery \union {"answer"}, Flowing(d, sel)
         PROVE  Flows(hand'[d], rchan'[d].batches, task'[d], oneshot'[d], Len(got[d]) + Len(Unread(d)), sel)
    <3>1. PICK pc, answer, from : FlowsNow(d, pc, bs, t, answer, from)
      BY <2>1, <2>2, Zenon DEF FlowsNow
    <3>2. Flows(pc, bs, t, answer, from, sel)
      BY <1>2, <2>10, <3>1, Zenon DEF Flowing, FlowsNow
    <3>3. pc \notin {"final flush", "answer"} /\ Alive(t)
      BY <1>2, <1>5, <2>1, <3>1 DEF FlowsNow
    <3>4. Flows(pc, Append(bs, SubSeq(t.left, 1, k)), u, answer, from, sel)
      BY <2>9, <3>2, <3>3, FlowsSends, Zenon
    <3> QED
      BY <1>2, <2>6, <2>8, <3>1, <3>4, Zenon DEF FlowsNow
  <2> QED
    BY <1>1, <1>2, <1>3, <1>4, <2>10, KeepFlow, Zenon
<1> QED
  BY <1>6, <1>7

\* The task ends.
LEMMA TaskEndsFlow ==
  ASSUME NEW d \in Conns, Underway(d), TaskEnds(d)
  PROVE  FlowKept(d)
<1>1. /\ ConnInv /\ AnswersTyped /\ Querying(d) /\ QueryInFlight(d) /\ GotTyped
      /\ call'[d] = call[d] /\ HandlersTyped /\ CommandsInFlight
  BY DEF Underway, ConnInv
<1>2. UNCHANGED <<got, down, wbuf, hand, handled, queue>> /\ Alive(task[d])
  BY DEF TaskEnds, clientVars, netVars, handlerVars, Alive
<1>3. Unread(d)' = Unread(d) /\ Queued' = Queued
  BY <1>2, Zenon DEF Unread, Queued
<1>4. d \in Queued' => Untaken(d)
  BY <1>3, Zenon DEF Untaken
<1>5. DOMAIN rchan = Conns /\ DOMAIN task = Conns /\ DOMAIN oneshot = Conns
  BY <1>1 DEF AnswersTyped
<1>6. PICK t \in [left : Seq(ProtoRecords), ok : BOOLEAN, alive : BOOLEAN] : t = task[d]
  BY <1>1 DEF AnswersTyped
<1>7. task'[d] = NoTask
  BY <1>5 DEF TaskEnds
<1>8. ~Alive(NoTask)
  BY DEF NoTask, Alive
<1>9. rchan'[d].batches = rchan[d].batches
  <2>1. PICK r \in [batches : Seq(Seq(ProtoRecords)), open : BOOLEAN] : r = rchan[d]
    BY <1>1 DEF AnswersTyped
  <2>2. rchan'[d] = [r EXCEPT !.open = FALSE]
    BY <1>5, <2>1, Zenon DEF TaskEnds
  <2> QED
    BY <2>1, <2>2
<1>10. oneshot'[d].is = "ok" => t.left = <<>> /\ t.ok
  <2>1. \/ task[d].left = <<>> /\ oneshot' = [oneshot EXCEPT ![d] = [is |-> IF task[d].ok THEN "ok" ELSE "err"]]
        \/ oneshot' = [oneshot EXCEPT ![d] = [is |-> "dropped"]]
    BY Zenon DEF TaskEnds
  <2>2. \/ t.left = <<>> /\ oneshot'[d] = [is |-> IF t.ok THEN "ok" ELSE "err"]
        \/ oneshot'[d] = [is |-> "dropped"]
    BY <1>5, <1>6, <2>1, Zenon
  <2> QED
    BY <2>2
<1>11. ASSUME NEW sel \in Seq(ProtoRecords), Len(handled[d]) = call[d].num,
              hand'[d] \in InQuery \union {"answer"}, Flowing(d, sel)
       PROVE  Flows(hand'[d], rchan'[d].batches, task'[d], oneshot'[d], Len(got[d]) + Len(Unread(d)), sel)
  <2>1. PICK pc, bs, answer, from : FlowsNow(d, pc, bs, t, answer, from)
    BY <1>6, Zenon DEF FlowsNow
  <2>2. Flows(pc, bs, t, answer, from, sel)
    BY <1>2, <1>11, <2>1, Zenon DEF Flowing, FlowsNow
  <2>3. PICK said : said = oneshot'[d]
    OBVIOUS
  <2>4. Flows(pc, bs, NoTask, said, from, sel)
    <3>1. said.is = "ok" => t.left = <<>> /\ t.ok
      BY <1>10, <2>3
    <3> QED
      BY <1>2, <1>6, <1>8, <2>2, <3>1, FlowsEnds, Zenon
  <2> QED
    BY <1>2, <1>7, <1>9, <2>1, <2>3, <2>4, Zenon DEF FlowsNow
<1> QED
  BY <1>1, <1>2, <1>3, <1>4, <1>11, KeepFlow, Zenon

\* The handler goes on to the final flush, or flushes.
LEMMA HandFlow ==
  ASSUME NEW d \in Conns, Underway(d), UNCHANGED <<got, handled, queue, rchan, task, oneshot>>,
         Unread(d)' = Unread(d), hand'[d] # "command",
         hand'[d] \in InQuery \union {"answer"} => hand[d] \in InQuery \union {"answer"},
         hand'[d] \in {"final flush", "answer"} =>
           rchan[d].batches = <<>> \/ hand[d] \in {"final flush", "answer"}
  PROVE  FlowKept(d)
<1>1. Querying(d) /\ QueryInFlight(d) /\ call'[d] = call[d]
  BY DEF Underway
<1>2. d \in Queued' => Untaken(d)
  BY Zenon DEF Queued, Untaken
<1>3. ASSUME NEW sel \in Seq(ProtoRecords), Len(handled[d]) = call[d].num,
             hand'[d] \in InQuery \union {"answer"}, Flowing(d, sel)
      PROVE  Flows(hand'[d], rchan'[d].batches, task'[d], oneshot'[d], Len(got[d]) + Len(Unread(d)), sel)
  <2>1. PICK pc, bs, t, answer, from : FlowsNow(d, pc, bs, t, answer, from)
    BY Zenon DEF FlowsNow
  <2>2. Flows(pc, bs, t, answer, from, sel)
    BY <1>3, <2>1, Zenon DEF Flowing, FlowsNow
  <2>3. PICK next : next = hand'[d]
    OBVIOUS
  <2>4. next \in {"final flush", "answer"} => bs = <<>> \/ pc \in {"final flush", "answer"}
    BY <2>1, <2>3, Zenon DEF FlowsNow
  <2>5. Flows(next, bs, t, answer, from, sel)
    BY <2>2, <2>4, FlowsMoves
  <2> QED
    BY <2>1, <2>3, <2>5, Zenon DEF FlowsNow
<1> QED
  BY <1>1, <1>2, <1>3, KeepFlow, Zenon

LEMMA RecordsEndFlow ==
  ASSUME NEW d \in Conns, Underway(d), RecordsEnd(d)
  PROVE  FlowKept(d)
<1>1. hand[d] = "records" /\ rchan[d] = Closed /\ hand' = [hand EXCEPT ![d] = "final flush"]
  BY DEF RecordsEnd
<1>2. UNCHANGED <<got, handled, queue, rchan, task, oneshot, down, wbuf>>
  BY DEF RecordsEnd, clientVars, netVars, engineVars
<1>3. hand'[d] = "final flush"
  BY <1>1 DEF Underway, ConnInv, HandlersTyped
<1>4. rchan[d].batches = <<>>
  <2>1. Closed.batches = <<>>
    BY DEF Closed
  <2> QED
    BY <1>1, <2>1, Zenon
<1>5. Unread(d)' = Unread(d)
  BY <1>2, Zenon DEF Unread
<1>6. hand[d] \in InQuery \union {"answer"} /\ hand'[d] # "command"
  BY <1>1, <1>3 DEF InQuery
<1> QED
  BY <1>2, <1>4, <1>5, <1>6, HandFlow, Zenon

LEMMA FlushFlow ==
  ASSUME NEW d \in Conns, Underway(d), Flush(d)
  PROVE  FlowKept(d)
<1>1. ConnInv /\ AnswersTyped /\ Querying(d) /\ HandlersTyped
  BY DEF Underway, ConnInv
<1>2. sock[d] = "open"
  BY <1>1, QueryNumbers
<1>3. UNCHANGED <<got, handled, queue, rchan, task, oneshot>> /\ hand[d] \in {"flush", "final flush", "reply"}
  BY DEF Flush, engineVars
<1>4. DOMAIN hand = Conns
  BY <1>1 DEF HandlersTyped
<1>5. \E n : FlushEffect(d, n)
  <2>1. ~Fail(d)
    <3>1. hand' = [hand EXCEPT ![d] = After(@)] \/ UNCHANGED hand
      BY <1>2, Zenon DEF Flush
    <3>2. hand'[d] \in {"flush", "final flush", "reply", "records", "answer", "reading"}
      BY <1>3, <1>4, <3>1 DEF After
    <3> QED
      BY <1>4, <3>2 DEF Fail
  <2> QED
    BY <1>1, <2>1, FlushWrites
<1>6. PICK n : FlushEffect(d, n)
  BY <1>5
<1>7. PICK p \in Seq(Written) : p = down[d]
  BY <1>1 DEF AnswersTyped
<1>8. PICK w \in Seq(Written) : w = wbuf[d]
  BY <1>1 DEF AnswersTyped
<1>9. /\ n \in 0 .. Len(w) /\ wbuf'[d] = SubSeq(w, n + 1, Len(w))
      /\ down'[d] = p \o SubSeq(w, 1, n)
  BY <1>2, <1>6, <1>7, <1>8 DEF FlushEffect
<1>10. Unread(d)' = Unread(d)
  <2>1. (p \o SubSeq(w, 1, n)) \o SubSeq(w, n + 1, Len(w)) = p \o w
    BY <1>9, Flushed
  <2> QED
    BY <1>7, <1>8, <1>9, <2>1, Zenon DEF Unread
<1>11. hand'[d] = hand[d] \/ hand'[d] = After(hand[d])
  BY <1>4, <1>6 DEF FlushEffect
<1>12. /\ hand'[d] # "command"
       /\ hand'[d] \in InQuery \union {"answer"} => hand[d] \in InQuery \union {"answer"}
       /\ hand'[d] \in {"final flush", "answer"} => hand[d] \in {"final flush", "answer"}
  BY <1>3, <1>11 DEF After, InQuery
<1> QED
  BY <1>3, <1>10, <1>12, HandFlow, Zenon

\* The handler of a query that is taken.
LEMMA StaysTaken ==
  ASSUME NEW d \in Conns, Underway(d), hand[d] \in Working \ {"reply"}, d \notin Queued, hand'[d] # "command",
         UNCHANGED <<handled, queue>>
  PROVE  ~Untaken(d)'
<1>1. Len(handled[d]) = call[d].num /\ call'[d] = call[d] /\ call[d].num \in Nat
  BY QueryWorks, QueryNumbers DEF Underway
<1>2. Queued' = Queued
  BY Zenon DEF Queued
<1>3. ~(Len(handled'[d]) < call'[d].num)
  <2>1. PICK n \in Nat : n = call[d].num
    BY <1>1
  <2>2. ~(n < n)
    OBVIOUS
  <2> QED
    BY <1>1, <2>1, <2>2, Zenon
<1> QED
  BY <1>2, <1>3, Zenon DEF Untaken

\* The handler writes a batch.
LEMMA RecvFlow ==
  ASSUME NEW d \in Conns, Underway(d), RecvRecords(d)
  PROVE  FlowKept(d)
<1>1. /\ ConnInv /\ AnswersTyped /\ Querying(d) /\ QueryInFlight(d) /\ GotTyped /\ RequestsInFlight
      /\ call'[d] = call[d] /\ HandlersTyped /\ CommandsInFlight
  BY DEF Underway, ConnInv
<1>2. /\ UNCHANGED <<got, down, handled, queue, task, oneshot>> /\ hand[d] = "records" /\ rchan[d].batches # <<>>
      /\ rchan' = [rchan EXCEPT ![d].batches = Tail(@)]
  BY DEF RecvRecords, clientVars, netVars
<1>3. hand'[d] \in {"flush", "records"}
  <2>1. \E b : hand' = [hand EXCEPT ![d] = IF WBytes(b) > FLUSH_THRESHOLD THEN "flush" ELSE "records"]
    BY Zenon DEF RecvRecords
  <2> QED
    BY <1>1, <2>1 DEF HandlersTyped
<1>4. hand[d] \in Working \ {"reply"} /\ hand[d] \in InQuery \union {"answer"}
  BY <1>2 DEF Working, InQuery
<1>5. Len(handled[d]) = call[d].num
  BY <1>1, <1>4, QueryWorks
<1>6. ~Untaken(d)'
  <2>1. d \notin Queued
    BY <1>1, <1>2 DEF CommandsInFlight, Waits
  <2>2. hand'[d] # "command"
    BY <1>3
  <2> QED
    BY <1>2, <1>4, <2>1, <2>2, StaysTaken, Zenon
<1>7. PICK bs \in Seq(Seq(ProtoRecords)) : bs = rchan[d].batches
  BY <1>1 DEF AnswersTyped
<1>8. rchan'[d].batches = Tail(bs)
  <2>1. PICK r \in [batches : Seq(Seq(ProtoRecords)), open : BOOLEAN] : r = rchan[d]
    BY <1>1 DEF AnswersTyped
  <2>2. rchan'[d] = [r EXCEPT !.batches = Tail(@)]
    BY <1>1, <1>2, <2>1, Zenon DEF AnswersTyped
  <2> QED
    BY <1>7, <2>1, <2>2
<1>9. PICK b, f : RecvEffect(d, b, f)
  BY <1>1, RecvWrites
<1>10. /\ f \in Seq(Written) /\ wbuf'[d] = wbuf[d] \o f /\ b \in Seq(ProtoRecords) /\ b = Head(bs)
       /\ FramesOf(f, b)
  BY <1>7, <1>9 DEF RecvEffect, FramesOf
<1>11. PICK q \in Seq(Written) : q = Unread(d)
  BY <1>1, UnreadType
<1>12. Unread(d)' = q \o f
  <2>1. PICK p \in Seq(Written) : p = down[d]
    BY <1>1 DEF AnswersTyped
  <2>2. PICK w \in Seq(Written) : w = wbuf[d]
    BY <1>1 DEF AnswersTyped
  <2>3. p \o (w \o f) = (p \o w) \o f
    BY <1>10, SMTT(30)
  <2> QED
    BY <1>2, <1>10, <1>11, <2>1, <2>2, <2>3, Zenon DEF Unread
<1>13. PICK g \in Seq(ProtoRecords) : g = got[d]
  BY <1>1 DEF GotTyped
<1>14. ASSUME NEW sel \in Seq(ProtoRecords), Delivered(d, sel), Flowing(d, sel)
       PROVE  Delivered(d, sel)' /\ Flowing(d, sel)'
  <2>1. PICK pc, t, answer, from : FlowsNow(d, pc, bs, t, answer, from)
    BY <1>7, Zenon DEF FlowsNow
  <2>2. Flows(pc, bs, t, answer, from, sel)
    BY <1>4, <1>5, <1>14, <2>1, Zenon DEF Flowing, FlowsNow
  <2>3. PICK next : next = hand'[d] /\ next \notin {"final flush", "answer"}
    BY <1>3
  <2>4. bs # <<>>
    BY <1>2, <1>7
  <2>5. from \in Nat /\ NextOf(b, sel, from) /\ Flows(next, Tail(bs), t, answer, from + Len(b), sel)
    BY <1>10, <2>2, <2>3, <2>4, FlowsTakes
  <2>6. from = Len(g) + Len(q)
    BY <1>11, <1>13, <2>1 DEF FlowsNow
  <2>7. Delivers(g, q, sel)
    BY <1>11, <1>13, <1>14, Zenon DEF Delivered
  <2>8. Delivers(g, q \o f, sel)
    BY <1>10, <2>5, <2>6, <2>7, DeliversRecords
  <2>9. Delivers(got'[d], Unread(d)', sel)
    BY <1>2, <1>12, <1>13, <2>8, Zenon
  <2>10. Len(got'[d]) + Len(Unread(d)') = from + Len(b)
    <3>1. Len(q \o f) = Len(q) + Len(f) /\ Len(f) = Len(b)
      BY <1>10, ConcatParts, Zenon DEF FramesOf
    <3>2. Len(g) \in Nat /\ Len(q) \in Nat /\ Len(b) \in Nat
      BY <1>10, LenNat, Zenon
    <3>3. \A i, j, k \in Nat : i + (j + k) = (i + j) + k
      OBVIOUS
    <3>4. Len(g) + (Len(q) + Len(b)) = (Len(g) + Len(q)) + Len(b)
      BY <3>2, <3>3, Zenon
    <3>5. Len(g) + Len(q \o f) = from + Len(b)
      BY <2>6, <3>1, <3>4, Zenon
    <3> QED
      BY <1>2, <1>12, <1>13, <3>5, Zenon
  <2>11. FlowsNext(d, sel)
    BY <1>2, <1>8, <2>1, <2>3, <2>5, <2>10, Zenon DEF FlowsNow, FlowsNext
  <2> QED
    BY <2>9, <2>11, FlowNext, Zenon
<1> QED
  BY <1>6, <1>14, Zenon DEF FlowKept

\* A query is said to be complete when the engine says so.
LEMMA ReplyEnds ==
  ASSUME NEW req, NEW a, reply_to(req, a).type = "RangeEnd", req.type = "Range"
  PROVE  a.is = "ok"
<1>1. SUFFICES ASSUME a.is # "ok" PROVE FALSE
  OBVIOUS
<1>2. reply_to(req, a) \in {ErrorText("engine closed"), ErrorText("failed")}
  BY <1>1 DEF reply_to, Inserts
<1>3. ErrorText("engine closed").type # "RangeEnd" /\ ErrorText("failed").type # "RangeEnd"
  BY DEF ErrorText
<1> QED
  BY <1>2, <1>3

\* The handler answers: the end comes after all that is selected.
LEMMA AnswerFlow ==
  ASSUME NEW d \in Conns, Underway(d), Answer(d), AnswersTyped'
  PROVE  FlowKept(d)
<1>1. /\ ConnInv /\ AnswersTyped /\ Querying(d) /\ QueryInFlight(d) /\ GotTyped /\ RequestsInFlight
      /\ call'[d] = call[d] /\ HandlersTyped /\ CommandsInFlight
  BY DEF Underway, ConnInv
<1>2. UNCHANGED <<got, down, handled, queue>> /\ hand[d] = "answer"
  BY DEF Answer, clientVars, netVars, engineVars
<1>3. CASE Fail(d)
  BY <1>2, <1>3, FailFlow
<1>4. CASE ~Fail(d)
  <2>1. hand'[d] = "reply"
    BY <1>1, <1>4 DEF Answer, HandlersTyped
  <2>2. hand[d] \in Working \ {"reply"} /\ hand[d] \in InQuery \union {"answer"}
    BY <1>2 DEF Working, InQuery
  <2>3. Len(handled[d]) = call[d].num /\ cur[d].type = "Range"
    BY <1>1, <2>2, QueryWorks
  <2>4. ~Untaken(d)'
    <3>1. d \notin Queued
      BY <1>1, <1>2, <2>3 DEF CommandsInFlight, Waits
    <3>2. hand'[d] # "command"
      BY <2>1
    <3> QED
      BY <1>2, <2>2, <3>1, <3>2, StaysTaken, Zenon
  <2>5. PICK x : AnswerEffect(d, x)
    BY <1>1, <1>4, AnswerWrites
  <2>6. x \in Written /\ wbuf'[d] = Append(wbuf[d], x) /\ x.msg = reply_to(cur[d], oneshot[d])
    BY <2>5 DEF AnswerEffect
  <2>7. x.msg.type # "RangeRecord" /\ (x.msg.type = "RangeEnd" => oneshot[d].is = "ok")
    <3>1. reply_to(cur[d], oneshot[d]).type # "RangeRecord"
      BY ReplyIs, Zenon
    <3> QED
      BY <2>3, <2>6, <3>1, ReplyEnds, Zenon
  <2>8. PICK q \in Seq(Written) : q = Unread(d)
    BY <1>1, UnreadType
  <2>9. Unread(d)' = Append(q, x)
    <3>1. PICK p \in Seq(Written) : p = down[d]
      BY <1>1 DEF AnswersTyped
    <3>2. PICK w \in Seq(Written) : w = wbuf[d]
      BY <1>1 DEF AnswersTyped
    <3>3. p \o Append(w, x) = Append(p \o w, x)
      BY <2>6
    <3> QED
      BY <1>2, <2>6, <2>8, <3>1, <3>2, <3>3, Zenon DEF Unread
  <2>10. PICK g \in Seq(ProtoRecords) : g = got[d]
    BY <1>1 DEF GotTyped
  <2>11. ASSUME NEW sel \in Seq(ProtoRecords), Delivered(d, sel), Flowing(d, sel)
         PROVE  Delivered(d, sel)' /\ Flowing(d, sel)'
    <3>1. PICK bs, t, answer, from : FlowsNow(d, "answer", bs, t, answer, from)
      BY <1>2, Zenon DEF FlowsNow
    <3>2. Flows("answer", bs, t, answer, from, sel)
      BY <2>2, <2>3, <2>11, <3>1, Zenon DEF Flowing, FlowsNow
    <3>3. answer.is = "ok" => from = Len(sel)
      BY <3>2, FlowsDone
    <3>4. x.msg.type = "RangeEnd" => Len(g) + Len(q) = Len(sel)
      BY <2>7, <2>8, <2>10, <3>1, <3>3, Zenon DEF FlowsNow
    <3>5. Delivers(g, q, sel)
      BY <2>8, <2>10, <2>11, Zenon DEF Delivered
    <3>6. Delivers(g, Append(q, x), sel)
      BY <2>6, <2>7, <3>4, <3>5, DeliversReply
    <3>7. Delivers(got'[d], Unread(d)', sel)
      BY <1>2, <2>9, <2>10, <3>6, Zenon
    <3>8. hand'[d] \notin InQuery \union {"answer"}
      BY <2>1 DEF InQuery
    <3> QED
      BY <3>7, <3>8, FlowNext, Zenon
  <2> QED
    BY <2>4, <2>11, Zenon DEF FlowKept
<1> QED
  BY <1>3, <1>4

\* The client takes a record.
LEMMA ReceiveFlow ==
  ASSUME NEW d \in Conns, Underway(d), Receive(d)
  PROVE  FlowKept(d)
<1>1. /\ ConnInv /\ AnswersTyped /\ Querying(d) /\ QueryInFlight(d) /\ GotTyped
      /\ call'[d] = call[d] /\ CallsNumbered
  BY DEF Underway, ConnInv
<1>2. UNCHANGED <<hand, handled, queue, rchan, task, oneshot>>
  BY DEF Receive, handlerVars, engineVars
<1>3. PICK q \in Seq(Written) : q = Unread(d) /\ q # <<>> /\ q[1] = Head(down[d]) /\ Unread(d)' = Tail(q)
  BY <1>1, ReceiveTakes
<1>4. ~Ends(call[d].req, Head(down[d]).msg)
  <2>1. SUFFICES ASSUME Ends(call[d].req, Head(down[d]).msg) PROVE FALSE
    OBVIOUS
  <2>2. call' = [call EXCEPT ![d] = Idle] /\ call[d].num > 0
    BY <2>1, Zenon DEF Receive, Return
  <2>3. call'[d] = Idle
    BY <1>1, <2>2 DEF CallsNumbered
  <2>4. Idle.num = 0
    BY DEF Idle
  <2> QED
    BY <1>1, <2>2, <2>3, <2>4
<1>5. q[1].msg.type = "RangeRecord"
  BY <1>3, <1>4 DEF Ends
<1>6. PICK g \in Seq(ProtoRecords) : g = got[d]
  BY <1>1 DEF GotTyped
<1>7. got'[d] = Append(g, q[1].msg.record)
  <2>1. got' = [got EXCEPT ![d] = Append(@, Head(down[d]).msg.record)]
    BY <1>4, Zenon DEF Receive
  <2> QED
    BY <1>1, <1>3, <1>6, <2>1, Zenon DEF GotTyped
<1>8. ~Untaken(d)'
  <2>1. ~Untaken(d)
    BY <1>1, <1>3 DEF QueryInFlight
  <2>2. Queued' = Queued
    BY <1>2, Zenon DEF Queued
  <2> QED
    BY <1>1, <1>2, <2>1, <2>2, Zenon DEF Untaken
<1>9. ASSUME NEW sel \in Seq(ProtoRecords), Delivered(d, sel), Flowing(d, sel)
      PROVE  Delivered(d, sel)' /\ Flowing(d, sel)'
  <2>1. Delivers(g, q, sel)
    BY <1>3, <1>6, <1>9, Zenon DEF Delivered
  <2>2. /\ Delivers(Append(g, q[1].msg.record), Tail(q), sel)
        /\ Len(Append(g, q[1].msg.record)) + Len(Tail(q)) = Len(g) + Len(q)
    BY <1>3, <1>5, <2>1, DeliversTake
  <2>3. Delivers(got'[d], Unread(d)', sel) /\ Len(got'[d]) + Len(Unread(d)') = Len(got[d]) + Len(Unread(d))
    BY <1>3, <1>6, <1>7, <2>2, Zenon
  <2>4. Len(handled'[d]) = call'[d].num /\ hand'[d] \in InQuery \union {"answer"} => FlowsNext(d, sel)
    BY <1>1, <1>2, <1>9, <2>3, Zenon DEF FlowsNext, Flowing
  <2> QED
    BY <2>3, <2>4, FlowNext, Zenon
<1> QED
  BY <1>8, <1>9, Zenon DEF FlowKept

LEMMA WholeSubSeq ==
  ASSUME NEW S, NEW s \in Seq(S)
  PROVE  SubSeq(s, 1, Len(s)) = s /\ Len(s) \in 0 .. Len(s)
<1>1. PICK n \in Nat : n = Len(s)
  OBVIOUS
<1>2. n \in 0 .. Len(s)
  BY <1>1
<1>3. SubSeq(s, 1, n) \in Seq(S) /\ Len(SubSeq(s, 1, n)) = n
  BY <1>2, SubSeqType
<1>4. PICK x \in Seq(S) : x = SubSeq(s, 1, n) /\ Len(x) = n
  BY <1>3, Zenon
<1>5. \A i \in 1 .. n : x[i] = s[i]
  BY <1>1, <1>4
<1>6. x = s
  BY <1>1, <1>4, <1>5
<1> QED
  BY <1>1, <1>2, <1>4, <1>6, Zenon

LEMMA StoredLen == Len(Stored) \in Nat
BY MessageAssumption DEF IsRecords

LEMMA LongerSubSeq ==
  ASSUME NEW S, NEW s \in Seq(S), NEW e \in Seq(S), NEW n \in 0 .. Len(s)
  PROVE  /\ SubSeq(s \o e, 1, n) = SubSeq(s, 1, n) /\ n \in 0 .. Len(s \o e)
         /\ \A j \in 1 .. n : (s \o e)[j] = s[j]
<1>1. PICK t \in Seq(S) : t = s \o e /\ Len(t) = Len(s) + Len(e) /\ \A j \in 1 .. Len(s) : t[j] = s[j]
  <2>1. /\ s \o e \in Seq(S) /\ Len(s \o e) = Len(s) + Len(e)
        /\ \A j \in 1 .. Len(s) : (s \o e)[j] = s[j]
    BY ConcatParts
  <2> QED
    BY <2>1, Zenon
<1>2. Len(s) \in Nat /\ Len(e) \in Nat /\ n \in Nat /\ n <= Len(s)
  OBVIOUS
<1>3. n \in 0 .. Len(t)
  BY <1>1, <1>2
<1>4. \A j \in 1 .. n : t[j] = s[j]
  BY <1>1, <1>2
<1>5. PICK x \in Seq(S) : x = SubSeq(s, 1, n) /\ Len(x) = n
  BY SubSeqType, Zenon
<1>6. PICK y \in Seq(S) : y = SubSeq(t, 1, n) /\ Len(y) = n
  BY <1>3, SubSeqType, Zenon
<1>7. \A j \in 1 .. n : x[j] = s[j]
  BY <1>2, <1>5
<1>8. \A j \in 1 .. n : y[j] = t[j]
  BY <1>3, <1>6
<1>9. x = y
  BY <1>4, <1>5, <1>6, <1>7, <1>8
<1> QED
  BY <1>1, <1>3, <1>4, <1>5, <1>6, <1>9, Zenon

\* What is acknowledged is stored.
LEMMA AckedStored ==
  ASSUME StoreNumbered, NEW s \in Seq(Entries), s = store
  PROVE  acked \subseteq {s[j].seq : j \in 1 .. Len(s)}
<1>1. acked \subseteq {s[i].seq : i \in (Len(Stored) + 1) .. Len(s)}
  BY DEF StoreNumbered
<1>2. (Len(Stored) + 1) .. Len(s) \subseteq 1 .. Len(s)
  <2>1. Len(Stored) \in Nat /\ Len(s) \in Nat
    BY StoredLen
  <2> QED
    BY <2>1
<1>3. {s[i].seq : i \in (Len(Stored) + 1) .. Len(s)} \subseteq {s[j].seq : j \in 1 .. Len(s)}
  BY <1>2, Zenon
<1> QED
  BY <1>1, <1>3, Zenon

LEMMA HeldNext ==
  ASSUME NEW d \in Conns, Untaken(d)' => got'[d] = <<>> /\ Unread(d)' = <<>>, NEW n, NEW sel,
         n \in 0 .. Len(store'), call'[d].seen \subseteq {store'[j].seq : j \in 1 .. n},
         sel = Selected(call'[d].req, SubSeq(store', 1, n)), Delivered(d, sel)', Flowing(d, sel)'
  PROVE  QueryInFlight(d)'
BY Zenon DEF QueryInFlight

\* A query that is held stays so: the store only grows.
LEMMA KeptQuery ==
  ASSUME NEW d \in Conns, Underway(d), FlowKept(d), StoreStep
  PROVE  QueryInFlight(d)'
<1>1. AnswersTyped /\ QueryInFlight(d) /\ call'[d] = call[d]
  BY DEF Underway, ConnInv
<1>2. PICK s \in Seq(Entries) : s = store
  BY <1>1 DEF AnswersTyped
<1>3. PICK n, sel :
        /\ n \in 0 .. Len(s)
        /\ call[d].seen \subseteq {s[j].seq : j \in 1 .. n}
        /\ sel = Selected(call[d].req, SubSeq(s, 1, n)) /\ Delivered(d, sel) /\ Flowing(d, sel)
  BY <1>1, <1>2, Zenon DEF QueryInFlight
<1>4. sel \in Seq(ProtoRecords)
  <2>1. SubSeq(s, 1, n) \in Seq(Entries)
    BY <1>3, SubSeqType, Zenon
  <2> QED
    BY <1>3, <2>1, SelectedType, Zenon
<1>5. Delivered(d, sel)' /\ Flowing(d, sel)' /\ (Untaken(d)' => got'[d] = <<>> /\ Unread(d)' = <<>>)
  BY <1>3, <1>4, Zenon DEF FlowKept
<1>6. PICK t : t = store'
  OBVIOUS
<1> DEFINE Prefix == /\ SubSeq(t, 1, n) = SubSeq(s, 1, n) /\ n \in 0 .. Len(t)
                   /\ \A j \in 1 .. n : t[j] = s[j]
<1>7. Prefix
  <2>1. CASE UNCHANGED store
    BY <1>2, <1>3, <1>6, <2>1, Zenon
  <2>2. ASSUME NEW c \in Conns, NEW e, AddedBy(c, e) PROVE Prefix
    <3>1. e \in Seq(Entries) /\ t = s \o e
      BY <1>2, <1>6, <2>2, Zenon DEF AddedBy
    <3> QED
      BY <1>3, <3>1, LongerSubSeq, Zenon
  <2> HIDE DEF Prefix
  <2> QED
    BY <2>1, <2>2, Zenon DEF StoreStep
<1>8. call'[d].seen \subseteq {t[j].seq : j \in 1 .. n}
  <2>1. \A j \in 1 .. n : t[j].seq = s[j].seq
    BY <1>7, Zenon
  <2>2. {t[j].seq : j \in 1 .. n} = {s[j].seq : j \in 1 .. n}
    BY <2>1, Zenon
  <2> QED
    BY <1>1, <1>3, <2>2, Zenon
<1>9. sel = Selected(call'[d].req, SubSeq(t, 1, n))
  BY <1>1, <1>3, <1>7, Zenon
<1> QED
  BY <1>5, <1>6, <1>7, <1>8, <1>9, HeldNext, Zenon

\* The engine takes the query: what is selected now, after all the caller has
\* seen, is what it will be answered.
LEMMA EngineQuery ==
  ASSUME NEW d \in Conns, Underway(d), StoreNumbered, Engine, d = Head(queue)
  PROVE  QueryInFlight(d)'
<1>1. /\ ConnInv /\ AnswersTyped /\ Querying(d) /\ QueryInFlight(d) /\ GotTyped /\ RequestsInFlight
      /\ call'[d] = call[d] /\ HandlersTyped /\ CommandsInFlight
  BY DEF Underway, ConnInv
<1>2. UNCHANGED <<call, got, down, wbuf, hand, handled>> /\ queue' = Tail(queue) /\ queue # <<>>
  BY DEF Engine, clientVars, netVars, handlerVars
<1>3. PICK q \in Seq(Conns) : q = queue
  BY <1>1 DEF AnswersTyped
<1>4. d \in Queued
  BY <1>2, <1>3 DEF Queued, ToSet
<1>5. Waits(d) /\ Untaken(d)
  BY <1>1, <1>4 DEF CommandsInFlight, Untaken
<1>6. hand[d] \in Working \ {"reply"}
  BY <1>5 DEF Waits, Working, InQuery
<1>7. Len(handled[d]) = call[d].num /\ cur[d] = call[d].req /\ cur[d].type = "Range"
  BY <1>1, <1>6, QueryWorks
<1>8. /\ hand[d] = "records" /\ rchan[d].batches = <<>> /\ oneshot[d] = Nothing /\ task[d].alive = FALSE
      /\ DOMAIN oneshot = Conns /\ DOMAIN task = Conns /\ DOMAIN rchan = Conns
  BY <1>1, <1>5, <1>7 DEF Waits, AnswersTyped
<1>9. ~Untaken(d)'
  <2>1. d \notin Queued'
    <3>1. \A i, j \in DOMAIN q : i < j => q[i] # q[j]
      BY <1>1, <1>3 DEF CommandsInFlight, QueuedOnce
    <3>2. PICK p \in Seq(Conns) : p = Tail(q) /\ Len(p) = Len(q) - 1
      BY <1>2, <1>3, TailType
    <3>3. \A i \in 1 .. Len(p) : p[i] = q[i + 1] /\ i + 1 \in DOMAIN q /\ 1 \in DOMAIN q /\ 1 < i + 1
      BY <1>2, <1>3, <3>2
    <3>4. \A i \in 1 .. Len(p) : p[i] # q[1]
      BY <3>1, <3>3
    <3>5. d = q[1]
      BY <1>2, <1>3
    <3>6. d \notin ToSet(p)
      BY <3>4, <3>5 DEF ToSet
    <3>7. queue' = p
      BY <1>2, <1>3, <3>2
    <3> QED
      BY <3>6, <3>7, Zenon DEF Queued
  <2>2. hand'[d] # "command"
    BY <1>2, <1>8
  <2>3. ~(Len(handled'[d]) < call'[d].num)
    <3>1. PICK n \in Nat : n = call[d].num
      BY <1>1, QueryNumbers
    <3>2. ~(n < n)
      OBVIOUS
    <3> QED
      BY <1>2, <1>7, <3>1, <3>2, Zenon
  <2> QED
    BY <2>1, <2>2, <2>3, Zenon DEF Untaken
<1>10. got[d] = <<>> /\ Unread(d) = <<>>
  BY <1>1, <1>5, Zenon DEF QueryInFlight
<1>11. Unread(d)' = <<>> /\ got'[d] = <<>>
  BY <1>2, <1>10, Zenon DEF Unread
<1>12. EngineRange(d, cur[d])
  BY <1>7 DEF Engine, Inserts
<1>13. UNCHANGED store
  BY <1>12 DEF EngineRange, storeVars
<1>14. PICK s \in Seq(Entries) : s = store
  BY <1>1 DEF AnswersTyped
<1>15. PICK sel \in Seq(ProtoRecords) : sel = Selected(cur[d], s)
  BY SelectedType, Zenon
<1>16. call[d].seen \subseteq {s[j].seq : j \in 1 .. Len(s)}
  <2>1. call[d].seen \subseteq acked
    BY DEF StoreNumbered
  <2>2. acked \subseteq {s[j].seq : j \in 1 .. Len(s)}
    BY <1>14, AckedStored
  <2> QED
    BY <2>1, <2>2, Zenon
<1>17. Delivers(got'[d], Unread(d)', sel)
  <2>1. <<>> \in Seq(ProtoRecords) /\ <<>> \in Seq(Written)
    OBVIOUS
  <2>2. Delivers(<<>>, <<>>, sel)
    BY <2>1, DeliversNone
  <2> QED
    BY <1>11, <2>2, Zenon
<1>18. FlowsNext(d, sel)
  <2>1. PICK pc, t, answer : pc = hand'[d] /\ t = task'[d] /\ answer = oneshot'[d]
    OBVIOUS
  <2>2. rchan'[d].batches = <<>>
    <3>1. PICK r \in [batches : Seq(Seq(ProtoRecords)), open : BOOLEAN] : r = rchan[d]
      BY <1>1 DEF AnswersTyped
    <3>2. rchan' = rchan \/ rchan' = [rchan EXCEPT ![d] = refuse(@)]
      BY <1>12, Zenon DEF EngineRange
    <3>3. rchan'[d] = r \/ rchan'[d] = refuse(r)
      BY <1>8, <3>1, <3>2, Zenon
    <3>4. refuse(r).batches = r.batches
      BY DEF refuse
    <3> QED
      BY <1>8, <3>1, <3>3, <3>4, Zenon
  <2>3. Flows(pc, <<>>, t, answer, 0, sel)
    <3>1. CASE cur[d].start_ts > cur[d].end_ts \/ cur[d].start_ts < 0
      <4>1. oneshot' = [oneshot EXCEPT ![d] = [is |-> "err"]] /\ UNCHANGED task
        BY <1>12, <3>1, Zenon DEF EngineRange
      <4>2. answer = [is |-> "err"]
        BY <1>8, <2>1, <4>1, Zenon
      <4>3. answer.is # "ok"
        BY <4>2
      <4>4. ~Alive(t)
        BY <1>8, <2>1, <4>1, Zenon DEF Alive
      <4> QED
        BY <4>3, <4>4, FlowsNone, Zenon
    <3>2. CASE ~(cur[d].start_ts > cur[d].end_ts \/ cur[d].start_ts < 0)
      <4>1. PICK n \in 0 .. Len(sel) :
              task' = [task EXCEPT ![d] = [left |-> SubSeq(sel, 1, n), ok |-> n = Len(sel), alive |-> TRUE]]
        <5>1. \E recs \in {Selected(cur[d], store)} : \E n \in 0 .. Len(recs) :
                task' = [task EXCEPT ![d] = [left |-> SubSeq(recs, 1, n), ok |-> n = Len(recs), alive |-> TRUE]]
          <6>1. \E recs \in {Selected(cur[d], store)} : \E n \in 0 .. Len(recs) :
                  /\ n = Len(recs) \/ MayFail("range")
                  /\ faults' = IF n = Len(recs) THEN faults ELSE faults + 1
                  /\ task' = [task EXCEPT ![d] = [left |-> SubSeq(recs, 1, n),
                                                  ok |-> n = Len(recs), alive |-> TRUE]]
            BY <1>12, <3>2, Zenon DEF EngineRange
          <6> QED
            BY <6>1, Zenon
        <5>2. PICK recs \in {Selected(cur[d], store)} : \E n \in 0 .. Len(recs) :
                task' = [task EXCEPT ![d] = [left |-> SubSeq(recs, 1, n), ok |-> n = Len(recs), alive |-> TRUE]]
          BY <5>1
        <5>3. recs = sel
          BY <1>14, <1>15, <5>2, Zenon
        <5> QED
          BY <5>2, <5>3, Zenon
      <4>2. t = [left |-> SubSeq(sel, 1, n), ok |-> n = Len(sel), alive |-> TRUE]
        BY <1>8, <2>1, <4>1, Zenon
      <4>3. t.left = SubSeq(sel, 1, n) /\ (t.ok => n = Len(sel))
        BY <4>2
      <4>4. oneshot' = oneshot
        BY <1>12, <3>2, Zenon DEF EngineRange
      <4>5. answer = Nothing
        BY <1>8, <2>1, <4>4, Zenon
      <4>6. answer.is # "ok"
        BY <4>5 DEF Nothing
      <4> QED
        BY <4>3, <4>6, FlowsStarts, Zenon
    <3> QED
      BY <3>1, <3>2
  <2>4. Len(got'[d]) + Len(Unread(d)') = 0
    <3>1. Len(got'[d]) = 0 /\ Len(Unread(d)') = 0
      BY <1>11
    <3>2. 0 + 0 = 0
      OBVIOUS
    <3> QED
      BY <3>1, <3>2, Zenon
  <2> QED
    BY <2>1, <2>2, <2>3, <2>4, Zenon DEF FlowsNext
<1>19. Delivered(d, sel)' /\ Flowing(d, sel)'
  BY <1>17, <1>18, FlowNext, Zenon
<1>20. PICK n : n = Len(s) /\ n \in 0 .. Len(s) /\ SubSeq(s, 1, n) = s
  BY WholeSubSeq, Zenon
<1>21. s = store' /\ call'[d] = call[d]
  BY <1>1, <1>13, <1>14
<1>22. sel = Selected(call'[d].req, SubSeq(s, 1, n))
  BY <1>7, <1>15, <1>20, <1>21, Zenon
<1>23. n \in 0 .. Len(store') /\ sel = Selected(call'[d].req, SubSeq(store', 1, n))
  BY <1>20, <1>21, <1>22, Zenon
<1>24. call'[d].seen \subseteq {store'[j].seq : j \in 1 .. n}
  <2>1. PICK S, c : S = {s[j].seq : j \in 1 .. n} /\ c = call[d].seen
    OBVIOUS
  <2>2. c \subseteq S
    BY <1>16, <1>20, <2>1, Zenon
  <2>3. S = {store'[j].seq : j \in 1 .. n}
    BY <1>21, <2>1
  <2> QED
    BY <1>21, <2>1, <2>2, <2>3, Zenon
<1> QED
  BY <1>9, <1>19, <1>23, <1>24, HeldNext, Zenon

\* A step of another connection, or one that leaves the answers of d alone.
LEMMA AwayFlow ==
  ASSUME NEW d \in Conns, Underway(d), got'[d] = got[d], handled'[d] = handled[d], down'[d] = down[d],
         wbuf'[d] = wbuf[d], hand'[d] = hand[d], rchan'[d] = rchan[d], task'[d] = task[d],
         oneshot'[d] = oneshot[d], d \in Queued' => d \in Queued
  PROVE  FlowKept(d)
<1>1. Querying(d) /\ QueryInFlight(d) /\ call'[d] = call[d]
  BY DEF Underway
<1>2. Unread(d)' = Unread(d)
  BY Zenon DEF Unread
<1>3. d \in Queued' => Untaken(d)
  BY Zenon DEF Untaken
<1>4. rchan'[d].batches = rchan[d].batches
  OBVIOUS
<1> QED
  BY <1>1, <1>2, <1>3, <1>4, QuietFlow, Zenon

\* The handler moves outside the query.
LEMMA OutsideFlow ==
  ASSUME NEW d \in Conns, Underway(d), UNCHANGED <<got, handled, down, wbuf, queue>>,
         hand'[d] \in {"spawned", "reading", "refused"}
  PROVE  FlowKept(d)
<1>1. Querying(d) /\ QueryInFlight(d) /\ call'[d] = call[d]
  BY DEF Underway
<1>2. Unread(d)' = Unread(d) /\ Queued' = Queued
  BY Zenon DEF Unread, Queued
<1>3. d \in Queued' => Untaken(d)
  BY <1>2, Zenon DEF Untaken
<1>4. hand'[d] \notin InQuery \union {"answer", "command"}
  BY DEF InQuery
<1> QED
  BY <1>1, <1>2, <1>3, <1>4, OtherFlow, Zenon

LEMMA StopsFlow ==
  ASSUME NEW d \in Conns, Underway(d), EngineStops
  PROVE  FlowKept(d)
<1>1. /\ ConnInv /\ AnswersTyped /\ Querying(d) /\ QueryInFlight(d) /\ CommandsInFlight /\ call'[d] = call[d]
  BY DEF Underway, ConnInv
<1>2. UNCHANGED <<got, handled, down, wbuf, hand, task>> /\ queue' = <<>>
  BY DEF EngineStops, clientVars, netVars, handlerVars
<1>3. Unread(d)' = Unread(d)
  BY <1>2, Zenon DEF Unread
<1>4. d \in Queued' => Untaken(d)
  <2>1. ToSet(<<>>) = {}
    BY DEF ToSet
  <2>2. Queued' = {}
    BY <1>2, <2>1, Zenon DEF Queued
  <2> QED
    BY <2>2
<1>5. /\ oneshot' = [c \in Conns |-> IF c \in Queued THEN [is |-> "dropped"] ELSE oneshot[c]]
      /\ rchan' = [c \in Conns |-> IF c \in Queued THEN Closed ELSE rchan[c]]
  <2>1. Queued = {queue[i] : i \in DOMAIN queue}
    BY DEF Queued, ToSet
  <2>2. \E dropped \in {{queue[i] : i \in DOMAIN queue}} :
          /\ oneshot' = [c \in Conns |-> IF c \in dropped THEN [is |-> "dropped"] ELSE oneshot[c]]
          /\ rchan' = [c \in Conns |-> IF c \in dropped THEN Closed ELSE rchan[c]]
    BY DEF EngineStops
  <2>3. PICK dropped : /\ dropped = Queued
          /\ oneshot' = [c \in Conns |-> IF c \in dropped THEN [is |-> "dropped"] ELSE oneshot[c]]
          /\ rchan' = [c \in Conns |-> IF c \in dropped THEN Closed ELSE rchan[c]]
    BY <2>1, <2>2
  <2> QED
    BY <2>3, Zenon
<1>6. oneshot'[d] = oneshot[d] \/ oneshot'[d].is = "dropped"
  BY <1>5
<1>7. rchan'[d].batches = rchan[d].batches
  <2>1. CASE d \notin Queued
    BY <1>5, <2>1
  <2>2. CASE d \in Queued
    <3>1. Waits(d)
      BY <1>1, <2>2 DEF CommandsInFlight
    <3>2. hand[d] \in Working \ {"reply"}
      BY <3>1 DEF Waits, Working, InQuery
    <3>3. cur[d].type = "Range"
      BY <1>1, <3>2, QueryWorks
    <3>4. rchan[d].batches = <<>>
      BY <3>1, <3>3 DEF Waits
    <3>5. rchan'[d] = Closed
      BY <1>5, <2>2
    <3>6. Closed.batches = <<>>
      BY DEF Closed
    <3> QED
      BY <3>4, <3>5, <3>6, Zenon
  <2> QED
    BY <2>1, <2>2
<1> QED
  BY <1>1, <1>2, <1>3, <1>4, <1>6, <1>7, QuietFlow, Zenon

\* The engine takes the command of another client.
LEMMA OthersFlow ==
  ASSUME NEW d \in Conns, Underway(d), Engine, d # Head(queue)
  PROVE  FlowKept(d)
<1>1. AnswersTyped
  BY DEF Underway, ConnInv
<1>2. UNCHANGED <<got, handled, down, wbuf, hand>> /\ queue' = Tail(queue) /\ queue # <<>>
  BY DEF Engine, clientVars, netVars, handlerVars
<1>3. PICK c : c = Head(queue)
  OBVIOUS
<1>4. \/ EngineInsert(c, cur[c])
      \/ EngineRange(c, cur[c])
      \/ EngineMetrics(c)
  BY <1>3, Zenon DEF Engine
<1>5. /\ DOMAIN oneshot = Conns /\ DOMAIN task = Conns /\ DOMAIN rchan = Conns
  BY <1>1 DEF AnswersTyped
<1>6. /\ oneshot' = oneshot \/ \E a : oneshot' = [oneshot EXCEPT ![c] = a]
      /\ task' = task \/ \E t : task' = [task EXCEPT ![c] = t]
      /\ rchan' = rchan \/ \E r : rchan' = [rchan EXCEPT ![c] = r]
  <2>1. CASE EngineInsert(c, cur[c])
    BY <2>1 DEF EngineInsert
  <2>2. CASE EngineRange(c, cur[c])
    BY <2>2, Zenon DEF EngineRange
  <2>3. CASE EngineMetrics(c)
    BY <2>3 DEF EngineMetrics
  <2> QED
    BY <1>4, <2>1, <2>2, <2>3
<1>7. oneshot'[d] = oneshot[d] /\ task'[d] = task[d] /\ rchan'[d] = rchan[d]
  BY <1>3, <1>5, <1>6
<1>8. d \in Queued' => d \in Queued
  <2>1. PICK q \in Seq(Conns) : q = queue
    BY <1>1 DEF AnswersTyped
  <2>2. ToSet(Tail(q)) \subseteq ToSet(q)
    BY <1>2, <2>1 DEF ToSet
  <2>3. Queued' = ToSet(Tail(q)) /\ Queued = ToSet(q)
    BY <1>2, <2>1, Zenon DEF Queued
  <2> QED
    BY <2>2, <2>3
<1> QED
  BY <1>2, <1>7, <1>8, AwayFlow, Zenon

\* Nothing that belongs to d moves.
Away(d) ==
  /\ got'[d] = got[d] /\ handled'[d] = handled[d] /\ down'[d] = down[d] /\ wbuf'[d] = wbuf[d]
  /\ hand'[d] = hand[d] /\ rchan'[d] = rchan[d] /\ task'[d] = task[d] /\ oneshot'[d] = oneshot[d]
  /\ d \in Queued' => d \in Queued

LEMMA AwayFailed ==
  ASSUME ConnInv, NEW d \in Conns, NEW c \in Conns, d # c, Fail(c),
         UNCHANGED <<got, handled, down, rchan, task, oneshot, queue>>
  PROVE  Away(d)
<1>1. wbuf'[d] = wbuf[d] /\ hand'[d] = hand[d]
  BY FailWrites DEF ConnInv
<1>2. Queued' = Queued
  BY Zenon DEF Queued
<1> QED
  BY <1>1, <1>2, Zenon DEF Away

LEMMA AwayClient ==
  ASSUME ConnInv, GotTyped, NEW d \in Conns, NEW c \in Conns, d # c,
         \/ Connect(c) \/ (\E req \in Requests[c] : Call(c, req)) \/ Client(c) \/ Cancel(c) \/ Close(c)
  PROVE  Away(d)
<1>1. DOMAIN hand = Conns /\ DOMAIN down = Conns /\ DOMAIN got = Conns
  BY DEF ConnInv, HandlersTyped, AnswersTyped, GotTyped
<1>2. UNCHANGED <<handled, wbuf, rchan, task, oneshot, queue>>
  BY DEF Connect, Call, Client, Arrive, Receive, ReceiveClosed, Cancel, Close, handlerVars, engineVars
<1>3. hand'[d] = hand[d] /\ down'[d] = down[d]
  BY <1>1 DEF Connect, Call, Client, Arrive, Receive, ReceiveClosed, Cancel, Close, handlerVars, netVars
<1>4. got' = got \/ \E g : got' = [got EXCEPT ![c] = g]
  <2>1. CASE Receive(c)
    BY <2>1, Zenon DEF Receive
  <2>2. CASE ReceiveClosed(c)
    BY <2>2, Zenon DEF ReceiveClosed
  <2>3. CASE Connect(c) \/ Arrive(c) \/ Cancel(c) \/ Close(c)
    BY <2>3 DEF Connect, Arrive, Cancel, Close, clientVars
  <2>4. ASSUME NEW req, Call(c, req) PROVE got' = got \/ \E g : got' = [got EXCEPT ![c] = g]
    BY <2>4, Zenon DEF Call
  <2> QED
    BY <2>1, <2>2, <2>3, <2>4 DEF Client
<1>5. got'[d] = got[d]
  BY <1>1, <1>4
<1>6. Queued' = Queued
  BY <1>2, Zenon DEF Queued
<1> QED
  BY <1>2, <1>3, <1>5, <1>6, Zenon DEF Away

LEMMA AwayHandler ==
  ASSUME ConnInv, NEW d \in Conns, NEW c \in Conns, d # c,
         Accept(c) \/ Handler(c) \/ TaskSends(c) \/ TaskEnds(c)
  PROVE  Away(d)
<1>1. /\ DOMAIN hand = Conns /\ DOMAIN down = Conns /\ DOMAIN wbuf = Conns /\ DOMAIN handled = Conns
      /\ DOMAIN rchan = Conns /\ DOMAIN task = Conns /\ DOMAIN oneshot = Conns
  BY DEF ConnInv, HandlersTyped, AnswersTyped, RequestsInFlight
<1>2. ASSUME UNCHANGED queue PROVE Queued' = Queued
  BY <1>2, Zenon DEF Queued
<1>3. CASE Accept(c) \/ StartHandler(c) \/ RecordsEnd(c)
  <2>1. UNCHANGED <<got, handled, down, wbuf, rchan, task, oneshot, queue>>
    BY <1>3 DEF Accept, StartHandler, RecordsEnd, clientVars, netVars, engineVars
  <2>2. hand'[d] = hand[d]
    BY <1>1, <1>3 DEF Accept, StartHandler, RecordsEnd
  <2> QED
    BY <1>2, <2>1, <2>2 DEF Away
<1>4. CASE ReadFrame(c)
  <2>1. UNCHANGED <<got, down, wbuf, rchan, task, oneshot, queue>>
    BY <1>4 DEF ReadFrame, clientVars, engineVars
  <2>2. \E msg, to : handled' = [handled EXCEPT ![c] = Append(@, msg)] /\ hand' = [hand EXCEPT ![c] = to]
    BY <1>4, Zenon DEF ReadFrame
  <2>3. hand'[d] = hand[d] /\ handled'[d] = handled[d]
    BY <1>1, <2>2
  <2> QED
    BY <1>2, <2>1, <2>3 DEF Away
<1>5. CASE ReadEnd(c)
  <2>1. UNCHANGED <<got, handled, down, rchan, task, oneshot, queue>>
    BY <1>5 DEF ReadEnd, clientVars, netVars, engineVars
  <2>2. CASE Fail(c)
    BY <2>1, <2>2, AwayFailed
  <2>3. CASE ~Fail(c)
    <3>1. UNCHANGED wbuf /\ hand' = [hand EXCEPT ![c] = "ended"]
      BY <1>5, <2>3 DEF ReadEnd
    <3>2. hand'[d] = hand[d]
      BY <1>1, <3>1
    <3> QED
      BY <1>2, <2>1, <3>1, <3>2 DEF Away
  <2> QED
    BY <2>2, <2>3
<1>6. CASE SendCommand(c)
  <2>1. UNCHANGED <<got, handled, down, task>>
    BY <1>6 DEF SendCommand, clientVars, netVars
  <2>2. CASE Fail(c) /\ UNCHANGED <<queue, oneshot, rchan>>
    BY <2>1, <2>2, AwayFailed
  <2>3. CASE ~(Fail(c) /\ UNCHANGED <<queue, oneshot, rchan>>)
    <3>1. UNCHANGED wbuf /\ queue' = Append(queue, c) /\ oneshot' = [oneshot EXCEPT ![c] = Nothing]
      BY <1>6, <2>3, Zenon DEF SendCommand
    <3>2. (\E r : rchan' = [rchan EXCEPT ![c] = r]) /\ \E to : hand' = [hand EXCEPT ![c] = to]
      BY <1>6, <2>3, Zenon DEF SendCommand
    <3>3. oneshot'[d] = oneshot[d] /\ rchan'[d] = rchan[d] /\ hand'[d] = hand[d]
      BY <1>1, <3>1, <3>2
    <3>4. d \in Queued' => d \in Queued
      <4>1. PICK q \in Seq(Conns) : q = queue
        BY DEF ConnInv, AnswersTyped
      <4>2. ToSet(Append(q, c)) \subseteq ToSet(q) \union {c}
        <5>1. PICK p \in Seq(Conns) : p = Append(q, c) /\ Len(p) = Len(q) + 1
          <6>1. Append(q, c) \in Seq(Conns) /\ Len(Append(q, c)) = Len(q) + 1
            OBVIOUS
          <6> QED
            BY <6>1, Zenon
        <5>2. \A i \in 1 .. Len(p) : p[i] = c \/ (i \in 1 .. Len(q) /\ p[i] = q[i])
          BY <5>1
        <5>3. ToSet(p) = {p[i] : i \in 1 .. Len(p)} /\ ToSet(q) = {q[i] : i \in 1 .. Len(q)}
          BY DEF ToSet
        <5>4. ToSet(p) \subseteq ToSet(q) \union {c}
          BY <5>2, <5>3
        <5> QED
          BY <5>1, <5>4
      <4>3. Queued' = ToSet(Append(q, c)) /\ Queued = ToSet(q)
        BY <3>1, <4>1, Zenon DEF Queued
      <4> QED
        BY <4>2, <4>3
    <3> QED
      BY <2>1, <3>1, <3>3, <3>4 DEF Away
  <2> QED
    BY <2>2, <2>3
<1>7. CASE RecvRecords(c)
  <2>1. UNCHANGED <<got, handled, down, task, oneshot, queue>>
    BY <1>7 DEF RecvRecords, clientVars, netVars
  <2>2. (\E b : wbuf' = [wbuf EXCEPT ![c] = b]) /\ \E to : hand' = [hand EXCEPT ![c] = to]
    BY <1>7, Zenon DEF RecvRecords
  <2>3. rchan' = [rchan EXCEPT ![c].batches = Tail(@)]
    BY <1>7 DEF RecvRecords
  <2>4. wbuf'[d] = wbuf[d] /\ hand'[d] = hand[d] /\ rchan'[d] = rchan[d]
    BY <1>1, <2>2, <2>3
  <2> QED
    BY <1>2, <2>1, <2>4 DEF Away
<1>8. CASE Flush(c)
  <2>1. UNCHANGED <<got, handled, rchan, task, oneshot, queue>>
    BY <1>8 DEF Flush, engineVars
  <2>2. CASE Fail(c) /\ UNCHANGED down
    BY <2>1, <2>2, AwayFailed
  <2>3. ASSUME NEW n, FlushEffect(c, n) PROVE Away(d)
    <3>1. hand'[d] = hand[d] /\ wbuf'[d] = wbuf[d] /\ down'[d] = down[d]
      BY <1>1, <2>3 DEF FlushEffect
    <3> QED
      BY <1>2, <2>1, <3>1 DEF Away
  <2> QED
    BY <1>8, <2>2, <2>3, FlushWrites DEF ConnInv
<1>9. CASE Answer(c)
  <2>1. UNCHANGED <<got, handled, down, rchan, task, oneshot, queue>>
    BY <1>9 DEF Answer, clientVars, netVars, engineVars
  <2>2. CASE Fail(c)
    BY <2>1, <2>2, AwayFailed
  <2>3. CASE ~Fail(c)
    <3>1. (\E b : wbuf' = [wbuf EXCEPT ![c] = b]) /\ hand' = [hand EXCEPT ![c] = "reply"]
      BY <1>9, <2>3, Zenon DEF Answer
    <3>2. wbuf'[d] = wbuf[d] /\ hand'[d] = hand[d]
      BY <1>1, <3>1
    <3> QED
      BY <1>2, <2>1, <3>2 DEF Away
  <2> QED
    BY <2>2, <2>3
<1>10. CASE TaskSends(c) \/ TaskEnds(c)
  <2>1. UNCHANGED <<got, handled, down, wbuf, hand, queue>>
    BY <1>10 DEF TaskSends, TaskEnds, clientVars, netVars, handlerVars
  <2>2. task'[d] = task[d] /\ rchan'[d] = rchan[d] /\ oneshot'[d] = oneshot[d]
    <3>1. CASE TaskSends(c)
      <4>1. UNCHANGED oneshot
        BY <3>1 DEF TaskSends
      <4>2. rchan' = rchan \/ \E x : rchan' = [rchan EXCEPT ![c].batches = Append(@, x)]
        BY <3>1, Zenon DEF TaskSends
      <4>3. \/ task' = [task EXCEPT ![c].left = <<>>]
            \/ \E n : task' = [task EXCEPT ![c].left = SubSeq(@, n + 1, Len(@))]
        BY <3>1, Zenon DEF TaskSends
      <4>4. task'[d] = task[d]
        BY <1>1, <4>3
      <4>5. rchan'[d] = rchan[d]
        BY <1>1, <4>2
      <4> QED
        BY <4>1, <4>4, <4>5
    <3>2. CASE TaskEnds(c)
      <4>1. \E a : oneshot' = [oneshot EXCEPT ![c] = a]
        BY <3>2, Zenon DEF TaskEnds
      <4>2. task' = [task EXCEPT ![c] = NoTask] /\ rchan' = [rchan EXCEPT ![c].open = FALSE]
        BY <3>2 DEF TaskEnds
      <4> QED
        BY <1>1, <4>1, <4>2
    <3> QED
      BY <1>10, <3>1, <3>2
  <2> QED
    BY <1>2, <2>1, <2>2 DEF Away
<1> QED
  BY <1>3, <1>4, <1>5, <1>6, <1>7, <1>8, <1>9, <1>10 DEF Handler

\* While a call goes on nothing is returned; it changes when it is made.
CallGoesOn(d) ==
  \/ call'[d] = call[d] /\ result'[d] = result[d]
  \/ call'[d] = Idle
  \/ \E req \in Requests[d] : Call(d, req)

LEMMA NextCalled ==
  ASSUME InsertsInFlight, CallsNumbered, [Next]_vars, NEW d \in Conns
  PROVE  CallGoesOn(d)
<1>1. DOMAIN call = Conns /\ DOMAIN result = Conns
  BY DEF CallsNumbered, InsertsInFlight
<1>2. ASSUME NEW c \in Conns, NEW req \in Requests[c], Call(c, req) PROVE CallGoesOn(d)
  <2>1. CASE d = c
    BY <1>2, <2>1, Zenon DEF CallGoesOn
  <2>2. CASE d # c
    <3>1. call'[d] = call[d] /\ UNCHANGED result
      BY <1>1, <1>2, <2>2 DEF Call
    <3> QED
      BY <3>1, Zenon DEF CallGoesOn
  <2> QED
    BY <2>1, <2>2
<1>3. ASSUME NEW c \in Conns, Receive(c) \/ ReceiveClosed(c) \/ Cancel(c) PROVE CallGoesOn(d)
  <2>1. \/ UNCHANGED <<call, result>>
        \/ call' = [call EXCEPT ![c] = Idle] /\ (UNCHANGED result \/ \E r : result' = [result EXCEPT ![c] = r])
    BY <1>3, Zenon DEF Receive, ReceiveClosed, Cancel, Return
  <2>2. (call'[d] = call[d] /\ result'[d] = result[d]) \/ call'[d] = Idle
    BY <1>1, <2>1
  <2> QED
    BY <2>2, Zenon DEF CallGoesOn
<1>4. CASE UNCHANGED <<call, result>>
  BY <1>4, Zenon DEF CallGoesOn
<1>5. ASSUME NEW c \in Conns,
             \/ Connect(c) \/ Arrive(c) \/ Close(c) \/ Accept(c) \/ TaskSends(c) \/ TaskEnds(c)
      PROVE  UNCHANGED <<call, result>>
  BY <1>5, SMTT(30) DEF Connect, Arrive, Close, Accept, TaskSends, TaskEnds, clientVars
<1>6. ASSUME NEW c \in Conns, Handler(c) PROVE UNCHANGED <<call, result>>
  BY <1>6 DEF Handler, StartHandler, ReadFrame, ReadEnd, SendCommand, RecvRecords, RecordsEnd, Flush,
              Answer, clientVars
<1>7. ASSUME AcceptFails \/ Engine \/ EngineStops \/ UNCHANGED vars PROVE UNCHANGED <<call, result>>
  BY <1>7 DEF AcceptFails, Engine, EngineStops, vars, clientVars
<1> QED
  BY <1>2, <1>3, <1>4, <1>5, <1>6, <1>7 DEF Next, Client

\* Every step keeps what is on its way of a query, but for the one that takes
\* its command.
LEMMA NextFlow ==
  ASSUME NEW d \in Conns, Underway(d), ConnInv', [Next]_vars
  PROVE  FlowKept(d) \/ (Engine /\ d = Head(queue))
<1>1. /\ ConnInv /\ GotTyped /\ Querying(d) /\ call'[d] = call[d]
  BY DEF Underway
<1>2. call[d].num > 0 /\ sock[d] = "open" /\ DOMAIN call = Conns /\ DOMAIN hand = Conns
  BY <1>1, QueryNumbers DEF Querying, ConnInv, CallsNumbered, HandlersTyped
<1>3. call'[d] # Idle
  <2>1. Idle.num = 0
    BY DEF Idle
  <2> QED
    BY <1>1, <1>2, <2>1
<1>4. ASSUME NEW c \in Conns, d # c,
             \/ Connect(c) \/ (\E req \in Requests[c] : Call(c, req)) \/ Client(c) \/ Cancel(c) \/ Close(c)
             \/ Accept(c) \/ Handler(c) \/ TaskSends(c) \/ TaskEnds(c)
      PROVE  FlowKept(d)
  <2>1. Away(d)
    BY <1>1, <1>4, AwayClient, AwayHandler
  <2> QED
    BY <2>1, AwayFlow, Zenon DEF Away
<1>5. ASSUME Connect(d) \/ (\E req \in Requests[d] : Call(d, req)) \/ Close(d) PROVE FALSE
  BY <1>2, <1>5 DEF Connect, Call, Close
<1>6. ASSUME ReceiveClosed(d) \/ Cancel(d) PROVE FALSE
  <2>1. call' = [call EXCEPT ![d] = Idle]
    BY <1>6, Zenon DEF ReceiveClosed, Cancel, Return
  <2> QED
    BY <1>2, <1>3, <2>1
<1>7. CASE Arrive(d) \/ UNCHANGED vars
  <2>1. UNCHANGED <<got, handled, down, wbuf, hand, rchan, task, oneshot, queue>>
    BY <1>7 DEF Arrive, clientVars, handlerVars, engineVars, vars, netVars
  <2>2. Queued' = Queued
    BY <2>1, Zenon DEF Queued
  <2> QED
    BY <2>1, <2>2, AwayFlow, Zenon
<1>8. CASE Receive(d)
  BY <1>8, ReceiveFlow
<1>9. CASE Accept(d) \/ StartHandler(d)
  <2>1. UNCHANGED <<got, handled, down, wbuf, queue>>
    BY <1>9 DEF Accept, StartHandler, clientVars, netVars, engineVars
  <2>2. hand'[d] \in {"spawned", "reading", "refused"}
    BY <1>2, <1>9 DEF Accept, StartHandler
  <2> QED
    BY <2>1, <2>2, OutsideFlow, Zenon
<1>10. CASE ReadFrame(d)
  BY <1>10, ReadFlow DEF ConnInv
<1>11. ASSUME ReadEnd(d) PROVE FALSE
  BY <1>2, <1>11 DEF ReadEnd
<1>12. CASE SendCommand(d) \/ RecvRecords(d) \/ RecordsEnd(d) \/ Flush(d)
  BY <1>12, SendFlow, RecvFlow, RecordsEndFlow, FlushFlow
<1>13. CASE Answer(d)
  BY <1>13, AnswerFlow DEF ConnInv
<1>14. CASE TaskSends(d) \/ TaskEnds(d)
  BY <1>14, TaskSendsFlow, TaskEndsFlow
<1>15. CASE AcceptFails
  <2>1. UNCHANGED <<got, handled, down, wbuf, rchan, task, oneshot, queue>>
    BY <1>15 DEF AcceptFails, clientVars, netVars, engineVars
  <2>2. hand'[d] = "refused" \/ hand'[d] = hand[d]
    BY <1>15 DEF AcceptFails
  <2>3. Queued' = Queued
    BY <2>1, Zenon DEF Queued
  <2>4. CASE hand'[d] = hand[d]
    BY <2>1, <2>3, <2>4, AwayFlow, Zenon
  <2>5. CASE hand'[d] = "refused"
    <3>1. hand'[d] \in {"spawned", "reading", "refused"}
      BY <2>5
    <3> QED
      BY <2>1, <3>1, OutsideFlow, Zenon
  <2> QED
    BY <2>2, <2>4, <2>5
<1>16. CASE Engine
  BY <1>16, OthersFlow
<1>17. CASE EngineStops
  BY <1>17, StopsFlow
<1>18. ASSUME NEW c \in Conns,
             \/ Connect(c) \/ (\E req \in Requests[c] : Call(c, req)) \/ Client(c) \/ Cancel(c) \/ Close(c)
             \/ Accept(c) \/ Handler(c) \/ TaskSends(c) \/ TaskEnds(c)
      PROVE  FlowKept(d) \/ (Engine /\ d = Head(queue))
  <2>1. CASE d # c
    BY <1>4, <1>18, <2>1
  <2>2. CASE d = c
    <3>1. \/ Connect(d) \/ (\E req \in Requests[d] : Call(d, req)) \/ Client(d) \/ Cancel(d) \/ Close(d)
          \/ Accept(d) \/ Handler(d) \/ TaskSends(d) \/ TaskEnds(d)
      BY <1>18, <2>2
    <3>2. CASE Client(d)
      BY <1>6, <1>7, <1>8, <3>2 DEF Client
    <3>3. CASE Handler(d)
      BY <1>9, <1>10, <1>11, <1>12, <1>13, <3>3 DEF Handler
    <3> QED
      BY <1>5, <1>6, <1>9, <1>14, <3>1, <3>2, <3>3
  <2> QED
    BY <2>1, <2>2
<1> QED
  BY <1>7, <1>15, <1>16, <1>17, <1>18, Zenon DEF Next

\* A call is made: nothing of an earlier answer is on its way.
LEMMA CallQuery ==
  ASSUME ConnInv, ConnInv', GotTyped, StoreNumbered, IssuedGrows, NEW d \in Conns, NEW req \in Requests[d],
         Call(d, req), Querying(d)'
  PROVE  QueryInFlight(d)'
<1> USE DEF ConnInv
<1>1. /\ UNCHANGED <<sock, cancelled, result, handled, hand, down, wbuf, store, queue, acked>> /\ call[d].num = 0
      /\ got' = [got EXCEPT ![d] = <<>>]
      /\ call' = [call EXCEPT ![d] = [num |-> Len(issued[d]) + 1, req |-> req, seen |-> acked]]
  BY DEF Call, handlerVars, engineVars, storeVars
<1>2. Reading(d)' /\ cancelled'[d] = {}
  BY Zenon DEF Querying
<1>3. cancelled[d] = {} /\ InLine(d)
  BY <1>1, <1>2, ReadingBack DEF AnswersInLine
<1>4. PICK n \in Nat : n = Len(issued[d])
  BY DueType
<1>5. Due(d) = n + 1
  <2>1. Due(d) = n + 1 - Cardinality({})
    BY <1>1, <1>3, <1>4, Zenon DEF Due
  <2> QED
    BY <2>1, FS_EmptySet
<1>6. Unread(d) = <<>>
  <2>1. SUFFICES ASSUME Unread(d) # <<>> PROVE FALSE
    OBVIOUS
  <2>2. PICK p \in Seq(Written) : p = down[d]
    BY DEF AnswersTyped
  <2>3. PICK w \in Seq(Written) : w = wbuf[d]
    BY DEF AnswersTyped
  <2>4. PICK q \in Seq(Written) : q = Unread(d) /\ q = p \o w
    BY <2>2, <2>3, UnreadType, Zenon DEF Unread
  <2>5. q[1].of = n + 1
    BY <1>3, <1>5, <2>1, <2>4, Zenon DEF InLine, Lined
  <2>6. q[1] \in ToSet(p) \union ToSet(w)
    <3>1. q[1] \in ToSet(q)
      BY <2>1, <2>4 DEF ToSet
    <3> QED
      BY <2>4, <3>1, ToSetConcat
  <2>7. q[1] \in OnItsWay(d)
    BY <2>2, <2>3, <2>6, Zenon DEF OnItsWay
  <2>8. AllToRequest
    BY Zenon DEF AnswersInLine, AllToRequest, OnItsWay
  <2>9. q[1].of \in Nat /\ q[1].of <= n
    BY <1>4, <2>7, <2>8, NothingAhead
  <2> QED
    BY <2>5, <2>9
<1>7. got'[d] = <<>> /\ Unread(d)' = <<>>
  <2>1. got'[d] = <<>>
    BY <1>1 DEF GotTyped
  <2> QED
    BY <1>1, <1>6, <2>1, Zenon DEF Unread
<1>8. call'[d] = [num |-> n + 1, req |-> req, seen |-> acked]
  BY <1>1, <1>4, Zenon DEF CallsNumbered
<1>9. PICK s \in Seq(Entries) : s = store
  BY DEF AnswersTyped
<1>10. PICK sel \in Seq(ProtoRecords) : sel = Selected(req, s)
  BY SelectedType, Zenon
<1>11. Delivers(got'[d], Unread(d)', sel)
  <2>1. <<>> \in Seq(ProtoRecords) /\ <<>> \in Seq(Written)
    OBVIOUS
  <2>2. Delivers(<<>>, <<>>, sel)
    BY <2>1, DeliversNone
  <2> QED
    BY <1>7, <2>2, Zenon
<1>12. Len(handled'[d]) # call'[d].num
  <2>1. PICK h \in Seq(AllRequests) : h = handled[d]
    BY DEF RequestsInFlight
  <2>2. Len(h) + Len(up[d]) = n /\ Len(up[d]) \in Nat
    BY <1>4, <2>1 DEF RequestsInFlight
  <2>3. Len(h) # n + 1
    BY <2>2
  <2>4. call'[d].num = n + 1
    BY <1>8
  <2> QED
    BY <1>1, <2>1, <2>3, <2>4, Zenon
<1>13. Delivered(d, sel)' /\ Flowing(d, sel)'
  BY <1>11, <1>12, FlowNext, Zenon
<1>14. PICK m : m = Len(s) /\ m \in 0 .. Len(s) /\ SubSeq(s, 1, m) = s
  BY WholeSubSeq, Zenon
<1>15. s = store' /\ call'[d].req = req /\ call'[d].seen = acked
  BY <1>1, <1>8, <1>9
<1>16. m \in 0 .. Len(store') /\ sel = Selected(call'[d].req, SubSeq(store', 1, m))
  BY <1>10, <1>14, <1>15, Zenon
<1>17. call'[d].seen \subseteq {store'[j].seq : j \in 1 .. m}
  <2>1. acked \subseteq {s[j].seq : j \in 1 .. m}
    BY <1>9, <1>14, AckedStored
  <2>2. {s[j].seq : j \in 1 .. m} = {store'[j].seq : j \in 1 .. m}
    BY <1>15
  <2> QED
    BY <1>15, <2>1, <2>2, Zenon
<1> QED
  BY <1>7, <1>13, <1>16, <1>17, HeldNext, Zenon

LEMMA NextQuery ==
  ASSUME ConnInv, GotTyped, StoreNumbered, [Next]_vars, NEW d \in Conns, Querying(d) => QueryInFlight(d)
  PROVE  Querying(d)' => QueryInFlight(d)'
<1> SUFFICES ASSUME Querying(d)' PROVE QueryInFlight(d)'
  OBVIOUS
<1>1. ConnInv' /\ IssuedGrows /\ StoreStep /\ CallGoesOn(d) /\ ResultStep(d)
  BY NextConn, NextIssued, NextStore, NextCalled, NextResult DEF ConnInv
<1>2. Reading(d)' /\ cancelled'[d] = {} /\ call'[d].num > 0 /\ call'[d].req.type = "Range"
  BY Zenon DEF Querying
<1>3. CASE call'[d] = Idle
  BY <1>2, <1>3 DEF Idle
<1>4. CASE \E req \in Requests[d] : Call(d, req)
  BY <1>1, <1>4, CallQuery
<1>5. CASE call'[d] = call[d] /\ result'[d] = result[d]
  <2>1. call[d].num > 0 /\ call[d].req.type = "Range" /\ cancelled[d] = {} /\ cancelled[d] \subseteq cancelled'[d]
    BY <1>1, <1>2, <1>5 DEF ResultStep
  <2>2. sock[d] = "open"
    BY <2>1 DEF ConnInv, CallsNumbered, Numbered
  <2>3. Reading(d)
    BY <1>1, <1>2, <1>5, <2>1, <2>2, ReadingBack DEF ConnInv
  <2>4. Querying(d) /\ Underway(d)
    BY <1>5, <2>1, <2>3, Zenon DEF Querying, Underway
  <2>5. FlowKept(d) \/ (Engine /\ d = Head(queue))
    BY <1>1, <2>4, NextFlow
  <2> QED
    BY <1>1, <2>4, <2>5, KeptQuery, EngineQuery
<1> QED
  BY <1>1, <1>3, <1>4, <1>5, Zenon DEF CallGoesOn

LEMMA RecordWritten ==
  ASSUME NEW w \in Written, w.msg.type = "RangeRecord"
  PROVE  w.msg.record \in ProtoRecords
<1>1. w.msg \in Replies
  BY DEF Written
<1>2. CASE \E r \in ProtoRecords : w.msg = RangeRecord(r)
  <2>1. PICK r \in ProtoRecords : w.msg = RangeRecord(r)
    BY <1>2
  <2> QED
    BY <2>1, RecordOf
<1>3. CASE \E a \in Answers : w.msg = MetricsJson(a.json)
  BY <1>3 DEF MetricsJson
<1>4. CASE w.msg \in {InsertOk, RangeEnd, Pong, ErrorText("failed"), ErrorText("engine closed")}
  <2>1. \A t : ErrorText(t).type # "RangeRecord"
    BY DEF ErrorText
  <2>2. InsertOk.type # "RangeRecord" /\ RangeEnd.type # "RangeRecord" /\ Pong.type # "RangeRecord"
    BY DEF InsertOk, RangeEnd, Pong
  <2> QED
    BY <1>4, <2>1, <2>2, Zenon
<1> QED
  BY <1>1, <1>2, <1>3, <1>4 DEF Replies

LEMMA NextGot ==
  ASSUME ConnInv, GotTyped, [Next]_vars
  PROVE  GotTyped'
<1>1. ASSUME NEW c \in Conns, Receive(c) PROVE GotTyped'
  <2>1. PICK q \in Seq(Written) : q = down[c] /\ q # <<>>
    BY <1>1 DEF ConnInv, AnswersTyped, Receive
  <2>2. PICK w \in Written : w = Head(down[c])
    BY <2>1, TailType
  <2>3. CASE Ends(call[c].req, w.msg)
    <3>1. got' = [got EXCEPT ![c] = <<>>]
      BY <1>1, <2>2, <2>3, Zenon DEF Receive
    <3>2. <<>> \in Seq(ProtoRecords)
      OBVIOUS
    <3> QED
      BY <3>1, <3>2 DEF GotTyped
  <2>4. CASE ~Ends(call[c].req, w.msg)
    <3>1. got' = [got EXCEPT ![c] = Append(@, w.msg.record)]
      BY <1>1, <2>2, <2>4, Zenon DEF Receive
    <3>2. w.msg.type = "RangeRecord"
      BY <2>4 DEF Ends
    <3>3. PICK r \in ProtoRecords : r = w.msg.record
      BY <3>2, RecordWritten
    <3>4. PICK g \in Seq(ProtoRecords) : g = Append(got[c], r)
      <4>1. got[c] \in Seq(ProtoRecords)
        BY DEF GotTyped
      <4>2. Append(got[c], r) \in Seq(ProtoRecords)
        BY <4>1
      <4> QED
        BY <4>2, Zenon
    <3>5. got' = [got EXCEPT ![c] = g]
      BY <3>1, <3>3, <3>4, Zenon
    <3> QED
      BY <3>5 DEF GotTyped
  <2> QED
    BY <2>3, <2>4
<1>2. ASSUME NEW c \in Conns, ReceiveClosed(c) \/ (\E req \in Requests[c] : Call(c, req)) PROVE GotTyped'
  <2>1. got' = [got EXCEPT ![c] = <<>>]
    BY <1>2 DEF ReceiveClosed, Call
  <2>2. <<>> \in Seq(ProtoRecords)
    OBVIOUS
  <2> QED
    BY <2>1, <2>2 DEF GotTyped
<1>3. CASE UNCHANGED got
  BY <1>3 DEF GotTyped
<1>4. ASSUME NEW c \in Conns,
             \/ Connect(c) \/ Arrive(c) \/ Cancel(c) \/ Close(c) \/ Accept(c) \/ TaskSends(c) \/ TaskEnds(c)
      PROVE  UNCHANGED got
  BY <1>4, SMTT(30) DEF Connect, Arrive, Cancel, Close, Accept, TaskSends, TaskEnds, clientVars
<1>5. ASSUME NEW c \in Conns, Handler(c) PROVE UNCHANGED got
  BY <1>5 DEF Handler, StartHandler, ReadFrame, ReadEnd, SendCommand, RecvRecords, RecordsEnd, Flush,
              Answer, clientVars
<1>6. ASSUME AcceptFails \/ Engine \/ EngineStops \/ UNCHANGED vars PROVE UNCHANGED got
  BY <1>6 DEF AcceptFails, Engine, EngineStops, vars, clientVars
<1> QED
  BY <1>1, <1>2, <1>3, <1>4, <1>5, <1>6 DEF Next, Client

\* What a call returned, and what it has seen, of the entries s.
Ascending(s) == \A i, j \in DOMAIN s : i < j => s[i].seq < s[j].seq
MomentRead(r, s) ==
  /\ \E n \in 0 .. Len(s) : r.got = Selected(r.req, SubSeq(s, 1, n))
  /\ \A e \in {s[i] : i \in DOMAIN s} :
       e.seq \in r.seen /\ Matches(r.req, e) => ProtoRecord(e) \in {r.got[i] : i \in DOMAIN r.got}

LEMMA SeenAmong ==
  ASSUME NEW s \in Seq(Entries), Ascending(s), NEW n \in 0 .. Len(s), NEW seen,
         seen \subseteq {s[j].seq : j \in 1 .. n}, NEW i \in DOMAIN s, s[i].seq \in seen
  PROVE  i \in 1 .. n
<1>1. PICK j \in 1 .. n : s[j].seq = s[i].seq
  OBVIOUS
<1>2. j \in DOMAIN s /\ i \in Nat /\ j \in Nat /\ s[i].seq \in Nat
  <2>1. s[i] \in Entries
    OBVIOUS
  <2>2. s[i].seq \in Nat
    BY <2>1 DEF Entries
  <2> QED
    BY <2>2
<1>3. ~(i < j) /\ ~(j < i)
  BY <1>1, <1>2 DEF Ascending
<1> QED
  BY <1>2, <1>3

LEMMA RangeTaken ==
  ASSUME NEW s \in Seq(Entries), Ascending(s), NEW n \in 0 .. Len(s), NEW r,
         r.seen \subseteq {s[j].seq : j \in 1 .. n}, r.got = Selected(r.req, SubSeq(s, 1, n))
  PROVE  MomentRead(r, s)
<1>1. PICK seen, req, g : seen = r.seen /\ req = r.req /\ g = r.got
  OBVIOUS
<1>2. PICK x \in Seq(Entries) : x = SubSeq(s, 1, n) /\ Len(x) = n
  BY SubSeqType, Zenon
<1>3. g = Selected(req, x) /\ seen \subseteq {s[j].seq : j \in 1 .. n}
  BY <1>1, <1>2, Zenon
<1>4. g \in Seq(ProtoRecords)
  BY <1>3, SelectedType, Zenon
<1>5. ASSUME NEW i \in DOMAIN s, s[i].seq \in seen, Matches(req, s[i])
      PROVE  ProtoRecord(s[i]) \in {g[k] : k \in DOMAIN g}
  <2>1. i \in 1 .. n
    BY <1>3, <1>5, SeenAmong
  <2>2. i \in 1 .. Len(x) /\ x[i] = s[i]
    BY <1>2, <2>1
  <2>3. \E k \in 1 .. Len(g) : g[k] = ProtoRecord(x[i])
    BY <1>3, <1>5, <2>2, SelectedHas, Zenon
  <2>4. DOMAIN g = 1 .. Len(g)
    BY <1>4
  <2> QED
    BY <2>2, <2>3, <2>4, Zenon
<1>6. ASSUME NEW e \in {s[i] : i \in DOMAIN s}, e.seq \in r.seen, Matches(r.req, e)
      PROVE  ProtoRecord(e) \in {r.got[k] : k \in DOMAIN r.got}
  <2>1. PICK i \in DOMAIN s : e = s[i]
    BY <1>6
  <2>2. ProtoRecord(e) \in {g[k] : k \in DOMAIN g}
    BY <1>1, <1>5, <1>6, <2>1, Zenon
  <2> QED
    BY <1>1, <2>2
<1> QED
  BY <1>6, Zenon DEF MomentRead

LEMMA RangeGrows ==
  ASSUME NEW s \in Seq(Entries), NEW e \in Seq(Entries), Ascending(s \o e), NEW r, MomentRead(r, s),
         r.seen \subseteq {s[j].seq : j \in 1 .. Len(s)}
  PROVE  MomentRead(r, s \o e)
<1>1. PICK n \in 0 .. Len(s) : r.got = Selected(r.req, SubSeq(s, 1, n))
  BY DEF MomentRead
<1>2. PICK m : m = Len(s) /\ m \in 0 .. Len(s) /\ DOMAIN s = 1 .. m
  BY WholeSubSeq
<1>3. PICK t \in Seq(Entries) : t = s \o e
  BY ConcatParts, Zenon
<1>4. SubSeq(t, 1, n) = SubSeq(s, 1, n) /\ n \in 0 .. Len(t)
  BY <1>1, <1>3, LongerSubSeq, Zenon
<1>5. m \in 0 .. Len(t) /\ \A j \in 1 .. m : t[j] = s[j]
  BY <1>2, <1>3, LongerSubSeq, Zenon
<1>6. {t[j].seq : j \in 1 .. m} = {s[j].seq : j \in 1 .. m}
  BY <1>5
<1>7. r.seen \subseteq {t[j].seq : j \in 1 .. m}
  BY <1>2, <1>6, Zenon
<1>8. ASSUME NEW x \in {t[i] : i \in DOMAIN t}, x.seq \in r.seen, Matches(r.req, x)
      PROVE  ProtoRecord(x) \in {r.got[k] : k \in DOMAIN r.got}
  <2>1. PICK i \in DOMAIN t : x = t[i]
    BY <1>8
  <2>2. i \in 1 .. m
    BY <1>3, <1>5, <1>7, <1>8, <2>1, SeenAmong, Zenon
  <2>3. i \in DOMAIN s /\ x = s[i]
    BY <1>2, <1>5, <2>1, <2>2, Zenon
  <2> QED
    BY <1>8, <2>3, Zenon DEF MomentRead
<1>9. MomentRead(r, t)
  BY <1>1, <1>4, <1>8, Zenon DEF MomentRead
<1> QED
  BY <1>3, <1>9

SeenAcked(c) == Answered(c) => result[c].seen \subseteq acked

LEMMA NextSeenAcked ==
  ASSUME ConnInv, StoreNumbered, [Next]_vars, NEW d \in Conns, SeenAcked(d)
  PROVE  SeenAcked(d)'
<1> SUFFICES ASSUME Answered(d)' PROVE result'[d].seen \subseteq acked'
  BY Zenon DEF SeenAcked
<1>1. ResultStep(d) /\ acked \subseteq acked'
  BY NextResult, NextAcked DEF ConnInv, AckedStep
<1>2. CASE result'[d] = result[d]
  <2>1. Answered(d)
    BY <1>2, Zenon DEF Answered
  <2> QED
    BY <1>1, <1>2, <2>1, Zenon DEF SeenAcked
<1>3. CASE Returns(d)
  <2>1. PICK w : w = Head(down[d])
    OBVIOUS
  <2>2. Return(d, w.msg, w.of)
    BY <1>3, <2>1, Zenon DEF Returns
  <2>3. PICK r : result' = [result EXCEPT ![d] = r] /\ r.seen = call[d].seen
    BY <2>2, ReturnedCall
  <2>4. result'[d] = r
    BY <2>3 DEF ConnInv, InsertsInFlight
  <2>5. call[d].seen \subseteq acked
    BY DEF StoreNumbered
  <2> QED
    BY <1>1, <2>3, <2>4, <2>5, Zenon
<1>4. CASE result'[d].msg.type = "closed"
  BY <1>4, Zenon DEF Answered
<1> QED
  BY <1>1, <1>2, <1>3, <1>4 DEF ResultStep

Ranged(c) ==
  Answered(c) /\ result[c].ok /\ result[c].req.type = "Range" /\ cancelled[c] = {} =>
    MomentRead(result[c], store)

LEMMA QueryMade ==
  ASSUME NEW d \in Conns, QueryInFlight(d), NEW s, s = store
  PROVE  \E n, sel :
           /\ n \in 0 .. Len(s)
           /\ call[d].seen \subseteq {s[j].seq : j \in 1 .. n}
           /\ sel = Selected(call[d].req, SubSeq(s, 1, n)) /\ Delivered(d, sel) /\ Flowing(d, sel)
BY Zenon DEF QueryInFlight

\* The end of a query is taken: its caller has all of what was selected.
LEMMA ReturnsRange ==
  ASSUME ConnInv, GotTyped, StoreNumbered, NEW d \in Conns, Querying(d) => QueryInFlight(d), Returns(d),
         result'[d].ok, result'[d].req.type = "Range", cancelled'[d] = {}
  PROVE  MomentRead(result'[d], store)
<1> USE DEF ConnInv
<1>1. PICK w, r :
        /\ w = Head(down[d]) /\ w \in ToSet(down[d]) /\ w.of = call[d].num /\ call[d].num > 0
        /\ result'[d] = r /\ r.msg = w.msg /\ r.req = call[d].req /\ r.seen = call[d].seen
        /\ r.got = got[d] /\ (r.ok <=> w.msg.type = Expected(call[d].req))
  BY ReturnsOwn
<1>2. PICK req : req = call[d].req
  OBVIOUS
<1>3. req.type = "Range" /\ w.msg.type = Expected(req)
  BY <1>1, <1>2, Zenon
<1>4. w.msg.type = "RangeEnd"
  BY <1>3 DEF Expected, Inserts
<1>5. Receive(d) /\ cancelled[d] = {}
  BY DEF Returns, Receive
<1>6. Querying(d)
  <2>1. Orderly(d, Len(issued[d]), cancelled[d])
    BY <1>5 DEF Orderly
  <2>2. Reading(d)
    BY <1>5, <2>1, ReceiveReads
  <2> QED
    BY <1>1, <1>2, <1>3, <1>5, <2>2, Zenon DEF Querying
<1>7. PICK s \in Seq(Entries) : s = store
  BY DEF AnswersTyped
<1>8. PICK n, sel :
        /\ n \in 0 .. Len(s)
        /\ call[d].seen \subseteq {s[j].seq : j \in 1 .. n}
        /\ sel = Selected(call[d].req, SubSeq(s, 1, n)) /\ Delivered(d, sel) /\ Flowing(d, sel)
  BY <1>6, <1>7, QueryMade
<1>9. sel \in Seq(ProtoRecords)
  <2>1. SubSeq(s, 1, n) \in Seq(Entries)
    BY <1>8, SubSeqType, Zenon
  <2> QED
    BY <1>8, <2>1, SelectedType, Zenon
<1>10. PICK g \in Seq(ProtoRecords) : g = got[d]
  BY DEF GotTyped
<1>11. PICK q \in Seq(Written) : q = Unread(d) /\ q # <<>> /\ q[1] = w
  BY <1>1, <1>5, ReceiveTakes
<1>12. g = sel
  <2>1. Delivers(g, q, sel)
    BY <1>8, <1>10, <1>11, Zenon DEF Delivered
  <2>2. q[1].msg.type = "RangeEnd"
    BY <1>4, <1>11, Zenon
  <2> QED
    BY <1>9, <1>11, <2>1, <2>2, DeliversAll
<1>13. Ascending(s)
  BY <1>7, Zenon DEF StoreNumbered, Ascending
<1>14. r.got = Selected(r.req, SubSeq(s, 1, n)) /\ r.seen \subseteq {s[j].seq : j \in 1 .. n}
  BY <1>1, <1>8, <1>10, <1>12, Zenon
<1>15. MomentRead(r, s)
  BY <1>8, <1>13, <1>14, RangeTaken
<1> QED
  BY <1>1, <1>7, <1>15, Zenon

LEMMA NextRanged ==
  ASSUME ConnInv, GotTyped, StoreNumbered, StoreNumbered', [Next]_vars, NEW d \in Conns,
         Querying(d) => QueryInFlight(d), SeenAcked(d), Ranged(d)
  PROVE  Ranged(d)'
<1> SUFFICES ASSUME Answered(d)', result'[d].ok, result'[d].req.type = "Range", cancelled'[d] = {}
             PROVE  MomentRead(result[d], store)'
  BY Zenon DEF Ranged
<1>1. ResultStep(d) /\ StoreStep
  BY NextResult, NextStore DEF ConnInv
<1>2. PICK r, t : r = result'[d] /\ t = store'
  OBVIOUS
<1>3. MomentRead(r, t)
  <2>1. CASE result'[d] = result[d]
    <3>1. Answered(d) /\ result[d].ok /\ result[d].req.type = "Range" /\ cancelled[d] = {}
      <4>1. cancelled[d] = {}
        BY <1>1 DEF ResultStep
      <4>2. Answered(d)
        BY <2>1, Zenon DEF Answered
      <4>3. result[d].ok /\ result[d].req.type = "Range"
        BY <2>1
      <4> QED
        BY <4>1, <4>2, <4>3
    <3>2. PICK s \in Seq(Entries) : s = store
      BY DEF ConnInv, AnswersTyped
    <3>3. MomentRead(r, s) /\ r.seen \subseteq acked
      BY <1>2, <2>1, <3>1, <3>2, Zenon DEF Ranged, SeenAcked
    <3>4. CASE UNCHANGED store
      BY <1>2, <3>2, <3>3, <3>4, Zenon
    <3>5. ASSUME NEW c \in Conns, NEW e, AddedBy(c, e) PROVE MomentRead(r, t)
      <4>1. e \in Seq(Entries) /\ t = s \o e
        BY <1>2, <3>2, <3>5, Zenon DEF AddedBy
      <4>2. Ascending(t)
        BY <1>2, Zenon DEF StoreNumbered, Ascending
      <4>3. r.seen \subseteq {s[j].seq : j \in 1 .. Len(s)}
        <5>1. acked \subseteq {s[j].seq : j \in 1 .. Len(s)}
          BY <3>2, AckedStored
        <5> QED
          BY <3>3, <5>1, Zenon
      <4> QED
        BY <3>3, <4>1, <4>2, <4>3, RangeGrows
    <3> QED
      BY <1>1, <3>4, <3>5, Zenon DEF StoreStep
  <2>2. CASE Returns(d)
    <3>1. MomentRead(result'[d], store)
      BY <2>2, ReturnsRange
    <3>2. UNCHANGED store
      BY <2>2 DEF Returns, Receive, engineVars, storeVars
    <3> QED
      BY <1>2, <3>1, <3>2, Zenon
  <2>3. CASE result'[d].msg.type = "closed"
    BY <2>3, Zenon DEF Answered
  <2> QED
    BY <1>1, <2>1, <2>2, <2>3 DEF ResultStep
<1> QED
  BY <1>2, <1>3, Zenon DEF MomentRead

LEMMA InitQueries == Init => QueriesInFlight
<1> SUFFICES ASSUME Init PROVE QueriesInFlight
  OBVIOUS
<1>1. got \in [Conns -> Seq(ProtoRecords)]
  <2>1. <<>> \in Seq(ProtoRecords)
    OBVIOUS
  <2> QED
    BY <2>1 DEF Init
<1>2. ASSUME NEW c \in Conns PROVE ~(call[c].num > 0) /\ ~Answered(c)
  BY DEF Init, Idle, Answered
<1> QED
  BY <1>1, <1>2, Zenon DEF QueriesInFlight, Querying, RangeAnswers

LEMMA NextQueries ==
  ConnInv /\ SnapshotsInFlight /\ QueriesInFlight /\ [Next]_vars => QueriesInFlight'
<1> SUFFICES ASSUME ConnInv, SnapshotsInFlight, QueriesInFlight, [Next]_vars PROVE QueriesInFlight'
  OBVIOUS
<1>1. StoreNumbered /\ StoreNumbered'
  BY NextSnapshots DEF SnapshotsInFlight
<1>2. GotTyped /\ \A c \in Conns : Querying(c) => QueryInFlight(c)
  BY Zenon DEF QueriesInFlight, GotTyped
<1>3. \A c \in Conns : SeenAcked(c) /\ Ranged(c)
  BY Zenon DEF QueriesInFlight, SeenAcked, Ranged, RangeAnswers, MomentRead
<1>4. GotTyped'
  BY <1>2, NextGot
<1>5. ASSUME NEW c \in Conns PROVE Querying(c)' => QueryInFlight(c)'
  BY <1>1, <1>2, NextQuery
<1>6. ASSUME NEW c \in Conns PROVE SeenAcked(c)' /\ Ranged(c)'
  BY <1>1, <1>2, <1>3, NextSeenAcked, NextRanged
<1>7. got' \in [Conns -> Seq(ProtoRecords)]
  BY <1>4 DEF GotTyped, ProtoRecords, Records, Writes, AllRequests, ProtoRecord
<1>8. RangeAnswers'
  BY <1>6, Zenon DEF Ranged, RangeAnswers, MomentRead
<1>9. \A c \in Conns : Answered(c)' => result'[c].seen \subseteq acked'
  BY <1>6, Zenon DEF SeenAcked
<1> QED
  BY <1>5, <1>7, <1>8, <1>9, Zenon DEF QueriesInFlight

(* RangeAnswers: what range returns when no call of the client was dropped   *)
(* is what the store held at one moment, no record of it missing, doubled or *)
(* out of place, and every matching record whose insert had been             *)
(* acknowledged to any client before the call is among it; whatever the      *)
(* other clients insert meanwhile, however batches, flushes and reads        *)
(* interleave, and whatever fails.                                           *)
THEOREM RangeAnswersTheorem == Spec => []RangeAnswers
<1>1. Init => ConnInv /\ SnapshotsInFlight /\ QueriesInFlight
  BY InitConn, InitSnapshots, InitQueries
<1>2. ConnInv /\ SnapshotsInFlight /\ QueriesInFlight /\ [Next]_vars
        => (ConnInv /\ SnapshotsInFlight /\ QueriesInFlight)'
  BY NextConn, NextSnapshots, NextQueries
<1>3. QueriesInFlight => RangeAnswers
  BY DEF QueriesInFlight
<1> QED
  BY <1>1, <1>2, <1>3, PTL DEF Spec
=============================================================================
