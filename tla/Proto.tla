------------------------------- MODULE Proto --------------------------------
(***************************************************************************)
(* The wire protocol of logregator-core (proto.rs).                        *)
(*                                                                         *)
(* A frame is laid out from the fields that are put into it, each with its *)
(* width in bytes.  A decoder reads by byte offset: it finds a value only  *)
(* where a field of that width begins.                                     *)
(***************************************************************************)
EXTENDS Naturals, SequencesExt

CONSTANTS
  StrLen(_),  \* length of a string in bytes
  JsonLen,    \* length of a metrics snapshot in JSON
  U32Bound    \* 2^32: what an u32 is taken modulo

ASSUME ProtoAssumption == U32Bound \in Nat \ {0}

LENGTH_SZ == 4
HEADER_SZ == 5   \* the length and the type

\* put_u8, put_u32, put_i64 and put_u64, put_slice
u8(v) == [w |-> 1, v |-> v]
u32(v) == [w |-> 4, v |-> v % U32Bound]
i64(v) == [w |-> 8, v |-> v]
slice(len, v) == [w |-> len, v |-> v]

\* A string, behind its length.
str_len(s) == u32(StrLen(s))
str(s) == slice(StrLen(s), s)

\* FieldEnds(fields)[i]: the number of bytes up to the end of field i.
FieldEnds(fields) ==
  LET n[i \in 0 .. Len(fields)] == IF i = 0 THEN 0 ELSE n[i - 1] + fields[i].w
  IN  [i \in 0 .. Len(fields) |-> n[i]]

\* at[o]: the field that begins at byte o.
FieldsAt(fields, ends) ==
  [o \in {ends[i - 1] : i \in {k \in DOMAIN fields : fields[k].w > 0}} |->
     CHOOSE f \in {fields[i] : i \in {k \in DOMAIN fields : fields[k].w > 0 /\ ends[k - 1] = o}} : TRUE]

\* The bytes of a sequence of fields.
Layout(fields) ==
  CHOOSE l \in {[size |-> ends[Len(fields)], at |-> FieldsAt(fields, ends)] :
                 ends \in {FieldEnds(fields)}} : TRUE

\* A field of width w begins at byte o of the payload.
IsField(frame, o, w) ==
  HEADER_SZ + o \in DOMAIN frame.at /\ frame.at[HEADER_SZ + o].w = w

\* array4 and array8 with from_be_bytes; what lies across fields is some number.
Num(frame, o, w) == IF IsField(frame, o, w) THEN frame.at[HEADER_SZ + o].v ELSE 0

\* from_utf8 of a slice of len bytes.
Text(frame, o, len) == IF IsField(frame, o, len) THEN frame.at[HEADER_SZ + o].v ELSE ""

PayloadLen(frame) == frame.size - HEADER_SZ

-----------------------------------------------------------------------------
(* Messages.                                                                 *)
Insert(rec) == [type |-> "Insert", records |-> <<rec>>]
BatchInsert(recs) == [type |-> "BatchInsert", records |-> recs]
RangeOf(source_id, key, start_ts, end_ts, filter) ==
  [type |-> "Range", source_id |-> source_id, key |-> key,
   start_ts |-> start_ts, end_ts |-> end_ts, filter |-> filter]
Metrics == [type |-> "Metrics"]
Ping == [type |-> "Ping"]

InsertOk == [type |-> "InsertOk"]
RangeRecord(rec) == [type |-> "RangeRecord", record |-> rec]
RangeEnd == [type |-> "RangeEnd"]
MetricsJson(json) == [type |-> "Metrics", json |-> json]
Pong == [type |-> "Pong"]
ErrorText(text) == [type |-> "Error", text |-> text]

\* A string, whose length fits the four bytes in front of it.
IsText(s) == StrLen(s) \in Nat /\ StrLen(s) < U32Bound /\ (StrLen(s) = 0 => s = "")

\* The types of the messages.
IsRecord(rec) ==
  /\ rec = [source_id |-> rec.source_id, ts |-> rec.ts, key |-> rec.key, value |-> rec.value]
  /\ IsText(rec.key) /\ IsText(rec.value)

IsRecords(recs) ==
  /\ Len(recs) \in Nat /\ Len(recs) < U32Bound /\ recs = [i \in 1 .. Len(recs) |-> recs[i]]
  /\ \A i \in 1 .. Len(recs) : IsRecord(recs[i])

IsProtoRecord(rec) ==
  /\ rec = [source_id |-> rec.source_id, ts |-> rec.ts, seq |-> rec.seq,
            key |-> rec.key, value |-> rec.value]
  /\ IsText(rec.key) /\ IsText(rec.value)

IsRequest(msg) ==
  \/ msg.type = "Insert" /\ msg = Insert(msg.records[1]) /\ IsRecord(msg.records[1])
  \/ msg.type = "BatchInsert" /\ msg = BatchInsert(msg.records) /\ IsRecords(msg.records)
  \/ /\ msg.type = "Range" /\ IsText(msg.key) /\ IsText(msg.filter)
     /\ msg = RangeOf(msg.source_id, msg.key, msg.start_ts, msg.end_ts, msg.filter)
  \/ msg \in {Metrics, Ping}

IsReply(msg) ==
  \/ msg.type = "RangeRecord" /\ msg = RangeRecord(msg.record) /\ IsProtoRecord(msg.record)
  \/ msg.type = "Metrics" /\ msg = MetricsJson(msg.json)
  \/ msg.type = "Error" /\ msg = ErrorText(msg.text) /\ IsText(msg.text)
  \/ msg \in {InsertOk, RangeEnd, Pong}

\* What a decoder answers to a frame it cannot read.
Malformed == [type |-> "Malformed"]

\* The length is written last, over the four bytes left for it.
Frame(type, payload) ==
  Layout(<< u32(1 + Layout(payload).size), u8(type) >> \o payload)

InsertFields(rec) ==
  << i64(rec.source_id), i64(rec.ts),
     str_len(rec.key), str(rec.key), str_len(rec.value), str(rec.value) >>

RangeFields(msg) ==
  << i64(msg.source_id), str_len(msg.key), str(msg.key),
     i64(msg.start_ts), i64(msg.end_ts), str_len(msg.filter), str(msg.filter) >>

BatchFields(recs) ==
  << u32(Len(recs)) >> \o FlattenSeq([i \in DOMAIN recs |-> InsertFields(recs[i])])

(* ClientCodec::encode                                                       *)
client_encode(msg) ==
  CASE msg.type = "Insert" -> Frame(1, InsertFields(msg.records[1]))
    [] msg.type = "Range" -> Frame(2, RangeFields(msg))
    [] msg.type = "BatchInsert" -> Frame(3, BatchFields(msg.records))
    [] msg.type = "Metrics" -> Frame(4, <<>>)
    [] msg.type = "Ping" -> Frame(5, <<>>)

(* encode_record of ServerCodec::encode                                      *)
encode_record(rec) ==
  << i64(rec.source_id), i64(rec.ts), i64(rec.seq),
     str_len(rec.key), str(rec.key), str_len(rec.value), str(rec.value) >>

\* Mutant of write_record_frame: the sequence number is left out.
write_record_frameShort(rec) ==
  Frame(130, << i64(rec.source_id), i64(rec.ts),
                str_len(rec.key), str(rec.key), str_len(rec.value), str(rec.value) >>)

(* write_record_frame of handle_conn, which lays a record out by hand.       *)
write_record_frame(rec) ==
  Frame(130, << i64(rec.source_id), i64(rec.ts), i64(rec.seq),
                str_len(rec.key), str(rec.key), str_len(rec.value), str(rec.value) >>)

\* The bytes that it adds to the write buffer.
record_frame_len(rec) == HEADER_SZ + 32 + StrLen(rec.key) + StrLen(rec.value)

(* ServerCodec::encode                                                       *)
server_encode(msg) ==
  CASE msg.type = "InsertOk" -> Frame(129, <<>>)
    [] msg.type = "RangeRecord" -> Frame(130, encode_record(msg.record))
    [] msg.type = "RangeEnd" -> Frame(131, <<>>)
    [] msg.type = "Metrics" -> Frame(132, << u32(JsonLen), slice(JsonLen, msg.json) >>)
    [] msg.type = "Pong" -> Frame(133, <<>>)
    [] msg.type = "Error" -> Frame(255, << str_len(msg.text), str(msg.text) >>)

-----------------------------------------------------------------------------
\* Both decoders answer Ok(None) until a whole frame has arrived.
Complete(frame, len) == len >= LENGTH_SZ /\ len >= LENGTH_SZ + frame.at[0].v

MessageType(frame) == frame.at[LENGTH_SZ].v

\* Where the record that begins at byte o ends.
InsertEnd(frame, o) ==
  LET key_len == Num(frame, o + 16, 4)
  IN  o + 24 + key_len + Num(frame, o + 20 + key_len, 4)

\* Mutant of insert_at: the value is read from where its length is.
insert_atLength(frame, o) ==
  LET key_len == Num(frame, o + 16, 4)
      value_len == Num(frame, o + 20 + key_len, 4)
  IN  [source_id |-> Num(frame, o, 8), ts |-> Num(frame, o + 8, 8),
       key |-> Text(frame, o + 20, key_len), value |-> Text(frame, o + 20 + key_len, value_len)]

(* decode_insert, and one turn of the loop of decode_batch_insert.           *)
insert_at(frame, o) ==
  LET key_len == Num(frame, o + 16, 4)
      value_len == Num(frame, o + 20 + key_len, 4)
  IN  [source_id |-> Num(frame, o, 8), ts |-> Num(frame, o + 8, 8),
       key |-> Text(frame, o + 20, key_len), value |-> Text(frame, o + 24 + key_len, value_len)]

decode_insert(frame) ==
  IF InsertEnd(frame, 0) > PayloadLen(frame) THEN Malformed ELSE Insert(insert_at(frame, 0))

decode_batch_insert(frame) ==
  LET num_records == Num(frame, 0, 4)
      offset[i \in 0 .. num_records] ==
        IF i = 0 THEN 4 ELSE InsertEnd(frame, offset[i - 1])
  IN  IF offset[num_records] > PayloadLen(frame) THEN Malformed
      ELSE BatchInsert([i \in 1 .. num_records |-> insert_at(frame, offset[i - 1])])

decode_range(frame) ==
  LET key_len == Num(frame, 8, 4)
      filter_len == Num(frame, 28 + key_len, 4)
  IN  IF 32 + key_len + filter_len > PayloadLen(frame) THEN Malformed
      ELSE RangeOf(Num(frame, 0, 8), Text(frame, 12, key_len), Num(frame, 12 + key_len, 8),
                   Num(frame, 20 + key_len, 8), Text(frame, 32 + key_len, filter_len))

(* ServerCodec::decode of a complete frame.                                  *)
server_decode(frame) ==
  CASE MessageType(frame) = 1 -> decode_insert(frame)
    [] MessageType(frame) = 2 -> decode_range(frame)
    [] MessageType(frame) = 3 -> decode_batch_insert(frame)
    [] MessageType(frame) = 4 -> Metrics
    [] MessageType(frame) = 5 -> Ping
    [] OTHER -> Malformed

decode_server_range_record(frame) ==
  LET key_len == Num(frame, 24, 4)
      value_len == Num(frame, 28 + key_len, 4)
  IN  IF 32 + key_len + value_len > PayloadLen(frame) THEN Malformed
      ELSE RangeRecord([source_id |-> Num(frame, 0, 8), ts |-> Num(frame, 8, 8),
                        seq |-> Num(frame, 16, 8), key |-> Text(frame, 28, key_len),
                        value |-> Text(frame, 32 + key_len, value_len)])

decode_server_error(frame) == ErrorText(Text(frame, 4, Num(frame, 0, 4)))

decode_metrics(frame) == MetricsJson(Text(frame, 4, Num(frame, 0, 4)))

(* ClientCodec::decode of a complete frame.                                  *)
client_decode(frame) ==
  CASE MessageType(frame) = 129 -> InsertOk
    [] MessageType(frame) = 130 -> decode_server_range_record(frame)
    [] MessageType(frame) = 131 -> RangeEnd
    [] MessageType(frame) = 132 -> decode_metrics(frame)
    [] MessageType(frame) = 133 -> Pong
    [] MessageType(frame) = 255 -> decode_server_error(frame)
    [] OTHER -> Malformed
=============================================================================
