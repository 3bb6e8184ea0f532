----------------------------- MODULE TsdbRecord -----------------------------
(***************************************************************************)
(* Keys and records of logregator-tsdb (record.rs).  A record is its key   *)
(* and the length of its payload; sizes are in bytes, because blocks,      *)
(* tables and memtables are cut by size.                                   *)
(***************************************************************************)
EXTENDS Naturals, Sequences

CONSTANTS
  MinPayload,   \* MIN_PAYLOAD_LENGTH
  MaxPayload    \* MAX_PAYLOAD_LENGTH

ASSUME PayloadAssumption ==
  /\ MinPayload \in Nat \ {0}
  /\ MaxPayload \in Nat
  /\ MinPayload <= MaxPayload

KEY_SIZE == 32
SZ_U16 == 2
SZ_U32 == 4

Key == [stream_id: Nat, timestamp: Nat, sequence_num: Nat, source_id: Nat]

(* The derived Ord of Key compares the fields in the order they are          *)
(* declared: the stream comes first.                                         *)
KeyLess(a, b) ==
  \/ a.stream_id < b.stream_id
  \/ /\ a.stream_id = b.stream_id
     /\ \/ a.timestamp < b.timestamp
        \/ /\ a.timestamp = b.timestamp
           /\ \/ a.sequence_num < b.sequence_num
              \/ /\ a.sequence_num = b.sequence_num
                 /\ a.source_id < b.source_id

KeyLeq(a, b) == a = b \/ KeyLess(a, b)

\* Record::wire_len and Record::size_of (the key, a fat pointer, the payload).
wire_len(r) == KEY_SIZE + SZ_U32 + r.len
size_of(r) == KEY_SIZE + 16 + r.len

check_payload_size(n) == n \in MinPayload..MaxPayload

(* The record codec: encode refuses a payload check_payload_size refuses,    *)
(* having written the key; decode reads one record from the front of its     *)
(* source, and neither a shorter source nor one cut in the payload.          *)
CanEncode(r) == check_payload_size(r.len)
CanDecode(r, srcLen) == check_payload_size(r.len) /\ wire_len(r) <= srcLen

MIN_RECORD_WIRE_LENGTH == KEY_SIZE + SZ_U32 + MinPayload
MAX_RECORD_WIRE_LENGTH == KEY_SIZE + SZ_U32 + MaxPayload
=============================================================================
