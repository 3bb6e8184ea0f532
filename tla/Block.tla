-------------------------------- MODULE Block -------------------------------
(***************************************************************************)
(* Blocks of a table (block.rs): the writer that fills one, its encoding   *)
(* and decoding, and the cursor that walks one.                            *)
(*                                                                         *)
(* The data of a block is the sequence of the records encoded in it, one   *)
(* after the other; an offset is the byte at which a record starts.        *)
(* Indices count from 0, as in the code.  An Option is a sequence of at    *)
(* most one element.                                                       *)
(***************************************************************************)
EXTENDS TsdbRecord, SequencesExt

CONSTANT MaxBlockSize       \* MAX_BLOCK_SIZE = u16::MAX

ASSUME MaxBlockAssumption ==
  MaxBlockSize \in Nat /\ MAX_RECORD_WIRE_LENGTH + 2 * SZ_U16 <= MaxBlockSize

\* The sum of a sequence of lengths.
Total(lens) ==
  LET sum[i \in 0..Len(lens)] == IF i = 0 THEN 0 ELSE sum[i - 1] + lens[i]
  IN sum[Len(lens)]

\* How many bytes the records of a sequence take.
DataLen(recs) == Total([i \in DOMAIN recs |-> wire_len(recs[i])])

-----------------------------------------------------------------------------
(* BlockWriter.                                                              *)
BlockWriter_new ==
  [buffer |-> <<>>, offsets |-> <<>>, size |-> 0, first_key |-> <<>>, last_key |-> <<>>]

(* BlockWriter::write.  The first record of a block is taken whatever the    *)
(* limit; a refused payload leaves garbage in the buffer of a writer that is *)
(* dropped with the error.                                                   *)
block_write(w, r, limit) ==
  LET est == w.size + wire_len(r) + (Len(w.offsets) + 1) * SZ_U16 + SZ_U16
      written == [buffer |-> Append(w.buffer, r),
                  offsets |-> Append(w.offsets, w.size),
                  size |-> w.size + wire_len(r),
                  first_key |-> IF w.first_key = <<>> THEN <<r.key>> ELSE w.first_key,
                  last_key |-> <<r.key>>]
  IN IF (w.offsets # <<>> /\ est > limit) \/ est > MaxBlockSize THEN [out |-> "Full", bw |-> w]
     ELSE IF CanEncode(r) THEN [out |-> "Written", bw |-> written]
     ELSE [out |-> "Err", bw |-> w]

into_block(w) == [data |-> w.buffer, offsets |-> w.offsets]

-----------------------------------------------------------------------------
(* Where record i of a block ends: at the next offset, or with the data.     *)
RecordEnd(b, i) ==
  IF i + 1 < Len(b.offsets) THEN b.offsets[i + 2] ELSE DataLen(b.data)

OffsetsIncrease(b) == \A i \in 0..(Len(b.offsets) - 1) : b.offsets[i + 1] < RecordEnd(b, i)

\* The length of the encoding without its checksum.
BodyLen(b) == DataLen(b.data) + Len(b.offsets) * SZ_U16 + SZ_U16

(* Block::encode_block: an error, a todo!() when the data leaves no room for *)
(* another record below u16::MAX, or the bytes of the block and a checksum.  *)
encode_block(b) ==
  IF b.offsets = <<>> \/ BodyLen(b) > MaxBlockSize THEN "Err"
  ELSE IF DataLen(b.data) + MIN_RECORD_WIRE_LENGTH > MaxBlockSize THEN "panic"
  ELSE IF OffsetsIncrease(b) THEN "ok" ELSE "Err"

EncodedLen(b) == BodyLen(b) + SZ_U32

(* Block::decode_block of the bytes encode_block wrote: it refuses offsets   *)
(* that do not increase, or leave a slice no record can have.                *)
decode_block(b) ==
  IF /\ OffsetsIncrease(b)
     /\ \A i \in 0..(Len(b.offsets) - 1) :
          RecordEnd(b, i) - b.offsets[i + 1] \in MIN_RECORD_WIRE_LENGTH..MAX_RECORD_WIRE_LENGTH
  THEN <<b>>
  ELSE <<>>

-----------------------------------------------------------------------------
(* BlockCursor: offset_idx, and the record decoded there, if any.            *)

\* Which record of b has its bytes at an offset: one, or none.
StartsAt(b, offset) == {n \in DOMAIN b.data : DataLen(SubSeq(b.data, 1, n - 1)) = offset}

\* update_current: decode the slice between this offset and the next.
block_at(b, idx) ==
  LET decoded == {n \in StartsAt(b, b.offsets[idx + 1]) :
                    CanDecode(b.data[n], RecordEnd(b, idx) - b.offsets[idx + 1])}
  IN [block |-> b, offset_idx |-> idx,
      record |-> IF idx < Len(b.offsets) /\ decoded # {}
                 THEN <<b.data[CHOOSE n \in decoded : TRUE]>> ELSE <<>>]

block_next(c) == block_at(c.block, c.offset_idx + 1)

\* Mutant of block_seek: the first record after the key.
block_seekAfter(c, key) ==
  block_at(c.block, Cardinality({i \in DOMAIN c.block.data : KeyLeq(c.block.data[i].key, key)}))

(* seek: the binary search ends at the key or where it would be inserted;    *)
(* records reach a block in the order of their keys.                         *)
block_seek(c, key) ==
  block_at(c.block, Cardinality({i \in DOMAIN c.block.data : KeyLess(c.block.data[i].key, key)}))

\* take_current leaves the cursor where it is, without its record.
block_take(c) == [c EXCEPT !.record = <<>>]
=============================================================================
