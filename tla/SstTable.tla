------------------------------ MODULE SstTable ------------------------------
(***************************************************************************)
(* Sorted tables (sst.rs, bloom.rs): the writer, the file it produces, the *)
(* handle on a finished file, and the cursor over one.                     *)
(*                                                                         *)
(* A file is the sequence of the segments written to it: its blocks, the   *)
(* block metadata, the bloom filter and the footer.  A read of a byte      *)
(* range gives the segment that fills it exactly, or bytes no checksum     *)
(* accepts.  A checksum is the sequence of the segments it was fed.        *)
(***************************************************************************)
EXTENDS Block

CONSTANTS
  MaxSstSize,       \* MAX_SST_SIZE
  BloomPositions,   \* BloomPositions[s]: the bits positions() gives stream s
  BloomBytes,       \* length of the bitmap
  Unfinished        \* functions that panic, as they do at this commit

ASSUME SstAssumption ==
  /\ MaxSstSize \in Nat
  /\ BloomBytes \in Nat
  /\ Unfinished \subseteq {"bloom", "wal"}

SST_FOOTER_SIZE == 3 * SZ_U32
BLOCK_META_SIZE == SZ_U32 + 2 * KEY_SIZE

-----------------------------------------------------------------------------
(* BloomFilter: the set of its bits.                                         *)
\* Mutant of bloom_insert: only the first record of a table is entered.
bloom_insertFirst(bloom, stream) ==
  IF bloom = {} THEN BloomPositions[stream] ELSE bloom

bloom_insert(bloom, stream) == bloom \cup BloomPositions[stream]
may_contain(bloom, stream) == BloomPositions[stream] \subseteq bloom
bloom_wire_len == 20 + BloomBytes

-----------------------------------------------------------------------------
(* The file: segments in the order they were written.                        *)
FileLen(file) == Total([i \in DOMAIN file |-> file[i].len])
StartOf(file, i) == FileLen(SubSeq(file, 1, i - 1))

\* read_exact_at of the bytes from a up to b.
ReadAt(file, a, b) ==
  LET exact == {i \in 1..Len(file) : StartOf(file, i) = a /\ file[i].len = b - a}
  IN IF exact = {} THEN [kind |-> "garbage", len |-> b - a]
                   ELSE file[CHOOSE i \in exact : TRUE]

-----------------------------------------------------------------------------
(* HashedWriterState, with the file it writes and what its hasher has seen.  *)
writer_new(block_limit) ==
  [bw |-> BlockWriter_new, limit |-> block_limit, file |-> <<>>, hasher |-> <<>>,
   block_bytes_written |-> 0, block_meta |-> <<>>, record_count |-> 0,
   first_key |-> <<>>, last_key |-> <<>>, bloom |-> {}]

\* write_all of a segment, and the update of the hasher with its bytes.
WriteSegment(w, seg) ==
  [w EXCEPT !.file = Append(@, seg), !.hasher = Append(@, seg)]

\* Mutant of flush_blocks: only the data of a block is counted.
flush_blocksDataOnly(w) ==
  LET b == into_block(w.bw)
      meta == [offset |-> w.block_bytes_written,
               first_key |-> w.bw.first_key[1], last_key |-> w.bw.last_key[1]]
  IN [out |-> encode_block(b),
      w |-> [WriteSegment(w, [kind |-> "block", len |-> EncodedLen(b), block |-> b]) EXCEPT
               !.bw = BlockWriter_new,
               !.block_meta = Append(@, meta),
               !.block_bytes_written = @ + w.bw.size,
               !.first_key = w.bw.first_key,
               !.last_key = w.bw.last_key]]

(* flush_blocks: the block being filled goes to the file.  The size is       *)
(* checked before the offsets, the count and the checksum are added to it.   *)
flush_blocks(w) ==
  LET b == into_block(w.bw)
      encoded == encode_block(b)
      seg == [kind |-> "block", len |-> EncodedLen(b), block |-> b]
      meta == [offset |-> w.block_bytes_written,
               first_key |-> w.bw.first_key[1], last_key |-> w.bw.last_key[1]]
  IN IF w.block_bytes_written >= MaxSstSize THEN [out |-> "SstFilledUp", w |-> w]
     ELSE IF w.block_bytes_written + w.bw.size > MaxSstSize
     THEN [out |-> "InvalidSstSize", w |-> w]
     ELSE IF encoded # "ok" THEN [out |-> encoded, w |-> [w EXCEPT !.bw = BlockWriter_new]]
     ELSE [out |-> "ok",
           w |-> [WriteSegment(w, seg) EXCEPT
                    !.bw = BlockWriter_new,
                    !.block_meta = Append(@, meta),
                    !.block_bytes_written = @ + seg.len,
                    !.record_count = @ + Len(b.offsets),
                    !.first_key = IF @ = <<>> THEN w.bw.first_key ELSE @,
                    !.last_key = w.bw.last_key]]

\* The part of write that gives the record to the block writer.
write_block(w, r) ==
  LET b == block_write(w.bw, r, w.limit)
  IN IF w.block_bytes_written >= MaxSstSize THEN [out |-> "SstFilledUp", w |-> w]
     ELSE IF b.out # "Written" THEN [out |-> b.out, w |-> w]
     ELSE [out |-> "ok",
           w |-> [w EXCEPT !.bw = b.bw, !.bloom = bloom_insert(@, r.key.stream_id)]]

(* write: a full block is flushed and the record written once more.          *)
write(w, r) ==
  LET first == write_block(w, r)
      flushed == flush_blocks(w)
  IN IF first.out # "Full" THEN first
     ELSE IF flushed.out = "ok" THEN write_block(flushed.w, r)
     ELSE flushed

\* An offset of the footer, as the hasher sees it.
OffsetBytes(offset) == [kind |-> "offset", len |-> SZ_U32, offset |-> offset]

(* finalize: the last block, the metadata, the bloom filter, the footer with *)
(* the two offsets and the checksum of all that.  BloomFilterCodec::encode   *)
(* copies 8 bytes over a longer destination, which panics ("bloom").         *)
finalize(w) ==
  LET last == IF w.bw.size > 0 THEN flush_blocks(w) ELSE [out |-> "ok", w |-> w]
      metas == [kind |-> "metas", metas |-> last.w.block_meta,
                len |-> SZ_U32 + Len(last.w.block_meta) * BLOCK_META_SIZE + SZ_U32]
      bloom == [kind |-> "bloom", bloom |-> last.w.bloom, len |-> bloom_wire_len]
      withMetas == WriteSegment(last.w, metas)
      withBloom == WriteSegment(withMetas, bloom)
      metaStart == last.w.block_bytes_written
      bloomStart == metaStart + metas.len
      footer == [kind |-> "footer", len |-> SST_FOOTER_SIZE,
                 blockmeta_offset |-> metaStart, bloom_offset |-> bloomStart,
                 checksum |-> withBloom.hasher \o
                                <<OffsetBytes(metaStart), OffsetBytes(bloomStart)>>]
  IN IF last.out # "ok" THEN last
     ELSE IF last.w.first_key = <<>> THEN [out |-> "FinalizeMissingKeys", w |-> last.w]
     ELSE IF "bloom" \in Unfinished THEN [out |-> "panic", w |-> withMetas]
     ELSE [out |-> "ok", w |-> [withBloom EXCEPT !.file = Append(@, footer)]]

-----------------------------------------------------------------------------
(* SstHandle: what finalize_file keeps of the writer, or open_file_handle    *)
(* reads back.                                                               *)
Handle(file, metas, metaStart, bloom) ==
  [file |-> file, block_metadata |-> metas,
   block_metadata_start_offset |-> metaStart, bloom |-> bloom]

finalize_file(w) == Handle(w.file, w.block_meta, w.block_bytes_written, w.bloom)

\* BlockMetadata::decode_metas and the bloom filter's decode.
decode_metas(seg) == IF seg.kind = "metas" THEN <<seg.metas>> ELSE <<>>
decode_bloom(seg) == IF seg.kind = "bloom" THEN <<seg.bloom>> ELSE <<>>

(* open_file_handle of a file finalize has completed: an error, or "ok" and  *)
(* the handle.  Its hasher sees the metadata and the bloom filter only, so   *)
(* that the checksum of a finished file never agrees.                        *)
open_file_handle(file) ==
  LET fsize == FileLen(file)
      footer == ReadAt(file, fsize - SST_FOOTER_SIZE, fsize)
      metaSeg == ReadAt(file, footer.blockmeta_offset, footer.bloom_offset)
      bloomSeg == ReadAt(file, footer.bloom_offset, fsize - SST_FOOTER_SIZE)
      metas == decode_metas(metaSeg)
      bloom == decode_bloom(bloomSeg)
  IN IF fsize < SST_FOOTER_SIZE \/ fsize > MaxSstSize THEN [out |-> "size"]
     ELSE IF \/ footer.blockmeta_offset > fsize
             \/ footer.bloom_offset > fsize
             \/ footer.blockmeta_offset >= footer.bloom_offset THEN [out |-> "offsets"]
     ELSE IF metas = <<>> \/ bloom = <<>> THEN [out |-> "decode"]
     ELSE IF footer.checksum # <<metaSeg, bloomSeg>> THEN [out |-> "checksum"]
     ELSE [out |-> "ok",
           handle |-> Handle(file, metas[1], footer.blockmeta_offset, bloom[1])]

(* read_block: a block ends where the next one or the metadata starts.       *)
read_block(h, idx) ==
  LET metas == h.block_metadata
      end == IF idx = Len(metas) - 1 THEN h.block_metadata_start_offset
                                     ELSE metas[idx + 2].offset
      seg == ReadAt(h.file, metas[idx + 1].offset, end)
  IN IF idx < Len(metas) /\ seg.kind = "block" THEN decode_block(seg.block) ELSE <<>>

(* block_idx_for_stream_id: binary_search_by_key may return any of several   *)
(* blocks that end in the stream; without one it gives the insertion point,  *)
(* which may be past the last block.  Empty: StreamIdNotFound.               *)
block_idx_for_stream_id(h, stream) ==
  LET Ends(i) == h.block_metadata[i].last_key.stream_id
      hits == {i \in DOMAIN h.block_metadata : Ends(i) = stream}
      below == {i \in DOMAIN h.block_metadata : Ends(i) < stream}
  IN IF ~may_contain(h.bloom, stream) THEN {}
     ELSE IF hits # {} THEN {i - 1 : i \in hits}
     ELSE {Cardinality(below)}

-----------------------------------------------------------------------------
(* SstCursor.  A bound is a kind and a key.  A cursor whose block_cursor is  *)
(* an Err is not ok and has no record.                                       *)
Unbounded == [kind |-> "Unbounded"]
Included(k) == [kind |-> "Included", key |-> k]
Excluded(k) == [kind |-> "Excluded", key |-> k]

NoCursor == [ok |-> FALSE]

\* update_current: the first record of block idx.
cursor_at(h, idx) ==
  LET block == read_block(h, idx)
  IN IF block = <<>> THEN NoCursor
                     ELSE [ok |-> TRUE, block_idx |-> idx, bc |-> block_at(block[1], 0)]

\* new, the start block being one block_idx_for_stream_id may give.
cursor_new(h, start, idx) ==
  LET c == cursor_at(h, idx)
      found == block_seek(c.bc, start.key)
      past == found.record # <<>> /\ found.record[1].key = start.key
  IN IF ~c.ok \/ start.kind = "Unbounded" THEN c
     ELSE [c EXCEPT !.bc = IF start.kind = "Excluded" /\ past THEN block_next(found) ELSE found]

\* The blocks new may start at.
StartBlocks(h, start) ==
  IF start.kind = "Unbounded" THEN {0} ELSE block_idx_for_stream_id(h, start.key.stream_id)

\* Mutant of next_block_may_be_in_bounds: a block that starts with the last key
\* of the range is not opened.
next_block_may_be_in_boundsStrict(h, idx, end) ==
  /\ idx < Len(h.block_metadata)
  /\ end.kind = "Unbounded" \/ KeyLess(h.block_metadata[idx + 1].first_key, end.key)

next_block_may_be_in_bounds(h, idx, end) ==
  /\ idx < Len(h.block_metadata)
  /\ LET first == h.block_metadata[idx + 1].first_key
     IN CASE end.kind = "Included" -> KeyLeq(first, end.key)
          [] end.kind = "Excluded" -> KeyLess(first, end.key)
          [] OTHER -> TRUE

(* next: within the block, else the first record of the next block, which is *)
(* not opened when it starts after the end bound.                            *)
cursor_next(h, c, end) ==
  LET inner == block_next(c.bc)
      idx == c.block_idx + 1
  IN IF ~c.ok THEN c
     ELSE IF inner.record # <<>> THEN [c EXCEPT !.bc = inner]
     ELSE IF next_block_may_be_in_bounds(h, idx, end) THEN cursor_at(h, idx)
     ELSE NoCursor

(* The blocks seek may open.  It compares the wrong way around: with one     *)
(* block a key before it gives index 1, with several the search is           *)
(* unspecified.                                                              *)
SeekBlocks(h, key) ==
  IF Len(h.block_metadata) > 1 THEN 0..Len(h.block_metadata)
  ELSE IF KeyLess(key, h.block_metadata[1].first_key) THEN {1} ELSE {0}

cursor_seek(h, key, idx) ==
  LET c == cursor_at(h, idx)
  IN IF c.ok THEN [c EXCEPT !.bc = block_seek(@, key)] ELSE c

cursor_record(c) == IF c.ok THEN c.bc.record ELSE <<>>

\* take_current.
cursor_take(c) == IF c.ok THEN [c EXCEPT !.bc = block_take(@)] ELSE c
=============================================================================
