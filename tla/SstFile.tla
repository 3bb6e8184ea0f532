------------------------------- MODULE SstFile ------------------------------
(***************************************************************************)
(* The life of one table: records written in the order of their keys, as   *)
(* flush_memtable writes them, finalize_file, open_path on the finished    *)
(* file, and cursors over the handle.                                      *)
(***************************************************************************)
EXTENDS SstTable, FiniteSets

CONSTANTS
  Input,        \* the records that may be written
  BlockLimits,  \* the block limits a table may be configured with
  Probes        \* the keys cursors are bounded with or seek

ASSUME InputAssumption == Input \subseteq [key : Key, len : Nat] /\ Probes \subseteq Key

VARIABLES
  w,            \* the writer
  phase,        \* "writing", "done", "failed" (an error) or "panicked"
  written,      \* the records write has accepted, in order
  handle,       \* what finalize_file returned
  opened,       \* the outcome of open_path on the file: "no" before
  cursor,       \* the cursor
  origin,       \* how it got where its scan began: "none", "new" or "seek"
  start, end,   \* where its scan began, and its end bound
  seen          \* the records the cursor has stood on since new or a seek

vars == <<w, phase, written, handle, opened, cursor, origin, start, end, seen>>

NoHandle == <<>>

Init ==
  /\ w \in {writer_new(limit) : limit \in BlockLimits}
  /\ phase = "writing"
  /\ written = <<>>
  /\ handle = NoHandle
  /\ opened = "no"
  /\ cursor = NoCursor /\ origin = "none"
  /\ start = Unbounded /\ end = Unbounded
  /\ seen = <<>>

\* What is left of a writer after the outcome of a call: `?` returns an error.
PhaseAfter(out) ==
  IF out = "ok" THEN "writing" ELSE IF out = "panic" THEN "panicked" ELSE "failed"

Write(r) ==
  /\ phase = "writing"
  /\ written # <<>> => KeyLess(Last(written).key, r.key)
  /\ w' = write(w, r).w
  /\ phase' = PhaseAfter(write(w, r).out)
  /\ written' = IF phase' = "writing" THEN Append(written, r) ELSE written
  /\ UNCHANGED <<handle, opened, cursor, origin, start, end, seen>>

Finalize ==
  /\ phase = "writing"
  /\ LET done == finalize(w)
     IN /\ w' = done.w
        /\ phase' = IF done.out = "ok" THEN "done" ELSE PhaseAfter(done.out)
        /\ handle' = IF done.out = "ok" THEN finalize_file(done.w) ELSE NoHandle
  /\ UNCHANGED <<written, opened, cursor, origin, start, end, seen>>

OpenPath ==
  /\ phase = "done"
  /\ opened = "no"
  /\ opened' = open_file_handle(w.file).out
  /\ UNCHANGED <<w, phase, written, handle, cursor, origin, start, end, seen>>

Bounds ==
  {Unbounded} \cup {Included(k) : k \in Probes} \cup {Excluded(k) : k \in Probes}

\* SstHandle::cursor, with the block its search ends in.  Cursors share only
\* the immutable handle: one of them is enough.
NewCursor(from, to) ==
  /\ phase = "done"
  /\ origin = "none"
  /\ \E idx \in StartBlocks(handle, from) :
       /\ cursor' = cursor_new(handle, from, idx)
       /\ seen' = cursor_record(cursor')
  /\ origin' = "new" /\ start' = from /\ end' = to
  /\ UNCHANGED <<w, phase, written, handle, opened>>

CursorNext ==
  /\ cursor.ok
  /\ cursor' = cursor_next(handle, cursor, end)
  /\ seen' = seen \o cursor_record(cursor')
  /\ UNCHANGED <<w, phase, written, handle, opened, origin, start, end>>

\* The public seek and seek_to_first; the end bound stays.
CursorSeek(key) ==
  /\ origin # "none"
  /\ \E idx \in SeekBlocks(handle, key) : cursor' = cursor_seek(handle, key, idx)
  /\ origin' = "seek" /\ start' = Included(key)
  /\ seen' = cursor_record(cursor')
  /\ UNCHANGED <<w, phase, written, handle, opened, end>>

CursorSeekToFirst ==
  /\ origin # "none"
  /\ cursor' = cursor_at(handle, 0)
  /\ origin' = "new" /\ start' = Unbounded
  /\ seen' = cursor_record(cursor')
  /\ UNCHANGED <<w, phase, written, handle, opened, end>>

Next ==
  \/ \E r \in Input : Write(r)
  \/ Finalize
  \/ OpenPath
  \/ \E from \in Bounds, to \in Bounds : NewCursor(from, to)
  \/ CursorNext
  \/ \E key \in Probes : CursorSeek(key)
  \/ CursorSeekToFirst

Spec == Init /\ [][Next]_vars

-----------------------------------------------------------------------------
\* The blocks in the file so far: as many as there are metadata entries.
Blocks == SubSeq(w.file, 1, Len(w.block_meta))

(* Layout: whatever the sizes of the records and wherever blocks are cut,    *)
(* the records write accepted are those of the blocks in the file followed   *)
(* by those of the block being filled; the blocks are the first segments of  *)
(* the file, and for each of them flush_blocks kept a metadata entry that    *)
(* names the byte it really starts at and its real first and last key.       *)
TableLayout ==
  phase \in {"writing", "done"} =>
    /\ FlattenSeq([i \in DOMAIN Blocks |-> Blocks[i].block.data]) \o w.bw.buffer = written
    /\ {i \in DOMAIN w.file : w.file[i].kind = "block"} = DOMAIN w.block_meta
    /\ \A i \in DOMAIN Blocks :
         LET data == Blocks[i].block.data
         IN w.block_meta[i] = [offset |-> StartOf(w.file, i),
                               first_key |-> data[1].key, last_key |-> Last(data).key]

(* Reading back: read_block with the offsets of a finished table decodes     *)
(* every block, together they hold what was written, and the bloom filter    *)
(* misses no stream of the table.                                            *)
ReadsBack ==
  phase = "done" =>
    LET blocks == [i \in DOMAIN handle.block_metadata |-> read_block(handle, i - 1)]
    IN /\ \A i \in DOMAIN blocks : blocks[i] # <<>>
       /\ FlattenSeq([i \in DOMAIN blocks |-> blocks[i][1].data]) = written
       /\ \A i \in DOMAIN written : may_contain(handle.bloom, written[i].key.stream_id)

AfterStart(k) ==
  CASE start.kind = "Included" -> KeyLeq(start.key, k)
    [] start.kind = "Excluded" -> KeyLess(start.key, k)
    [] OTHER -> TRUE

BeforeEnd(k) ==
  CASE end.kind = "Included" -> KeyLeq(k, end.key)
    [] end.kind = "Excluded" -> KeyLess(k, end.key)
    [] OTHER -> TRUE

\* The cursor has passed the records after the first n, one after the other, and
\* stops only when those left are past the end bound.
Passed(n) ==
  /\ n + Len(seen) <= Len(written)
  /\ \A i \in DOMAIN seen : seen[i] = written[n + i]
  /\ ~cursor.ok => \A i \in (n + Len(seen) + 1)..Len(written) : ~BeforeEnd(written[i].key)

\* Where a block ends in the start stream a scan reads on after its last key, be
\* it before the start.
Follows(k) ==
  /\ start.kind # "Unbounded"
  /\ \E i \in DOMAIN handle.block_metadata :
       /\ handle.block_metadata[i].last_key.stream_id = start.key.stream_id
       /\ KeyLess(handle.block_metadata[i].last_key, k)

(* A scan misses nothing: calling next until the cursor is an error visits   *)
(* every record of the range once and in order, across blocks, for every     *)
(* kind of bound.  It may visit more: where the block found by the stream    *)
(* ends before the start, the next one is read from its first record.  The   *)
(* one exception is a start stream that several blocks end in: the search    *)
(* may then begin in a later one of them.                                    *)
ScanCovers ==
  /\ origin = "new"
  /\ start.kind # "Unbounded" =>
       Cardinality(block_idx_for_stream_id(handle, start.key.stream_id)) <= 1
  => \E n \in 0..Len(written) :
       /\ Passed(n)
       /\ \A i \in DOMAIN written :
            n < i <=> AfterStart(written[i].key) \/ Follows(written[i].key)

(* Seeking: in a table of one block, seek to a key that is not before the    *)
(* first one stands on the first record at or after it, and next goes on     *)
(* from there.                                                               *)
SeekLands ==
  /\ origin = "seek"
  /\ Len(handle.block_metadata) = 1
  /\ KeyLeq(handle.block_metadata[1].first_key, start.key)
  => \E n \in 0..Len(written) :
       Passed(n) /\ \A i \in DOMAIN written : n < i <=> AfterStart(written[i].key)
=============================================================================
