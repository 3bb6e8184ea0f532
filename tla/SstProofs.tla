----------------------------- MODULE SstProofs -----------------------------
(***************************************************************************)
(* Proof that a finished SSTable is laid out as its metadata says, that    *)
(* its blocks give back the records written, and that a cursor over them   *)
(* misses none of its range: for any records and any block size limit.     *)
(***************************************************************************)
EXTENDS SstFile, TableProofs

\* What a table's writer and its finished file hold.
Finished ==
  \E u : /\ WriterOK(u) /\ Contents(u) = written /\ u.bw.buffer = <<>>
         /\ Closed(u, w) /\ handle = finalize_file(w)

FileInv ==
  /\ phase = "writing" => WriterOK(w) /\ Contents(w) = written
  /\ phase = "done" => Finished

LEMMA FileInit == Init => FileInv
<1> SUFFICES ASSUME Init PROVE FileInv
  OBVIOUS
<1>1. PICK limit \in BlockLimits : w = writer_new(limit)
  BY DEF Init
<1>2. WriterOK(w) /\ Contents(w) = <<>>
  BY <1>1, NewWriter, Zenon
<1>3. phase = "writing" /\ written = <<>>
  BY DEF Init
<1> QED
  BY <1>2, <1>3 DEF FileInv

LEMMA FileWrite ==
  ASSUME FileInv, NEW r \in Input, Write(r)
  PROVE  FileInv'
<1>1. /\ phase = "writing" /\ w' = write(w, r).w /\ phase' = PhaseAfter(write(w, r).out)
      /\ written' = IF phase' = "writing" THEN Append(written, r) ELSE written
  BY DEF Write
<1>2. phase' # "done"
  BY <1>1 DEF PhaseAfter
<1>3. ASSUME phase' = "writing" PROVE WriterOK(w') /\ Contents(w') = written'
  <2>1. write(w, r).out = "ok"
    BY <1>1, <1>3 DEF PhaseAfter
  <2>2. r \in TableRecord
    BY InputAssumption DEF TableRecord
  <2>3. WriterOK(w) /\ Contents(w) = written
    BY <1>1, Zenon DEF FileInv
  <2>4. WriterOK(write(w, r).w) /\ Contents(write(w, r).w) = Append(Contents(w), r)
    BY <2>1, <2>2, <2>3, WriteRecord, Zenon
  <2>5. written' = Append(written, r)
    BY <1>1, <1>3
  <2> QED
    BY <1>1, <2>3, <2>4, <2>5, Zenon
<1>4. phase' = "writing" => WriterOK(w)' /\ Contents(w)' = written'
  BY <1>3
<1> QED
  BY <1>2, <1>4 DEF FileInv

LEMMA FileFinalize ==
  ASSUME FileInv, Finalize
  PROVE  FileInv'
<1>1. PICK done : done = finalize(w)
  OBVIOUS
<1>2. /\ phase = "writing" /\ w' = done.w /\ written' = written
      /\ phase' = IF done.out = "ok" THEN "done" ELSE PhaseAfter(done.out)
      /\ handle' = IF done.out = "ok" THEN finalize_file(done.w) ELSE NoHandle
  BY <1>1, Zenon DEF Finalize
<1>3. phase' # "writing"
  BY <1>2 DEF PhaseAfter
<1>4. ASSUME phase' = "done" PROVE Finished'
  <2>1. done.out = "ok"
    BY <1>2, <1>4 DEF PhaseAfter
  <2>2. w' = done.w /\ handle' = finalize_file(w')
    BY <1>2, <2>1
  <2>3. WriterOK(w) /\ Contents(w) = written
    BY <1>2, Zenon DEF FileInv
  <2>4. PICK u : WriterOK(u) /\ Contents(u) = Contents(w) /\ u.bw.buffer = <<>> /\ Closed(u, finalize(w).w)
    BY <1>1, <2>1, <2>3, FinalizeWriter, Zenon
  <2>5. WriterOK(u) /\ Contents(u) = written' /\ u.bw.buffer = <<>> /\ Closed(u, w')
        /\ handle' = finalize_file(w')
    BY <1>1, <1>2, <2>2, <2>3, <2>4, Zenon
  <2> QED
    BY <2>5 DEF Finished
<1> QED
  BY <1>3, <1>4 DEF FileInv

LEMMA FileKept ==
  ASSUME FileInv, UNCHANGED <<w, phase, written, handle>>
  PROVE  FileInv'
BY DEF FileInv, Finished

LEMMA FileStep == FileInv /\ [Next]_vars => FileInv'
<1> SUFFICES ASSUME FileInv, [Next]_vars PROVE FileInv'
  OBVIOUS
<1>1. CASE \E r \in Input : Write(r)
  BY <1>1, FileWrite, Zenon
<1>2. CASE Finalize
  BY <1>2, FileFinalize, Zenon
<1>3. CASE OpenPath
  BY <1>3, FileKept, Zenon DEF OpenPath
<1>4. CASE \E from \in Bounds, to \in Bounds : NewCursor(from, to)
  BY <1>4, FileKept, Zenon DEF NewCursor
<1>5. CASE CursorNext
  BY <1>5, FileKept, Zenon DEF CursorNext
<1>6. CASE \E key \in Probes : CursorSeek(key)
  BY <1>6, FileKept, Zenon DEF CursorSeek
<1>7. CASE CursorSeekToFirst
  BY <1>7, FileKept, Zenon DEF CursorSeekToFirst
<1>8. CASE UNCHANGED vars
  BY <1>8, FileKept DEF vars
<1> QED
  BY <1>1, <1>2, <1>3, <1>4, <1>5, <1>6, <1>7, <1>8, Zenon DEF Next

\* The metadata ms names the blocks f of the file g.
Described(g, ms, f) ==
  /\ SubSeq(g, 1, Len(ms)) = f
  /\ {i \in DOMAIN g : g[i].kind = "block"} = DOMAIN ms
  /\ DOMAIN f = DOMAIN ms
  /\ \A i \in DOMAIN f : ms[i] = [offset |-> StartOf(g, i), first_key |-> f[i].block.data[1].key,
                                  last_key |-> Last(f[i].block.data).key]

\* The blocks of a file, with and without its tail.
LEMMA BlockPrefix ==
  ASSUME NEW f, NEW ms, NEW n, Laid(f, ms, n), NEW g, NEW k \in Nat, Tailed(f, g, k)
  PROVE  Described(g, ms, f)
<1>1. /\ Segments(f) /\ (\A i \in 1 .. Len(f) : BlockSeg(f[i])) /\ ms \in Seq(Range(ms)) /\ Len(ms) = Len(f)
      /\ (\A i \in 1 .. Len(f) : ms[i] = MetaOf(f[i], StartOf(f, i)))
  BY Zenon DEF Laid
<1>2. /\ Segments(g) /\ Len(g) = Len(f) + k /\ (\A i \in 1 .. Len(f) : g[i] = f[i])
      /\ \A i \in (Len(f) + 1) .. (Len(f) + k) : g[i].kind # "block"
  BY Zenon DEF Tailed
<1>3. PICK l \in Nat : l = Len(f)
  BY <1>1, SegmentLens
<1>4. DOMAIN f = 1 .. l /\ DOMAIN g = 1 .. (l + k) /\ Len(g) = l + k /\ DOMAIN ms = 1 .. l /\ Len(ms) = l
  BY <1>1, <1>2, <1>3, SegmentLens
<1>5. SubSeq(g, 1, Len(ms)) = f
  <2>1. f \in Seq(Range(g)) /\ g \in Seq(Range(g))
    <3>1. g \in Seq(Range(g)) /\ f \in Seq(Range(f))
      BY <1>1, <1>2 DEF Segments
    <3>2. \A i \in 1 .. l : i \in DOMAIN g
      BY <1>4
    <3>3. \A i \in 1 .. l : f[i] \in Range(g)
      BY <1>2, <1>3, <3>2 DEF Range
    <3> QED
      BY <1>3, <3>1, <3>3
  <2>2. PICK s \in Seq(Range(g)) : s = SubSeq(g, 1, l)
    <3>1. SubSeq(g, 1, l) \in Seq(Range(g))
      BY <1>4, <2>1
    <3> QED
      BY <3>1, Zenon
  <2>3. Len(s) = l /\ \A i \in 1 .. l : s[i] = g[i]
    BY <1>4, <2>1, <2>2
  <2>4. \A i \in 1 .. l : s[i] = f[i]
    BY <1>2, <1>3, <2>3, Zenon
  <2>5. s = f
    BY <1>3, <2>1, <2>3, <2>4
  <2> QED
    BY <1>4, <2>2, <2>5, Zenon
<1>6. {i \in DOMAIN g : g[i].kind = "block"} = DOMAIN ms
  <2>1. \A i \in 1 .. l : g[i].kind = "block"
    BY <1>1, <1>2, <1>3, Zenon DEF BlockSeg
  <2>2. \A i \in 1 .. (l + k) : i \in 1 .. l \/ i \in (l + 1) .. (l + k)
    OBVIOUS
  <2>3. \A i \in 1 .. l : i \in 1 .. (l + k)
    OBVIOUS
  <2>4. \A i : i \in {j \in 1 .. (l + k) : g[j].kind = "block"} <=> i \in 1 .. l
    BY <1>2, <1>3, <2>1, <2>2, <2>3, Zenon
  <2> QED
    BY <1>4, <2>4
<1>7. ASSUME NEW i \in DOMAIN f
      PROVE  ms[i] = [offset |-> StartOf(g, i), first_key |-> f[i].block.data[1].key,
                      last_key |-> Last(f[i].block.data).key]
  <2>1. i \in 1 .. Len(f) /\ i \in 1 .. (Len(f) + 1) /\ Len(f) <= Len(g)
    BY <1>3, <1>4
  <2>2. StartOf(g, i) = StartOf(f, i)
    BY <1>1, <1>2, <2>1, StartOfKept
  <2> QED
    BY <1>1, <2>1, <2>2, Zenon DEF MetaOf, Last
<1> QED
  BY <1>4, <1>5, <1>6, <1>7, Zenon DEF Described

\* The layout of a file with and without its tail.
LEMMA LaidLayout ==
  ASSUME NEW u, WriterOK(u), NEW k \in Nat, Tailed(u.file, w.file, k),
         w.bw = u.bw, w.block_meta = u.block_meta, Contents(u) = written
  PROVE  TableLayout
<1>1. PICK f, ms, n, g : f = u.file /\ ms = u.block_meta /\ n = u.block_bytes_written /\ g = w.file
  OBVIOUS
<1>2. Laid(f, ms, n) /\ Tailed(f, g, k)
  BY <1>1, Zenon DEF WriterOK
<1>3. Described(g, ms, f)
  BY <1>2, BlockPrefix, Zenon
<1>4. Blocks = f
  BY <1>1, <1>3, Zenon DEF Blocks, Described
<1>5. FlattenSeq([i \in DOMAIN f |-> f[i].block.data]) \o w.bw.buffer = written
  BY <1>1, Zenon DEF Contents, DataOf
<1> QED
  BY <1>1, <1>3, <1>4, <1>5, Zenon DEF TableLayout, Described

LEMMA LayoutHolds == FileInv => TableLayout
<1> SUFFICES ASSUME FileInv PROVE TableLayout
  OBVIOUS
<1>1. CASE phase = "writing"
  <2>1. WriterOK(w) /\ Contents(w) = written
    BY <1>1, Zenon DEF FileInv
  <2>2. PICK f : f = w.file /\ Segments(f)
    BY <2>1, Zenon DEF WriterOK, Laid
  <2>3. PICK k \in Nat : k = 0
    OBVIOUS
  <2>4. Len(f) \in Nat
    BY <2>2, SegmentLens
  <2>5. Tailed(f, f, k)
    BY <2>2, <2>3, <2>4 DEF Tailed
  <2> QED
    BY <2>1, <2>2, <2>5, LaidLayout, Zenon
<1>2. CASE phase = "done"
  <2>1. PICK u : /\ WriterOK(u) /\ Contents(u) = written /\ u.bw.buffer = <<>>
                 /\ Closed(u, w) /\ handle = finalize_file(w)
    BY <1>2, Zenon DEF FileInv, Finished
  <2>2. PICK k \in Nat : k = 3
    OBVIOUS
  <2>3. Tailed(u.file, w.file, k) /\ w.bw = u.bw /\ w.block_meta = u.block_meta
    BY <2>1, <2>2, Zenon DEF Closed, Tailed, WriterOK, Laid
  <2> QED
    BY <2>1, <2>3, LaidLayout, Zenon
<1>3. CASE phase \notin {"writing", "done"}
  BY <1>3 DEF TableLayout
<1> QED
  BY <1>1, <1>2, <1>3

LEMMA ReadsBackHolds == FileInv => ReadsBack
<1> SUFFICES ASSUME FileInv, phase = "done" PROVE ReadsBack
  BY DEF ReadsBack
<1>1. PICK u : /\ WriterOK(u) /\ Contents(u) = written /\ u.bw.buffer = <<>>
               /\ Closed(u, w) /\ handle = finalize_file(w)
  BY Zenon DEF FileInv, Finished
<1>2. /\ handle.block_metadata = u.block_meta /\ handle.bloom = u.bloom
      /\ DOMAIN handle.block_metadata = 1 .. Len(u.file) /\ Len(u.file) \in Nat
      /\ \A i \in 1 .. Len(u.file) : read_block(handle, i - 1) = <<u.file[i].block>>
  BY <1>1, ReadBlocks
<1> DEFINE blocks == [i \in DOMAIN handle.block_metadata |-> read_block(handle, i - 1)]
<1>3. DOMAIN blocks = 1 .. Len(u.file) /\ \A i \in 1 .. Len(u.file) : blocks[i] = <<u.file[i].block>>
  BY <1>2
<1> HIDE DEF blocks
<1>4. \A i \in DOMAIN blocks : blocks[i] # <<>>
  <2>1. \A b : <<b>> # <<>>
    OBVIOUS
  <2> QED
    BY <1>3, <2>1, Zenon
<1>5. PICK f : f = u.file
  OBVIOUS
<1>6. DOMAIN f = 1 .. Len(f)
  BY <1>1, <1>5, SegmentLens, Zenon DEF WriterOK, Laid
<1>7. [i \in DOMAIN blocks |-> blocks[i][1].data] = DataOf(f)
  <2>1. \A i \in 1 .. Len(f) : blocks[i][1] = f[i].block
    BY <1>3, <1>5
  <2>2. DOMAIN blocks = DOMAIN f
    BY <1>3, <1>5, <1>6, Zenon
  <2>3. \A i \in DOMAIN f : blocks[i][1].data = f[i].block.data
    BY <1>6, <2>1, Zenon
  <2> QED
    BY <2>2, <2>3, Zenon DEF DataOf
<1>8. FlattenSeq(DataOf(f)) = written
  <2>1. PICK x \in Seq(TableRecord) : x = FlattenSeq(DataOf(u.file))
    BY <1>1, ContentsSeq, Zenon
  <2>2. written = x \o <<>>
    BY <1>1, <2>1, Zenon DEF Contents
  <2>3. x \o <<>> = x
    OBVIOUS
  <2> QED
    BY <1>5, <2>1, <2>2, <2>3, Zenon
<1>9. \A i \in DOMAIN written : may_contain(handle.bloom, written[i].key.stream_id)
  BY <1>1, <1>2, Zenon DEF WriterOK, Known
<1>10. FlattenSeq([i \in DOMAIN blocks |-> blocks[i][1].data]) = written
  BY <1>7, <1>8, Zenon
<1> QED
  BY <1>4, <1>9, <1>10, Zenon DEF ReadsBack, blocks

\* At every step of the writer the file is laid out as its metadata says: the
\* blocks are its first segments, each at the offset and with the first and last
\* key that flush_blocks kept, and with the block being filled they hold what
\* write accepted, whatever the records and the block size limit.
THEOREM TableLayoutTheorem == Spec => []TableLayout
<1>1. Init => FileInv
  BY FileInit
<1>2. FileInv /\ [Next]_vars => FileInv'
  BY FileStep
<1>3. FileInv => TableLayout
  BY LayoutHolds
<1> QED
  BY <1>1, <1>2, <1>3, PTL DEF Spec

\* The blocks of a finished table are all readable and give back the records
\* written, in the order of the writes, and its bloom filter knows their streams.
THEOREM ReadsBackTheorem == Spec => []ReadsBack
<1>1. Init => FileInv
  BY FileInit
<1>2. FileInv /\ [Next]_vars => FileInv'
  BY FileStep
<1>3. FileInv => ReadsBack
  BY ReadsBackHolds
<1> QED
  BY <1>1, <1>2, <1>3, PTL DEF Spec
-----------------------------------------------------------------------------
(* Cursors.                                                                  *)

\* The condition of ScanCovers.
OneStart ==
  start.kind # "Unbounded" =>
    Cardinality(block_idx_for_stream_id(handle, start.key.stream_id)) <= 1

\* The condition of SeekLands.
SeekStart ==
  Len(handle.block_metadata) = 1 /\ KeyLeq(handle.block_metadata[1].first_key, start.key)

\* The scan began behind the records before the start.
NewScan(o, n) ==
  /\ Table(handle, written, o) /\ Scanned(handle, written, o, cursor, seen, n, end)
  /\ \A i \in 1 .. Len(written) :
       n < i <=> After(start, written[i].key) \/ Beyond(handle, start, written[i].key)

\* The same after a seek.
SeekScan(o, n) ==
  /\ Table(handle, written, o) /\ Scanned(handle, written, o, cursor, seen, n, end)
  /\ \A i \in 1 .. Len(written) : n < i <=> After(start, written[i].key)

\* Written in order; and a cursor, once there is one, has passed a run of the
\* records that begins at its start.
CursorInv ==
  /\ written \in Seq(TableRecord) /\ Ordered(written)
  /\ phase # "done" => origin = "none"
  /\ origin = "none" => cursor = NoCursor
  /\ end = Unbounded \/ Bounded(end)
  /\ origin = "new" /\ OneStart => \E o, n : NewScan(o, n)
  /\ origin = "seek" /\ SeekStart => \E o, n : SeekScan(o, n)

LEMMA CursorInit == Init => CursorInv
<1> SUFFICES ASSUME Init PROVE CursorInv
  OBVIOUS
<1>1. written = <<>> /\ origin = "none" /\ cursor = NoCursor /\ end = Unbounded
  BY DEF Init
<1>2. written \in Seq(TableRecord) /\ Len(written) = 0
  BY <1>1
<1>3. Ordered(written)
  BY <1>2 DEF Ordered
<1> QED
  BY <1>1, <1>2, <1>3 DEF CursorInv

\* Records appended in order stay in order.
LEMMA AppendOrdered ==
  ASSUME NEW s \in Seq(TableRecord), Ordered(s), NEW r \in TableRecord, s # <<>> => KeyLess(Last(s).key, r.key)
  PROVE  Append(s, r) \in Seq(TableRecord) /\ Ordered(Append(s, r))
<1>1. PICK t : t = Append(s, r)
  OBVIOUS
<1>2. /\ t \in Seq(TableRecord) /\ Len(t) = Len(s) + 1 /\ Len(s) \in Nat /\ t[Len(s) + 1] = r
      /\ \A i \in 1 .. Len(s) : t[i] = s[i]
  BY <1>1
<1>3. r.key \in Key /\ \A i \in 1 .. Len(s) : s[i].key \in Key
  <2>1. \A x \in TableRecord : x.key \in Key
    BY DEF TableRecord
  <2>2. \A i \in 1 .. Len(s) : s[i] \in TableRecord
    OBVIOUS
  <2> QED
    BY <2>1, <2>2
<1>4. ASSUME NEW i \in 1 .. Len(t), NEW j \in 1 .. Len(t), i < j PROVE KeyLess(t[i].key, t[j].key)
  <2>1. i \in 1 .. Len(s) /\ t[i] = s[i]
    BY <1>2, <1>4
  <2>2. CASE j \in 1 .. Len(s)
    BY <1>2, <1>4, <2>1, <2>2, Zenon DEF Ordered
  <2>3. CASE j = Len(s) + 1
    <3>1. s # <<>> /\ Len(s) \in 1 .. Len(s)
      BY <2>1
    <3>2. KeyLess(s[Len(s)].key, r.key)
      BY <3>1 DEF Last
    <3>3. i = Len(s) \/ i < Len(s)
      BY <2>1
    <3>4. i = Len(s) \/ KeyLess(s[i].key, s[Len(s)].key)
      BY <2>1, <3>1, <3>3, Zenon DEF Ordered
    <3>5. PICK x \in Key, y \in Key, z \in Key : x = s[i].key /\ y = s[Len(s)].key /\ z = r.key
      BY <1>3, <2>1, <3>1
    <3>6. KeyLess(y, z) /\ (x = y \/ KeyLess(x, y))
      BY <3>2, <3>4, <3>5, Zenon
    <3>7. KeyLess(x, z)
      BY <3>6, KeyTotal, Zenon
    <3> QED
      BY <1>2, <2>1, <2>3, <3>5, <3>7, Zenon
  <2> QED
    BY <1>2, <2>2, <2>3
<1> QED
  BY <1>1, <1>2, <1>4, Zenon DEF Ordered

LEMMA CursorWrite ==
  ASSUME CursorInv, NEW r \in Input, Write(r)
  PROVE  CursorInv'
<1>1. /\ phase = "writing" /\ phase' = PhaseAfter(write(w, r).out)
      /\ written # <<>> => KeyLess(Last(written).key, r.key)
      /\ written' = IF phase' = "writing" THEN Append(written, r) ELSE written
      /\ UNCHANGED <<cursor, origin, end>>
  BY DEF Write
<1>2. written \in Seq(TableRecord) /\ Ordered(written) /\ origin = "none" /\ cursor = NoCursor
  BY <1>1 DEF CursorInv
<1>3. r \in TableRecord
  BY InputAssumption DEF TableRecord
<1>4. Append(written, r) \in Seq(TableRecord) /\ Ordered(Append(written, r))
  BY <1>1, <1>2, <1>3, AppendOrdered, Zenon
<1>5. written' \in Seq(TableRecord) /\ Ordered(written')
  BY <1>1, <1>2, <1>4, Zenon
<1>6. (end = Unbounded \/ Bounded(end))'
  BY <1>1 DEF CursorInv, Bounded, Unbounded
<1>7. Ordered(written)'
  BY <1>5
<1> QED
  BY <1>1, <1>2, <1>5, <1>6, <1>7 DEF CursorInv

LEMMA CursorFinalize ==
  ASSUME CursorInv, Finalize
  PROVE  CursorInv'
<1>1. phase = "writing" /\ UNCHANGED <<written, cursor, origin, end>>
  BY DEF Finalize
<1>2. written \in Seq(TableRecord) /\ Ordered(written) /\ origin = "none" /\ cursor = NoCursor
  BY <1>1 DEF CursorInv
<1>3. (end = Unbounded \/ Bounded(end))'
  BY <1>1 DEF CursorInv, Bounded, Unbounded
<1>4. Ordered(written)'
  BY <1>1, <1>2 DEF Ordered
<1> QED
  BY <1>1, <1>2, <1>3, <1>4 DEF CursorInv

LEMMA CursorKept ==
  ASSUME CursorInv, UNCHANGED <<phase, written, handle, cursor, origin, start, end, seen>>
  PROVE  CursorInv'
<1>1. /\ phase' = phase /\ written' = written /\ handle' = handle /\ cursor' = cursor
      /\ origin' = origin /\ start' = start /\ end' = end /\ seen' = seen
  OBVIOUS
<1>2. (OneStart' => OneStart) /\ (SeekStart' => SeekStart)
  <2>1. ASSUME OneStart' PROVE OneStart
    BY <1>1, <2>1 DEF OneStart
  <2>2. ASSUME SeekStart' PROVE SeekStart
    BY <1>1, <2>2, Zenon DEF SeekStart
  <2> QED
    BY <2>1, <2>2
<1>3. \A o, n : NewScan(o, n) => NewScan(o, n)'
  BY <1>1, Zenon DEF NewScan
<1>4. \A o, n : SeekScan(o, n) => SeekScan(o, n)'
  BY <1>1, Zenon DEF SeekScan
<1>5. /\ written' \in Seq(TableRecord) /\ Ordered(written)' /\ (phase' # "done" => origin' = "none")
      /\ (origin' = "none" => cursor' = NoCursor) /\ (end = Unbounded \/ Bounded(end))'
  BY <1>1, Zenon DEF CursorInv
<1> QED
  BY <1>1, <1>2, <1>3, <1>4, <1>5, Zenon DEF CursorInv

\* A finished table, for the cursors over it.
LEMMA FinishedTable ==
  ASSUME FileInv, CursorInv, phase = "done"
  PROVE  \E o : Table(handle, written, o)
<1>1. PICK u : /\ WriterOK(u) /\ Contents(u) = written /\ u.bw.buffer = <<>>
               /\ Closed(u, w) /\ handle = finalize_file(w)
  BY Zenon DEF FileInv, Finished
<1>2. Ordered(written)
  BY Zenon DEF CursorInv
<1> QED
  BY <1>1, <1>2, TableHolds, Zenon

LEMMA BoundKeys ==
  ASSUME NEW b \in Bounds
  PROVE  b = Unbounded \/ Bounded(b)
<1>1. CASE \E k \in Probes : b = Included(k)
  <2>1. PICK k \in Key : b = Included(k)
    BY <1>1, InputAssumption
  <2> QED
    BY <2>1 DEF Included, Bounded
<1>2. CASE \E k \in Probes : b = Excluded(k)
  <2>1. PICK k \in Key : b = Excluded(k)
    BY <1>2, InputAssumption
  <2> QED
    BY <2>1 DEF Excluded, Bounded
<1> QED
  BY <1>1, <1>2 DEF Bounds

\* SstHandle::cursor begins a scan at its start bound.
LEMMA CursorNew ==
  ASSUME FileInv, CursorInv, NEW from \in Bounds, NEW to \in Bounds, NewCursor(from, to)
  PROVE  CursorInv'
<1>1. /\ phase = "done" /\ UNCHANGED <<phase, written, handle>>
      /\ seen' = cursor_record(cursor') /\ origin' = "new" /\ start' = from /\ end' = to
  BY DEF NewCursor
<1>2. PICK idx \in StartBlocks(handle, from) : cursor' = cursor_new(handle, from, idx)
  BY Zenon DEF NewCursor
<1>3. PICK o : Table(handle, written, o)
  BY <1>1, FinishedTable, Zenon
<1>4. (from = Unbounded \/ Bounded(from)) /\ (to = Unbounded \/ Bounded(to))
  BY BoundKeys, Zenon
<1>5. ASSUME OneStart' PROVE \E n : NewScan(o, n)'
  <2>1. \E n : /\ Begun(handle, written, o, cursor', n)
               /\ \A i \in 1 .. Len(written) :
                    n < i <=> After(from, written[i].key) \/ Beyond(handle, from, written[i].key)
    <3>1. CASE from = Unbounded
      <4>1. from.kind = "Unbounded"
        BY <3>1 DEF Unbounded
      <4>2. idx = 0
        BY <1>2, <4>1 DEF StartBlocks
      <4>3. cursor' = cursor_at(handle, 0)
        BY <1>2, <4>1, <4>2, Zenon DEF cursor_new
      <4>4. Begun(handle, written, o, cursor', 0)
        BY <1>3, <4>3, FirstBegun, Zenon
      <4>5. \A k : After(from, k)
        BY <4>1 DEF After
      <4>6. \A i \in 1 .. Len(written) : 0 < i
        BY <1>3, TableKeys
      <4> QED
        BY <4>4, <4>5, <4>6, Zenon
    <3>2. CASE Bounded(from)
      <4>1. from.kind # "Unbounded"
        BY <3>2 DEF Bounded
      <4>2. Cardinality(block_idx_for_stream_id(handle, from.key.stream_id)) <= 1
        BY <1>1, <1>5, <4>1, Zenon DEF OneStart
      <4> QED
        BY <1>2, <1>3, <3>2, <4>2, NewBegun, Zenon
    <3> QED
      BY <1>4, <3>1, <3>2
  <2>2. PICK n : /\ Begun(handle, written, o, cursor', n)
                 /\ \A i \in 1 .. Len(written) :
                      n < i <=> After(from, written[i].key) \/ Beyond(handle, from, written[i].key)
    BY <2>1
  <2>3. Scanned(handle, written, o, cursor', cursor_record(cursor'), n, to)
    BY <1>3, <2>2, BegunScanned, Zenon
  <2> QED
    BY <1>1, <1>3, <2>2, <2>3, Zenon DEF NewScan
<1>6. origin' # "none" /\ origin' # "seek" /\ phase' = "done"
  BY <1>1
<1>7. written' \in Seq(TableRecord) /\ Ordered(written)'
  BY <1>1, Zenon DEF CursorInv
<1>8. (end = Unbounded \/ Bounded(end))'
  BY <1>1, <1>4, Zenon
<1> QED
  BY <1>5, <1>6, <1>7, <1>8, Zenon DEF CursorInv

LEMMA CursorSeekFirst ==
  ASSUME FileInv, CursorInv, CursorSeekToFirst
  PROVE  CursorInv'
<1>1. /\ origin # "none" /\ UNCHANGED <<phase, written, handle, end>> /\ cursor' = cursor_at(handle, 0)
      /\ seen' = cursor_record(cursor') /\ origin' = "new" /\ start' = Unbounded
  BY DEF CursorSeekToFirst
<1>2. phase = "done" /\ written \in Seq(TableRecord) /\ Ordered(written) /\ (end = Unbounded \/ Bounded(end))
  BY <1>1, Zenon DEF CursorInv
<1>3. PICK o : Table(handle, written, o)
  BY <1>2, FinishedTable, Zenon
<1>4. Begun(handle, written, o, cursor', 0)
  BY <1>1, <1>3, FirstBegun, Zenon
<1>5. Scanned(handle, written, o, cursor', cursor_record(cursor'), 0, end)
  BY <1>3, <1>4, BegunScanned, Zenon
<1>6. \A k : After(start', k)
  BY <1>1 DEF After, Unbounded
<1>7. \A i \in 1 .. Len(written) : 0 < i
  BY <1>3, TableKeys
<1>8. NewScan(o, 0)'
  BY <1>1, <1>3, <1>5, <1>6, <1>7, Zenon DEF NewScan
<1>9. origin' # "none" /\ origin' # "seek" /\ phase' = "done"
  BY <1>1, <1>2
<1>10. written' \in Seq(TableRecord) /\ Ordered(written)' /\ (end = Unbounded \/ Bounded(end))'
  BY <1>1, <1>2, Zenon
<1> QED
  BY <1>8, <1>9, <1>10, Zenon DEF CursorInv

LEMMA CursorSeekKey ==
  ASSUME FileInv, CursorInv, NEW key \in Probes, CursorSeek(key)
  PROVE  CursorInv'
<1>1. /\ origin # "none" /\ UNCHANGED <<phase, written, handle, end>>
      /\ seen' = cursor_record(cursor') /\ origin' = "seek" /\ start' = Included(key)
  BY DEF CursorSeek
<1>2. PICK idx \in SeekBlocks(handle, key) : cursor' = cursor_seek(handle, key, idx)
  BY Zenon DEF CursorSeek
<1>3. phase = "done" /\ written \in Seq(TableRecord) /\ Ordered(written) /\ (end = Unbounded \/ Bounded(end))
  BY <1>1, Zenon DEF CursorInv
<1>4. PICK o : Table(handle, written, o)
  BY <1>3, FinishedTable, Zenon
<1>5. key \in Key
  BY InputAssumption
<1>6. start'.key = key /\ \A k : After(start', k) <=> KeyLeq(key, k)
  BY <1>1 DEF After, Included
<1>7. ASSUME SeekStart' PROVE \E n : SeekScan(o, n)'
  <2>1. Len(handle.block_metadata) = 1 /\ KeyLeq(handle.block_metadata[1].first_key, key)
    BY <1>1, <1>6, <1>7, Zenon DEF SeekStart
  <2>2. PICK n : /\ Begun(handle, written, o, cursor', n)
                 /\ \A i \in 1 .. Len(written) : n < i <=> KeyLeq(key, written[i].key)
    BY <1>2, <1>4, <1>5, <2>1, SeekBegun, Zenon
  <2>3. Scanned(handle, written, o, cursor', cursor_record(cursor'), n, end)
    BY <1>4, <2>2, BegunScanned, Zenon
  <2>4. \A i \in 1 .. Len(written) : n < i <=> After(start', written[i].key)
    BY <1>6, <2>2, Zenon
  <2> QED
    BY <1>1, <1>4, <2>3, <2>4, Zenon DEF SeekScan
<1>8. origin' # "none" /\ origin' # "new" /\ phase' = "done"
  BY <1>1, <1>3
<1>9. written' \in Seq(TableRecord) /\ Ordered(written)' /\ (end = Unbounded \/ Bounded(end))'
  BY <1>1, <1>3, Zenon
<1> QED
  BY <1>7, <1>8, <1>9, Zenon DEF CursorInv

LEMMA CursorNextStep ==
  ASSUME CursorInv, CursorNext
  PROVE  CursorInv'
<1>1. /\ cursor.ok /\ UNCHANGED <<phase, written, handle, origin, start, end>>
      /\ cursor' = cursor_next(handle, cursor, end) /\ seen' = seen \o cursor_record(cursor')
  BY DEF CursorNext
<1>2. /\ written \in Seq(TableRecord) /\ Ordered(written) /\ (end = Unbounded \/ Bounded(end))
      /\ (phase # "done" => origin = "none") /\ (origin = "none" => cursor = NoCursor)
  BY Zenon DEF CursorInv
<1>3. origin # "none"
  BY <1>1, <1>2 DEF NoCursor
<1>4. ASSUME NEW o, NEW n, Table(handle, written, o), Scanned(handle, written, o, cursor, seen, n, end)
      PROVE  (Table(handle, written, o) /\ Scanned(handle, written, o, cursor, seen, n, end))'
  <2>1. Scanned(handle, written, o, cursor', seen \o cursor_record(cursor'), n, end)
    BY <1>1, <1>2, <1>4, NextScanned, Zenon
  <2> QED
    BY <1>1, <1>4, <2>1, Zenon
<1>5. ASSUME origin' = "new", OneStart' PROVE (\E o, n : NewScan(o, n))'
  <2>1. origin = "new" /\ OneStart
    BY <1>1, <1>5, Zenon DEF OneStart
  <2>2. PICK o, n : NewScan(o, n)
    BY <2>1, Zenon DEF CursorInv
  <2>3. NewScan(o, n)'
    BY <1>1, <1>4, <2>2, Zenon DEF NewScan
  <2> QED
    BY <2>3
<1>6. ASSUME origin' = "seek", SeekStart' PROVE (\E o, n : SeekScan(o, n))'
  <2>1. origin = "seek" /\ SeekStart
    BY <1>1, <1>6, Zenon DEF SeekStart
  <2>2. PICK o, n : SeekScan(o, n)
    BY <2>1, Zenon DEF CursorInv
  <2>3. SeekScan(o, n)'
    BY <1>1, <1>4, <2>2, Zenon DEF SeekScan
  <2> QED
    BY <2>3
<1>7. /\ written' \in Seq(TableRecord) /\ Ordered(written)' /\ (end = Unbounded \/ Bounded(end))'
      /\ origin' # "none" /\ (phase' # "done" => origin' = "none")
  BY <1>1, <1>2, <1>3, Zenon
<1> QED
  BY <1>5, <1>6, <1>7, Zenon DEF CursorInv

LEMMA CursorStep == FileInv /\ CursorInv /\ [Next]_vars => CursorInv'
<1> SUFFICES ASSUME FileInv, CursorInv, [Next]_vars PROVE CursorInv'
  OBVIOUS
<1>1. CASE \E r \in Input : Write(r)
  BY <1>1, CursorWrite, Zenon
<1>2. CASE Finalize
  BY <1>2, CursorFinalize, Zenon
<1>3. CASE OpenPath
  BY <1>3, CursorKept, Zenon DEF OpenPath
<1>4. CASE \E from \in Bounds, to \in Bounds : NewCursor(from, to)
  BY <1>4, CursorNew, Zenon
<1>5. CASE CursorNext
  BY <1>5, CursorNextStep, Zenon
<1>6. CASE \E key \in Probes : CursorSeek(key)
  BY <1>6, CursorSeekKey, Zenon
<1>7. CASE CursorSeekToFirst
  BY <1>7, CursorSeekFirst, Zenon
<1>8. CASE UNCHANGED vars
  BY <1>8, CursorKept DEF vars
<1> QED
  BY <1>1, <1>2, <1>3, <1>4, <1>5, <1>6, <1>7, <1>8, Zenon DEF Next

\* What a scan has passed, in the words of the properties.
LEMMA ScannedPassed ==
  ASSUME NEW o, NEW n, Table(handle, written, o), Scanned(handle, written, o, cursor, seen, n, end)
  PROVE  n \in 0 .. Len(written) /\ Passed(n) /\ DOMAIN written = 1 .. Len(written)
<1>1. /\ n \in 0 .. Len(written) /\ seen \in Seq(TableRecord) /\ n + Len(seen) <= Len(written)
      /\ \A i \in 1 .. Len(seen) : seen[i] = written[n + i]
      /\ ~cursor.ok => \A i \in (n + Len(seen) + 1) .. Len(written) : ~Within(written[i].key, end)
  BY Zenon DEF Scanned
<1>2. DOMAIN seen = 1 .. Len(seen)
  BY <1>1
<1>3. \A k : Within(k, end) <=> BeforeEnd(k)
  BY Zenon DEF Within, BeforeEnd
<1>4. Passed(n)
  BY <1>1, <1>2, <1>3, Zenon DEF Passed
<1>5. written \in Seq(TableRecord)
  BY Zenon DEF Table
<1> QED
  BY <1>1, <1>4, <1>5

LEMMA ScanHolds ==
  ASSUME CursorInv
  PROVE  ScanCovers
<1> SUFFICES ASSUME origin = "new", OneStart
             PROVE  \E n \in 0..Len(written) :
                      /\ Passed(n)
                      /\ \A i \in DOMAIN written :
                           n < i <=> AfterStart(written[i].key) \/ Follows(written[i].key)
  BY Zenon DEF ScanCovers, OneStart
<1>1. PICK o, n : NewScan(o, n)
  BY Zenon DEF CursorInv
<1>2. n \in 0 .. Len(written) /\ Passed(n) /\ DOMAIN written = 1 .. Len(written)
  BY <1>1, ScannedPassed, Zenon DEF NewScan
<1>3. \A k : (After(start, k) <=> AfterStart(k)) /\ (Beyond(handle, start, k) <=> Follows(k))
  BY Zenon DEF After, AfterStart, Beyond, Follows
<1>4. \A i \in 1 .. Len(written) : n < i <=> AfterStart(written[i].key) \/ Follows(written[i].key)
  BY <1>1, <1>3, Zenon DEF NewScan
<1> QED
  BY <1>2, <1>4, Zenon

LEMMA SeekHolds ==
  ASSUME CursorInv
  PROVE  SeekLands
<1> SUFFICES ASSUME origin = "seek", SeekStart
             PROVE  \E n \in 0..Len(written) :
                      Passed(n) /\ \A i \in DOMAIN written : n < i <=> AfterStart(written[i].key)
  BY Zenon DEF SeekLands, SeekStart
<1>1. PICK o, n : SeekScan(o, n)
  BY Zenon DEF CursorInv
<1>2. n \in 0 .. Len(written) /\ Passed(n) /\ DOMAIN written = 1 .. Len(written)
  BY <1>1, ScannedPassed, Zenon DEF SeekScan
<1>3. \A k : After(start, k) <=> AfterStart(k)
  BY Zenon DEF After, AfterStart
<1>4. \A i \in 1 .. Len(written) : n < i <=> AfterStart(written[i].key)
  BY <1>1, <1>3, Zenon DEF SeekScan
<1> QED
  BY <1>2, <1>4, Zenon

\* A scan of a finished table from one of its bounds misses nothing: next visits
\* the records of the range once and in order and ends only when those left are
\* past the end bound, for any blocks, bounds and number of steps, as long as at
\* most one block ends in the start stream.
THEOREM ScanCoversTheorem == Spec => []ScanCovers
<1>1. Init => FileInv /\ CursorInv
  BY FileInit, CursorInit
<1>2. FileInv /\ CursorInv /\ [Next]_vars => (FileInv /\ CursorInv)'
  BY FileStep, CursorStep
<1>3. FileInv /\ CursorInv => ScanCovers
  BY ScanHolds
<1> QED
  BY <1>1, <1>2, <1>3, PTL DEF Spec

\* In a table of one block, seek to a key that is not before the first record
\* stands on the first record at or after it, and next goes on from there.
THEOREM SeekLandsTheorem == Spec => []SeekLands
<1>1. Init => FileInv /\ CursorInv
  BY FileInit, CursorInit
<1>2. FileInv /\ CursorInv /\ [Next]_vars => (FileInv /\ CursorInv)'
  BY FileStep, CursorStep
<1>3. FileInv /\ CursorInv => SeekLands
  BY SeekHolds
<1> QED
  BY <1>1, <1>2, <1>3, PTL DEF Spec
=============================================================================
