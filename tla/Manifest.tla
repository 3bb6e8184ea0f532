------------------------------ MODULE Manifest ------------------------------
(***************************************************************************)
(* The manifest of logregator-tsdb and its snapshots (manifest.rs, the     *)
(* framed reader and writer of codec.rs).                                  *)
(*                                                                         *)
(* append buffers an entry and, once more than max_file_size bytes have    *)
(* been written since the manifest was opened, takes a snapshot: flush,    *)
(* read the file back, merge with the snapshot file, write that in place,  *)
(* truncate the manifest.  The process may stop between any two of these   *)
(* steps, and in the middle of a write; recovery is open_snapshotted.      *)
(***************************************************************************)
EXTENDS Naturals, SequencesExt

CONSTANTS
  Entries,        \* ManifestEntry values that are appended
  LabelLen,       \* length of an encoded label map
  MaxFileSize,    \* max_file_size
  BufSize,        \* BUFSIZE: what the reader decodes from
  WriterCap,      \* capacity of BufWriter
  MaxEntries,     \* bound on the entries appended
  MaxCrashes      \* bound on the crashes

ASSUME ManifestAssumption ==
  /\ LabelLen \in Nat /\ MaxFileSize \in Nat
  /\ BufSize \in Nat \ {0} /\ WriterCap \in Nat
  /\ MaxEntries \in Nat /\ MaxCrashes \in Nat

IsEntry(e) ==
  \/ e.kind \in {"MemtableFlush", "StreamUpdate"}
  \/ e.kind = "Compaction" /\ e.ids \in Seq(Nat)

ASSUME EntryAssumption == \A e \in Entries : IsEntry(e)

VARIABLES
  buffered,       \* entries in the BufWriter
  bytes_written,  \* size_hint: bytes written since the manifest was opened
  file,           \* [entries, torn]: the manifest, and whether its last bytes
                  \* are the front of an entry only
  snapshot,       \* the snapshot file: NoFile, Torn or a snapshot
  pc,             \* "ready", a step of snapshot_truncate, or "down"
  delta,          \* what from_manifest read, then the snapshot to be written
  opening,        \* the snapshot is part of open_snapshotted
  result,         \* outcome of the last append or open: "none", "Ok" or "Err"
  log,            \* entries appended, without those a crash took
  crashes         \* "clean" crashes and those in the middle of a write

vars == <<buffered, bytes_written, file, snapshot, pc, delta, opening, result, log, crashes>>

-----------------------------------------------------------------------------
(* ManifestEntry and its codec.                                              *)
MemtableFlush(id) == [kind |-> "MemtableFlush", id |-> id]
Compaction(ids) == [kind |-> "Compaction", ids |-> ids]
StreamUpdate(stream, labels) == [kind |-> "StreamUpdate", stream |-> stream, labels |-> labels]

wire_len(e) ==
  CASE e.kind = "MemtableFlush" -> 9
    [] e.kind = "Compaction" -> 5 + 8 * Len(e.ids)
    [] e.kind = "StreamUpdate" -> 9 + LabelLen

\* Offsets(entries)[i]: the number of bytes of the first i entries.
Offsets(entries) ==
  LET n[i \in 0 .. Len(entries)] == IF i = 0 THEN 0 ELSE n[i - 1] + wire_len(entries[i])
  IN  [i \in 0 .. Len(entries) |-> n[i]]

Bytes(entries) == Offsets(entries)[Len(entries)]

\* decode: the loop over the ids of a compaction reads the first one each time.
decode(e) ==
  IF e.kind = "Compaction" THEN Compaction([i \in DOMAIN e.ids |-> e.ids[1]]) ELSE e

(* FramedReader over the whole file.  decode answers Ok(None) for an empty   *)
(* source only, and then the buffer is filled again: an entry that is cut by *)
(* the end of a full buffer, or of the file, is an error.                    *)
StartOf(entries, i) == Offsets(entries)[i - 1]

\* Mutant of Cut: an entry that ends with the buffer is refused too.
CutAtEnd(entries, i) ==
  \E k \in 1..Bytes(entries) :
    StartOf(entries, i) < k * BufSize /\ k * BufSize <= StartOf(entries, i + 1)

Cut(entries, i) ==
  \E k \in 1..Bytes(entries) :
    StartOf(entries, i) < k * BufSize /\ k * BufSize < StartOf(entries, i + 1)

Readable(f) == ~f.torn /\ \A i \in DOMAIN f.entries : ~Cut(f.entries, i)

-----------------------------------------------------------------------------
(* Snapshot: the state of the tables and the labels of the streams.          *)
NoFile == [kind |-> "NoFile"]
Torn == [kind |-> "Torn"]
Snapshot(ssts, labelmaps) ==
  [kind |-> "Snapshot", sstable_state |-> ssts, labelmaps |-> labelmaps]
EmptySnapshot == Snapshot(<<>>, <<>>)

\* The inserts of new into a map.
extend(map, new) ==
  [k \in DOMAIN new \cup DOMAIN map |-> IF k \in DOMAIN new THEN new[k] ELSE map[k]]

\* One entry of from_manifest.
applied(snap, e) ==
  CASE e.kind = "MemtableFlush" ->
         Snapshot(extend(snap.sstable_state, [id \in {e.id} |-> "Live"]), snap.labelmaps)
    [] e.kind = "Compaction" ->
         Snapshot(extend(snap.sstable_state, [id \in ToSet(e.ids) |-> "Removed"]), snap.labelmaps)
    [] e.kind = "StreamUpdate" ->
         Snapshot(snap.sstable_state, extend(snap.labelmaps, [s \in {e.stream} |-> e.labels]))

\* replay(entries)[i]: the snapshot after i entries.
replay(entries) ==
  LET snap[i \in 0 .. Len(entries)] ==
        IF i = 0 THEN EmptySnapshot ELSE applied(snap[i - 1], decode(entries[i]))
  IN  [i \in 0 .. Len(entries) |-> snap[i]]

from_manifest(entries) == replay(entries)[Len(entries)]

InState(ssts, state) == {id \in DOMAIN ssts : ssts[id] = state}

\* Mutant of merge: tables the newer snapshot removes stay.
mergeKeeps(older, new) ==
  Snapshot([id \in InState(older.sstable_state, "Live") \cup InState(new.sstable_state, "Live")
              |-> "Live"],
           extend(older.labelmaps, new.labelmaps))

\* merge: live tables of the older snapshot, changed by the newer one.
merge(older, new) ==
  Snapshot([id \in (InState(older.sstable_state, "Live") \ InState(new.sstable_state, "Removed"))
                     \cup InState(new.sstable_state, "Live") |-> "Live"],
           extend(older.labelmaps, new.labelmaps))

-----------------------------------------------------------------------------
Init ==
  /\ buffered = <<>> /\ bytes_written = 0
  /\ file = [entries |-> <<>>, torn |-> FALSE]
  /\ snapshot = NoFile
  /\ pc = "down"
  /\ delta = EmptySnapshot
  /\ opening = FALSE
  /\ result = "none"
  /\ log = <<>>
  /\ crashes = [clean |-> 0, cut |-> 0]

\* Manifest::open, as open_snapshotted calls it, which is how LsmTree opens a
\* manifest: without its snapshot, as in tests, a file that is not empty would be
\* taken for one of size 0.  An open that failed is not tried again.
Open ==
  /\ pc = "down" /\ result # "Err"
  /\ bytes_written' = 0
  /\ opening' = TRUE
  /\ pc' = "flush"
  /\ UNCHANGED <<buffered, file, snapshot, delta, result, log, crashes>>

\* Mutant of snapshot_due: the size before the entry decides.
snapshot_dueBefore(e) == bytes_written > MaxFileSize

snapshot_due(e) == bytes_written + wire_len(e) > MaxFileSize

(* append, up to the snapshot it may take: FramedWriter::write, whose        *)
(* BufWriter makes room by writing what it holds.  It writes an entry of its *)
(* own capacity at once, which is kept here until the next one or a flush.   *)
AppendEntry(e) ==
  /\ pc = "ready"
  /\ Len(log) < MaxEntries
  /\ LET full == Bytes(buffered) + wire_len(e) > WriterCap
     IN /\ buffered' = IF full THEN <<e>> ELSE Append(buffered, e)
        /\ file' = IF full THEN [file EXCEPT !.entries = @ \o buffered] ELSE file
  /\ bytes_written' = bytes_written + wire_len(e)
  /\ log' = Append(log, e)
  /\ IF snapshot_due(e) THEN pc' = "flush" /\ UNCHANGED result
                        ELSE result' = "Ok" /\ UNCHANGED pc
  /\ UNCHANGED <<snapshot, delta, opening, crashes>>

-----------------------------------------------------------------------------
(* snapshot_truncate, step by step.                                          *)
Step(from, to) == pc = from /\ pc' = to /\ UNCHANGED <<bytes_written, log, crashes>>

\* An error of a step is returned; a manifest that was being opened is dropped.
Fail(from) ==
  /\ Step(from, IF opening THEN "down" ELSE "ready")
  /\ result' = "Err" /\ delta' = EmptySnapshot
  /\ UNCHANGED <<buffered, file, snapshot, opening>>

Flush ==
  /\ Step("flush", "read")
  /\ file' = [file EXCEPT !.entries = @ \o buffered]
  /\ buffered' = <<>>
  /\ UNCHANGED <<snapshot, delta, opening, result>>

ReadManifest ==
  /\ Readable(file)
  /\ Step("read", "merge")
  /\ delta' = from_manifest(file.entries)
  /\ UNCHANGED <<buffered, file, snapshot, opening, result>>

ReadManifestFails == ~Readable(file) /\ Fail("read")

\* write_to: the old snapshot is read, then its file is opened with truncate.
MergeSnapshot ==
  /\ snapshot # Torn
  /\ Step("merge", "write")
  /\ delta' = IF snapshot = NoFile THEN delta ELSE merge(snapshot, delta)
  /\ snapshot' = Torn
  /\ UNCHANGED <<buffered, file, opening, result>>

MergeSnapshotFails == snapshot = Torn /\ Fail("merge")

WriteSnapshot ==
  /\ Step("write", "truncate")
  /\ snapshot' = delta
  /\ UNCHANGED <<buffered, file, delta, opening, result>>

Truncate ==
  /\ Step("truncate", "ready")
  /\ file' = [entries |-> <<>>, torn |-> FALSE]
  /\ delta' = EmptySnapshot
  /\ opening' = FALSE
  /\ result' = "Ok"
  /\ UNCHANGED <<buffered, snapshot>>

-----------------------------------------------------------------------------
\* The manifest is dropped: BufWriter writes what it holds.
Close ==
  /\ pc = "ready"
  /\ pc' = "down" /\ result' = "none"
  /\ file' = [file EXCEPT !.entries = @ \o buffered]
  /\ buffered' = <<>> /\ bytes_written' = 0
  /\ UNCHANGED <<snapshot, delta, opening, log, crashes>>

\* The process stops; the log loses what was buffered.
Stop ==
  /\ pc # "down"
  /\ pc' = "down" /\ result' = "none" /\ opening' = FALSE
  /\ delta' = EmptySnapshot
  /\ buffered' = <<>> /\ bytes_written' = 0
  /\ crashes.clean + crashes.cut < MaxCrashes

Crash ==
  /\ Stop
  /\ log' = SubSeq(log, 1, Len(log) - Len(buffered))
  /\ crashes' = IF pc = "write" THEN [crashes EXCEPT !.cut = @ + 1]
                                ELSE [crashes EXCEPT !.clean = @ + 1]
  /\ UNCHANGED <<file, snapshot>>

\* It stops while the buffer is written: n entries and part of the next are.
CrashInFlush(n) ==
  /\ pc = "flush"
  /\ Stop
  /\ file' = [entries |-> file.entries \o SubSeq(buffered, 1, n), torn |-> TRUE]
  /\ log' = SubSeq(log, 1, Len(log) - Len(buffered) + n)
  /\ crashes' = [crashes EXCEPT !.cut = @ + 1]
  /\ UNCHANGED snapshot

Next ==
  \/ Open
  \/ \E e \in Entries : AppendEntry(e)
  \/ Flush
  \/ ReadManifest \/ ReadManifestFails
  \/ MergeSnapshot \/ MergeSnapshotFails
  \/ WriteSnapshot
  \/ Truncate
  \/ Close
  \/ Crash
  \/ \E n \in 0..(Len(buffered) - 1) : CrashInFlush(n)

Spec == Init /\ [][Next]_vars

-----------------------------------------------------------------------------
\* What recovery makes of the snapshot and of a manifest with these entries.
RecoveredWith(entries) ==
  IF snapshot = NoFile THEN from_manifest(entries) ELSE merge(snapshot, from_manifest(entries))

\* The buffer is written first.
Recovered == RecoveredWith(file.entries \o buffered)

Compacts(e, id) == e.kind = "Compaction" /\ id \in ToSet(e.ids)
Later(i) == (i + 1)..Len(log)

\* The tables flushed and not compacted afterwards.
LiveInLog ==
  {log[i].id : i \in {i \in DOMAIN log : /\ log[i].kind = "MemtableFlush"
                                        /\ \A j \in Later(i) : ~Compacts(log[j], log[i].id)}}

(* Snapshots keep what the log says, whichever entries they split, however   *)
(* often they are merged and wherever the process stopped: a table that was  *)
(* flushed and not compacted is live, every stream has the labels of its     *)
(* last update, and when each compaction names one table no other table is   *)
(* live.  (Of a compaction of several tables, decode sees the first only.)   *)
RecoversLog ==
  (snapshot # Torn /\ ~file.torn) =>
    LET live == InState(Recovered.sstable_state, "Live")
    IN /\ LiveInLog \subseteq live
       /\ (\A i \in DOMAIN log : log[i].kind = "Compaction" => Len(log[i].ids) = 1)
            => live = LiveInLog
       /\ \A i \in DOMAIN log :
            (/\ log[i].kind = "StreamUpdate"
             /\ \A j \in Later(i) : log[j].kind = "StreamUpdate" => log[j].stream # log[i].stream)
            => /\ log[i].stream \in DOMAIN Recovered.labelmaps
               /\ Recovered.labelmaps[log[i].stream] = log[i].labels

(* Errors have a cause: appending and opening fail only after a crash has    *)
(* cut a file, or once the manifest has outgrown the buffer of the reader    *)
(* that takes the snapshot.                                                  *)
ErrorsHaveCause == result = "Err" => crashes.cut > 0 \/ Bytes(file.entries) > BufSize

(* The manifest stays small: between two calls, unless the last one failed,  *)
(* it holds no more than max_file_size bytes, on disk and buffered together. *)
FileBounded ==
  (pc = "ready" /\ result # "Err") => Bytes(file.entries \o buffered) <= MaxFileSize

-----------------------------------------------------------------------------
(* The inductive invariant of the proofs.                                    *)

\* The same live tables and labels; what is removed shows in merge only.
Agree(a, b) ==
  /\ InState(a.sstable_state, "Live") = InState(b.sstable_state, "Live")
  /\ DOMAIN a.labelmaps = DOMAIN b.labelmaps
  /\ \A s \in DOMAIN a.labelmaps : a.labelmaps[s] = b.labelmaps[s]

Steps == {"flush", "read", "merge", "write", "truncate"}

ManifestTypeOK ==
  /\ log \in Seq(Entries) /\ buffered \in Seq(Entries) /\ Len(buffered) <= Len(log)
  /\ file \in [entries : Seq(Entries), torn : BOOLEAN]
  /\ bytes_written \in Nat /\ opening \in BOOLEAN
  /\ pc \in {"down", "ready"} \cup Steps
  /\ crashes \in [clean : Nat, cut : Nat]
  /\ pc = "ready" => ~opening

(* Whatever part of the buffer gets to the file, the files stand for the     *)
(* log up to that entry.                                                     *)
FilesStandForLog ==
  (snapshot # Torn /\ ~file.torn) =>
    \A n \in 0 .. Len(buffered) :
      Agree(RecoveredWith(file.entries \o SubSeq(buffered, 1, n)),
            from_manifest(SubSeq(log, 1, Len(log) - Len(buffered) + n)))

(* What snapshot_truncate has in hand: once the new snapshot is written, it  *)
(* stands for the log with the manifest and without it.                      *)
SnapshotSteps ==
  /\ pc \in Steps \ {"flush"} => buffered = <<>>
  /\ pc \in Steps \ {"flush", "read"} => ~file.torn
  /\ pc = "merge" => delta = from_manifest(file.entries)
  /\ pc = "write" =>
       /\ delta.kind = "Snapshot" /\ Agree(delta, from_manifest(log))
       /\ Agree(merge(delta, from_manifest(file.entries)), from_manifest(log))
  /\ pc = "truncate" => snapshot.kind = "Snapshot" /\ Agree(snapshot, from_manifest(log))

\* A file that is cut comes from a crash.
Causes ==
  /\ file.torn => crashes.cut > 0
  /\ snapshot = Torn /\ pc # "write" => crashes.cut > 0
  /\ ErrorsHaveCause

\* size_hint is never below the size, once the manifest is open.
Sizes ==
  /\ pc # "down" /\ ~opening => Bytes(file.entries \o buffered) <= bytes_written
  /\ FileBounded

ManifestInv == ManifestTypeOK /\ FilesStandForLog /\ SnapshotSteps /\ Causes /\ Sizes
=============================================================================
