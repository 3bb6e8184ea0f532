----------------------------- MODULE ManifestMC -----------------------------
(***************************************************************************)
(* Two tables and a stream renamed.  The reader's buffer is longer than    *)
(* the manifest may get, but for the entry that calls for a snapshot.      *)
(***************************************************************************)
EXTENDS Manifest

MCEntries ==
  { MemtableFlush(1), MemtableFlush(2), Compaction(<<1>>), Compaction(<<2, 1>>),
    StreamUpdate(7, "x"), StreamUpdate(7, "y") }
=============================================================================
