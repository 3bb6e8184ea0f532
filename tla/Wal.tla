-------------------------------- MODULE Wal --------------------------------
(***************************************************************************)
(* The write-ahead log of logregator-core (storage/wal.rs): one active     *)
(* file behind a BufWriter, rotated files named after the SSTable that     *)
(* replaces them, and the file handle the IoWorker fsyncs.                 *)
(*                                                                         *)
(* A record is its sequence number.  Records reach a file in the order of  *)
(* their numbers, so a prefix of a file is a set {r \in file : r <= k}.    *)
(* A file is a name: Active, or the SSTable id it was rotated to.          *)
(***************************************************************************)
EXTENDS Integers, FiniteSets, Functions

CONSTANT Faults     \* the faults of the environment that may happen

ASSUME FaultsAssumption ==
  Faults \subseteq {"spill", "tear", "append", "rotate", "fsync", "resync",
                    "remove", "sst", "open"}

VARIABLES
  wal,        \* wal[n]: records the operating system holds for file n
  synced,     \* synced[n]: the part of wal[n] an fsync has put on disk
  walBuf,     \* records in the BufWriter of the active file
  halfTail,   \* the active file ends in a length prefix without its record
  corrupt,    \* files whose framing is broken: recover_file fails on them
  syncer      \* the file the IoWorker's WalSyncer handle points to

walVars == <<wal, synced, walBuf, halfTail, corrupt, syncer>>

Active == 0         \* "__active_wal.log"
NoFile == -1        \* a handle whose file has been unlinked

\* Map insertion: f with key k bound to v.
Put(f, k, v) == [x \in DOMAIN f \cup {k} |-> IF x = k THEN v ELSE f[x]]

\* Every record of the values of f.
Content(f) == UNION {f[x] : x \in DOMAIN f}

WalInit ==
  /\ wal = [n \in {Active} |-> {}]
  /\ synced = [n \in {Active} |-> {}]
  /\ walBuf = {}
  /\ halfTail = FALSE
  /\ corrupt = {}
  /\ syncer = Active

-----------------------------------------------------------------------------
(* The writes of R go through the BufWriter: either they fit in the buffer,  *)
(* or it spills what it holds and a prefix of R to the file.  Length and     *)
(* body of a record are two writes, so a spill may end between them ("tear") *)
(* until the rest of the buffer follows.                                     *)
Buffer(R) ==
  \/ /\ walBuf' = walBuf \cup R
     /\ UNCHANGED <<wal, halfTail>>
  \/ /\ "spill" \in Faults
     /\ \E kept \in R \cup {r + 1 : r \in R} :
          /\ walBuf' = {r \in R : r >= kept}
          /\ wal' = [wal EXCEPT ![Active] =
                       @ \cup walBuf \cup {r \in R : r < kept}]
     /\ halfTail' \in {torn \in BOOLEAN :
                        torn => "tear" \in Faults /\ walBuf' # {}}

(* write_one, write_many.                                                    *)
WriteRecords(R) ==
  /\ Buffer(R)
  /\ UNCHANGED <<synced, corrupt, syncer>>

(* A write_all of write_one or write_many fails: the records before the one  *)
(* that failed are written, which may have left its length without a body.   *)
WriteFails(R) ==
  /\ "append" \in Faults
  /\ \E failed \in R : Buffer({r \in R : r < failed})
  /\ corrupt' \in {corrupt, corrupt \cup {Active}}
  /\ UNCHANGED <<synced, syncer>>

\* What flush_buffer leaves in the active file.
Flushed == wal[Active] \cup walBuf

FlushBuffer ==
  /\ wal' = [wal EXCEPT ![Active] = Flushed]
  /\ walBuf' = {}
  /\ halfTail' = FALSE
  /\ UNCHANGED <<synced, corrupt, syncer>>

(* flush_buffer fails: the BufWriter keeps what it could not write.          *)
FlushFails ==
  /\ "append" \in Faults
  /\ \E kept \in walBuf :
       /\ walBuf' = {r \in walBuf : r >= kept}
       /\ wal' = [wal EXCEPT ![Active] = @ \cup {r \in walBuf : r < kept}]
  /\ halfTail' \in {torn \in BOOLEAN : torn => "tear" \in Faults}
  /\ UNCHANGED <<synced, corrupt, syncer>>

(* A rename onto an existing file replaces it.  An open handle follows the   *)
(* file, not the name.                                                       *)
Renamed(handle, id) ==
  CASE handle = Active -> id
    [] handle = id     -> NoFile
    [] OTHER           -> handle

(* rotate: flush the buffer, rename the active file, open a new one.         *)
Rotate(id) ==
  /\ wal' = Put(Put(wal, id, Flushed), Active, {})
  /\ synced' = Put(Put(synced, id, synced[Active]), Active, {})
  /\ walBuf' = {}
  /\ halfTail' = FALSE
  /\ corrupt' = (corrupt \ {Active, id}) \cup
                  {n \in {id} : Active \in corrupt}
  /\ syncer' = Renamed(syncer, id)

\* The files of ids that fs::remove_file may remove: errors are ignored.
MayRemove(ids) == IF "remove" \in Faults THEN SUBSET ids ELSE {ids}

(* fs::remove_file on the stale WAL files in ids.                            *)
RemoveFiles(ids) ==
  /\ \E gone \in MayRemove(ids) :
       /\ wal' = Restrict(wal, DOMAIN wal \ gone)
       /\ synced' = Restrict(synced, DOMAIN synced \ gone)
       /\ corrupt' = corrupt \ gone
       /\ syncer' = IF syncer \in gone THEN NoFile ELSE syncer
  /\ UNCHANGED <<walBuf, halfTail>>

(* WalSyncer::fsync on the handle's file; handle_sync's error is ignored.    *)
Fsync ==
  \/ synced' = IF syncer \in DOMAIN wal
                 THEN [synced EXCEPT ![syncer] = wal[syncer]]
                 ELSE synced
  \/ "fsync" \in Faults /\ UNCHANGED synced

-----------------------------------------------------------------------------
(* What a crash leaves of the files.  The process dying loses the buffer;    *)
(* losing power also cuts every file somewhere behind its fsynced part, at a *)
(* record boundary or inside a record ("tear").                              *)
ProcessCrash ==
  /\ wal' = wal
  /\ synced' = synced
  /\ corrupt' = corrupt \cup {n \in {Active} : halfTail}

PowerLoss ==
  /\ \E cut \in [DOMAIN wal -> {0} \cup Content(wal)] :
       wal' = [n \in DOMAIN wal |->
                 synced[n] \cup {r \in wal[n] : r <= cut[n]}]
  /\ synced' = wal'
  /\ \E torn \in SUBSET {n \in DOMAIN wal : \/ wal'[n] # wal[n]
                                            \/ n = Active /\ halfTail} :
       /\ "tear" \notin Faults => torn = {}
       /\ corrupt' = corrupt \cup torn

\* Mutant of Recovered: the rotated files are not scanned.
RecoveredFromActive(files, bad) ==
  UNION {files[n] : n \in {Active} \ bad}

(* recover_all: the records of every file that recover_file can read to its  *)
(* end; one it cannot is skipped whole.                                      *)
Recovered(files, bad) ==
  UNION {files[n] : n \in DOMAIN files \ bad}

\* open_active and WalSyncer::open at start-up.
ReopenActive ==
  /\ walBuf' = {}
  /\ halfTail' = FALSE
  /\ syncer' = Active

WalTypeOK ==
  /\ DOMAIN wal \subseteq Nat
  /\ Active \in DOMAIN wal
  /\ DOMAIN synced = DOMAIN wal
  /\ \A n \in DOMAIN wal : wal[n] \subseteq Nat /\ synced[n] \subseteq wal[n]
  /\ walBuf \subseteq Nat
  /\ halfTail \in BOOLEAN
  /\ corrupt \subseteq DOMAIN wal
  /\ syncer \in DOMAIN wal \cup {NoFile}
=============================================================================
