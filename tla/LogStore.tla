------------------------------ MODULE LogStore ------------------------------
(***************************************************************************)
(* What the storage of logregator-core promises its clients: a growing set *)
(* of records that range queries read.  Freezing, flushing, compaction and *)
(* log rotation are invisible.  Only a crash takes records away, and never *)
(* one that had reached stable storage.                                    *)
(***************************************************************************)
EXTENDS Naturals

CONSTANT Record

VARIABLES
  records,   \* what a range query over everything returns
  hardened,  \* records that have been on stable storage at some time
  epoch      \* number of restarts

logVars == <<records, hardened, epoch>>

LogInit == records = {} /\ hardened = {} /\ epoch = 0

\* Insert or BatchInsert: only records no query has returned are added.
Append ==
  /\ records \subseteq records'
  /\ records' \subseteq Record
  /\ UNCHANGED <<hardened, epoch>>

\* fsync, or an SSTable file written.
Harden ==
  /\ hardened \subseteq hardened'
  /\ hardened' \subseteq records
  /\ UNCHANGED <<records, epoch>>

\* A crash and the recovery after it.
Restart ==
  /\ hardened \subseteq records'
  /\ records' \subseteq records
  /\ hardened \subseteq hardened'
  /\ hardened' \subseteq records'
  /\ epoch' = epoch + 1

LogNext == Append \/ Harden \/ Restart

LogSpec == LogInit /\ [][LogNext]_logVars
=============================================================================
