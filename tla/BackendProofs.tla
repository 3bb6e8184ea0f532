--------------------------- MODULE BackendProofs ---------------------------
(***************************************************************************)
(* Proofs about the storage task of logregator-core, for every value of    *)
(* the constants: any faults, any number of crashes, any channel capacity. *)
(***************************************************************************)
EXTENDS BackendProps, WellFoundedInduction, TLAPS

\* A bounded set of naturals has the largest element that Highest chooses.
LEMMA HighestBounds ==
  ASSUME NEW S \in SUBSET Nat, NEW b \in Nat, \A x \in S : x < b
  PROVE  /\ Highest(S) \in Nat
         /\ \A x \in S : x <= Highest(S)
<1> DEFINE B == {c \in Nat : \A x \in S : x <= c}
<1>1. B # {}
  <2>1. b \in B
    BY SMT
  <2> QED
    BY <2>1
<1>2. PICK c \in B : \A d \in B : c <= d
  <2>1. PICK c \in B : \A d \in B : <<d, c>> \notin OpToRel(<, Nat)
    BY <1>1, NatLessThanWellFounded, WFMin, Zenon
  <2>2. \A d \in B : ~(d < c)
    BY <2>1 DEF OpToRel
  <2> QED
    BY <2>2
<1>3. c \in S \cup {0}
  <2>1. CASE c = 0
    BY <2>1
  <2>2. CASE c # 0
    <3>1. c - 1 \in Nat /\ c - 1 \notin B
      BY <1>2, <2>2
    <3>2. PICK x \in S : ~(x <= c - 1)
      BY <3>1
    <3>3. x = c
      BY <1>2, <3>2, <2>2
    <3> QED
      BY <3>3
  <2> QED
    BY <2>1, <2>2
<1>4. \E m \in S \cup {0} : \A x \in S : x <= m
  BY <1>2, <1>3
<1>5. Highest(S) \in S \cup {0} /\ \A x \in S : x <= Highest(S)
  BY <1>4, Zenon DEF Highest
<1>6. \A m \in S \cup {0} : m \in Nat
  OBVIOUS
<1> QED
  BY <1>5, <1>6, Zenon

\* Sending: the elements of a queue after one more was appended.
LEMMA AppendFacts ==
  ASSUME NEW s \in Seq(IoCommand), NEW c \in IoCommand
  PROVE  /\ Append(s, c) \in Seq(IoCommand)
         /\ Len(Append(s, c)) = Len(s) + 1
         /\ Range(Append(s, c)) = Range(s) \cup {c}
         /\ OncePerSeq(s) /\ c.id \notin Ids(Range(s)) => OncePerSeq(Append(s, c))
<1> DEFINE t == Append(s, c)
<1>1. /\ t \in Seq(IoCommand)
      /\ Len(t) = Len(s) + 1
      /\ DOMAIN s = 1 .. Len(s) /\ DOMAIN t = 1 .. (Len(s) + 1)
      /\ \A i \in 1 .. Len(s) : t[i] = s[i]
      /\ t[Len(s) + 1] = c
      /\ Len(s) \in Nat
  OBVIOUS
<1> HIDE DEF t
<1>2. Range(t) = Range(s) \cup {c}
  BY <1>1 DEF Range
<1>3. OncePerSeq(s) /\ c.id \notin Ids(Range(s)) => OncePerSeq(t)
  BY <1>1 DEF OncePerSeq, Ids, Range
<1> QED
  BY <1>1, <1>2, <1>3 DEF t

\* Receiving: the elements of a queue whose first one was taken.
LEMMA TailFacts ==
  ASSUME NEW s \in Seq(IoCommand), s # <<>>
  PROVE  /\ Tail(s) \in Seq(IoCommand)
         /\ Head(s) \in IoCommand
         /\ Len(Tail(s)) = Len(s) - 1
         /\ Range(s) = Range(Tail(s)) \cup {Head(s)}
         /\ OncePerSeq(s) => /\ OncePerSeq(Tail(s))
                             /\ Head(s).id \notin Ids(Range(Tail(s)))
<1> DEFINE t == Tail(s)
<1>1. /\ t \in Seq(IoCommand)
      /\ Len(t) = Len(s) - 1
      /\ DOMAIN s = 1 .. Len(s) /\ DOMAIN t = 1 .. (Len(s) - 1)
      /\ \A i \in 1 .. (Len(s) - 1) : t[i] = s[i + 1]
      /\ Head(s) = s[1]
      /\ Len(s) \in Nat /\ Len(s) > 0
      /\ s[1] \in IoCommand
  OBVIOUS
<1> HIDE DEF t
<1>2. Range(s) = Range(t) \cup {Head(s)}
  <2>1. \A x \in Range(t) : x \in Range(s)
    BY <1>1 DEF Range
  <2>2. \A x \in Range(s) : x # s[1] => x \in Range(t)
    <3> SUFFICES ASSUME NEW i \in 1 .. Len(s), s[i] # s[1]
                 PROVE  s[i] \in Range(t)
      BY <1>1 DEF Range
    <3>1. i - 1 \in 1 .. (Len(s) - 1) /\ t[i - 1] = s[i]
      BY <1>1
    <3> QED
      BY <3>1, <1>1 DEF Range
  <2>3. s[1] \in Range(s)
    BY <1>1 DEF Range
  <2> QED
    BY <1>1, <2>1, <2>2, <2>3
<1>3. ASSUME OncePerSeq(s) PROVE OncePerSeq(t) /\ Head(s).id \notin Ids(Range(t))
  <2>1. OncePerSeq(t)
    BY <1>1, <1>3 DEF OncePerSeq
  <2>2. ASSUME NEW i \in 1 .. (Len(s) - 1), t[i].id = Head(s).id
        PROVE  Head(s).id = Active
    BY <1>1, <1>3, <2>2 DEF OncePerSeq
  <2> QED
    BY <1>1, <2>1, <2>2 DEF Ids, Range
<1> QED
  BY <1>1, <1>2, <1>3 DEF t

-----------------------------------------------------------------------------
\* The program starts in a state that satisfies the inductive invariant.
LEMMA InitIInv == Init => IInv
<1> SUFFICES ASSUME Init PROVE IInv
  OBVIOUS
<1> USE IoAssumption DEF Init, WalInit, IoInit
<1>1. TypeOK
  BY DEF TypeOK, WalTypeOK, IoTypeOK, Active
<1>2. Range(outbox) = {} /\ Range(ioCmds) = {} /\ Range(ioResults) = {}
  BY DEF Range
<1>3. Unwritten = {} /\ Written = {}
  BY <1>2 DEF Unwritten, Written
<1>4. JobShape /\ JobsOnce /\ JobFiles
  BY <1>2, <1>3 DEF JobShape, JobsOnce, JobFiles, OncePerSeq, OncePerSet, Ids
<1>5. CompactionsMarked
  BY <1>3 DEF CompactionsMarked, CompactionsDisjoint, Compactions
<1>6. SeqBelow
  BY <1>3 DEF SeqBelow, Stored, Logged, Content, Recovered
<1> QED
  BY <1>1, <1>4, <1>5, <1>6 DEF IInv

-----------------------------------------------------------------------------
\* Buffering a set of naturals keeps the WAL well-formed.
LEMMA BufferType ==
  ASSUME NEW R \in SUBSET Nat, WalTypeOK, Buffer(R)
  PROVE  /\ DOMAIN wal' = DOMAIN wal
         /\ \A n \in DOMAIN wal : wal[n] \subseteq wal'[n] /\ wal'[n] \subseteq Nat
         /\ walBuf' \subseteq Nat
         /\ halfTail' \in BOOLEAN
BY DEF Buffer, WalTypeOK

\* The writes of a command, failed or not, keep the WAL well-formed.
LEMMA WriteType ==
  ASSUME NEW R \in SUBSET Nat, WalTypeOK, WriteRecords(R) \/ WriteFails(R)
  PROVE  WalTypeOK'
<1>1. CASE WriteRecords(R)
  BY <1>1, BufferType DEF WriteRecords, WalTypeOK
<1>2. CASE WriteFails(R)
  <2>1. PICK failed \in R : Buffer({r \in R : r < failed})
    BY <1>2 DEF WriteFails
  <2>2. {r \in R : r < failed} \in SUBSET Nat
    OBVIOUS
  <2> QED
    BY <1>2, <2>1, <2>2, BufferType DEF WriteFails, WalTypeOK
<1> QED
  BY <1>1, <1>2

\* Flushing the BufWriter, wholly or in part, keeps the WAL well-formed.
LEMMA FlushBufferType ==
  ASSUME WalTypeOK, FlushBuffer \/ FlushFails
  PROVE  WalTypeOK'
<1>1. CASE FlushBuffer
  BY <1>1 DEF FlushBuffer, Flushed, WalTypeOK
<1>2. CASE FlushFails
  <2>1. /\ DOMAIN wal' = DOMAIN wal /\ walBuf' \subseteq walBuf
        /\ \A n \in DOMAIN wal : wal[n] \subseteq wal'[n] /\ wal'[n] \subseteq wal[n] \cup walBuf
        /\ halfTail' \in BOOLEAN /\ UNCHANGED <<synced, corrupt, syncer>>
    BY <1>2 DEF FlushFails, WalTypeOK
  <2> QED
    BY <2>1 DEF WalTypeOK
<1> QED
  BY <1>1, <1>2

\* Rotating to a new name keeps the WAL well-formed.
LEMMA RotateType ==
  ASSUME WalTypeOK, NEW id \in Nat \ {0}, Rotate(id)
  PROVE  WalTypeOK'
<1>1. /\ DOMAIN wal' = DOMAIN wal \cup {id, Active}
      /\ DOMAIN synced' = DOMAIN synced \cup {id, Active}
      /\ wal'[Active] = {} /\ synced'[Active] = {}
      /\ wal'[id] = Flushed /\ synced'[id] = synced[Active]
      /\ \A n \in DOMAIN wal : n \notin {id, Active} =>
            wal'[n] = wal[n] /\ synced'[n] = synced[n]
  BY DEF Rotate, Put, WalTypeOK, Active
<1>2. syncer' \in DOMAIN wal' \cup {NoFile}
  <2>1. syncer' \in {id, NoFile, syncer}
    BY DEF Rotate, Renamed
  <2> QED
    BY <1>1, <2>1 DEF WalTypeOK
<1>3. corrupt' \subseteq DOMAIN wal'
  BY <1>1 DEF Rotate, WalTypeOK
<1>4. \A n \in DOMAIN wal' : wal'[n] \subseteq Nat /\ synced'[n] \subseteq wal'[n]
  BY <1>1 DEF WalTypeOK, Flushed
<1>5. walBuf' = {} /\ halfTail' = FALSE
  BY DEF Rotate
<1>6. DOMAIN wal' \subseteq Nat /\ Active \in DOMAIN wal' /\ DOMAIN synced' = DOMAIN wal'
  BY <1>1 DEF WalTypeOK, Active
<1> QED
  BY <1>2, <1>3, <1>4, <1>5, <1>6 DEF WalTypeOK

\* Removing rotated files keeps the WAL well-formed.
LEMMA RemoveType ==
  ASSUME WalTypeOK, NEW ids \in SUBSET (Nat \ {0}), RemoveFiles(ids)
  PROVE  WalTypeOK'
<1>1. PICK gone \in MayRemove(ids) :
        /\ wal' = Restrict(wal, DOMAIN wal \ gone)
        /\ synced' = Restrict(synced, DOMAIN synced \ gone)
        /\ corrupt' = corrupt \ gone
        /\ syncer' = IF syncer \in gone THEN NoFile ELSE syncer
  BY DEF RemoveFiles
<1>2. gone \subseteq Nat \ {0}
  BY DEF MayRemove
<1> QED
  BY <1>1, <1>2 DEF RemoveFiles, WalTypeOK, Restrict, Active

\* An fsync marks no more as synced than the file holds.
LEMMA FsyncType ==
  ASSUME WalTypeOK, Fsync, wal' = wal
  PROVE  /\ DOMAIN synced' = DOMAIN wal
         /\ \A n \in DOMAIN wal : synced'[n] \subseteq wal[n]
BY DEF WalTypeOK, Fsync

\* What a crash leaves of the files, and the reopened WAL, is well-formed.
LEMMA CrashType ==
  ASSUME WalTypeOK, ProcessCrash \/ PowerLoss
  PROVE  /\ DOMAIN wal' = DOMAIN wal /\ DOMAIN synced' = DOMAIN wal
         /\ \A n \in DOMAIN wal : wal'[n] \subseteq wal[n] /\ synced'[n] \subseteq wal'[n]
         /\ corrupt \subseteq corrupt' /\ corrupt' \subseteq DOMAIN wal
<1>1. CASE ProcessCrash
  BY <1>1 DEF ProcessCrash, WalTypeOK
<1>2. CASE PowerLoss
  <2>1. PICK cut : wal' = [n \in DOMAIN wal |->
                            synced[n] \cup {r \in wal[n] : r <= cut[n]}]
    BY <1>2 DEF PowerLoss
  <2>2. synced' = wal' /\ corrupt \subseteq corrupt' /\ corrupt' \subseteq corrupt \cup DOMAIN wal
    BY <1>2 DEF PowerLoss
  <2> QED
    BY <2>1, <2>2 DEF WalTypeOK
<1> QED
  BY <1>1, <1>2

-----------------------------------------------------------------------------
\* What the operations on the WAL add to the records that recovery can read.
LEMMA BufferLogged ==
  ASSUME WalTypeOK, NEW R, Buffer(R), corrupt \subseteq corrupt'
  PROVE  Logged' \subseteq Logged \cup R
<1>1. walBuf' \subseteq walBuf \cup R
  BY DEF Buffer
<1>2. /\ DOMAIN wal' = DOMAIN wal
      /\ wal'[Active] \subseteq wal[Active] \cup walBuf \cup R
      /\ \A n \in DOMAIN wal : n # Active => wal'[n] = wal[n]
  BY DEF Buffer, WalTypeOK
<1>3. Recovered(wal', corrupt') \subseteq Recovered(wal, corrupt) \cup walBuf \cup R
  BY <1>2 DEF Recovered
<1> QED
  BY <1>1, <1>3 DEF Logged

\* A successful write logs no other records than its own.
LEMMA WriteLogged ==
  ASSUME WalTypeOK, NEW R, WriteRecords(R)
  PROVE  Logged' \subseteq Logged \cup R
BY BufferLogged DEF WriteRecords

\* A failed write logs no other records than its own.
LEMMA WriteFailsLogged ==
  ASSUME WalTypeOK, NEW R, WriteFails(R)
  PROVE  \E failed \in R : Logged' \subseteq Logged \cup {r \in R : r < failed}
<1>1. PICK failed \in R : Buffer({r \in R : r < failed})
  BY DEF WriteFails
<1>2. corrupt \subseteq corrupt'
  BY DEF WriteFails
<1> QED
  BY <1>1, <1>2, BufferLogged

\* Flushing the BufWriter, wholly or in part, logs nothing new.
LEMMA FlushBufferLogged ==
  ASSUME WalTypeOK, FlushBuffer \/ FlushFails
  PROVE  Logged' \subseteq Logged
<1>1. /\ DOMAIN wal' = DOMAIN wal
      /\ wal'[Active] \subseteq wal[Active] \cup walBuf
      /\ \A n \in DOMAIN wal : n # Active => wal'[n] = wal[n]
      /\ walBuf' \subseteq walBuf /\ corrupt' = corrupt
  BY DEF FlushBuffer, FlushFails, Flushed, WalTypeOK
<1> QED
  BY <1>1 DEF Logged, Recovered

\* Rotating the WAL logs nothing new, even where the rename replaces a file.
LEMMA RotateLogged ==
  ASSUME WalTypeOK, NEW id \in Nat \ {0}, Rotate(id)
  PROVE  Logged' \subseteq Logged
<1>1. /\ DOMAIN wal' = DOMAIN wal \cup {id, Active}
      /\ wal'[Active] = {}
      /\ wal'[id] = wal[Active] \cup walBuf
      /\ \A n \in DOMAIN wal : n \notin {id, Active} => wal'[n] = wal[n]
  BY DEF Rotate, Put, WalTypeOK, Active, Flushed
<1>2. /\ walBuf' = {}
      /\ \A n \in corrupt : n \notin {id, Active} => n \in corrupt'
      /\ Active \in corrupt => id \in corrupt'
  BY DEF Rotate
<1>3. \A n \in DOMAIN wal' \ corrupt' : wal'[n] \subseteq Logged
  BY <1>1, <1>2 DEF Logged, Recovered, WalTypeOK
<1> QED
  BY <1>2, <1>3 DEF Logged, Recovered

\* Removing WAL files logs nothing new.
LEMMA RemoveLogged ==
  ASSUME NEW ids, RemoveFiles(ids)
  PROVE  Logged' \subseteq Logged
BY DEF RemoveFiles, Logged, Recovered, Restrict

\* A crash adds no record that recovery could read.
LEMMA CrashLogged ==
  ASSUME WalTypeOK, ProcessCrash \/ PowerLoss
  PROVE  Recovered(wal', corrupt') \subseteq Logged
BY CrashType DEF Logged, Recovered

-----------------------------------------------------------------------------
\* The state of the jobs; what the invariant says of it.
jobVars == <<outbox, ioCmds, running, sending, ioResults, sstFile,
             sstable_map, compacting>>
JobInv == JobShape /\ JobsOnce /\ JobFiles /\ CompactionsMarked

\* The elements of a channel are commands.
LEMMA RangeType == ASSUME NEW s \in Seq(IoCommand) PROVE Range(s) \subseteq IoCommand
BY DEF Range

\* Jobs are commands, and their ids are SSTable ids.
LEMMA JobsType ==
  ASSUME TypeOK
  PROVE  /\ Unwritten \subseteq IoCommand /\ Written \subseteq IoCommand
         /\ Ids(Unwritten) \subseteq Nat
<1>1. Unwritten \subseteq IoCommand /\ Written \subseteq IoCommand
  BY RangeType DEF TypeOK, IoTypeOK, Unwritten, Written
<1> QED
  BY <1>1 DEF Ids, IoCommand

\* Records are naturals wherever they are kept.
LEMMA RecordsType == ASSUME TypeOK PROVE Stored \cup Logged \subseteq Nat
<1>1. UNION {c.recs : c \in Unwritten} \subseteq Nat
  BY JobsType DEF IoCommand
<1>2. Content(frozen) \subseteq Nat /\ Content(sstFile) \subseteq Nat
  BY DEF TypeOK, IoTypeOK, Content
<1>3. Logged \subseteq Nat
  BY DEF TypeOK, WalTypeOK, Logged, Recovered
<1> QED
  BY <1>1, <1>2, <1>3 DEF Stored, TypeOK

\* A step that leaves queues, tasks, files and map alone keeps the jobs in order.
LEMMA JobsUntouched ==
  ASSUME TypeOK, JobInv, UNCHANGED jobVars,
         sst_counter' \in Nat, sst_counter' >= sst_counter
  PROVE  JobInv' /\ Unwritten' = Unwritten
<1> USE DEF jobVars
<1>1. Unwritten' = Unwritten /\ Written' = Written
  BY DEF Unwritten, Written
<1>2. JobShape'
  BY <1>1 DEF JobInv, JobShape
<1>3. JobsOnce'
  BY DEF JobInv, JobsOnce, OncePerSeq, OncePerSet
<1>4. JobFiles'
  BY <1>1, JobsType DEF JobInv, JobFiles, TypeOK, IoTypeOK
<1>5. CompactionsMarked'
  BY <1>1 DEF JobInv, CompactionsMarked, CompactionsDisjoint, Compactions
<1> QED
  BY <1>1, <1>2, <1>3, <1>4, <1>5 DEF JobInv

\* The commands of clients and the end of a batch leave the jobs alone.
LEMMA ClientSteps ==
  ASSUME IInv,
         \/ HandleInsert \/ HandleInsertFails
         \/ \E n \in BatchSizes : HandleBatchInsert(n) \/ HandleBatchInsertFails(n)
         \/ HandleQuery \/ EndBatch \/ EndBatchFails
  PROVE  IInv'
<1> USE BackendAssumption
<1>0. TypeOK /\ JobInv /\ SeqBelow /\ WalTypeOK /\ IoTypeOK
  BY DEF IInv, JobInv, TypeOK
<1>1. /\ UNCHANGED jobVars /\ sst_counter' = sst_counter
      /\ UNCHANGED <<frozen, cleanupVars, history>>
  BY DEF HandleInsert, HandleInsertFails, HandleBatchInsert,
     HandleBatchInsertFails, HandleQuery, EndBatch, EndBatchFails, InBatch,
     jobVars, ioVars, engineVars
<1>2. JobInv' /\ Unwritten' = Unwritten
  BY <1>0, <1>1, JobsUntouched DEF TypeOK
<1>3. pc' \in {"select", "batch", "flush"}
  BY <1>0 DEF HandleInsert, HandleInsertFails, HandleBatchInsert,
     HandleBatchInsertFails, HandleQuery, EndBatch, EndBatchFails, InBatch
<1>4. needs_flush' \in BOOLEAN
  <2>1. CASE HandleInsert
    <3>1. needs_flush' = (Cardinality(memtable') > MemtableLimit)
      BY <2>1 DEF HandleInsert, OverLimit
    <3> QED
      BY <3>1
  <2>2. ASSUME NEW n \in BatchSizes, HandleBatchInsert(n)
        PROVE  needs_flush' \in BOOLEAN
    BY <2>2, Zenon DEF HandleBatchInsert
  <2>3. ASSUME NEW n \in BatchSizes, HandleBatchInsertFails(n)
        PROVE  needs_flush' \in BOOLEAN
    BY <2>3, Zenon DEF HandleBatchInsertFails
  <2>4. CASE HandleInsertFails \/ EndBatch \/ EndBatchFails
    BY <2>4, Zenon DEF HandleInsertFails, EndBatch, EndBatchFails
  <2>5. CASE HandleQuery
    BY <1>0, <2>5, Zenon DEF HandleQuery, TypeOK
  <2> QED
    BY <2>1, <2>2, <2>3, <2>4, <2>5
<1>5. notified' \in BOOLEAN
  BY <1>0, Zenon DEF HandleInsert, HandleInsertFails, HandleBatchInsert,
     HandleBatchInsertFails, HandleQuery, EndBatch, EndBatchFails, ioVars,
     IoTypeOK, TypeOK
<1>6. \E R \in SUBSET Nat :
        /\ WalTypeOK'
        /\ Logged' \subseteq Logged \cup R
        /\ memtable' \subseteq memtable \cup R
        /\ seq_counter' \in Nat \ {0} /\ seq_counter <= seq_counter'
        /\ \A r \in R : r < seq_counter'
  <2> DEFINE Grows(R) == /\ WalTypeOK'
                         /\ Logged' \subseteq Logged \cup R
                         /\ memtable' \subseteq memtable \cup R
                         /\ seq_counter' \in Nat \ {0} /\ seq_counter <= seq_counter'
                         /\ \A r \in R : r < seq_counter'
  <2> SUFFICES \E R \in SUBSET Nat : Grows(R)
    OBVIOUS
  <2>0. seq_counter \in Nat \ {0} /\ {seq_counter} \in SUBSET Nat /\ {} \in SUBSET Nat
    BY <1>0 DEF TypeOK
  <2>1. CASE HandleInsert
    <3>1. Grows({seq_counter})
      BY <1>0, <2>0, <2>1, WriteType, WriteLogged DEF HandleInsert
    <3> QED
      BY <2>0, <3>1
  <2>2. CASE HandleInsertFails
    <3>1. \E failed \in {seq_counter} :
             Logged' \subseteq Logged \cup {r \in {seq_counter} : r < failed}
      BY <1>0, <2>2, WriteFailsLogged DEF HandleInsertFails
    <3>2. Grows({})
      BY <1>0, <2>0, <2>2, <3>1, WriteType DEF HandleInsertFails, engineVars
    <3> QED
      BY <2>0, <3>2
  <2>3. ASSUME NEW n \in BatchSizes, HandleBatchInsert(n)
        PROVE  \E R \in SUBSET Nat : Grows(R)
    <3> DEFINE R == seq_counter .. (seq_counter + n - 1)
    <3>1. n \in Nat /\ R \in SUBSET Nat /\ seq_counter' = seq_counter + n
      BY <2>0, <2>3 DEF HandleBatchInsert
    <3>2. WriteRecords(R) /\ memtable' = memtable \cup R
      BY <2>3 DEF HandleBatchInsert
    <3>3. \A r \in R : r < seq_counter + n
      BY <2>0, <3>1
    <3> HIDE DEF R
    <3>4. WalTypeOK' /\ Logged' \subseteq Logged \cup R
      BY <1>0, <3>1, <3>2, WriteType, WriteLogged
    <3>5. Grows(R)
      BY <2>0, <3>1, <3>2, <3>3, <3>4
    <3> QED
      BY <3>1, <3>5
  <2>4. ASSUME NEW n \in BatchSizes, HandleBatchInsertFails(n)
        PROVE  \E R \in SUBSET Nat : Grows(R)
    <3> DEFINE R == seq_counter .. (seq_counter + n - 1)
    <3>1. n \in Nat /\ R \in SUBSET Nat /\ seq_counter' = seq_counter + n
      BY <2>0, <2>4 DEF HandleBatchInsertFails
    <3>2. WriteFails(R) /\ memtable' = memtable
      BY <2>4 DEF HandleBatchInsertFails
    <3>3. \A r \in R : r < seq_counter + n
      BY <2>0, <3>1
    <3> HIDE DEF R
    <3>4. WalTypeOK' /\ Logged' \subseteq Logged \cup R
      BY <1>0, <3>1, <3>2, WriteType, WriteFailsLogged
    <3>5. Grows(R)
      BY <2>0, <3>1, <3>2, <3>3, <3>4
    <3> QED
      BY <3>1, <3>5
  <2>5. CASE HandleQuery \/ EndBatch \/ EndBatchFails
    <3>1. WalTypeOK'
      BY <1>0, <2>5, FlushBufferType DEF HandleQuery, EndBatch, EndBatchFails,
         walVars, WalTypeOK
    <3>2. Logged' \subseteq Logged
      BY <1>0, <2>5, FlushBufferLogged DEF HandleQuery, EndBatch, EndBatchFails,
         walVars, Logged, Recovered
    <3>3. UNCHANGED <<memtable, seq_counter>>
      BY <2>5 DEF HandleQuery, EndBatch, EndBatchFails, engineVars
    <3>4. Grows({})
      BY <2>0, <3>1, <3>2, <3>3
    <3> QED
      BY <2>0, <3>4
  <2> QED
    BY <2>1, <2>2, <2>3, <2>4, <2>5
<1>7. TypeOK'
  <2>1. IoTypeOK'
    BY <1>0, <1>1, <1>5 DEF IoTypeOK, jobVars
  <2>2. memtable' \subseteq Nat
    BY <1>0, <1>6 DEF TypeOK
  <2> QED
    BY <1>0, <1>1, <1>3, <1>4, <1>6, <2>1, <2>2
       DEF TypeOK, jobVars, cleanupVars, history
<1>8. SeqBelow'
  <2>1. PICK R \in SUBSET Nat :
          /\ Logged' \subseteq Logged \cup R
          /\ memtable' \subseteq memtable \cup R
          /\ seq_counter <= seq_counter'
          /\ \A r \in R : r < seq_counter'
    BY <1>6
  <2>2. Stored' \subseteq Stored \cup R
    BY <1>1, <1>2, <2>1 DEF Stored, jobVars, Content
  <2>3. \A r \in Stored \cup Logged : r < seq_counter'
    <3>1. Stored \cup Logged \subseteq Nat /\ seq_counter \in Nat /\ seq_counter' \in Nat
      BY <1>0, <1>7, RecordsType DEF TypeOK
    <3> QED
      BY <1>0, <2>1, <3>1 DEF SeqBelow
  <2> QED
    BY <2>1, <2>2, <2>3 DEF SeqBelow
<1> QED
  BY <1>2, <1>7, <1>8 DEF IInv, JobInv

-----------------------------------------------------------------------------
\* SendIoCmd moves a command from the outbox to the channel.
LEMMA SendIoCmdStep == IInv /\ SendIoCmd => IInv'
<1> SUFFICES ASSUME IInv, SendIoCmd PROVE IInv'
  OBVIOUS
<1> DEFINE h == Head(outbox)
<1>0. /\ TypeOK /\ WalTypeOK /\ IoTypeOK /\ JobShape /\ JobsOnce /\ JobFiles
      /\ CompactionsMarked /\ SeqBelow
  BY DEF IInv, TypeOK
<1>1. /\ outbox # <<>> /\ Len(ioCmds) < ChannelCapacity
      /\ ioCmds' = Append(ioCmds, h) /\ outbox' = Tail(outbox)
      /\ UNCHANGED <<running, sending, ioResults, notified, sstFile, pc,
                     needs_flush, walVars, engineVars, cleanupVars, history>>
  BY DEF SendIoCmd
<1>2. /\ outbox' \in Seq(IoCommand) /\ h \in IoCommand
      /\ Range(outbox) = Range(outbox') \cup {h}
      /\ OncePerSeq(outbox') /\ h.id \notin Ids(Range(outbox'))
  BY <1>0, <1>1, TailFacts DEF TypeOK, JobsOnce
<1>3. h.id \notin Ids(Range(ioCmds)) /\ h.id \notin Ids(running)
  BY <1>0, <1>2 DEF JobsOnce, Ids
<1>4. /\ ioCmds' \in Seq(IoCommand) /\ Len(ioCmds') = Len(ioCmds) + 1
      /\ Range(ioCmds') = Range(ioCmds) \cup {h} /\ OncePerSeq(ioCmds')
  BY <1>0, <1>1, <1>2, <1>3, AppendFacts DEF IoTypeOK, JobsOnce
<1>5. Unwritten' = Unwritten /\ Written' = Written
  BY <1>1, <1>2, <1>4 DEF Unwritten, Written
<1>6. TypeOK'
  <2>1. IoTypeOK'
    BY <1>0, <1>1, <1>4, IoAssumption DEF IoTypeOK
  <2>2. WalTypeOK'
    BY <1>0, <1>1 DEF WalTypeOK, walVars
  <2> QED
    BY <1>0, <1>1, <1>2, <2>1, <2>2 DEF TypeOK, engineVars, cleanupVars, history
<1>7. JobShape'
  BY <1>0, <1>1, <1>5 DEF JobShape, Written
<1>8. JobsOnce'
  <2>1. /\ Ids(Range(outbox')) \subseteq Ids(Range(outbox))
        /\ Ids(Range(ioCmds')) \subseteq Ids(Range(ioCmds)) \cup {h.id}
    BY <1>2, <1>4 DEF Ids
  <2>2. /\ Ids(Range(outbox')) \cap Ids(Range(ioCmds')) = {}
        /\ Ids(Range(outbox')) \cap Ids(running) = {}
        /\ Ids(Range(ioCmds')) \cap Ids(running) = {}
    BY <1>0, <1>2, <1>3, <2>1 DEF JobsOnce
  <2> QED
    BY <1>0, <1>1, <1>2, <1>4, <2>2 DEF JobsOnce
<1>9. JobFiles' /\ CompactionsMarked'
  BY <1>0, <1>1, <1>5 DEF JobFiles, CompactionsMarked, CompactionsDisjoint,
     Compactions, engineVars
<1>10. SeqBelow'
  BY <1>0, <1>1, <1>5 DEF SeqBelow, Stored, Logged, Content, Recovered,
     engineVars, walVars
<1> QED
  BY <1>6, <1>7, <1>8, <1>9, <1>10 DEF IInv

\* What would survive losing power is a set of records.
LEMMA DurableType ==
  ASSUME WalTypeOK', IoTypeOK'
  PROVE  Durable' \subseteq Nat
BY DEF WalTypeOK, IoTypeOK, Durable, Recovered, Content

\* A step of the IoWorker that keeps its own types keeps those of the Backend.
LEMMA WorkerType ==
  ASSUME TypeOK, BackendWaits, WalTypeOK', IoTypeOK',
         DOMAIN sstFile \subseteq DOMAIN sstFile'
  PROVE  TypeOK'
BY DurableType DEF TypeOK, BackendWaits, loopVars, engineVars, cleanupVars

\* An fsync, on a notification or a tick, moves no record and no job.
LEMMA SyncStep == IInv /\ Sync => IInv'
<1> SUFFICES ASSUME IInv, Sync PROVE IInv'
  OBVIOUS
<1>0. TypeOK /\ WalTypeOK /\ IoTypeOK /\ JobInv /\ SeqBelow
  BY DEF IInv, JobInv, TypeOK
<1>1. /\ Fsync /\ notified' = FALSE /\ BackendWaits
      /\ UNCHANGED <<wal, walBuf, halfTail, corrupt, syncer, ioCmds, running,
                     sending, ioResults, sstFile>>
  BY DEF Sync, HandleSync
<1>2. WalTypeOK'
  BY <1>0, <1>1, FsyncType DEF WalTypeOK
<1>3. IoTypeOK'
  BY <1>0, <1>1 DEF IoTypeOK
<1>4. TypeOK'
  BY <1>0, <1>1, <1>2, <1>3, WorkerType
<1>5. JobInv' /\ Unwritten' = Unwritten
  BY <1>0, <1>1, JobsUntouched DEF BackendWaits, loopVars, engineVars, jobVars,
     TypeOK
<1>6. SeqBelow'
  BY <1>0, <1>1, <1>5 DEF SeqBelow, Stored, Logged, Content, Recovered,
     BackendWaits, engineVars
<1> QED
  BY <1>4, <1>5, <1>6 DEF IInv, JobInv

\* The ResyncWal at the head of the channel is consumed.
LEMMA ResyncStep == IInv /\ (Resync \/ ResyncFails) => IInv'
<1> SUFFICES ASSUME IInv, Resync \/ ResyncFails PROVE IInv'
  OBVIOUS
<1> DEFINE h == Head(ioCmds)
<1>0. /\ TypeOK /\ WalTypeOK /\ IoTypeOK /\ JobShape /\ JobsOnce /\ JobFiles
      /\ CompactionsMarked /\ SeqBelow
  BY DEF IInv, TypeOK
<1>1. /\ ioCmds # <<>> /\ h.op = "resync" /\ ioCmds' = Tail(ioCmds)
      /\ BackendWaits
      /\ UNCHANGED <<wal, walBuf, halfTail, corrupt, running, sending, ioResults,
                     notified, sstFile>>
  BY DEF Resync, HandleResync, ResyncFails, HandleResyncFails, walVars
<1>2. /\ ioCmds' \in Seq(IoCommand) /\ Len(ioCmds') = Len(ioCmds) - 1
      /\ Range(ioCmds') \subseteq Range(ioCmds) /\ OncePerSeq(ioCmds')
  BY <1>0, <1>1, TailFacts DEF IoTypeOK, JobsOnce
<1>3. /\ Unwritten' \subseteq Unwritten /\ Written' = Written
      /\ Ids(Unwritten') \subseteq Ids(Unwritten)
      /\ Ids(Range(ioCmds')) \subseteq Ids(Range(ioCmds))
      /\ UNCHANGED <<outbox, engineVars>>
  BY <1>1, <1>2 DEF Unwritten, Written, Ids, BackendWaits, loopVars
<1>4. TypeOK'
  <2>1. WalTypeOK'
    BY <1>0, <1>1, FsyncType DEF WalTypeOK, Resync, HandleResync, ResyncFails,
       HandleResyncFails, walVars
  <2>2. IoTypeOK'
    BY <1>0, <1>1, <1>2, IoAssumption DEF IoTypeOK
  <2> QED
    BY <1>0, <1>1, <2>1, <2>2, WorkerType
<1>5. JobShape'
  BY <1>0, <1>1, <1>3 DEF JobShape
<1>6. JobsOnce'
  BY <1>0, <1>1, <1>2, <1>3 DEF JobsOnce
<1>7. JobFiles' /\ CompactionsMarked'
  BY <1>0, <1>1, <1>3 DEF JobFiles, CompactionsMarked, CompactionsDisjoint,
     Compactions, engineVars
<1>8. SeqBelow'
  BY <1>0, <1>1, <1>3 DEF SeqBelow, Stored, Logged, Content, Recovered, engineVars
<1> QED
  BY <1>4, <1>5, <1>6, <1>7, <1>8 DEF IInv

\* A command becomes a task.
LEMMA SpawnStep == IInv /\ Spawn => IInv'
<1> SUFFICES ASSUME IInv, Spawn PROVE IInv'
  OBVIOUS
<1> DEFINE h == Head(ioCmds)
<1>0. /\ TypeOK /\ WalTypeOK /\ IoTypeOK /\ JobShape /\ JobsOnce /\ JobFiles
      /\ CompactionsMarked /\ SeqBelow
  BY DEF IInv, TypeOK
<1>1. /\ ioCmds # <<>> /\ h.op # "resync" /\ ioCmds' = Tail(ioCmds)
      /\ running' = running \cup {h}
      /\ BackendWaits
      /\ UNCHANGED <<sending, ioResults, notified, sstFile, walVars>>
  BY DEF Spawn, HandleSpawn
<1>2. /\ ioCmds' \in Seq(IoCommand) /\ Len(ioCmds') = Len(ioCmds) - 1
      /\ h \in IoCommand /\ Range(ioCmds) = Range(ioCmds') \cup {h}
      /\ OncePerSeq(ioCmds') /\ h.id \notin Ids(Range(ioCmds'))
  BY <1>0, <1>1, TailFacts DEF IoTypeOK, JobsOnce
<1>3. /\ Unwritten' = Unwritten /\ Written' = Written
      /\ UNCHANGED <<outbox, engineVars>>
  BY <1>1, <1>2 DEF Unwritten, Written, BackendWaits, loopVars
<1>4. h.id # Active
  BY <1>0, <1>1, <1>2 DEF JobShape, Unwritten
<1>5. TypeOK'
  <2>1. WalTypeOK'
    BY <1>0, <1>1 DEF WalTypeOK, walVars
  <2>2. IoTypeOK'
    BY <1>0, <1>1, <1>2, IoAssumption DEF IoTypeOK
  <2> QED
    BY <1>0, <1>1, <2>1, <2>2, WorkerType
<1>6. JobShape'
  BY <1>0, <1>1, <1>3 DEF JobShape
<1>7. JobsOnce'
  <2>1. /\ Ids(Range(ioCmds')) \subseteq Ids(Range(ioCmds))
        /\ h.id \in Ids(Range(ioCmds))
        /\ Ids(running') = Ids(running) \cup {h.id}
    BY <1>1, <1>2, <1>4 DEF Ids
  <2>2. h.id \notin Ids(running) /\ h.id \notin Ids(Range(outbox))
    BY <1>0, <2>1 DEF JobsOnce
  <2>3. OncePerSet(running')
    BY <1>0, <1>1, <1>4, <2>2 DEF JobsOnce, OncePerSet, Ids
  <2>4. /\ Ids(Range(outbox)) \cap Ids(Range(ioCmds')) = {}
        /\ Ids(Range(outbox)) \cap Ids(running') = {}
        /\ Ids(Range(ioCmds')) \cap Ids(running') = {}
    BY <1>0, <1>2, <2>1, <2>2 DEF JobsOnce
  <2> QED
    BY <1>0, <1>1, <1>2, <1>3, <2>3, <2>4 DEF JobsOnce
<1>8. JobFiles' /\ CompactionsMarked'
  BY <1>0, <1>1, <1>3 DEF JobFiles, CompactionsMarked, CompactionsDisjoint,
     Compactions, engineVars
<1>9. SeqBelow'
  BY <1>0, <1>1, <1>3 DEF SeqBelow, Stored, Logged, Content, Recovered,
     engineVars, walVars
<1> QED
  BY <1>5, <1>6, <1>7, <1>8, <1>9 DEF IInv

\* A task writes its SSTable file, under an id that has none.
LEMMA TaskWritesStep ==
  ASSUME IInv, NEW t \in running, TaskWrites(t)
  PROVE  IInv' /\ t.id \notin DOMAIN sstFile
<1>0. /\ TypeOK /\ WalTypeOK /\ IoTypeOK /\ JobShape /\ JobsOnce /\ JobFiles
      /\ CompactionsMarked /\ SeqBelow
  BY DEF IInv, TypeOK
<1>1. PICK R \in MayWrite(t) : sstFile' = Put(sstFile, t.id, R)
  BY DEF TaskWrites, WriteSst
<1>2. /\ running' = running \ {t} /\ sending' = sending \cup {t}
      /\ BackendWaits
      /\ UNCHANGED <<ioCmds, ioResults, notified, walVars>>
  BY DEF TaskWrites, WriteSst
<1>3. UNCHANGED <<outbox, engineVars>>
  BY <1>2 DEF BackendWaits, loopVars
<1>4. /\ t \in IoCommand /\ t \in Unwritten /\ t.id \in Nat \ {0}
      /\ t.id \in Ids(Unwritten) /\ t.id \in Ids(running)
  <2>1. t \in IoCommand /\ t \in Unwritten /\ t.id # Active
    BY <1>0 DEF IoTypeOK, JobShape, Unwritten
  <2> QED
    BY <2>1 DEF IoCommand, Ids, Active
<1>5. t.id \notin DOMAIN sstFile /\ t.id < sst_counter
  BY <1>0, <1>4 DEF JobFiles
<1>6. /\ DOMAIN sstFile' = DOMAIN sstFile \cup {t.id} /\ sstFile'[t.id] = R
      /\ \A x \in DOMAIN sstFile : sstFile'[x] = sstFile[x]
  BY <1>1, <1>5 DEF Put
<1>7. R \subseteq t.recs \cup Content(sstFile)
  <2>1. CASE t.op = "flush"
    BY <2>1 DEF MayWrite
  <2>2. CASE t.op # "flush"
    <3>1. t.op = "compact"
      BY <1>0, <1>4, <2>2 DEF JobShape, IoCommand
    <3>2. t.tables \subseteq DOMAIN sstFile
      BY <1>0, <1>4, <3>1 DEF CompactionsMarked, CompactionsDisjoint, Compactions, TypeOK
    <3>3. PICK opened \in SUBSET t.tables : R = UNION {sstFile[i] : i \in opened}
      BY <2>2 DEF MayWrite
    <3> QED
      BY <3>2, <3>3 DEF Content
  <2> QED
    BY <2>1, <2>2
<1>8. R \subseteq Nat
  <2>1. Content(sstFile) \subseteq Nat
    BY <1>0 DEF IoTypeOK, Content
  <2> QED
    BY <1>4, <1>7, <2>1 DEF IoCommand
<1>9. TypeOK'
  <2>1. WalTypeOK'
    BY <1>0, <1>2 DEF WalTypeOK, walVars
  <2>2. IoTypeOK'
    BY <1>0, <1>2, <1>4, <1>6, <1>8 DEF IoTypeOK
  <2> QED
    BY <1>0, <1>2, <1>6, <2>1, <2>2, WorkerType
<1>10. /\ Unwritten' \subseteq Unwritten /\ Written' = Written \cup {t}
       /\ Unwritten' \cup Written' = Unwritten \cup Written
  BY <1>2, <1>3, <1>4 DEF Unwritten, Written
<1>11. JobShape'
  BY <1>0, <1>2, <1>10 DEF JobShape
<1>12. /\ Ids(running') \subseteq Ids(running) \ {t.id}
       /\ Ids(sending') = Ids(sending) \cup {t.id}
       /\ Ids(Written') = Ids(Written) \cup {t.id}
  BY <1>0, <1>2, <1>4, <1>10 DEF Ids, JobsOnce, OncePerSet, Active
<1>13. t.id \notin Ids(Written)
  BY <1>0, <1>5 DEF JobFiles
<1>14. Ids(sending) \subseteq Ids(Written) /\ Ids(Range(ioResults)) \subseteq Ids(Written)
  BY DEF Ids, Written
<1>15. JobsOnce'
  <2>1. OncePerSet(running')
    BY <1>0, <1>2 DEF JobsOnce, OncePerSet
  <2>2. OncePerSet(sending')
    BY <1>0, <1>2, <1>4, <1>13, <1>14 DEF JobsOnce, OncePerSet, Ids, Active
  <2>3. /\ Ids(Range(outbox)) \cap Ids(running') = {}
        /\ Ids(Range(ioCmds)) \cap Ids(running') = {}
        /\ Ids(sending') \cap Ids(Range(ioResults)) = {}
    BY <1>0, <1>12, <1>13, <1>14 DEF JobsOnce
  <2> QED
    BY <1>0, <1>2, <1>3, <2>1, <2>2, <2>3 DEF JobsOnce
<1>16. JobFiles'
  <2>1. Ids(Unwritten') \subseteq Ids(Unwritten) \ {t.id}
    <3>1. /\ Ids(Unwritten') = Ids(Range(outbox)) \cup Ids(Range(ioCmds)) \cup Ids(running')
          /\ Ids(Unwritten) = Ids(Range(outbox)) \cup Ids(Range(ioCmds)) \cup Ids(running)
      BY <1>2, <1>3 DEF Unwritten, Ids
    <3> QED
      BY <1>0, <1>4, <1>12, <3>1 DEF JobsOnce
  <2>2. t.id \notin sstable_map
    BY <1>0, <1>5 DEF TypeOK
  <2> QED
    BY <1>0, <1>3, <1>5, <1>6, <1>12, <2>1, <2>2 DEF JobFiles, engineVars
<1>17. CompactionsMarked'
  BY <1>0, <1>3, <1>10 DEF CompactionsMarked, CompactionsDisjoint, Compactions,
     engineVars
<1>18. SeqBelow'
  <2>1. Content(sstFile') = Content(sstFile) \cup R
    BY <1>6 DEF Content
  <2>2. t.recs \subseteq UNION {c.recs : c \in Unwritten}
    BY <1>4
  <2>3. Stored' \subseteq Stored
    BY <1>3, <1>7, <1>10, <2>1, <2>2 DEF Stored, engineVars
  <2>4. Logged' = Logged
    BY <1>2 DEF Logged, Recovered, walVars
  <2> QED
    BY <1>0, <1>3, <2>3, <2>4 DEF SeqBelow, engineVars
<1> QED
  BY <1>5, <1>9, <1>11, <1>15, <1>16, <1>17, <1>18 DEF IInv

\* A task fails: its command is gone.
LEMMA TaskFailsStep ==
  ASSUME IInv, NEW t \in running, TaskFails(t)
  PROVE  IInv'
<1>0. /\ TypeOK /\ WalTypeOK /\ IoTypeOK /\ JobShape /\ JobsOnce /\ JobFiles
      /\ CompactionsMarked /\ SeqBelow
  BY DEF IInv, TypeOK
<1>1. /\ running' = running \ {t} /\ BackendWaits
      /\ UNCHANGED <<ioCmds, sending, ioResults, notified, sstFile, walVars>>
  BY DEF TaskFails, WriteSstFails
<1>2. UNCHANGED <<outbox, engineVars>>
  BY <1>1 DEF BackendWaits, loopVars
<1>3. /\ Unwritten' \subseteq Unwritten /\ Written' = Written
      /\ Ids(Unwritten') \subseteq Ids(Unwritten)
      /\ Ids(running') \subseteq Ids(running)
  BY <1>1, <1>2 DEF Unwritten, Written, Ids
<1>4. TypeOK'
  <2>1. WalTypeOK' /\ IoTypeOK'
    BY <1>0, <1>1 DEF WalTypeOK, walVars, IoTypeOK
  <2> QED
    BY <1>0, <1>1, <2>1, WorkerType
<1>5. JobShape'
  BY <1>0, <1>1, <1>3 DEF JobShape
<1>6. JobsOnce'
  <2>1. OncePerSet(running')
    BY <1>0, <1>1 DEF JobsOnce, OncePerSet
  <2> QED
    BY <1>0, <1>1, <1>2, <1>3, <2>1 DEF JobsOnce
<1>7. JobFiles' /\ CompactionsMarked'
  BY <1>0, <1>1, <1>2, <1>3 DEF JobFiles, CompactionsMarked, CompactionsDisjoint,
     Compactions, engineVars
<1>8. SeqBelow'
  BY <1>0, <1>1, <1>2, <1>3 DEF SeqBelow, Stored, Logged, Content, Recovered,
     engineVars, walVars
<1> QED
  BY <1>4, <1>5, <1>6, <1>7, <1>8 DEF IInv

\* A task sends its result.
LEMMA TaskSendsStep ==
  ASSUME IInv, NEW t \in sending, TaskSends(t)
  PROVE  IInv'
<1>0. /\ TypeOK /\ WalTypeOK /\ IoTypeOK /\ JobShape /\ JobsOnce /\ JobFiles
      /\ CompactionsMarked /\ SeqBelow
  BY DEF IInv, TypeOK
<1>1. /\ ioResults' = Append(ioResults, t) /\ sending' = sending \ {t}
      /\ Len(ioResults) < ChannelCapacity
      /\ BackendWaits
      /\ UNCHANGED <<ioCmds, running, notified, sstFile, walVars>>
  BY DEF TaskSends, SendResult
<1>2. UNCHANGED <<outbox, engineVars>>
  BY <1>1 DEF BackendWaits, loopVars
<1>3. t \in IoCommand /\ t.id # Active /\ t.id \in Ids(sending)
  BY <1>0 DEF IoTypeOK, JobShape, Written, Ids
<1>4. t.id \notin Ids(Range(ioResults))
  BY <1>0, <1>3 DEF JobsOnce
<1>5. /\ ioResults' \in Seq(IoCommand) /\ Len(ioResults') = Len(ioResults) + 1
      /\ Range(ioResults') = Range(ioResults) \cup {t} /\ OncePerSeq(ioResults')
  BY <1>0, <1>1, <1>3, <1>4, AppendFacts DEF IoTypeOK, JobsOnce
<1>6. Unwritten' = Unwritten /\ Written' = Written
  BY <1>1, <1>2, <1>5 DEF Unwritten, Written
<1>7. TypeOK'
  <2>1. WalTypeOK'
    BY <1>0, <1>1 DEF WalTypeOK, walVars
  <2>2. IoTypeOK'
    BY <1>0, <1>1, <1>5, IoAssumption DEF IoTypeOK
  <2> QED
    BY <1>0, <1>1, <2>1, <2>2, WorkerType
<1>8. JobShape'
  BY <1>0, <1>1, <1>6 DEF JobShape
<1>9. JobsOnce'
  <2>1. OncePerSet(sending')
    BY <1>0, <1>1 DEF JobsOnce, OncePerSet
  <2>2. /\ Ids(sending') \subseteq Ids(sending) \ {t.id}
        /\ Ids(Range(ioResults')) \subseteq Ids(Range(ioResults)) \cup {t.id}
    BY <1>0, <1>1, <1>5 DEF Ids, JobsOnce, OncePerSet
  <2>3. Ids(sending') \cap Ids(Range(ioResults')) = {}
    BY <1>0, <2>2 DEF JobsOnce
  <2> QED
    BY <1>0, <1>1, <1>2, <1>5, <2>1, <2>3 DEF JobsOnce
<1>10. JobFiles' /\ CompactionsMarked'
  BY <1>0, <1>1, <1>2, <1>6 DEF JobFiles, CompactionsMarked, CompactionsDisjoint,
     Compactions, engineVars
<1>11. SeqBelow'
  BY <1>0, <1>1, <1>2, <1>6 DEF SeqBelow, Stored, Logged, Content, Recovered,
     engineVars, walVars
<1> QED
  BY <1>7, <1>8, <1>9, <1>10, <1>11 DEF IInv

-----------------------------------------------------------------------------
\* A flush that fails to rotate the WAL orders nothing; its id is used up.
LEMMA SendFlushCmdFailsStep == IInv /\ SendFlushCmdFails => IInv'
<1> SUFFICES ASSUME IInv, SendFlushCmdFails PROVE IInv'
  OBVIOUS
<1>0. TypeOK /\ WalTypeOK /\ IoTypeOK /\ JobInv /\ SeqBelow
  BY DEF IInv, JobInv, TypeOK
<1>1. /\ pc' = "select" /\ memtable' = {}
      /\ FlushBuffer \/ FlushFails
      /\ frozen' = Put(frozen, sst_counter, memtable)
      /\ sst_counter' = sst_counter + 1
      /\ UNCHANGED <<needs_flush, sstable_map, compacting, seq_counter, outbox,
                     ioVars, cleanupVars, history>>
  BY DEF SendFlushCmdFails, PrepareFlush
<1>2. sst_counter \in Nat \ {0} /\ sst_counter' \in Nat \ {0} /\ sst_counter' >= sst_counter
  BY <1>0, <1>1 DEF TypeOK
<1>3. JobInv' /\ Unwritten' = Unwritten
  BY <1>0, <1>1, <1>2, JobsUntouched DEF jobVars, ioVars
<1>4. /\ DOMAIN frozen' = DOMAIN frozen \cup {sst_counter}
      /\ \A id \in DOMAIN frozen' : frozen'[id] \subseteq memtable \cup Content(frozen)
  BY <1>1 DEF Put, Content
<1>5. TypeOK'
  <2>1. WalTypeOK' /\ IoTypeOK'
    BY <1>0, <1>1, FlushBufferType DEF IoTypeOK, ioVars
  <2>2. memtable \cup Content(frozen) \subseteq Nat
    BY <1>0 DEF TypeOK, Content
  <2> QED
    BY <1>0, <1>1, <1>2, <1>4, <2>1, <2>2
       DEF TypeOK, ioVars, cleanupVars, history
<1>6. SeqBelow'
  <2>1. Stored' \subseteq Stored
    BY <1>1, <1>3, <1>4 DEF Stored, Content, ioVars
  <2> QED
    BY <1>0, <1>1, <2>1, FlushBufferLogged DEF SeqBelow
<1> QED
  BY <1>3, <1>5, <1>6 DEF IInv, JobInv

\* A flush is ordered under the next id.
LEMMA SendFlushCmdStep == IInv /\ SendFlushCmd => IInv'
<1> SUFFICES ASSUME IInv, SendFlushCmd PROVE IInv'
  OBVIOUS
<1> DEFINE f == FlushMemtable(sst_counter, memtable)
<1>0. /\ TypeOK /\ WalTypeOK /\ IoTypeOK /\ JobShape /\ JobsOnce /\ JobFiles
      /\ CompactionsMarked /\ SeqBelow
  BY DEF IInv, TypeOK
<1>1. /\ outbox = <<>> /\ pc' = "select" /\ memtable' = {} /\ Rotate(sst_counter)
      /\ frozen' = Put(frozen, sst_counter, memtable)
      /\ sst_counter' = sst_counter + 1
      /\ stale_wals' = stale_wals \cup {sst_counter}
      /\ outbox' = <<ResyncWal, f>>
      /\ UNCHANGED <<needs_flush, sstable_map, compacting, seq_counter, ioVars,
                     applied_flushes, next_wal_to_del, history>>
  BY DEF SendFlushCmd, PrepareFlush
<1>2. sst_counter \in Nat \ {0} /\ sst_counter' \in Nat \ {0} /\ sst_counter < sst_counter'
  BY <1>0, <1>1 DEF TypeOK
<1>3. /\ ResyncWal \in IoCommand /\ f \in IoCommand
      /\ ResyncWal.id = Active /\ ResyncWal.op = "resync" /\ ResyncWal.recs = {}
      /\ f.id = sst_counter /\ f.op = "flush" /\ f.recs = memtable
  BY <1>0, <1>2 DEF ResyncWal, FlushMemtable, IoCommand, Active, TypeOK
<1> HIDE DEF f
<1>4. /\ outbox' \in Seq(IoCommand) /\ Range(outbox) = {}
      /\ Range(outbox') = {ResyncWal, f}
      /\ OncePerSeq(outbox')
      /\ Ids(Range(outbox')) = {sst_counter}
  <2>1. /\ DOMAIN outbox' = 1 .. 2 /\ outbox'[1] = ResyncWal /\ outbox'[2] = f
        /\ outbox' \in Seq(IoCommand) /\ DOMAIN outbox = {}
    BY <1>1, <1>3
  <2>2. Range(outbox') = {ResyncWal, f} /\ Range(outbox) = {}
    BY <2>1 DEF Range
  <2>3. OncePerSeq(outbox')
    BY <1>2, <1>3, <2>1 DEF OncePerSeq, Active
  <2>4. Ids(Range(outbox')) = {sst_counter}
    BY <1>2, <1>3, <2>2 DEF Ids, Active
  <2> QED
    BY <2>1, <2>2, <2>3, <2>4
<1>5. /\ Unwritten' = Unwritten \cup {ResyncWal, f} /\ Written' = Written
      /\ Ids(Unwritten') = Ids(Unwritten) \cup {sst_counter}
  <2>1. Unwritten' = Unwritten \cup {ResyncWal, f} /\ Written' = Written
    BY <1>1, <1>4 DEF Unwritten, Written, ioVars
  <2> QED
    BY <1>2, <1>3, <2>1 DEF Ids, Active
<1>6. sst_counter \notin Ids(Unwritten) /\ sst_counter \notin DOMAIN sstFile
  BY <1>0, <1>2 DEF JobFiles
<1>7. /\ DOMAIN frozen' = DOMAIN frozen \cup {sst_counter}
      /\ \A id \in DOMAIN frozen' : frozen'[id] \subseteq memtable \cup Content(frozen)
  BY <1>1 DEF Put, Content
<1>8. TypeOK'
  <2>1. WalTypeOK'
    BY <1>0, <1>1, <1>2, RotateType
  <2>2. IoTypeOK'
    BY <1>0, <1>1 DEF IoTypeOK, ioVars
  <2>3. memtable \cup Content(frozen) \subseteq Nat
    BY <1>0 DEF TypeOK, Content
  <2> QED
    BY <1>0, <1>1, <1>2, <1>4, <1>7, <2>1, <2>2, <2>3 DEF TypeOK, ioVars, history
<1>9. JobShape'
  BY <1>0, <1>1, <1>2, <1>3, <1>5 DEF JobShape, ioVars, Active
<1>10. JobsOnce'
  <2>1. sst_counter \notin Ids(Range(ioCmds)) /\ sst_counter \notin Ids(running)
    BY <1>6 DEF Unwritten, Ids
  <2> QED
    BY <1>0, <1>1, <1>4, <2>1 DEF JobsOnce, ioVars
<1>11. JobFiles'
  <2>1. \A i \in Ids(Unwritten) \cup DOMAIN sstFile : i \in Nat
    BY <1>0, JobsType DEF IoTypeOK
  <2>2. sstFile' = sstFile /\ sstable_map' = sstable_map /\ Ids(Written') = Ids(Written)
    BY <1>1, <1>5 DEF ioVars
  <2>3. \A i \in Ids(Unwritten) \cup DOMAIN sstFile : i < sst_counter'
    BY <1>0, <1>2, <2>1 DEF JobFiles
  <2> QED
    BY <1>0, <1>2, <1>5, <1>6, <2>2, <2>3 DEF JobFiles
<1>12. CompactionsMarked'
  <2>1. Compactions' = Compactions
    BY <1>3, <1>5 DEF Compactions
  <2> QED
    BY <1>0, <1>1, <2>1 DEF CompactionsMarked, CompactionsDisjoint
<1>13. SeqBelow'
  <2>1. Stored' \subseteq Stored
    BY <1>1, <1>3, <1>5, <1>7 DEF Stored, Content, ioVars
  <2> QED
    BY <1>0, <1>1, <1>2, <2>1, RotateLogged DEF SeqBelow
<1> QED
  BY <1>8, <1>9, <1>10, <1>11, <1>12, <1>13 DEF IInv

-----------------------------------------------------------------------------
\* What send_compaction_cmd orders, if anything.
LEMMA CompactionOrdered ==
  ASSUME NEW live \in SUBSET Nat, NEW busy \in SUBSET live,
         sst_counter \in Nat \ {0}, outbox = <<>>,
         SendCompactionCmd(live, busy)
  PROVE  /\ outbox' \in Seq(IoCommand) /\ OncePerSeq(outbox')
         /\ busy \subseteq compacting' /\ compacting' \subseteq live
         /\ sst_counter' \in Nat \ {0} /\ sst_counter <= sst_counter'
         /\ \A c, d \in Range(outbox') : c = d
         /\ \A c \in Range(outbox') :
              /\ c.op = "compact" /\ c.id = sst_counter /\ c.recs = {}
              /\ c.tables \subseteq live \ busy /\ c.tables \subseteq compacting'
              /\ sst_counter < sst_counter'
<1> DEFINE metas == Oldest(live \ busy, CompactionWidth)
           cmd   == CompactSSTables(sst_counter, metas)
<1>1. metas \subseteq live \ busy
  BY DEF Oldest
<1>2. /\ cmd \in IoCommand /\ cmd.op = "compact" /\ cmd.id = sst_counter
      /\ cmd.recs = {} /\ cmd.tables = metas
  BY <1>1 DEF CompactSSTables, IoCommand
<1>3. CASE outbox' = <<cmd>> /\ compacting' = busy \cup metas
             /\ sst_counter' = sst_counter + 1
  <2> HIDE DEF cmd, metas
  <2>1. /\ outbox' \in Seq(IoCommand) /\ DOMAIN outbox' = 1 .. 1
        /\ outbox'[1] = cmd
    BY <1>2, <1>3
  <2>2. Range(outbox') = {cmd} /\ OncePerSeq(outbox')
    BY <2>1 DEF Range, OncePerSeq
  <2>3. sst_counter' \in Nat \ {0} /\ sst_counter < sst_counter' /\ sst_counter <= sst_counter'
    BY <1>3
  <2>4. /\ busy \subseteq compacting' /\ compacting' \subseteq live
        /\ cmd.tables \subseteq live \ busy /\ cmd.tables \subseteq compacting'
    BY <1>1, <1>2, <1>3
  <2>5. \A c \in Range(outbox') : c = cmd
    BY <2>2
  <2> QED
    BY <1>2, <2>1, <2>2, <2>3, <2>4, <2>5
<1>4. CASE outbox' = outbox /\ compacting' = busy /\ sst_counter' = sst_counter
  <2>1. outbox' = <<>> /\ outbox' \in Seq(IoCommand) /\ DOMAIN outbox' = {}
    BY <1>4
  <2>2. Range(outbox') = {} /\ OncePerSeq(outbox')
    BY <2>1 DEF Range, OncePerSeq
  <2> QED
    BY <1>4, <2>1, <2>2
<1> QED
  BY <1>3, <1>4 DEF SendCompactionCmd

\* The jobs after a result was applied and, perhaps, a compaction ordered.
LEMMA ResultApplied ==
  ASSUME IInv, NEW op, RecvResult(op),
         NEW live, NEW busy,
         Head(ioResults).id \in live,
         live \subseteq sstable_map \cup {Head(ioResults).id},
         busy \subseteq live,
         \A d \in Compactions : d # Head(ioResults) => d.tables \subseteq busy,
         SendCompactionCmd(live, busy),
         sstable_map' = live,
         DOMAIN sstFile' \subseteq DOMAIN sstFile,
         Ids(Written) \cup live \subseteq DOMAIN sstFile',
         UNCHANGED <<ioCmds, running, sending>>
  PROVE  /\ JobInv'
         /\ outbox' \in Seq(IoCommand) /\ compacting' \subseteq live
         /\ sst_counter' \in Nat \ {0}
         /\ ioResults' \in Seq(IoCommand) /\ Len(ioResults') <= ChannelCapacity
         /\ UNION {c.recs : c \in Unwritten'} \subseteq UNION {c.recs : c \in Unwritten}
<1> DEFINE h == Head(ioResults)
<1>0. /\ TypeOK /\ IoTypeOK /\ JobShape /\ JobsOnce /\ JobFiles
      /\ CompactionsMarked
  BY DEF IInv, TypeOK
<1>1. outbox = <<>> /\ ioResults # <<>> /\ ioResults' = Tail(ioResults)
  BY DEF RecvResult
<1>2. /\ ioResults' \in Seq(IoCommand) /\ Len(ioResults') = Len(ioResults) - 1
      /\ h \in IoCommand /\ Range(ioResults) = Range(ioResults') \cup {h}
      /\ OncePerSeq(ioResults') /\ h.id \notin Ids(Range(ioResults'))
  BY <1>0, <1>1, TailFacts DEF IoTypeOK, JobsOnce
<1>3. h \in Written /\ h.id # Active /\ h.id \in Ids(Range(ioResults)) /\ h.id \in Ids(Written)
  BY <1>0, <1>2 DEF Written, JobShape, Ids
<1>4. live \in SUBSET Nat /\ busy \in SUBSET live /\ sst_counter \in Nat \ {0}
  BY <1>0, <1>2 DEF TypeOK, IoTypeOK, IoCommand
<1>5. /\ outbox' \in Seq(IoCommand) /\ OncePerSeq(outbox')
      /\ busy \subseteq compacting' /\ compacting' \subseteq live
      /\ sst_counter' \in Nat \ {0} /\ sst_counter <= sst_counter'
      /\ \A c, d \in Range(outbox') : c = d
      /\ \A c \in Range(outbox') :
           /\ c.op = "compact" /\ c.id = sst_counter /\ c.recs = {}
           /\ c.tables \subseteq live \ busy /\ c.tables \subseteq compacting'
           /\ sst_counter < sst_counter'
  BY <1>1, <1>4, CompactionOrdered
<1> HIDE DEF h
<1>6. Range(outbox) = {}
  BY <1>1 DEF Range
<1>7. /\ Unwritten' = Unwritten \cup Range(outbox')
      /\ Written' \subseteq Written
      /\ Ids(Unwritten') = Ids(Unwritten) \cup Ids(Range(outbox'))
      /\ Ids(Range(outbox')) \subseteq {sst_counter}
  <2>1. Unwritten' = Unwritten \cup Range(outbox') /\ Written' \subseteq Written
    BY <1>2, <1>6 DEF Unwritten, Written
  <2> QED
    BY <1>5, <2>1 DEF Ids
<1>8. h.id \notin Ids(Written')
  <2>1. h.id \notin Ids(sending)
    BY <1>0, <1>3 DEF JobsOnce
  <2> QED
    BY <1>2, <2>1 DEF Written, Ids
<1>9. \A i \in Ids(Unwritten) \cup DOMAIN sstFile : i \in Nat /\ i < sst_counter
  BY <1>0, JobsType DEF IoTypeOK, JobFiles
<1>10. JobShape'
  BY <1>0, <1>4, <1>5, <1>7 DEF JobShape, Active
<1>11. JobsOnce'
  <2>1. /\ sst_counter \notin Ids(Range(ioCmds)) /\ sst_counter \notin Ids(running)
        /\ Ids(Range(ioResults')) \subseteq Ids(Range(ioResults))
    BY <1>2, <1>4, <1>9 DEF Unwritten, Ids
  <2> QED
    BY <1>0, <1>2, <1>5, <1>7, <2>1 DEF JobsOnce
<1>12. JobFiles'
  <2>1. Ids(Unwritten') \cap DOMAIN sstFile' = {}
    BY <1>0, <1>4, <1>7, <1>9 DEF JobFiles
  <2>2. Ids(Written') \subseteq DOMAIN sstFile' \ live
    <3>1. Ids(Written') \subseteq Ids(Written)
      BY <1>7 DEF Ids
    <3> QED
      BY <1>0, <1>8, <3>1 DEF JobFiles, h
  <2>3. \A i \in Ids(Unwritten') \cup DOMAIN sstFile' : i < sst_counter'
    <3>1. \A i \in Ids(Unwritten) \cup DOMAIN sstFile : i < sst_counter'
      BY <1>4, <1>5, <1>9
    <3>2. \A i \in Ids(Range(outbox')) : i < sst_counter'
      BY <1>4, <1>5 DEF Ids
    <3> QED
      BY <1>7, <3>1, <3>2
  <2> QED
    BY <2>1, <2>2, <2>3 DEF JobFiles
<1>13. CompactionsMarked'
  <2>1. h \notin Unwritten
    BY <1>0, <1>3 DEF JobFiles, Ids
  <2>2. h \notin Written'
    BY <1>3, <1>8 DEF Ids
  <2>3. \A c \in Compactions' : \/ c \in Range(outbox')
                                \/ c \in Compactions /\ c # h
    BY <1>7, <2>1, <2>2 DEF Compactions
  <2>4. \A c \in Compactions : c # h => c.tables \subseteq busy
    BY DEF h
  <2>5. \A c \in Compactions' : c.tables \subseteq compacting' /\ c.tables \subseteq live
    BY <1>4, <1>5, <2>3, <2>4
  <2>6. ASSUME NEW c \in Compactions', NEW d \in Compactions', c # d
        PROVE  c.tables \cap d.tables = {}
    <3>1. CASE c \in Range(outbox')
      BY <1>5, <2>3, <2>4, <2>6, <3>1
    <3>2. CASE d \in Range(outbox')
      BY <1>5, <2>3, <2>4, <2>6, <3>2
    <3>3. CASE c \in Compactions /\ d \in Compactions
      BY <1>0, <2>6, <3>3 DEF CompactionsMarked, CompactionsDisjoint
    <3> QED
      BY <2>3, <3>1, <3>2, <3>3
  <2> QED
    BY <2>5, <2>6 DEF CompactionsMarked, CompactionsDisjoint
<1>14. UNION {c.recs : c \in Unwritten'} \subseteq UNION {c.recs : c \in Unwritten}
  BY <1>5, <1>7
<1>15. Len(ioResults') <= ChannelCapacity
  BY <1>0, <1>1, <1>2, IoAssumption DEF IoTypeOK
<1> QED
  BY <1>2, <1>5, <1>10, <1>11, <1>12, <1>13, <1>14, <1>15 DEF JobInv

\* A flush is applied: its SSTable is live, its memtable gone, WALs deleted.
LEMMA ApplyFlushStep == IInv /\ ApplyFlushResult => IInv'
<1> SUFFICES ASSUME IInv, ApplyFlushResult PROVE IInv'
  OBVIOUS
<1> DEFINE h == Head(ioResults)
           live == sstable_map \cup {h.id}
<1>0. /\ TypeOK /\ WalTypeOK /\ IoTypeOK /\ JobShape /\ JobsOnce /\ JobFiles
      /\ CompactionsMarked /\ SeqBelow
  BY DEF IInv, TypeOK
<1>1. /\ RecvResult("flush")
      /\ frozen' = Restrict(frozen, DOMAIN frozen \ {h.id})
      /\ applied_flushes' = applied_flushes \cup {h.id}
      /\ sstable_map' = live
      /\ SendCompactionCmd(live, compacting)
      /\ UNCHANGED <<ioCmds, running, sending, notified, sstFile, pc,
                     needs_flush, memtable, seq_counter, history>>
  BY DEF ApplyFlushResult
<1>2. PICK n \in next_wal_to_del .. (next_wal_to_del + sst_counter) :
        /\ next_wal_to_del' = n
        /\ stale_wals' = stale_wals \ (next_wal_to_del .. (n - 1))
        /\ RemoveFiles(stale_wals \cap (next_wal_to_del .. (n - 1)))
  BY DEF ApplyFlushResult
<1>3. h \in IoCommand /\ h \in Written /\ h.id # Active /\ h.id \in Ids(Written)
  <2>1. h \in IoCommand /\ h \in Range(ioResults)
    BY <1>0, <1>1, TailFacts DEF IoTypeOK, RecvResult
  <2> QED
    BY <1>0, <2>1 DEF Written, JobShape, Ids
<1>4. h.id \in DOMAIN sstFile /\ live \subseteq DOMAIN sstFile /\ h.id \in Nat \ {0}
  BY <1>0, <1>3 DEF JobFiles, TypeOK, IoTypeOK
<1>5. \A d \in Compactions : d # h => d.tables \subseteq compacting
  BY <1>0 DEF CompactionsMarked
<1>6. compacting \subseteq live /\ Ids(Written) \cup live \subseteq DOMAIN sstFile'
  BY <1>0, <1>1, <1>4 DEF TypeOK, JobFiles
<1>7. /\ JobInv'
      /\ outbox' \in Seq(IoCommand) /\ compacting' \subseteq live
      /\ sst_counter' \in Nat \ {0}
      /\ ioResults' \in Seq(IoCommand) /\ Len(ioResults') <= ChannelCapacity
      /\ UNION {c.recs : c \in Unwritten'} \subseteq UNION {c.recs : c \in Unwritten}
  BY <1>1, <1>5, <1>6, ResultApplied
<1>8. /\ DOMAIN frozen' \subseteq DOMAIN frozen
      /\ \A id \in DOMAIN frozen' : frozen'[id] = frozen[id]
  BY <1>1 DEF Restrict
<1>9. TypeOK'
  <2>1. WalTypeOK'
    <3>1. stale_wals \cap (next_wal_to_del .. (n - 1)) \in SUBSET (Nat \ {0})
      BY <1>0 DEF TypeOK
    <3> QED
      BY <1>0, <1>2, <3>1, RemoveType
  <2>2. IoTypeOK'
    BY <1>0, <1>1, <1>7 DEF IoTypeOK
  <2>3. next_wal_to_del' \in Nat \ {0} /\ stale_wals' \subseteq Nat \ {0}
    BY <1>0, <1>2 DEF TypeOK
  <2> HIDE DEF live, h
  <2> QED
    BY <1>0, <1>1, <1>4, <1>7, <1>8, <2>1, <2>2, <2>3 DEF TypeOK, history
<1>10. SeqBelow'
  <2>1. Stored' \subseteq Stored
    <3>1. Content(frozen') \subseteq Content(frozen)
      BY <1>8 DEF Content
    <3>2. memtable' = memtable /\ Content(sstFile') = Content(sstFile)
      BY <1>1
    <3> QED
      BY <1>7, <3>1, <3>2 DEF Stored
  <2>2. Logged' \subseteq Logged
    BY <1>2, RemoveLogged
  <2> QED
    BY <1>0, <1>1, <2>1, <2>2 DEF SeqBelow
<1> QED
  BY <1>7, <1>9, <1>10 DEF IInv, JobInv

\* A compaction is applied: its tables are replaced by their merge.
LEMMA ApplyCompactionStep == IInv /\ ApplyCompactionResult => IInv'
<1> SUFFICES ASSUME IInv, ApplyCompactionResult PROVE IInv'
  OBVIOUS
<1> DEFINE h == Head(ioResults)
           live == (sstable_map \ h.tables) \cup {h.id}
           busy == compacting \ h.tables
<1>0. /\ TypeOK /\ WalTypeOK /\ IoTypeOK /\ JobShape /\ JobsOnce /\ JobFiles
      /\ CompactionsMarked /\ SeqBelow
  BY DEF IInv, TypeOK
<1>1. /\ RecvResult("compact") /\ h.op = "compact"
      /\ sstable_map' = live
      /\ SendCompactionCmd(live, busy)
      /\ UNCHANGED <<ioCmds, running, sending, notified, pc, needs_flush,
                     memtable, frozen, seq_counter, walVars, cleanupVars, history>>
  BY DEF ApplyCompactionResult, RecvResult
<1>2. PICK removed \in SUBSET h.tables :
        sstFile' = Restrict(sstFile, DOMAIN sstFile \ removed)
  BY DEF ApplyCompactionResult, MayRemove
<1>3. /\ DOMAIN sstFile' = DOMAIN sstFile \ removed
      /\ \A i \in DOMAIN sstFile' : sstFile'[i] = sstFile[i]
  BY <1>2 DEF Restrict
<1>4. h \in IoCommand /\ h \in Written /\ h.id # Active /\ h.id \in Ids(Written)
  <2>1. h \in IoCommand /\ h \in Range(ioResults)
    BY <1>0, <1>1, TailFacts DEF IoTypeOK, RecvResult
  <2> QED
    BY <1>0, <2>1 DEF Written, JobShape, Ids
<1>5. h \in Compactions /\ h.tables \subseteq sstable_map
  BY <1>0, <1>1, <1>4 DEF Compactions, CompactionsMarked, CompactionsDisjoint
<1>6. /\ Ids(Written) \subseteq DOMAIN sstFile'
      /\ h.id \in DOMAIN sstFile'
      /\ live \subseteq DOMAIN sstFile'
  BY <1>0, <1>3, <1>4, <1>5 DEF JobFiles, TypeOK
<1>7. \A d \in Compactions : d # h => d.tables \subseteq busy
  BY <1>0, <1>5 DEF CompactionsMarked, CompactionsDisjoint
<1>8. busy \subseteq live
  BY <1>0 DEF TypeOK
<1>9. /\ JobInv'
      /\ outbox' \in Seq(IoCommand) /\ compacting' \subseteq live
      /\ sst_counter' \in Nat \ {0}
      /\ ioResults' \in Seq(IoCommand) /\ Len(ioResults') <= ChannelCapacity
      /\ UNION {c.recs : c \in Unwritten'} \subseteq UNION {c.recs : c \in Unwritten}
  BY <1>1, <1>3, <1>6, <1>7, <1>8, ResultApplied
<1>10. TypeOK'
  <2>1. WalTypeOK'
    BY <1>0, <1>1 DEF WalTypeOK, walVars
  <2>2. IoTypeOK'
    BY <1>0, <1>1, <1>3, <1>9 DEF IoTypeOK
  <2> HIDE DEF live
  <2> QED
    BY <1>0, <1>1, <1>6, <1>9, <2>1, <2>2 DEF TypeOK, cleanupVars, history
<1>11. SeqBelow'
  <2>1. Stored' \subseteq Stored
    BY <1>1, <1>3, <1>9 DEF Stored, Content
  <2>2. Logged' = Logged
    BY <1>1 DEF Logged, Recovered, walVars
  <2> QED
    BY <1>0, <1>1, <2>1, <2>2 DEF SeqBelow
<1> QED
  BY <1>9, <1>10, <1>11 DEF IInv, JobInv

-----------------------------------------------------------------------------
\* A crash empties memory; the counters restart above everything on disk.
LEMMA CrashStep == IInv /\ CrashRestart => IInv'
<1> SUFFICES ASSUME IInv, CrashRestart PROVE IInv'
  OBVIOUS
<1>0. TypeOK /\ WalTypeOK /\ IoTypeOK /\ JobFiles /\ SeqBelow
  BY DEF IInv, TypeOK
<1>1. ProcessCrash \/ PowerLoss
  BY DEF CrashRestart
<1>2. /\ ReopenActive
      /\ ioCmds' = <<>> /\ running' = {} /\ sending' = {} /\ ioResults' = <<>>
      /\ notified' = FALSE /\ sstFile' = sstFile
      /\ memtable' = Recovered(wal', corrupt')
      /\ frozen' = [id \in {} |-> {}]
      /\ sstable_map' = DOMAIN sstFile /\ compacting' = {}
      /\ sst_counter' = Highest(DOMAIN sstFile) + 1
      /\ seq_counter' = Highest(memtable' \cup Content(sstFile)) + 1
      /\ stale_wals' = {} /\ applied_flushes' = {} /\ next_wal_to_del' = 1
      /\ needs_flush' = FALSE /\ outbox' = <<>>
      /\ hardened' = hardened \cup Durable'
      /\ crashes' = crashes + 1
  BY DEF CrashRestart
<1>3. pc' \in {"select", "batch", "flush"}
  BY DEF CrashRestart
<1>4. WalTypeOK'
  BY <1>0, <1>1, <1>2, CrashType DEF WalTypeOK, ReopenActive
<1>5. IoTypeOK'
  <2>1. /\ ioCmds' \in Seq(IoCommand) /\ Len(ioCmds') = 0
        /\ ioResults' \in Seq(IoCommand) /\ Len(ioResults') = 0
    <3>1. ioCmds' = <<>> /\ ioResults' = <<>>
      BY <1>2
    <3> QED
      BY <3>1
  <2>2. running' = {} /\ sending' = {} /\ sstFile' = sstFile
    BY <1>2
  <2>3. notified' \in BOOLEAN
    BY <1>2, Zenon
  <2>4. 0 <= ChannelCapacity
    BY IoAssumption
  <2> QED
    BY <1>0, <2>1, <2>2, <2>3, <2>4 DEF IoTypeOK
<1>6. /\ sst_counter' \in Nat \ {0}
      /\ \A i \in DOMAIN sstFile : i < sst_counter'
  <2>1. /\ DOMAIN sstFile \in SUBSET Nat /\ sst_counter \in Nat
        /\ \A i \in DOMAIN sstFile : i < sst_counter
    BY <1>0 DEF TypeOK, IoTypeOK, JobFiles
  <2>2. /\ Highest(DOMAIN sstFile) \in Nat
        /\ \A i \in DOMAIN sstFile : i <= Highest(DOMAIN sstFile)
    BY <2>1, HighestBounds
  <2> QED
    BY <1>2, <2>1, <2>2
<1>7. /\ memtable' \subseteq Nat
      /\ seq_counter' \in Nat \ {0}
      /\ \A r \in memtable' \cup Content(sstFile) : r < seq_counter'
  <2> DEFINE S == memtable' \cup Content(sstFile)
  <2>1. S \subseteq Stored \cup Logged
    BY <1>0, <1>1, <1>2, CrashLogged DEF Stored
  <2>2. S \in SUBSET Nat /\ seq_counter \in Nat /\ \A r \in S : r < seq_counter
    BY <1>0, <2>1, RecordsType DEF SeqBelow, TypeOK
  <2> HIDE DEF S
  <2>3. Highest(S) \in Nat /\ \A r \in S : r <= Highest(S)
    BY <2>2, HighestBounds
  <2>4. seq_counter' = Highest(S) + 1
    BY <1>2 DEF S
  <2>5. seq_counter' \in Nat \ {0} /\ \A r \in S : r < seq_counter'
    BY <2>2, <2>3, <2>4
  <2> QED
    BY <2>2, <2>5 DEF S
<1>8. TypeOK'
  <2>1. outbox' \in Seq(IoCommand) /\ needs_flush' \in BOOLEAN
    <3>1. outbox' = <<>>
      BY <1>2
    <3>2. needs_flush' \in BOOLEAN
      BY <1>2, Zenon
    <3> QED
      BY <3>1, <3>2
  <2>2. DOMAIN frozen' = {}
    BY <1>2
  <2>3. /\ sstable_map' \subseteq DOMAIN sstFile' /\ compacting' \subseteq sstable_map'
        /\ stale_wals' \subseteq Nat \ {0} /\ applied_flushes' \subseteq Nat \ {0}
        /\ next_wal_to_del' \in Nat \ {0}
    BY <1>2
  <2>4. crashes' \in Nat /\ hardened' \subseteq Nat
    <3>1. crashes' = crashes + 1 /\ hardened' = hardened \cup Durable'
      BY <1>2
    <3>2. Durable' \subseteq Nat
      BY <1>4, <1>5, DurableType
    <3> QED
      BY <1>0, <3>1, <3>2 DEF TypeOK
  <2> QED
    BY <1>3, <1>4, <1>5, <1>6, <1>7, <2>1, <2>2, <2>3, <2>4 DEF TypeOK
<1>9. /\ Range(outbox') = {} /\ Range(ioCmds') = {} /\ Range(ioResults') = {}
      /\ Unwritten' = {} /\ Written' = {}
  BY <1>2 DEF Range, Unwritten, Written
<1>10. JobInv'
  <2>1. JobShape' /\ JobsOnce' /\ JobFiles'
    BY <1>2, <1>6, <1>9 DEF JobShape, JobsOnce, JobFiles, OncePerSeq, OncePerSet, Ids
  <2>2. CompactionsMarked'
    BY <1>9 DEF CompactionsMarked, CompactionsDisjoint, Compactions
  <2> QED
    BY <2>1, <2>2 DEF JobInv
<1>11. SeqBelow'
  <2>1. Stored' \cup Logged' \subseteq memtable' \cup Content(sstFile)
    BY <1>2, <1>9 DEF Stored, Logged, Content, ReopenActive
  <2> QED
    BY <1>7, <2>1 DEF SeqBelow
<1> QED
  BY <1>8, <1>10, <1>11 DEF IInv, JobInv

-----------------------------------------------------------------------------
\* Every step of the program preserves the inductive invariant.
LEMMA NextIInv == IInv /\ [Next]_vars => IInv'
<1> SUFFICES ASSUME IInv, [Next]_vars PROVE IInv'
  OBVIOUS
<1>1. CASE HandleInsert \/ HandleInsertFails \/ HandleQuery \/ EndBatch \/ EndBatchFails
  BY <1>1, ClientSteps
<1>2. CASE \E n \in BatchSizes : HandleBatchInsert(n) \/ HandleBatchInsertFails(n)
  BY <1>2, ClientSteps
<1>3. CASE SendFlushCmd \/ SendFlushCmdFails \/ SendIoCmd
  BY <1>3, SendFlushCmdStep, SendFlushCmdFailsStep, SendIoCmdStep
<1>4. CASE ApplyFlushResult \/ ApplyCompactionResult \/ CrashRestart
  BY <1>4, ApplyFlushStep, ApplyCompactionStep, CrashStep
<1>5. CASE Sync \/ Resync \/ ResyncFails \/ Spawn
  BY <1>5, SyncStep, ResyncStep, SpawnStep
<1>6. CASE \E t \in running : TaskWrites(t) \/ TaskFails(t)
  BY <1>6, TaskWritesStep, TaskFailsStep
<1>7. CASE \E t \in sending : TaskSends(t)
  BY <1>7, TaskSendsStep
<1>8. CASE UNCHANGED vars
  <2>1. /\ UNCHANGED <<walVars, ioVars, loopVars, engineVars, cleanupVars, history>>
        /\ UNCHANGED jobVars
    BY <1>8 DEF vars, jobVars, ioVars, loopVars, engineVars
  <2>2. TypeOK'
    BY <2>1 DEF IInv, TypeOK, WalTypeOK, IoTypeOK, walVars, ioVars, loopVars,
       engineVars, cleanupVars, history
  <2>3. JobInv' /\ Unwritten' = Unwritten
    BY <2>1, JobsUntouched DEF IInv, JobInv, TypeOK, engineVars
  <2>4. SeqBelow'
    BY <2>1, <2>3 DEF IInv, SeqBelow, Stored, Logged, Content, Recovered,
       walVars, ioVars, engineVars
  <2> QED
    BY <2>2, <2>3, <2>4 DEF IInv, JobInv
<1> QED
  BY <1>1, <1>2, <1>3, <1>4, <1>5, <1>6, <1>7, <1>8 DEF Next

(* The inductive invariant of the storage task holds in every reachable      *)
(* state, whatever faults and crashes the environment adds.                  *)
THEOREM Invariance == Spec => []IInv
<1> QED
  BY InitIInv, NextIInv, PTL DEF Spec

(* Type correctness: every variable of Backend, Engine, Wal and IoWorker     *)
(* keeps its type; in particular every live SSTable has its file and the     *)
(* channels never hold more than channel_capacity messages.                  *)
THEOREM TypeCorrect == Spec => []TypeOK
<1>1. IInv => TypeOK
  BY DEF IInv
<1> QED
  BY Invariance, <1>1, PTL

(* Sequence numbers stay fresh: seq_counter, also as Engine::open restores   *)
(* it after a crash, is above every record a range query can return.         *)
THEOREM SequenceNumbersFresh == Spec => []SeqFresh
<1>1. IInv => SeqFresh
  <2> SUFFICES ASSUME IInv PROVE SeqFresh
    OBVIOUS
  <2>1. UNION {sstFile[i] : i \in sstable_map} \subseteq Content(sstFile)
    BY DEF IInv, TypeOK, Content
  <2>2. Visible \subseteq Stored
    BY <2>1 DEF Visible, Stored
  <2> QED
    BY <2>2 DEF IInv, SeqBelow, SeqFresh
<1> QED
  BY Invariance, <1>1, PTL

(* Compactions stay disjoint: the tables of a compaction are live until it   *)
(* is applied and no other compaction merges or removes them.                *)
THEOREM CompactionsStayDisjoint == Spec => []CompactionsDisjoint
<1>1. IInv => CompactionsDisjoint
  BY DEF IInv, CompactionsMarked
<1> QED
  BY Invariance, <1>1, PTL

(* SSTable files are written once: no flush or compaction, before or after a *)
(* restart, writes to the path of an SSTable file that exists.               *)
THEOREM SstFilesWrittenOnce == Spec => SstFilesImmutable
<1> DEFINE Kept == \A i \in DOMAIN sstFile \cap DOMAIN sstFile' :
                      sstFile'[i] = sstFile[i]
<1>1. ASSUME IInv, [Next]_vars PROVE Kept
  <2>1. CASE \E t \in running : TaskWrites(t)
    <3>1. PICK t \in running : TaskWrites(t)
      BY <2>1
    <3>2. PICK R : sstFile' = Put(sstFile, t.id, R)
      BY <3>1 DEF TaskWrites, WriteSst
    <3>3. t.id \notin DOMAIN sstFile
      BY <1>1, <3>1, TaskWritesStep
    <3> QED
      BY <3>2, <3>3 DEF Put
  <2>2. CASE ApplyCompactionResult
    BY <2>2 DEF ApplyCompactionResult, Restrict
  <2>3. CASE \/ HandleInsert \/ HandleInsertFails \/ HandleQuery
             \/ \E n \in BatchSizes : HandleBatchInsert(n) \/ HandleBatchInsertFails(n)
             \/ EndBatch \/ EndBatchFails \/ SendFlushCmd \/ SendFlushCmdFails
    BY <2>3 DEF HandleInsert, HandleInsertFails, HandleQuery, HandleBatchInsert,
       HandleBatchInsertFails, EndBatch, EndBatchFails, SendFlushCmd,
       SendFlushCmdFails, ioVars
  <2>4. CASE \/ SendIoCmd \/ ApplyFlushResult \/ Sync \/ Resync \/ ResyncFails
             \/ Spawn \/ CrashRestart
             \/ \E t \in running : TaskFails(t)
             \/ \E t \in sending : TaskSends(t)
    BY <2>4 DEF SendIoCmd, ApplyFlushResult, Sync, HandleSync, Resync,
       HandleResync, ResyncFails, HandleResyncFails, Spawn, HandleSpawn,
       CrashRestart, TaskFails, WriteSstFails, TaskSends, SendResult
  <2>5. CASE UNCHANGED vars
    BY <2>5 DEF vars, ioVars
  <2> QED
    BY <1>1, <2>1, <2>2, <2>3, <2>4, <2>5 DEF Next
<1>2. Spec => [][Kept]_vars
  <2>1. IInv /\ [Next]_vars => [Kept]_vars
    BY <1>1
  <2> QED
    BY Invariance, <2>1, PTL DEF Spec
<1> QED
  BY <1>2 DEF SstFilesImmutable

-----------------------------------------------------------------------------
(* The storage keeps every record it has taken: the write-ahead rule, until  *)
(* the first crash and whatever fails, and the refinement of LogStore, with  *)
(* one crash at any point.                                                   *)

-----------------------------------------------------------------------------
(* The cleanup of stale WAL files.                                           *)

\* The program starts with nothing frozen and nothing to clean up.
LEMMA InitCleanup == Init => CleanupInv
<1> SUFFICES ASSUME Init PROVE CleanupInv
  OBVIOUS
<1>1. Unwritten = {} /\ Written = {}
  BY DEF Init, IoInit, Unwritten, Written, Range
<1> QED
  BY <1>1 DEF Init, CleanupInv, CleanupIds, FlushRecords, StaleRecords

\* The ids below a counter are below a larger one.
LEMMA IntervalGrows ==
  \A a, b \in Nat : b >= a => \A i \in 1 .. (a - 1) : i \in 1 .. (b - 1)
OBVIOUS

\* Steps that neither freeze, apply nor delete anything.
LEMMA CleanupUntouched ==
  ASSUME IInv, CleanupInv,
         UNCHANGED <<frozen, cleanupVars>>,
         sst_counter' \in Nat, sst_counter' >= sst_counter,
         \A t \in Unwritten' \cup Written' :
           t.op = "flush" => t \in Unwritten \cup Written,
         \A t \in Written' : t.op = "flush" => sstFile'[t.id] = t.recs,
         \A r \in memtable' \ memtable : r >= seq_counter,
         DOMAIN wal' \subseteq DOMAIN wal, corrupt \subseteq corrupt',
         \A n \in DOMAIN wal' \ {Active} : wal'[n] = wal[n]
  PROVE  CleanupInv'
<1>0. /\ CleanupIds /\ FlushRecords /\ StaleRecords /\ TypeOK /\ WalTypeOK
      /\ SeqBelow
  BY DEF CleanupInv, IInv, TypeOK
<1>1. frozen' = frozen /\ stale_wals' = stale_wals /\ applied_flushes' = applied_flushes
      /\ next_wal_to_del' = next_wal_to_del
  BY DEF cleanupVars
<1>2. CleanupIds'
  <2>1. \A i \in 1 .. (sst_counter - 1) : i \in 1 .. (sst_counter' - 1)
    <3>1. sst_counter \in Nat
      BY <1>0 DEF TypeOK
    <3> QED
      BY <3>1, IntervalGrows, Zenon
  <2>2. DOMAIN frozen \cup stale_wals \cup applied_flushes \subseteq 1 .. (sst_counter' - 1)
    <3>1. \A i \in DOMAIN frozen \cup stale_wals \cup applied_flushes :
             i \in 1 .. (sst_counter - 1)
      BY <1>0 DEF CleanupIds
    <3> QED
      BY <2>1, <3>1
  <2>3. 1 .. (next_wal_to_del' - 1) \subseteq applied_flushes'
    BY <1>0, <1>1, Zenon DEF CleanupIds
  <2>4. applied_flushes' \cap DOMAIN frozen' = {}
    BY <1>0, <1>1, Zenon DEF CleanupIds
  <2> QED
    BY <1>1, <2>2, <2>3, <2>4 DEF CleanupIds
<1>3. FlushRecords'
  BY <1>0, <1>1 DEF FlushRecords
<1>4. StaleRecords'
  <2> SUFFICES ASSUME NEW k \in (stale_wals' \cap DOMAIN wal') \ corrupt'
               PROVE  /\ wal'[k] \cap memtable' = {}
                      /\ \A j \in DOMAIN frozen' : j > k => wal'[k] \cap frozen'[j] = {}
    BY DEF StaleRecords
  <2>1. k \in (stale_wals \cap DOMAIN wal) \ corrupt /\ wal'[k] = wal[k]
    BY <1>0, <1>1 DEF TypeOK, Active
  <2>2. wal[k] \subseteq Logged
    BY <2>1 DEF Logged, Recovered
  <2>3. wal[k] \cap (memtable' \ memtable) = {}
    <3>1. ASSUME NEW r \in wal[k], r \in memtable' \ memtable PROVE FALSE
      <4>1. r \in Nat /\ seq_counter \in Nat /\ r < seq_counter
        BY <1>0, <2>1, <2>2 DEF SeqBelow, TypeOK, WalTypeOK
      <4> QED
        BY <3>1, <4>1
    <3> QED
      BY <3>1
  <2> QED
    BY <1>0, <1>1, <2>1, <2>3 DEF StaleRecords
<1> QED
  BY <1>2, <1>3, <1>4 DEF CleanupInv

\* Buffering and flushing the buffer change the active file only.
LEMMA OtherFilesKept ==
  ASSUME WalTypeOK,
         \/ \E R : WriteRecords(R) \/ WriteFails(R)
         \/ FlushBuffer \/ FlushFails
         \/ UNCHANGED walVars
  PROVE  /\ DOMAIN wal' = DOMAIN wal /\ corrupt \subseteq corrupt'
         /\ \A n \in DOMAIN wal' \ {Active} : wal'[n] = wal[n]
<1>1. ASSUME NEW R, Buffer(R)
      PROVE  /\ DOMAIN wal' = DOMAIN wal
             /\ \A n \in DOMAIN wal' \ {Active} : wal'[n] = wal[n]
  BY <1>1 DEF Buffer
<1>2. CASE \E R : WriteRecords(R) \/ WriteFails(R)
  <2>1. corrupt \subseteq corrupt'
    BY <1>2 DEF WriteRecords, WriteFails
  <2>2. \E R : Buffer(R)
    BY <1>2 DEF WriteRecords, WriteFails
  <2> QED
    BY <1>1, <2>1, <2>2
<1>3. CASE FlushBuffer \/ FlushFails
  BY <1>3 DEF FlushBuffer, FlushFails
<1>4. CASE UNCHANGED walVars
  BY <1>4 DEF walVars
<1> QED
  BY <1>2, <1>3, <1>4

\* Clients and the end of a batch.
LEMMA ClientCleanup ==
  ASSUME IInv, CleanupInv,
         \/ HandleInsert \/ HandleInsertFails
         \/ \E n \in BatchSizes : HandleBatchInsert(n) \/ HandleBatchInsertFails(n)
         \/ HandleQuery \/ EndBatch \/ EndBatchFails
  PROVE  CleanupInv'
<1>0. TypeOK /\ WalTypeOK /\ FlushRecords
  BY DEF IInv, TypeOK, CleanupInv
<1>1. UNCHANGED <<outbox, ioCmds, running, sending, ioResults, sstFile, frozen,
                  cleanupVars, sst_counter>>
  BY DEF HandleInsert, HandleInsertFails, HandleBatchInsert,
     HandleBatchInsertFails, HandleQuery, EndBatch, EndBatchFails, InBatch,
     ioVars, engineVars
<1>2. Unwritten' = Unwritten /\ Written' = Written
  BY <1>1 DEF Unwritten, Written
<1>3. \A r \in memtable' \ memtable : r >= seq_counter
  <2>1. CASE HandleInsert
    BY <1>0, <2>1 DEF HandleInsert, TypeOK
  <2>2. ASSUME NEW n \in BatchSizes, HandleBatchInsert(n)
        PROVE  \A r \in memtable' \ memtable : r >= seq_counter
    <3>1. n \in Nat /\ seq_counter \in Nat
      BY <1>0, BackendAssumption DEF TypeOK
    <3>2. memtable' = memtable \cup (seq_counter .. (seq_counter + n - 1))
      BY <2>2 DEF HandleBatchInsert
    <3> QED
      BY <3>1, <3>2
  <2>3. CASE memtable' = memtable
    BY <2>3
  <2> QED
    BY <2>1, <2>2, <2>3 DEF HandleInsertFails, HandleBatchInsertFails,
       HandleQuery, EndBatch, EndBatchFails, engineVars
<1>4. /\ DOMAIN wal' = DOMAIN wal /\ corrupt \subseteq corrupt'
      /\ \A n \in DOMAIN wal' \ {Active} : wal'[n] = wal[n]
  <2>1. \/ \E R : WriteRecords(R) \/ WriteFails(R)
        \/ FlushBuffer \/ FlushFails
        \/ UNCHANGED walVars
    BY DEF HandleInsert, HandleInsertFails, HandleBatchInsert,
       HandleBatchInsertFails, HandleQuery, EndBatch, EndBatchFails
  <2> QED
    BY <1>0, <2>1, OtherFilesKept
<1>5. \A t \in Written' : t.op = "flush" => sstFile'[t.id] = t.recs
  BY <1>0, <1>1, <1>2 DEF FlushRecords
<1>6. sst_counter' \in Nat /\ sst_counter' >= sst_counter
  BY <1>0, <1>1 DEF TypeOK
<1>7. UNCHANGED <<frozen, cleanupVars>>
  BY <1>1
<1> QED
  BY <1>2, <1>3, <1>4, <1>5, <1>6, <1>7, CleanupUntouched

\* Commands and tasks on their way.
LEMMA WorkerCleanup ==
  ASSUME IInv, CleanupInv,
         \/ SendIoCmd \/ Sync \/ Resync \/ ResyncFails \/ Spawn
         \/ \E t \in running : TaskFails(t)
         \/ \E t \in sending : TaskSends(t)
  PROVE  CleanupInv'
<1>0. TypeOK /\ WalTypeOK /\ IoTypeOK /\ FlushRecords
  BY DEF IInv, TypeOK, CleanupInv
<1>1. /\ UNCHANGED <<sstFile, memtable, frozen, cleanupVars, sst_counter, wal, corrupt>>
  BY DEF SendIoCmd, Sync, HandleSync, Resync, HandleResync, ResyncFails,
     HandleResyncFails, Spawn, HandleSpawn, TaskFails, WriteSstFails, TaskSends,
     SendResult, BackendWaits, engineVars, walVars
<1>2. Written' \subseteq Written /\ Unwritten' \subseteq Unwritten
  <2>1. CASE SendIoCmd
    <3>1. /\ outbox # <<>> /\ ioCmds' = Append(ioCmds, Head(outbox))
          /\ outbox' = Tail(outbox) /\ UNCHANGED <<running, sending, ioResults>>
      BY <2>1 DEF SendIoCmd
    <3>2. /\ Range(outbox) = Range(outbox') \cup {Head(outbox)}
          /\ Head(outbox) \in IoCommand
      BY <1>0, <3>1, TailFacts DEF TypeOK
    <3>3. Range(ioCmds') = Range(ioCmds) \cup {Head(outbox)}
      BY <1>0, <3>1, <3>2, AppendFacts DEF IoTypeOK
    <3> QED
      BY <3>1, <3>2, <3>3 DEF Unwritten, Written
  <2>2. CASE Sync
    BY <2>2 DEF Sync, HandleSync, BackendWaits, loopVars, Unwritten, Written
  <2>3. CASE Resync \/ ResyncFails \/ Spawn
    <3>1. /\ ioCmds # <<>> /\ ioCmds' = Tail(ioCmds)
          /\ running' \subseteq running \cup {Head(ioCmds)}
          /\ UNCHANGED <<outbox, sending, ioResults>>
      BY <2>3 DEF Resync, HandleResync, ResyncFails, HandleResyncFails, Spawn,
         HandleSpawn, BackendWaits, loopVars
    <3>2. Range(ioCmds) = Range(ioCmds') \cup {Head(ioCmds)}
      BY <1>0, <3>1, TailFacts DEF IoTypeOK
    <3> QED
      BY <3>1, <3>2 DEF Unwritten, Written
  <2>4. CASE \E t \in running : TaskFails(t)
    BY <2>4 DEF TaskFails, WriteSstFails, BackendWaits, loopVars, Unwritten, Written
  <2>5. ASSUME NEW t \in sending, TaskSends(t)
        PROVE  Written' \subseteq Written /\ Unwritten' \subseteq Unwritten
    <3>1. /\ ioResults' = Append(ioResults, t) /\ sending' = sending \ {t}
          /\ UNCHANGED <<outbox, ioCmds, running>>
      BY <2>5 DEF TaskSends, SendResult, BackendWaits, loopVars
    <3>2. Range(ioResults') = Range(ioResults) \cup {t}
      BY <1>0, <3>1, AppendFacts DEF IoTypeOK
    <3> QED
      BY <3>1, <3>2 DEF Unwritten, Written
  <2> QED
    BY <2>1, <2>2, <2>3, <2>4, <2>5
<1>3. \A t \in Written' : t.op = "flush" => sstFile'[t.id] = t.recs
  BY <1>0, <1>1, <1>2 DEF FlushRecords
<1>4. sst_counter' \in Nat /\ sst_counter' >= sst_counter
  BY <1>0, <1>1 DEF TypeOK
<1>5. UNCHANGED <<frozen, cleanupVars>>
  BY <1>1
<1> QED
  BY <1>1, <1>2, <1>3, <1>4, <1>5, CleanupUntouched

\* A task writes its file: a flush writes its frozen memtable.
LEMMA WriteCleanup ==
  ASSUME IInv, CleanupInv, NEW t \in running, TaskWrites(t)
  PROVE  CleanupInv'
<1>0. TypeOK /\ JobFiles /\ FlushRecords /\ JobShape
  BY DEF IInv, CleanupInv
<1>1. PICK R \in MayWrite(t) : sstFile' = Put(sstFile, t.id, R)
  BY DEF TaskWrites, WriteSst
<1>2. /\ running' = running \ {t} /\ sending' = sending \cup {t}
      /\ UNCHANGED <<outbox, ioCmds, ioResults, memtable, frozen, cleanupVars,
                     sst_counter, wal, corrupt>>
  BY DEF TaskWrites, WriteSst, BackendWaits, loopVars, engineVars, walVars
<1>3. Unwritten' \subseteq Unwritten /\ Written' = Written \cup {t} /\ t \in Unwritten
  BY <1>2 DEF Unwritten, Written
<1>4. t.id \notin DOMAIN sstFile
  BY TaskWritesStep
<1>5. ASSUME NEW s \in Written', s.op = "flush" PROVE sstFile'[s.id] = s.recs
  <2>1. CASE s = t
    <3>1. R = s.recs
      BY <1>5, <2>1 DEF MayWrite
    <3> QED
      BY <1>1, <2>1, <3>1 DEF Put
  <2>2. CASE s # t
    <3>1. s \in Written /\ s.op # "resync"
      BY <1>0, <1>3, <2>2 DEF JobShape
    <3>2. s.id \in DOMAIN sstFile
      BY <1>0, <3>1 DEF JobFiles, JobShape, Ids
    <3>3. sstFile'[s.id] = sstFile[s.id]
      BY <1>1, <1>4, <3>2 DEF Put
    <3> QED
      BY <1>0, <1>5, <3>1, <3>3 DEF FlushRecords
  <2> QED
    BY <2>1, <2>2
<1>6. sst_counter' \in Nat /\ sst_counter' >= sst_counter
  BY <1>0, <1>2 DEF TypeOK
<1>7. UNCHANGED <<frozen, cleanupVars>>
  BY <1>2
<1> QED
  BY <1>2, <1>3, <1>5, <1>6, <1>7, CleanupUntouched

-----------------------------------------------------------------------------
\* The memtable is frozen under a new id, whether the rotation works or not.
LEMMA FreezeCleanup ==
  ASSUME IInv, CleanupInv, SendFlushCmd \/ SendFlushCmdFails
  PROVE  CleanupInv'
<1>0. /\ TypeOK /\ WalTypeOK /\ JobFiles /\ JobShape
      /\ CleanupIds /\ FlushRecords /\ StaleRecords
  BY DEF IInv, TypeOK, CleanupInv
<1>1. /\ outbox = <<>> /\ memtable' = {}
      /\ frozen' = Put(frozen, sst_counter, memtable)
      /\ sst_counter' = sst_counter + 1
      /\ stale_wals' \subseteq stale_wals \cup {sst_counter}
      /\ UNCHANGED <<ioCmds, running, sending, ioResults, sstFile,
                     applied_flushes, next_wal_to_del>>
  BY DEF SendFlushCmd, SendFlushCmdFails, PrepareFlush, ioVars, cleanupVars
<1>2. sst_counter \in Nat \ {0}
  BY <1>0 DEF TypeOK
<1>3. \A i \in DOMAIN frozen \cup stale_wals \cup applied_flushes :
         i \in 1 .. (sst_counter - 1)
  BY <1>0 DEF CleanupIds
<1>4. /\ \A i \in 1 .. (sst_counter - 1) : i \in Nat /\ i < sst_counter
                                          /\ i \in 1 .. ((sst_counter + 1) - 1)
      /\ sst_counter \in 1 .. ((sst_counter + 1) - 1)
      /\ ~(sst_counter < sst_counter)
  BY <1>2
<1>5. /\ DOMAIN frozen' = DOMAIN frozen \cup {sst_counter}
      /\ sst_counter \notin DOMAIN frozen
      /\ frozen'[sst_counter] = memtable
      /\ \A j \in DOMAIN frozen : frozen'[j] = frozen[j]
  <2>1. sst_counter \notin DOMAIN frozen
    BY <1>3, <1>4
  <2> QED
    BY <1>1, <2>1 DEF Put
<1>6. CleanupIds'
  <2>1. \A i \in DOMAIN frozen' \cup stale_wals' \cup applied_flushes' :
           i \in 1 .. (sst_counter' - 1)
    BY <1>1, <1>3, <1>4, <1>5
  <2>2. applied_flushes' \cap DOMAIN frozen' = {}
    BY <1>0, <1>1, <1>3, <1>4, <1>5 DEF CleanupIds
  <2>3. 1 .. (next_wal_to_del' - 1) \subseteq applied_flushes'
    BY <1>0, <1>1 DEF CleanupIds
  <2> QED
    BY <2>1, <2>2, <2>3 DEF CleanupIds
<1>7. FlushRecords'
  <2>1. \A c \in Range(outbox') :
           c.op = "flush" => c.id = sst_counter /\ c.recs = memtable
    <3>1. CASE SendFlushCmdFails
      <4>1. outbox' = <<>>
        BY <1>1, <3>1 DEF SendFlushCmdFails
      <4> QED
        BY <4>1 DEF Range
    <3>2. CASE SendFlushCmd
      <4> DEFINE f == FlushMemtable(sst_counter, memtable)
      <4>1. /\ f.id = sst_counter /\ f.recs = memtable /\ ResyncWal.op = "resync"
        BY DEF FlushMemtable, ResyncWal
      <4> HIDE DEF f
      <4>2. outbox' = <<ResyncWal, f>>
        BY <3>2 DEF SendFlushCmd, f
      <4>3. \A i \in DOMAIN outbox' : outbox'[i] = ResyncWal \/ outbox'[i] = f
        BY <4>2
      <4> QED
        BY <4>1, <4>3 DEF Range
    <3> QED
      BY <3>1, <3>2
  <2>2. Written' = Written /\ Unwritten' \subseteq Unwritten \cup Range(outbox')
    BY <1>1 DEF Written, Unwritten, Range
  <2> QED
    BY <1>0, <1>1, <1>5, <2>1, <2>2 DEF FlushRecords
<1>8. StaleRecords'
  <2> SUFFICES ASSUME NEW k \in (stale_wals' \cap DOMAIN wal') \ corrupt',
                      NEW j \in DOMAIN frozen', j > k
               PROVE  wal'[k] \cap frozen'[j] = {}
    BY <1>1 DEF StaleRecords
  <2>1. k \in stale_wals /\ k # Active /\ k # sst_counter
    <3>1. CASE k \in stale_wals
      BY <1>0, <1>3, <1>4, <3>1 DEF TypeOK, Active
    <3>2. CASE k = sst_counter
      <4>1. j \in Nat /\ j <= sst_counter
        BY <1>2, <1>3, <1>4, <1>5
      <4> QED
        BY <1>2, <3>2, <4>1
    <3> QED
      BY <1>1, <3>1, <3>2
  <2>2. k \in DOMAIN wal /\ wal'[k] = wal[k] /\ k \notin corrupt
    <3>1. CASE SendFlushCmd
      <4>1. Rotate(sst_counter)
        BY <3>1 DEF SendFlushCmd
      <4> QED
        BY <2>1, <4>1 DEF Rotate, Put
    <3>2. CASE SendFlushCmdFails
      BY <1>0, <2>1, <3>2, OtherFilesKept DEF SendFlushCmdFails
    <3> QED
      BY <3>1, <3>2
  <2>3. CASE j = sst_counter
    BY <1>0, <1>5, <2>1, <2>2, <2>3 DEF StaleRecords
  <2>4. CASE j # sst_counter
    BY <1>0, <1>5, <2>1, <2>2, <2>4 DEF StaleRecords
  <2> QED
    BY <2>3, <2>4
<1> QED
  BY <1>6, <1>7, <1>8 DEF CleanupInv

\* A result has been received: what is left of the jobs, and what is new.
LEMMA ResultReceived ==
  ASSUME IInv, NEW op, RecvResult(op), NEW live \in SUBSET Nat,
         NEW busy \in SUBSET live, SendCompactionCmd(live, busy),
         UNCHANGED <<ioCmds, running, sending>>
  PROVE  /\ Head(ioResults) \in Written /\ Head(ioResults).op = op
         /\ Head(ioResults).id \in Ids(Written)
         /\ Written' \subseteq Written
         /\ \A t \in Unwritten' : t.op = "flush" => t \in Unwritten
         /\ \A t \in Written' : t.id # Head(ioResults).id
         /\ \A t \in Unwritten : t.id # Head(ioResults).id
         /\ sst_counter' \in Nat /\ sst_counter' >= sst_counter
<1> DEFINE h == Head(ioResults)
<1>0. TypeOK /\ IoTypeOK /\ JobShape /\ JobsOnce /\ JobFiles
  BY DEF IInv, TypeOK
<1>1. outbox = <<>> /\ ioResults # <<>> /\ ioResults' = Tail(ioResults) /\ h.op = op
  BY DEF RecvResult
<1>2. /\ Range(ioResults) = Range(ioResults') \cup {h}
      /\ h.id \notin Ids(Range(ioResults'))
  BY <1>0, <1>1, TailFacts DEF IoTypeOK, JobsOnce
<1>3. h \in Written /\ h.id # Active /\ h.id \in Ids(Written) /\ h.id \in Ids(Range(ioResults))
  BY <1>0, <1>2 DEF Written, JobShape, Ids
<1>4. /\ \A c \in Range(outbox') : c.op = "compact"
      /\ sst_counter' \in Nat \ {0} /\ sst_counter <= sst_counter'
  BY <1>0, <1>1, CompactionOrdered DEF TypeOK
<1>5. Written' \subseteq Written /\ Unwritten' \subseteq Unwritten \cup Range(outbox')
  BY <1>2 DEF Written, Unwritten
<1>6. h.id \notin Ids(sending)
  BY <1>0, <1>3 DEF JobsOnce
<1>7. h.id \notin Ids(Written')
  BY <1>2, <1>6 DEF Written, Ids
<1>8. h.id \notin Ids(Unwritten)
  BY <1>0, <1>3 DEF JobFiles
<1>9. /\ \A t \in Written' : t.id # h.id
      /\ \A t \in Unwritten : t.id # h.id
  BY <1>3, <1>7, <1>8 DEF Ids
<1>10. sst_counter' \in Nat /\ sst_counter' >= sst_counter
  BY <1>0, <1>4 DEF TypeOK
<1> QED
  BY <1>1, <1>3, <1>4, <1>5, <1>9, <1>10

\* A compaction is applied: frozen memtables and WALs are not concerned.
LEMMA CompactionCleanup ==
  ASSUME IInv, CleanupInv, ApplyCompactionResult
  PROVE  CleanupInv'
<1> DEFINE h == Head(ioResults)
           live == (sstable_map \ h.tables) \cup {h.id}
           busy == compacting \ h.tables
<1>0. /\ TypeOK /\ IoTypeOK /\ JobFiles /\ JobShape /\ CompactionsMarked /\ FlushRecords
  BY DEF IInv, TypeOK, CleanupInv
<1>1. /\ RecvResult("compact") /\ SendCompactionCmd(live, busy)
      /\ UNCHANGED <<ioCmds, running, sending>>
      /\ UNCHANGED <<frozen, cleanupVars>>
      /\ UNCHANGED <<memtable, wal, corrupt>>
  BY DEF ApplyCompactionResult, walVars
<1>2. PICK removed \in SUBSET h.tables :
        sstFile' = Restrict(sstFile, DOMAIN sstFile \ removed)
  BY DEF ApplyCompactionResult, MayRemove
<1>3. live \in SUBSET Nat /\ busy \in SUBSET live
  <2>1. h \in IoCommand
    BY <1>0, <1>1, TailFacts DEF RecvResult, IoTypeOK
  <2>2. h.id \in Nat
    BY <2>1 DEF IoCommand
  <2> QED
    BY <1>0, <2>2 DEF TypeOK, IoTypeOK
<1> HIDE DEF live, busy
<1>4. /\ h \in Written /\ h.op = "compact" /\ Written' \subseteq Written
      /\ \A t \in Unwritten' : t.op = "flush" => t \in Unwritten
      /\ sst_counter' \in Nat /\ sst_counter' >= sst_counter
  BY <1>1, <1>3, ResultReceived
<1>5. h.tables \subseteq sstable_map
  BY <1>0, <1>4 DEF CompactionsMarked, CompactionsDisjoint, Compactions
<1>6. ASSUME NEW t \in Written', t.op = "flush" PROVE sstFile'[t.id] = t.recs
  <2>1. t \in Written /\ t.id \in Ids(Written)
    BY <1>0, <1>4, <1>6 DEF JobShape, Ids
  <2>2. t.id \in DOMAIN sstFile \ removed
    BY <1>0, <1>5, <2>1 DEF JobFiles
  <2> QED
    BY <1>0, <1>2, <1>6, <2>1, <2>2 DEF FlushRecords, Restrict
<1> QED
  BY <1>1, <1>4, <1>6, CleanupUntouched

\* A flush is applied: what is deleted is not needed, what is kept is sound.
LEMMA FlushCleanup ==
  ASSUME IInv, CleanupInv, ApplyFlushResult
  PROVE  /\ CleanupInv'
         /\ \A k \in DOMAIN wal \ (corrupt \cup DOMAIN wal') :
              wal[k] \cap Visible \subseteq UNION {sstFile'[i] : i \in sstable_map'}
<1> DEFINE h == Head(ioResults)
           live == sstable_map \cup {h.id}
<1>0. /\ TypeOK /\ IoTypeOK /\ WalTypeOK /\ JobFiles /\ JobShape
      /\ CleanupIds /\ FlushRecords /\ StaleRecords
  BY DEF IInv, TypeOK, CleanupInv
<1>1. /\ RecvResult("flush")
      /\ frozen' = Restrict(frozen, DOMAIN frozen \ {h.id})
      /\ applied_flushes' = applied_flushes \cup {h.id}
      /\ sstable_map' = live
      /\ SendCompactionCmd(live, compacting)
      /\ UNCHANGED <<ioCmds, running, sending>>
      /\ sstFile' = sstFile /\ memtable' = memtable
  BY DEF ApplyFlushResult
<1>2. PICK n \in next_wal_to_del .. (next_wal_to_del + sst_counter) :
        /\ StopsAt(applied_flushes \cup {h.id}, n)
        /\ next_wal_to_del' = n
        /\ stale_wals' = stale_wals \ (next_wal_to_del .. (n - 1))
        /\ RemoveFiles(stale_wals \cap (next_wal_to_del .. (n - 1)))
  BY DEF ApplyFlushResult
<1>3. PICK gone \in SUBSET (stale_wals \cap (next_wal_to_del .. (n - 1))) :
        /\ wal' = Restrict(wal, DOMAIN wal \ gone)
        /\ corrupt' = corrupt \ gone
  BY <1>2 DEF RemoveFiles, MayRemove
<1>4. next_wal_to_del \in Nat \ {0} /\ sst_counter \in Nat \ {0} /\ n \in Nat
  BY <1>0 DEF TypeOK
<1>5. live \in SUBSET Nat /\ compacting \in SUBSET live
  <2>1. h \in IoCommand
    BY <1>0, <1>1, TailFacts DEF RecvResult, IoTypeOK
  <2>2. h.id \in Nat
    BY <2>1 DEF IoCommand
  <2> QED
    BY <1>0, <2>2 DEF TypeOK, IoTypeOK
<1>6. /\ h \in Written /\ h.op = "flush" /\ h.id \in Ids(Written)
      /\ Written' \subseteq Written
      /\ \A t \in Unwritten' : t.op = "flush" => t \in Unwritten
      /\ \A t \in Written' : t.id # h.id
      /\ \A t \in Unwritten : t.id # h.id
      /\ sst_counter' \in Nat /\ sst_counter' >= sst_counter
  <2> HIDE DEF live
  <2> QED
    BY <1>1, <1>5, ResultReceived
<1>7. /\ h.id \in DOMAIN sstFile /\ h.id \in Nat \ {0} /\ h.id < sst_counter
      /\ h.id \in DOMAIN frozen /\ sstFile[h.id] = frozen[h.id]
  BY <1>0, <1>6 DEF JobFiles, IoTypeOK, FlushRecords
<1> HIDE DEF h
<1>8. /\ DOMAIN frozen' = DOMAIN frozen \ {h.id}
      /\ \A j \in DOMAIN frozen' : frozen'[j] = frozen[j]
  BY <1>1 DEF Restrict
<1>9. \A i \in 1 .. (n - 1) : i \in applied_flushes \cup {h.id}
  <2>1. \A i \in next_wal_to_del .. (n - 1) : i \in applied_flushes \cup {h.id}
    BY <1>2 DEF StopsAt
  <2>2. \A i \in 1 .. (next_wal_to_del - 1) : i \in applied_flushes
    BY <1>0 DEF CleanupIds
  <2>3. \A i \in 1 .. (n - 1) : \/ i \in next_wal_to_del .. (n - 1)
                                \/ i \in 1 .. (next_wal_to_del - 1)
    BY <1>4
  <2> QED
    BY <2>1, <2>2, <2>3
<1>10. CleanupIds'
  <2>1. \A i \in DOMAIN frozen \cup stale_wals \cup applied_flushes :
           i \in 1 .. (sst_counter - 1)
    BY <1>0 DEF CleanupIds
  <2>2. h.id \in 1 .. (sst_counter - 1)
    BY <1>4, <1>7
  <2>3. \A i \in 1 .. (sst_counter - 1) : i \in 1 .. (sst_counter' - 1)
    BY <1>4, <1>6, IntervalGrows
  <2>4. DOMAIN frozen' \cup stale_wals' \cup applied_flushes' \subseteq 1 .. (sst_counter' - 1)
    BY <1>1, <1>2, <1>8, <2>1, <2>2, <2>3
  <2>5. applied_flushes' \cap DOMAIN frozen' = {}
    BY <1>0, <1>1, <1>8 DEF CleanupIds
  <2>6. 1 .. (next_wal_to_del' - 1) \subseteq applied_flushes'
    BY <1>1, <1>2, <1>9
  <2> QED
    BY <2>4, <2>5, <2>6 DEF CleanupIds
<1>11. FlushRecords'
  <2>1. \A t \in Unwritten' \cup Written' :
           t.op = "flush" => t \in Unwritten \cup Written /\ t.id # h.id
    BY <1>6
  <2> QED
    BY <1>0, <1>1, <1>6, <1>8, <2>1 DEF FlushRecords
<1>12. DOMAIN wal' = DOMAIN wal \ gone /\ \A k \in DOMAIN wal' : wal'[k] = wal[k]
  BY <1>3 DEF Restrict
<1>13. StaleRecords'
  <2> SUFFICES ASSUME NEW k \in (stale_wals' \cap DOMAIN wal') \ corrupt'
               PROVE  /\ wal'[k] \cap memtable' = {}
                      /\ \A j \in DOMAIN frozen' : j > k => wal'[k] \cap frozen'[j] = {}
    BY DEF StaleRecords
  <2>1. k \in (stale_wals \cap DOMAIN wal) \ corrupt /\ wal'[k] = wal[k]
    BY <1>2, <1>3, <1>12
  <2> QED
    BY <1>0, <1>1, <1>8, <2>1 DEF StaleRecords
<1>14. ASSUME NEW k \in DOMAIN wal \ (corrupt \cup DOMAIN wal')
       PROVE  wal[k] \cap Visible \subseteq UNION {sstFile'[i] : i \in sstable_map'}
  <2>1. k \in gone
    BY <1>12, <1>14
  <2>2. k \in (stale_wals \cap DOMAIN wal) \ corrupt /\ k \in next_wal_to_del .. (n - 1)
    BY <1>3, <1>14, <2>1
  <2>3. wal[k] \cap memtable = {}
    BY <1>0, <2>2 DEF StaleRecords
  <2>4. ASSUME NEW j \in DOMAIN frozen, wal[k] \cap frozen[j] # {} PROVE j = h.id
    <3>1. j \in Nat \ {0}
      BY <1>0 DEF TypeOK
    <3>2. ~(j > k)
      BY <1>0, <2>2, <2>4 DEF StaleRecords
    <3>3. j \in 1 .. (n - 1)
      BY <1>4, <2>2, <3>1, <3>2
    <3>4. j \notin applied_flushes
      BY <1>0 DEF CleanupIds
    <3> QED
      BY <1>9, <3>3, <3>4
  <2>5. ASSUME NEW r \in wal[k], r \in Content(frozen) PROVE r \in sstFile[h.id]
    <3>1. PICK j \in DOMAIN frozen : r \in frozen[j]
      BY <2>5 DEF Content
    <3>2. j = h.id
      BY <2>4, <2>5, <3>1
    <3> QED
      BY <1>7, <3>1, <3>2
  <2>6. h.id \in sstable_map' /\ sstable_map \subseteq sstable_map'
    BY <1>1
  <2> QED
    BY <1>1, <2>3, <2>5, <2>6 DEF Visible
<1> QED
  BY <1>10, <1>11, <1>13, <1>14 DEF CleanupInv

\* After a crash nothing is frozen, stale or applied.
LEMMA CrashCleanup == CrashRestart => CleanupInv'
<1> SUFFICES ASSUME CrashRestart PROVE CleanupInv'
  OBVIOUS
<1>1. /\ Range(outbox') = {} /\ Range(ioCmds') = {} /\ Range(ioResults') = {}
      /\ running' = {} /\ sending' = {}
  BY DEF CrashRestart, Range
<1>2. Unwritten' = {} /\ Written' = {}
  BY <1>1 DEF Unwritten, Written
<1>3. /\ DOMAIN frozen' = {} /\ stale_wals' = {} /\ applied_flushes' = {}
      /\ next_wal_to_del' = 1
  BY DEF CrashRestart
<1>4. CleanupIds'
  BY <1>3 DEF CleanupIds
<1> QED
  BY <1>2, <1>3, <1>4 DEF CleanupInv, FlushRecords, StaleRecords

-----------------------------------------------------------------------------
\* Every step preserves the cleanup invariant.
LEMMA NextCleanup == IInv /\ CleanupInv /\ [Next]_vars => CleanupInv'
<1> SUFFICES ASSUME IInv, CleanupInv, [Next]_vars PROVE CleanupInv'
  OBVIOUS
<1>1. CASE \/ HandleInsert \/ HandleInsertFails \/ HandleQuery
           \/ EndBatch \/ EndBatchFails
           \/ \E n \in BatchSizes : HandleBatchInsert(n) \/ HandleBatchInsertFails(n)
  BY <1>1, ClientCleanup
<1>2. CASE SendFlushCmd \/ SendFlushCmdFails
  BY <1>2, FreezeCleanup
<1>3. CASE ApplyFlushResult \/ ApplyCompactionResult \/ CrashRestart
  BY <1>3, FlushCleanup, CompactionCleanup, CrashCleanup
<1>4. CASE \/ SendIoCmd \/ Sync \/ Resync \/ ResyncFails \/ Spawn
           \/ \E t \in running : TaskFails(t)
           \/ \E t \in sending : TaskSends(t)
  BY <1>4, WorkerCleanup
<1>5. CASE \E t \in running : TaskWrites(t)
  BY <1>5, WriteCleanup
<1>6. CASE UNCHANGED vars
  <2>1. UNCHANGED <<outbox, ioCmds, running, sending, ioResults, sstFile, frozen,
                    stale_wals, applied_flushes, next_wal_to_del, sst_counter,
                    wal, corrupt, memtable>>
    BY <1>6 DEF vars, walVars, ioVars, loopVars, engineVars, cleanupVars
  <2>2. Unwritten' = Unwritten /\ Written' = Written
    BY <2>1 DEF Unwritten, Written
  <2> QED
    BY <2>1, <2>2 DEF CleanupInv, CleanupIds, FlushRecords, StaleRecords
<1> QED
  BY <1>1, <1>2, <1>3, <1>4, <1>5, <1>6 DEF Next

(* The cleanup invariant holds in every reachable state: rotated WAL files,  *)
(* frozen memtables, flush commands and next_wal_to_del agree.               *)
THEOREM CleanupInvariance == Spec => []CleanupInv
<1> QED
  BY InitCleanup, NextCleanup, Invariance, PTL DEF Spec

(* Log cleanup is safe: whatever order flushes complete in and whatever      *)
(* fails, apply_flush_result deletes no WAL file that still is the only copy *)
(* outside memory of a record that queries return.                           *)
THEOREM CleanupSafe == Spec => DeletedWalIsFlushed
<1> DEFINE Safe == \A n \in DOMAIN wal \ (corrupt \cup DOMAIN wal') :
                     wal[n] \cap Visible \subseteq
                       UNION {sstFile'[i] : i \in sstable_map'}
<1>1. ASSUME IInv, CleanupInv, [Next]_vars PROVE Safe
  <2>0. WalTypeOK
    BY <1>1 DEF IInv, TypeOK
  <2>1. CASE ApplyFlushResult
    BY <1>1, <2>1, FlushCleanup
  <2>2. CASE DOMAIN wal \subseteq DOMAIN wal'
    BY <2>2
  <2>3. CASE \/ HandleInsert \/ HandleInsertFails \/ HandleQuery
             \/ EndBatch \/ EndBatchFails \/ SendFlushCmdFails
             \/ \E n \in BatchSizes : HandleBatchInsert(n) \/ HandleBatchInsertFails(n)
    <3>1. \/ \E R : WriteRecords(R) \/ WriteFails(R)
          \/ FlushBuffer \/ FlushFails
          \/ UNCHANGED walVars
      BY <2>3 DEF HandleInsert, HandleInsertFails, HandleBatchInsert,
         HandleBatchInsertFails, HandleQuery, EndBatch, EndBatchFails,
         SendFlushCmdFails
    <3> QED
      BY <2>0, <2>2, <3>1, OtherFilesKept
  <2>4. CASE SendFlushCmd
    <3>1. Rotate(sst_counter)
      BY <2>4 DEF SendFlushCmd
    <3>2. DOMAIN wal \subseteq DOMAIN wal'
      BY <3>1 DEF Rotate, Put
    <3> QED
      BY <2>2, <3>2
  <2>5. CASE CrashRestart
    <3>1. ProcessCrash \/ PowerLoss
      BY <2>5 DEF CrashRestart
    <3> QED
      BY <2>0, <2>2, <3>1, CrashType
  <2>6. CASE wal' = wal
    BY <2>2, <2>6
  <2>7. CASE \/ SendIoCmd \/ ApplyCompactionResult \/ Sync \/ Resync \/ ResyncFails
             \/ Spawn
             \/ \E t \in running : TaskWrites(t) \/ TaskFails(t)
             \/ \E t \in sending : TaskSends(t)
             \/ UNCHANGED vars
    <3>1. wal' = wal
      BY <2>7 DEF SendIoCmd, ApplyCompactionResult, Sync, HandleSync, Resync,
         HandleResync, ResyncFails, HandleResyncFails, Spawn, HandleSpawn,
         TaskWrites, WriteSst, TaskFails, WriteSstFails, TaskSends, SendResult,
         vars, walVars
    <3> QED
      BY <2>6, <3>1
  <2> QED
    BY <1>1, <2>1, <2>3, <2>4, <2>5, <2>7 DEF Next
<1>2. Spec => [][Safe]_vars
  <2>1. IInv /\ CleanupInv /\ [Next]_vars => [Safe]_vars
    BY <1>1
  <2> QED
    BY Invariance, CleanupInvariance, <2>1, PTL DEF Spec
<1> QED
  BY <1>2 DEF DeletedWalIsFlushed

-----------------------------------------------------------------------------
(* What is taken stays.                                                      *)

\* Buffering R keeps what the active file and its buffer hold, and adds R.
LEMMA BufferActive ==
  ASSUME WalTypeOK, NEW R \in SUBSET Nat, Buffer(R)
  PROVE  wal'[Active] \cup walBuf' = wal[Active] \cup walBuf \cup R
<1>0. Active \in DOMAIN wal
  BY DEF WalTypeOK
<1>1. CASE walBuf' = walBuf \cup R /\ wal' = wal
  BY <1>1
<1>2. ASSUME NEW kept \in R \cup {r + 1 : r \in R},
             walBuf' = {r \in R : r >= kept},
             wal' = [wal EXCEPT ![Active] = @ \cup walBuf \cup {r \in R : r < kept}]
      PROVE  wal'[Active] \cup walBuf' = wal[Active] \cup walBuf \cup R
  <2>1. kept \in Nat
    OBVIOUS
  <2>2. \A r \in R : r >= kept \/ r < kept
    BY <2>1
  <2>3. wal'[Active] = wal[Active] \cup walBuf \cup {r \in R : r < kept}
    BY <1>0, <1>2
  <2> QED
    BY <1>2, <2>2, <2>3
<1> QED
  BY <1>1, <1>2 DEF Buffer

\* The same for flushing the buffer, all of it or a part.
LEMMA FlushActive ==
  ASSUME WalTypeOK, FlushBuffer \/ FlushFails
  PROVE  wal'[Active] \cup walBuf' = wal[Active] \cup walBuf
<1>0. Active \in DOMAIN wal /\ walBuf \subseteq Nat
  BY DEF WalTypeOK
<1>1. CASE FlushBuffer
  BY <1>0, <1>1 DEF FlushBuffer, Flushed
<1>2. CASE FlushFails
  <2>1. PICK kept \in walBuf :
          /\ walBuf' = {r \in walBuf : r >= kept}
          /\ wal' = [wal EXCEPT ![Active] = @ \cup {r \in walBuf : r < kept}]
    BY <1>2 DEF FlushFails
  <2>2. \A r \in walBuf : r >= kept \/ r < kept
    BY <1>0
  <2>3. wal'[Active] = wal[Active] \cup {r \in walBuf : r < kept}
    BY <1>0, <2>1
  <2> QED
    BY <2>1, <2>2, <2>3
<1> QED
  BY <1>1, <1>2

-----------------------------------------------------------------------------
(* The write-ahead rule.                                                     *)

\* The program starts with nothing in memory.
LEMMA InitAhead == Init => WriteAhead
BY DEF Init, WalInit, WriteAhead, Active

\* Steps that freeze and delete nothing.
LEMMA AheadKept ==
  ASSUME WalTypeOK, WriteAhead, frozen' = frozen,
         sst_counter \in Nat, sst_counter' \in Nat, sst_counter <= sst_counter',
         DOMAIN wal' = DOMAIN wal,
         \A n \in DOMAIN wal' \ {Active} : wal'[n] = wal[n],
         wal[Active] \cup walBuf \subseteq wal'[Active] \cup walBuf',
         memtable' \subseteq memtable \cup wal'[Active] \cup walBuf'
  PROVE  WriteAhead'
<1>1. \A n \in DOMAIN wal' : n < sst_counter'
  BY DEF WriteAhead, WalTypeOK
<1>2. \A r \in memtable' : r \in wal'[Active] \cup walBuf'
  BY DEF WriteAhead
<1>3. ASSUME NEW j \in DOMAIN frozen', NEW r \in frozen'[j]
      PROVE  r \in walBuf' \/ \E n \in DOMAIN wal' : (n = Active \/ n >= j) /\ r \in wal'[n]
  <2>1. CASE r \in walBuf
    BY <2>1 DEF WalTypeOK
  <2>2. ASSUME NEW n \in DOMAIN wal, n = Active \/ n >= j, r \in wal[n]
        PROVE  r \in walBuf' \/ \E m \in DOMAIN wal' : (m = Active \/ m >= j) /\ r \in wal'[m]
    <3>1. CASE n = Active
      BY <2>2, <3>1 DEF WalTypeOK
    <3>2. CASE n # Active
      BY <2>2, <3>2
    <3> QED
      BY <3>1, <3>2
  <2> QED
    BY <2>1, <2>2 DEF WriteAhead
<1> QED
  BY <1>1, <1>2, <1>3 DEF WriteAhead

\* Clients and the end of a batch: a record is in the WAL before the memtable.
LEMMA ClientAhead ==
  ASSUME IInv, WriteAhead,
         \/ HandleInsert \/ HandleInsertFails
         \/ \E n \in BatchSizes : HandleBatchInsert(n) \/ HandleBatchInsertFails(n)
         \/ HandleQuery \/ EndBatch \/ EndBatchFails
  PROVE  WriteAhead'
<1>0. TypeOK /\ WalTypeOK /\ seq_counter \in Nat /\ sst_counter \in Nat
  BY DEF IInv, TypeOK
<1>1. UNCHANGED <<frozen, sst_counter>>
  BY DEF HandleInsert, HandleInsertFails, HandleBatchInsert,
     HandleBatchInsertFails, HandleQuery, EndBatch, EndBatchFails, engineVars
<1>2. /\ DOMAIN wal' = DOMAIN wal
      /\ \A n \in DOMAIN wal' \ {Active} : wal'[n] = wal[n]
  <2>1. \/ \E R : WriteRecords(R) \/ WriteFails(R)
        \/ FlushBuffer \/ FlushFails
        \/ UNCHANGED walVars
    BY DEF HandleInsert, HandleInsertFails, HandleBatchInsert,
       HandleBatchInsertFails, HandleQuery, EndBatch, EndBatchFails
  <2> QED
    BY <1>0, <2>1, OtherFilesKept
<1>3. /\ wal[Active] \cup walBuf \subseteq wal'[Active] \cup walBuf'
      /\ memtable' \subseteq memtable \cup wal'[Active] \cup walBuf'
  <2>1. ASSUME NEW R \in SUBSET Nat, WriteRecords(R), memtable' = memtable \cup R
        PROVE  <1>3
    BY <1>0, <2>1, BufferActive DEF WriteRecords
  <2>2. ASSUME NEW R \in SUBSET Nat, WriteFails(R), memtable' = memtable
        PROVE  <1>3
    <3>1. PICK failed \in R : Buffer({r \in R : r < failed})
      BY <2>2 DEF WriteFails
    <3>2. {r \in R : r < failed} \in SUBSET Nat
      OBVIOUS
    <3> QED
      BY <1>0, <2>2, <3>1, <3>2, BufferActive
  <2>3. CASE HandleInsert
    <3>1. {seq_counter} \in SUBSET Nat
      BY <1>0
    <3> QED
      BY <2>1, <2>3, <3>1 DEF HandleInsert
  <2>4. CASE HandleInsertFails
    <3>1. {seq_counter} \in SUBSET Nat
      BY <1>0
    <3> QED
      BY <2>2, <2>4, <3>1 DEF HandleInsertFails, engineVars
  <2>5. ASSUME NEW n \in BatchSizes, HandleBatchInsert(n) \/ HandleBatchInsertFails(n)
        PROVE  <1>3
    <3>1. n \in Nat
      BY BackendAssumption
    <3>2. (seq_counter .. (seq_counter + n - 1)) \in SUBSET Nat
      BY <1>0, <3>1
    <3> QED
      BY <2>1, <2>2, <2>5, <3>2 DEF HandleBatchInsert, HandleBatchInsertFails
  <2>6. CASE HandleQuery
    BY <2>6 DEF HandleQuery, walVars, engineVars
  <2>7. CASE EndBatch \/ EndBatchFails
    BY <1>0, <2>7, FlushActive DEF EndBatch, EndBatchFails, engineVars
  <2> QED
    BY <2>3, <2>4, <2>5, <2>6, <2>7
<1>4. sst_counter' \in Nat /\ sst_counter <= sst_counter'
  BY <1>0, <1>1
<1>5. frozen' = frozen
  BY <1>1
<1> QED
  BY <1>0, <1>2, <1>3, <1>4, <1>5, AheadKept

\* The memtable is frozen; the rotation takes its records along, or fails.
LEMMA FreezeAhead ==
  ASSUME IInv, CleanupInv, WriteAhead, SendFlushCmd \/ SendFlushCmdFails
  PROVE  WriteAhead'
<1>0. TypeOK /\ WalTypeOK /\ sst_counter \in Nat \ {0} /\ DOMAIN wal \subseteq Nat
  BY DEF IInv, TypeOK, WalTypeOK
<1>1. /\ memtable' = {} /\ frozen' = Put(frozen, sst_counter, memtable)
      /\ sst_counter' = sst_counter + 1
  BY DEF SendFlushCmd, SendFlushCmdFails, PrepareFlush
<1>2. \A j \in DOMAIN frozen : j \in Nat /\ j < sst_counter
  <2>1. \A j \in DOMAIN frozen : j \in 1 .. (sst_counter - 1)
    BY DEF CleanupInv, CleanupIds
  <2> QED
    BY <1>0, <2>1
<1>3. /\ DOMAIN frozen' = DOMAIN frozen \cup {sst_counter}
      /\ frozen'[sst_counter] = memtable
      /\ \A j \in DOMAIN frozen : frozen'[j] = frozen[j]
  BY <1>0, <1>1, <1>2 DEF Put
<1>4. CASE SendFlushCmd
  <2>1. /\ wal' = Put(Put(wal, sst_counter, Flushed), Active, {})
        /\ walBuf' = {}
    BY <1>4 DEF SendFlushCmd, Rotate
  <2>2. /\ DOMAIN wal' = DOMAIN wal \cup {sst_counter}
        /\ wal'[sst_counter] = wal[Active] \cup walBuf
        /\ \A n \in DOMAIN wal : n # Active => wal'[n] = wal[n]
    BY <1>0, <2>1 DEF Put, Flushed, Active, WalTypeOK, WriteAhead
  <2>3. \A n \in DOMAIN wal' : n < sst_counter'
    BY <1>0, <1>1, <2>2 DEF WriteAhead
  <2>4. ASSUME NEW j \in DOMAIN frozen', NEW r \in frozen'[j]
        PROVE  \E n \in DOMAIN wal' : (n = Active \/ n >= j) /\ r \in wal'[n]
    <3>1. sst_counter \in DOMAIN wal' /\ sst_counter >= j
      BY <1>0, <1>2, <1>3, <2>2
    <3>2. CASE r \in wal[Active] \cup walBuf
      BY <2>2, <3>1, <3>2
    <3>3. CASE r \notin wal[Active] \cup walBuf
      <4>1. j # sst_counter
        BY <1>3, <3>3 DEF WriteAhead
      <4>2. PICK n \in DOMAIN wal : (n = Active \/ n >= j) /\ r \in wal[n]
        BY <1>3, <3>3, <4>1 DEF WriteAhead
      <4>3. n # Active
        BY <3>3, <4>2
      <4> QED
        BY <2>2, <4>2, <4>3
    <3> QED
      BY <3>2, <3>3
  <2> QED
    BY <1>1, <2>3, <2>4 DEF WriteAhead
<1>5. CASE SendFlushCmdFails
  <2>1. FlushBuffer \/ FlushFails
    BY <1>5 DEF SendFlushCmdFails
  <2>2. /\ DOMAIN wal' = DOMAIN wal
        /\ \A n \in DOMAIN wal' \ {Active} : wal'[n] = wal[n]
        /\ wal'[Active] \cup walBuf' = wal[Active] \cup walBuf
    BY <1>0, <2>1, OtherFilesKept, FlushActive
  <2>3. \A n \in DOMAIN wal' : n < sst_counter'
    BY <1>0, <1>1, <2>2 DEF WriteAhead
  <2>4. ASSUME NEW j \in DOMAIN frozen', NEW r \in frozen'[j]
        PROVE  r \in walBuf' \/ \E n \in DOMAIN wal' : (n = Active \/ n >= j) /\ r \in wal'[n]
    <3>1. CASE r \in wal[Active] \cup walBuf
      BY <1>0, <2>2, <3>1 DEF WalTypeOK
    <3>2. CASE r \notin wal[Active] \cup walBuf
      <4>1. j # sst_counter
        BY <1>3, <3>2 DEF WriteAhead
      <4>2. PICK n \in DOMAIN wal : (n = Active \/ n >= j) /\ r \in wal[n]
        BY <1>3, <3>2, <4>1 DEF WriteAhead
      <4> QED
        BY <2>2, <3>2, <4>2
    <3> QED
      BY <3>1, <3>2
  <2> QED
    BY <1>1, <2>3, <2>4 DEF WriteAhead
<1> QED
  BY <1>4, <1>5

\* A flush is applied: the files that are deleted are older than any frozen
\* memtable.
LEMMA ApplyAhead ==
  ASSUME IInv, CleanupInv, WriteAhead, ApplyFlushResult
  PROVE  WriteAhead'
<1> DEFINE h == Head(ioResults)
           live == sstable_map \cup {h.id}
<1>0. TypeOK /\ IoTypeOK /\ WalTypeOK /\ sst_counter \in Nat /\ next_wal_to_del \in Nat \ {0}
  BY DEF IInv, TypeOK
<1>1. /\ RecvResult("flush") /\ SendCompactionCmd(live, compacting)
      /\ frozen' = Restrict(frozen, DOMAIN frozen \ {h.id})
      /\ UNCHANGED <<ioCmds, running, sending>> /\ memtable' = memtable
  BY DEF ApplyFlushResult
<1>2. PICK n \in next_wal_to_del .. (next_wal_to_del + sst_counter) :
        /\ next_wal_to_del' = n
        /\ RemoveFiles(stale_wals \cap (next_wal_to_del .. (n - 1)))
  BY DEF ApplyFlushResult
<1>3. PICK gone \in SUBSET (stale_wals \cap (next_wal_to_del .. (n - 1))) :
        /\ wal' = Restrict(wal, DOMAIN wal \ gone)
        /\ walBuf' = walBuf
  BY <1>2 DEF RemoveFiles, MayRemove
<1>4. sst_counter' \in Nat /\ sst_counter' >= sst_counter
  <2>1. live \in SUBSET Nat /\ compacting \in SUBSET live
    <3>1. h \in IoCommand
      BY <1>0, <1>1, TailFacts DEF RecvResult, IoTypeOK
    <3>2. h.id \in Nat
      BY <3>1 DEF IoCommand
    <3> QED
      BY <1>0, <3>2 DEF TypeOK, IoTypeOK
  <2> HIDE DEF live
  <2> QED
    BY <1>1, <2>1, ResultReceived
<1> HIDE DEF h, live
<1>5. /\ DOMAIN wal' = DOMAIN wal \ gone /\ \A k \in DOMAIN wal' : wal'[k] = wal[k]
      /\ DOMAIN frozen' \subseteq DOMAIN frozen /\ \A j \in DOMAIN frozen' : frozen'[j] = frozen[j]
  BY <1>1, <1>3 DEF Restrict
<1>6. Active \notin gone
  BY <1>0, <1>3 DEF TypeOK, Active
<1>7. ASSUME NEW j \in DOMAIN frozen', NEW k \in gone PROVE ~(k >= j)
  <2>1. CleanupIds'
    BY FlushCleanup DEF CleanupInv
  <2>2. j \notin 1 .. (n - 1)
    BY <1>2, <2>1 DEF CleanupIds
  <2>3. j \in Nat \ {0} /\ k \in next_wal_to_del .. (n - 1)
    BY <1>0, <1>5 DEF TypeOK
  <2> QED
    BY <1>0, <2>2, <2>3
<1>8. \A m \in DOMAIN wal' : m < sst_counter'
  BY <1>0, <1>4, <1>5 DEF WriteAhead, WalTypeOK
<1>9. \A r \in memtable' : r \in wal'[Active] \cup walBuf'
  BY <1>0, <1>1, <1>3, <1>5, <1>6 DEF WriteAhead, WalTypeOK
<1>10. ASSUME NEW j \in DOMAIN frozen', NEW r \in frozen'[j]
       PROVE  r \in walBuf' \/ \E m \in DOMAIN wal' : (m = Active \/ m >= j) /\ r \in wal'[m]
  <2>1. \/ r \in walBuf
        \/ \E m \in DOMAIN wal : (m = Active \/ m >= j) /\ r \in wal[m]
    BY <1>5 DEF WriteAhead
  <2> QED
    BY <1>3, <1>5, <1>6, <1>7, <2>1
<1> QED
  BY <1>8, <1>9, <1>10 DEF WriteAhead

\* Until the first crash every step keeps the write-ahead rule.
LEMMA NextAhead ==
  ASSUME IInv, CleanupInv, WriteAhead, [Next]_vars, ~CrashRestart
  PROVE  WriteAhead'
<1>0. TypeOK /\ IoTypeOK /\ WalTypeOK /\ sst_counter \in Nat
  BY DEF IInv, TypeOK
<1>1. CASE \/ HandleInsert \/ HandleInsertFails \/ HandleQuery
           \/ EndBatch \/ EndBatchFails
           \/ \E n \in BatchSizes : HandleBatchInsert(n) \/ HandleBatchInsertFails(n)
  BY <1>1, ClientAhead
<1>2. CASE SendFlushCmd \/ SendFlushCmdFails
  BY <1>2, FreezeAhead
<1>3. CASE ApplyFlushResult
  BY <1>3, ApplyAhead
<1>4. CASE ApplyCompactionResult
  <2> DEFINE h == Head(ioResults)
             live == (sstable_map \ h.tables) \cup {h.id}
             busy == compacting \ h.tables
  <2>1. /\ RecvResult("compact") /\ SendCompactionCmd(live, busy)
        /\ UNCHANGED <<ioCmds, running, sending>>
        /\ UNCHANGED <<memtable, frozen, wal, walBuf>>
    BY <1>4 DEF ApplyCompactionResult, walVars
  <2>2. live \in SUBSET Nat /\ busy \in SUBSET live
    <3>1. h \in IoCommand
      BY <1>0, <2>1, TailFacts DEF RecvResult, IoTypeOK
    <3>2. h.id \in Nat
      BY <3>1 DEF IoCommand
    <3> QED
      BY <1>0, <3>2 DEF TypeOK, IoTypeOK
  <2> HIDE DEF live, busy
  <2>3. sst_counter' \in Nat /\ sst_counter' >= sst_counter
    BY <2>1, <2>2, ResultReceived
  <2> QED
    BY <1>0, <2>1, <2>3, AheadKept
<1>5. CASE \/ SendIoCmd \/ Sync \/ Resync \/ ResyncFails \/ Spawn
           \/ \E t \in running : TaskWrites(t) \/ TaskFails(t)
           \/ \E t \in sending : TaskSends(t)
           \/ UNCHANGED vars
  <2>1. UNCHANGED <<memtable, frozen, wal, walBuf, sst_counter>>
    BY <1>5 DEF SendIoCmd, Sync, HandleSync, Resync, HandleResync, ResyncFails,
       HandleResyncFails, Spawn, HandleSpawn, TaskWrites, WriteSst, TaskFails,
       WriteSstFails, TaskSends, SendResult, BackendWaits, engineVars, walVars, vars
  <2> QED
    BY <2>1 DEF WriteAhead
<1> QED
  BY <1>1, <1>2, <1>3, <1>4, <1>5 DEF Next

\* The write-ahead rule is invariant until the first crash.
LEMMA AheadInvariance == Spec => [](crashes = 0 => WriteAhead)
<1> DEFINE Ahead == crashes = 0 => WriteAhead
<1>1. Init => Ahead
  BY InitAhead
<1>2. IInv /\ CleanupInv /\ Ahead /\ [Next]_vars => Ahead'
  <2> SUFFICES ASSUME IInv, CleanupInv, Ahead, [Next]_vars, crashes' = 0
               PROVE  WriteAhead'
    OBVIOUS
  <2>1. crashes \in Nat
    BY DEF IInv, TypeOK
  <2>2. ~CrashRestart
    BY <2>1 DEF CrashRestart
  <2>3. crashes = 0
    BY <2>2 DEF Next, vars, history, HandleInsert, HandleInsertFails,
       HandleBatchInsert, HandleBatchInsertFails, HandleQuery, EndBatch,
       EndBatchFails, SendFlushCmd, SendFlushCmdFails, SendIoCmd,
       ApplyFlushResult, ApplyCompactionResult, Sync, Resync, ResyncFails,
       Spawn, TaskWrites, TaskFails, TaskSends, BackendWaits
  <2> QED
    BY <2>2, <2>3, NextAhead
<1> QED
  BY <1>1, <1>2, Invariance, CleanupInvariance, PTL DEF Spec

(* The write-ahead rule of Engine and Wal: until the process crashes for the *)
(* first time, a record in the memtable or in a frozen one is in a WAL file  *)
(* or the buffer of the active one, whatever writes, rotations, fsyncs and   *)
(* deletions fail and in whatever order flushes are applied.                 *)
THEOREM WriteAheadRule == Spec => [](crashes = 0 => UnflushedLogged)
<1> DEFINE Ahead == crashes = 0 => WriteAhead
<1>1. IInv /\ Ahead => (crashes = 0 => UnflushedLogged)
  <2> SUFFICES ASSUME IInv, WriteAhead PROVE UnflushedLogged
    OBVIOUS
  <2>1. Active \in DOMAIN wal
    BY DEF IInv, TypeOK, WalTypeOK
  <2>2. wal[Active] \subseteq Content(wal)
    BY <2>1 DEF Content
  <2>3. memtable \subseteq Content(wal) \cup walBuf
    BY <2>2 DEF WriteAhead
  <2>4. Content(frozen) \subseteq Content(wal) \cup walBuf
    <3> SUFFICES ASSUME NEW j \in DOMAIN frozen, NEW r \in frozen[j], r \notin walBuf
                 PROVE  \E n \in DOMAIN wal : r \in wal[n]
      BY DEF Content
    <3> QED
      BY DEF WriteAhead
  <2> QED
    BY <2>3, <2>4 DEF UnflushedLogged
<1> QED
  BY <1>1, Invariance, AheadInvariance, PTL

-----------------------------------------------------------------------------
(* The refinement of LogStore.  Each lemma takes one kind of step, shows     *)
(* that it keeps StoreInv and names the step of LogStore it is.              *)

\* A step of LogStore, after which StoreInv holds.
StoreStep == StoreInv' /\ (Store!Append \/ Store!Harden \/ Store!Restart)

\* The program starts with an empty store.
LEMMA InitStore == Init => StoreInv /\ Store!LogInit
<1> SUFFICES ASSUME Init PROVE StoreInv /\ Store!LogInit
  OBVIOUS
<1>1. Written = {}
  BY DEF Init, IoInit, Written, Range
<1>2. Visible = {}
  BY DEF Init, Visible, Content
<1>3. Content(wal) = {} /\ Content(sstFile) = {} /\ walBuf = {}
  BY DEF Init, WalInit, IoInit, Content
<1> QED
  BY <1>1, <1>2, <1>3 DEF Init, WalInit, StoreInv, CompactionRecords, Store!LogInit

\* What is durable is on disk, and on disk is what queries return.
LEMMA DurableOnDisk ==
  ASSUME WalTypeOK
  PROVE  Durable \subseteq Content(wal) \cup Content(sstFile)
BY DEF WalTypeOK, Durable, Recovered, Content

\* A step without a crash that loses nothing and leaves no file broken.
LEMMA StoreKept ==
  ASSUME StoreInv, WalTypeOK', corrupt' = {}, halfTail' = FALSE,
         Visible \subseteq Visible', Visible' \subseteq 1 .. MaxSeq,
         Content(wal') \cup walBuf' \cup Content(sstFile') \subseteq Visible',
         CompactionRecords', UNCHANGED crashes,
         crashes = 0 => Durable \subseteq Durable',
         \/ hardened' = hardened
         \/ Visible' = Visible /\ hardened' = hardened \cup Durable'
  PROVE  StoreStep
<1>1. Durable' \subseteq Visible'
  <2>1. Durable' \subseteq Content(wal') \cup Content(sstFile')
    BY DEF WalTypeOK, Durable, Recovered, Content
  <2> QED
    BY <2>1
<1>2. StoreInv'
  <2>1. hardened' \subseteq Visible'
    BY <1>1 DEF StoreInv
  <2>2. crashes' = 0 => hardened' \subseteq Durable'
    BY DEF StoreInv
  <2> QED
    BY <2>1, <2>2 DEF StoreInv
<1>3. CASE hardened' = hardened
  BY <1>2, <1>3 DEF StoreStep, Store!Append
<1>4. CASE Visible' = Visible /\ hardened' = hardened \cup Durable'
  BY <1>1, <1>2, <1>4 DEF StoreStep, Store!Harden, StoreInv
<1> QED
  BY <1>3, <1>4

\* Steps that leave memory and SSTables alone and write no new records.
LEMMA VisibleSame ==
  ASSUME UNCHANGED <<memtable, frozen, sstable_map, sstFile>>
  PROVE  Visible' = Visible
BY DEF Visible, Content

\* Jobs that have not been written and results do not concern the files.
LEMMA CompactionRecordsKept ==
  ASSUME CompactionRecords, Written' \subseteq Written, sstFile' = sstFile
  PROVE  CompactionRecords'
BY DEF CompactionRecords

\* The records of a WAL whose active file takes in the buffer, and R.
LEMMA ContentGrows ==
  ASSUME WalTypeOK, WalTypeOK', DOMAIN wal' = DOMAIN wal,
         \A n \in DOMAIN wal' \ {Active} : wal'[n] = wal[n],
         NEW R, wal'[Active] \cup walBuf' = wal[Active] \cup walBuf \cup R
  PROVE  Content(wal') \cup walBuf' = Content(wal) \cup walBuf \cup R
<1>0. Active \in DOMAIN wal
  BY DEF WalTypeOK
<1>1. Content(wal) = wal[Active] \cup UNION {wal[n] : n \in DOMAIN wal \ {Active}}
  BY <1>0 DEF Content
<1>2. Content(wal') = wal'[Active] \cup UNION {wal'[n] : n \in DOMAIN wal \ {Active}}
  BY <1>0 DEF Content
<1>3. UNION {wal'[n] : n \in DOMAIN wal \ {Active}} = UNION {wal[n] : n \in DOMAIN wal \ {Active}}
  OBVIOUS
<1> QED
  BY <1>1, <1>2, <1>3

\* Steps that change neither files nor memory: a query, a command sent.
LEMMA IdleStore ==
  ASSUME IInv', StoreInv, Written' \subseteq Written,
         UNCHANGED <<walVars, sstFile, engineVars>>,
         UNCHANGED history \/ BackendWaits
  PROVE  StoreStep
<1>0. WalTypeOK'
  BY DEF IInv, TypeOK
<1>1. /\ UNCHANGED <<wal, synced, walBuf, halfTail, corrupt, crashes>>
      /\ UNCHANGED <<memtable, frozen, sstable_map, sstFile>>
      /\ hardened' = hardened \/ hardened' = hardened \cup Durable'
  BY DEF walVars, engineVars, history, BackendWaits
<1>2. Visible' = Visible /\ Durable' = Durable
  BY <1>1, VisibleSame DEF Durable, Recovered, Content
<1>3. Content(wal') = Content(wal) /\ Content(sstFile') = Content(sstFile)
  BY <1>1 DEF Content
<1>4. CompactionRecords'
  BY CompactionRecordsKept DEF StoreInv
<1>5. /\ Visible' \subseteq 1 .. MaxSeq /\ corrupt' = {} /\ halfTail' = FALSE
      /\ Content(wal') \cup walBuf' \cup Content(sstFile') \subseteq Visible'
  BY <1>1, <1>2, <1>3 DEF StoreInv
<1> QED
  BY <1>0, <1>1, <1>2, <1>4, <1>5, StoreKept

\* Inserts: the records are added to what queries return, and to the WAL.
LEMMA InsertStore ==
  ASSUME IInv, IInv', StoreInv, OneCrash, NEW R \in SUBSET (1 .. MaxSeq),
         WriteRecords(R), memtable' = memtable \cup R,
         UNCHANGED <<frozen, sstable_map, ioVars, history>>
  PROVE  StoreStep
<1>0. WalTypeOK /\ WalTypeOK' /\ R \in SUBSET Nat
  BY BackendAssumption DEF IInv, TypeOK
<1>1. /\ corrupt' = corrupt /\ synced' = synced /\ Buffer(R)
      /\ UNCHANGED <<sstFile, sending, ioResults, crashes, hardened>>
  BY DEF WriteRecords, ioVars, history
<1>2. halfTail' = FALSE
  BY <1>1 DEF Buffer, StoreInv, OneCrash
<1>3. Visible' = Visible \cup R
  BY <1>1 DEF Visible, Content
<1>4. Content(wal') \cup walBuf' = Content(wal) \cup walBuf \cup R
  <2>1. /\ DOMAIN wal' = DOMAIN wal
        /\ \A n \in DOMAIN wal' \ {Active} : wal'[n] = wal[n]
    BY <1>0, OtherFilesKept
  <2>2. wal'[Active] \cup walBuf' = wal[Active] \cup walBuf \cup R
    BY <1>0, <1>1, BufferActive
  <2> QED
    BY <1>0, <2>1, <2>2, ContentGrows
<1>5. Content(sstFile') = Content(sstFile) /\ Durable' = Durable
  BY <1>1 DEF Content, Durable, Recovered
<1>6. CompactionRecords'
  BY <1>1, CompactionRecordsKept DEF Written, StoreInv
<1>7. /\ Visible \subseteq Visible' /\ Visible' \subseteq 1 .. MaxSeq
      /\ Content(wal') \cup walBuf' \cup Content(sstFile') \subseteq Visible'
      /\ corrupt' = {}
  BY <1>1, <1>3, <1>4, <1>5 DEF StoreInv
<1> QED
  BY <1>0, <1>1, <1>2, <1>5, <1>6, <1>7, StoreKept

\* flush_buffer moves records from the buffer to the file.
LEMMA FlushStore ==
  ASSUME IInv, IInv', StoreInv, FlushBuffer, Visible' = Visible,
         UNCHANGED <<sending, ioResults, sstFile, history>>
  PROVE  StoreStep
<1>0. WalTypeOK /\ WalTypeOK'
  BY DEF IInv, TypeOK
<1>1. /\ halfTail' = FALSE /\ corrupt' = corrupt /\ synced' = synced
      /\ UNCHANGED <<crashes, hardened>>
  BY DEF FlushBuffer, history
<1>2. Content(wal') \cup walBuf' = Content(wal) \cup walBuf
  <2>1. /\ DOMAIN wal' = DOMAIN wal
        /\ \A n \in DOMAIN wal' \ {Active} : wal'[n] = wal[n]
    BY <1>0, OtherFilesKept
  <2>2. wal'[Active] \cup walBuf' = wal[Active] \cup walBuf \cup {}
    BY <1>0, FlushActive
  <2> QED
    BY <1>0, <2>1, <2>2, ContentGrows
<1>3. Content(sstFile') = Content(sstFile) /\ Durable' = Durable
  BY <1>1 DEF Content, Durable, Recovered
<1>4. CompactionRecords'
  BY CompactionRecordsKept DEF Written, StoreInv
<1>5. /\ Visible' \subseteq 1 .. MaxSeq /\ corrupt' = {}
      /\ Content(wal') \cup walBuf' \cup Content(sstFile') \subseteq Visible'
  BY <1>1, <1>2, <1>3 DEF StoreInv
<1> QED
  BY <1>0, <1>1, <1>3, <1>4, <1>5, StoreKept

\* What clients and the end of a batch do.
LEMMA ClientStore ==
  ASSUME IInv, IInv', StoreInv, OneCrash,
         \/ HandleInsert \/ HandleInsertFails
         \/ \E n \in BatchSizes : HandleBatchInsert(n) \/ HandleBatchInsertFails(n)
         \/ HandleQuery \/ EndBatch \/ EndBatchFails
  PROVE  StoreStep
<1>0. "append" \notin Faults /\ seq_counter \in Nat \ {0} /\ MaxSeq \in Nat
  BY BackendAssumption DEF OneCrash, IInv, TypeOK
<1>1. CASE HandleInsert
  <2>1. {seq_counter} \in SUBSET (1 .. MaxSeq)
    BY <1>0, <1>1 DEF HandleInsert
  <2> QED
    BY <1>1, <2>1, InsertStore DEF HandleInsert
<1>2. ASSUME NEW n \in BatchSizes, HandleBatchInsert(n) PROVE StoreStep
  <2>1. n \in Nat
    BY BackendAssumption
  <2>2. (seq_counter .. (seq_counter + n - 1)) \in SUBSET (1 .. MaxSeq)
    BY <1>0, <1>2, <2>1 DEF HandleBatchInsert
  <2> QED
    BY <1>2, <2>2, InsertStore DEF HandleBatchInsert
<1>3. CASE EndBatch
  <2>1. UNCHANGED <<memtable, frozen, sstable_map, sstFile, sending, ioResults, history>>
    BY <1>3 DEF EndBatch, engineVars
  <2> QED
    BY <1>3, <2>1, VisibleSame, FlushStore DEF EndBatch
<1>4. CASE HandleQuery
  <2>1. UNCHANGED <<walVars, ioVars, engineVars, history>>
    BY <1>4 DEF HandleQuery
  <2>2. Written' \subseteq Written /\ sstFile' = sstFile
    BY <2>1 DEF ioVars, Written
  <2> QED
    BY <2>1, <2>2, IdleStore
<1>5. CASE HandleInsertFails \/ EndBatchFails
           \/ \E n \in BatchSizes : HandleBatchInsertFails(n)
  BY <1>0, <1>5 DEF HandleInsertFails, HandleBatchInsertFails, EndBatchFails,
     WriteFails, FlushFails
<1> QED
  BY <1>1, <1>2, <1>3, <1>4, <1>5

\* An fsync puts more of a WAL file on stable storage.
LEMMA SyncStore ==
  ASSUME IInv, IInv', StoreInv, Sync \/ Resync
  PROVE  StoreStep
<1>0. WalTypeOK /\ WalTypeOK'
  BY DEF IInv, TypeOK
<1>1. /\ Fsync /\ UNCHANGED <<wal, walBuf, halfTail, corrupt, sstFile, sending, ioResults>>
      /\ UNCHANGED <<memtable, frozen, sstable_map, crashes>>
      /\ hardened' = hardened \cup Durable'
  BY DEF Sync, HandleSync, Resync, HandleResync, BackendWaits, engineVars
<1>2. \A n \in DOMAIN synced : n \in DOMAIN synced' /\ synced[n] \subseteq synced'[n]
  BY <1>0, <1>1 DEF Fsync, WalTypeOK
<1>3. Durable \subseteq Durable'
  BY <1>1, <1>2 DEF Durable, Recovered, Content
<1>4. Visible' = Visible
  BY <1>1, VisibleSame
<1>5. Content(wal') = Content(wal) /\ Content(sstFile') = Content(sstFile)
  BY <1>1 DEF Content
<1>6. CompactionRecords'
  BY <1>1, CompactionRecordsKept DEF StoreInv, Written
<1>7. /\ Visible' \subseteq 1 .. MaxSeq /\ corrupt' = {} /\ halfTail' = FALSE
      /\ Content(wal') \cup walBuf' \cup Content(sstFile') \subseteq Visible'
  BY <1>1, <1>4, <1>5 DEF StoreInv
<1> QED
  BY <1>0, <1>1, <1>3, <1>4, <1>6, <1>7, StoreKept

\* A task writes its SSTable file: its records are in memory or in live tables.
LEMMA WriteStore ==
  ASSUME IInv, IInv', CleanupInv, StoreInv, OneCrash, NEW t \in running, TaskWrites(t)
  PROVE  StoreStep
<1>0. /\ TypeOK /\ WalTypeOK' /\ JobFiles /\ JobShape /\ CompactionsMarked /\ FlushRecords
      /\ sstable_map \subseteq DOMAIN sstFile
  BY DEF IInv, TypeOK, CleanupInv
<1>1. PICK R \in MayWrite(t) : sstFile' = Put(sstFile, t.id, R)
  BY DEF TaskWrites, WriteSst
<1>2. /\ sending' = sending \cup {t} /\ ioResults' = ioResults
      /\ UNCHANGED <<wal, synced, walBuf, halfTail, corrupt>>
      /\ UNCHANGED <<memtable, frozen, sstable_map, crashes>>
      /\ hardened' = hardened \cup Durable'
  BY DEF TaskWrites, WriteSst, BackendWaits, walVars, engineVars
<1>3. t \in Unwritten /\ t.op \in {"flush", "compact"} /\ t.id \notin DOMAIN sstFile
  <2>1. t \in Unwritten /\ t.op # "resync" /\ t \in IoCommand
    BY <1>0, JobsType DEF Unwritten, JobShape
  <2>2. t.op \in {"flush", "compact"}
    BY <2>1 DEF IoCommand
  <2> QED
    BY <2>1, <2>2, TaskWritesStep
<1>4. t.op = "compact" => t.tables \subseteq sstable_map /\ R = UNION {sstFile[i] : i \in t.tables}
  <2>1. t.op = "compact" => t.tables \subseteq sstable_map
    BY <1>0, <1>3 DEF CompactionsMarked, CompactionsDisjoint, Compactions
  <2>2. t.op = "compact" => R = UNION {sstFile[i] : i \in t.tables}
    BY <1>1 DEF MayWrite, OneCrash
  <2> QED
    BY <2>1, <2>2
<1>5. R \subseteq Visible
  <2>1. CASE t.op = "flush"
    <3>1. R = t.recs /\ t.id \in DOMAIN frozen /\ frozen[t.id] = t.recs
      BY <1>0, <1>1, <1>3, <2>1 DEF MayWrite, FlushRecords
    <3> QED
      BY <3>1 DEF Visible, Content
  <2>2. CASE t.op = "compact"
    BY <1>4, <2>2 DEF Visible
  <2> QED
    BY <1>3, <2>1, <2>2
<1>6. /\ DOMAIN sstFile' = DOMAIN sstFile \cup {t.id} /\ sstFile'[t.id] = R
      /\ \A i \in DOMAIN sstFile : sstFile'[i] = sstFile[i]
  BY <1>1, <1>3 DEF Put
<1>7. Visible' = Visible
  <2>1. \A i \in sstable_map : sstFile'[i] = sstFile[i]
    BY <1>0, <1>6
  <2> QED
    BY <1>2, <2>1 DEF Visible, Content
<1>8. Content(sstFile') = Content(sstFile) \cup R /\ Content(wal') = Content(wal)
  BY <1>2, <1>6 DEF Content
<1>9. Durable \subseteq Durable'
  BY <1>2, <1>8 DEF Durable, Recovered
<1>10. CompactionRecords'
  <2> SUFFICES ASSUME NEW u \in Written', u.op = "compact", NEW i \in u.tables
               PROVE  sstFile'[i] \subseteq sstFile'[u.id]
    BY DEF CompactionRecords
  <2>1. CASE u = t
    <3>1. sstFile'[i] = sstFile[i] /\ sstFile[i] \subseteq R
      BY <1>0, <1>4, <1>6, <2>1
    <3> QED
      BY <1>6, <2>1, <3>1
  <2>2. CASE u # t
    <3>1. u \in Written
      BY <1>2, <2>2 DEF Written
    <3>2. u.tables \subseteq sstable_map /\ u.id \in Ids(Written)
      BY <1>0, <3>1 DEF CompactionsMarked, CompactionsDisjoint, Compactions, JobShape, Ids
    <3>3. i \in DOMAIN sstFile /\ u.id \in DOMAIN sstFile
      BY <1>0, <3>2 DEF JobFiles
    <3>4. sstFile[i] \subseteq sstFile[u.id]
      BY <3>1 DEF StoreInv, CompactionRecords
    <3> QED
      BY <1>6, <3>3, <3>4
  <2> QED
    BY <2>1, <2>2
<1>11. /\ Visible' \subseteq 1 .. MaxSeq /\ corrupt' = {} /\ halfTail' = FALSE
       /\ Content(wal') \cup walBuf' \cup Content(sstFile') \subseteq Visible'
  BY <1>2, <1>5, <1>7, <1>8 DEF StoreInv
<1> QED
  BY <1>0, <1>2, <1>7, <1>9, <1>10, <1>11, StoreKept

\* Freezing the memtable keeps what queries return; the rotated file is new
\* until the first crash, so what is fsynced of the active one stays.
LEMMA FreezeStore ==
  ASSUME IInv, IInv', CleanupInv, crashes = 0 => WriteAhead, StoreInv, OneCrash,
         SendFlushCmd \/ SendFlushCmdFails
  PROVE  StoreStep
<1>0. TypeOK /\ WalTypeOK /\ WalTypeOK' /\ sst_counter \in Nat \ {0}
  BY DEF IInv, TypeOK
<1>1. /\ memtable' = {} /\ frozen' = Put(frozen, sst_counter, memtable)
      /\ UNCHANGED <<sstable_map, sstFile, sending, ioResults, history>>
  BY DEF SendFlushCmd, SendFlushCmdFails, PrepareFlush, ioVars
<1>2. sst_counter \notin DOMAIN frozen
  <2>1. \A j \in DOMAIN frozen : j \in 1 .. (sst_counter - 1)
    BY DEF CleanupInv, CleanupIds
  <2> QED
    BY <1>0, <2>1
<1>3. Visible' = Visible
  <2>1. Content(frozen') = Content(frozen) \cup memtable
    BY <1>1, <1>2 DEF Put, Content
  <2> QED
    BY <1>1, <2>1 DEF Visible
<1>4. CASE SendFlushCmdFails
  <2>1. FlushBuffer
    BY <1>4 DEF SendFlushCmdFails, FlushFails, OneCrash
  <2> QED
    BY <1>1, <1>3, <2>1, FlushStore
<1>5. CASE SendFlushCmd
  <2>1. Rotate(sst_counter) /\ walBuf' = {} /\ halfTail' = FALSE /\ corrupt' = {}
    BY <1>5 DEF SendFlushCmd, Rotate, StoreInv
  <2>2. /\ DOMAIN wal' = DOMAIN wal \cup {sst_counter}
        /\ wal'[Active] = {}
        /\ wal'[sst_counter] = wal[Active] \cup walBuf
        /\ \A n \in DOMAIN wal : n \notin {sst_counter, Active} => wal'[n] = wal[n]
    BY <1>0, <2>1 DEF Rotate, Put, Flushed, Active, WalTypeOK
  <2>3. /\ DOMAIN synced' = DOMAIN wal \cup {sst_counter}
        /\ synced'[sst_counter] = synced[Active]
        /\ \A n \in DOMAIN wal : n \notin {sst_counter, Active} => synced'[n] = synced[n]
    BY <1>0, <2>1 DEF Rotate, Put, Active, WalTypeOK
  <2>4. Content(wal') \subseteq Content(wal) \cup walBuf
    <3>1. \A n \in DOMAIN wal' : wal'[n] \subseteq Content(wal) \cup walBuf
      BY <1>0, <2>2 DEF Content, WalTypeOK
    <3> QED
      BY <3>1 DEF Content
  <2>5. crashes = 0 => Durable \subseteq Durable'
    <3> SUFFICES ASSUME crashes = 0 PROVE Durable \subseteq Durable'
      OBVIOUS
    <3>1. sst_counter \notin DOMAIN wal
      BY <1>0 DEF WriteAhead
    <3>2. \A n \in DOMAIN synced : \E m \in DOMAIN synced' : synced[n] \subseteq synced'[m]
      BY <1>0, <2>3, <3>1 DEF WalTypeOK
    <3> QED
      BY <1>1, <2>1, <3>2 DEF Durable, Recovered, Content, StoreInv
  <2>6. Content(sstFile') = Content(sstFile)
    BY <1>1 DEF Content
  <2>7. CompactionRecords'
    BY <1>1, CompactionRecordsKept DEF StoreInv, Written
  <2>8. /\ Visible' \subseteq 1 .. MaxSeq
        /\ Content(wal') \cup walBuf' \cup Content(sstFile') \subseteq Visible'
    BY <1>3, <2>1, <2>4, <2>6 DEF StoreInv
  <2> QED
    BY <1>0, <1>1, <1>3, <2>1, <2>5, <2>7, <2>8, StoreKept DEF history
<1> QED
  BY <1>4, <1>5

\* A flush is applied: the SSTable replaces the frozen memtable, and what the
\* deleted WALs held is in live SSTables.
LEMMA ApplyFlushStore ==
  ASSUME IInv, IInv', CleanupInv, StoreInv, ApplyFlushResult
  PROVE  StoreStep
<1> DEFINE h == Head(ioResults)
           live == sstable_map \cup {h.id}
<1>0. TypeOK /\ IoTypeOK /\ WalTypeOK /\ WalTypeOK' /\ FlushRecords /\ JobFiles
  BY DEF IInv, TypeOK, CleanupInv
<1>1. /\ RecvResult("flush") /\ SendCompactionCmd(live, compacting)
      /\ frozen' = Restrict(frozen, DOMAIN frozen \ {h.id})
      /\ sstable_map' = sstable_map \cup {h.id}
      /\ UNCHANGED <<ioCmds, running, sending, sstFile, memtable, crashes, hardened>>
  BY DEF ApplyFlushResult, history
<1>2. PICK gone :
        /\ wal' = Restrict(wal, DOMAIN wal \ gone)
        /\ synced' = Restrict(synced, DOMAIN synced \ gone)
        /\ corrupt' = corrupt \ gone
        /\ UNCHANGED <<walBuf, halfTail>>
  BY DEF ApplyFlushResult, RemoveFiles
<1>3. h \in Written /\ h.op = "flush" /\ h.id \in Ids(Written) /\ Written' \subseteq Written
  <2>1. live \in SUBSET Nat /\ compacting \in SUBSET live
    <3>1. h \in IoCommand
      BY <1>0, <1>1, TailFacts DEF RecvResult, IoTypeOK
    <3>2. h.id \in Nat
      BY <3>1 DEF IoCommand
    <3> QED
      BY <1>0, <3>2 DEF TypeOK, IoTypeOK
  <2> HIDE DEF live
  <2> QED
    BY <1>1, <2>1, ResultReceived
<1>4. /\ h.id \in DOMAIN frozen /\ sstFile[h.id] = frozen[h.id]
      /\ h.id \in DOMAIN sstFile
  BY <1>0, <1>3 DEF FlushRecords, JobFiles
<1> HIDE DEF h, live
<1>5. Visible' = Visible
  <2>1. Content(frozen) = Content(frozen') \cup frozen[h.id]
    BY <1>1, <1>4 DEF Content, Restrict
  <2>2. \A i \in sstable_map : i \in sstable_map' /\ sstFile'[i] = sstFile[i]
    BY <1>1
  <2>3. h.id \in sstable_map' /\ sstFile'[h.id] = frozen[h.id]
    BY <1>1, <1>4
  <2>4. \A i \in sstable_map' : i \in sstable_map \/ sstFile'[i] = frozen[h.id]
    BY <1>1, <2>3
  <2>5. Visible \subseteq Visible'
    BY <1>1, <2>1, <2>2, <2>3 DEF Visible
  <2>6. Visible' \subseteq Visible
    BY <1>1, <2>1, <2>2, <2>4 DEF Visible
  <2> QED
    BY <2>5, <2>6
<1>6. /\ DOMAIN wal' = DOMAIN wal \ gone /\ \A n \in DOMAIN wal' : wal'[n] = wal[n]
      /\ DOMAIN synced' = DOMAIN wal \ gone
      /\ \A n \in DOMAIN synced' : synced'[n] = synced[n]
  BY <1>0, <1>2 DEF Restrict, WalTypeOK
<1>7. Content(wal') \subseteq Content(wal) /\ Content(sstFile') = Content(sstFile)
  BY <1>1, <1>6 DEF Content
<1>8. Durable \subseteq Durable'
  <2> SUFFICES ASSUME NEW n \in DOMAIN synced PROVE synced[n] \subseteq Durable'
    BY <1>7 DEF Durable, Recovered
  <2>1. synced[n] \subseteq wal[n] /\ n \in DOMAIN wal
    BY <1>0 DEF WalTypeOK
  <2>2. CASE n \in gone
    <3>1. wal[n] \cap Visible \subseteq UNION {sstFile'[i] : i \in sstable_map'}
      BY <1>6, <2>1, <2>2, FlushCleanup DEF StoreInv
    <3>2. wal[n] \subseteq Visible
      BY <2>1 DEF StoreInv, Content
    <3>3. UNION {sstFile'[i] : i \in sstable_map'} \subseteq Content(sstFile')
      BY <1>0, <1>1, <1>4 DEF Content, TypeOK
    <3> QED
      BY <2>1, <3>1, <3>2, <3>3 DEF Durable
  <2>3. CASE n \notin gone
    <3>1. n \in DOMAIN synced' /\ n \notin corrupt' /\ synced'[n] = synced[n]
      BY <1>2, <1>6, <2>1, <2>3 DEF StoreInv
    <3> QED
      BY <3>1 DEF Durable, Recovered
  <2> QED
    BY <2>2, <2>3
<1>9. CompactionRecords'
  BY <1>1, <1>3, CompactionRecordsKept DEF StoreInv
<1>10. /\ Visible' \subseteq 1 .. MaxSeq /\ corrupt' = {} /\ halfTail' = FALSE
       /\ Content(wal') \cup walBuf' \cup Content(sstFile') \subseteq Visible'
  BY <1>2, <1>5, <1>7 DEF StoreInv
<1> QED
  BY <1>0, <1>1, <1>5, <1>8, <1>9, <1>10, StoreKept

\* A compaction is applied: its table holds what the tables it replaces held.
LEMMA ApplyCompactionStore ==
  ASSUME IInv, IInv', StoreInv, ApplyCompactionResult
  PROVE  StoreStep
<1> DEFINE h == Head(ioResults)
           live == (sstable_map \ h.tables) \cup {h.id}
           busy == compacting \ h.tables
<1>0. /\ TypeOK /\ IoTypeOK /\ WalTypeOK' /\ JobFiles /\ JobShape /\ CompactionsMarked
      /\ sstable_map \subseteq DOMAIN sstFile
  BY DEF IInv, TypeOK
<1>1. /\ RecvResult("compact") /\ SendCompactionCmd(live, busy)
      /\ sstable_map' = live
      /\ UNCHANGED <<ioCmds, running, sending, memtable, frozen, crashes, hardened>>
      /\ UNCHANGED <<wal, synced, walBuf, halfTail, corrupt>>
  BY DEF ApplyCompactionResult, walVars, history
<1>2. PICK removed \in SUBSET h.tables :
        sstFile' = Restrict(sstFile, DOMAIN sstFile \ removed)
  BY DEF ApplyCompactionResult, MayRemove
<1>3. live \in SUBSET Nat /\ busy \in SUBSET live
  <2>1. h \in IoCommand
    BY <1>0, <1>1, TailFacts DEF RecvResult, IoTypeOK
  <2>2. h.id \in Nat
    BY <2>1 DEF IoCommand
  <2> QED
    BY <1>0, <2>2 DEF TypeOK, IoTypeOK
<1>4. /\ h \in Written /\ h.op = "compact" /\ h.id \in Ids(Written)
      /\ Written' \subseteq Written /\ \A t \in Written' : t.id # h.id
  <2> HIDE DEF live, busy
  <2> QED
    BY <1>1, <1>3, ResultReceived
<1>5. h.tables \subseteq sstable_map
  BY <1>0, <1>4 DEF CompactionsMarked, CompactionsDisjoint, Compactions
<1>6. h.id \in DOMAIN sstFile \ sstable_map
  BY <1>0, <1>4 DEF JobFiles
<1>7. \A i \in h.tables : sstFile[i] \subseteq sstFile[h.id]
  BY <1>4 DEF StoreInv, CompactionRecords
<1>8. /\ DOMAIN sstFile' = DOMAIN sstFile \ removed
      /\ \A i \in DOMAIN sstFile' : sstFile'[i] = sstFile[i]
      /\ h.id \in DOMAIN sstFile'
      /\ \A i \in sstable_map \ h.tables : i \in DOMAIN sstFile'
  BY <1>0, <1>2, <1>5, <1>6 DEF Restrict
<1>9. /\ Content(sstFile') = Content(sstFile) /\ Content(wal') = Content(wal)
      /\ Durable' = Durable
  <2>1. ASSUME NEW i \in DOMAIN sstFile
        PROVE  \E j \in DOMAIN sstFile' : sstFile[i] \subseteq sstFile'[j]
    BY <1>2, <1>7, <1>8
  <2>2. \A j \in DOMAIN sstFile' : j \in DOMAIN sstFile /\ sstFile'[j] = sstFile[j]
    BY <1>8
  <2>3. Content(sstFile') = Content(sstFile)
    BY <2>1, <2>2 DEF Content
  <2> QED
    BY <1>1, <2>3 DEF Content, Durable, Recovered
<1>10. Visible' = Visible
  <2>1. Visible \subseteq Visible'
    <3>1. \A i \in sstable_map : \E j \in sstable_map' : sstFile[i] \subseteq sstFile'[j]
      BY <1>1, <1>7, <1>8
    <3> QED
      BY <1>1, <3>1 DEF Visible, Content
  <2>2. Visible' \subseteq Visible
    <3>1. \A j \in sstable_map' : sstFile'[j] \subseteq Content(sstFile)
      BY <1>0, <1>1, <1>6, <1>8 DEF Content
    <3>2. \A j \in sstable_map' : sstFile'[j] \subseteq Visible
      BY <3>1 DEF StoreInv
    <3> QED
      BY <1>1, <3>2 DEF Visible, Content
  <2> QED
    BY <2>1, <2>2
<1>11. CompactionRecords'
  <2> SUFFICES ASSUME NEW u \in Written', u.op = "compact", NEW i \in u.tables
               PROVE  sstFile'[i] \subseteq sstFile'[u.id]
    BY DEF CompactionRecords
  <2>1. u \in Written /\ u # h
    BY <1>4
  <2>2. u.tables \cap h.tables = {} /\ u.tables \subseteq sstable_map
    BY <1>0, <1>4, <2>1 DEF CompactionsMarked, CompactionsDisjoint, Compactions
  <2>3. u.id \in DOMAIN sstFile \ sstable_map
    BY <1>0, <2>1 DEF JobFiles, JobShape, Ids
  <2>4. sstFile[i] \subseteq sstFile[u.id]
    BY <2>1 DEF StoreInv, CompactionRecords
  <2> QED
    BY <1>5, <1>8, <1>2, <2>2, <2>3, <2>4
<1>12. /\ Visible' \subseteq 1 .. MaxSeq /\ corrupt' = {} /\ halfTail' = FALSE
       /\ Content(wal') \cup walBuf' \cup Content(sstFile') \subseteq Visible'
  BY <1>1, <1>9, <1>10 DEF StoreInv
<1> QED
  BY <1>0, <1>1, <1>9, <1>10, <1>11, <1>12, StoreKept

\* The first crash: recovery reads back all that was on stable storage, and
\* nothing that queries did not return before.
LEMMA CrashStore ==
  ASSUME IInv, IInv', StoreInv, OneCrash, CrashRestart
  PROVE  StoreStep
<1>0. WalTypeOK /\ WalTypeOK' /\ crashes \in Nat
  BY DEF IInv, TypeOK
<1>1. crashes = 0 /\ crashes' = crashes + 1
  BY <1>0, BackendAssumption DEF CrashRestart, OneCrash
<1>2. /\ walBuf' = {} /\ halfTail' = FALSE
      /\ ioResults' = <<>> /\ sending' = {} /\ sstFile' = sstFile
      /\ memtable' = Recovered(wal', corrupt') /\ frozen' = [id \in {} |-> {}]
      /\ sstable_map' = DOMAIN sstFile
      /\ hardened' = hardened \cup Durable'
  BY DEF CrashRestart, ReopenActive
<1>3. /\ DOMAIN wal' = DOMAIN wal /\ corrupt' = {}
      /\ \A n \in DOMAIN wal : wal'[n] \subseteq wal[n] /\ synced[n] \subseteq wal'[n]
  <2>1. CASE ProcessCrash
    BY <1>0, <2>1 DEF ProcessCrash, WalTypeOK, StoreInv
  <2>2. CASE PowerLoss
    BY <1>0, <2>2 DEF PowerLoss, WalTypeOK, StoreInv, OneCrash
  <2> QED
    BY <2>1, <2>2 DEF CrashRestart
<1>4. Visible' = Content(wal') \cup Content(sstFile)
  <2>1. Content(frozen') = {}
    BY <1>2 DEF Content
  <2>2. memtable' = Content(wal')
    BY <1>2, <1>3 DEF Recovered, Content
  <2>3. UNION {sstFile'[i] : i \in sstable_map'} = Content(sstFile)
    BY <1>2 DEF Content
  <2> QED
    BY <2>1, <2>2, <2>3 DEF Visible
<1>5. Content(wal') \subseteq Content(wal) /\ Content(sstFile') = Content(sstFile)
  BY <1>2, <1>3 DEF Content
<1>6. Durable \subseteq Visible'
  <2>1. Recovered(synced, corrupt) \subseteq Content(wal')
    BY <1>0, <1>3 DEF Recovered, Content, WalTypeOK
  <2> QED
    BY <1>4, <2>1 DEF Durable
<1>7. Durable' \subseteq Visible'
  <2>1. Durable' \subseteq Content(wal') \cup Content(sstFile')
    BY <1>0 DEF WalTypeOK, Durable, Recovered, Content
  <2> QED
    BY <1>4, <1>5, <2>1
<1>8. Visible' \subseteq Visible
  BY <1>4, <1>5 DEF StoreInv
<1>9. hardened \subseteq Visible' /\ hardened' \subseteq Visible'
  BY <1>1, <1>2, <1>6, <1>7 DEF StoreInv
<1>10. CompactionRecords'
  <2>1. Written' = {}
    BY <1>2 DEF Written, Range
  <2> QED
    BY <2>1 DEF CompactionRecords
<1>11. StoreInv'
  <2>1. Visible' \subseteq 1 .. MaxSeq
    BY <1>8 DEF StoreInv
  <2>2. Content(wal') \cup walBuf' \cup Content(sstFile') \subseteq Visible'
    BY <1>2, <1>4, <1>5
  <2>3. crashes' # 0
    BY <1>1
  <2> QED
    BY <1>2, <1>3, <1>9, <1>10, <2>1, <2>2, <2>3 DEF StoreInv
<1>12. Store!Restart
  BY <1>1, <1>2, <1>8, <1>9 DEF Store!Restart
<1> QED
  BY <1>11, <1>12 DEF StoreStep

\* Every step of the storage task is a step of LogStore.
LEMMA NextStore ==
  ASSUME IInv, CleanupInv, crashes = 0 => WriteAhead, StoreInv, OneCrash, [Next]_vars
  PROVE  StoreInv' /\ [Store!LogNext]_(Store!logVars)
<1>0. IInv'
  BY NextIInv
<1> SUFFICES StoreStep
  BY DEF StoreStep, Store!LogNext
<1>1. CASE \/ HandleInsert \/ HandleInsertFails \/ HandleQuery
           \/ EndBatch \/ EndBatchFails
           \/ \E n \in BatchSizes : HandleBatchInsert(n) \/ HandleBatchInsertFails(n)
  BY <1>0, <1>1, ClientStore
<1>2. CASE SendFlushCmd \/ SendFlushCmdFails
  BY <1>0, <1>2, FreezeStore
<1>3. CASE ApplyFlushResult
  BY <1>0, <1>3, ApplyFlushStore
<1>4. CASE ApplyCompactionResult
  BY <1>0, <1>4, ApplyCompactionStore
<1>5. CASE Sync \/ Resync
  BY <1>0, <1>5, SyncStore
<1>6. CASE \E t \in running : TaskWrites(t)
  BY <1>0, <1>6, WriteStore
<1>7. CASE \E t \in sending : TaskSends(t)
  <2>1. PICK t \in sending : TaskSends(t)
    BY <1>7
  <2>2. ioResults' = Append(ioResults, t) /\ sending' = sending \ {t}
    BY <2>1 DEF TaskSends, SendResult
  <2>3. ioResults \in Seq(IoCommand) /\ t \in IoCommand
    BY DEF IInv, TypeOK, IoTypeOK
  <2>4. Written' \subseteq Written
    BY <2>2, <2>3, AppendFacts DEF Written
  <2> QED
    BY <1>0, <2>1, <2>4, IdleStore DEF TaskSends, SendResult, BackendWaits
<1>8. CASE SendIoCmd \/ ResyncFails \/ Spawn \/ \E t \in running : TaskFails(t)
  <2>1. UNCHANGED <<sending, ioResults, walVars, sstFile, engineVars>>
    BY <1>8 DEF SendIoCmd, ResyncFails, HandleResyncFails, Spawn, HandleSpawn,
       TaskFails, WriteSstFails, BackendWaits
  <2>2. UNCHANGED history \/ BackendWaits
    BY <1>8 DEF SendIoCmd, ResyncFails, Spawn, TaskFails
  <2>3. Written' \subseteq Written
    BY <2>1 DEF Written
  <2> QED
    BY <1>0, <2>1, <2>2, <2>3, IdleStore
<1>9. CASE CrashRestart
  BY <1>0, <1>9, CrashStore
<1>10. CASE UNCHANGED vars
  <2>1. UNCHANGED <<sending, ioResults, walVars, sstFile, engineVars, history>>
    BY <1>10 DEF vars, ioVars
  <2>2. Written' \subseteq Written
    BY <2>1 DEF Written
  <2> QED
    BY <1>0, <2>1, <2>2, IdleStore
<1> QED
  BY <1>1, <1>2, <1>3, <1>4, <1>5, <1>6, <1>7, <1>8, <1>9, <1>10 DEF Next

(* The storage of logregator-core implements LogStore: whatever its tasks    *)
(* interleave and whichever of the faults outside OneCrash happen, freezing, *)
(* rotation, flushes and compactions never change what range queries return, *)
(* and Engine::open after a crash, of the process or of the power, returns   *)
(* all that had been on stable storage and nothing that was not there.       *)
THEOREM StorageImplementsLogStore ==
  ASSUME OneCrash PROVE Spec => ImplementsLogStore
<1> DEFINE Ahead == crashes = 0 => WriteAhead
<1>1. Init => Store!LogInit /\ StoreInv
  BY InitStore
<1>2. IInv /\ CleanupInv /\ Ahead /\ StoreInv /\ [Next]_vars
        => StoreInv' /\ [Store!LogNext]_(Store!logVars)
  BY NextStore
<1> QED
  BY <1>1, <1>2, Invariance, CleanupInvariance, AheadInvariance, PTL
     DEF Spec, ImplementsLogStore, Store!LogSpec
=============================================================================
