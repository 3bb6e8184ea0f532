------------------------------ MODULE LsmRange ------------------------------
(***************************************************************************)
(* LsmTree::range and the iterators it returns (lsm.rs, merge_iter.rs,     *)
(* label.rs), as the set of the outcomes a call may have: hash sets are    *)
(* iterated in any order and a binary search may end in any of several     *)
(* blocks.                                                                 *)
(***************************************************************************)
EXTENDS Lsm, MergeIter

CONSTANT MAX_U64   \* u64::MAX, the greatest sequence number and source

ASSUME MaxU64Assumption == MAX_U64 \in Nat /\ MaxSeq <= MAX_U64

low(stream, start_t) ==
  [stream_id |-> stream, timestamp |-> start_t, sequence_num |-> 0, source_id |-> 0]

\* Mutant of high: the fields after the time are left at zero.
highZero(stream, end_t) ==
  [stream_id |-> stream, timestamp |-> end_t, sequence_num |-> 0, source_id |-> 0]

high(stream, end_t) ==
  [stream_id |-> stream, timestamp |-> end_t, sequence_num |-> MAX_U64, source_id |-> MAX_U64]

(* What the cursor MergeIter::new opens on a table gives: <<>> if it cannot  *)
(* be opened, and no record of a table whose filter misses the stream.       *)
Yield(h, c, hi) == IF c.ok THEN <<cursor_yield(h, c, Included(hi))>> ELSE <<>>

Yields(h, lo, hi) ==
  IF may_contain(h.bloom, lo.stream_id)
  THEN {Yield(h, cursor_new(h, Included(lo), idx), hi) : idx \in StartBlocks(h, Included(lo))}
  ELSE {<<<<>>>>}

OneOfEach(sets) == {f \in [DOMAIN sets -> UNION Range(sets)] : \A i \in DOMAIN sets : f[i] \in sets[i]}

\* The ranges of the active memtable and of the frozen ones.
Ranges(lo, hi) ==
  [i \in 1..(Len(frozen_memtables) + 1) |->
     memtable_range(IF i = 1 THEN memtable ELSE frozen_memtables[i - 1], lo, hi)]

(* MergeIter::new and the records it then gives: an error when a cursor      *)
(* cannot be opened, a panic when the range of a memtable panics.            *)
Iterated(lo, hi, yields) ==
  IF <<>> \in Range(yields) THEN [out |-> "Err", recs |-> <<>>]
  ELSE IF \E mt \in Range(frozen_memtables) \cup {memtable} : RangePanics(mt, lo, hi)
  THEN [out |-> "panic", recs |-> <<>>]
  ELSE [out |-> "ok", recs |-> merge(Ranges(lo, hi) \o [i \in DOMAIN yields |-> yields[i][1]])]

MergeIters(lo, hi) ==
  {Iterated(lo, hi, yields) :
     yields \in OneOfEach([i \in DOMAIN sst_handles |-> Yields(sst_handles[i].handle, lo, hi)])}

merge_iter(stream, start_t, end_t) == MergeIters(low(stream, start_t), high(stream, end_t))

(* range: one MergeIter per stream, all of them built before the first       *)
(* record; LabeledIter stops at the end of the first.                        *)
FirstOf(each) ==
  IF \A s \in DOMAIN each : \E o \in each[s] : o.out = "ok" THEN UNION Range(each)
  ELSE {o \in UNION Range(each) : o.out # "ok"}

lsm_range(labels, start_t, end_t) ==
  IF label_intersection(labels) = {} THEN {[out |-> "ok", recs |-> <<>>]}
  ELSE FirstOf([s \in label_intersection(labels) |-> merge_iter(s, start_t, end_t)])
=============================================================================
