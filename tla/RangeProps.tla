----------------------------- MODULE RangeProps -----------------------------
(***************************************************************************)
(* What a range query has to return, and the inductive invariant of its    *)
(* proof.                                                                  *)
(***************************************************************************)
EXTENDS RangeQuery

\* The elements of a sequence, and of the sequences in one.
Elements(s) == {s[i] : i \in DOMAIN s}
InBatches(s) == UNION {Elements(s[i]) : i \in DOMAIN s}

Increasing(s) == \A i, j \in DOMAIN s : i < j => s[i] < s[j]

\* Reference: the records the store holds that the query is about.
Matches(r, q) ==
  /\ Log[r].sid = q.sid
  /\ Log[r].key = q.key
  /\ q.start <= Log[r].ts
  /\ Log[r].ts < q.end
  /\ Log[r].val \in q.matching

Wanted == {r \in UNION {source[s] : s \in Sources} : Matches(r, query)}

-----------------------------------------------------------------------------
(* Completeness: when Client::range returns records, all tables having been  *)
(* read, they are the ones the query asked for, wherever the store held      *)
(* them, in several tables at once or with a negative timestamp.             *)
RangeExact == client = "ok" /\ ~lost => Elements(got) = Wanted

(* Order: Client::range returns no record twice and none before one that     *)
(* Record::cmp orders first, even if tables could not be read.               *)
RangeSorted == Increasing(got)

(* The answer is not cut short: a query that was not refused and during      *)
(* which nothing failed to decode ends in RangeEnd, in Error otherwise, or   *)
(* the connection is gone; the blocking task always ends.                    *)
QueryEnds ==
  <>[](/\ task = "done"
       /\ client = "gone" \/ client = IF Rejected \/ loop_err THEN "error" ELSE "ok")

-----------------------------------------------------------------------------
\* The parts of the inductive invariant.
RangeTypeOK ==
  /\ query \in Queries
  /\ source \in [Sources -> SUBSET (DOMAIN Log)]
  /\ task \in {"idle", "merging", "sending", "draining", "done"}
  /\ rest \in [Sources -> SUBSET (DOMAIN Log)]
  /\ heap \subseteq (DOMAIN Log) \X Sources
  /\ last \in (DOMAIN Log) \cup {NoRecord}
  /\ batch \in Seq(DOMAIN Log)
  /\ loop_err \in BOOLEAN
  /\ chan \in Seq(Seq(DOMAIN Log))
  /\ end \in {"none", "ok", "error"}
  /\ client \in {"waiting", "ok", "error", "gone"}
  /\ got \in Seq(DOMAIN Log)
  /\ out \in Seq(DOMAIN Log)
  /\ lost \in BOOLEAN

\* A source has one record on the heap, its next one, until it has no more.
HeapHoldsNext ==
  /\ \A a, b \in heap : a[2] = b[2] => a = b
  /\ \A item \in heap : \A r \in rest[item[2]] : item[1] < r
  /\ \A s \in Sources : rest[s] # {} => \E item \in heap : item[2] = s

\* What has been returned is sorted and not above what is still to come.
MergedSoFar ==
  /\ Increasing(out)
  /\ \A i \in DOMAIN out : out[i] <= last
  /\ last = NoRecord \/ last \in Elements(out)
  /\ \A item \in heap : last <= item[1]

\* Nothing is lost in the merge.
Pending == {item[1] : item \in heap} \cup UNION {rest[s] : s \in Sources}
AllSelected == UNION {Selected(s) : s \in Sources}

Conserved ==
  ~Rejected /\ task # "idle" /\ ~lost => Elements(out) \cup Pending = AllSelected

\* Nothing is lost on the way to the client.
Delivered ==
  ~loop_err /\ client # "gone" =>
    Elements(got) \cup InBatches(chan) \cup Elements(batch) = Elements(out)

\* What the end of the task says about the merge.
EndMeansAll ==
  /\ task = "idle" => /\ heap = {} /\ last = NoRecord
                      /\ out = <<>> /\ batch = <<>> /\ chan = <<>>
  /\ task \in {"merging", "sending", "draining"} => ~Rejected
  /\ task \in {"draining", "done"} /\ ~Rejected /\ ~loop_err /\ client # "gone" => heap = {}
  /\ task = "done" => batch = <<>>
  /\ end = "ok" => task = "done" /\ ~Rejected /\ ~loop_err
  /\ task = "done" <=> end # "none"
  /\ client = "ok" => end = "ok" /\ chan = <<>>

(* The merge and the delivery keep every record that was selected, in order: *)
(* the inductive invariant of the proof.                                     *)
RangeInv ==
  /\ RangeTypeOK
  /\ HeapHoldsNext
  /\ MergedSoFar
  /\ Conserved
  /\ Delivered
  /\ EndMeansAll

\* Every record of one batch comes before every record of another.
Before(a, b) == \A x \in Elements(a) : \A y \in Elements(b) : x < y

(* On its way to the client an answer stays in order: within each batch,     *)
(* between batches, and up to the last record the merge has returned.        *)
DeliveryOrdered ==
  /\ Increasing(got) /\ Increasing(batch) /\ Before(got, batch)
  /\ \A i \in DOMAIN chan :
       Increasing(chan[i]) /\ Before(got, chan[i]) /\ Before(chan[i], batch)
  /\ \A i, j \in DOMAIN chan : i < j => Before(chan[i], chan[j])
  /\ \A x \in Elements(got) \cup InBatches(chan) \cup Elements(batch) : x <= last
=============================================================================
