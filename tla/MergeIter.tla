----------------------------- MODULE MergeIter ------------------------------
(***************************************************************************)
(* MergeIter of logregator-tsdb (merge_iter.rs): what it takes from its    *)
(* sources, and in which order.                                            *)
(***************************************************************************)
EXTENDS SstTable

\* How many records the blocks of a table hold.
RecordCount(h) ==
  Total([i \in DOMAIN h.block_metadata |-> Len(read_block(h, i - 1)[1].data)])

(* fill_from_single on a table: next and then take_current, so the record    *)
(* the cursor was positioned on is passed over, until it gives no record.    *)
(* The end bound is looked at between blocks only.                           *)
Yielded(acc, c) ==
  IF cursor_record(c) = <<>> THEN [acc EXCEPT !.done = TRUE]
  ELSE [acc EXCEPT !.c = c, !.out = @ \o cursor_record(c)]

fill_from_single(h, acc, end) ==
  IF acc.done THEN acc ELSE Yielded(acc, cursor_next(h, cursor_take(acc.c), end))

cursor_yield(h, c, end) ==
  LET at[n \in 0..RecordCount(h)] ==
        IF n = 0 THEN [c |-> c, out |-> <<>>, done |-> FALSE]
                 ELSE fill_from_single(h, at[n - 1], end)
  IN at[RecordCount(h)].out

\* Mutant of Least: the sources one after the other.
LeastFirst(left) ==
  CHOOSE i \in DOMAIN left : left[i] # <<>> /\ \A j \in 1..(i - 1) : left[j] = <<>>

(* MergeIter::next until it is None: the least of the heads, and the source  *)
(* it came from is advanced.                                                 *)
Least(left) ==
  CHOOSE i \in DOMAIN left :
    /\ left[i] # <<>>
    /\ \A j \in DOMAIN left : left[j] # <<>> => KeyLeq(Head(left[i]).key, Head(left[j]).key)

Pop(acc, i) ==
  [left |-> [acc.left EXCEPT ![i] = Tail(@)], out |-> Append(acc.out, Head(acc.left[i]))]

pop_least(acc) == Pop(acc, Least(acc.left))

merge(sources) ==
  LET count == Total([i \in DOMAIN sources |-> Len(sources[i])])
      at[n \in 0..count] ==
        IF n = 0 THEN [left |-> sources, out |-> <<>>] ELSE pop_least(at[n - 1])
  IN at[count].out
=============================================================================
