------------------------------ MODULE RangeMC -------------------------------
(***************************************************************************)
(* A small log for RangeProps: two records with the same time and one      *)
(* before 1970, whose bytes sort last; queries for all, for some and for   *)
(* none of them.                                                           *)
(***************************************************************************)
EXTENDS RangeProps

Rec(ts, seq, key, val) == [sid |-> 1, ts |-> ts, seq |-> seq, key |-> key, val |-> val]

MCLog == << Rec(0, 1, 1, "a"), Rec(1, 2, 1, "b"), Rec(1, 4, 1, "a"), Rec(-1, 3, 1, "a") >>

Query(sid, key, start, stop, matching) ==
  [sid |-> sid, key |-> key, start |-> start, end |-> stop, matching |-> matching]

MCQueries ==
  { Query(1, 1, 0, 3, {"a", "b"}),   \* everything but the negative timestamp
    Query(1, 1, 0, 1, {"a", "b"}),   \* the end of the range is a timestamp
    Query(1, 1, 1, 2, {"a"}),        \* a start and a filter
    Query(1, 2, 0, 3, {"a", "b"}),   \* another key
    Query(1, 1, -1, 2, {"a"}) }      \* refused
=============================================================================
