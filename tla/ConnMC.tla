------------------------------- MODULE ConnMC -------------------------------
(***************************************************************************)
(* Requests and string lengths for ConnProps: a batch of two records, one  *)
(* with an empty value, and queries that match both, one or are refused.   *)
(***************************************************************************)
EXTENDS ConnProps

Rec(ts, value) == [source_id |-> 7, ts |-> ts, key |-> "k", value |-> value]

MCStrLen(s) == CASE s = "" -> 0 [] s = "k" -> 1 [] OTHER -> 3

MCStored == << Rec(0, "two") >>

\* One client writes, the other one reads.
MCRequests ==
  << { Insert(Rec(1, "one")), BatchInsert(<< Rec(1, ""), Rec(2, "two") >>), Metrics },
     { RangeOf(7, "k", 0, 3, ""), RangeOf(7, "k", 2, 1, "two"), Ping } >>
=============================================================================
