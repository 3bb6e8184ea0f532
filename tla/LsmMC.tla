-------------------------------- MODULE LsmMC -------------------------------
(***************************************************************************)
(* A tree of memtables that hold two records: payloads of three streams,   *)
(* one whose text is too short once its labels are gone, one without       *)
(* labels, one whose labels no manifest entry can name.                    *)
(***************************************************************************)
EXTENDS LsmProps

P(labels, len) == [raw |-> len + 4, decodes |-> TRUE, labels |-> labels, len |-> len]

MCPayloads ==
  { P({"a"}, 2), P({"a", "b"}, 4), P({"b"}, 1), P({"empty"}, 2),
    [raw |-> 4, decodes |-> FALSE, labels |-> {}, len |-> 0] }

MCQueries ==
  { [labels |-> {"a"}, from |-> 0, to |-> 9],
    [labels |-> {"a", "b", "unknown"}, from |-> 2, to |-> 2] }

\* The records and the query of the test of tests/integ.rs: one stream, and no
\* bounds.
MCOneStream == { P({"a"}, 2) }
MCUnbounded == { [labels |-> {"a"}, from |-> 0, to |-> MAX_U64] }

\* Stream 1 is always suspected.
MCBloomPositions == [s \in 0..3 |-> IF s = 1 THEN {} ELSE {s}]
=============================================================================
