-------------------------------- MODULE SstMC -------------------------------
(***************************************************************************)
(* Small tables: keys of three streams, payloads that are refused, of the  *)
(* least length and longer, limits that put one or two records in a block  *)
(* and one next to the largest block.                                      *)
(***************************************************************************)
EXTENDS SstFile

K(stream, time) ==
  [stream_id |-> stream, timestamp |-> time, sequence_num |-> time, source_id |-> 0]

R(stream, time, len) == [key |-> K(stream, time), len |-> len]

MCInput ==
  { R(1, 1, 2), R(1, 2, 2), R(1, 2, 8), R(2, 1, 1), R(2, 1, 8), R(2, 2, 2), R(3, 1, 2), R(3, 1, 8) }

MCProbes == { K(1, 2), K(2, 1), K(2, 3), K(4, 1) }

\* Stream 4 collides with streams 1 and 2 together.
MCBloomPositions == [s \in 1..4 |-> IF s = 4 THEN {1, 2} ELSE {s}]
=============================================================================
