--------------------------- MODULE MCMetricsStore ---------------------------
(* Three batches: one within an hour, one across two hours, one late.       *)
EXTENDS MetricsStore

CONSTANTS b1, b2, b3
ThreeBatches == {b1, b2, b3}
ThreeContents ==
  [b \in ThreeBatches |-> CASE b = b1 -> {0, 1} [] b = b2 -> {1, 2} [] b = b3 -> {2}]

OneBatch == {b1}
OneContent == [b \in OneBatch |-> {0}]
=============================================================================
