---------------------------- MODULE MetricsLedger ----------------------------
(***************************************************************************)
(* What the metrics store promises about counting.  A batch is counted     *)
(* whole, in both roll-up layers, and not again while its mark is kept;    *)
(* nothing is counted otherwise.  Old minutes, hours and marks are         *)
(* forgotten, an hour never before its minutes, or everything is at once.  *)
(***************************************************************************)
EXTENDS Integers

CONSTANTS Batches, Minutes, Hours,
  HourOf(_),        \* the hour bucket of a minute bucket
  InMinute(_),      \* what a batch adds to each minute
  InHour(_)         \* and to each hour

VARIABLES minute, hour, marks
vars == <<minute, hour, marks>>

Init ==
  /\ minute = [m \in Minutes |-> 0] /\ hour = [h \in Hours |-> 0] /\ marks = {}

Count(b) ==
  /\ b \notin marks /\ marks' = marks \cup {b}
  /\ minute' = [m \in Minutes |-> minute[m] + InMinute(b)[m]]
  /\ hour' = [h \in Hours |-> hour[h] + InHour(b)[h]]

Forget ==
  /\ marks' \subseteq marks
  /\ minute' \in [Minutes -> Int] /\ \A m \in Minutes : minute'[m] \in {minute[m], 0}
  /\ hour' \in [Hours -> Int]
  /\ \A h \in Hours :
       \/ hour'[h] = hour[h]
       \/ hour'[h] = 0 /\ \A m \in Minutes : HourOf(m) = h => minute'[m] = 0

Next == Forget \/ \E b \in Batches : Count(b)

Spec == Init /\ [][Next]_vars
=============================================================================
