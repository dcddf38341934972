-------------------------------- MODULE Flush --------------------------------
(***************************************************************************)
(* From a finished request to a batch on the results socket                *)
(* (internal/worker/worker.go, internal/agg/agg.go): the results channel,  *)
(* the aggregator, the shed buckets with what the generator says against   *)
(* itself (load it refused, measurements it lost, faults of its own), and  *)
(* the two goroutines that flush: flushLoop, and whoever is in Stop.       *)
(*                                                                         *)
(* The buckets are under shedMu, the aggregator under nothing.  Two        *)
(* flushes at once race on it: Drain's copy and its reset are two steps,   *)
(* and the Go runtime may throw when it sees the maps shared.              *)
(*                                                                         *)
(* Worker.tla has the tick loop, Stop and the drain of requests in full,   *)
(* and the start line that finds main in Stop, which is left out here.     *)
(***************************************************************************)
EXTENDS Integers, SequencesExt

CONSTANTS
  Reqs, Faulty,     \* requests; those that fail before they leave the generator
  ResultChanCap,    \* capacity of w.results
  MaxShedBuckets,   \* bound of w.shed
  MaxMinute, MaxRuns, MaxTicks, MaxFailures   \* bounds on the clock, starts, shedding ticks, failed writes

ASSUME FlushAssumption ==
  /\ IsFiniteSet(Reqs) /\ Faulty \subseteq Reqs
  /\ ResultChanCap \in Nat \ {0} /\ MaxShedBuckets \in Nat \ {0}
  /\ MaxMinute \in Nat \ {0} /\ MaxRuns \in Nat /\ MaxTicks \in Nat /\ MaxFailures \in Nat

Minutes  == 1..MaxMinute
Flushers == {"loop", "stop"}
Kinds    == {"dropped", "lost", "faults"}   \* the columns of a LoadShedSample
Tally    == [Kinds -> Nat]
Zero     == [k \in Kinds |-> 0]

VARIABLES
  now, phase,       \* the minute; idle, starting, running, stopping, or dead after a throw
  done,             \* w.done is closed
  runs, ticks, failures,
  stamp,            \* the minute each finished request was sent in (Result.TS), 0 until it has finished
  queued,           \* w.results
  agg,              \* the results folded into w.agg
  shed,             \* w.shed: a tally for each minute that has a bucket
  resultsLost, resultsLostSeen,   \* counters.ResultsLost, and what of it a bucket has
  pc,               \* where each flusher is
  drained, cells,   \* the results it has drained, and those its batch holds
  carried, final,   \* the tallies its batch carries; it is a final flush
  \* history
  shipped, lost,    \* how often each result arrived, and was counted as lost
  refused, blamed,  \* load not issued; faults noted in a bucket
  left,             \* what the buckets held that arrived, or was given up with them
  doubled,          \* losses noted between the halves of a Start, which are noted again
  raced             \* two flushes have overlapped

clockVars == <<now, phase, done, runs, ticks, failures>>
shedVars  == <<shed, resultsLost, resultsLostSeen>>
batchVars == <<drained, cells, carried, final>>
vars == <<clockVars, stamp, queued, agg, shedVars, pc, batchVars,
          shipped, lost, refused, blamed, left, doubled, raced>>

Add(a, b) == [k \in Kinds |-> a[k] + b[k]]
Only(k, n) == [Zero EXCEPT ![k] = n]
Total(s, M) == [k \in Kinds |-> SumFunction([m \in M |-> s[m][k]])]

-----------------------------------------------------------------------------
Init ==
  /\ now = 1 /\ phase = "idle" /\ done = FALSE /\ runs = 0 /\ ticks = 0 /\ failures = 0
  /\ stamp = [r \in Reqs |-> 0] /\ queued = {} /\ agg = {}
  /\ shed = [m \in {} |-> Zero] /\ resultsLost = 0 /\ resultsLostSeen = 0
  /\ pc = [f \in Flushers |-> "off"] /\ drained = [f \in Flushers |-> {}]
  /\ cells = [f \in Flushers |-> {}] /\ carried = [f \in Flushers |-> Zero]
  /\ final = [f \in Flushers |-> FALSE]
  /\ shipped = [r \in Reqs |-> 0] /\ lost = [r \in Reqs |-> 0]
  /\ refused = 0 /\ blamed = {} /\ left = Zero /\ doubled = 0 /\ raced = "never"

(* Which minute it is matters from the first run on.                        *)
Minute ==
  /\ runs > 0 /\ now < MaxMinute /\ now' = now + 1
  /\ UNCHANGED <<phase, done, runs, ticks, failures, stamp, queued, agg, shedVars, pc, batchVars,
                 shipped, lost, refused, blamed, left, doubled, raced>>

(* The bucket that makes room for minute m's, if one must.                  *)
Evicted(s, m) ==
  IF m \notin DOMAIN s /\ Cardinality(DOMAIN s) >= MaxShedBuckets THEN {Min(DOMAIN s)} ELSE {}

(* The books are the buckets and what has left them; Noted(b, m, t) adds    *)
(* tally t to the bucket of minute m.                                       *)
Books == [shed |-> shed, left |-> left]
Noted(b, m, t) ==
  LET s == b.shed
      out == Evicted(s, m)
  IN [shed |-> [x \in (DOMAIN s \ out) \cup {m} |->
                  IF x # m THEN s[x] ELSE IF m \in DOMAIN s THEN Add(s[m], t) ELSE t],
      left |-> Add(b.left, Total(s, out))]

Write(b) == shed' = b.shed /\ left' = b.left

(* Start makes the counters anew, and then, under shedMu, the buckets and   *)
(* the mark, whatever is in them.  A flush may come in between, and finds   *)
(* the mark of the old counters.                                            *)
Start ==
  /\ phase = "idle" /\ runs < MaxRuns
  /\ phase' = "starting" /\ runs' = runs + 1
  /\ left' = Add(left, Only("lost", resultsLost - resultsLostSeen))
  /\ resultsLost' = 0
  /\ UNCHANGED <<now, done, ticks, failures, stamp, queued, agg, shed, resultsLostSeen, pc, batchVars,
                 shipped, lost, refused, blamed, doubled, raced>>

StartClears ==
  /\ phase = "starting" /\ phase' = "running"
  /\ left' = Add(left, Total(shed, DOMAIN shed))
  /\ shed' = [m \in {} |-> Zero] /\ resultsLostSeen' = 0
  /\ UNCHANGED <<now, done, runs, ticks, failures, stamp, queued, agg, resultsLost, pc, batchVars,
                 shipped, lost, refused, blamed, doubled, raced>>

(* A tick that could not issue all it was due: the bucket missed some       *)
(* tokens, the ceiling refused others.  noteTick writes the missed ones to  *)
(* the minute, and noteShed writes them again with the refused.             *)
TickSheds(missed, capped) ==
  LET noted == Noted(Books, now, Only("dropped", missed))
  IN Write(Noted(noted, now, Only("dropped", missed + capped)))

Tick(missed, capped) ==
  /\ phase = "running" /\ ticks < MaxTicks /\ ticks' = ticks + 1
  /\ refused' = refused + missed + capped
  /\ TickSheds(missed, capped)
  /\ UNCHANGED <<now, phase, done, runs, failures, stamp, queued, agg, resultsLost,
                 resultsLostSeen, pc, batchVars, shipped, lost, blamed, doubled, raced>>

(* The end of execute: the result, stamped with the minute its request was  *)
(* sent in, is queued or counted as lost.  A request's budget is seconds;   *)
(* before the first run has started there is none.                          *)
Finish(r) ==
  /\ phase # "dead" /\ stamp[r] = 0
  /\ runs > (IF phase = "starting" THEN 1 ELSE 0)
  /\ \E m \in Minutes : m <= now /\ now <= m + 1 /\ stamp' = [stamp EXCEPT ![r] = m]
  /\ IF Cardinality(queued) < ResultChanCap
     THEN queued' = queued \cup {r} /\ UNCHANGED <<resultsLost, lost>>
     ELSE resultsLost' = resultsLost + 1 /\ lost' = [lost EXCEPT ![r] = @ + 1] /\ UNCHANGED queued
  /\ UNCHANGED <<clockVars, agg, shed, resultsLostSeen, pc, batchVars,
                 shipped, refused, blamed, left, doubled, raced>>

-----------------------------------------------------------------------------
(* noteResultsLost and takeShed: two critical sections of shedMu with       *)
(* nothing between them.  A flush that is not final leaves the open minute. *)
Taken(s, last) == {m \in DOMAIN s : last \/ m < now}

\* what is lost and has no bucket; a Start under way has the counter new and the mark old
Unnoted == resultsLost - resultsLostSeen

BooksOfFlush == IF Unnoted > 0 THEN Noted(Books, now, Only("lost", Unnoted)) ELSE Books

TakeShed(f, last) ==
  LET b == BooksOfFlush
      out == Taken(b.shed, last)
  IN /\ Write([b EXCEPT !.shed = [m \in DOMAIN b.shed \ out |-> b.shed[m]]])
     /\ carried' = [carried EXCEPT ![f] = Total(b.shed, out)]
     /\ final' = [final EXCEPT ![f] = last]
     /\ doubled' = IF phase = "starting" /\ Unnoted > 0 THEN doubled + Unnoted ELSE doubled
     /\ UNCHANGED <<drained, cells>>

\* mutant: resultsLostSeen is not advanced
FlushBeginsUnseen(f, last) == TakeShed(f, last) /\ UNCHANGED resultsLostSeen

FlushBegins(f, last) ==
  /\ TakeShed(f, last)
  /\ resultsLostSeen' = IF Unnoted > 0 THEN resultsLost ELSE resultsLostSeen

Busy(f) == pc[f] \notin {"off", "gone"}

Enter(f, last) ==
  /\ FlushBegins(f, last)
  /\ pc' = [pc EXCEPT ![f] = "drain"]
  /\ raced' = IF \E g \in Flushers \ {f} : Busy(g) THEN "once" ELSE raced
  /\ UNCHANGED <<now, done, runs, ticks, failures, stamp, queued, agg, resultsLost,
                 shipped, lost, refused, blamed>>

LoopFlushes ==
  /\ phase # "dead" /\ pc["loop"] = "off" /\ Enter("loop", FALSE) /\ UNCHANGED phase

LoopFlushesLast ==
  /\ phase # "dead" /\ pc["loop"] = "off" /\ done /\ Enter("loop", TRUE) /\ UNCHANGED phase

(* Stop flushes when its tick loop is over and its requests have drained,   *)
(* or have been given up.                                                   *)
StopFlushes ==
  /\ phase = "running" /\ phase' = "stopping" /\ Enter("stop", TRUE)

(* drainResults takes one result at a time.                                 *)
DrainOne(f, r) ==
  /\ phase # "dead" /\ pc[f] = "drain" /\ r \in queued
  /\ queued' = queued \ {r} /\ agg' = agg \cup {r}
  /\ drained' = [drained EXCEPT ![f] = @ \cup {r}]
  /\ UNCHANGED <<clockVars, stamp, shedVars, pc, cells, carried, final,
                 shipped, lost, refused, blamed, left, doubled, raced>>

(* The channel is empty: the faults go to the minutes they happened in, in  *)
(* the order in which Go gives out a map, and a flush that is not final and *)
(* has nothing to say is over.                                              *)
NoteFaults(R) ==
  LET faults(m) == Only("faults", Cardinality({r \in R : stamp[r] = m}))
  IN /\ \E order \in SetToSeqs({stamp[r] : r \in R}) :
          LET noted[i \in 0..Len(order)] ==
                IF i = 0 THEN Books ELSE Noted(noted[i - 1], order[i], faults(order[i]))
          IN Write(noted[Len(order)])
     /\ blamed' = blamed \cup R

DrainEnds(f) ==
  /\ phase # "dead" /\ pc[f] = "drain" /\ queued = {}
  /\ NoteFaults(drained[f] \cap Faulty)
  /\ LET silent == ~final[f] /\ drained[f] = {} /\ agg = {} /\ carried[f] = Zero
     IN pc' = [pc EXCEPT ![f] = IF silent THEN "off" ELSE "copy"]
  /\ UNCHANGED <<clockVars, stamp, queued, agg, resultsLost, resultsLostSeen, batchVars,
                 shipped, lost, refused, doubled, raced>>

(* agg.Drain copies the cells, then makes new maps.                         *)
Copy(f) ==
  /\ phase # "dead" /\ pc[f] = "copy" /\ pc' = [pc EXCEPT ![f] = "ship"]
  /\ cells' = [cells EXCEPT ![f] = agg]
  /\ UNCHANGED <<clockVars, stamp, queued, agg, shedVars, drained, carried, final,
                 shipped, lost, refused, blamed, left, doubled, raced>>

\* mutant: the maps are kept
MapsKept == UNCHANGED agg

(* The maps are new, and the batch, which nobody else sees, is written.      *)
NewMaps == agg' = {}

Leave(f) ==
  /\ phase # "dead" /\ pc[f] = "ship" /\ NewMaps
  /\ pc' = [pc EXCEPT ![f] = IF f = "loop" /\ final[f] THEN "gone" ELSE "off"]
  /\ drained' = [drained EXCEPT ![f] = {}] /\ cells' = [cells EXCEPT ![f] = {}]
  /\ carried' = [carried EXCEPT ![f] = Zero] /\ final' = [final EXCEPT ![f] = FALSE]
  /\ left' = Add(left, carried[f])
  /\ phase' = IF f = "stop" THEN "idle" ELSE phase
  /\ UNCHANGED <<now, done, runs, ticks, stamp, queued, shed, resultsLostSeen,
                 refused, blamed, doubled, raced>>

Ship(f) ==
  /\ Leave(f)
  /\ shipped' = [r \in Reqs |-> shipped[r] + (IF r \in cells[f] THEN 1 ELSE 0)]
  /\ UNCHANGED <<failures, resultsLost, lost>>

(* WriteBatch fails: the results are counted as lost, the buckets that rode *)
(* with them are not.                                                       *)
ShipFails(f) ==
  /\ Leave(f)
  /\ failures < MaxFailures /\ failures' = failures + 1
  /\ resultsLost' = resultsLost + Cardinality(drained[f])
  /\ lost' = [r \in Reqs |-> lost[r] + (IF r \in drained[f] THEN 1 ELSE 0)]
  /\ UNCHANGED shipped

(* Shutdown, after its Stop, which found a Stop or a Start of the reader's  *)
(* under way, or nothing to stop: the reader goes on meanwhile.             *)
CloseDone ==
  /\ phase # "dead" /\ ~done /\ done' = TRUE
  /\ UNCHANGED <<now, phase, runs, ticks, failures, stamp, queued, agg, shedVars, pc, batchVars,
                 shipped, lost, refused, blamed, left, doubled, raced>>

(* Two goroutines in the aggregator's maps: the runtime may notice.         *)
RuntimeThrows ==
  /\ phase # "dead" /\ \A f \in Flushers : pc[f] \in {"drain", "copy", "ship"}
  /\ phase' = "dead"
  /\ UNCHANGED <<now, done, runs, ticks, failures, stamp, queued, agg, shedVars, pc, batchVars,
                 shipped, lost, refused, blamed, left, doubled, raced>>

FlushStep(f) ==
  \/ \E r \in Reqs : DrainOne(f, r)
  \/ DrainEnds(f) \/ Copy(f) \/ Ship(f) \/ ShipFails(f)

Next ==
  \/ Minute \/ Start \/ StartClears \/ CloseDone \/ RuntimeThrows
  \/ \E missed, capped \in 0..1 : missed + capped = 1 /\ Tick(missed, capped)
  \/ \E r \in Reqs : Finish(r)
  \/ LoopFlushes \/ LoopFlushesLast \/ StopFlushes
  \/ \E f \in Flushers : FlushStep(f)

Spec == Init /\ [][Next]_vars

-----------------------------------------------------------------------------
(* Type invariant.                                                         *)
TypeOK ==
  /\ now \in Minutes /\ phase \in {"idle", "starting", "running", "stopping", "dead"} /\ done \in BOOLEAN
  /\ runs \in 0..MaxRuns /\ ticks \in 0..MaxTicks /\ failures \in 0..MaxFailures
  /\ stamp \in [Reqs -> 0..MaxMinute]
  /\ queued \subseteq Reqs /\ Cardinality(queued) <= ResultChanCap /\ agg \subseteq Reqs
  /\ DOMAIN shed \subseteq Minutes /\ Cardinality(DOMAIN shed) <= MaxShedBuckets
  /\ \A m \in DOMAIN shed : shed[m] \in Tally
  /\ resultsLost \in Nat /\ resultsLostSeen \in Nat /\ doubled \in Nat
  /\ pc \in [Flushers -> {"off", "drain", "copy", "ship", "gone"}]
  /\ drained \in [Flushers -> SUBSET Reqs] /\ cells \in [Flushers -> SUBSET Reqs]
  /\ carried \in [Flushers -> Tally] /\ final \in [Flushers -> BOOLEAN]
  /\ shipped \in [Reqs -> Nat] /\ lost \in [Reqs -> Nat]
  /\ refused \in Nat /\ blamed \subseteq Faulty /\ left \in Tally /\ raced \in {"never", "once"}

OnTheWay(k) == carried["loop"][k] + carried["stop"][k]
Accounted(k) == Total(shed, DOMAIN shed)[k] + OnTheWay(k) + left[k]

\* how many places account for a result that has finished
Places(r) ==
  shipped[r] + lost[r] + (IF r \in queued THEN 1 ELSE 0)
  + (IF r \in drained["loop"] THEN 1 ELSE 0) + (IF r \in drained["stop"] THEN 1 ELSE 0)

(* A request that finished is waiting, being flushed, delivered, or counted *)
(* as lost: one of these, once.  (worker.go, execute, drainResults,         *)
(* writeBatch.)                                                             *)
EachResultOnce == \A r \in Reqs : stamp[r] # 0 => Places(r) = 1

(* The same, of a process in which Stop's flush never met the loop's.       *)
EachResultOnceUnlessRaced ==
  raced = "never" =>
    /\ EachResultOnce
    /\ \A r \in agg : \E f \in Flushers : r \in drained[f]

(* What the generator says against itself adds up.  A lost measurement is   *)
(* counted against one minute: it waits for the next flush, is in a bucket, *)
(* on its way, delivered, or known to be given up; two flushers and a       *)
(* restart never count it twice, but for the losses (doubled) that a flush  *)
(* notes after Start's counters.Reset and before Start clears the mark:     *)
(* those are noted twice, and none is ever forgotten.  A fault of the       *)
(* generator's own is counted once, also one that a late request brings to  *)
(* a minute already reported.  Load that was never issued is never          *)
(* understated (it is overstated: what the bucket missed is written twice,  *)
(* TickSheds), and when a run has stopped none of it is left behind for the *)
(* next Start to forget.                                                    *)
Unseen == IF phase = "starting" THEN resultsLost ELSE Unnoted
LossesAccounted ==
  /\ Unseen >= 0 /\ SumFunction(lost) + doubled = Unseen + Accounted("lost")
  /\ Cardinality(blamed) = Accounted("faults")
  /\ Accounted("dropped") >= refused
  /\ phase = "idle" => Total(shed, DOMAIN shed)["dropped"] = 0
=============================================================================
