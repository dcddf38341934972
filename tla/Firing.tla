-------------------------------- MODULE Firing --------------------------------
(***************************************************************************)
(* One request after another through the load generator                    *)
(* (internal/fire, internal/schedule/reaper.go, and execute in             *)
(* internal/worker/worker.go): jobs are taken from a pool, filled, queued  *)
(* for the flusher and put back; deadlines are registered with the Reaper, *)
(* a goroutine that sleeps until the earliest one and cancels what has     *)
(* expired; the outcome is counted twice, by execute for the status line   *)
(* and by the aggregator for the store.                                    *)
(*                                                                         *)
(* The heap of the Reaper is the set of requests registered in it: only    *)
(* its minimum is ever read.  The races of two flushers are Flush.tla, the *)
(* semaphore and the WaitGroup Worker.tla.                                 *)
(***************************************************************************)
EXTENDS Integers, FiniteSets

CONSTANTS
  Reqs, Jobs,                 \* requests; the jobs the pool can make
  Statuses, Causes,           \* what the target answers; why there is no answer
  SmallBudget, LargeBudget,   \* budgetSmallMs, budgetLargeMs
  ResultChanCap,              \* capacity of w.results
  MaxTime                     \* bound on the clock

ASSUME FiringAssumption ==
  /\ IsFiniteSet(Reqs) /\ Statuses \subseteq 100..599
  /\ Causes \subseteq {"refused", "dial timeout", "broken", "canceled"} /\ MaxTime \in Nat
  /\ SmallBudget \in Nat \ {0} /\ LargeBudget \in Nat /\ SmallBudget <= LargeBudget
  /\ ResultChanCap \in Nat \ {0}

NoReq == "no request"
NoJob == "no job"
Classes  == {"small-rest", "slow-upstream"}   \* one class of each budget
Messages == {"none", "timeout/abort", "other"}
Results  == [error : Messages, genFault : BOOLEAN, status : Statuses \cup {0}]
Zero     == [error |-> "none", genFault |-> FALSE, status |-> 0]

VARIABLES
  now,
  pc, jobOf, due,               \* the goroutine of each request, its job, its deadline
  pool, res, ctx,               \* jobPool; Job.Result; whose context Job.Ctx and Job.Cancel are
  cancelled,                    \* the contexts that are done
  heap, wake, stopped,          \* Reaper.h, Reaper.wake, Reaper.done
  reaperPc, until, cutoff, popped,   \* loop and fireExpired with their locals
  queued,                       \* w.results
  counters, cells, lost,        \* Counters; the aggregator and genFaults; ResultsLost
  outcome, late                 \* history of a request, until its result is read: what befell it,
                                \* that it began after Stop

reaperVars == <<reaperPc, until, cutoff, popped>>
jobVars    == <<pool, res, ctx>>
bookVars   == <<queued, counters, cells, lost>>
vars == <<now, pc, jobOf, due, jobVars, cancelled, heap, wake, stopped, reaperVars,
          bookVars, outcome, late>>

InFlight == {q \in Reqs : pc[q] \in {"wake", "sent", "body"}}
One(b) == IF b THEN 1 ELSE 0

-----------------------------------------------------------------------------
Init ==
  /\ now = 0
  /\ pc = [q \in Reqs |-> "none"] /\ jobOf = [q \in Reqs |-> NoJob] /\ due = [q \in Reqs |-> 0]
  /\ pool = Jobs /\ res = [j \in Jobs |-> Zero] /\ ctx = [j \in Jobs |-> NoReq]
  /\ cancelled = {} /\ heap = {} /\ wake = FALSE /\ stopped = FALSE
  /\ reaperPc = "scan" /\ until = 0 /\ cutoff = 0 /\ popped = NoReq
  /\ queued = {} /\ lost = {}
  /\ counters = [sent |-> 0, ok |-> 0, r4xx |-> 0, errors |-> 0, gwFaults |-> 0, timeouts |-> 0]
  /\ cells = [count |-> 0, ok |-> 0, rejected |-> 0, errors |-> 0, gateway |-> 0, genFaults |-> 0]
  /\ outcome = [q \in Reqs |-> Zero] /\ late = {}

Time ==
  /\ now < MaxTime /\ now' = now + 1
  /\ UNCHANGED <<pc, jobOf, due, jobVars, cancelled, heap, wake, stopped, reaperVars, bookVars,
                 outcome, late>>

-----------------------------------------------------------------------------
BudgetFor(class) ==
  IF class \in {"slow-upstream", "big-response", "big-request"} THEN LargeBudget ELSE SmallBudget

(* execute takes a job and builds the request; Fire makes its context and   *)
(* registers the deadline, under the Reaper's lock.                         *)
Begin(q, j, class) ==
  /\ pc[q] = "none" /\ j \in pool
  /\ now + BudgetFor(class) <= MaxTime
  /\ pool' = pool \ {j} /\ jobOf' = [jobOf EXCEPT ![q] = j] /\ ctx' = [ctx EXCEPT ![j] = q]
  /\ due' = [due EXCEPT ![q] = now + BudgetFor(class)]
  /\ heap' = heap \cup {q}
  /\ late' = IF stopped THEN late \cup {q} ELSE late
  /\ pc' = [pc EXCEPT ![q] = "wake"]
  /\ UNCHANGED <<now, res, cancelled, wake, stopped, reaperVars, bookVars, outcome>>

\* mutants: only a sleeper without a timer is woken; a channel without a buffer
WakeWhenFirst(q) == wake' = (wake \/ heap = {q})
WakeUnbuffered(q) == wake' = (reaperPc = "select")

(* After's send on wake: the channel has room for one, and one is enough.   *)
Wakes(q) == wake' = TRUE

Woken(q) ==
  /\ pc[q] = "wake" /\ pc' = [pc EXCEPT ![q] = "sent"]
  /\ Wakes(q)
  /\ UNCHANGED <<now, jobOf, due, jobVars, cancelled, heap, stopped, reaperVars, bookVars,
                 outcome, late>>

(* The headers of an answer.  Fire writes the fields it has something to    *)
(* say about; the others are as the job came from the pool.                 *)
Answered(q, status) ==
  /\ pc[q] = "sent" /\ pc' = [pc EXCEPT ![q] = "body"]
  /\ res' = [res EXCEPT ![jobOf[q]].status = status]
  /\ outcome' = [outcome EXCEPT ![q] = [Zero EXCEPT !.status = status]]
  /\ UNCHANGED <<now, jobOf, due, pool, ctx, cancelled, heap, wake, stopped, reaperVars, bookVars,
                 late>>

(* Go's dialer reports its own timeout as DeadlineExceeded.  A context the  *)
(* Reaper ends through its CancelFunc says Canceled, whatever the reason.   *)
DeadlineExceeded(cause) == cause = "dial timeout"
NeverLeftTheGenerator(cause) == cause \in {"refused", "dial timeout"}
Message(cause) == IF DeadlineExceeded(cause) THEN "timeout/abort" ELSE "other"

(* No answer: the dial failed, the URL or the connection was no good, or    *)
(* the context ended first.                                                 *)
Fails(q, cause) ==
  /\ pc[q] = "sent" /\ pc' = [pc EXCEPT ![q] = "leaving"]
  /\ cause = "canceled" => q \in cancelled
  /\ res' = [res EXCEPT ![jobOf[q]].error = Message(cause),
                        ![jobOf[q]].genFault = NeverLeftTheGenerator(cause)]
  /\ outcome' = [outcome EXCEPT ![q] =
       [Zero EXCEPT !.error = Message(cause), !.genFault = NeverLeftTheGenerator(cause)]]
  /\ UNCHANGED <<now, jobOf, due, pool, ctx, cancelled, heap, wake, stopped, reaperVars, bookVars,
                 late>>

(* The body is drained, or the context ends while it is: neither drain      *)
(* looks at the error that ended it.                                        *)
BodyEnds(q) ==
  /\ pc[q] = "body" /\ pc' = [pc EXCEPT ![q] = "leaving"]
  /\ UNCHANGED <<now, jobOf, due, jobVars, cancelled, heap, wake, stopped, reaperVars, bookVars,
                 outcome, late>>

BodyCut(q) ==
  /\ pc[q] = "body" /\ q \in cancelled /\ pc' = [pc EXCEPT ![q] = "leaving"]
  /\ UNCHANGED <<now, jobOf, due, jobVars, cancelled, heap, wake, stopped, reaperVars, bookVars,
                 outcome, late>>

(* Fire's deferred end: Done takes what is still registered out, and the    *)
(* context is cancelled in any case.                                        *)
Done(q) == heap' = heap \ {q}

Leave(q) ==
  /\ pc[q] = "leaving" /\ pc' = [pc EXCEPT ![q] = "settle"]
  /\ Done(q) /\ cancelled' = cancelled \cup {q}
  /\ due' = [due EXCEPT ![q] = 0] /\ late' = late \ {q}
  /\ UNCHANGED <<now, jobOf, jobVars, wake, stopped, reaperVars, bookVars, outcome>>

-----------------------------------------------------------------------------
(* The counters of the status line.  Mutant: 5xx are client errors too.     *)
TalliedLoosely(c, r) ==
  [sent |-> c.sent + 1,
   ok |-> c.ok + One(r.error = "none" /\ r.status \in 200..399),
   r4xx |-> c.r4xx + One(r.error = "none" /\ r.status >= 400),
   errors |-> c.errors + One(r.error # "none" \/ r.status >= 500),
   gwFaults |-> c.gwFaults + One(r.error # "none" \/ r.status \in {0, 502, 503, 504}),
   timeouts |-> c.timeouts + One(r.error = "timeout/abort")]

Tallied(c, r) ==
  [sent |-> c.sent + 1,
   ok |-> c.ok + One(r.error = "none" /\ r.status \in 200..399),
   r4xx |-> c.r4xx + One(r.error = "none" /\ r.status \in 400..499),
   errors |-> c.errors + One(r.error # "none" \/ r.status >= 500),
   gwFaults |-> c.gwFaults + One(r.error # "none" \/ r.status \in {0, 502, 503, 504}),
   timeouts |-> c.timeouts + One(r.error = "timeout/abort")]

\* mutants: the result is not cleared; the job goes back though it was queued
ClearedSparingly(j) == ctx' = [ctx EXCEPT ![j] = NoReq] /\ UNCHANGED res

(* PutJob clears what a job refers to, and its result.                      *)
Cleared(j) == ctx' = [ctx EXCEPT ![j] = NoReq] /\ res' = [res EXCEPT ![j] = Zero]
PutJob(j)  == Cleared(j) /\ pool' = pool \cup {j}

\* nobody will read the result of q any more
Forgotten(q) == outcome' = [outcome EXCEPT ![q] = Zero]

(* The job, with its result, to the flusher; or back, and the result lost.  *)
HandedOver(q) ==
  IF Cardinality(queued) < ResultChanCap
  THEN queued' = queued \cup {q} /\ UNCHANGED <<jobVars, lost, outcome>>
  ELSE PutJob(jobOf[q]) /\ lost' = lost \cup {q} /\ Forgotten(q) /\ UNCHANGED queued

(* The rest of execute.  Between the counters, which are written one after  *)
(* the other, and the channel nothing of this module reads either.          *)
Settle(q) ==
  /\ pc[q] = "settle" /\ pc' = [pc EXCEPT ![q] = "gone"]
  /\ counters' = Tallied(counters, res[jobOf[q]])
  /\ HandedOver(q)
  /\ UNCHANGED <<now, jobOf, due, cancelled, heap, wake, stopped, reaperVars, cells, late>>

(* What the aggregator makes of a result: a fault of the generator's own is *)
(* no error, and its status goes into the histogram like any other.  gateway *)
(* is what the summary reads from the histogram (GATEWAY_FAULT_BUCKETS).    *)
Added(c, r) ==
  [count |-> c.count + 1,
   ok |-> c.ok + One(r.status \in 200..299),
   rejected |-> c.rejected + One(r.status \in 400..499),
   errors |-> c.errors + One(~r.genFault /\ (r.status = 0 \/ r.status >= 500)),
   gateway |-> c.gateway + One(r.status \in {0, 502, 503, 504}),
   genFaults |-> c.genFaults + One(r.genFault)]

Fold(q) ==
  /\ q \in queued /\ queued' = queued \ {q}
  /\ cells' = Added(cells, res[jobOf[q]])
  /\ PutJob(jobOf[q]) /\ Forgotten(q)
  /\ UNCHANGED <<now, pc, jobOf, due, cancelled, heap, wake, stopped, reaperVars, counters, lost,
                 late>>

-----------------------------------------------------------------------------
(* The Reaper's loop looks at the heap, lets go of the lock, and enters a   *)
(* select: without a timer when nothing was registered, with one until the  *)
(* earliest deadline otherwise.  until is 0 where there is no timer.        *)
First(q) == \A r \in heap : due[q] <= due[r]

Scan ==
  /\ reaperPc = "scan"
  /\ \/ heap = {} /\ reaperPc' = "looked" /\ UNCHANGED <<until, cutoff>>
     \/ \E q \in heap :
          /\ First(q)
          /\ IF due[q] <= now
             THEN reaperPc' = "expire" /\ cutoff' = now /\ UNCHANGED until
             ELSE reaperPc' = "looked" /\ until' = due[q] /\ UNCHANGED cutoff
  /\ UNCHANGED <<now, pc, jobOf, due, jobVars, cancelled, heap, wake, stopped, popped, bookVars,
                 outcome, late>>

Selects ==
  /\ reaperPc = "looked" /\ reaperPc' = "select"
  /\ UNCHANGED <<now, pc, jobOf, due, jobVars, cancelled, heap, wake, stopped, until, cutoff,
                 popped, bookVars, outcome, late>>

(* The select: the wake channel, the timer, the done channel.               *)
WakesUp ==
  /\ reaperPc = "select"
  /\ \/ wake /\ wake' = FALSE
     \/ until \in 1..now /\ UNCHANGED wake
  /\ reaperPc' = "scan" /\ until' = 0
  /\ UNCHANGED <<now, pc, jobOf, due, jobVars, cancelled, heap, stopped, cutoff, popped,
                 bookVars, outcome, late>>

Ends ==
  /\ reaperPc = "select" /\ stopped /\ reaperPc' = "over" /\ until' = 0
  /\ UNCHANGED <<now, pc, jobOf, due, jobVars, cancelled, heap, wake, stopped, cutoff, popped,
                 bookVars, outcome, late>>

(* fireExpired takes one at a time, and lets go of the lock to cancel it.   *)
Pop ==
  /\ reaperPc = "expire"
  /\ \/ \E q \in heap :
          /\ First(q) /\ due[q] <= cutoff
          /\ heap' = heap \ {q} /\ popped' = q /\ reaperPc' = "cancel"
          /\ UNCHANGED cutoff
     \/ /\ \A q \in heap : due[q] > cutoff
        /\ reaperPc' = "scan" /\ cutoff' = 0 /\ UNCHANGED <<heap, popped>>
  /\ UNCHANGED <<now, pc, jobOf, due, jobVars, cancelled, wake, stopped, until, bookVars,
                 outcome, late>>

\* mutant: the entry refers to the job, and cancels what is in it
CancelsJob == cancelled' = cancelled \cup {q \in Reqs : ctx[jobOf[popped]] = q}

(* The entry has the CancelFunc of the context it was registered for.       *)
Cancels == cancelled' = cancelled \cup {popped}

Expire ==
  /\ reaperPc = "cancel" /\ reaperPc' = "expire"
  /\ Cancels /\ popped' = NoReq
  /\ UNCHANGED <<now, pc, jobOf, due, jobVars, heap, wake, stopped, until, cutoff,
                 bookVars, outcome, late>>

(* Reaper.Stop cancels whatever is registered.                              *)
Stop ==
  /\ ~stopped /\ stopped' = TRUE
  /\ cancelled' = cancelled \cup heap /\ heap' = {}
  /\ UNCHANGED <<now, pc, jobOf, due, jobVars, wake, reaperVars, bookVars, outcome, late>>

-----------------------------------------------------------------------------
Reaper == Scan \/ Selects \/ WakesUp \/ Ends \/ Pop \/ Expire
Ending(q) == Fails(q, "canceled") \/ BodyCut(q)
Own(q)    == Woken(q) \/ Leave(q) \/ Settle(q)

Next ==
  \/ Time \/ Reaper \/ Stop
  \/ \E q \in Reqs :
       \/ \E j \in Jobs, class \in Classes : Begin(q, j, class)
       \/ Own(q) \/ BodyCut(q) \/ BodyEnds(q) \/ Fold(q)
       \/ \E cause \in Causes : Fails(q, cause)
       \/ \E status \in Statuses : Answered(q, status)

(* Time passes, the Reaper runs when it can, and so does a request that is  *)
(* about to wake it or whose context is done.  The target need not answer.  *)
Fairness ==
  /\ WF_vars(Time) /\ WF_vars(Reaper)
  /\ \A q \in Reqs : WF_vars(Woken(q) \/ Ending(q))

Spec == Init /\ [][Next]_vars
FairSpec == Spec /\ Fairness

-----------------------------------------------------------------------------
(* Type invariant: with it, the results channel is within its capacity.     *)
TypeOK ==
  /\ now \in 0..MaxTime
  /\ pc \in [Reqs -> {"none", "wake", "sent", "body", "leaving", "settle", "gone"}]
  /\ jobOf \in [Reqs -> Jobs \cup {NoJob}] /\ due \in [Reqs -> 0..MaxTime]
  /\ pool \subseteq Jobs /\ res \in [Jobs -> Results] /\ ctx \in [Jobs -> Reqs \cup {NoReq}]
  /\ cancelled \subseteq Reqs /\ heap \subseteq Reqs
  /\ wake \in BOOLEAN /\ stopped \in BOOLEAN
  /\ reaperPc \in {"scan", "looked", "select", "expire", "cancel", "over"}
  /\ until \in 0..MaxTime /\ cutoff \in 0..MaxTime /\ popped \in Reqs \cup {NoReq}
  /\ queued \subseteq Reqs /\ Cardinality(queued) <= ResultChanCap
  /\ counters \in [sent : Nat, ok : Nat, r4xx : Nat, errors : Nat, gwFaults : Nat, timeouts : Nat]
  /\ cells \in [count : Nat, ok : Nat, rejected : Nat, errors : Nat, gateway : Nat, genFaults : Nat]
  /\ outcome \in [Reqs -> Results]
  /\ lost \subseteq Reqs /\ late \subseteq Reqs

(* A Reaper that will sleep past a deadline has a wake-up waiting for it, or    *)
(* the request that registered the deadline is about to send one: the one   *)
(* slot of the wake channel loses nothing (After, loop).                    *)
Oversleeps(q) == reaperPc \in {"looked", "select"} /\ (until = 0 \/ until > due[q])
NoLostWakeup ==
  \A q \in heap : Oversleeps(q) => wake \/ \E r \in Reqs : pc[r] = "wake"

(* The context of a request in flight is ended only when its own deadline   *)
(* has passed, or by Stop: a cancellation that comes late finds the job in  *)
(* other hands and hits nobody (fireExpired between its two locks, PutJob). *)
OnlyExpiredAreCut == \A q \in InFlight \cap cancelled : due[q] <= now \/ stopped

(* The Reaper holds nothing for a request that is over, however it ended    *)
(* (Done): a minute's deadlines of finished requests would pin their        *)
(* contexts and have to be popped one by one.                               *)
NoDeadlineOutlives == \A q \in heap : pc[q] \in {"wake", "sent", "body", "leaving"}

(* What a job says, from the end of Fire until the flusher has read it, is  *)
(* what befell the request that holds it: the pool never lends out a job    *)
(* that is in use, nor one that remembers an earlier request.               *)
Reading(q) == pc[q] \in {"leaving", "settle"} \/ q \in queued
ResultsAreTheirOwn == \A q \in Reqs : Reading(q) => res[jobOf[q]] = outcome[q]

(* The status line and the store agree on what happened, once the flusher   *)
(* has caught up and if it has missed nothing: two classifications, in      *)
(* execute and in Aggregator.Add and the summary.  Whether a request that   *)
(* never left counts as an error, or as the gateway's, is left open: by     *)
(* fire.go:36-45 and agg.go:78-81 it is evidence about the generator and    *)
(* must not be charged to the gateway, and Aggregator.Add keeps it out of   *)
(* the errors (82); but execute counts it as both (worker.go:456-457), and  *)
(* in the status histogram (agg.go:114) it is one of the class the summary  *)
(* takes for the gateway's.                                                 *)
TwoBooksAgree ==
  queued = {} /\ lost = {} =>
    /\ counters.sent = cells.count
    /\ counters.r4xx = cells.rejected
    /\ counters.errors - cells.errors \in 0..cells.genFaults
    /\ counters.gwFaults - cells.gateway \in (-cells.genFaults)..cells.genFaults

(* No request outstays its deadline for ever, whatever the target does,     *)
(* unless it began after the Reaper was stopped.                            *)
DeadlinesHold ==
  \A q \in Reqs : q \in InFlight /\ q \notin late ~> q \notin InFlight

=============================================================================
