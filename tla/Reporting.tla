----------------------------- MODULE Reporting ------------------------------
(***************************************************************************)
(* A run, what is stored of it, and its report (app.ts, metrics/server.ts, *)
(* report.ts): traffic is measured or lost, batches arrive, the retention  *)
(* sweep goes through, and reportFor puts a verdict together from calls of *)
(* the store that anything may come between.                               *)
(*                                                                         *)
(* The store is what is in it: a prefix of the traffic, less the minutes   *)
(* that were swept (a "snapshot").  How it gets there without counting     *)
(* twice is MetricsStore's subject, how results get lost is Flush's.       *)
(***************************************************************************)
EXTENDS Rollup, Verdict

CONSTANTS
    RunBound,      \* bound: runs, numbered in the order of their starts
    Items,         \* what can happen: requests, and signals of Signals below
    Slos,          \* saved thresholds
    PolicyResults, \* stored results of the probes, by policy
    Required,      \* the required policies
    RetentionTicks,    \* MINUTE_RETENTION_MS, in ticks
    MaxTick, MaxTraffic   \* bounds

\* What a batch carries beside its cells: load never issued, measurements
\* lost, requests that never reached the target, a health window of the
\* worker within its limits and over one (scheduling, CPU), and a sample of
\* the host over the limit of the event loop and over that of the CPU.
Signals == {"dropped", "lost", "fault", "window", "stall", "busy", "hot"}
IsRequestItem(i) ==
    /\ {"cls", "protocol", "endpoint", "status", "latency", "ttfb", "server", "connect", "reused", "reached"}
         \subseteq DOMAIN i
    /\ i.status \in Int /\ i.latency \in Int /\ i.ttfb \in Int /\ i.server \in Int /\ i.connect \in Int
    /\ i.reused \in BOOLEAN /\ i.reached \in BOOLEAN
ASSUME ItemsAssumption ==
    \A i \in Items : IF "signal" \in DOMAIN i THEN i.signal \in Signals ELSE IsRequestItem(i)
ASSUME BoundsAssumption ==
    RunBound \in Nat /\ RetentionTicks \in Nat /\ MaxTick \in Nat /\ MaxTraffic \in Nat

VARIABLES clock, runs, traffic, stored, swept, slo, results, report
reportVars == <<clock, runs, traffic, stored, swept, slo, results, report>>

Running == -1   \* stopped_at IS NULL
NoReport == [pc |-> "idle"]
Reportable == report.pc # "done"   \* bound: a behaviour ends with its report
Live == {r \in DOMAIN runs : runs[r].stop = Running}

ReportInit ==
    /\ clock = 0 /\ runs = <<>> /\ traffic = <<>> /\ stored = 0 /\ swept = 0
    /\ slo \in Slos /\ results \in PolicyResults /\ report = NoReport

----------------------------------------------------------------------------
(* A snapshot of the store, and what its statements read in it.            *)

Snapshot == [stored |-> stored, swept |-> swept]

IsRequest(e) == "signal" \notin DOMAIN e.item
AsRequest(e) == [f \in DOMAIN e.item \union {"ts"} |-> IF f = "ts" THEN e.ts ELSE e.item[f]]
Requests(snap, Test(_)) ==
    [i \in {i \in 1..snap.stored : IsRequest(traffic[i]) /\ Test(traffic[i])} |-> AsRequest(traffic[i])]

MinuteKept(snap, e) == FloorTo(e.ts, MinuteTicks) >= snap.swept
MinuteRows(snap) == Layer(Requests(snap, LAMBDA e : MinuteKept(snap, e)), MinuteTicks)
HourRows(snap) == Layer(Requests(snap, LAMBDA e : TRUE), HourTicks)

InMinutes(e, from, to) == FloorTo(e.ts, MinuteTicks) \in FloorTo(from, MinuteTicks)..FloorTo(to, MinuteTicks)
KeptIn(snap, from, to, Test(_)) ==
    Cardinality({i \in 1..snap.stored :
        MinuteKept(snap, traffic[i]) /\ InMinutes(traffic[i], from, to) /\ Test(traffic[i])})
Signalled(snap, from, to, s) == KeptIn(snap, from, to, LAMBDA e : ~IsRequest(e) /\ e.item.signal = s)

\* validityFor: minute-granular, whichever layer the total came from.
Valid(snap, from, to, total) ==
    LET n(s) == Signalled(snap, from, to, s) IN
    /\ 100 * n("dropped") <= total + n("dropped")      \* shedPct
    /\ n("lost") = 0
    /\ 1000 * n("fault") <= total \/ total = 0         \* genFaultPct
    /\ n("stall") = 0 /\ n("hot") = 0
    /\ n("busy") > 0 => n("window") + n("stall") > 0

SummaryBetween(snap, from, to) == SummaryOver(MinuteRows(snap), HourRows(snap), from, to)
\* What of a summary a verdict is given on.
Judgeable(snap, from, to, s) ==
    [total |-> s.total, unexpectedFailures |-> s.unexpectedFailures, gatewayErrors |-> s.gatewayErrors,
     valid |-> Valid(snap, from, to, s.total),
     nonBackendP95 |-> [measured |-> s.nonBackend[95].num # Null,
                        num |-> s.nonBackend[95].num, den |-> s.nonBackend[95].den],
     invalidSent |-> s.contract.invalidSent, leakedToBackend |-> s.contract.leakedToBackend]

\* Mutant: the first bucket of the window is left out.
ScopeAfterFirst(snap, r, from, to) ==
    [total |-> KeptIn(snap, from + MinuteTicks, to, IsRequest),
     foreign |-> KeptIn(snap, from + MinuteTicks, to, LAMBDA e : IsRequest(e) /\ e.run # r)]

\* windowScope, from run_minute.
WindowScope(snap, r, from, to) ==
    [total |-> KeptIn(snap, from, to, IsRequest),
     foreign |-> KeptIn(snap, from, to, LAMBDA e : IsRequest(e) /\ e.run # r)]

----------------------------------------------------------------------------
(* Runs and their traffic.                                                 *)

StartRun ==
    /\ Reportable /\ Live = {} /\ Len(runs) < RunBound
    /\ runs' = Append(runs, [start |-> clock, stop |-> Running])
    /\ UNCHANGED <<clock, traffic, stored, swept, slo, results, report>>

StopRun(r) ==
    /\ Reportable /\ r \in Live
    /\ runs' = [runs EXCEPT ![r].stop = clock]
    /\ UNCHANGED <<clock, traffic, stored, swept, slo, results, report>>

Happens(r, item) ==
    /\ Reportable /\ r \in Live /\ Len(traffic) < MaxTraffic
    /\ traffic' = Append(traffic, [ts |-> clock, run |-> r, item |-> item])
    /\ UNCHANGED <<clock, runs, stored, swept, slo, results, report>>

\* A batch is ingested: everything up to a flush, late or not.
Ingest ==
    /\ Reportable /\ stored < Len(traffic)
    /\ stored' = Len(traffic)
    /\ UNCHANGED <<clock, runs, traffic, swept, slo, results, report>>

\* The retention sweep: minute rows, run attribution, shed load and health of
\* a minute go together; the hour rows stay.
SweepMinutes ==
    /\ Reportable /\ clock >= RetentionTicks /\ FloorTo(clock - RetentionTicks, MinuteTicks) > swept
    /\ swept' = FloorTo(clock - RetentionTicks, MinuteTicks)
    /\ UNCHANGED <<clock, runs, traffic, stored, slo, results, report>>

ClockTicks ==
    /\ Reportable /\ clock < MaxTick /\ clock' = clock + 1
    /\ UNCHANGED <<runs, traffic, stored, swept, slo, results, report>>

----------------------------------------------------------------------------
(* reportFor: one await after the other, each of a store that moves on. A  *)
(* report changes nothing, so a behaviour has one.                         *)

FindRun(r) ==
    /\ report.pc = "idle" /\ r \in DOMAIN runs
    /\ report' = [pc |-> "found", run |-> r, from |-> runs[r].start,
                  to |-> IF r \in Live THEN clock ELSE runs[r].stop]
    /\ UNCHANGED <<clock, runs, traffic, stored, swept, slo, results>>

SummaryRead == SummaryBetween(report.summed, report.from, report.to)

ReadSummary ==
    /\ report.pc = "found"
    /\ report' = [pc |-> "summed", run |-> report.run, from |-> report.from, to |-> report.to,
                  summed |-> Snapshot]
    /\ UNCHANGED <<clock, runs, traffic, stored, swept, slo, results>>

\* The scope, and the rest: policies, their configuration and the thresholds
\* stay as they are here.
ReadScopeAndJudge ==
    /\ report.pc = "summed"
    /\ report' =
         [pc |-> "done", run |-> report.run, from |-> report.from, to |-> report.to,
          summed |-> report.summed, scoped |-> Snapshot,
          verdict |-> VerdictOf(Judgeable(report.summed, report.from, report.to, SummaryRead),
                                WindowScope(Snapshot, report.run, report.from, report.to),
                                results, Required, slo)]
    /\ UNCHANGED <<clock, runs, traffic, stored, swept, slo, results>>

ReportNext ==
    \/ StartRun \/ Ingest \/ SweepMinutes \/ ClockTicks
    \/ \E r \in 1..RunBound : StopRun(r) \/ FindRun(r) \/ \E i \in Items : Happens(r, i)
    \/ ReadSummary \/ ReadScopeAndJudge

ReportSpec == ReportInit /\ [][ReportNext]_reportVars

----------------------------------------------------------------------------
(* Type invariant.                                                         *)
ReportTypeOK ==
    /\ clock \in 0..MaxTick /\ stored \in 0..Len(traffic) /\ swept \in 0..MaxTick
    /\ \A r \in DOMAIN runs : runs[r].start \in 0..clock /\ runs[r].stop \in {Running} \union runs[r].start..clock
    /\ report.pc \in {"idle", "found", "summed", "done"}

\* A summary has just been read for a report.
Summed == report.pc = "summed" /\ report.summed = Snapshot
\* The requests that a window's buckets cover, straight from the traffic.
IsCovered(snap, from, to, e) ==
    IF ReadsMinutes(from, to)
    THEN MinuteKept(snap, e) /\ InMinutes(e, from, to)
    ELSE FloorTo(e.ts, HourTicks) \in FloorTo(from, HourTicks)..FloorTo(to, HourTicks)
Covered(snap, from, to) == Requests(snap, LAMBDA e : IsCovered(snap, from, to, e))
Count(rs, Test(_)) == Cardinality({i \in DOMAIN rs : Test(rs[i])})

(* The headline failure number counts each request that was not answered   *)
(* 2xx or 3xx, but not a contract violation answered 4xx: although it is   *)
(* put together from counters that were added up apart.  A contract        *)
(* violation answered 2xx or 3xx is left open: by the comment at           *)
(* server.ts:914 it "still counts against the gateway", but line 916       *)
(* starts from what was not answered 2xx or 3xx and never counts it.       *)
IsRejection(r) == r.cls = "invalid" /\ Is4xx(r.status)
IsAcceptedViolation(r) == r.cls = "invalid" /\ IsSuccess(r.status)
FailuresAreCounted(s, requests) ==
    LET failed == Count(requests, LAMBDA r : ~IsSuccess(r.status) /\ ~IsRejection(r)) IN
    s.unexpectedFailures \in failed..(failed + Count(requests, IsAcceptedViolation))

\* A status of 1xx is in none of the four.
BreakdownsAddUp(s, requests) ==
    /\ s.total = Cardinality(DOMAIN requests)
    /\ SumFunction(s.perEndpoint) = s.total /\ SumFunction(s.perClass) = s.total
    /\ s.ok + s.clientErrors + s.serverErrors + s.noResponse
         = s.total - Count(requests, LAMBDA r : r.status \in 1..199)

ChartAddsUp(snap, from, to) ==
    \A series \in {TimeSeries(MinuteRows(snap), from, to, MinuteTicks)} :
        SumFunction([t \in DOMAIN series |-> series[t].sum["count"]])
          = Cardinality(DOMAIN Requests(snap, LAMBDA e :
                /\ MinuteKept(snap, e)
                /\ FloorTo(e.ts, MinuteTicks) \in SeriesFrom(from, to, MinuteTicks)..FloorTo(to, MinuteTicks)))

(* The breakdowns of a summary and of the chart are of the same requests:  *)
(* by endpoint, by class, by status and by bucket they come to the total,  *)
(* and the total to the traffic ("the per-endpoint and per-class           *)
(* breakdowns reconcile with the headline total"); the failures as well.   *)
ViewsReconcile ==
    Summed =>
        /\ \A s \in {SummaryRead}, requests \in {Covered(report.summed, report.from, report.to)} :
              FailuresAreCounted(s, requests) /\ BreakdownsAddUp(s, requests)
        /\ ChartAddsUp(report.summed, report.from, report.to)

(* A percentile read off a histogram lies in the bucket of the request     *)
(* that has its rank, and a higher one is not lower.                       *)
HasRank(xs, x, p) ==
    /\ 100 * Count(xs, LAMBDA y : y <= x) >= p * Cardinality(DOMAIN xs)
    /\ 100 * Count(xs, LAMBDA y : y < x) < p * Cardinality(DOMAIN xs)
InBucket(v, edges, lowest, x) ==
    \E i \in 1..(Len(edges) + 1) :
        /\ i > 1 => edges[i - 1] < x
        /\ i <= Len(edges) => x <= edges[i]
        /\ LowerEdge(edges, lowest, i) * v.den <= v.num /\ v.num <= UpperEdge(edges, i) * v.den
HoldsRank(values, xs, edges, lowest) ==
    DOMAIN xs # {} => \A p \in DOMAIN values :
        /\ \E i \in DOMAIN xs : HasRank(xs, xs[i], p) /\ InBucket(values[p], edges, lowest, xs[i])
        /\ \A q \in DOMAIN values : p <= q => values[p].num * values[q].den <= values[q].num * values[p].den
PercentilesHold(s, requests) ==
    LET timed == {i \in DOMAIN requests : NonBackend(requests[i]) # Null} IN
    /\ HoldsRank(s.latency, [i \in DOMAIN requests |-> requests[i].latency], LatencyEdges, 0)
    /\ HoldsRank(s.nonBackend, [i \in timed |-> NonBackend(requests[i])],
                 ResidualEdges, 2 * ResidualEdges[1])
PercentilesHoldTheirRank ==
    Summed => PercentilesHold(SummaryRead, Covered(report.summed, report.from, report.to))

(* A run is judged, not found inconclusive, only if the store, when the    *)
(* summary was read, knew of no lost measurement, no stalled generator and *)
(* no host short of CPU in the minutes it still keeps of the run.          *)
Judged == report.pc = "done" /\ report.verdict \in {"pass", "fail"}
SuspectIsNeverJudged ==
    Judged =>
        ~\E i \in 1..report.summed.stored :
            /\ ~IsRequest(traffic[i]) /\ traffic[i].item.signal \in {"lost", "stall", "hot"}
            /\ MinuteKept(report.summed, traffic[i]) /\ InMinutes(traffic[i], report.from, report.to)

(* "Above 1 % the verdict is inconclusive rather than a confident          *)
(* judgement of the wrong traffic."  Foreign traffic in what was summed:   *)
ForeignTraffic ==
    LET summed == {i \in 1..report.summed.stored :
            IsRequest(traffic[i]) /\ IsCovered(report.summed, report.from, report.to, traffic[i])}
    IN  100 * Cardinality({i \in summed : traffic[i].run # report.run}) > ForeignLimit * Cardinality(summed)

(* A verdict other than "inconclusive" is given on sound numbers only.  It  *)
(* is of the run's own traffic if the run is within the minute layer and    *)
(* the store did not change between the summary and the scope; of a longer  *)
(* one, whose summary is of whole hours, it need not be.                    *)
OnlySoundRunsAreJudged ==
    /\ SuspectIsNeverJudged
    /\ Judged /\ ReadsMinutes(report.from, report.to) /\ report.summed = report.scoped => ~ForeignTraffic
=============================================================================
