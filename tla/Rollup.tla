------------------------------- MODULE Rollup -------------------------------
(***************************************************************************)
(* How requests become the numbers of a window: the cells the generator    *)
(* ships (metrics/aggregate.ts), histograms and percentiles (rollup.ts),   *)
(* the rows of the two layers and the summary over a window (server.ts),   *)
(* and the tables both sides agree on (shared).  Operators only.           *)
(*                                                                         *)
(* Every place that adds up - a cell, a batch, a stored row, a combined    *)
(* row - adds the same columns in the same way: `Plus`.                    *)
(***************************************************************************)
EXTENDS Integers, Sequences, FiniteSets, FiniteSetsExt, Functions

CONSTANTS
    LatencyEdges,   \* HISTOGRAM_EDGES_MS
    ResidualEdges,  \* RESIDUAL_EDGES_MS
    MinuteTicks,      \* MINUTE_BUCKETS, in ticks of the clock
    HourTicks,        \* HOUR_BUCKETS
    MinuteLayerMax, \* MINUTE_LAYER_MAX_MS
    SeriesPoints    \* LIMITS.timeseriesPoints

Ascending(edges) ==
    edges \in Seq(Int) /\ edges # <<>> /\ \A i, j \in DOMAIN edges : i < j => edges[i] < edges[j]
\* A clock is never negative; a difference of two of them may be.
ASSUME EdgesAssumption ==
    /\ Ascending(LatencyEdges) /\ LatencyEdges[1] >= 0
    /\ Ascending(ResidualEdges) /\ ResidualEdges[1] <= 0 /\ ResidualEdges[Len(ResidualEdges)] >= 0
ASSUME WidthAssumption ==
    /\ MinuteTicks \in Nat \ {0} /\ HourTicks \in Nat \ {0} /\ HourTicks % MinuteTicks = 0
    /\ MinuteLayerMax \in Nat /\ SeriesPoints \in Nat \ {0}

Null == -1000000    \* a clock nobody read, a percentile of nothing
Unseen == 1000000   \* later than every tick

----------------------------------------------------------------------------
(* Statuses.                                                               *)

ExactBuckets == {400, 401, 403, 404, 405, 408, 413, 429, 500, 502, 503, 504}

\* A bucket is a class of statuses, by its number, or an exact status.  What
\* has no status at all is class 0 ("net").
BucketOf(status) ==
    CASE status <= 0 -> 0
      [] status \in ExactBuckets -> status
      [] status \in 1..199 -> 1
      [] status \in 200..299 -> 2
      [] status \in 300..399 -> 3
      [] status \in 400..499 \ ExactBuckets -> 4
      [] status >= 500 /\ status \notin ExactBuckets -> 5

OkBuckets == {2, 3}
ClientErrorBuckets == {4} \union (ExactBuckets \cap 400..499)
ServerErrorBuckets == {5} \union (ExactBuckets \cap 500..599)
GatewayFaultBuckets == {0, 502, 503, 504}
IsSuccess(status) == status \in 200..399

----------------------------------------------------------------------------
(* Histograms.                                                             *)

Empty(edges) == [i \in 1..(Len(edges) + 1) |-> 0]

\* Mutant: an edge belongs to the bucket above it.
SlotBelow(edges, x) == Cardinality({i \in DOMAIN edges : edges[i] <= x}) + 1

\* The binary search of bucketIndex and residualBucketIndex, from 0 as they count.
Slot(edges, x) ==
    LET search[range \in (0..Len(edges)) \X (-1..(Len(edges) - 1))] ==
          LET lo == range[1]  hi == range[2]  mid == (lo + hi) \div 2 IN
          IF lo > hi THEN lo
          ELSE IF x <= edges[mid + 1] THEN search[<<lo, mid - 1>>] ELSE search[<<mid + 1, hi>>]
    IN  search[<<0, Len(edges) - 1>>] + 1

Single(edges, x) == [Empty(edges) EXCEPT ![Slot(edges, x)] = 1]
UpTo(h, k) == SumFunctionOnSet(h, 1..k)
InAll(h) == UpTo(h, Len(h))

\* percentile and residualPercentile, which differ in their edges and in the
\* lower end of the first bucket. The value is num / den.
UpperEdge(edges, i) == IF i <= Len(edges) THEN edges[i] ELSE 2 * edges[Len(edges)]
LowerEdge(edges, lowest, i) == IF i = 1 THEN lowest ELSE edges[i - 1]
Reached(h, p) == {k \in DOMAIN h : h[k] > 0 /\ 100 * UpTo(h, k) >= p * InAll(h)}
Interpolated(inBucket, above, lower, upper) ==
    IF inBucket = 1 THEN [num |-> upper, den |-> 1]
    ELSE [num |-> lower * 100 * inBucket + above * (upper - lower), den |-> 100 * inBucket]
Percentile(h, edges, lowest, p) ==
    IF InAll(h) = 0 THEN [num |-> Null, den |-> 1]
    ELSE LET i == Min(Reached(h, p)) IN
         Interpolated(h[i], p * InAll(h) - 100 * UpTo(h, i - 1), LowerEdge(edges, lowest, i), UpperEdge(edges, i))

\* Of no request at all, a latency is 0 and a residual is Null.
LatencyPercentile(h, p) ==
    IF InAll(h) = 0 THEN [num |-> 0, den |-> 1] ELSE Percentile(h, LatencyEdges, 0, p)
ResidualPercentile(h, p) == Percentile(h, ResidualEdges, 2 * ResidualEdges[1], p)

----------------------------------------------------------------------------
(* Cells and rows.  A request has ts, run, cls, protocol, endpoint,        *)
(* status, latency, ttfb, server, connect, reused, reached.                *)

NonBackend(r) ==
    IF r.ttfb = Null \/ r.server = Null THEN Null
    ELSE r.ttfb - r.server - (IF r.connect = Null THEN 0 ELSE r.connect)

Flag(b) == IF b THEN 1 ELSE 0
Is4xx(status) == status \in 400..499

\* What one request adds to its cell (Aggregator.add).
One(r) ==
    [sum |-> [count |-> 1,
              errors |-> Flag(r.status = 0 \/ r.status >= 500),
              ok2xx |-> Flag(r.status \in 200..299),
              rejected4xx |-> Flag(Is4xx(r.status)),
              rejected4xxGw |-> Flag(Is4xx(r.status) /\ ~r.reached),
              reachedBackend |-> Flag(r.reached),
              latency |-> r.latency,
              connMeasured |-> Flag(r.connect # Null),
              connSetups |-> Flag(r.connect # Null /\ ~r.reused),
              nbCount |-> Flag(NonBackend(r) # Null)],
     first |-> r.ts, last |-> r.ts, max |-> r.latency,
     hist |-> Single(LatencyEdges, r.latency),
     status |-> [b \in {BucketOf(r.status)} |-> 1],
     nbHist |-> IF NonBackend(r) = Null THEN Empty(ResidualEdges)
                ELSE Single(ResidualEdges, NonBackend(r))]

Columns == {"count", "errors", "ok2xx", "rejected4xx", "rejected4xxGw", "reachedBackend",
            "latency", "connMeasured", "connSetups", "nbCount"}
Nothing ==
    [sum |-> [c \in Columns |-> 0], first |-> Unseen, last |-> -1, max |-> 0,
     hist |-> Empty(LatencyEdges), status |-> <<>>,
     nbHist |-> Empty(ResidualEdges)]

At(f, x) == IF x \in DOMAIN f THEN f[x] ELSE 0
Added(f, g) == [x \in DOMAIN f \union DOMAIN g |-> At(f, x) + At(g, x)]
\* Mutant: a later row replaces what was there.
Replaced(a, b) == IF b = Nothing THEN a ELSE b
Plus(a, b) ==
    [sum |-> Added(a.sum, b.sum), first |-> Min({a.first, b.first}),
     last |-> Max({a.last, b.last}), max |-> Max({a.max, b.max}),
     hist |-> Added(a.hist, b.hist), status |-> Added(a.status, b.status),
     nbHist |-> Added(a.nbHist, b.nbHist)]

FloorTo(t, width) == (t \div width) * width
CellKey(r, width) ==
    [bucket |-> FloorTo(r.ts, width), protocol |-> r.protocol, endpoint |-> r.endpoint, cls |-> r.cls]

\* Rows added up, and added up by what `group` says of each.
Together(rows, keys) == FoldFunctionOnSet(Plus, Nothing, rows, keys)
Combined(rows, group) ==
    [g \in {group[k] : k \in DOMAIN rows} |-> Together(rows, {k \in DOMAIN rows : group[k] = g})]
Whole(rows) == Together(rows, DOMAIN rows)

\* The rows of a layer, once these requests are in it: one batch or many, the
\* cells of the generator or those of aggregateBatch, a new row or a stored one.
Layer(requests, width) ==
    Combined([i \in DOMAIN requests |-> One(requests[i])],
             [i \in DOMAIN requests |-> CellKey(requests[i], width)])

----------------------------------------------------------------------------
(* A window.                                                               *)

Between(rows, from, to, width) ==
    [k \in {k \in DOMAIN rows : k.bucket \in FloorTo(from, width)..FloorTo(to, width)} |-> rows[k]]

ReadsMinutes(from, to) == to - from <= MinuteLayerMax
WindowRows(minute, hour, from, to) ==
    IF ReadsMinutes(from, to) THEN Between(minute, from, to, MinuteTicks)
    ELSE Between(hour, from, to, HourTicks)

\* rowsToCombined: endpoint scope folds the class away, class scope the endpoint.
EndpointOf(rows) == [k \in DOMAIN rows |-> <<k.protocol, k.endpoint>>]
ClassOf(rows) == [k \in DOMAIN rows |-> k.cls]

StatusCount(status, buckets) == SumFunctionOnSet(status, buckets \cap DOMAIN status)

\* What did not come back 2xx or 3xx, less the rejections the invalid slice is for.
NotOk(row) == row.sum["count"] - StatusCount(row.status, OkBuckets)
Unexpected(cls, row) ==
    IF cls = "invalid" THEN Max({0, NotOk(row) - row.sum["rejected4xx"]}) ELSE NotOk(row)

CoveredTicks(all, from, to) == IF all.last < 0 THEN Max({1, to - from}) ELSE all.last - all.first + 1

SummaryOf(byEndpoint, byClass, all, invalid, ticks) ==
    [total |-> all.sum["count"], errors |-> all.sum["errors"],
     windowTicks |-> ticks,
     unexpectedFailures |-> SumFunction([c \in DOMAIN byClass |-> Unexpected(c, byClass[c])]),
     latency |-> [p \in {50, 90, 95, 99} |-> LatencyPercentile(all.hist, p)],
     nonBackend |-> [p \in {50, 90, 95, 99} |-> ResidualPercentile(all.nbHist, p)],
     connSetup |-> [setups |-> all.sum["connSetups"], measured |-> all.sum["connMeasured"]],
     ok |-> StatusCount(all.status, OkBuckets),
     clientErrors |-> StatusCount(all.status, ClientErrorBuckets),
     serverErrors |-> StatusCount(all.status, ServerErrorBuckets),
     gatewayErrors |-> StatusCount(all.status, GatewayFaultBuckets),
     noResponse |-> StatusCount(all.status, {0}),
     perEndpoint |-> [g \in DOMAIN byEndpoint |-> byEndpoint[g].sum["count"]],
     perClass |-> [g \in DOMAIN byClass |-> byClass[g].sum["count"]],
     contract |-> [invalidSent |-> invalid.sum["count"],
                   rejectedByGateway |-> invalid.sum["rejected4xxGw"],
                   rejectedByBackend |-> invalid.sum["rejected4xx"] - invalid.sum["rejected4xxGw"],
                   leakedToBackend |-> invalid.sum["reachedBackend"],
                   wronglyAccepted |-> invalid.sum["ok2xx"]]]

(* summaryBetween: the totals are added up from the rows by endpoint.      *)
SummaryOfGroups(byEndpoint, byClass, all, from, to) ==
    SummaryOf(byEndpoint, byClass, all,
              IF "invalid" \in DOMAIN byClass THEN byClass["invalid"] ELSE Nothing,
              CoveredTicks(all, from, to))
SummaryOfRows(rows, from, to) ==
    LET byEndpoint == Combined(rows, EndpointOf(rows))
    IN  SummaryOfGroups(byEndpoint, Combined(rows, ClassOf(rows)), Whole(byEndpoint), from, to)
SummaryOver(minute, hour, from, to) == SummaryOfRows(WindowRows(minute, hour, from, to), from, to)

(* The chart: a point for every bucket of the span, at most SeriesPoints,  *)
(* the newest.                                                             *)
SeriesFrom(from, to, width) ==
    LET points == (FloorTo(to, width) - FloorTo(from, width)) \div width + 1 IN
    IF points > SeriesPoints THEN FloorTo(to, width) - (SeriesPoints - 1) * width ELSE FloorTo(from, width)

TimeSeries(rows, from, to, width) ==
    [t \in {t \in SeriesFrom(from, to, width)..FloorTo(to, width) : t % width = 0} |->
        Whole(Between(rows, t, t, width))]
=============================================================================
