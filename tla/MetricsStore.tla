---------------------------- MODULE MetricsStore ----------------------------
(***************************************************************************)
(* The metrics store (metrics/server.ts): one thread, one SQLite file, two *)
(* roll-up layers, and between flushes a cache of the histograms it last   *)
(* wrote.  A row's scalar columns are incremented by SQL; its histograms   *)
(* are merged in memory, from the cache when it has them, and overwritten. *)
(*                                                                         *)
(* One series (protocol, endpoint, class) stands for all of them: they     *)
(* share the transaction and no row.  hist is the number of samples in a   *)
(* row's histograms, count its scalar columns.  A row that is not there is *)
(* all zero.  A minute of the clock stands for the summary's 10 s slot too.*)
(*                                                                         *)
(* An ingest runs to its end before another call, but may throw or die     *)
(* with the process at any of its statements: hence its steps.             *)
(***************************************************************************)
EXTENDS Integers, FiniteSets, Functions

CONSTANTS
  Batches,      \* batch ids that may be posted, each any number of times
  Content,      \* the minute buckets a batch has samples in, one each
  MaxMinute,    \* bound on the clock
  HourLen,      \* minutes in an hour bucket
  MinuteKeep,   \* MINUTE_RETENTION_MS
  HourKeep,     \* HOUR_RETENTION_MS
  SeenKeep,     \* how long cleanupSeen keeps a batch id
  Window,       \* the dashboard's windowMs
  MaxFaults     \* bound on throws and crashes

Minutes == 0..MaxMinute
HourOf(m) == m \div HourLen
Hours == {HourOf(m) : m \in Minutes}

ASSUME StoreAssumption ==
  /\ MaxMinute \in Nat /\ HourLen \in Nat \ {0} /\ MaxFaults \in Nat
  /\ MinuteKeep \in Nat /\ HourKeep \in Nat /\ MinuteKeep <= HourKeep
  /\ SeenKeep \in Nat /\ Window \in 0..MinuteKeep
  /\ Content \in [Batches -> SUBSET Minutes]

None  == -1    \* no cache entry, no summary
Never == -1    \* the batch id is not in ingest_seen

VARIABLES
  now,           \* Date.now()
  disk,          \* what is committed
  tx,            \* what the open transaction sees; disk when none is open
  minuteCache, hourCache,
  pc, batch,     \* where ingestAggregate is, and with which batch
  summaryCache,  \* summaryCacheKey and summaryCacheVal
  outlived,      \* history: the summary kept is of before a reset that threw
  faults

caches == <<minuteCache, hourCache>>
vars == <<now, disk, tx, caches, pc, batch, summaryCache, outlived, faults>>

NoRow == [hist |-> 0, count |-> 0]
EmptyDb ==
  [minute |-> [m \in Minutes |-> NoRow], hour |-> [h \in Hours |-> NoRow],
   runs |-> [m \in Minutes |-> 0], seen |-> [b \in Batches |-> Never]]
NoSummary == [slot |-> None, total |-> 0]

\* foldCell: what a batch adds to each minute and hour (mutant: an hour's second cell replaces its first)
InMinute(b) == [m \in Minutes |-> IF m \in Content[b] THEN 1 ELSE 0]
InHourAssigned(b) ==
  [h \in Hours |-> IF \E m \in Content[b] : HourOf(m) = h THEN 1 ELSE 0]
InHour(b) == [h \in Hours |-> Cardinality({m \in Content[b] : HourOf(m) = h})]

NoMinutes == [m \in Minutes |-> None]
NoHours   == [h \in Hours |-> None]

Init ==
  /\ now = 0 /\ disk = EmptyDb /\ tx = EmptyDb
  /\ minuteCache = NoMinutes /\ hourCache = NoHours
  /\ pc = "idle" /\ batch \in Batches /\ summaryCache = NoSummary
  /\ outlived = FALSE /\ faults = 0

-----------------------------------------------------------------------------
(* mergeIntoAndUpsert for one layer: entries of closed buckets are dropped, *)
(* and each bucket of the batch merges the cached histogram, or the stored  *)
(* one.                                                                     *)
Kept(cache, oldestOpen) ==
  [k \in DOMAIN cache |-> IF k < oldestOpen THEN None ELSE cache[k]]

Merged(row, cached, added) == added + (IF cached = None THEN row.hist ELSE cached)

Upserted(rows, kept, added) ==
  [k \in DOMAIN rows |->
     IF added[k] = 0 THEN rows[k]
     ELSE [hist |-> Merged(rows[k], kept[k], added[k]), count |-> rows[k].count + added[k]]]

Cached(rows, kept, added) ==
  [k \in DOMAIN rows |->
     IF added[k] = 0 THEN kept[k] ELSE Merged(rows[k], kept[k], added[k])]

(* BEGIN, the raw tail and run_minute.  A batch id that is known is a       *)
(* duplicate and changes nothing.  Mutant: the mark is written outside the  *)
(* transaction.                                                             *)
BeginMarking(b) ==
  /\ pc = "idle" /\ disk.seen[b] = Never
  /\ pc' = "minute" /\ batch' = b
  /\ disk' = [disk EXCEPT !.seen[b] = now]
  /\ tx' = [disk' EXCEPT !.runs = [m \in Minutes |-> @[m] + InMinute(b)[m]]]
  /\ UNCHANGED <<now, caches, summaryCache, outlived, faults>>

Begin(b) ==
  /\ pc = "idle" /\ disk.seen[b] = Never
  /\ pc' = "minute" /\ batch' = b
  /\ tx' = [disk EXCEPT !.runs = [m \in Minutes |-> @[m] + InMinute(b)[m]]]
  /\ UNCHANGED <<now, disk, caches, summaryCache, outlived, faults>>

MergeMinute ==
  /\ pc = "minute" /\ pc' = "hour"
  /\ LET kept == Kept(minuteCache, now) IN
     /\ tx' = [tx EXCEPT !.minute = Upserted(@, kept, InMinute(batch))]
     /\ minuteCache' = Cached(tx.minute, kept, InMinute(batch))
  /\ UNCHANGED <<now, disk, hourCache, batch, summaryCache, outlived, faults>>

MergeHour ==
  /\ pc = "hour" /\ pc' = "mark"
  /\ LET kept == Kept(hourCache, HourOf(now)) IN
     /\ tx' = [tx EXCEPT !.hour = Upserted(@, kept, InHour(batch))]
     /\ hourCache' = Cached(tx.hour, kept, InHour(batch))
  /\ UNCHANGED <<now, disk, minuteCache, batch, summaryCache, outlived, faults>>

(* markBatch and COMMIT; the summary is stale now.  Mutant: it is kept.     *)
CommitKeepingSummary ==
  /\ pc = "mark" /\ pc' = "idle"
  /\ disk' = [tx EXCEPT !.seen[batch] = now] /\ tx' = disk'
  /\ UNCHANGED <<now, caches, batch, summaryCache, outlived, faults>>

Commit ==
  /\ pc = "mark" /\ pc' = "idle"
  /\ disk' = [tx EXCEPT !.seen[batch] = now] /\ tx' = disk'
  /\ summaryCache' = NoSummary /\ outlived' = FALSE
  /\ UNCHANGED <<now, caches, batch, faults>>

(* Any statement of the transaction throws: ROLLBACK, and the caches hold   *)
(* what was never persisted.  Mutants: either is forgotten.                 *)
ThrowKeepingCaches ==
  /\ pc # "idle" /\ faults < MaxFaults /\ faults' = faults + 1
  /\ pc' = "idle" /\ tx' = disk
  /\ UNCHANGED <<now, disk, caches, batch, summaryCache, outlived>>

Throw ==
  /\ pc # "idle" /\ faults < MaxFaults /\ faults' = faults + 1
  /\ pc' = "idle" /\ tx' = disk /\ minuteCache' = NoMinutes /\ hourCache' = NoHours
  /\ UNCHANGED <<now, disk, batch, summaryCache, outlived>>

(* The process dies and the store is opened again.                          *)
Crash ==
  /\ faults < MaxFaults /\ faults' = faults + 1
  /\ pc' = "idle" /\ tx' = disk /\ minuteCache' = NoMinutes /\ hourCache' = NoHours
  /\ summaryCache' = NoSummary /\ outlived' = FALSE
  /\ UNCHANGED <<now, disk, batch>>

-----------------------------------------------------------------------------
(* The retention sweep: statements of their own, in this order, of which    *)
(* the first n take effect, all four unless one throws or the process dies. *)
(* The caches are left alone.                                               *)
Thrown(n) == n < 4 => faults < MaxFaults
Sweep(n) ==
  /\ pc = "idle" /\ Thrown(n) /\ faults' = IF n < 4 THEN faults + 1 ELSE faults
  /\ LET old(m) == m < now - MinuteKeep IN
     disk' =
       [minute |-> [m \in Minutes |-> IF n >= 1 /\ old(m) THEN NoRow ELSE disk.minute[m]],
        hour   |-> [h \in Hours |-> IF n >= 2 /\ h < HourOf(now - HourKeep) THEN NoRow
                                    ELSE disk.hour[h]],
        runs   |-> [m \in Minutes |-> IF n >= 3 /\ old(m) THEN 0 ELSE disk.runs[m]],
        seen   |-> [b \in Batches |-> IF n >= 4 /\ disk.seen[b] < now - SeenKeep THEN Never
                                      ELSE disk.seen[b]]]
  /\ tx' = disk'
  /\ UNCHANGED <<now, caches, pc, batch, summaryCache, outlived>>

(* resetAll: one transaction, in which the histogram caches go too.  The    *)
(* checkpoint after it may throw, and then the summary is kept.             *)
Emptied ==
  /\ pc = "idle" /\ disk' = EmptyDb /\ tx' = EmptyDb
  /\ minuteCache' = NoMinutes /\ hourCache' = NoHours
  /\ UNCHANGED <<now, pc, batch>>

Reset ==
  /\ Emptied /\ summaryCache' = NoSummary /\ outlived' = FALSE
  /\ UNCHANGED faults

ResetUnfinished ==
  /\ Emptied /\ faults < MaxFaults /\ faults' = faults + 1
  /\ outlived' = TRUE
  /\ UNCHANGED summaryCache

(* Its COMMIT throws: the rows stay, the caches are gone already.           *)
ResetThrows ==
  /\ pc = "idle" /\ faults < MaxFaults /\ faults' = faults + 1
  /\ minuteCache' = NoMinutes /\ hourCache' = NoHours
  /\ UNCHANGED <<now, disk, tx, pc, batch, summaryCache, outlived>>

(* summary(windowMs), computed once in a slot.  (windowRows, minute layer.) *)
Counted(rows, M) == SumFunction([m \in M |-> rows[m].count])
WindowTotal(rows, t) == Counted(rows, {m \in Minutes : t - Window <= m /\ m <= t})

Summary ==
  /\ pc = "idle" /\ summaryCache.slot # now
  /\ summaryCache' = [slot |-> now, total |-> WindowTotal(disk.minute, now)]
  /\ outlived' = FALSE
  /\ UNCHANGED <<now, disk, tx, caches, pc, batch, faults>>

Tick ==
  /\ now < MaxMinute /\ now' = now + 1
  /\ UNCHANGED <<disk, tx, caches, pc, batch, summaryCache, outlived, faults>>

Next ==
  \/ \E b \in Batches : Begin(b)
  \/ MergeMinute \/ MergeHour \/ Commit \/ Throw \/ Crash
  \/ \E n \in 0..4 : Sweep(n)
  \/ Reset \/ ResetUnfinished \/ ResetThrows \/ Summary \/ Tick

Spec == Init /\ [][Next]_vars

-----------------------------------------------------------------------------
(* Type invariant, with: outside an ingest no transaction is left open.     *)
Row == [hist : Nat, count : Nat]
Db  == [minute : [Minutes -> Row], hour : [Hours -> Row],
        runs : [Minutes -> Nat], seen : [Batches -> Minutes \cup {Never}]]
TypeOK ==
  /\ now \in Minutes /\ disk \in Db /\ tx \in Db
  /\ minuteCache \in [Minutes -> Nat \cup {None}] /\ hourCache \in [Hours -> Nat \cup {None}]
  /\ pc \in {"idle", "minute", "hour", "mark"} /\ batch \in Batches
  /\ summaryCache.slot \in Minutes \cup {None} /\ outlived \in BOOLEAN /\ faults \in 0..MaxFaults
  /\ pc = "idle" => tx = disk

(* What the cache has of a bucket that is still open is what is stored, so  *)
(* the next flush may merge it without reading the row: after a rollback, a *)
(* sweep, a reset, a restart.  (Entries of closed buckets are never used.)  *)
CachesCoherent ==
  /\ \A m \in Minutes : m >= now => minuteCache[m] \in {None, tx.minute[m].hist}
  /\ \A h \in Hours : h >= HourOf(now) => hourCache[h] \in {None, tx.hour[h].hist}

(* A row's percentiles are of the very requests that it counts: incremented *)
(* scalars and overwritten histograms never part (the upsert of `layer`).   *)
Matches(rows) == \A k \in DOMAIN rows : rows[k].hist = rows[k].count
HistMatchesCount ==
  Matches(disk.minute) /\ Matches(disk.hour) /\ Matches(tx.minute) /\ Matches(tx.hour)

(* A minute that can be reported can be attributed to its runs in full,     *)
(* however far the sweep came.                                              *)
MinutesAttributed == \A m \in Minutes : disk.minute[m].count <= disk.runs[m]

(* "Both layers receive every request during ingest, so the totals are      *)
(* identical either way": for an hour whose minutes are still all kept; and *)
(* the attribution to runs has no less than the minutes.                    *)
LayersAgree ==
  /\ \A h \in Hours : h * HourLen >= now - MinuteKeep =>
       disk.hour[h].count = Counted(disk.minute, {m \in Minutes : HourOf(m) = h})
  /\ MinutesAttributed

(* A dashboard poll is never answered from before the last ingest or reset, *)
(* but for a reset whose checkpoint threw when the rows were gone: it       *)
(* leaves the summary of before, for the rest of its slot.                  *)
SummaryIsCurrent ==
  summaryCache.slot = now /\ pc = "idle" /\ ~outlived =>
    summaryCache.total = WindowTotal(disk.minute, now)

(* Every batch is counted whole and, while it is remembered, once: the      *)
(* store implements MetricsLedger.                                          *)
Ledger == INSTANCE MetricsLedger WITH
  minute <- [m \in Minutes |-> disk.minute[m].hist],
  hour   <- [h \in Hours |-> disk.hour[h].hist],
  marks  <- {b \in Batches : disk.seen[b] # Never}
ImplementsLedger == Ledger!Spec
=============================================================================
