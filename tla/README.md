# apigw-tester in TLA+

apigw-tester drives synthetic load through an API gateway and judges what
comes back. A Bun control plane (`packages/app`) serves a UI, keeps the
configuration and the measurements in SQLite, and supervises two Go processes:
a load generator (`gwtester-worker`) and a petstore that stands behind the
gateway (`gwtester-sut`). This directory holds TLA+ models of the parts whose
correctness depends on the order in which things happen, TLC configurations
that check them on small instances, and TLAPS proofs for every instance.

All paths below are relative to the repository; line numbers are in
`PROJECT.json` ("map").

## Inventory

| Component | State | Operations | Talks to | What is hard | What makes it correct |
|---|---|---|---|---|---|
| Driver, GoWorkerClient (`loadgen/driver.ts`, `goClient.ts`) | run state and id, two timers, configuration, the child | start, stop, configure, onStopped, watchdog, backstop, shutdown | worker over stdin/stdout, routes | acks that arrive late, timers that outlive their run, spawn that fails after start answered, a child that dies | timers belong to their run; the worker ends where the Driver says it is; a stop ends |
| Routes (`app.ts`) | `startingRun`, the stored profile, the runs table | run/start, run/stop, PUT profile, reset, prune, start-up | Driver, metrics client | state read before an `await` and used after it | a run in progress has its row; a stopped one is closed |
| Metrics client and thread (`metrics/client.ts`, `worker.ts`) | pending calls | call, reply, close, failure | routes, store | the queue at its limit | FIFO, nothing retried silently |
| Metrics store (`metrics/server.ts`) | roll-ups in two layers, caches, marks, memo | ingest, sweep, reset, summary | thread | rollback with caches already merged, partial sweeps, retries | counted whole and once; caches tell what is stored |
| Worker (`worker/worker.go`, `cmd/gwtester-worker`) | run state, semaphore, WaitGroup, tick loop, results channel | start, stop, shutdown, tick, execute, flush | control pipes, sink | four kinds of goroutine, a lock held across a wait, two callers of Stop | one tick loop; "stopped" is the last word; the ceiling holds |
| Flush and loss accounting (`worker.go`) | aggregator, shed buckets, counters | flush, noteShed, noteTick, takeShed | sink | two flushers, counters reset by Start | nothing is lost uncounted or counted twice |
| Results pipeline (`wire/results.go`, `goClient.ts`) | one TCP connection, a partial line | send, redial, parse | worker, store | half a line written, a redial | every batch arrives or is reported lost |
| Token bucket, modes (`schedule/`) | tokens, last tick | Tick | tick loop | fractional tokens, stalls | never above the target |
| Reaper (`schedule/reaper.go`) | deadline heap, wake channel | After, Done, loop, fireExpired, Stop | firer | a deadline registered while it goes to sleep; an expiry that races the end of its request | no deadline is missed, none hits another request |
| Firing (`fire/`) | job pool, counters, connection reuse | BudgetFor, Fire, PutJob | reaper, flusher | jobs that change hands, two classifications of one outcome | a job tells of its own request; the two books agree |
| Scenario, id tracker (`scen/`) | ids created | Record, Take | execute | many goroutines | an id is handed out once |
| Aggregation, histograms (`agg/`, `hist/`, `metrics/rollup.ts`, `metrics/aggregate.ts`) | cells | add, drain, merge, percentile | flush, store | boundaries, counters added up apart that must agree | views reconcile; a percentile lies in the bucket of its rank |
| Report and verdict (`report.ts`, `reportFor` in `app.ts`) | none | run, summary, scope, verdict | store | several reads of a store that moves on; precedence of conditions | no verdict on another run's traffic or on evidence that is missing |
| Policy probes (`loadgen/policy.ts`, `app.ts`) | a pass, the stored results, the gateway's quota and cache | pass, PUT, reset | store, gateway | a probe that spoils another, a target changed during a pass, a write that fails | a stored verdict is true of one gateway, the current one in the end |
| Supervision (`sut/goSut.ts`, `app.ts`, `index.ts`) | child, restart timer, readiness, probe interval, targets | start, exit, restart, stop, boot, shutdown, PUT policy and gateway | petstore, store, driver | a restart racing stop, two PUTs past one `clearInterval`, a signal during boot | one petstore, none left behind; the newest configuration in force |
| Petstore stores (`sut/store.go`, `petstore/store.ts`) | bounded maps and indexes | pet and order operations | server | eviction, ids that wrap, indexes | the index mirrors the map; seeded rows stay |
| Petstore server (`petstore/server.ts`) | caches of serialized answers | list, get, update | store | a cache keyed by a version that must move with every change | nothing stale is served |
| Dashboard (`ui/App.tsx`, `ui/ConfigDrawer.tsx`, `ui/api.ts`) | query cache, form, running saves | poll, open, edit, apply, cancel | routes | late answers, two Applies, another client | what was applied is in force |
| Health samplers, latency, validation, SOAP, OpenAPI, configuration, auth, packaging | | | | numeric or textual | |

`PROJECT.json` lists the hazards this code is exposed to, each at its line, with
the properties that would show it.

## Plan

The modules in the order of importance; all of them are written.

1. `RunLifecycle`, `RunControl`, `RunControlProofs`: who is running what.
2. `Worker`, `WorkerProofs`: the generator's goroutines.
3. `RunApi`, `RunApiProofs`: the routes over the Driver and the store's FIFO.
   `RunApiProofs` also has what is proved of the drawer (11).
4. `MetricsLedger`, `MetricsStore`, `MetricsStoreProofs`: counting.
   `MetricsStoreProofs` also has what is proved of the reports (9).
5. `Flush`, `FlushProofs`: the aggregator and the shed buckets under two
   flushers and a restart of the counters.
6. `IdSeqs`, `PetCatalogue`, `PetStore`, `PetStoreProofs`; `Origins`: bounded
   maps, lists with tombstones, eviction; the two petstores given the same requests.
7. `Firing`, `FiringProofs`: the job pool, the Reaper, what becomes of an outcome.
8. `Rig`, `RigProofs`: supervision, start-up, shutdown, the probes' schedule.
9. `Rollup`, `Verdict`, `Reporting`: from requests to numbers to a verdict.
10. `PolicyProbes`, `Probing`: what a pass makes of a gateway; proofs in `RigProofs`.
11. `Settings`: the drawer, Apply, and the sanitizers on both sides.

What is worth doing next, in this order: the results socket with its redial
(a line cut in two spoils the one after it, although `goClient.ts:76` has "drops
nothing"); the id tracker; the token bucket over scaled integers.

## Modules

### RunLifecycle

What run control promises to everybody else: a run begins, may be asked to
stop, and ends, under an id of its own; under fairness a run that was asked to
stop ends. `RunControl` implements it; `RunApi` uses it in place of the Driver.

### RunControl

The Driver, GoWorkerClient and the worker's control reader, joined by two FIFO
pipes. `state`, `runId`, `durationTimer`, `stopTimer`, `client`,
`generatorError` and `cfg` are the Driver's fields; `child` and `pending` are
GoWorkerClient's process and the continuations that wait for its spawn;
`inbox` and `outbox` the pipes; `wstate`, `wrun`, `wcfg` what the worker's
`Handle` made of them. Each action is a whole handler: `Start` computes the
run, arms the timers and either sends or leaves a continuation; `RecvStopped`
is `onStopped`; `ClosingExit` is the end of `shutdown`, graceful or killed.
Configurations are numbered, so that "newest" is a comparison. The worker's
Stop is two steps here (begin, complete or wedge); its inside is `Worker`. A
configure that changes nothing is left out, and so is a line of stdout that
arrives in two pieces.

### Worker

The goroutines of one worker process. `stopPc` holds where each caller of Stop
is (the control reader on a "stop" line, main on a signal), `loopPc` each tick
loop, `reqPc` each request, `mu` who holds `w.mu` across a step. A critical
section that cannot block is one action; Stop's second one blocks (it waits for
the tick loop), so it is two. The drain ends in one step that records in
`leaked` whether it timed out. A request's `result` says where its measurement
is: "queued" in the channel, "folded" into the aggregator, in the batch of a
flusher (by its name), "shipped" or "lost". A flush is three steps, for the
flush loop as for whoever is in Stop: `Drains` (worker.go:541), `FlushCopies`
(547-560) and `FlushWrites` (561), with `flushPc` in between; so Stop may find
nothing to flush while the loop still holds results. `contended` is history: the
runs that had two flushes under way at once before their "stopped". A write
that fails counts its results lost, which is the same to what this module says.
Shutdown closes `done` and waits for the loop's last flush only.

### RunApi

The start, stop, profile, reset and prune handlers, cut at their `await`s, the
metrics client's FIFO in both directions (`calls`, `replies`, bounded by
`MaxPending`), and what the thread does with each call: a reply is an answer
(`StoreStep`) or the error of a statement that threw (`StoreThrows`), which ends
the handler that waits for it (`StartFails`, `PutGivesUp`). The Driver is
`RunLifecycle`. `Restart` kills the process; a graceful shutdown is a restart
that finds the queue empty. Four variables are history: `unwritten`, the runs
whose `recordRunStart` was refused or threw; `unclosed`, those whose
`recordRunStop` was, or that ended without one; `outdated` and `overlapped`,
that a start still holds, or has put in force, a profile it read before the
last PUT. A metrics thread that dies is left out.

### MetricsLedger and MetricsStore

`MetricsLedger` is what the store promises about counting. `MetricsStore` is
how: `disk` is what SQLite has committed, `tx` what the open transaction sees,
`minuteCache` and `hourCache` the histograms kept between flushes. An ingest is
five steps so that it may throw (`Throw`) or die (`Crash`) between any two; a
sweep takes effect up to one of its statements. A reset is `Reset`, a rollback
(`ResetThrows`) or, when the PRAGMA after the COMMIT throws, `ResetUnfinished`:
the rows and the roll-up caches are gone,
but the memoized summary stays, which `outlived` remembers. One series stands for all, and
`hist`/`count` of a row stand for its histograms and its scalar columns. A
minute of the model's clock is also the summary's 10 s slot. Batches may hold
late and future minutes, may be posted again at any time, and are refused while
their mark is kept.

### Flush

From the end of a request to a batch on the socket. `queued` is the results
channel, `agg` the results folded into the aggregator, `shed` a tally (refused
load, lost measurements, the generator's own faults) for each minute that has a
bucket. A flush is `Enter` (noteResultsLost and takeShed), `DrainOne` for each
result, `DrainEnds` (noteGenFaults and the early return), `Copy` and `Leave`
(`Ship` or `ShipFails`), for each of two flushers: the flush loop and whoever is
in Stop. `Start` is two steps, the new counters (worker.go:228) and, under
`shedMu`, the new buckets and mark (`StartClears`, 233-236): in phase "starting"
a flush notes losses that will be noted again, which `doubled` counts. The
buckets have a lock, the aggregator has none; `Copy` and `NewMaps` are two steps
for that reason, and `RuntimeThrows` is what Go's map checks may do about it.
`shipped`, `lost`, `refused`, `blamed`, `left` `doubled` and `raced` are
history: they say where everything went. `Worker` has the flush's three steps
among the goroutines; this is what they do to the maps and buckets.

### PetCatalogue and PetStore

`PetCatalogue` is what a caller sees of the petstore: pages in the order pets
came, as a whole and by status, and who makes room for whom. `IdSeqs` has the
one operator both need, a sequence less some of its elements (`Kept`). `PetStore` is how:
`lists` are the idLists with zeros where pets were, positions and compaction;
`generated` and `orderFIFO` the eviction queues. A method holds the lock
throughout and is one action. An update that keeps the status changes nothing
that is modelled.

### Firing

One request after another through `execute` and `Fire`, beside the Reaper's
goroutine. `pc[q]` is where the goroutine of request q is, `jobOf` its job,
`due` its deadline; `pool` is `jobPool`, `res[j]` and `ctx[j]` what job j says
and whose context it has. `heap` is the Reaper's, as a set: only its minimum is
read. `reaperPc` follows `loop` and `fireExpired` from lock to lock: a look at
the heap (`Scan`), the select (`Selects`, `WakesUp`, `Ends`), an entry taken
out (`Pop`) and, with the lock let go, cancelled (`Expire`). `After` is two
steps, the registration (in `Begin`) and the send on `wake` (`Woken`). A timer
needs no state of its own besides `until`: with go.mod at Go 1.24 a timer that
was stopped delivers nothing later. `counters` is the status line's view of the
outcomes, `cells` the aggregator's and the summary's. `Settle` counts an outcome
and queues its result in one step: nothing reads the two in between, the books
being compared only when the flusher has caught up. `outcome` and `late` are history, forgotten
when the result has been read. Retries, connection reuse, captured bodies and
latencies are left out.

### Origins

The Go petstore and the TypeScript one it was ported from, in lockstep: the
first is `PetStore`, the second is `PetCatalogue` (whose operations are those of
`petstore/store.ts`) under the two caches of `petstore/server.ts`. `GetPets` and
`GetPet` fill a cache; every change empties what it makes stale, by the store's
version for listings (`NewVersion`) and by the object's identity for a single
pet (`NewObject`). A cached entry that no longer matches is as none, so only
good ones are kept.

### Rig

The control plane among its processes. `proc`, `child`, `restartTimer`,
`stopping` and `told` are goSut's; `waiting` is whose ready promise is open.
`boot` is how far `ready` has come, `down` how far the shutdown has. `calls` is
the metrics thread's FIFO: a continuation after an `await` on the store is an
action on its head. Any call may fail, refused at the tail or answered with an
error at the head (`CallFails`): a request is answered 500 where it stands, a
pass is given up with its flag cleared, a start-up rejects `ready`. So a PUT that
cleared the interval and failed to read the new configuration leaves none set,
`owed`; two PUTs past each other's clearing leave a forgotten one ticking,
`crossed`. A run's start is a second writer of the driver's targets
(`RunBegins`). `live` is the set of intervals that tick, `policyTimer` the
one the application remembers: after two PUTs they can differ. `policyPass` is
runPolicies as its schedule sees it; `Probing` opens it up. A client makes one
request; the last petstore of `MaxSpawns` dies only when told to.

### Rollup, Verdict, Reporting

`Rollup` and `Verdict` have operators only. A request becomes a row (`One`),
rows add up (`Plus`) at every stage from the generator's cell to a window, and
`SummaryOver` is what `summaryBetween` makes of the two layers over a window;
`TimeSeries` is the chart. Averages, bytes and per-protocol splits are further
columns of the same sums and are left out. Percentages are compared by
cross-multiplication and percentiles are fractions. `Reporting` runs them: runs
start and stop, traffic happens (requests and signals: load refused,
measurements lost, generator faults, stalls, a host short of CPU), batches are
ingested late, minutes are swept, and `reportFor` reads a summary and then a
scope, between which the store moves on. A store is abstracted to what it has
ingested and swept (`Snapshot`); that an ingest counts once and whole is
`MetricsStore`'s subject. Names that `MetricsStore` has too are avoided
(`clock`, `MinuteTicks`, `SweepMinutes`): one module proves about both.

### PolicyProbes and Probing

`PolicyProbes` has, for each of the eight probes, the verdict it gives on the
responses it gets, and the responses a gateway of a given posture ("on", "off",
"wrong") gives, among them those the code takes for a policy that is not there
(`Mistakable`): the backend's own 401 to a request without a key, the petstore's
unstamped 404, a cache header on a miss. `Probing` makes a pass of them, one
probe a step, against gateways whose quota the burst of the rate-limit probe
uses up and whose cache stays warm; the target and the list of required policies
change during a pass, requests are lost or throttled by the load, and the write
of the results fails. A quota smaller than what one pass asks for is not
modelled. Its specification is `PassSpec`, `Reporting`'s is `ReportSpec` and
`Settings`' is `SettingsSpec`: `RigProofs`, `MetricsStoreProofs` and
`RunApiProofs` each extend two specifications, whose names must differ.

### Settings

`server` is what is stored, `cache` the tab's queries, `late` an answer under
way, `asked` the GET of the thresholds that a closing drawer leaves behind (its
`onClose` invalidates while its observer is still mounted), `drawer` the open
form, `saves` the Applies that run: a cancelled drawer's Apply goes on, four
PUTs in a row, beside a reopened one's. The sanitizers of the four settings are
modelled by what they do with numbers, nulls, junk and missing fields; the
server runs them again over what it has stored. `typed` and `written` are
history.

## Runs

| Run | Configuration | Instance |
|---|---|---|
| control | `RunControl.cfg` | 3 runs, 2 configurations, 1 crash, `FairSpec` |
| worker | `Worker.cfg` | 2 runs, 2 requests, ceiling 1, channel of 1, a signal, `FairSpec` |
| api | `RunApi.cfg` | 2 runs, 2 profiles, 3 pending calls, 1 statement that throws, 1 kill |
| store | `MetricsStore.cfg` | 3 batches, 5 minutes, 2 to the hour, 1 fault |
| flush | `Flush.cfg` | 2 requests, both faulty; channel and buckets of 1; 2 minutes, 2 starts, 1 shedding tick, 1 failed write |
| petstore | `Origins.cfg` | both petstores: 2 seeds, capacity 3, 2 statuses, ids to 5, 4 orders, 2 listings, 2 descriptions |
| firing | `Firing.cfg` | 2 requests, 2 jobs, 4 statuses (2xx, 4xx, 500, 503), 3 causes, budgets 1 and 2, channel of 1, clock to 2, `FairSpec` |
| rig | `Rig.cfg` | 2 requests, 3 petstore processes, 1 failed call of the store, a fixed or a free port, 2 tables at boot |
| reporting | `Reporting.cfg` | 2 runs, 2 events of 5 kinds (a success, a gateway's 502, a contract violation refused and one accepted, a lost measurement), clock to 2, minutes of 1 tick, hours of 2, minute layer for windows of 1 |
| probing | `Probing.cfg` | the bundled petstore and two gateways, each policy enforced by one of them and lacking or wrong at the other; 2 PUTs, 1 fault |
| settings | `Settings.cfg` | 2 openings of the drawer, 2 edits, PUTs of others or failures, late answers for two keys |
| settings_undone | violation | `Settings_Undone.cfg`: one threshold edited, nobody else about |

`PROJECT.json` says for each what it shows. The invariants named `TypeOK` are
the modules' type invariants (`PassTypeOK` in `Probing`, `ReportTypeOK` in
`Reporting`): those of `RunControl`, `Worker`, `RunApi`, `MetricsStore`, `Flush`,
`PetStore` and `Firing` are proved, the others document the states; none is
among a run's properties.

### Bounds and why they are enough

- *Runs.* A stale ack needs two runs, the confusion after it a third. The
  worker's hazards are between one run and the next: two.
- *Requests.* With a ceiling of one, two requests are one that outlives its run
  and one that meets it in the next; the overrun of the ceiling takes a third.
- *Queues.* `MaxInbox` bounds lines on a pipe. `MaxPending` is 128 in the code;
  three already lets a call be refused in every handler.
- *Batches, minutes.* One batch within an hour, one across two, one that is
  late; retentions of one minute let every mark and row expire within the clock.
- *Channel, buckets.* 65536 and 2000 in the code; with one place each the second
  result meets a full channel and the second minute evicts.
- *Pets.* A store of three has room for one generated pet; with ids up to five
  a list comes to be more than half tombstones, and compacts.
- *Firing.* Two requests are a sleeper's deadline and an earlier one, and a
  cancellation that comes when its job serves the other; two budgets and a
  clock to two let either deadline pass first. Causes are one of each class:
  a dial that timed out, a broken connection, an ended context ("refused"
  differs from the first only in its message).
- *Supervision.* The third process is a restart of a restart; two requests are
  two PUTs between each other's steps, or a PUT and a run that asks for a pass.
- *Reporting.* Windows of one tick are read from minutes and longer ones from
  hours, so a clock to two has both; two runs back to back share a minute. Of
  two events each can be of either run, before or after the sweep; the 1 %
  limits are met by any one foreign request among two. Edges of three buckets
  and their overflow.
- *Probing.* Of the two gateways one enforces each policy; at the other it is
  lacking (`auth-bad-key`, `unknown-route`, `cache`, `rate-limit`) or wrong
  (`auth-no-key`, `payload-limit`, `upstream-timeout`, `cors-preflight`). Every
  posture of every policy is the proof's subject. Of the bundled petstore
  nothing can be measured. Two PUTs change the target and back.
- *Settings.* The second opening is the one that finds a full cache and an Apply
  that may still be running.
- *Faults.* One crash, kill, throw, failed write or failed call of the store at
  any point; after it the system is in an ordinary state again, or in the one
  that the exception of the property names.

### Fairness

`RunControl`: Node's event loop runs what is due (pipe lines, timers, process
exits), and the worker handles its input; nobody is obliged to press a button,
and the worker may wedge. `Worker`: Go runs every goroutine that can run and
the drain's timer fires; a `select` with two ready cases picks either, hence
strong fairness for the stop case; the gateway need not answer, so requests
have no fairness at all. `Firing`: time passes, the Reaper's goroutine runs, and
so does a request that owes it a wake-up, or whose context is done (Go's
transport returns then); the target need not answer. `Rig`: timers and intervals
fire, the store answers, a starting petstore prints its line or dies, probes end
by their own timeouts, a shutdown that has begun goes on; nobody has to send a
request or a signal. `Probing`: the interval ticks and each step of a pass ends;
quotas need not refill. `Settings`: polls go on and requests end, well or not.

## Proofs

Every theorem is for arbitrary constants under the module's named assumption.
Each safety property a passing run checks has one, invariant or action property.

- `RunControlProofs`. `TypeCorrect`; `TimersAreOwned` (the timers' owner changes
  only with the run, by a view of the steps that leaves everything else out);
  `LifecycleImplemented` (each action is `Begin`, `AskStop`, `End` or a
  stutter). Three more are about lines on pipes: `NewestConfigArrives`
  (`CfgInv`: of the continuations, the inbox and the worker, the last one that
  has a configuration has the Driver's), `NoAckEndsAnotherRun` (`AckInv`: unless
  a start overtook an ack, none is on its way to a Driver that is running),
  `WorkerIsFollowing` (`FollowInv`: what the last of the starts and stops under
  way will make of the worker). The last two are of behaviours in which no start
  overtook an unread ack and no stop a pending spawn (`raced`): the code loses
  both races (see Findings). The "last line of a kind" is the greatest index,
  had by well-foundedness of Nat.
- `WorkerProofs`. `TypeCorrect`; `OnlyOneTickLoop` (`LoopInv`: which loop the
  Worker holds channels of, and that a Stop that is joining holds the lock);
  `StoppedIsTheLastWord` (`StopInv`: a run stops once; `MintInv`: once a Stop has
  joined the loop nobody is left who could mint a request of its run;
  `RequestInv`: what has been drained is gone, and what is folded or in a
  batch belongs to a flush under way, so that a Stop which alone has flushed
  leaves the results of its run shipped or counted as lost, unless the drain timed
  out or the run is `contended`); `SlotsAreTheRequestsInFlight`, until a start finds
  a request of an earlier run (`carried`).
- `RunApiProofs`. `TypeCorrect`; `OpenRowStands`, `RowsAreOwned`,
  `SavedIsInForce`, each with the runs, or the start, for which the code has no
  answer named in a history variable (`unwritten`, `unclosed`, `overlapped`).
  Every handler has one call or one reply under way and waits for what its place
  in the code says (`Asking`). `SavedInv` says where the newest profile is on
  its way to the Driver; `RunInv` and `RowInv` what the calls still queued will
  do to the runs table: resets come before the start's first call, stops are of
  other runs, a queued start of a stopped run has its stop behind it.
  `AppliesGoThrough` is of `Settings`. Its invariant: what is stored, sent and
  typed is of the form the sanitizers give (`StoredInv`, `DrawerInv`,
  `SavesInv`), and of the save of the open drawer, each setting that has been
  sent and that nobody else has written is stored as it was sent (`PutInv`).
  What was sent stays as it is when it is sanitized again over itself, which is
  what makes the two sanitizers safe in a row.
- `MetricsStoreProofs`. `TypeCorrect`, `CachesStayCoherent`,
  `HistogramsMatchCounts`, `MinutesStayAttributed`, `LedgerImplemented`. The
  invariant `Inv` adds `TxHoldsBatch`: what the open transaction already holds
  of the batch, layer by layer. One lemma about a single layer
  (`MergePreserves`) serves both merges; the sweep's part rests on hours being
  monotone in minutes (`HourOfMonotone`). `LayersStayEqual` adds that an hour none
  of whose minutes may have been swept has the sum of its minutes
  (`HoursAddUp`), and `SummaryStaysCurrent` that what is remembered for the
  present slot is what the window's rows add up to (`SummaryInv`), unless a reset
  threw after its COMMIT (`outlived`). Sums over a
  set of minutes are turned into sizes of sets, whose theorems need no
  induction of ours.
  Of `Reporting`: `ReportsReconcile` and `PercentilesAreOfRank`. A row *stands for*
  a set of requests (`Stands`) when each of its columns, statuses and histogram
  buckets has as many as there are requests in the set that belong there; one
  request's row does (`OneStands`), and so does the sum of rows that stand for sets
  apart (`PlusStands`, `TogetherStands`). So do the rows of a layer, of a window,
  of an endpoint or a class, and two views of a window are two partitions of one
  set (`CountsAddUp`, `StatusesAddUp`, `FailuresAddUp`, `ChartReconciles`). For the
  percentiles, the binary search returns the one bucket whose edges the value lies
  between (`SlotIs`) and is monotone, so the bucket in which the running count
  reaches the rank is that of the request of that rank (`SlotOfRank`), and the
  interpolation stays in it (`InterpolatedWithin`). They need edges that ascend,
  latency edges that are not negative and residual edges on both sides of zero
  (`EdgesAssumption`), as the tables in `shared` are. `VerdictsAreSound`: a verdict
  other than "inconclusive" implies each reason not to judge is absent
  (`JudgedMeansSound`), and a count of zero signals means none
  (`ValidMeansNoSignal`); nothing happens after a report.
- `FlushProofs`. `TypeCorrect`; `ResultsCountedOnce` (where each flusher may be
  while `raced` is "never", and that what it has drained is what the aggregator
  holds); `NoLossForgotten` (`Loss`: what was lost, blamed or refused is what the
  buckets, the batches on their way and those that left hold of it, plus what
  waits for a flush and less what was noted twice around a Start, `doubled`; with
  sums again as sizes of sets).
- `PetStoreProofs`. `TypeCorrect`; `StoreIsBounded` (the generated queue is
  sorted and its range is the generated pets; orders are an interval of ids) and
  `SeedsStay`. `Lists` says that an idList has each id at the place `pos` has for
  it, and zeros, counted, elsewhere; with it a list without its zeros is the
  catalogue's page (`SameSeq`: two sequences without repeats, of the same
  elements in the same order, are equal), which gives `PagesCover` and, action by
  action, `CatalogueImplemented`. `NothingStaleIsServed` is of `Origins`:
  both stores stay `Together`, and a cached answer is of the present version or
  object (`CachesInv`).
- `FiringProofs`. `TypeCorrect`; `NoneOutlives`; `WakeupsArrive` (a step either
  keeps `until` and adds nothing to the heap, `AlarmKept`, or is one of five);
  `NoneCutEarly`, whose invariant follows an entry between the Reaper's two
  locks: what it has taken out was due by the moment it looked and had begun,
  and a request that has begun keeps its deadline until it is over.
  `NoResultIsBorrowed` (`Ownership`: a job is in the pool, and then blank, or
  with one request, and then says what became of that one) and `TheBooksAgree`
  (`Books`: the counters are the cells and the results still queued, class by
  class; the generator's own faults bound how far errors and gateway faults may
  differ).
- `RigProofs`, about supervision: `OneAtATime` and `NoneLeftBehind`, from one
  invariant: whoever has not been told to go is the child, there is none once
  stop() was called, and all it told have gone when it returns. `NewestInForce`,
  whose invariant holds from the step of the start-up that sets the interval, or
  the targets, on: a request that writes either is itself about to bring it into
  force, or its call has failed; and no forgotten interval ticks while requests
  clear and set in turn (`Tidy`). About `Probing`: `ResultsAreEarned`, with one
  lemma for each probe that its verdict is right about a gateway of each posture
  (`AnsweredIsRight`) but for the answers in `Mistakable` (`Mistaken`), and two
  more that a used-up quota and a lost request are no verdicts but for the
  exceptions the property names; and `UndisturbedMeasures` (`MeasuringInv`: the
  probes go in the order of `Probes`, so that the one that uses the quota up
  comes last, and each answer of a gateway that is not used up is a
  measurement). They rest on `GatewaysAssumption`: postures are functions on the
  eight policies, and the responses a gateway of each may give are those of
  `PolicyProbes`.

Only model-checked: all liveness and with it every property under fairness
(fairness and ENABLED are out of the prover's reach), and the finding's run. What
the folds and the recursive functions compute is nowhere proved by induction over
data, for which no installed prover can instantiate the library's theorems: a sum
is the size of a set, or a function that exists because a least counterexample
to its existence does not (`FoldExists`), and the binary search is followed by
its shrinking range in the same way.

## Findings

One is a run that TLC finds violated, `settings_undone`: a threshold the
operator set, or another client sets while the drawer is closed, is undone when
the drawer is opened again and applied. The drawer adopts what the cache holds
of the last time (or, before any answer has landed, the defaults) and Apply
sends everything back. Closing the drawer does ask for the thresholds again
(`App.tsx:946-949`), so it takes a drawer that is opened before that GET has
landed, or after it was lost, or one whose predecessor was closed by Escape
while its Apply ran: the GET is then answered before the PUT, and the end of the
Apply asks for no query without an observer.

Met while modelling, with no run of their own. In run control and the generator:

- A stop that overtakes a pending spawn is sent to no child, and the continuation
  of the start then starts a worker for no run (`driver.ts:218`, `driver.ts:262`):
  it generates until the next stop of a run, or shutdown.
- An ack of an overtaken stop ends the run that replaced it, and a bounded run
  may then generate for ever (`driver.ts:235`; README:147 says it stops itself).
- Stop can deadlock with its own tick loop (`worker.go:288`); the run `worker`
  names it as the one way Stop does not return.
- Stop's flush and the flush loop's share an aggregator that nobody locks
  (`worker.go:306`, `worker.go:138`); the run `flush` excludes that meeting from
  what it says of single results.
- Results that the flush loop drained (`worker.go:541`) before Stop's own flush
  (306) found the channel empty are written (561) after the "stopped" line of
  315, although `worker.go:269-271` has "results flush, and a stopped message
  goes out": the exception `contended` of `StoppedIsComplete`.
- Start zeroes the counters (`worker.go:228`) before it takes `shedMu` to forget what
  has been noted of them (233-236): losses that a flush notes in between are noted
  again afterwards, `doubled`.
- A request cut in its body is recorded as a success and one cut before the
  headers does not count as a timeout (`fire.go:233`, `fire.go:25`), because the
  Reaper ends contexts by their CancelFunc.
- A request that failed in the generator is charged to the gateway by the status
  line (`worker.go:456-457`), and by the summary through the "net" bucket of the
  status histogram (`agg.go:114`), although `fire.go:36-45` and `agg.go:78-81` say
  that it is no evidence about the target. `TwoBooksAgree` leaves those open.
- A worker that dies leaves the run "running" (`goClient.ts:131`): nothing in
  the Driver ends it until the next stop.
- A request that outlives its run gives its slot back to the semaphore the
  next Start has made (`worker.go:414`, `worker.go:255`): the next run then has
  more requests in flight than its ceiling, which `worker.go:65` says is honoured.
- Tokens the bucket missed are counted twice in a minute's dropped: by noteTick
  and again by noteShed (`worker.go:659`, `worker.go:389`).
- After Reaper.Stop a registration is accepted and never fires
  (`reaper.go:71`). Counters.GwFaults counts dial failures.
- A run whose spawn fails after `start` answered keeps an open row
  (`driver.ts:181`, `app.ts:535`); nothing closes or deletes it. So does
  one whose `recordRunStop` a full queue refuses, or whose statement throws
  (`app.ts:269` logs it). If that happens to `recordRunStart`, the request is
  answered 500 and the run goes on without a row (`app.ts:535`).
- A start that read the profile before a PUT stored and applied another puts the
  older one back in force (`app.ts:524`, `app.ts:528`).
- A signal during Stop makes main exit on requests in flight: its own Stop
  returns at once (`worker.go:272`).
- Half a line of a broken connection spoils the batch that is retried on the
  next one, although WriteBatch returned nil (`goClient.ts:187`), and half a line
  of a dead worker's stdout swallows the next worker's "ready" (`goClient.ts:76`).
- At shutdown the worker's exit may come before the bytes of its last batch,
  which are then never read. The check of the bucket layout that a worker
  announced is not repeated for one that is spawned later.

In the store and its reports:

- `run_minute` goes after seven days with the minute layer while windows over
  six hours are read from hours kept for ninety: `windowScope` then says that
  0 of 0 requests were foreign (`server.ts:1117`, `server.ts:446`). Nor is a run
  longer than six hours judged on its own minutes: its summary is of whole hours,
  its purity of minutes (`server.ts:451`).
- A batch that cannot be written is counted by its results; the buckets that
  rode with it are lost without a word (`worker.go:614`), and so is what a late
  request noted in a bucket before the next Start replaced it (`worker.go:240`).
- An invalid request answered 2xx is not counted as a failure (`server.ts:916`,
  which starts from what was not answered 2xx or 3xx), though the comment at
  `server.ts:914-915` says it counts against the gateway. `ViewsReconcile` leaves
  those requests open.
- The PRAGMA that ends a reset is outside its `try` (`server.ts:1214`): when it
  throws, the rows are gone, the reset is answered with an error, and the summary of
  before is served until its slot is over (1215-1216 are not reached).
- A required policy whose probe failed is left out of the verdict if another one
  was measured. A report uses the gateway, policies and thresholds of today with
  the numbers of then; the dashboard caches a running run's verdict (`App.tsx:79`).

In supervision and probing:

- A spawn() that fails asynchronously leaves a petstore that never ran as the
  child, and nobody restarts it (`goSut.ts:151`, `goSut.ts:139`).
- Two PUTs of the policy configuration that both are past `clearInterval` leave
  an interval that is never cleared (`app.ts:299`), and a `readPolicyConfig` that
  fails there leaves none at all, with the dead one remembered (`app.ts:298-302`),
  although the new configuration is stored: the exceptions `crossed` and `owed` of
  `ConfigInForce` and `KeepsProbing`. The later of two PUTs writes
  over what the earlier changed (`app.ts:572`).
- A start-up that fails rejects `ready` for ever; the forced exit after 8 s can
  leave the petstore behind (`index.ts:20`).
- A warm cache is reported as not enforced (`policy.ts:234`); on a gateway that
  cannot be reached the payload limit passes and the upstream timeout fails
  (`policy.ts:196-200`, `policy.ts:220-221`; `policy.ts:125` says such probes
  measure nothing).
- Three policies pass though nothing enforces them: a backend's own 401 to a
  request without a key (`policy.ts:178-180`, against 172, "must not reach the
  backend"); a cache header on a miss, `x-cache: MISS` (`policy.ts:245-251`, against
  234); the petstore's unstamped 404 seen through a gateway (`policy.ts:265-267`,
  against 259, "without consulting the backend"). `VerdictsAreEarned` names them as
  exceptions.
- A pass asked for while one is running is dropped, at the start of a run too.

In the petstore and the dashboard:

- The TypeScript photo route pads a body with a size so small that it loses its
  closing brace (`petstore/server.ts:298`); the cache of padded tails is keyed by
  the target alone and grows without bound (`server.ts:128`).
- Edits made before the thresholds have landed are written over when they do;
  Apply goes on after Cancel, and its end closes a drawer opened since.

## Not modelled

Rendering, parsing, request bodies, WSDL/OpenAPI text, latency and chaos of the
petstore, environment parsing and authentication have no state worth exploring.
Health samplers read kernel and runtime counters. The random choices of the
scenario, the id tracker's bounded sample and the token bucket's fractions are
data; what the tick loop does with due and missed tokens is in `Worker` and
`Flush`. The redial of the results socket and the bytes on it are described under
"Findings" and not modelled: lines there would have to be put together from
pieces. The dashboard beyond its configuration drawer only shows.
