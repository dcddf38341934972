------------------------------- MODULE Worker -------------------------------
(***************************************************************************)
(* The goroutines of the load generator (internal/worker/worker.go,        *)
(* cmd/gwtester-worker/main.go): the control reader and main, both of      *)
(* which may be inside Stop; one tick loop per run; one goroutine per      *)
(* request in flight; and the flush loop.  They share w.mu, the semaphore  *)
(* w.sem, the WaitGroup and the results channel.                           *)
(*                                                                         *)
(* A critical section that cannot block is one action, enabled while       *)
(* nobody holds w.mu.  Stop alone blocks while it holds it.                *)
(*                                                                         *)
(* A flush drains the results channel into the one aggregator, takes what  *)
(* the aggregator holds as its batch, and writes it: three steps, with no  *)
(* lock around them, so that the flush loop's and a Stop's may overlap.    *)
(* What such an overlap does to the aggregator's maps, and the shed        *)
(* buckets, are Flush.tla.                                                 *)
(***************************************************************************)
EXTENDS Integers, Sequences, FiniteSets, SequencesExt

CONSTANTS
  MaxRuns,        \* starts the control reader handles
  Reqs,           \* requests issued in a behaviour
  Cap,            \* w.effectiveMaxConcurrency
  ResultChanCap   \* capacity of w.results

ASSUME WorkerAssumption ==
  MaxRuns \in Nat /\ Cap \in Nat \ {0} /\ ResultChanCap \in Nat \ {0} /\ IsFiniteSet(Reqs)

Runs == 1..MaxRuns
NoRun == 0
Callers == {"reader", "main"}
Flushers == Callers \cup {"loop"}

VARIABLES
  mu,                        \* who holds w.mu across a step, or "free"
  state, runID, lastRun,     \* Worker.state, Worker.runID; starts handled
  \* Stop, as each of its callers runs it, and what main does before and after
  stopPc, stopRun, mainPc,
  \* the tick loops by the run that spawned them; the loop whose channels the Worker holds
  loopPc, loopRun, stopClosed, tickCur, tickInit,
  \* the requests; the tokens in the current w.sem; counters.InFlight
  reqPc, reqRun, sem, inFlight,
  \* the flushes under way; the flush loop is at its last
  flushPc, lastFlush,
  \* where each request's result is: in the channel, in the aggregator, in the batch
  \* of a flusher, or gone; the "stopped" lines
  result, stopped,
  \* history: runs whose drain timed out; a start found requests of an earlier run in
  \* flight; runs that had two flushes under way at once before their "stopped"
  leaked, carried, contended

callVars == <<stopPc, stopRun, mainPc>>
loopVars == <<loopPc, loopRun, stopClosed, tickCur, tickInit>>
reqVars  == <<reqPc, reqRun, sem, inFlight, result>>
flushVars == <<flushPc, lastFlush, contended>>
vars == <<mu, state, runID, lastRun, callVars, loopVars, reqVars, flushVars, stopped, leaked, carried>>

\* the goroutines wg counts
InFlightReqs == {q \in Reqs : reqPc[q] \in {"build", "fire", "release"}}
Queued == {q \in Reqs : result[q] = "queued"}
Alive  == mainPc # "exited"
Busy(f) == flushPc[f] \in {"copy", "write"}

-----------------------------------------------------------------------------
Init ==
  /\ mu = "free" /\ state = "idle" /\ runID = NoRun /\ lastRun = NoRun
  /\ stopPc = [p \in Callers |-> "ready"] /\ stopRun = [p \in Callers |-> NoRun]
  /\ mainPc = "waiting"
  /\ loopPc = [r \in Runs |-> "none"] /\ loopRun = [r \in Runs |-> NoRun]
  /\ stopClosed = {} /\ tickCur = NoRun /\ tickInit = FALSE
  /\ reqPc = [q \in Reqs |-> "none"] /\ reqRun = [q \in Reqs |-> NoRun]
  /\ sem = 0 /\ inFlight = 0 /\ result = [q \in Reqs |-> "none"]
  /\ flushPc = [f \in Flushers |-> "off"] /\ lastFlush = FALSE
  /\ stopped = <<>> /\ leaked = {} /\ carried = FALSE /\ contended = {}

(* A "start" line: the counters and the semaphore are new, and so is the    *)
(* tick loop unless an earlier one has not been stopped.                    *)
Start ==
  /\ Alive /\ stopPc["reader"] = "ready" /\ mu = "free"
  /\ state # "running" /\ lastRun < MaxRuns
  /\ LET r == lastRun + 1 IN
     /\ lastRun' = r /\ state' = "running" /\ runID' = r
     /\ sem' = 0 /\ inFlight' = 0
     /\ carried' = (carried \/ InFlightReqs # {})
     /\ contended' = IF \A f \in {"loop", "main"} : Busy(f) THEN contended \cup {r} ELSE contended
     /\ IF tickInit
        THEN UNCHANGED <<loopPc, tickCur, tickInit>>
        ELSE /\ tickInit' = TRUE /\ tickCur' = r
             /\ loopPc' = [loopPc EXCEPT ![r] = "select"]
  /\ UNCHANGED <<mu, callVars, loopRun, stopClosed, reqPc, reqRun, flushPc, lastFlush, result,
                 stopped, leaked>>

-----------------------------------------------------------------------------
(* Stop's first critical section.  The reader enters it on a "stop" line,   *)
(* main through Shutdown.                                                   *)
StopBegins(p) ==
  /\ stopPc[p] = "ready" /\ mu = "free" /\ state = "running"
  /\ state' = "stopping"
  /\ stopRun' = [stopRun EXCEPT ![p] = runID]
  /\ stopPc' = [stopPc EXCEPT ![p] = "detach"]

ReaderStops ==
  /\ Alive /\ StopBegins("reader")
  /\ UNCHANGED <<mu, runID, lastRun, mainPc, loopVars, reqVars, flushVars, stopped, leaked, carried>>

(* A signal, or the end of stdin: main runs Shutdown.                       *)
MainStops ==
  /\ mainPc = "waiting" /\ StopBegins("main") /\ mainPc' = "stopping"
  /\ UNCHANGED <<mu, runID, lastRun, loopVars, reqVars, flushVars, stopped, leaked, carried>>

MainFindsNothingToStop ==
  /\ mainPc = "waiting" /\ mu = "free" /\ state # "running"
  /\ mainPc' = "closing"
  /\ UNCHANGED <<mu, state, runID, lastRun, stopPc, stopRun, loopVars, reqVars,
                 flushVars, stopped, leaked, carried>>

(* The second critical section closes the tick loop's stop channel and      *)
(* keeps the lock until that loop is over.  Mutant: it does not wait.       *)
DetachWithoutJoin(p) ==
  /\ Alive /\ stopPc[p] = "detach" /\ mu = "free"
  /\ stopClosed' = IF tickInit THEN stopClosed \cup {tickCur} ELSE stopClosed
  /\ tickInit' = FALSE
  /\ stopPc' = [stopPc EXCEPT ![p] = "drain"]
  /\ UNCHANGED <<mu, state, runID, lastRun, stopRun, mainPc, loopPc, loopRun, tickCur,
                 reqVars, flushVars, stopped, leaked, carried>>

Detach(p) ==
  /\ Alive /\ stopPc[p] = "detach" /\ mu = "free"
  /\ IF tickInit
     THEN /\ mu' = p /\ stopPc' = [stopPc EXCEPT ![p] = "join"]
          /\ stopClosed' = stopClosed \cup {tickCur} /\ tickInit' = FALSE
     ELSE /\ stopPc' = [stopPc EXCEPT ![p] = "drain"]
          /\ UNCHANGED <<mu, stopClosed, tickInit>>
  /\ UNCHANGED <<state, runID, lastRun, stopRun, mainPc, loopPc, loopRun, tickCur,
                 reqVars, flushVars, stopped, leaked, carried>>

Join(p) ==
  /\ Alive /\ stopPc[p] = "join" /\ loopPc[tickCur] = "over"
  /\ mu' = "free" /\ stopPc' = [stopPc EXCEPT ![p] = "drain"]
  /\ UNCHANGED <<state, runID, lastRun, stopRun, mainPc, loopVars, reqVars,
                 flushVars, stopped, leaked, carried>>

(* wg.Wait, for DrainTimeout at most.  Mutant: no wait.                      *)
DrainSkipped(p) ==
  /\ Alive /\ stopPc[p] = "drain" /\ stopPc' = [stopPc EXCEPT ![p] = "flush"]
  /\ UNCHANGED <<mu, state, runID, lastRun, stopRun, mainPc, loopVars, reqVars,
                 flushVars, stopped, leaked, carried>>

DrainUnbounded(p) ==
  /\ Alive /\ stopPc[p] = "drain" /\ InFlightReqs = {}
  /\ stopPc' = [stopPc EXCEPT ![p] = "flush"]
  /\ UNCHANGED <<mu, state, runID, lastRun, stopRun, mainPc, loopVars, reqVars,
                 flushVars, stopped, leaked, carried>>

Drained(p) ==
  /\ Alive /\ stopPc[p] = "drain"
  /\ leaked' = IF InFlightReqs = {} THEN leaked ELSE leaked \cup {stopRun[p]}
  /\ stopPc' = [stopPc EXCEPT ![p] = "flush"]
  /\ UNCHANGED <<mu, state, runID, lastRun, stopRun, mainPc, loopVars, reqVars, flushVars, stopped, carried>>

-----------------------------------------------------------------------------
(* flush, of whichever flusher.  Everything queued is folded into the       *)
(* aggregator; everything folded, by whomever, is taken as the batch; the   *)
(* batch is written or, which is the same to what follows here, counted     *)
(* lost.  A flush that finds nothing at all returns, and changes nothing.   *)
Drains(f) ==
  /\ flushPc[f] = "off" /\ flushPc' = [flushPc EXCEPT ![f] = "copy"]
  /\ result' = [q \in Reqs |-> IF result[q] = "queued" THEN "folded" ELSE result[q]]
  /\ contended' = IF \E g \in Flushers \ {f} : Busy(g)
                  THEN contended \cup (1..lastRun \ {stopped[i] : i \in DOMAIN stopped})
                  ELSE contended

StopFlushes(p) ==
  /\ Alive /\ stopPc[p] = "flush" /\ Drains(p)
  /\ UNCHANGED <<mu, state, runID, lastRun, callVars, loopVars, reqPc, reqRun, sem, inFlight,
                 lastFlush, stopped, leaked, carried>>

(* The flush loop's ticker, or, once done is closed, its last flush: its    *)
(* select takes either when both are ready.                                 *)
LoopFlushes ==
  /\ Alive /\ Drains("loop")
  /\ lastFlush' \in (IF mainPc = "flushing" THEN BOOLEAN ELSE {FALSE})
  /\ UNCHANGED <<mu, state, runID, lastRun, callVars, loopVars, reqPc, reqRun, sem, inFlight,
                 stopped, leaked, carried>>

FlushCopies(f) ==
  /\ Alive /\ flushPc[f] = "copy" /\ flushPc' = [flushPc EXCEPT ![f] = "write"]
  /\ result' = [q \in Reqs |-> IF result[q] = "folded" THEN f ELSE result[q]]
  /\ UNCHANGED <<mu, state, runID, lastRun, callVars, loopVars, reqPc, reqRun, sem, inFlight,
                 lastFlush, stopped, leaked, carried, contended>>

FlushWrites(f) ==
  /\ Alive /\ flushPc[f] = "write"
  /\ result' = [q \in Reqs |-> IF result[q] = f THEN "shipped" ELSE result[q]]
  /\ flushPc' = [flushPc EXCEPT ![f] = IF f = "loop" /\ lastFlush THEN "over" ELSE "off"]
  /\ stopPc' = IF f \in Callers THEN [stopPc EXCEPT ![f] = "finish"] ELSE stopPc
  /\ UNCHANGED <<mu, state, runID, lastRun, stopRun, mainPc, loopVars, reqPc, reqRun, sem, inFlight,
                 lastFlush, stopped, leaked, carried, contended>>

(* emitStatus, the last critical section, and the "stopped" line.           *)
StopFinishes(p) ==
  /\ Alive /\ stopPc[p] = "finish" /\ mu = "free"
  /\ state' = "idle" /\ runID' = NoRun
  /\ stopped' = Append(stopped, stopRun[p])
  /\ stopPc' = [stopPc EXCEPT ![p] = "ready"] /\ stopRun' = [stopRun EXCEPT ![p] = NoRun]
  /\ mainPc' = IF p = "main" THEN "closing" ELSE mainPc
  /\ UNCHANGED <<mu, lastRun, loopVars, reqVars, flushVars, leaked, carried>>

(* Shutdown after its Stop: done is closed, and main waits for the flush    *)
(* loop's last flush before it exits, whatever the reader is in.            *)
CloseDone ==
  /\ mainPc = "closing" /\ mainPc' = "flushing"
  /\ UNCHANGED <<mu, state, runID, lastRun, stopPc, stopRun, loopVars, reqVars, flushVars,
                 stopped, leaked, carried>>

Exit ==
  /\ mainPc = "flushing" /\ flushPc["loop"] = "over" /\ mainPc' = "exited"
  /\ UNCHANGED <<mu, state, runID, lastRun, stopPc, stopRun, loopVars, reqVars, flushVars,
                 stopped, leaked, carried>>

-----------------------------------------------------------------------------
(* The tick loop of run l.  Its select takes the ticker or, when closed,    *)
(* the stop channel: either when both are ready.                            *)
TickFires(l) ==
  /\ Alive /\ loopPc[l] = "select" /\ loopPc' = [loopPc EXCEPT ![l] = "lock"]
  /\ UNCHANGED <<mu, state, runID, lastRun, callVars, loopRun, stopClosed, tickCur, tickInit,
                 reqVars, flushVars, stopped, leaked, carried>>

LoopStops(l) ==
  /\ Alive /\ loopPc[l] = "select" /\ l \in stopClosed
  /\ loopPc' = [loopPc EXCEPT ![l] = "over"]
  /\ UNCHANGED <<mu, state, runID, lastRun, callVars, loopRun, stopClosed, tickCur, tickInit,
                 reqVars, flushVars, stopped, leaked, carried>>

(* tick's critical section: the run it will issue for, or the loop's end.   *)
TickReads(l) ==
  /\ Alive /\ loopPc[l] = "lock" /\ mu = "free"
  /\ IF state = "running"
     THEN /\ loopPc' = [loopPc EXCEPT ![l] = "mint"]
          /\ loopRun' = [loopRun EXCEPT ![l] = runID]
     ELSE /\ loopPc' = [loopPc EXCEPT ![l] = "over"]
          /\ UNCHANGED loopRun
  /\ UNCHANGED <<mu, state, runID, lastRun, callVars, stopClosed, tickCur, tickInit,
                 reqVars, flushVars, stopped, leaked, carried>>

(* One token that is due, when the semaphore has room.  Requests are alike: *)
(* the next one is whichever is left.                                       *)
Issue(l, q) ==
  /\ Alive /\ loopPc[l] = "mint" /\ reqPc[q] = "none"
  /\ q = CHOOSE x \in Reqs : reqPc[x] = "none"
  /\ sem < Cap
  /\ sem' = sem + 1 /\ inFlight' = inFlight + 1
  /\ reqPc' = [reqPc EXCEPT ![q] = "build"]
  /\ reqRun' = [reqRun EXCEPT ![q] = loopRun[l]]
  /\ UNCHANGED <<mu, state, runID, lastRun, callVars, loopVars, result, flushVars, stopped, leaked, carried>>

(* The tick is done; what the semaphore refused has been counted as shed.   *)
TickEnds(l) ==
  /\ Alive /\ loopPc[l] = "mint" /\ loopPc' = [loopPc EXCEPT ![l] = "select"]
  /\ loopRun' = [loopRun EXCEPT ![l] = NoRun]
  /\ UNCHANGED <<mu, state, runID, lastRun, callVars, stopClosed, tickCur, tickInit,
                 reqVars, flushVars, stopped, leaked, carried>>

-----------------------------------------------------------------------------
(* execute: reads the targets under w.mu, fires, queues its result or       *)
(* counts it lost, and takes a token out of the w.sem of that moment.       *)
(* Mutant: a way out that forgets the token.                                *)
Build(q) ==
  /\ Alive /\ reqPc[q] = "build" /\ mu = "free"
  /\ reqPc' = [reqPc EXCEPT ![q] = "fire"]
  /\ UNCHANGED <<mu, state, runID, lastRun, callVars, loopVars, reqRun, sem, inFlight, result,
                 flushVars, stopped, leaked, carried>>

Answered(q) ==
  /\ Alive /\ reqPc[q] = "fire"
  /\ reqPc' = [reqPc EXCEPT ![q] = "release"]
  /\ result' = [result EXCEPT ![q] =
                  IF Cardinality(Queued) < ResultChanCap THEN "queued" ELSE "lost"]
  /\ UNCHANGED <<mu, state, runID, lastRun, callVars, loopVars, reqRun, sem, inFlight,
                 flushVars, stopped, leaked, carried>>

ReleaseKeepingSlot(q) ==
  /\ Alive /\ reqPc[q] = "release" /\ sem > 0
  /\ inFlight' = inFlight - 1
  /\ reqPc' = [reqPc EXCEPT ![q] = "gone"]
  /\ UNCHANGED <<mu, state, runID, lastRun, callVars, loopVars, reqRun, sem, result,
                 flushVars, stopped, leaked, carried>>

Release(q) ==
  /\ Alive /\ reqPc[q] = "release" /\ sem > 0
  /\ sem' = sem - 1 /\ inFlight' = inFlight - 1
  /\ reqPc' = [reqPc EXCEPT ![q] = "gone"]
  /\ UNCHANGED <<mu, state, runID, lastRun, callVars, loopVars, reqRun, result,
                 flushVars, stopped, leaked, carried>>

-----------------------------------------------------------------------------
FlushStep(f) == FlushCopies(f) \/ FlushWrites(f)
StopStep(p) ==
  Detach(p) \/ Join(p) \/ Drained(p) \/ StopFlushes(p) \/ FlushStep(p) \/ StopFinishes(p)
LoopStep(l) == LoopStops(l) \/ TickReads(l) \/ TickEnds(l)
Request(q)  == Build(q) \/ Answered(q) \/ Release(q)

Next ==
  \/ Start \/ ReaderStops \/ MainStops \/ MainFindsNothingToStop \/ CloseDone \/ Exit
  \/ \E p \in Callers : StopStep(p)
  \/ \E l \in Runs : LoopStep(l) \/ TickFires(l) \/ \E q \in Reqs : Issue(l, q)
  \/ \E q \in Reqs : Request(q)
  \/ LoopFlushes \/ FlushStep("loop")

(* Go runs every goroutine that can run, and the drain's timer fires.  The  *)
(* gateway need not answer, nobody need send a line or a signal.  A select  *)
(* with two ready cases picks either: the stop case cannot be passed over   *)
(* for ever.                                                                *)
Fairness ==
  /\ \A p \in Callers : WF_vars(StopStep(p))
  /\ \A l \in Runs : /\ WF_vars(TickReads(l) \/ TickEnds(l))
                     /\ SF_vars(LoopStops(l))

Spec == Init /\ [][Next]_vars
FairSpec == Spec /\ Fairness

-----------------------------------------------------------------------------
(* Type invariant.  inFlight may be negative: Release takes from the         *)
(* counter as it is, which a Start may have reset (see SlotsMatch).         *)
TypeOK ==
  /\ mu \in Callers \cup {"free"}
  /\ state \in {"idle", "running", "stopping"} /\ runID \in Runs \cup {NoRun}
  /\ lastRun \in 0..MaxRuns
  /\ stopPc \in [Callers -> {"ready", "detach", "join", "drain", "flush", "finish"}]
  /\ stopRun \in [Callers -> Runs \cup {NoRun}]
  /\ mainPc \in {"waiting", "stopping", "closing", "flushing", "exited"}
  /\ loopPc \in [Runs -> {"none", "select", "lock", "mint", "over"}]
  /\ loopRun \in [Runs -> Runs \cup {NoRun}]
  /\ stopClosed \subseteq Runs /\ tickCur \in Runs \cup {NoRun} /\ tickInit \in BOOLEAN
  /\ reqPc \in [Reqs -> {"none", "build", "fire", "release", "gone"}]
  /\ reqRun \in [Reqs -> Runs \cup {NoRun}]
  /\ sem \in 0..Cap /\ inFlight \in Int
  /\ result \in [Reqs -> {"none", "queued", "folded", "shipped", "lost"} \cup Flushers]
  /\ flushPc \in [Flushers -> {"off", "copy", "write", "over"}] /\ lastFlush \in BOOLEAN
  /\ stopped \in Seq(Runs) /\ leaked \subseteq Runs /\ carried \in BOOLEAN
  /\ contended \subseteq Runs

(* At most one tick loop is alive, whatever the starts and stops and        *)
(* whoever makes them: two would mint every token twice (tickInit, and Stop *)
(* waiting for tickDone).                                                   *)
Ticking(l) == loopPc[l] \in {"select", "lock", "mint"}
OneTickLoop == \A k, l \in Runs : Ticking(k) /\ Ticking(l) => k = l

(* A "stopped" line is the last word on its run, and the only one, with a   *)
(* signal and a stop line at once too: unless the drain timed out, every    *)
(* request of the run has finished by then, and unless two flushes          *)
(* overlapped while the run had not stopped, its result was written or      *)
(* counted lost (Stop: join, drain, flush, and only then stopped).  The     *)
(* second exception is a fact about the code: what the flush loop has       *)
(* drained before Stop's flush begins may be written after "stopped".       *)
StoppedIsComplete ==
  /\ IsInjective(stopped)
  /\ \A q \in Reqs :
    /\ reqRun[q] # NoRun /\ reqRun[q] \notin leaked
    /\ \E i \in DOMAIN stopped : stopped[i] = reqRun[q]
    => /\ reqPc[q] = "gone"
       /\ reqRun[q] \notin contended => result[q] \in {"shipped", "lost"}

(* While no start found an earlier run's request in flight, the semaphore,  *)
(* the InFlight counter and the goroutines there are agree, so the ceiling  *)
(* holds (tick, execute, Start's new semaphore).                            *)
SlotsMatch ==
  ~carried => sem = Cardinality(InFlightReqs) /\ inFlight = sem

(* A Stop returns, with a gateway that never answers too, unless a tick is  *)
(* waiting for the lock under which Stop waits for it: then neither moves   *)
(* again, although driver.ts:50 has "The worker's own stop is bounded".     *)
StopReturnsOrWedges ==
  \A p \in Callers : stopPc[p] # "ready" ~>
    \/ stopPc[p] = "ready" \/ ~Alive
    \/ \E l \in Runs : loopPc[l] = "lock" /\ mu # "free"

=============================================================================
