---------------------------- MODULE WorkerProofs ----------------------------
(***************************************************************************)
(* Proofs about Worker, for every number of runs and requests and every    *)
(* ceiling.                                                                *)
(***************************************************************************)
EXTENDS Worker, FiniteSetTheorems, TLAPS

(* What the tick loops share with Stop.                                     *)
LoopTypes ==
  /\ mu \in Callers \cup {"free"}
  /\ stopPc \in [Callers -> {"ready", "detach", "join", "drain", "flush", "finish"}]
  /\ loopPc \in [Runs -> {"none", "select", "lock", "mint", "over"}]
  /\ tickCur \in Runs \cup {NoRun} /\ tickInit \in BOOLEAN /\ lastRun \in 0..MaxRuns

(* Only the loop whose channels the Worker holds can be alive; when the     *)
(* Worker has let go of it, the Stop that did is waiting for it, with the   *)
(* lock that keeps Start out.                                               *)
LoopInv ==
  /\ LoopTypes
  /\ \A l \in Runs : Ticking(l) => l = tickCur
  /\ tickInit = FALSE /\ mu = "free" => \A l \in Runs : ~Ticking(l)
  /\ \A p \in Callers : stopPc[p] = "join" => mu = p

LEMMA LoopInvInit == Init => LoopInv
<1> SUFFICES ASSUME Init PROVE LoopInv
  OBVIOUS
<1>1. LoopTypes
  <2>1. tickInit \in BOOLEAN
    BY Zenon DEF Init
  <2> QED
    BY <2>1, WorkerAssumption DEF Init, LoopTypes, Callers, NoRun, WorkerAssumption
<1>2. \A l \in Runs : ~Ticking(l)
  BY DEF Init, Ticking
<1> QED
  BY <1>1, <1>2 DEF Init, LoopInv

LEMMA LoopInvNext == LoopInv /\ [Next]_vars => LoopInv'
<1> SUFFICES ASSUME LoopInv, [Next]_vars PROVE LoopInv'
  OBVIOUS
<1> USE WorkerAssumption DEF WorkerAssumption, LoopInv, LoopTypes, Ticking
<1>1. CASE Start
  <2>1. lastRun + 1 \in Runs /\ lastRun' = lastRun + 1 /\ lastRun' \in 0..MaxRuns
    BY <1>1 DEF Start, Runs
  <2>2. CASE tickInit
    BY <1>1, <2>1, <2>2 DEF Start, callVars
  <2>3. CASE ~tickInit
    <3>1. \A l \in Runs : ~Ticking(l)
      BY <1>1, <2>3 DEF Start
    <3>2. tickCur' = lastRun + 1 /\ loopPc' = [loopPc EXCEPT ![lastRun + 1] = "select"]
          /\ tickInit' = TRUE /\ UNCHANGED <<mu, stopPc>>
      BY <1>1, <2>3 DEF Start, callVars
    <3>3. \A l \in Runs : Ticking(l)' => l = tickCur'
      BY <3>1, <3>2, <2>1
    <3> QED
      BY <2>1, <3>2, <3>3
  <2> QED
    BY <2>2, <2>3
<1>2. CASE ReaderStops \/ MainStops
  BY <1>2 DEF ReaderStops, MainStops, StopBegins, loopVars
<1>3. CASE MainFindsNothingToStop \/ CloseDone \/ Exit \/ LoopFlushes
  BY <1>3 DEF MainFindsNothingToStop, CloseDone, Exit, LoopFlushes, loopVars, callVars
<1>4. ASSUME NEW p \in Callers, Detach(p) PROVE LoopInv'
  BY <1>4 DEF Detach, Callers
<1>5. ASSUME NEW p \in Callers, Join(p) PROVE LoopInv'
  BY <1>5 DEF Join, loopVars, Callers
<1>6. ASSUME NEW p \in Callers, Drained(p) \/ StopFlushes(p) \/ StopFinishes(p) PROVE LoopInv'
  BY <1>6 DEF Drained, StopFlushes, StopFinishes, loopVars, callVars
<1>14. ASSUME NEW f \in Flushers, FlushStep(f) PROVE LoopInv'
  BY <1>14 DEF FlushStep, FlushCopies, FlushWrites, loopVars, callVars
<1>7. ASSUME NEW l \in Runs, TickFires(l) PROVE LoopInv'
  BY <1>7 DEF TickFires, callVars
<1>8. ASSUME NEW l \in Runs, LoopStops(l) PROVE LoopInv'
  BY <1>8 DEF LoopStops, callVars
<1>9. ASSUME NEW l \in Runs, TickReads(l) PROVE LoopInv'
  BY <1>9 DEF TickReads, callVars
<1>10. ASSUME NEW l \in Runs, TickEnds(l) PROVE LoopInv'
  BY <1>10 DEF TickEnds, callVars
<1>11. ASSUME NEW l \in Runs, NEW q \in Reqs, Issue(l, q) PROVE LoopInv'
  BY <1>11 DEF Issue, callVars, loopVars
<1>12. ASSUME NEW q \in Reqs, Request(q) PROVE LoopInv'
  BY <1>12 DEF Request, Build, Answered, Release, callVars, loopVars
<1>13. CASE UNCHANGED vars
  BY <1>13 DEF vars, callVars, loopVars
<1> QED
  BY <1>1, <1>2, <1>3, <1>4, <1>5, <1>6, <1>7, <1>8, <1>9, <1>10, <1>11, <1>12, <1>13, <1>14
  DEF Next, StopStep, LoopStep, Flushers

(* At most one tick loop is alive, however many starts and stops there are  *)
(* and whoever makes them.                                                  *)
THEOREM OnlyOneTickLoop == Spec => []OneTickLoop
<1>1. LoopInv => OneTickLoop
  BY DEF LoopInv, OneTickLoop
<1> QED
  BY <1>1, LoopInvInit, LoopInvNext, PTL DEF Spec
-----------------------------------------------------------------------------
(* The steps, one by one, as the proofs below take them.                    *)
Step ==
  \/ Start \/ ReaderStops \/ MainStops \/ MainFindsNothingToStop \/ CloseDone \/ Exit
  \/ LoopFlushes \/ \E f \in Flushers : FlushCopies(f) \/ FlushWrites(f)
  \/ \E p \in Callers :
       Detach(p) \/ Join(p) \/ Drained(p) \/ StopFlushes(p) \/ StopFinishes(p)
  \/ \E l \in Runs :
       \/ LoopStops(l) \/ TickReads(l) \/ TickEnds(l) \/ TickFires(l)
       \/ \E q \in Reqs : Issue(l, q)
  \/ \E q \in Reqs : Build(q) \/ Answered(q) \/ Release(q)

LEMMA NextIsStep == Next => Step
  BY DEF Next, Step, StopStep, FlushStep, LoopStep, Request, Flushers

(* A run that is running is the last one started, a Stop under way knows    *)
(* the run it stops and flushes where it says so, and a tick loop that is   *)
(* held has been started.                                                   *)
RunsInv ==
  /\ state = "running" => runID = lastRun /\ lastRun \in Runs
  /\ \A p \in Callers : stopPc[p] # "ready" => stopRun[p] \in 1..lastRun
  /\ \A p \in Callers : flushPc[p] # "off" => stopPc[p] = "flush"
  /\ tickInit => tickCur \in Runs

TypeInv == TypeOK /\ RunsInv

LEMMA InitTypeInv == Init => TypeInv
<1> SUFFICES ASSUME Init PROVE TypeInv
  OBVIOUS
<1> USE WorkerAssumption DEF WorkerAssumption, Init, Callers, Flushers, NoRun
<1>1. /\ tickInit \in BOOLEAN /\ carried \in BOOLEAN /\ leaked \subseteq Runs /\ stopClosed \subseteq Runs
      /\ mu \in Callers \cup {"free"} /\ lastFlush \in BOOLEAN /\ contended \subseteq Runs
  BY Zenon
<1>2. stopped \in Seq(Runs) /\ inFlight \in Int /\ sem \in 0..Cap /\ lastRun \in 0..MaxRuns
  OBVIOUS
<1> QED
  BY <1>1, <1>2 DEF TypeInv, TypeOK, RunsInv

(* Where a result may be.                                                   *)
Results == {"none", "queued", "folded", "shipped", "lost"} \cup Flushers

LEMMA DrainsTypes ==
  ASSUME TypeInv, NEW f \in Flushers, Drains(f)
  PROVE  /\ result' \in [Reqs -> Results] /\ contended' \subseteq Runs
         /\ flushPc' \in [Flushers -> {"off", "copy", "write", "over"}]
<1>1. 1..lastRun \subseteq Runs
  BY WorkerAssumption DEF Runs, WorkerAssumption, TypeInv, TypeOK
<1> QED
  BY <1>1 DEF Drains, TypeInv, TypeOK, Results

LEMMA NextTypeInv == TypeInv /\ [Next]_vars => TypeInv'
<1> SUFFICES ASSUME TypeInv, Step \/ UNCHANGED vars PROVE TypeInv'
  BY NextIsStep
<1> USE WorkerAssumption DEF WorkerAssumption, TypeInv, TypeOK, RunsInv, Callers, NoRun, Flushers
<1>0. 1..lastRun \subseteq Runs
  BY DEF Runs
<1>1. CASE Start
  <2>1. lastRun + 1 \in Runs /\ lastRun' = lastRun + 1 /\ lastRun' \in 0..MaxRuns
    BY <1>1 DEF Start, Runs
  <2>2. carried' \in BOOLEAN /\ contended' \subseteq Runs
    <3>1. carried' \in BOOLEAN
      BY <1>1, Zenon DEF Start
    <3> QED
      BY <1>1, <2>1, <3>1 DEF Start
  <2>3. /\ loopPc' \in [Runs -> {"none", "select", "lock", "mint", "over"}]
        /\ tickCur' \in Runs \cup {NoRun} /\ tickInit' \in BOOLEAN
        /\ tickInit' => tickCur' \in Runs
    BY <1>1, <2>1 DEF Start
  <2>4. /\ state' = "running" /\ runID' = lastRun + 1 /\ sem' = 0 /\ inFlight' = 0
        /\ UNCHANGED <<mu, stopPc, stopRun, mainPc, loopRun, stopClosed, reqPc, reqRun, result,
                       flushPc, lastFlush, stopped, leaked>>
    BY <1>1 DEF Start, callVars
  <2> QED
    BY <2>1, <2>2, <2>3, <2>4
<1>2. CASE ReaderStops \/ MainStops
  <2>1. PICK p \in Callers : StopBegins(p)
    BY <1>2 DEF ReaderStops, MainStops
  <2>2. mainPc' \in {"waiting", "stopping", "closing", "flushing", "exited"} /\ lastRun \in 1..lastRun
        /\ UNCHANGED <<mu, runID, lastRun, loopVars, reqVars, flushVars, stopped, leaked, carried>>
    BY <1>2, <2>1 DEF ReaderStops, MainStops, StopBegins, Runs
  <2> QED
    BY <2>1, <2>2 DEF StopBegins, loopVars, reqVars, flushVars
<1>3. CASE MainFindsNothingToStop \/ CloseDone \/ Exit
  BY <1>3 DEF MainFindsNothingToStop, CloseDone, Exit, loopVars, reqVars, flushVars
<1>4. CASE LoopFlushes
  <2>1. /\ result' \in [Reqs -> Results] /\ contended' \subseteq Runs
        /\ flushPc' \in [Flushers -> {"off", "copy", "write", "over"}]
        /\ flushPc' = [flushPc EXCEPT !["loop"] = "copy"]
    BY <1>4, DrainsTypes DEF LoopFlushes, Drains
  <2>2. lastFlush' \in BOOLEAN
    BY <1>4 DEF LoopFlushes
  <2> QED
    BY <1>4, <2>1, <2>2 DEF LoopFlushes, Results, loopVars, callVars
<1>15. ASSUME NEW f \in Flushers, FlushCopies(f) \/ FlushWrites(f) PROVE TypeInv'
  <2>1. result' \in [Reqs -> Results]
    BY <1>15 DEF FlushCopies, FlushWrites, Results
  <2>2. CASE FlushCopies(f)
    BY <2>1, <2>2 DEF FlushCopies, Results, loopVars, callVars
  <2>3. CASE FlushWrites(f)
    <3>1. flushPc' \in [Flushers -> {"off", "copy", "write", "over"}]
          /\ stopPc' \in [Callers -> {"ready", "detach", "join", "drain", "flush", "finish"}]
      BY <2>3 DEF FlushWrites
    <3>2. ASSUME NEW p \in Callers
          PROVE  /\ stopPc'[p] # "ready" => stopPc[p] # "ready"
                 /\ flushPc'[p] # "off" => stopPc'[p] = "flush"
      BY <2>3 DEF FlushWrites
    <3> QED
      BY <2>1, <2>3, <3>1, <3>2 DEF FlushWrites, Results, loopVars
  <2> QED
    BY <1>15, <2>2, <2>3
<1>5. ASSUME NEW p \in Callers, Detach(p) PROVE TypeInv'
  <2>1. CASE tickInit
    <3>1. stopClosed' \subseteq Runs /\ tickInit' = FALSE /\ mu' = p
          /\ stopPc' = [stopPc EXCEPT ![p] = "join"]
      BY <1>5, <2>1 DEF Detach
    <3> QED
      BY <1>5, <3>1 DEF Detach, loopVars, reqVars, flushVars
  <2>2. CASE ~tickInit
    BY <1>5, <2>2 DEF Detach, loopVars, reqVars, flushVars
  <2> QED
    BY <2>1, <2>2
<1>6. ASSUME NEW p \in Callers, Join(p) PROVE TypeInv'
  BY <1>6 DEF Join, loopVars, reqVars, flushVars
<1>7. ASSUME NEW p \in Callers, Drained(p) PROVE TypeInv'
  <2>1. leaked' \subseteq Runs
    BY <1>7, <1>0 DEF Drained
  <2> QED
    BY <1>7, <2>1 DEF Drained, loopVars, reqVars, flushVars
<1>8. ASSUME NEW p \in Callers, StopFlushes(p) PROVE TypeInv'
  <2>1. /\ result' \in [Reqs -> Results] /\ contended' \subseteq Runs
        /\ flushPc' \in [Flushers -> {"off", "copy", "write", "over"}]
        /\ flushPc' = [flushPc EXCEPT ![p] = "copy"]
    BY <1>8, DrainsTypes DEF StopFlushes, Drains
  <2> QED
    BY <1>8, <2>1 DEF StopFlushes, Results, loopVars, callVars
<1>9. ASSUME NEW p \in Callers, StopFinishes(p) PROVE TypeInv'
  <2>1. stopRun[p] \in Runs
    BY <1>9, <1>0 DEF StopFinishes
  <2>2. stopped' \in Seq(Runs)
    BY <1>9, <2>1 DEF StopFinishes
  <2> QED
    BY <1>9, <2>2 DEF StopFinishes, loopVars, reqVars, flushVars
<1>10. ASSUME NEW l \in Runs, LoopStops(l) \/ TickReads(l) \/ TickEnds(l) \/ TickFires(l)
       PROVE  TypeInv'
  BY <1>10 DEF LoopStops, TickReads, TickEnds, TickFires, callVars, reqVars, flushVars
<1>11. ASSUME NEW l \in Runs, NEW q \in Reqs, Issue(l, q) PROVE TypeInv'
  BY <1>11 DEF Issue, callVars, loopVars, flushVars
<1>12. ASSUME NEW q \in Reqs, Build(q) \/ Answered(q) PROVE TypeInv'
  <2>1. CASE Build(q)
    BY <2>1 DEF Build, callVars, loopVars, flushVars
  <2>2. CASE Answered(q)
    <3>1. result' \in [Reqs -> Results]
      BY <2>2 DEF Answered, Results
    <3>2. reqPc' \in [Reqs -> {"none", "build", "fire", "release", "gone"}]
      BY <2>2 DEF Answered
    <3> QED
      BY <2>2, <3>1, <3>2 DEF Answered, Results, callVars, loopVars, flushVars
  <2> QED
    BY <1>12, <2>1, <2>2
<1>13. ASSUME NEW q \in Reqs, Release(q) PROVE TypeInv'
  BY <1>13 DEF Release, callVars, loopVars, flushVars
<1>14. CASE UNCHANGED vars
  BY <1>14 DEF vars, callVars, loopVars, reqVars, flushVars
<1> QED
  BY <1>1, <1>2, <1>3, <1>4, <1>5, <1>6, <1>7, <1>8, <1>9, <1>10, <1>11, <1>12, <1>13, <1>14, <1>15 DEF Step

(* Every variable stays in its type, and no "stopped" line names a run that *)
(* was never started.                                                       *)
THEOREM TypeCorrect == Spec => []TypeOK
<1>1. TypeInv => TypeOK
  BY DEF TypeInv
<1> QED
  BY <1>1, InitTypeInv, NextTypeInv, PTL DEF Spec
-----------------------------------------------------------------------------
(* The runs a "stopped" line has named.                                     *)
Said == {stopped[i] : i \in DOMAIN stopped}

(* One more line names one more run, and a run it had not named once.       *)
LEMMA OneMoreLine ==
  ASSUME stopped \in Seq(Runs), NEW r \in Runs, stopped' = Append(stopped, r)
  PROVE  /\ Said' = Said \cup {r}
         /\ IsInjective(stopped) /\ r \notin Said => IsInjective(stopped')
<1>1. /\ DOMAIN stopped = 1..Len(stopped) /\ DOMAIN stopped' = 1..(Len(stopped) + 1)
      /\ stopped'[Len(stopped) + 1] = r /\ Len(stopped) \in Nat
      /\ \A i \in 1..Len(stopped) : stopped'[i] = stopped[i]
  OBVIOUS
<1>2. Said' = Said \cup {r}
  <2>1. ASSUME NEW x \in Said' PROVE x \in Said \cup {r}
    BY <1>1, <2>1 DEF Said
  <2>2. ASSUME NEW x \in Said PROVE x \in Said'
    BY <1>1, <2>2 DEF Said
  <2>3. r \in Said'
    BY <1>1 DEF Said
  <2> QED
    BY <2>1, <2>2, <2>3
<1>3. ASSUME IsInjective(stopped), r \notin Said PROVE IsInjective(stopped')
  <2>1. \A i \in 1..Len(stopped) : stopped[i] # r
    BY <1>1, <1>3 DEF Said
  <2> QED
    BY <1>1, <1>3, <2>1 DEF IsInjective
<1> QED
  BY <1>2, <1>3

(* A run stops once: the one that is running has neither been stopped nor   *)
(* is it being stopped, and the two callers of Stop never stop the same.    *)
StopInv ==
  /\ IsInjective(stopped) /\ Said \subseteq 1..lastRun
  /\ state = "running" => lastRun \notin Said
  /\ \A p \in Callers : stopPc[p] # "ready" =>
       /\ stopRun[p] \notin Said
       /\ state = "running" => stopRun[p] # lastRun
       /\ \A o \in Callers \ {p} : stopPc[o] # "ready" => stopRun[o] # stopRun[p]

LEMMA StopInvInit == Init => StopInv
  BY DEF Init, StopInv, Said, IsInjective

LEMMA StopInvNext == TypeInv /\ StopInv /\ [Next]_vars => StopInv'
<1> SUFFICES ASSUME TypeInv, StopInv, Step \/ UNCHANGED vars PROVE StopInv'
  BY NextIsStep
<1> USE DEF TypeInv, TypeOK, RunsInv, StopInv
<1>1. CASE Start
  <2>1. /\ lastRun' = lastRun + 1 /\ lastRun \in Nat
        /\ UNCHANGED <<stopPc, stopRun, stopped>> /\ Said' = Said
    BY <1>1, WorkerAssumption DEF Start, callVars, Said, WorkerAssumption
  <2>2. lastRun + 1 \notin Said /\ \A p \in Callers : stopPc[p] # "ready" => stopRun[p] # lastRun + 1
    BY <2>1
  <2> QED
    BY <2>1, <2>2
<1>2. ASSUME NEW p \in Callers, StopBegins(p), UNCHANGED <<lastRun, stopped>> PROVE StopInv'
  <2>1. Said' = Said /\ state' = "stopping"
    BY <1>2 DEF StopBegins, Said
  <2>2. stopRun' = [stopRun EXCEPT ![p] = lastRun] /\ stopPc' = [stopPc EXCEPT ![p] = "detach"]
        /\ state = "running"
    BY <1>2 DEF StopBegins
  <2>3. ASSUME NEW o \in Callers, stopPc'[o] # "ready"
        PROVE  /\ stopRun'[o] \notin Said
               /\ \A c \in Callers \ {o} : stopPc'[c] # "ready" => stopRun'[c] # stopRun'[o]
    BY <2>2, <2>3
  <2> QED
    BY <1>2, <2>1, <2>3
<1>3. ASSUME NEW p \in Callers, StopFinishes(p) PROVE StopInv'
  <2>1. stopRun[p] \in 1..lastRun /\ stopRun[p] \in Runs /\ stopRun[p] \notin Said
    BY <1>3, WorkerAssumption DEF StopFinishes, Runs, WorkerAssumption
  <2>2. Said' = Said \cup {stopRun[p]} /\ IsInjective(stopped')
    BY <1>3, <2>1, OneMoreLine DEF StopFinishes
  <2>3. /\ lastRun' = lastRun /\ state' = "idle" /\ stopPc' = [stopPc EXCEPT ![p] = "ready"]
        /\ stopRun' = [stopRun EXCEPT ![p] = NoRun]
    BY <1>3 DEF StopFinishes
  <2>4. ASSUME NEW o \in Callers, stopPc'[o] # "ready"
        PROVE  /\ stopRun'[o] \notin Said'
               /\ \A c \in Callers \ {o} : stopPc'[c] # "ready" => stopRun'[c] # stopRun'[o]
    <3>1. o # p /\ stopPc[o] # "ready" /\ stopPc[p] # "ready"
      BY <1>3, <2>3, <2>4 DEF StopFinishes
    <3> QED
      BY <2>2, <2>3, <3>1
  <2> QED
    BY <2>1, <2>2, <2>3, <2>4
<1>4. ASSUME UNCHANGED <<lastRun, stopRun, stopped, state>>,
             \A p \in Callers : stopPc'[p] # "ready" => stopPc[p] # "ready"
      PROVE  StopInv'
  BY <1>4 DEF Said
<1>5. ASSUME NEW p \in Callers, Detach(p) \/ Join(p) \/ Drained(p) \/ StopFlushes(p) PROVE StopInv'
  <2>1. UNCHANGED <<lastRun, stopRun, stopped, state>> /\ stopPc[p] # "ready"
    BY <1>5 DEF Detach, Join, Drained, StopFlushes, callVars
  <2>2. \A o \in Callers : o # p => stopPc'[o] = stopPc[o]
    BY <1>5 DEF Detach, Join, Drained, StopFlushes, callVars
  <2> QED
    BY <1>4, <2>1, <2>2
<1>6. CASE MainFindsNothingToStop \/ CloseDone \/ Exit \/ LoopFlushes
  BY <1>4, <1>6 DEF MainFindsNothingToStop, CloseDone, Exit, LoopFlushes, callVars
<1>7. ASSUME NEW l \in Runs, LoopStops(l) \/ TickReads(l) \/ TickEnds(l) \/ TickFires(l)
      PROVE  StopInv'
  BY <1>4, <1>7 DEF LoopStops, TickReads, TickEnds, TickFires, callVars
<1>8. ASSUME NEW l \in Runs, NEW q \in Reqs, Issue(l, q) PROVE StopInv'
  BY <1>4, <1>8 DEF Issue, callVars
<1>9. ASSUME NEW q \in Reqs, Build(q) \/ Answered(q) \/ Release(q) PROVE StopInv'
  BY <1>4, <1>9 DEF Build, Answered, Release, callVars
<1>10. CASE UNCHANGED vars
  BY <1>4, <1>10 DEF vars, callVars
<1>11. CASE ReaderStops \/ MainStops
  BY <1>2, <1>11 DEF ReaderStops, MainStops, Callers
<1>12. ASSUME NEW f \in Flushers, FlushCopies(f) \/ FlushWrites(f) PROVE StopInv'
  BY <1>4, <1>12 DEF FlushCopies, FlushWrites, callVars
<1> QED
  BY <1>1, <1>3, <1>5, <1>6, <1>7, <1>8, <1>9, <1>10, <1>11, <1>12 DEF Step
-----------------------------------------------------------------------------
(* A Stop that has waited for the tick loop is past every tick of its run:  *)
(* a tick that can still issue is of another run, stopped by nobody.        *)
Joined(p) == stopPc[p] \in {"drain", "flush", "finish"}
MintInv ==
  \A l \in Runs : loopPc[l] = "mint" =>
    /\ loopRun[l] \in 1..lastRun /\ loopRun[l] \notin Said
    /\ \A p \in Callers : Joined(p) => stopRun[p] # loopRun[l]

LEMMA MintInvInit == Init => MintInv
  BY DEF Init, MintInv

LEMMA MintInvNext == TypeInv /\ LoopInv /\ StopInv /\ MintInv /\ [Next]_vars => MintInv'
<1> SUFFICES ASSUME TypeInv, LoopInv, StopInv, MintInv, Step \/ UNCHANGED vars PROVE MintInv'
  BY NextIsStep
<1> USE DEF TypeInv, TypeOK, RunsInv, MintInv, Joined
<1>0. 1..lastRun \subseteq Runs
  BY WorkerAssumption DEF Runs, WorkerAssumption
<1>1. CASE Start
  <2>1. /\ lastRun' = lastRun + 1 /\ lastRun \in Nat
        /\ UNCHANGED <<stopPc, stopRun, stopped, loopRun>> /\ Said' = Said
        /\ \A l \in Runs : loopPc'[l] = "mint" => loopPc[l] = "mint"
    BY <1>1, WorkerAssumption DEF Start, callVars, Said, WorkerAssumption
  <2> QED
    BY <2>1
<1>2. ASSUME NEW p \in Callers, StopBegins(p), UNCHANGED <<lastRun, stopped, loopPc, loopRun>>
      PROVE  MintInv'
  <2>1. Said' = Said /\ \A o \in Callers : Joined(o)' => Joined(o) /\ stopRun'[o] = stopRun[o]
    BY <1>2 DEF StopBegins, Said
  <2> QED
    BY <1>2, <2>1
<1>3. ASSUME NEW p \in Callers, StopFinishes(p) PROVE MintInv'
  <2>1. Said' = Said \cup {stopRun[p]}
    BY <1>0, <1>3, OneMoreLine DEF StopFinishes
  <2>2. UNCHANGED <<lastRun, loopPc, loopRun>> /\ Joined(p)
        /\ \A o \in Callers : Joined(o)' => Joined(o) /\ stopRun'[o] = stopRun[o]
    BY <1>3 DEF StopFinishes, loopVars
  <2> QED
    BY <2>1, <2>2
<1>4. ASSUME UNCHANGED <<lastRun, stopRun, stopped, loopRun>>,
             \A p \in Callers : Joined(p)' => Joined(p),
             \A l \in Runs : loopPc'[l] = "mint" => loopPc[l] = "mint"
      PROVE  MintInv'
  BY <1>4 DEF Said
<1>5. ASSUME \A l \in Runs : loopPc'[l] # "mint" PROVE MintInv'
  BY <1>5
<1>6. ASSUME NEW p \in Callers, Detach(p) PROVE MintInv'
  <2>1. CASE tickInit
    BY <1>4, <1>6, <2>1 DEF Detach
  <2>2. CASE ~tickInit
    BY <1>5, <1>6, <2>2 DEF Detach, LoopInv, Ticking
  <2> QED
    BY <2>1, <2>2
<1>7. ASSUME NEW p \in Callers, Join(p) PROVE MintInv'
  BY <1>5, <1>7 DEF Join, LoopInv, Ticking, loopVars
<1>8. ASSUME NEW p \in Callers, Drained(p) \/ StopFlushes(p) PROVE MintInv'
  BY <1>4, <1>8 DEF Drained, StopFlushes, loopVars, callVars
<1>16. ASSUME NEW f \in Flushers, FlushCopies(f) \/ FlushWrites(f) PROVE MintInv'
  BY <1>4, <1>16 DEF FlushCopies, FlushWrites, loopVars, callVars
<1>9. CASE MainFindsNothingToStop \/ CloseDone \/ Exit \/ LoopFlushes
  BY <1>4, <1>9 DEF MainFindsNothingToStop, CloseDone, Exit, LoopFlushes, callVars, loopVars
<1>10. ASSUME NEW l \in Runs, LoopStops(l) \/ TickFires(l) PROVE MintInv'
  BY <1>4, <1>10 DEF LoopStops, TickFires, callVars
<1>17. ASSUME NEW l \in Runs, TickEnds(l) PROVE MintInv'
  <2>1. UNCHANGED <<lastRun, stopPc, stopRun, stopped>> /\ Said' = Said
        /\ \A k \in Runs : loopPc'[k] = "mint" => loopPc[k] = "mint" /\ loopRun'[k] = loopRun[k]
    BY <1>17 DEF TickEnds, callVars, Said
  <2> QED
    BY <2>1
<1>11. ASSUME NEW l \in Runs, TickReads(l) PROVE MintInv'
  <2>1. CASE state = "running"
    <3>1. UNCHANGED <<lastRun, stopPc, stopRun, stopped>> /\ Said' = Said
          /\ loopPc' = [loopPc EXCEPT ![l] = "mint"] /\ loopRun' = [loopRun EXCEPT ![l] = lastRun]
      BY <1>11, <2>1 DEF TickReads, callVars, Said
    <3>2. lastRun \in 1..lastRun /\ lastRun \notin Said
          /\ \A p \in Callers : stopPc[p] # "ready" => stopRun[p] # lastRun
      BY <2>1 DEF StopInv, Runs
    <3> QED
      BY <3>1, <3>2
  <2>2. CASE state # "running"
    BY <1>4, <1>11, <2>2 DEF TickReads, callVars
  <2> QED
    BY <2>1, <2>2
<1>12. ASSUME NEW l \in Runs, NEW q \in Reqs, Issue(l, q) PROVE MintInv'
  BY <1>4, <1>12 DEF Issue, callVars, loopVars
<1>13. ASSUME NEW q \in Reqs, Build(q) \/ Answered(q) \/ Release(q) PROVE MintInv'
  BY <1>4, <1>13 DEF Build, Answered, Release, callVars, loopVars
<1>14. CASE UNCHANGED vars
  BY <1>4, <1>14 DEF vars, callVars, loopVars
<1>15. CASE ReaderStops \/ MainStops
  BY <1>2, <1>15 DEF ReaderStops, MainStops, Callers, loopVars
<1> QED
  BY <1>1, <1>3, <1>6, <1>7, <1>8, <1>9, <1>10, <1>11, <1>12, <1>13, <1>14, <1>15, <1>16, <1>17 DEF Step
-----------------------------------------------------------------------------
(* What the drain and the flush have established about a run, unless the    *)
(* drain timed out, and a "stopped" line passes on.                         *)
Settled(r) == \A q \in Reqs : reqRun[q] = r => reqPc[q] = "gone"
Within(r, places) == \A q \in Reqs : reqRun[q] = r => result[q] \in places
Done == {"shipped", "lost"}

(* Where the results of the run that p stops are, in p's flush and after it.*)
Alone(p) == \A g \in Flushers \ {p} : ~Busy(g)
FlushInv(p) ==
  /\ Busy(p) => Alone(p)
  /\ flushPc[p] = "copy" => Within(stopRun[p], Done \cup {"folded"})
  /\ flushPc[p] = "write" => Within(stopRun[p], Done \cup {p})
  /\ stopPc[p] = "finish" => Within(stopRun[p], Done)

RequestInv ==
  /\ \A q \in Reqs :
       /\ reqPc[q] = "none" <=> reqRun[q] = NoRun
       /\ reqPc[q] \in {"release", "gone"} => result[q] # "none"
       /\ result[q] \in Flushers => flushPc[result[q]] = "write"
  /\ \A p \in Callers : stopRun[p] \notin leaked =>
       /\ stopPc[p] \in {"flush", "finish"} => Settled(stopRun[p])
       /\ stopPc[p] # "ready" /\ stopRun[p] \notin contended => FlushInv(p)
  /\ \A r \in Said \ leaked : Settled(r) /\ (r \notin contended => Within(r, Done))

LEMMA RequestInvInit == Init => RequestInv
<1> SUFFICES ASSUME Init PROVE RequestInv
  OBVIOUS
<1>1. \A q \in Reqs : reqPc[q] = "none" /\ reqRun[q] = NoRun /\ result[q] = "none"
  BY DEF Init
<1>2. \A p \in Callers : stopPc[p] = "ready"
  BY DEF Init
<1>3. Said = {}
  BY DEF Init, Said
<1> QED
  BY <1>1, <1>2, <1>3 DEF RequestInv, Flushers, Callers

(* A step of a flush moves results towards their end, and whoever's flush   *)
(* is alone stays so, or its run is contended.                              *)
LEMMA FlushSteps ==
  ASSUME TypeInv, StopInv, RequestInv, NEW f \in Flushers,
         \/ Drains(f) /\ UNCHANGED <<stopPc, stopRun, stopped, reqPc, reqRun, leaked>>
                      /\ (f \in Callers => stopPc[f] = "flush")
         \/ FlushCopies(f) \/ FlushWrites(f)
  PROVE  RequestInv'
<1> USE DEF TypeInv, TypeOK, RunsInv, Callers, Flushers, NoRun
<1>1. /\ UNCHANGED <<stopRun, stopped, reqPc, reqRun, leaked>> /\ Said' = Said
      /\ contended \subseteq contended'
      /\ \A g \in Flushers \ {f} : flushPc'[g] = flushPc[g]
      /\ \A p \in Callers : /\ p # f => stopPc'[p] = stopPc[p]
                            /\ stopPc'[p] # "ready" => stopPc[p] # "ready"
                            /\ stopPc'[p] \in {"flush", "finish"} => stopPc[p] \in {"flush", "finish"}
  BY DEF Drains, FlushCopies, FlushWrites, Said, callVars
<1>2. \A q \in Reqs : /\ result[q] \in Done => result'[q] = result[q]
                      /\ result[q] # "none" => result'[q] # "none"
  BY DEF Drains, FlushCopies, FlushWrites, Done
<1>3. \A q \in Reqs : result'[q] \in Flushers => flushPc'[result'[q]] = "write"
  <2> USE DEF RequestInv
  <2>1. CASE Drains(f)
    BY <2>1 DEF Drains
  <2>2. CASE FlushCopies(f)
    BY <2>2 DEF FlushCopies
  <2>3. CASE FlushWrites(f)
    BY <2>3 DEF FlushWrites
  <2> QED
    BY <2>1, <2>2, <2>3
<1>4. \A r : /\ Settled(r) => Settled(r)'
             /\ Within(r, Done) => Within(r, Done)'
  BY <1>1, <1>2 DEF Settled, Within
<1>5. ASSUME NEW p \in Callers, p # f, stopPc'[p] # "ready",
             stopRun'[p] \notin leaked', stopRun'[p] \notin contended'
      PROVE  FlushInv(p)'
  <2>1. stopRun[p] \in 1..lastRun \ Said /\ FlushInv(p)
    BY <1>1, <1>5 DEF RequestInv, StopInv
  <2>2. CASE Busy(p)
    <3>1. flushPc[f] # "copy" /\ flushPc[f] # "write"
      BY <1>5, <2>1, <2>2 DEF FlushInv, Alone, Busy
    <3>2. Drains(f)
      BY <3>1 DEF FlushCopies, FlushWrites
    <3>3. stopRun[p] \in contended'
      BY <1>5, <2>1, <2>2, <3>2 DEF Drains, Said
    <3> QED
      BY <1>1, <1>5, <3>3
  <2>3. CASE ~Busy(p)
    BY <1>1, <1>4, <1>5, <2>1, <2>3 DEF FlushInv, Busy
  <2> QED
    BY <2>2, <2>3
<1>6. ASSUME f \in Callers, stopPc'[f] # "ready",
             stopRun'[f] \notin leaked', stopRun'[f] \notin contended'
      PROVE  FlushInv(f)'
  <2>1. stopRun[f] \in 1..lastRun \ Said /\ stopRun[f] # NoRun /\ FlushInv(f)
    BY <1>1, <1>6 DEF RequestInv, StopInv
  <2>2. stopPc[f] = "flush" /\ Settled(stopRun[f])
    BY <1>1, <1>6 DEF RequestInv, FlushCopies, FlushWrites
  <2>3. CASE Drains(f)
    <3>1. \A g \in Flushers \ {f} : ~Busy(g)
      BY <1>1, <1>6, <2>1, <2>3 DEF Drains, Said
    <3>2. ASSUME NEW q \in Reqs, reqRun[q] = stopRun[f]
          PROVE  result'[q] \in Done \cup {"folded"}
      <4>1. result[q] \in {"queued", "folded", "shipped", "lost"}
        <5>1. result[q] # "none"
          BY <2>2, <3>2 DEF RequestInv, Settled
        <5>2. result[q] \notin Flushers
          BY <2>3, <3>1 DEF RequestInv, Busy, Drains
        <5> QED
          BY <5>1, <5>2
      <4> QED
        BY <2>3, <4>1 DEF Drains, Done
    <3>3. flushPc'[f] = "copy" /\ stopPc'[f] = "flush" /\ Alone(f)'
      BY <1>1, <2>2, <2>3, <3>1 DEF Drains, Alone, Busy, FlushCopies, FlushWrites
    <3> QED
      BY <1>1, <3>2, <3>3 DEF FlushInv, Within
  <2>4. CASE FlushCopies(f)
    <3>1. /\ Alone(f) /\ Within(stopRun[f], Done \cup {"folded"})
          /\ flushPc'[f] = "write" /\ stopPc'[f] = "flush"
      BY <2>1, <2>2, <2>4 DEF FlushInv, FlushCopies, Busy, callVars
    <3>2. Alone(f)' /\ Within(stopRun[f], Done \cup {f})'
      BY <1>1, <2>4, <3>1 DEF FlushCopies, Alone, Busy, Within, Done
    <3> QED
      BY <1>1, <3>1, <3>2 DEF FlushInv, Within
  <2>5. CASE FlushWrites(f)
    <3>1. Within(stopRun[f], Done \cup {f}) /\ flushPc'[f] = "off" /\ stopPc'[f] = "finish"
      BY <1>6, <2>1, <2>5 DEF FlushInv, FlushWrites
    <3>2. Within(stopRun[f], Done)'
      BY <1>1, <2>5, <3>1 DEF FlushWrites, Within, Done
    <3> QED
      BY <1>1, <3>1, <3>2 DEF FlushInv, Busy, Within
  <2> QED
    BY <2>3, <2>4, <2>5
<1> QED
  BY <1>1, <1>2, <1>3, <1>4, <1>5, <1>6 DEF RequestInv

LEMMA RequestInvNext ==
  TypeInv /\ StopInv /\ MintInv /\ RequestInv /\ [Next]_vars => RequestInv'
<1> SUFFICES ASSUME TypeInv, StopInv, MintInv, RequestInv, Step \/ UNCHANGED vars
             PROVE  RequestInv'
  BY NextIsStep
<1> USE DEF TypeInv, TypeOK
<1>0. 1..lastRun \subseteq Runs
  BY WorkerAssumption DEF Runs, WorkerAssumption, TypeInv, TypeOK
<1>1. ASSUME UNCHANGED <<flushPc, stopped, reqPc, reqRun, result>>,
             leaked \subseteq leaked', contended \subseteq contended',
             \A p \in Callers :
               /\ stopPc'[p] # "ready" /\ stopPc[p] # "ready" => stopRun'[p] = stopRun[p]
               /\ stopPc'[p] # "ready" /\ stopPc[p] = "ready" => stopPc'[p] = "detach"
               /\ stopPc'[p] = "finish" => stopPc[p] = "finish"
               /\ stopPc'[p] = "flush" /\ stopPc[p] # "flush" /\ stopRun[p] \notin leaked'
                  => Settled(stopRun[p])
      PROVE  RequestInv'
  <2>1. Said' = Said /\ \A r : Settled(r)' = Settled(r)
        /\ \A S : Within(r, S)' = Within(r, S)
    BY <1>1 DEF Said, Settled, Within
  <2>2. ASSUME NEW p \in Callers, stopRun'[p] \notin leaked', stopPc'[p] \in {"flush", "finish"}
        PROVE  Settled(stopRun[p]) /\ stopRun'[p] = stopRun[p]
    BY <1>1, <2>2 DEF RequestInv
  <2>3. ASSUME NEW p \in Callers, stopPc'[p] # "ready", stopRun'[p] \notin leaked',
               stopRun'[p] \notin contended'
        PROVE  FlushInv(p)'
    <3>1. CASE stopPc[p] = "ready"
      BY <1>1, <2>3, <3>1 DEF RunsInv, FlushInv, Busy
    <3>2. CASE stopPc[p] # "ready"
      <4>1. FlushInv(p) /\ stopRun'[p] = stopRun[p]
        BY <1>1, <2>3, <3>2 DEF RequestInv
      <4> QED
        BY <1>1, <2>1, <4>1 DEF FlushInv, Busy, Alone
    <3> QED
      BY <3>1, <3>2
  <2> QED
    BY <1>1, <2>1, <2>2, <2>3 DEF RequestInv
<1>2. CASE Start
  BY <1>1, <1>2 DEF Start, callVars
<1>3. ASSUME NEW p \in Callers, StopBegins(p),
             UNCHANGED <<flushPc, stopped, reqPc, reqRun, result, leaked, contended>>
      PROVE  RequestInv'
  <2>1. stopPc[p] = "ready" /\ stopPc' = [stopPc EXCEPT ![p] = "detach"]
        /\ \A o \in Callers \ {p} : stopRun'[o] = stopRun[o] /\ stopPc'[o] = stopPc[o]
    BY <1>3 DEF StopBegins
  <2>2. stopPc'[p] = "detach"
    BY <2>1
  <2> QED
    BY <1>1, <1>3, <2>1, <2>2
<1>4. CASE ReaderStops \/ MainStops
  BY <1>3, <1>4 DEF ReaderStops, MainStops, Callers, reqVars, flushVars
<1>5. ASSUME NEW p \in Callers, Detach(p) \/ Join(p) PROVE RequestInv'
  BY <1>1, <1>5 DEF Detach, Join, reqVars, flushVars
<1>6. ASSUME NEW p \in Callers, Drained(p) PROVE RequestInv'
  <2>1. UNCHANGED <<stopRun, stopped, reqPc, reqRun, result, flushPc, contended>>
        /\ leaked \subseteq leaked' /\ stopPc[p] = "drain" /\ stopPc' = [stopPc EXCEPT ![p] = "flush"]
    BY <1>6 DEF Drained, reqVars, flushVars
  <2>2. stopRun[p] \notin leaked' => Settled(stopRun[p])
    <3>1. SUFFICES ASSUME stopRun[p] \notin leaked', NEW q \in Reqs, reqRun[q] = stopRun[p]
                   PROVE  reqPc[q] = "gone"
      BY DEF Settled
    <3>2. InFlightReqs = {} /\ stopRun[p] \in 1..lastRun
      BY <1>6, <3>1 DEF Drained, RunsInv
    <3> QED
      BY <3>1, <3>2 DEF InFlightReqs, NoRun, RequestInv
  <2> QED
    BY <1>1, <2>1, <2>2
<1>7. ASSUME NEW p \in Callers, StopFlushes(p) PROVE RequestInv'
  BY <1>7, FlushSteps DEF StopFlushes, Flushers, callVars
<1>8. CASE LoopFlushes
  BY <1>8, FlushSteps DEF LoopFlushes, Flushers, Callers, callVars
<1>10. ASSUME NEW f \in Flushers, FlushCopies(f) \/ FlushWrites(f) PROVE RequestInv'
  BY <1>10, FlushSteps
<1>9. ASSUME NEW p \in Callers, StopFinishes(p) PROVE RequestInv'
  <2>1. UNCHANGED <<reqPc, reqRun, result, flushPc, leaked, contended>> /\ stopPc[p] = "finish"
        /\ stopPc' = [stopPc EXCEPT ![p] = "ready"] /\ stopRun' = [stopRun EXCEPT ![p] = NoRun]
    BY <1>9 DEF StopFinishes, reqVars, flushVars
  <2>2. Said' = Said \cup {stopRun[p]}
    BY <1>0, <1>9, OneMoreLine DEF StopFinishes, RunsInv
  <2>3. \A r : Settled(r)' = Settled(r) /\ \A S : Within(r, S)' = Within(r, S)
    BY <2>1 DEF Settled, Within
  <2>4. stopRun[p] \notin leaked =>
          Settled(stopRun[p]) /\ (stopRun[p] \notin contended => Within(stopRun[p], Done))
    BY <2>1 DEF RequestInv, FlushInv
  <2>5. \A o \in Callers : stopPc'[o] # "ready" =>
          /\ stopPc'[o] = stopPc[o] /\ stopRun'[o] = stopRun[o]
          /\ FlushInv(o) => FlushInv(o)'
    BY <2>1, <2>3 DEF FlushInv, Busy, Alone
  <2> QED
    BY <2>1, <2>2, <2>3, <2>4, <2>5 DEF RequestInv
<1>11. CASE MainFindsNothingToStop \/ CloseDone \/ Exit
  BY <1>1, <1>11 DEF MainFindsNothingToStop, CloseDone, Exit, reqVars, flushVars
<1>12. ASSUME NEW l \in Runs, LoopStops(l) \/ TickReads(l) \/ TickEnds(l) \/ TickFires(l)
       PROVE  RequestInv'
  BY <1>1, <1>12 DEF LoopStops, TickReads, TickEnds, TickFires, callVars, reqVars, flushVars
<1>13. ASSUME NEW l \in Runs, NEW q \in Reqs, Issue(l, q) PROVE RequestInv'
  <2>1. UNCHANGED <<stopPc, stopRun, stopped, result, leaked, flushPc, contended>>
        /\ reqPc[q] = "none"
        /\ reqPc' = [reqPc EXCEPT ![q] = "build"] /\ reqRun' = [reqRun EXCEPT ![q] = loopRun[l]]
    BY <1>13 DEF Issue, callVars, flushVars
  <2>2. /\ loopRun[l] \in 1..lastRun /\ loopRun[l] \notin Said
        /\ \A p \in Callers : stopPc[p] \in {"flush", "finish"} => stopRun[p] # loopRun[l]
    BY <1>13 DEF Issue, MintInv, Joined
  <2>3. ASSUME NEW r, r # loopRun[l]
        PROVE  (Settled(r) => Settled(r)') /\ \A S : (Within(r, S) => Within(r, S)')
    BY <2>1, <2>3 DEF Settled, Within
  <2>4. \A c \in Reqs : /\ reqPc'[c] = "none" <=> reqRun'[c] = NoRun
                        /\ reqPc'[c] \in {"release", "gone"} => result'[c] # "none"
                        /\ result'[c] \in Flushers => flushPc'[result'[c]] = "write"
    BY <2>1, <2>2 DEF NoRun, RequestInv
  <2>5. \A p \in Callers : FlushInv(p) => FlushInv(p)'
    <3>1. \A p \in Callers : flushPc[p] # "off" \/ stopPc[p] = "finish" => stopRun[p] # loopRun[l]
      BY <2>2 DEF RunsInv
    <3> QED
      BY <2>1, <2>3, <3>1 DEF FlushInv, Busy, Alone
  <2>6. Said' = Said
    BY <2>1 DEF Said
  <2>7. \A r \in Said : r # loopRun[l]
    BY <2>2
  <2> QED
    BY <2>1, <2>2, <2>3, <2>4, <2>5, <2>6, <2>7 DEF RequestInv
<1>14. ASSUME NEW q \in Reqs, Build(q) \/ Answered(q) PROVE RequestInv'
  <2>1. UNCHANGED <<stopPc, stopRun, stopped, reqRun, leaked, flushPc, contended>>
        /\ reqPc[q] \in {"build", "fire"} /\ reqPc'[q] # "none"
        /\ \A c \in Reqs \ {q} : reqPc'[c] = reqPc[c] /\ result'[c] = result[c]
    BY <1>14 DEF Build, Answered, callVars, flushVars
  <2>2. reqPc'[q] \in {"release", "gone"} => result'[q] # "none"
    BY <1>14 DEF Build, Answered
  <2>3. result'[q] \in Flushers => flushPc'[result'[q]] = "write"
    BY <1>14, <2>1 DEF Build, Answered, RequestInv, Flushers, Callers
  <2>4. ASSUME NEW r, Settled(r)
        PROVE  Settled(r)' /\ \A S : (Within(r, S) => Within(r, S)')
    BY <2>1, <2>4 DEF Settled, Within
  <2>5. \A p \in Callers : Settled(stopRun[p]) /\ FlushInv(p) => FlushInv(p)'
    BY <2>1, <2>4 DEF FlushInv, Busy, Alone
  <2>6. \A p \in Callers : stopPc[p] # "ready" /\ ~Busy(p) /\ stopPc[p] # "finish" => FlushInv(p)'
    BY <2>1 DEF FlushInv, Busy
  <2>7. \A p \in Callers : Busy(p) => stopPc[p] = "flush"
    BY DEF RunsInv, Busy
  <2> QED
    BY <2>1, <2>2, <2>3, <2>4, <2>5, <2>6, <2>7 DEF RequestInv, Said
<1>15. ASSUME NEW q \in Reqs, Release(q) PROVE RequestInv'
  <2>1. UNCHANGED <<stopPc, stopRun, stopped, reqRun, result, leaked, flushPc, contended>>
        /\ reqPc[q] = "release" /\ reqPc' = [reqPc EXCEPT ![q] = "gone"]
    BY <1>15 DEF Release, callVars, flushVars
  <2>2. \A r : (Settled(r) => Settled(r)') /\ \A S : Within(r, S)' = Within(r, S)
    BY <2>1 DEF Settled, Within
  <2>3. \A p \in Callers : FlushInv(p) => FlushInv(p)'
    BY <2>1, <2>2 DEF FlushInv, Busy, Alone
  <2> QED
    BY <2>1, <2>2, <2>3 DEF RequestInv, Said
<1>16. CASE UNCHANGED vars
  BY <1>1, <1>16 DEF vars, callVars, reqVars, flushVars
<1> QED
  BY <1>2, <1>4, <1>5, <1>6, <1>7, <1>8, <1>9, <1>10, <1>11, <1>12, <1>13, <1>14, <1>15, <1>16 DEF Step

(* A "stopped" line is the last word on its run, and the only one, with     *)
(* however many starts and both callers of Stop at once: unless its drain   *)
(* timed out, every request of the run has finished (Stop's join and        *)
(* drain), and unless another flush overlapped one while the run had not    *)
(* stopped, its result was written or counted lost (Stop's flush).          *)
THEOREM StoppedIsTheLastWord == Spec => []StoppedIsComplete
<1> DEFINE Inv == TypeInv /\ LoopInv /\ StopInv /\ MintInv /\ RequestInv
<1>1. Inv => StoppedIsComplete
  BY DEF StopInv, RequestInv, Settled, Within, Done, Said, StoppedIsComplete
<1>2. Init => Inv
  BY InitTypeInv, LoopInvInit, StopInvInit, MintInvInit, RequestInvInit
<1>3. Inv /\ [Next]_vars => Inv'
  BY NextTypeInv, LoopInvNext, StopInvNext, MintInvNext, RequestInvNext
<1> QED
  BY <1>1, <1>2, <1>3, PTL DEF Spec
-----------------------------------------------------------------------------
LEMMA InFlightIsFinite == IsFiniteSet(InFlightReqs) /\ Cardinality(InFlightReqs) \in Nat
<1>1. IsFiniteSet(Reqs)
  BY WorkerAssumption DEF WorkerAssumption
<1>2. InFlightReqs \in SUBSET Reqs
  BY DEF InFlightReqs
<1>3. IsFiniteSet(InFlightReqs)
  BY <1>1, <1>2, FS_Subset
<1> QED
  BY <1>3, FS_CardinalityType

LEMMA SlotsMatchNext == TypeInv /\ SlotsMatch /\ [Next]_vars => SlotsMatch'
<1> SUFFICES ASSUME TypeInv, SlotsMatch, Step \/ UNCHANGED vars PROVE SlotsMatch'
  BY NextIsStep
<1> USE DEF SlotsMatch
<1>0. /\ reqPc \in [Reqs -> {"none", "build", "fire", "release", "gone"}]
      /\ sem \in Int /\ inFlight \in Int
  BY WorkerAssumption DEF TypeInv, TypeOK, WorkerAssumption
<1>1. CASE Start
  <2>1. ~carried' => InFlightReqs' = {} /\ sem' = 0 /\ inFlight' = 0
    BY <1>1 DEF Start, InFlightReqs
  <2> QED
    BY <2>1, FS_EmptySet
<1>2. ASSUME UNCHANGED <<sem, inFlight, carried>>, InFlightReqs' = InFlightReqs PROVE SlotsMatch'
  BY <1>2
<1>3. ASSUME NEW l \in Runs, NEW q \in Reqs, Issue(l, q) PROVE SlotsMatch'
  <2>1. /\ reqPc[q] = "none" /\ reqPc' = [reqPc EXCEPT ![q] = "build"]
        /\ sem' = sem + 1 /\ inFlight' = inFlight + 1 /\ carried' = carried
    BY <1>3 DEF Issue
  <2>2. q \notin InFlightReqs /\ InFlightReqs' = InFlightReqs \cup {q}
    BY <1>0, <2>1 DEF InFlightReqs
  <2>3. Cardinality(InFlightReqs') = Cardinality(InFlightReqs) + 1
    BY <2>2, InFlightIsFinite, FS_AddElement
  <2> QED
    BY <1>0, <2>1, <2>3, InFlightIsFinite
<1>4. ASSUME NEW q \in Reqs, Release(q) PROVE SlotsMatch'
  <2>1. /\ reqPc[q] = "release" /\ reqPc' = [reqPc EXCEPT ![q] = "gone"]
        /\ sem' = sem - 1 /\ inFlight' = inFlight - 1 /\ carried' = carried
    BY <1>4 DEF Release
  <2>2. q \in InFlightReqs /\ InFlightReqs' = InFlightReqs \ {q}
    BY <1>0, <2>1 DEF InFlightReqs
  <2>3. Cardinality(InFlightReqs') = Cardinality(InFlightReqs) - 1
    BY <2>2, InFlightIsFinite, FS_RemoveElement
  <2> QED
    BY <1>0, <2>1, <2>3, InFlightIsFinite
<1>5. ASSUME NEW q \in Reqs, Build(q) \/ Answered(q) PROVE SlotsMatch'
  <2>1. PICK pc \in {"fire", "release"} : reqPc' = [reqPc EXCEPT ![q] = pc]
    BY <1>5 DEF Build, Answered
  <2>2. q \in InFlightReqs /\ InFlightReqs' = InFlightReqs \cup {q}
    BY <1>0, <1>5, <2>1 DEF Build, Answered, InFlightReqs
  <2> QED
    BY <1>2, <1>5, <2>2 DEF Build, Answered
<1>6. ASSUME UNCHANGED <<sem, inFlight, carried, reqPc>> PROVE SlotsMatch'
  BY <1>2, <1>6 DEF InFlightReqs
<1>7. CASE ReaderStops \/ MainStops
  BY <1>6, <1>7 DEF ReaderStops, MainStops, reqVars
<1>8. CASE MainFindsNothingToStop \/ CloseDone \/ Exit \/ LoopFlushes
  BY <1>6, <1>8 DEF MainFindsNothingToStop, CloseDone, Exit, LoopFlushes, reqVars
<1>12. ASSUME NEW f \in Flushers, FlushCopies(f) \/ FlushWrites(f) PROVE SlotsMatch'
  BY <1>6, <1>12 DEF FlushCopies, FlushWrites
<1>9. ASSUME NEW p \in Callers,
             Detach(p) \/ Join(p) \/ Drained(p) \/ StopFlushes(p) \/ StopFinishes(p)
      PROVE  SlotsMatch'
  BY <1>6, <1>9 DEF Detach, Join, Drained, StopFlushes, StopFinishes, reqVars
<1>10. ASSUME NEW l \in Runs, LoopStops(l) \/ TickReads(l) \/ TickEnds(l) \/ TickFires(l)
       PROVE  SlotsMatch'
  BY <1>6, <1>10 DEF LoopStops, TickReads, TickEnds, TickFires, reqVars
<1>11. CASE UNCHANGED vars
  BY <1>6, <1>11 DEF vars, reqVars
<1> QED
  BY <1>1, <1>3, <1>4, <1>5, <1>7, <1>8, <1>9, <1>10, <1>11, <1>12 DEF Step

(* As long as no start has found requests of an earlier run in flight, the  *)
(* semaphore and the InFlight counter are the number of goroutines there    *)
(* are (tick takes a token for each, execute returns one on every way out), *)
(* so there are never more than effectiveMaxConcurrency of them.            *)
THEOREM SlotsAreTheRequestsInFlight ==
  Spec => [](SlotsMatch /\ (~carried => Cardinality(InFlightReqs) <= Cap))
<1> DEFINE Inv == TypeInv /\ SlotsMatch
<1>1. Inv => SlotsMatch /\ (~carried => Cardinality(InFlightReqs) <= Cap)
  BY WorkerAssumption DEF TypeInv, TypeOK, SlotsMatch, WorkerAssumption
<1>2. Init => Inv
  <2>1. Init => InFlightReqs = {} /\ sem = 0 /\ inFlight = 0
    BY DEF Init, InFlightReqs
  <2> QED
    BY <2>1, InitTypeInv, FS_EmptySet DEF SlotsMatch
<1>3. Inv /\ [Next]_vars => Inv'
  BY NextTypeInv, SlotsMatchNext
<1> QED
  BY <1>1, <1>2, <1>3, PTL DEF Spec
=============================================================================
