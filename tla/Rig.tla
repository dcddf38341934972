-------------------------------- MODULE Rig --------------------------------
(***************************************************************************)
(* The control plane as a process among processes: the supervisor of the   *)
(* Go petstore (sut/goSut.ts), the start-up and the shutdown of the        *)
(* application (app.ts, index.ts), the schedule of the policy probes and   *)
(* the gateway configuration.                                              *)
(*                                                                         *)
(* The event loop runs one continuation at a time, and the metrics thread  *)
(* answers the calls of the store in the order they were made: `calls` is  *)
(* that order, and the continuation of an await on the store is an action  *)
(* on its head.                                                            *)
(***************************************************************************)
EXTENDS Naturals, Sequences, FiniteSets, FiniteSetsExt, TLC

CONSTANTS
    Clients,        \* concurrent HTTP requests on the configuration routes
    PolicyBodies,   \* bodies of PUT /api/policy: records with some of the fields
    GatewayBodies,  \* bodies of PUT /api/config/gateway, as whole targets
    SavedGateways,  \* what the config table may hold at boot
    MaxSpawns,      \* bound: petstore processes started in a behaviour
    MaxFailures     \* bound: calls of the store that fail in a behaviour

ASSUME BodiesAssumption ==
    \A b \in PolicyBodies : DOMAIN b \subseteq {"enabled", "intervalSec"}
ASSUME BoundAssumption == MaxSpawns \in Nat \ {0} /\ MaxFailures \in Nat

VARIABLES
    pinned,       \* requestedPort # 0
    proc,         \* what each petstore process is doing
    waiting,      \* the processes whose ready promise is not settled
    child,        \* the process the supervisor holds
    restartTimer, stopping,
    told,         \* the processes stop() has signalled
    boot,         \* how far `ready` has come
    calls,        \* the store's unanswered calls, by who awaits them
    client,       \* what each request does, and its body or merged value
    policyConfig, storedGw, driverGw,
    live,         \* the intervals that tick
    policyTimer,  \* the interval the application remembers
    policyPass,   \* how far runPolicies has come; policyRunning = (pass # "idle")
    down,         \* how far the shutdown has come
    failures,     \* how many calls of the store have failed
    owed,         \* history: a config was written and no interval set for it since
    crossed       \* history: two PUTs were between clearing and setting at once

sutVars == <<pinned, proc, waiting, child, restartTimer, stopping, told>>
cfgVars == <<policyConfig, storedGw, driverGw>>
timerVars == <<live, policyTimer>>
books == <<failures, owed, crossed>>
vars == <<sutVars, boot, calls, client, cfgVars, timerVars, policyPass, down, books>>

Procs == 1..MaxSpawns
None == 0
Sides == {"rest", "soap"}
Targets == {"controlPlane", "controlPlanePrefixed", "petstore", "elsewhere"}
NoTimer == [id |-> 0, sec |-> 0]
Idle == [op |-> "idle"]
DefaultGateway == [s \in Sides |-> "petstore"]
DefaultPolicyConfig == [enabled |-> TRUE, intervalSec |-> 300]

\* sanitizePolicyConfig: a field the body lacks is the base's, and the period is clamped.
SanitizedPolicy(body, base) ==
    [(body @@ base) EXCEPT !.intervalSec = Min({Max({@, 15}), 3600})]

\* The control plane runs: process.exit ends every action of its own.
Running == down \notin {"exited", "forced"}
InSeq(q, x) == \E i \in DOMAIN q : q[i] = x
Answered(who) == calls # <<>> /\ Head(calls) = who
\* A call fails: an error is the reply, in its turn, or the client of the store
\* refuses the newest call.
CallFails(who) ==
    /\ Running /\ failures < MaxFailures
    /\ calls # <<>> /\ who \in {Head(calls), calls[Len(calls)]}
    /\ calls' = SelectSeq(calls, LAMBDA x : x # who)
    /\ failures' = failures + 1
Unsaved(gw) == DOMAIN gw = {}

Init ==
    /\ pinned \in BOOLEAN
    /\ proc = [p \in Procs |-> IF p = 1 THEN "starting" ELSE "unborn"]
    /\ waiting = {1} /\ child = 1
    /\ restartTimer = FALSE /\ stopping = FALSE /\ told = {}
    /\ boot = "sut" /\ calls = <<>> /\ client = [c \in Clients |-> Idle]
    /\ policyConfig = DefaultPolicyConfig
    /\ storedGw \in SavedGateways /\ driverGw = DefaultGateway
    /\ live = {} /\ policyTimer = NoTimer /\ policyPass = "idle" /\ down = "no"
    /\ failures = 0 /\ owed = FALSE /\ crossed = FALSE

----------------------------------------------------------------------------
(* The supervisor.                                                         *)

\* Children that run and that nobody has told to go.
Kept == {p \in Procs : proc[p] \in {"starting", "serving"} /\ p \notin told}
NextProc == Cardinality({p \in Procs : proc[p] # "unborn"}) + 1

\* What scheduleRestart leaves in restartTimer.
ScheduledRestart == restartTimer \/ pinned

\* The ready promise of p is rejected: start() hands the failure to `ready`,
\* a restart catches it and schedules another.
Rejected(p) ==
    /\ boot' = IF p = 1 THEN "failed" ELSE boot
    /\ restartTimer' = IF p = 1 THEN restartTimer ELSE ScheduledRestart

SpawnOnce ==
    /\ NextProc \in Procs
    /\ proc' = [proc EXCEPT ![NextProc] = "starting"]
    /\ child' = NextProc
    /\ waiting' = waiting \union {NextProc}

\* The child prints its port. For the first one the start-up goes on: the
\* port is bound into the targets and schedulePolicies asks for its config.
ReadyLine(p) ==
    /\ Running /\ proc[p] = "starting"
    /\ proc' = [proc EXCEPT ![p] = "serving"]
    /\ waiting' = waiting \ {p}
    /\ IF p = 1 /\ boot = "sut"
       THEN boot' = "schedule" /\ calls' = Append(calls, "boot")
       ELSE UNCHANGED <<boot, calls>>
    /\ UNCHANGED <<pinned, child, restartTimer, stopping, told, client, cfgVars, timerVars, policyPass, down, books>>

\* READY_TIMEOUT_MS pass: the promise is given up, the child is not.
ReadyTimeout(p) ==
    /\ Running /\ p \in waiting /\ proc[p] = "starting"
    /\ waiting' = waiting \ {p}
    /\ Rejected(p)
    /\ UNCHANGED <<pinned, proc, child, stopping, told, calls, client, cfgVars, timerVars, policyPass, down, books>>

\* spawn() fails after it has returned: "error" is emitted and no "exit".
SpawnError(p) ==
    /\ Running /\ p \in waiting /\ proc[p] = "starting"
    /\ proc' = [proc EXCEPT ![p] = "stillborn"]
    /\ waiting' = waiting \ {p}
    /\ Rejected(p)
    /\ UNCHANGED <<pinned, child, stopping, told, calls, client, cfgVars, timerVars, policyPass, down, books>>

\* Mutant of ExitRestarts.
ExitRestartsInStartup(p) == p \in waiting /\ p # 1

\* Whether the exit of p arms the restart timer: its exit handler does unless
\* we are stopping, and the catch of a failed restart does in any case.
ExitRestarts(p) == ~stopping \/ (p \in waiting /\ p # 1)

\* A child exits, on its own or because it was told. The last process of the
\* bound stays up unless told.
Exit(p) ==
    /\ Running /\ proc[p] \in {"starting", "serving"}
    /\ p = MaxSpawns => p \in told
    /\ proc' = [proc EXCEPT ![p] = "gone"]
    /\ child' = IF child = p THEN None ELSE child
    /\ waiting' = waiting \ {p}
    /\ restartTimer' = IF ExitRestarts(p) THEN ScheduledRestart ELSE restartTimer
    /\ boot' = IF p = 1 /\ p \in waiting THEN "failed" ELSE boot
    /\ UNCHANGED <<pinned, stopping, told, calls, client, cfgVars, timerVars, policyPass, down, books>>

\* Mutant of MayRestart.
MayRestartBlindly == ~stopping

\* Mutant of MayRestart.
MayRestartAnyway == child = None

\* RESTART_DELAY_MS pass. A binary that is missing now arms the timer again,
\* which changes nothing.
MayRestart == ~stopping /\ child = None
RestartFires ==
    /\ Running /\ restartTimer
    /\ restartTimer' = FALSE
    /\ IF MayRestart THEN SpawnOnce ELSE UNCHANGED <<proc, child, waiting>>
    /\ UNCHANGED <<pinned, stopping, told, boot, calls, client, cfgVars, timerVars, policyPass, down, books>>

----------------------------------------------------------------------------
(* The start-up.                                                           *)

NewTimer(sec) == [id |-> Max({t.id : t \in live \union {policyTimer}}) + 1, sec |-> sec]

\* Mutant of Scheduled.
ScheduledOnce ==
    IF policyTimer # NoTimer THEN UNCHANGED timerVars
    ELSE live' = live \union {NewTimer(policyConfig.intervalSec)} /\ policyTimer' = NewTimer(policyConfig.intervalSec)

\* schedulePolicies after its await.
Scheduled ==
    IF policyConfig.enabled
    THEN LET t == NewTimer(policyConfig.intervalSec)
         IN  live' = live \union {t} /\ policyTimer' = t
    ELSE policyTimer' = NoTimer /\ UNCHANGED live

\* repointStrandedSelfTargets: only the exact old self-reference is moved.
Repointed(gw) == [s \in Sides |-> IF gw[s] = "controlPlane" THEN DefaultGateway[s] ELSE gw[s]]

Restored == IF Unsaved(storedGw) THEN DefaultGateway ELSE Repointed(storedGw)

\* What start() and the store give is awaited in turn; the targets are saved
\* only once they are in force.
BootGoesOn ==
    /\ Running /\ Answered("boot")
    /\ \/ /\ boot = "schedule"
          /\ Scheduled
          /\ boot' = "restore" /\ calls' = Append(Tail(calls), "boot")
          /\ UNCHANGED <<storedGw, driverGw>>
       \/ /\ boot = "restore"
          /\ driverGw' = Restored
          /\ boot' = "saving" /\ calls' = Append(Tail(calls), "boot")
          /\ UNCHANGED <<storedGw, timerVars>>
       \/ /\ boot = "saving"
          /\ storedGw' = driverGw
          /\ boot' = "up" /\ calls' = Tail(calls)
          /\ UNCHANGED <<driverGw, timerVars>>
    /\ UNCHANGED <<sutVars, client, policyConfig, policyPass, down, books>>

\* A call of the start-up fails: `ready` is rejected, and no request is served.
BootFails ==
    /\ CallFails("boot")
    /\ boot' = "failed"
    /\ UNCHANGED <<sutVars, client, cfgVars, timerVars, policyPass, down, owed, crossed>>

----------------------------------------------------------------------------
(* The policy probes.                                                      *)

\* The synchronous part of runPolicies: nothing while a pass runs.
RunPolicies(q) ==
    IF policyPass = "idle" THEN policyPass' = "config" /\ calls' = Append(q, "pass")
    ELSE calls' = q /\ UNCHANGED policyPass

Tick(t) ==
    /\ Running /\ t \in live /\ policyPass = "idle"
    /\ RunPolicies(calls)
    /\ UNCHANGED <<sutVars, boot, client, cfgVars, timerVars, down, books>>

\* Mutant of PassGoesOn.
PassKeepsFlag ==
    /\ Running /\ Answered("pass")
    /\ calls' = Tail(calls)
    /\ policyPass' = IF policyPass = "config" /\ policyConfig.enabled THEN "probing"
                     ELSE IF policyPass = "writing" THEN "idle" ELSE policyPass
    /\ UNCHANGED <<sutVars, boot, client, cfgVars, timerVars, down, books>>

PassGoesOn ==
    /\ Running /\ Answered("pass")
    /\ calls' = Tail(calls)
    /\ policyPass' = IF policyPass = "config" /\ policyConfig.enabled THEN "probing" ELSE "idle"
    /\ UNCHANGED <<sutVars, boot, client, cfgVars, timerVars, down, books>>

\* A call of the pass fails: it is caught, and the flag cleared in any case.
PassFails ==
    /\ CallFails("pass")
    /\ policyPass' = "idle"
    /\ UNCHANGED <<sutVars, boot, client, cfgVars, timerVars, down, owed, crossed>>

\* Every probe has ended, by an answer or by its own timeout.
ProbesDone ==
    /\ Running /\ policyPass = "probing"
    /\ policyPass' = "writing" /\ calls' = Append(calls, "pass")
    /\ UNCHANGED <<sutVars, boot, client, cfgVars, timerVars, down, books>>

----------------------------------------------------------------------------
(* The configuration routes. fetch awaits `ready` before it serves any.    *)

Starts(c, step) ==
    /\ Running /\ boot = "up" /\ client[c] = Idle /\ ~InSeq(calls, c)
    /\ client' = [client EXCEPT ![c] = step]
    /\ calls' = Append(calls, c)
    /\ UNCHANGED <<sutVars, boot, cfgVars, timerVars, policyPass, down, books>>

PutPolicy(c) == \E b \in PolicyBodies : Starts(c, [op |-> "readPolicy", body |-> b])
PutGateway(c) == \E g \in GatewayBodies : Starts(c, [op |-> "readGateway", body |-> g])
\* POST /api/policy/run asks whether probing is enabled first, POST
\* /api/run/start for the saved profile and targets.
RunNow(c) == \E op \in {"readEnabled", "readSaved"} : Starts(c, [op |-> op])

\* A request is answered and its slot is free no more: one request per client.
Over(c) == client' = [client EXCEPT ![c] = [op |-> "over"]]
Awaits(c, step) == client' = [client EXCEPT ![c] = step] /\ calls' = Append(Tail(calls), c)

PolicyRead(c) ==
    /\ client[c].op = "readPolicy"
    /\ Awaits(c, [op |-> "writePolicy", body |-> SanitizedPolicy(client[c].body, policyConfig)])
    /\ UNCHANGED <<policyConfig, storedGw, driverGw, timerVars, policyPass, owed, crossed>>

\* A request that has stored a policy config still has to set the interval.
Scheduling == \E c \in Clients : client[c].op = "schedule"

\* The config is stored; schedulePolicies clears the interval it knows and asks.
PolicyWritten(c) ==
    /\ client[c].op = "writePolicy"
    /\ policyConfig' = client[c].body
    /\ live' = live \ {policyTimer}
    /\ owed' = TRUE /\ crossed' = (crossed \/ Scheduling)
    /\ Awaits(c, [op |-> "schedule"])
    /\ UNCHANGED <<storedGw, driverGw, policyTimer, policyPass>>

PolicyScheduled(c) ==
    /\ client[c].op = "schedule"
    /\ Scheduled /\ Over(c) /\ calls' = Tail(calls)
    /\ owed' = FALSE
    /\ UNCHANGED <<cfgVars, policyPass, crossed>>

GatewayRead(c) ==
    /\ client[c].op = "readGateway"
    /\ Awaits(c, [op |-> "writeGateway", body |-> client[c].body])
    /\ UNCHANGED <<cfgVars, timerVars, policyPass, owed, crossed>>

GatewayWritten(c) ==
    /\ client[c].op = "writeGateway"
    /\ storedGw' = client[c].body /\ driverGw' = client[c].body
    /\ Over(c) /\ calls' = Tail(calls)
    /\ UNCHANGED <<policyConfig, timerVars, policyPass, owed, crossed>>

\* POST /api/run/start hands the saved targets to the driver and starts it,
\* which it may refuse; an accepted run is recorded.
RunBegins(c) ==
    /\ client[c].op = "readSaved"
    /\ driverGw' = storedGw
    /\ \/ Awaits(c, [op |-> "recordStart"])
       \/ Over(c) /\ calls' = Tail(calls)
    /\ UNCHANGED <<policyConfig, storedGw, timerVars, policyPass, owed, crossed>>

Wanted(c) ==
    /\ client[c].op \in {"readEnabled", "recordStart"}
    /\ IF client[c].op = "recordStart" \/ policyConfig.enabled THEN RunPolicies(Tail(calls))
       ELSE calls' = Tail(calls) /\ UNCHANGED policyPass
    /\ Over(c)
    /\ UNCHANGED <<cfgVars, timerVars, owed, crossed>>

RequestGoesOn(c) ==
    /\ Running /\ Answered(c)
    /\ \/ PolicyRead(c) \/ PolicyWritten(c) \/ PolicyScheduled(c)
       \/ GatewayRead(c) \/ GatewayWritten(c) \/ RunBegins(c) \/ Wanted(c)
    /\ UNCHANGED <<sutVars, boot, down, failures>>

\* The call a request waits for fails: it is answered 500 and does no more.
RequestFails(c) ==
    /\ client[c].op # "idle" /\ CallFails(c) /\ Over(c)
    /\ UNCHANGED <<sutVars, boot, cfgVars, timerVars, policyPass, down, owed, crossed>>

----------------------------------------------------------------------------
(* The shutdown.                                                           *)

Signal ==
    /\ down = "no"
    /\ down' = "waiting"
    /\ UNCHANGED <<sutVars, boot, calls, client, cfgVars, timerVars, policyPass, books>>

\* `ready` has settled: the known interval is cleared and the driver drains.
Drains ==
    /\ down = "waiting" /\ boot \in {"up", "failed"}
    /\ live' = live \ {policyTimer}
    /\ down' = "draining"
    /\ UNCHANGED <<sutVars, boot, calls, client, cfgVars, policyTimer, policyPass, books>>

\* The driver is done: stop() of the supervisor.
StopSut ==
    /\ down = "draining"
    /\ stopping' = TRUE /\ restartTimer' = FALSE /\ child' = None
    /\ told' = told \union ({child} \ {None})
    /\ down' = "stopping"
    /\ UNCHANGED <<pinned, proc, waiting, boot, calls, client, cfgVars, timerVars, policyPass, books>>

\* What stop() waits for has exited; SIGKILL comes 6 s after SIGTERM.
SutStopped ==
    /\ down = "stopping" /\ \A p \in told : proc[p] \in {"gone", "stillborn"}
    /\ down' = "closing"
    /\ UNCHANGED <<sutVars, boot, calls, client, cfgVars, timerVars, policyPass, books>>
SigKill(p) == down = "stopping" /\ p \in told /\ Exit(p)

\* The store is closed and the process exits.
Close ==
    /\ down = "closing" /\ down' = "exited"
    /\ UNCHANGED <<sutVars, boot, calls, client, cfgVars, timerVars, policyPass, books>>

\* Eight seconds have passed since the signal.
ForceExit ==
    /\ down \in {"waiting", "draining", "stopping", "closing"} /\ down' = "forced"
    /\ UNCHANGED <<sutVars, boot, calls, client, cfgVars, timerVars, policyPass, books>>

----------------------------------------------------------------------------
\* Nothing of ours runs any more.
Ended == ~Running /\ UNCHANGED vars

Next ==
    \/ \E p \in Procs : ReadyLine(p) \/ ReadyTimeout(p) \/ SpawnError(p) \/ Exit(p)
    \/ RestartFires \/ BootGoesOn \/ BootFails \/ PassGoesOn \/ PassFails \/ ProbesDone
    \/ \E t \in live : Tick(t)
    \/ \E c \in Clients : PutPolicy(c) \/ PutGateway(c) \/ RunNow(c) \/ RequestGoesOn(c) \/ RequestFails(c)
    \/ Signal \/ Drains \/ StopSut \/ SutStopped \/ Close \/ ForceExit
    \/ Ended

\* Timers fire, the store answers, a process that starts ends up ready or
\* dead, intervals tick and probes end. Nobody has to crash, to send a
\* request or to send a signal; a shutdown that has begun goes on.
Fairness ==
    /\ \A p \in Procs : WF_vars(proc[p] = "starting" /\ (ReadyLine(p) \/ Exit(p)))
    /\ \A p \in Procs : WF_vars(SigKill(p))
    /\ WF_vars(RestartFires)
    /\ WF_vars(BootGoesOn) /\ WF_vars(PassGoesOn) /\ WF_vars(ProbesDone)
    /\ WF_vars(\E t \in live : Tick(t))
    /\ \A c \in Clients : WF_vars(RequestGoesOn(c))
    /\ WF_vars(Drains) /\ WF_vars(StopSut) /\ WF_vars(SutStopped) /\ WF_vars(Close)

Spec == Init /\ [][Next]_vars /\ Fairness

----------------------------------------------------------------------------
(* Correctness.                                                            *)

(* Type invariant.                                                         *)
TypeOK ==
    /\ pinned \in BOOLEAN /\ restartTimer \in BOOLEAN /\ stopping \in BOOLEAN
    /\ proc \in [Procs -> {"unborn", "starting", "serving", "gone", "stillborn"}]
    /\ waiting \subseteq Procs /\ told \subseteq Procs /\ child \in Procs \union {None}
    /\ boot \in {"sut", "schedule", "restore", "saving", "up", "failed"}
    /\ policyPass \in {"idle", "config", "probing", "writing"}
    /\ down \in {"no", "waiting", "draining", "stopping", "closing", "exited", "forced"}
    /\ calls \in Seq({"boot", "pass"} \union Clients)
    /\ policyConfig \in [enabled : BOOLEAN, intervalSec : Nat]
    /\ driverGw \in [Sides -> Targets]
    /\ failures \in 0..MaxFailures /\ owed \in BOOLEAN /\ crossed \in BOOLEAN
    /\ live \subseteq [id : Nat \ {0}, sec : Nat] /\ policyTimer \in [id : Nat, sec : Nat]

\* The restart timer, a late ready line and a timed-out start-up never make
\* the supervisor run a second petstore beside one it has not told to go:
\* both would want the pinned port.
OnePetstore == Cardinality(Kept) <= 1

\* An orderly exit leaves no petstore behind, whichever timer was armed and
\* whichever restart was under way when stop() came.
NoOrphans == down = "exited" => \A p \in Procs : proc[p] \notin {"starting", "serving"}

\* Once an interval has been set after the newest write, the interval the
\* application remembers ticks at the period of the stored config, and there
\* is one exactly when probing is enabled, in whatever order the PUTs
\* interleaved. A PUT that is over owes one only after a failed call: app.ts
\* clears the old interval (298) before it asks the store for the new config
\* (299), and if that is rejected there is none.
IntervalFollowsConfig ==
    /\ boot = "up" /\ down = "no" /\ ~owed =>
        IF policyConfig.enabled
        THEN policyTimer \in live /\ policyTimer.sec = policyConfig.intervalSec
        ELSE policyTimer = NoTimer
    /\ owed => Scheduling \/ failures > 0

\* No interval ticks that the application has forgotten, unless two PUTs were
\* between clearing (298) and setting (301) at the same time: each then sets
\* one, and only the later is remembered.
NoStrayInterval == ~crossed => live \subseteq {policyTimer}

\* The driver aims where the config table says, and a side aims at the
\* control plane's own port only because a request asked for it.
TargetsInForce ==
    boot = "up" =>
        /\ driverGw = storedGw
        /\ \A s \in Sides :
              driverGw[s] = "controlPlane" => \E g \in GatewayBodies : g[s] = "controlPlane"

Serving == child # None /\ proc[child] = "serving"

\* The newest configuration is in force once nobody is between a write and
\* what it brings about, in whatever order the requests interleaved and
\* whichever of their calls of the store failed.
ConfigInForce == IntervalFollowsConfig /\ NoStrayInterval /\ TargetsInForce

\* A petstore on a pinned port that is down is brought back, however starts and
\* restarts fail, unless we are stopping (goSut.ts:139, "Bring the SUT back
\* after an unexpected exit") - or unless spawn() itself failed: the child that
\* never ran is kept for one that runs.
PetstoreComesBack ==
    pinned /\ ~Serving ~> Serving \/ stopping \/ ~Running \/ (child # None /\ proc[child] = "stillborn")

\* While probing is enabled, passes go on: no pass keeps the flag for ever, a
\* failed one does not either, and a reconfiguration loses the last interval
\* only if the call that follows clearing it fails.
IntervalLost == owed /\ ~Scheduling
KeepsProbing ==
    boot = "up" /\ policyConfig.enabled ~>
        policyPass = "probing" \/ ~policyConfig.enabled \/ IntervalLost \/ down # "no"

=============================================================================
