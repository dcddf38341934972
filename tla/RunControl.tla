----------------------------- MODULE RunControl -----------------------------
(***************************************************************************)
(* The control plane of a load run: the Driver (loadgen/driver.ts), the    *)
(* GoWorkerClient that spawns and addresses the worker process             *)
(* (loadgen/goClient.ts), the two pipes between the processes, and as much *)
(* of the worker's control loop (worker.go Handle, Start, Stop) as answers *)
(* on them.  Worker.tla details the inside of the worker.                  *)
(*                                                                         *)
(* A run id is a number; the Driver is given a fresh one at every start.   *)
(* A configuration (gateway targets, profile, SUT url) is a number: every  *)
(* setter pushes the whole of it.                                          *)
(***************************************************************************)
EXTENDS Integers, Sequences

CONSTANTS
  MaxRuns,      \* runs started in a behaviour
  MaxCfg,       \* distinct configurations
  MaxInbox,     \* unread control lines at which the user waits: unbounded in the code
  MaxCrashes,   \* worker deaths in a behaviour
  Limits        \* what "the profile has a durationMinutes" may be: a set of booleans

ASSUME RunControlAssumption ==
  /\ MaxRuns \in Nat /\ MaxCfg \in Nat \ {0} /\ MaxInbox \in Nat /\ MaxCrashes \in Nat
  /\ Limits \subseteq BOOLEAN

VARIABLES
  \* the Driver
  state, runId, durationTimer, stopTimer, client, generatorError, cfg,
  \* the GoWorkerClient: the start() continuations that await a spawn
  pending,
  \* the child process, its stdin and its stdout
  child, inbox, outbox,
  \* the worker behind them
  wstate, wrun, wcfg,
  \* the control plane's own life and the counters of the bounds
  phase, lastRun, crashes,
  \* history: "ack" once a start overtook an unread ack, "spawn" once a stop overtook a spawn
  raced

driverVars == <<state, runId, durationTimer, stopTimer, client, generatorError>>
pipeVars   == <<child, inbox, outbox>>
workerVars == <<wstate, wrun, wcfg>>
vars == <<driverVars, cfg, pending, pipeVars, workerVars,
          phase, lastRun, crashes, raced>>

NoRun == 0
Runs  == 1..MaxRuns
RunOrNone == 0..MaxRuns
Configs == 1..MaxCfg

\* start's continuation sends a configure and a start, back to back
StartMsg(r, c) == [op |-> "start", run |-> r, cfg |-> c]
StopMsg      == [op |-> "stop", run |-> NoRun, cfg |-> 0]
ConfigMsg(c) == [op |-> "configure", run |-> NoRun, cfg |-> c]
Messages == [op : {"start", "stop", "configure"}, run : RunOrNone, cfg : 0..MaxCfg]

\* GoWorkerClient.send: a line when there is a child, nothing otherwise
Sent(m) == IF child = "up" THEN Append(inbox, m) ELSE inbox

\* some stop has been sent whose "stopped" line the Driver has not read
AckOutstanding ==
  \/ wstate \in {"stopping", "wedged"}
  \/ outbox # <<>>
  \/ \E i \in DOMAIN inbox : inbox[i].op = "stop"

-----------------------------------------------------------------------------
(* buildApp has run driver.init(): the client exists and is spawning, or    *)
(* the binary was missing.                                                  *)
Init ==
  /\ \/ client = "live" /\ child = "spawning" /\ generatorError = "none"
     \/ client = "none" /\ child = "none" /\ generatorError = "missing"
  /\ state = "idle" /\ runId = NoRun /\ durationTimer = NoRun /\ stopTimer = NoRun
  /\ cfg = 1 /\ pending = <<>>
  /\ inbox = <<>> /\ outbox = <<>>
  /\ wstate = "idle" /\ wrun = NoRun /\ wcfg = 0
  /\ phase = "up" /\ lastRun = NoRun /\ crashes = 0 /\ raced = {}

(* The fields every way back to idle resets.                                  *)
GoIdle == state' = "idle" /\ runId' = NoRun

(* start() disarms the old timers before it arms its own.  Mutant: the      *)
(* backstop of the stop it supersedes stays armed.                          *)
ArmTimersOnly(r, limit) ==
  durationTimer' = (IF limit THEN r ELSE NoRun) /\ UNCHANGED stopTimer
StartTimers(r, limit) ==
  durationTimer' = (IF limit THEN r ELSE NoRun) /\ stopTimer' = NoRun

(* Driver.start, with the setGw and setProfile its caller makes first in    *)
(* the same turn of the event loop.  From "stopping" the run awaiting its   *)
(* ack is superseded.  With a child the continuation sends at once,         *)
(* otherwise it joins the spawn.                                            *)
Start(c, limit) ==
  /\ phase = "up" /\ state # "running" /\ lastRun < MaxRuns
  /\ LET r == lastRun + 1 IN
     /\ lastRun' = r
     /\ state' = "running" /\ runId' = r
     /\ StartTimers(r, limit)
     /\ IF child = "up"
        THEN /\ inbox' = Append(inbox, StartMsg(r, c))
             /\ UNCHANGED <<child, pending>>
        ELSE /\ child' = "spawning"
             /\ pending' = Append(pending, r)
             /\ UNCHANGED inbox
  /\ cfg' = c /\ client' = "live" /\ generatorError' = "none"
  /\ raced' = IF AckOutstanding THEN raced \cup {"ack"} ELSE raced
  /\ UNCHANGED <<outbox, workerVars, phase, crashes>>

(* Driver.start with the binary missing: refused, whatever the state.  From *)
(* "running", with the binary there, it answers with the run there is.      *)
StartRefused ==
  /\ phase = "up" /\ generatorError' = "missing"
  /\ UNCHANGED <<state, runId, durationTimer, stopTimer, client, cfg, pending,
                 pipeVars, workerVars, phase, lastRun, crashes, raced>>

StartWhileRunning ==
  /\ phase = "up" /\ state = "running" /\ generatorError' = "none"
  /\ UNCHANGED <<state, runId, durationTimer, stopTimer, client, cfg, pending,
                 pipeVars, workerVars, phase, lastRun, crashes, raced>>

(* Mutant: stop() trusts the ack to come and arms no backstop.               *)
StopRunWithoutBackstop ==
  /\ inbox' = Sent(StopMsg)
  /\ durationTimer' = NoRun
  /\ state' = "stopping"
  /\ raced' = IF pending # <<>> THEN raced \cup {"spawn"} ELSE raced
  /\ UNCHANGED <<runId, stopTimer, client, generatorError>>

(* What Driver.stop does when there is a run: the stop line, the state and  *)
(* the 30 s backstop.                                                       *)
StopRun ==
  /\ inbox' = Sent(StopMsg)
  /\ durationTimer' = NoRun
  /\ state' = "stopping"
  /\ stopTimer' = runId
  /\ raced' = IF pending # <<>> THEN raced \cup {"spawn"} ELSE raced
  /\ UNCHANGED <<runId, client, generatorError>>

Stop ==
  /\ phase = "up" /\ state # "idle" /\ client = "live"
  /\ Len(inbox) < MaxInbox
  /\ StopRun
  /\ UNCHANGED <<cfg, pending, child, outbox, workerVars, phase, lastRun, crashes>>

(* Mutant: the watchdog ends the run itself instead of asking the worker.   *)
DurationEndsRunAtOnce ==
  /\ durationTimer # NoRun
  /\ durationTimer' = NoRun
  /\ IF state = "running" THEN GoIdle ELSE UNCHANGED <<state, runId>>
  /\ UNCHANGED <<stopTimer, client, generatorError, cfg, pending, pipeVars,
                 workerVars, phase, lastRun, crashes, raced>>

(* The durationMinutes watchdog.                                            *)
DurationElapses ==
  /\ durationTimer # NoRun
  /\ IF state = "running"
     THEN StopRun
     ELSE /\ durationTimer' = NoRun
          /\ UNCHANGED <<state, runId, stopTimer, client, generatorError, inbox, raced>>
  /\ UNCHANGED <<cfg, pending, child, outbox, workerVars, phase, lastRun, crashes>>

(* GO_STOP_ACK_TIMEOUT_MS after a stop.                                     *)
AckTimeout ==
  /\ stopTimer # NoRun
  /\ stopTimer' = NoRun
  /\ IF state = "stopping" THEN GoIdle ELSE UNCHANGED <<state, runId>>
  /\ UNCHANGED <<durationTimer, client, generatorError, cfg, pending, pipeVars,
                 workerVars, phase, lastRun, crashes, raced>>

(* onStopped: a "stopped" line, whichever run it names.                     *)
RecvStopped ==
  /\ outbox # <<>>
  /\ outbox' = Tail(outbox)
  /\ IF state = "idle"
     THEN UNCHANGED <<state, runId, stopTimer>>
     ELSE GoIdle /\ stopTimer' = NoRun
  /\ UNCHANGED <<durationTimer, client, generatorError, cfg, pending, child, inbox,
                 workerVars, phase, lastRun, crashes, raced>>

(* Mutant: a setter that keeps the value for the next start.                *)
SetConfigWithoutPush(c) ==
  /\ phase = "up" /\ cfg' = c
  /\ UNCHANGED <<driverVars, pending, pipeVars, workerVars,
                 phase, lastRun, crashes, raced>>

(* setGw, setProfile, setSutUrl: kept, and pushed when there is a client.   *)
SetConfig(c) ==
  /\ phase = "up" /\ Len(inbox) < MaxInbox
  /\ cfg' = c
  /\ inbox' = IF client = "live" THEN Sent(ConfigMsg(c)) ELSE inbox
  /\ UNCHANGED <<driverVars, pending, child, outbox, workerVars,
                 phase, lastRun, crashes, raced>>

-----------------------------------------------------------------------------
(* Mutant: the continuations are lost with the promise.                     *)
SpawnSendsNothing ==
  /\ child = "spawning" /\ phase = "up"
  /\ child' = "up"
  /\ inbox' = <<>> /\ pending' = <<>>
  /\ UNCHANGED <<driverVars, cfg, outbox, workerVars, phase, lastRun, crashes, raced>>

(* spawn() resolves: the child exists and every continuation that awaited   *)
(* it sends its configure and start, in order, before anything else runs.   *)
SpawnOk ==
  /\ child = "spawning" /\ phase = "up"
  /\ child' = "up"
  /\ inbox' = [i \in DOMAIN pending |-> StartMsg(pending[i], cfg)]
  /\ pending' = <<>>
  /\ UNCHANGED <<driverVars, cfg, outbox, workerVars, phase, lastRun, crashes, raced>>

(* spawn() rejects: generatorFailed.                                        *)
SpawnFail ==
  /\ child = "spawning"
  /\ child' = "none" /\ pending' = <<>>
  /\ generatorError' = "failed" /\ client' = "none"
  /\ stopTimer' = NoRun /\ durationTimer' = NoRun
  /\ GoIdle
  /\ UNCHANGED <<cfg, inbox, outbox, workerVars, phase, lastRun, crashes, raced>>

(* The child is gone: unread stdin is lost, and any tail of its stdout.     *)
ChildGone ==
  /\ child' = "none" /\ inbox' = <<>>
  /\ \E n \in 0..Len(outbox) : outbox' = SubSeq(outbox, 1, n)
  /\ wstate' = "idle" /\ wrun' = NoRun /\ wcfg' = 0

(* The worker dies under the Driver: the exit handler forgets the child and *)
(* tells nobody.                                                            *)
Crash ==
  /\ child = "up" /\ phase = "up" /\ crashes < MaxCrashes
  /\ crashes' = crashes + 1
  /\ ChildGone
  /\ UNCHANGED <<driverVars, cfg, pending, phase, lastRun, raced>>

(* Driver.shutdown and GoWorkerClient.shutdown: stop, close stdin, wait.    *)
Shutdown ==
  /\ phase = "up" /\ phase' = "closing"
  /\ durationTimer' = NoRun /\ stopTimer' = NoRun
  /\ GoIdle /\ client' = "none"
  /\ inbox' = IF client = "live" THEN Sent(StopMsg) ELSE inbox
  /\ UNCHANGED <<generatorError, cfg, pending, child, outbox, workerVars,
                 lastRun, crashes, raced>>

(* Mutant: shutdown waits for the worker to come back to its reader, with   *)
(* no kill.                                                                 *)
ClosingExitGracefulOnly ==
  /\ phase = "closing" /\ child = "up" /\ inbox = <<>> /\ wstate = "idle"
  /\ ChildGone
  /\ UNCHANGED <<driverVars, cfg, pending, phase, lastRun, crashes, raced>>

(* The worker exits on the end of its stdin, or is killed 6 s later.        *)
ClosingExit ==
  /\ phase = "closing" /\ child = "up"
  /\ ChildGone
  /\ UNCHANGED <<driverVars, cfg, pending, phase, lastRun, crashes, raced>>

-----------------------------------------------------------------------------
(* The worker's control reader takes one line at a time, and is inside Stop *)
(* until the run has drained.                                               *)
HandleLine ==
  /\ child = "up" /\ inbox # <<>> /\ wstate \in {"idle", "running"}
  /\ inbox' = Tail(inbox)
  /\ LET m == Head(inbox) IN
     /\ wcfg' = IF m.op = "stop" THEN wcfg ELSE m.cfg
     /\ CASE m.op = "start" /\ wstate = "idle"   -> wstate' = "running" /\ wrun' = m.run
          [] m.op = "stop"  /\ wstate = "running" -> wstate' = "stopping" /\ UNCHANGED wrun
          [] OTHER -> UNCHANGED <<wstate, wrun>>
  /\ UNCHANGED <<driverVars, cfg, pending, child, outbox, phase, lastRun, crashes, raced>>

StopCompletes ==
  /\ wstate = "stopping"
  /\ wstate' = "idle" /\ wrun' = NoRun
  /\ outbox' = Append(outbox, wrun)
  /\ UNCHANGED <<driverVars, cfg, pending, child, inbox, wcfg,
                 phase, lastRun, crashes, raced>>

(* Stop never returns (the lock order of Stop and tick: see Worker.tla).    *)
StopWedges ==
  /\ wstate = "stopping" /\ wstate' = "wedged"
  /\ UNCHANGED <<driverVars, cfg, pending, pipeVars, wrun, wcfg,
                 phase, lastRun, crashes, raced>>

-----------------------------------------------------------------------------
Api     == \/ \E c \in Configs, limit \in Limits : Start(c, limit)
           \/ StartRefused
           \/ StartWhileRunning
           \/ Stop
           \/ \E c \in Configs : SetConfig(c)
           \/ Shutdown
Spawned == SpawnOk \/ SpawnFail
Drain   == StopCompletes \/ StopWedges

Next == \/ Api
        \/ DurationElapses
        \/ AckTimeout
        \/ RecvStopped
        \/ Spawned
        \/ Crash
        \/ ClosingExit
        \/ HandleLine
        \/ Drain

(* Timers fire, the event loop delivers, spawn() settles, the worker's      *)
(* reader runs.  Nothing obliges a user to act or a worker to die.          *)
Fairness == /\ WF_vars(DurationElapses)
            /\ WF_vars(AckTimeout)
            /\ WF_vars(RecvStopped)
            /\ WF_vars(Spawned)
            /\ WF_vars(ClosingExit)
            /\ WF_vars(HandleLine)
            /\ WF_vars(Drain)

Spec == Init /\ [][Next]_vars
FairSpec == Spec /\ Fairness

-----------------------------------------------------------------------------
(* Type invariant: the shapes of the Driver's fields and the pipes, and     *)
(* that RunStatus reports a run exactly when it is not idle.                *)
TypeOK ==
  /\ state \in {"idle", "running", "stopping"} /\ runId \in RunOrNone
  /\ state = "idle" <=> runId = NoRun
  /\ durationTimer \in RunOrNone /\ stopTimer \in RunOrNone
  /\ client \in {"none", "live"} /\ generatorError \in {"none", "missing", "failed"} /\ cfg \in Configs
  /\ pending \in Seq(Runs)
  /\ child \in {"none", "spawning", "up"} /\ inbox \in Seq(Messages) /\ outbox \in Seq(RunOrNone)
  /\ wstate \in {"idle", "running", "stopping", "wedged"} /\ wrun \in RunOrNone
  /\ wcfg \in 0..MaxCfg
  /\ phase \in {"up", "closing"} /\ lastRun \in RunOrNone /\ crashes \in 0..MaxCrashes
  /\ raced \subseteq {"ack", "spawn"}

(* Both timers belong to the run the Driver is in: the 30 s backstop is     *)
(* armed only for a stop that is still the Driver's latest word, and a      *)
(* durationMinutes watchdog never cuts short a run that began after the one *)
(* it was set for (driver.ts start, stop, onStopped, generatorFailed each   *)
(* clear what they must).                                                   *)
TimersOwnTheirRun ==
  /\ stopTimer # NoRun => state = "stopping" /\ stopTimer = runId
  /\ durationTimer # NoRun /\ state = "running" => durationTimer = runId

(* The run the worker will be in once everything already sent is handled.   *)
RunOps == {i \in DOMAIN inbox : inbox[i].op \in {"start", "stop"}}
Heading ==
  IF pending # <<>> THEN pending[Len(pending)]
  ELSE IF RunOps # {} THEN inbox[CHOOSE i \in RunOps : \A j \in RunOps : j <= i].run
  ELSE IF wstate = "running" THEN wrun ELSE NoRun

(* Unless a start overtook an unread ack or a stop overtook the spawn, the  *)
(* worker is headed where the Driver says it is: to the Driver's run while  *)
(* that is running, to no run at all otherwise (driver.ts start and stop    *)
(* against worker.go Start and Stop over two FIFO pipes, through crashes    *)
(* and respawns).                                                           *)
WorkerFollowsDriver ==
  phase = "up" /\ raced = {} =>
    Heading = IF state = "running" /\ child # "none" THEN runId ELSE NoRun

(* A worker with a run, or about to have one, has or will be handed the     *)
(* Driver's newest configuration, also when the configuration changed while *)
(* the child was still being spawned (driver.ts setGw, setProfile and the   *)
(* configure in start's continuation).                                      *)
CfgOps == {i \in DOMAIN inbox : inbox[i].op # "stop"}
HeadingCfg ==
  IF CfgOps # {} THEN inbox[CHOOSE i \in CfgOps : \A j \in CfgOps : j <= i].cfg ELSE wcfg
NewestConfigInForce ==
  phase = "up" /\ child = "up" /\ (wrun # NoRun \/ \E i \in CfgOps : inbox[i].op = "start")
    => HeadingCfg = cfg

(* Absent those two races, a run that is running ends only through stop,    *)
(* a failed spawn or shutdown: never by the ack of an earlier run           *)
(* (driver.ts onStopped does not look at the run id).                       *)
NoForeignAckEndsARun ==
  [][raced = {} /\ state = "running" /\ state' = "idle" => client' = "none"]_vars

(* The Driver's state and run id move only as RunLifecycle allows: a run    *)
(* begins once, under an id never used before, and once asked to stop it is *)
(* never "running" again.                                                   *)
Lifecycle == INSTANCE RunLifecycle
ImplementsLifecycle == Lifecycle!Spec

(* Whatever becomes of the worker, "stopping" does not last (driver.ts      *)
(* GO_STOP_ACK_TIMEOUT_MS): the ack, the backstop or a new run ends it.     *)
ImplementsFairLifecycle == Lifecycle!FairSpec

(* After shutdown no worker process is left behind, one that was being      *)
(* spawned included (goClient.ts shutdown).                                 *)
ShutdownReaps == phase = "closing" ~> child = "none"

=============================================================================
