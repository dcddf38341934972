-------------------------- MODULE RunControlProofs --------------------------
(***************************************************************************)
(* Proofs about RunControl, for every number of runs, configurations and   *)
(* crashes.                                                                *)
(***************************************************************************)
EXTENDS RunControl, WellFoundedInduction, TLAPS

USE RunControlAssumption DEF RunControlAssumption

(* The empty sequence is a sequence over any set.                          *)
LEMMA EmptySeqType == \A S : <<>> \in Seq(S)
OBVIOUS

(* Appending a member of the set keeps it one.                              *)
LEMMA AppendType ==
  ASSUME NEW S, NEW s \in Seq(S), NEW e \in S
  PROVE  Append(s, e) \in Seq(S)
OBVIOUS

(* Appending a message the control plane may send keeps the inbox typed.    *)
LEMMA SentType ==
  ASSUME inbox \in Seq(Messages), NEW m \in Messages
  PROVE  Sent(m) \in Seq(Messages)
BY DEF Sent

(* The messages the actions send are control messages.                      *)
LEMMA MessageTypes ==
  /\ \A r \in Runs, c \in Configs : StartMsg(r, c) \in Messages
  /\ \A c \in Configs : ConfigMsg(c) \in Messages
  /\ StopMsg \in Messages
BY DEF StartMsg, ConfigMsg, StopMsg, Messages, Runs, RunOrNone, Configs, NoRun

(* Init establishes the type invariant.                                     *)
LEMMA InitTypeOK == Init => TypeOK
BY EmptySeqType DEF Init, TypeOK, RunOrNone, Runs, NoRun, Configs

(* Every step of the API keeps it.                                          *)
LEMMA ApiTypeOK == TypeOK /\ Api => TypeOK'
<1> SUFFICES ASSUME TypeOK, Api PROVE TypeOK'
  OBVIOUS
<1> USE DEF TypeOK
<1>1. ASSUME NEW c \in Configs, NEW limit \in Limits, Start(c, limit) PROVE TypeOK'
  <2> DEFINE r == lastRun + 1
  <2>1. r \in Runs /\ r \in RunOrNone /\ r # NoRun
    BY <1>1 DEF Start, Runs, RunOrNone, NoRun
  <2>2. StartMsg(r, c) \in Messages
    BY <2>1, MessageTypes
  <2>3. inbox' = Append(inbox, StartMsg(r, c)) \/ UNCHANGED inbox
    BY <1>1 DEF Start
  <2>4. inbox' \in Seq(Messages)
    BY <2>2, <2>3
  <2>5. pending' = Append(pending, r) \/ UNCHANGED pending
    BY <1>1 DEF Start
  <2>6. pending' \in Seq(Runs)
    <3>1. Append(pending, r) \in Seq(Runs)
      <4> HIDE DEF r
      <4> QED
        BY <2>1, AppendType
    <3> QED
      BY <2>5, <3>1
  <2>7. durationTimer' \in RunOrNone /\ stopTimer' \in RunOrNone
    BY <1>1, <2>1 DEF Start, StartTimers, RunOrNone, NoRun
  <2> QED
    BY <1>1, <2>1, <2>4, <2>6, <2>7 DEF Start, pipeVars, workerVars
<1>2. CASE StartRefused
  BY <1>2 DEF StartRefused, pipeVars, workerVars
<1>3. CASE StartWhileRunning
  BY <1>3 DEF StartWhileRunning, pipeVars, workerVars
<1>4. CASE Stop
  <2>1. inbox' \in Seq(Messages)
    BY <1>4, SentType, MessageTypes DEF Stop, StopRun
  <2> QED
    BY <1>4, <2>1 DEF Stop, StopRun, workerVars, RunOrNone, NoRun
<1>5. ASSUME NEW c \in Configs, SetConfig(c) PROVE TypeOK'
  <2>1. inbox' \in Seq(Messages)
    BY <1>5, SentType, MessageTypes DEF SetConfig
  <2> QED
    BY <1>5, <2>1 DEF SetConfig, driverVars, workerVars
<1>6. CASE Shutdown
  <2>1. inbox' \in Seq(Messages)
    BY <1>6, SentType, MessageTypes DEF Shutdown
  <2> QED
    BY <1>6, <2>1 DEF Shutdown, GoIdle, workerVars, RunOrNone, NoRun
<1> QED
  BY <1>1, <1>2, <1>3, <1>4, <1>5, <1>6 DEF Api

(* A child that goes takes its unread input with it.                        *)
LEMMA ChildGoneType ==
  ASSUME TypeOK, ChildGone
  PROVE  /\ child' \in {"none", "spawning", "up"} /\ inbox' \in Seq(Messages) /\ outbox' \in Seq(RunOrNone)
         /\ wstate' = "idle" /\ wrun' \in RunOrNone /\ wcfg' \in 0..MaxCfg
<1>1. PICK n \in 0..Len(outbox) : outbox' = SubSeq(outbox, 1, n)
  BY DEF ChildGone
<1>2. outbox' \in Seq(RunOrNone)
  BY <1>1 DEF TypeOK
<1> QED
  BY <1>2 DEF ChildGone, TypeOK, RunOrNone, NoRun

(* So does every other step.                                                *)
LEMMA NextTypeOK == TypeOK /\ [Next]_vars => TypeOK'
<1> SUFFICES ASSUME TypeOK, [Next]_vars PROVE TypeOK'
  OBVIOUS
<1> USE DEF TypeOK
<1>1. CASE Api
  BY <1>1, ApiTypeOK
<1>2. CASE DurationElapses
  <2>1. UNCHANGED <<cfg, pending, child, outbox, wstate, wrun, wcfg, phase, lastRun, crashes>>
    BY <1>2 DEF DurationElapses, workerVars
  <2>2. CASE state = "running"
    <3>1. StopRun
      BY <1>2, <2>2 DEF DurationElapses
    <3>2. inbox' \in Seq(Messages)
      BY <3>1, SentType, MessageTypes DEF StopRun
    <3> QED
      BY <2>1, <2>2, <3>1, <3>2 DEF StopRun, RunOrNone, NoRun
  <2>3. CASE state # "running"
    <3>1. durationTimer' = NoRun
          /\ UNCHANGED <<state, runId, stopTimer, client, generatorError, inbox, raced>>
      BY <1>2, <2>3 DEF DurationElapses
    <3> QED
      BY <2>1, <3>1 DEF RunOrNone, NoRun
  <2> QED
    BY <2>2, <2>3
<1>3. CASE AckTimeout
  BY <1>3 DEF AckTimeout, GoIdle, pipeVars, workerVars, RunOrNone, NoRun
<1>4. CASE RecvStopped
  BY <1>4 DEF RecvStopped, GoIdle, workerVars, RunOrNone, NoRun
<1>5. CASE SpawnOk
  <2>1. \A i \in DOMAIN pending : StartMsg(pending[i], cfg) \in Messages
    BY MessageTypes
  <2>2. inbox' \in Seq(Messages)
    BY <1>5, <2>1 DEF SpawnOk
  <2> QED
    BY <1>5, <2>2, EmptySeqType DEF SpawnOk, driverVars, workerVars
<1>6. CASE SpawnFail
  BY <1>6, EmptySeqType DEF SpawnFail, GoIdle, pipeVars, workerVars, RunOrNone, NoRun
<1>7. CASE Crash
  <2>1. ChildGone
    BY <1>7 DEF Crash
  <2> QED
    BY <1>7, <2>1, ChildGoneType DEF Crash, driverVars
<1>8. CASE ClosingExit
  <2>1. ChildGone
    BY <1>8 DEF ClosingExit
  <2> QED
    BY <1>8, <2>1, ChildGoneType DEF ClosingExit, driverVars
<1>9. CASE HandleLine
  <2>1. Head(inbox) \in Messages /\ inbox' \in Seq(Messages)
    BY <1>9 DEF HandleLine
  <2> QED
    BY <1>9, <2>1 DEF HandleLine, Messages, driverVars
<1>10. CASE StopCompletes
  BY <1>10 DEF StopCompletes, driverVars, RunOrNone, NoRun
<1>11. CASE StopWedges
  BY <1>11 DEF StopWedges, driverVars, pipeVars
<1>12. CASE UNCHANGED vars
  BY <1>12 DEF vars, driverVars, pipeVars, workerVars
<1> QED
  BY <1>1, <1>2, <1>3, <1>4, <1>5, <1>6, <1>7, <1>8, <1>9, <1>10, <1>11, <1>12
  DEF Next, Spawned, Drain

(* The fields of the Driver and the lines on both pipes keep their shapes,  *)
(* and the Driver names a run exactly when it is not idle.                  *)
THEOREM TypeCorrect == Spec => []TypeOK
<1>1. Init => TypeOK
  BY InitTypeOK
<1>2. TypeOK /\ [Next]_vars => TypeOK'
  BY NextTypeOK
<1> QED
  BY <1>1, <1>2, PTL DEF Spec
-----------------------------------------------------------------------------
(* What a step of RunControl does to the four fields the Driver's timers    *)
(* are about: every action is one of these seven, and RunLifecycle's steps  *)
(* are among them.                                                          *)
TimerView == <<state, runId, durationTimer, stopTimer, lastRun>>

Begins ==
  /\ state # "running" /\ lastRun < MaxRuns /\ lastRun' = lastRun + 1
  /\ state' = "running" /\ runId' = lastRun + 1
  /\ durationTimer' \in {NoRun, lastRun + 1} /\ stopTimer' = NoRun
AsksStop ==
  /\ state # "idle" /\ state' = "stopping" /\ durationTimer' = NoRun /\ stopTimer' = runId
  /\ UNCHANGED <<runId, lastRun>>
WatchdogOff ==
  state # "running" /\ durationTimer' = NoRun /\ UNCHANGED <<state, runId, stopTimer, lastRun>>
BackstopFires ==
  /\ stopTimer # NoRun /\ stopTimer' = NoRun
  /\ IF state = "stopping" THEN state' = "idle" /\ runId' = NoRun ELSE UNCHANGED <<state, runId>>
  /\ UNCHANGED <<durationTimer, lastRun>>
Acked ==
  /\ state' = "idle" /\ runId' = NoRun /\ stopTimer' = NoRun
  /\ UNCHANGED <<durationTimer, lastRun>>
GivesUp ==
  /\ state' = "idle" /\ runId' = NoRun /\ stopTimer' = NoRun /\ durationTimer' = NoRun
  /\ UNCHANGED lastRun
TimerStep ==
  \/ Begins \/ AsksStop \/ WatchdogOff \/ BackstopFires \/ Acked \/ GivesUp
  \/ UNCHANGED TimerView

LEMMA NextIsTimerStep == TypeOK /\ [Next]_vars => TimerStep
<1> SUFFICES ASSUME TypeOK, [Next]_vars PROVE TimerStep
  OBVIOUS
<1> USE DEF TimerStep, TimerView
<1>1. ASSUME NEW c \in Configs, NEW limit \in Limits, Start(c, limit) PROVE Begins
  BY <1>1 DEF Start, StartTimers, Begins
<1>2. CASE StartRefused \/ StartWhileRunning
  BY <1>2 DEF StartRefused, StartWhileRunning
<1>3. CASE Stop
  BY <1>3 DEF Stop, StopRun, AsksStop
<1>4. ASSUME NEW c \in Configs, SetConfig(c) PROVE UNCHANGED TimerView
  BY <1>4 DEF SetConfig, driverVars
<1>5. CASE Shutdown
  BY <1>5 DEF Shutdown, GoIdle, GivesUp
<1>6. CASE DurationElapses
  BY <1>6 DEF DurationElapses, StopRun, AsksStop, WatchdogOff
<1>7. CASE AckTimeout
  BY <1>7 DEF AckTimeout, GoIdle, BackstopFires
<1>8. CASE RecvStopped
  BY <1>8 DEF RecvStopped, GoIdle, Acked
<1>9. CASE SpawnOk \/ Crash \/ ClosingExit \/ HandleLine \/ Drain
  BY <1>9 DEF SpawnOk, Crash, ClosingExit, HandleLine, Drain, StopCompletes, StopWedges, driverVars
<1>10. CASE SpawnFail
  BY <1>10 DEF SpawnFail, GoIdle, GivesUp
<1>11. CASE UNCHANGED vars
  BY <1>11 DEF vars, driverVars
<1> QED
  BY <1>1, <1>2, <1>3, <1>4, <1>5, <1>6, <1>7, <1>8, <1>9, <1>10, <1>11 DEF Next, Api, Spawned

(* Both timers always belong to the run the Driver is in, whatever the      *)
(* order of stops, acks, watchdogs, backstops, spawn failures and new runs. *)
THEOREM TimersAreOwned == Spec => []TimersOwnTheirRun
<1>1. Init => TimersOwnTheirRun
  BY DEF Init, TimersOwnTheirRun
<1>2. TypeOK /\ TimersOwnTheirRun /\ [Next]_vars => TimersOwnTheirRun'
  <2> SUFFICES ASSUME TypeOK, TimersOwnTheirRun, TimerStep PROVE TimersOwnTheirRun'
    BY NextIsTimerStep
  <2> USE DEF TimersOwnTheirRun
  <2>1. CASE Begins
    BY <2>1 DEF Begins
  <2>2. CASE AsksStop
    BY <2>2 DEF AsksStop
  <2>3. CASE WatchdogOff
    BY <2>3 DEF WatchdogOff
  <2>4. CASE BackstopFires
    BY <2>4 DEF BackstopFires
  <2>5. CASE Acked
    BY <2>5 DEF Acked
  <2>6. CASE GivesUp
    BY <2>6 DEF GivesUp
  <2>7. CASE UNCHANGED TimerView
    BY <2>7 DEF TimerView
  <2> QED
    BY <2>1, <2>2, <2>3, <2>4, <2>5, <2>6, <2>7 DEF TimerStep
<1> QED
  BY <1>1, <1>2, TypeCorrect, PTL DEF Spec

(* The Driver implements RunLifecycle: every step of the control plane, of  *)
(* its timers, pipes and processes is a step of it or leaves it alone.      *)
THEOREM LifecycleImplemented == Spec => ImplementsLifecycle
<1>1. Init => Lifecycle!Init
  BY DEF Init, Lifecycle!Init, NoRun
<1>2. TypeOK /\ [Next]_vars => [Lifecycle!Next]_Lifecycle!vars
  <2> SUFFICES ASSUME TypeOK, TimerStep PROVE [Lifecycle!Next]_Lifecycle!vars
    BY NextIsTimerStep
  <2> USE DEF Lifecycle!Next, Lifecycle!vars
  <2>1. CASE Begins
    BY <2>1 DEF Begins, Lifecycle!Begin
  <2>2. CASE AsksStop
    BY <2>2 DEF AsksStop, Lifecycle!AskStop
  <2>3. CASE WatchdogOff
    BY <2>3 DEF WatchdogOff
  <2>4. CASE BackstopFires \/ Acked \/ GivesUp
    BY <2>4 DEF BackstopFires, Acked, GivesUp, Lifecycle!End, TypeOK, NoRun
  <2>5. CASE UNCHANGED TimerView
    BY <2>5 DEF TimerView
  <2> QED
    BY <2>1, <2>2, <2>3, <2>4, <2>5 DEF TimerStep
<1> QED
  BY <1>1, <1>2, TypeCorrect, PTL DEF Spec, ImplementsLifecycle, Lifecycle!Spec
-----------------------------------------------------------------------------
(* A nonempty set of naturals has a least member, and a nonempty set of     *)
(* indices a last one: what CHOOSE needs in Heading and HeadingCfg.         *)
LEMMA LeastNat ==
  ASSUME NEW T, T \subseteq Nat, T # {}
  PROVE  \E x \in T : \A y \in T : x <= y
<1> DEFINE R == OpToRel(<, Nat)
<1>1. IsWellFoundedOn(R, Nat)
  BY NatLessThanWellFounded
<1>2. \A x, y \in Nat : x < y => <<x, y>> \in R
  BY DEF OpToRel
<1> HIDE DEF R
<1>3. PICK x \in T : \A y \in T : ~ (<<y, x>> \in R)
  BY <1>1, WFMin
<1>4. ASSUME NEW y \in T PROVE x <= y
  <2>1. x \in Nat /\ y \in Nat /\ ~ (y < x)
    BY <1>2, <1>3
  <2> QED
    BY <2>1
<1> QED
  BY <1>4

LEMMA LastIndex ==
  ASSUME NEW n \in Nat, NEW S, S \subseteq 1..n, S # {}
  PROVE  \E i \in S : \A j \in S : j <= i
<1> DEFINE T == {n - i : i \in S}
<1>1. \A i \in S : i \in Nat /\ n - i \in Nat
  OBVIOUS
<1>2. T \subseteq Nat /\ T # {}
  BY <1>1
<1>3. PICK x \in T : \A y \in T : x <= y
  <2> HIDE DEF T
  <2> QED
    BY <1>2, LeastNat
<1>4. PICK i \in S : x = n - i
  OBVIOUS
<1>5. ASSUME NEW j \in S PROVE j <= i
  <2>1. n - i <= n - j
    BY <1>3, <1>4
  <2> QED
    BY <1>1, <2>1
<1> QED
  BY <1>5
-----------------------------------------------------------------------------
(* One more line in the pipe, and one less.                                 *)
LEMMA LineAppended ==
  ASSUME inbox \in Seq(Messages), NEW m \in Messages, inbox' = Append(inbox, m)
  PROVE  LET n == Len(inbox) IN
         /\ n \in Nat /\ DOMAIN inbox = 1..n /\ DOMAIN inbox' = 1..(n + 1)
         /\ CfgOps \subseteq 1..n /\ RunOps \subseteq 1..n
         /\ inbox'[n + 1] = m /\ \A i \in 1..n : inbox'[i] = inbox[i]
         /\ CfgOps' = IF m.op # "stop" THEN CfgOps \cup {n + 1} ELSE CfgOps
         /\ RunOps' = IF m.op \in {"start", "stop"} THEN RunOps \cup {n + 1} ELSE RunOps
<1>1. /\ Len(inbox) \in Nat /\ DOMAIN inbox = 1..Len(inbox) /\ DOMAIN inbox' = 1..(Len(inbox) + 1)
      /\ inbox'[Len(inbox) + 1] = m /\ \A i \in 1..Len(inbox) : inbox'[i] = inbox[i]
  OBVIOUS
<1>2. CfgOps' = IF m.op # "stop" THEN CfgOps \cup {Len(inbox) + 1} ELSE CfgOps
  BY <1>1 DEF CfgOps
<1>3. RunOps' = IF m.op \in {"start", "stop"} THEN RunOps \cup {Len(inbox) + 1} ELSE RunOps
  BY <1>1 DEF RunOps
<1> QED
  BY <1>1, <1>2, <1>3 DEF CfgOps, RunOps

LEMMA LineTaken ==
  ASSUME inbox \in Seq(Messages), inbox # <<>>, inbox' = Tail(inbox)
  PROVE  /\ Len(inbox) \in Nat \ {0} /\ DOMAIN inbox = 1..Len(inbox)
         /\ DOMAIN inbox' = 1..(Len(inbox) - 1) /\ Head(inbox) = inbox[1]
         /\ \A i \in 1..(Len(inbox) - 1) : inbox'[i] = inbox[i + 1]
         /\ CfgOps' = {i \in 1..(Len(inbox) - 1) : i + 1 \in CfgOps}
         /\ RunOps' = {i \in 1..(Len(inbox) - 1) : i + 1 \in RunOps}
<1>1. /\ Len(inbox) \in Nat \ {0} /\ DOMAIN inbox = 1..Len(inbox)
      /\ DOMAIN inbox' = 1..(Len(inbox) - 1) /\ Head(inbox) = inbox[1]
      /\ \A i \in 1..(Len(inbox) - 1) : inbox'[i] = inbox[i + 1]
  OBVIOUS
<1> QED
  BY <1>1 DEF CfgOps, RunOps

(* What is in the pipes when there is no child or none yet, and what the    *)
(* lines in them look like.                                                 *)
Pipes ==
  /\ child # "up" => inbox = <<>> /\ wstate = "idle" /\ wrun = NoRun
  /\ pending # <<>> => child = "spawning"
  /\ phase = "up" /\ child # "none" => client = "live"
  /\ wstate = "running" => wrun \in Runs
  /\ \A i \in DOMAIN inbox :
       /\ inbox[i].op = "start" => inbox[i].run \in Runs
       /\ inbox[i].op = "stop" => inbox[i].run = NoRun

LEMMA PipesStep == TypeOK /\ Pipes /\ [Next]_vars => Pipes'
<1> SUFFICES ASSUME TypeOK, Pipes, [Next]_vars PROVE Pipes'
  OBVIOUS
<1>0. inbox \in Seq(Messages) /\ pending \in Seq(Runs) /\ lastRun \in RunOrNone
  BY DEF TypeOK
<1> USE DEF Pipes
<1>1. ASSUME NEW m \in Messages, inbox' = Append(inbox, m), child = "up",
             m.op = "start" => m.run \in Runs, m.op = "stop" => m.run = NoRun
      PROVE  \A i \in DOMAIN inbox' : /\ inbox'[i].op = "start" => inbox'[i].run \in Runs
                                      /\ inbox'[i].op = "stop" => inbox'[i].run = NoRun
  BY <1>0, <1>1, LineAppended
<1>2. ASSUME NEW c \in Configs, NEW limit \in Limits, Start(c, limit) PROVE Pipes'
  <2>1. lastRun + 1 \in Runs
    BY <1>0, <1>2 DEF Start, Runs, RunOrNone
  <2>2. UNCHANGED <<wstate, wrun, phase>> /\ client' = "live"
    BY <1>2 DEF Start, workerVars
  <2>3. CASE child = "up"
    <3>1. inbox' = Append(inbox, StartMsg(lastRun + 1, c)) /\ UNCHANGED <<child, pending>>
      BY <1>2, <2>3 DEF Start
    <3>2. StartMsg(lastRun + 1, c) \in Messages
      BY <2>1, MessageTypes
    <3> QED
      BY <1>1, <2>1, <2>2, <2>3, <3>1, <3>2 DEF StartMsg
  <2>4. CASE child # "up"
    BY <1>2, <2>2, <2>4 DEF Start
  <2> QED
    BY <2>3, <2>4
<1>3. ASSUME NEW m \in {StopMsg} \cup {ConfigMsg(c) : c \in Configs}, inbox' = Sent(m) \/ inbox' = inbox,
             UNCHANGED <<child, pending, wstate, wrun>>,
             phase' = "up" => phase = "up" /\ UNCHANGED client
      PROVE  Pipes'
  <2>1. m \in Messages /\ m.op # "start" /\ m.run = NoRun
    BY <1>3, MessageTypes DEF StopMsg, ConfigMsg
  <2>2. CASE inbox' = inbox
    BY <1>3, <2>2
  <2>3. CASE inbox' # inbox
    <3>1. child = "up" /\ inbox' = Append(inbox, m)
      BY <1>3, <2>3 DEF Sent
    <3> QED
      BY <1>1, <1>3, <2>1, <3>1
  <2> QED
    BY <2>2, <2>3
<1>4. CASE Stop
  BY <1>3, <1>4 DEF Stop, StopRun, workerVars
<1>5. CASE DurationElapses
  BY <1>3, <1>5 DEF DurationElapses, StopRun, workerVars
<1>6. ASSUME NEW c \in Configs, SetConfig(c) PROVE Pipes'
  BY <1>3, <1>6 DEF SetConfig, driverVars, workerVars
<1>7. CASE Shutdown
  BY <1>3, <1>7 DEF Shutdown, workerVars
<1>8. CASE StartRefused \/ StartWhileRunning \/ AckTimeout \/ RecvStopped \/ UNCHANGED vars
  BY <1>8 DEF StartRefused, StartWhileRunning, AckTimeout, RecvStopped, vars, driverVars, pipeVars,
              workerVars
<1>9. CASE SpawnOk
  <2>1. /\ DOMAIN inbox' = DOMAIN pending
        /\ \A i \in DOMAIN pending : inbox'[i] = StartMsg(pending[i], cfg) /\ pending[i] \in Runs
    BY <1>0, <1>9 DEF SpawnOk
  <2>2. UNCHANGED <<wstate, wrun, client, phase>> /\ child' = "up" /\ pending' = <<>> /\ child = "spawning"
    BY <1>9 DEF SpawnOk, driverVars, workerVars
  <2> QED
    BY <2>1, <2>2 DEF StartMsg
<1>10. CASE SpawnFail
  BY <1>10 DEF SpawnFail, workerVars
<1>11. CASE Crash \/ ClosingExit
  BY <1>11 DEF Crash, ClosingExit, ChildGone, driverVars
<1>12. CASE HandleLine
  <2>1. inbox # <<>> /\ inbox' = Tail(inbox) /\ child = "up"
        /\ UNCHANGED <<client, pending, child, phase>>
    BY <1>12 DEF HandleLine, driverVars
  <2>2. wstate' = "running" => wrun' \in Runs
    BY <1>0, <1>12, <2>1, LineTaken DEF HandleLine
  <2> QED
    BY <1>0, <2>1, <2>2, LineTaken
<1>13. CASE StopCompletes \/ StopWedges
  BY <1>13 DEF StopCompletes, StopWedges, driverVars, pipeVars
<1> QED
  BY <1>2, <1>4, <1>5, <1>6, <1>7, <1>8, <1>9, <1>10, <1>11, <1>12, <1>13
  DEF Next, Api, Spawned, Drain

LEMMA PipesInit == Init => Pipes
  BY DEF Init, Pipes

(* The line that comes last among those at S, before and after a line is    *)
(* taken.                                                                   *)
LastAt(S, i) == i \in S /\ \A j \in S : j <= i

LEMMA OneTaken ==
  ASSUME NEW n \in Nat \ {0}, NEW S, S \subseteq 1..n,
         NEW T, T = {i \in 1..(n - 1) : i + 1 \in S}
  PROVE  /\ \A i : LastAt(T, i) => LastAt(S, i + 1)
         /\ T = {} => S \subseteq {1}
<1>1. ASSUME NEW j \in S, j # 1 PROVE j - 1 \in T /\ (j - 1) + 1 = j
  <2>1. j \in 1..n
    OBVIOUS
  <2> QED
    BY <1>1, <2>1
<1>2. ASSUME NEW i, LastAt(T, i) PROVE LastAt(S, i + 1)
  <2>1. i \in 1..(n - 1) /\ i + 1 \in S /\ \A j \in T : j <= i
    BY <1>2 DEF LastAt
  <2>2. ASSUME NEW j \in S PROVE j <= i + 1
    <3>1. j \in 1..n
      OBVIOUS
    <3>2. CASE j = 1
      BY <2>1, <3>2
    <3>3. CASE j # 1
      <4>1. j - 1 <= i
        BY <1>1, <2>1, <3>3
      <4> QED
        BY <2>1, <3>1, <4>1
    <3> QED
      BY <3>2, <3>3
  <2> QED
    BY <2>1, <2>2 DEF LastAt
<1> QED
  BY <1>1, <1>2

(* The last configuration in the pipe, or the one the worker has when there *)
(* is none and it has a run, is the Driver's.                               *)
CfgInv ==
  phase = "up" /\ child = "up" =>
    /\ \A i \in CfgOps : LastAt(CfgOps, i) => inbox[i].cfg = cfg
    /\ CfgOps = {} /\ wrun # NoRun => wcfg = cfg

LEMMA CfgInvStep == TypeOK /\ Pipes /\ CfgInv /\ [Next]_vars => CfgInv'
<1> SUFFICES ASSUME TypeOK, Pipes, CfgInv, [Next]_vars, phase' = "up", child' = "up"
             PROVE  CfgInv'
  BY DEF CfgInv
<1>0. inbox \in Seq(Messages) /\ pending \in Seq(Runs) /\ lastRun \in RunOrNone /\ cfg \in Configs
  BY DEF TypeOK
<1> USE DEF CfgInv, LastAt
<1>1. ASSUME UNCHANGED <<inbox, cfg, wcfg, child, phase>>, wrun' # NoRun => wrun' = wrun PROVE CfgInv'
  BY <1>1 DEF CfgOps
<1>2. ASSUME NEW m \in Messages, inbox' = Append(inbox, m), m.op # "stop", m.cfg = cfg' PROVE CfgInv'
  BY <1>0, <1>2, LineAppended
<1>3. ASSUME inbox' = Append(inbox, StopMsg), UNCHANGED <<cfg, wcfg, wrun, child, phase>> PROVE CfgInv'
  BY <1>0, <1>3, LineAppended, MessageTypes DEF StopMsg
<1>4. ASSUME NEW c \in Configs, NEW limit \in Limits, Start(c, limit) PROVE CfgInv'
  <2>1. inbox' = Append(inbox, StartMsg(lastRun + 1, c)) /\ cfg' = c /\ lastRun + 1 \in Runs
    BY <1>0, <1>4 DEF Start, Runs, RunOrNone
  <2>2. StartMsg(lastRun + 1, c) \in Messages
    BY <2>1, MessageTypes
  <2> QED
    BY <1>2, <2>1, <2>2 DEF StartMsg
<1>5. CASE Stop \/ DurationElapses
  BY <1>1, <1>3, <1>5 DEF Stop, DurationElapses, StopRun, Sent, workerVars
<1>6. ASSUME NEW c \in Configs, SetConfig(c) PROVE CfgInv'
  <2>1. inbox' = Append(inbox, ConfigMsg(c)) /\ cfg' = c
    BY <1>6 DEF SetConfig, Sent, Pipes
  <2> QED
    BY <1>2, <2>1, MessageTypes DEF ConfigMsg
<1>7. CASE StartRefused \/ StartWhileRunning \/ AckTimeout \/ RecvStopped \/ UNCHANGED vars
  BY <1>1, <1>7 DEF StartRefused, StartWhileRunning, AckTimeout, RecvStopped, vars, driverVars,
                    pipeVars, workerVars
<1>8. CASE SpawnOk
  <2>1. /\ DOMAIN inbox' = DOMAIN pending /\ UNCHANGED <<cfg, wrun>> /\ wrun = NoRun
        /\ \A i \in DOMAIN pending : inbox'[i] = StartMsg(pending[i], cfg)
    BY <1>0, <1>8 DEF SpawnOk, Pipes, workerVars
  <2> QED
    BY <2>1 DEF CfgOps, StartMsg
<1>9. CASE HandleLine
  <2>1. inbox # <<>> /\ inbox' = Tail(inbox) /\ UNCHANGED <<cfg, child, phase>>
    BY <1>9 DEF HandleLine, driverVars
  <2>2. /\ wcfg' = IF inbox[1].op = "stop" THEN wcfg ELSE inbox[1].cfg
        /\ inbox[1].op = "stop" => wrun' = wrun
    BY <1>0, <1>9, <2>1, LineTaken DEF HandleLine
  <2>0. /\ Len(inbox) \in Nat \ {0} /\ CfgOps \subseteq 1..Len(inbox)
        /\ CfgOps' = {i \in 1..(Len(inbox) - 1) : i + 1 \in CfgOps}
    BY <1>0, <2>1, LineTaken DEF CfgOps
  <2>5. (\A i : LastAt(CfgOps', i) => LastAt(CfgOps, i + 1)) /\ (CfgOps' = {} => CfgOps \subseteq {1})
    <3> HIDE DEF LastAt
    <3> QED
      BY <2>0, OneTaken
  <2>3. ASSUME NEW i \in CfgOps', LastAt(CfgOps, i)' PROVE inbox'[i].cfg = cfg
    <3>1. i + 1 \in CfgOps /\ inbox'[i] = inbox[i + 1]
      BY <1>0, <2>1, LineTaken
    <3>2. LastAt(CfgOps, i + 1)
      BY <2>3, <2>5
    <3> QED
      BY <2>1, <3>1, <3>2
  <2>4. ASSUME CfgOps' = {}, wrun' # NoRun PROVE wcfg' = cfg
    <3>1. CfgOps \subseteq {1}
      BY <2>4, <2>5
    <3>2. CASE inbox[1].op = "stop"
      BY <2>1, <2>2, <2>4, <3>1, <3>2 DEF CfgOps
    <3>3. CASE inbox[1].op # "stop"
      <4>1. CfgOps = {1}
        BY <1>0, <2>1, <3>1, <3>3, LineTaken DEF CfgOps
      <4> QED
        BY <2>1, <2>2, <3>3, <4>1
    <3> QED
      BY <3>2, <3>3
  <2> QED
    BY <2>1, <2>3, <2>4
<1>10. CASE StopCompletes \/ StopWedges
  BY <1>1, <1>10 DEF StopCompletes, StopWedges, driverVars, pipeVars
<1> QED
  BY <1>4, <1>5, <1>6, <1>7, <1>8, <1>9, <1>10
  DEF Next, Api, Spawned, Drain, Shutdown, SpawnFail, Crash, ClosingExit, ChildGone

(* A worker with a run has, or will have been handed by the time it has     *)
(* read what is in its pipe, the Driver's newest configuration: whatever    *)
(* was set while the child was being spawned, while it was stopping, or     *)
(* over a worker that died.                                                 *)
THEOREM NewestConfigArrives == Spec => []NewestConfigInForce
<1> DEFINE Inv == TypeOK /\ Pipes /\ CfgInv
<1>1. Inv => NewestConfigInForce
  <2> SUFFICES ASSUME Inv, phase = "up", child = "up",
                      wrun # NoRun \/ \E i \in CfgOps : inbox[i].op = "start"
               PROVE  HeadingCfg = cfg
    BY DEF NewestConfigInForce
  <2>1. CASE CfgOps = {}
    BY <2>1 DEF CfgInv, HeadingCfg
  <2>2. CASE CfgOps # {}
    <3>1. Len(inbox) \in Nat /\ CfgOps \subseteq 1..Len(inbox)
      BY DEF TypeOK, CfgOps
    <3>2. \E i \in CfgOps : \A j \in CfgOps : j <= i
      BY <2>2, <3>1, LastIndex
    <3> DEFINE last == CHOOSE i \in CfgOps : \A j \in CfgOps : j <= i
    <3>3. last \in CfgOps /\ \A j \in CfgOps : j <= last
      BY <3>2
    <3>4. inbox[last].cfg = cfg
      <4> HIDE DEF last
      <4> QED
        BY <3>3 DEF CfgInv, LastAt
    <3> QED
      BY <2>2, <3>4 DEF HeadingCfg
  <2> QED
    BY <2>1, <2>2
<1>2. Init => Inv
  BY InitTypeOK, PipesInit DEF Init, CfgInv
<1>3. Inv /\ [Next]_vars => Inv'
  BY NextTypeOK, PipesStep, CfgInvStep
<1> QED
  BY <1>1, <1>2, <1>3, PTL DEF Spec
-----------------------------------------------------------------------------
(* Unless a start overtook an ack, no ack is on its way to a Driver that is *)
(* running.                                                                 *)
AckInv == raced = {} /\ AckOutstanding => state # "running"

LEMMA AckInvStep == TypeOK /\ Pipes /\ AckInv /\ [Next]_vars => AckInv'
<1> SUFFICES ASSUME TypeOK, Pipes, AckInv, [Next]_vars, raced' = {} PROVE AckInv'
  BY DEF AckInv
<1>0. inbox \in Seq(Messages) /\ outbox \in Seq(RunOrNone) /\ pending \in Seq(Runs)
  BY DEF TypeOK
<1> USE DEF AckInv
<1>1. ASSUME NEW c \in Configs, NEW limit \in Limits, Start(c, limit) PROVE AckInv'
  <2>1. ~AckOutstanding
    BY <1>1 DEF Start
  <2>2. StartMsg(lastRun + 1, c) \in Messages
    BY <1>1, MessageTypes DEF Start, TypeOK, Runs, RunOrNone
  <2>3. inbox' = inbox \/ inbox' = Append(inbox, StartMsg(lastRun + 1, c))
    BY <1>1 DEF Start
  <2>4. \A i \in DOMAIN inbox' : inbox'[i].op # "stop"
    BY <1>0, <2>1, <2>2, <2>3, LineAppended DEF AckOutstanding, StartMsg
  <2> QED
    BY <1>1, <2>1, <2>4 DEF Start, AckOutstanding, workerVars
<1>2. ASSUME state' # "running" PROVE AckInv'
  BY <1>2
<1>3. CASE Stop \/ AckTimeout \/ SpawnFail \/ Shutdown
  BY <1>2, <1>3 DEF Stop, StopRun, AckTimeout, SpawnFail, Shutdown, GoIdle, AckOutstanding, pipeVars,
                    workerVars
<1>4. ASSUME UNCHANGED <<state, raced>>, AckOutstanding' => AckOutstanding PROVE AckInv'
  BY <1>4
<1>5. CASE DurationElapses
  <2>1. CASE state = "running"
    BY <1>2, <1>5, <2>1 DEF DurationElapses, StopRun
  <2>2. CASE state # "running"
    BY <1>5, <2>2 DEF DurationElapses
  <2> QED
    BY <2>1, <2>2
<1>6. CASE StartRefused \/ StartWhileRunning \/ UNCHANGED vars
  BY <1>4, <1>6 DEF StartRefused, StartWhileRunning, vars, AckOutstanding, driverVars, pipeVars, workerVars
<1>7. CASE RecvStopped
  BY <1>2, <1>7 DEF RecvStopped, GoIdle, AckOutstanding
<1>8. ASSUME NEW c \in Configs, SetConfig(c) PROVE AckInv'
  <2>1. inbox' = inbox \/ inbox' = Append(inbox, ConfigMsg(c))
    BY <1>8 DEF SetConfig, Sent
  <2>2. \A i \in DOMAIN inbox' : inbox'[i].op = "stop" => \E j \in DOMAIN inbox : inbox[j].op = "stop"
    <3>1. ConfigMsg(c) \in Messages /\ ConfigMsg(c).op # "stop"
      BY MessageTypes DEF ConfigMsg
    <3>2. CASE inbox' = inbox
      BY <3>2
    <3>3. CASE inbox' = Append(inbox, ConfigMsg(c))
      <4>1. /\ DOMAIN inbox = 1..Len(inbox) /\ DOMAIN inbox' = 1..(Len(inbox) + 1) /\ Len(inbox) \in Nat
            /\ inbox'[Len(inbox) + 1] = ConfigMsg(c) /\ \A i \in 1..Len(inbox) : inbox'[i] = inbox[i]
        BY <1>0, <3>1, <3>3, LineAppended
      <4> QED
        BY <3>1, <4>1
    <3> QED
      BY <2>1, <3>2, <3>3
  <2> QED
    BY <1>4, <1>8, <2>2 DEF SetConfig, AckOutstanding, driverVars, workerVars
<1>9. CASE SpawnOk
  <2>1. \A i \in DOMAIN inbox' : inbox'[i].op = "start"
    BY <1>0, <1>9 DEF SpawnOk, StartMsg
  <2> QED
    BY <1>4, <1>9, <2>1 DEF SpawnOk, AckOutstanding, driverVars, workerVars
<1>10. CASE Crash \/ ClosingExit
  <2>1. ChildGone /\ UNCHANGED <<state, raced>>
    BY <1>10 DEF Crash, ClosingExit, driverVars
  <2>2. PICK n \in 0..Len(outbox) : outbox' = SubSeq(outbox, 1, n)
    BY <2>1 DEF ChildGone
  <2>3. outbox = <<>> => outbox' = <<>>
    BY <1>0, <2>2
  <2> QED
    BY <1>4, <2>1, <2>3 DEF ChildGone, AckOutstanding
<1>11. CASE HandleLine
  <2>1. inbox # <<>> /\ inbox' = Tail(inbox) /\ UNCHANGED <<state, raced, outbox>>
    BY <1>11 DEF HandleLine, driverVars
  <2>2. \A i \in DOMAIN inbox' : inbox'[i].op = "stop" => \E j \in DOMAIN inbox : inbox[j].op = "stop"
    <3>1. \A i \in DOMAIN inbox' : i + 1 \in DOMAIN inbox /\ inbox'[i] = inbox[i + 1]
      BY <1>0, <2>1, LineTaken
    <3> QED
      BY <3>1
  <2>3. wstate' \in {"stopping", "wedged"} => wstate \in {"stopping", "wedged"} \/ inbox[1].op = "stop"
    BY <1>0, <1>11, <2>1, LineTaken DEF HandleLine
  <2>4. 1 \in DOMAIN inbox
    BY <1>0, <2>1, LineTaken
  <2> QED
    BY <1>4, <2>1, <2>2, <2>3, <2>4 DEF AckOutstanding
<1>12. CASE StopCompletes \/ StopWedges
  BY <1>4, <1>12 DEF StopCompletes, StopWedges, AckOutstanding, driverVars, pipeVars
<1> QED
  BY <1>1, <1>3, <1>5, <1>6, <1>7, <1>8, <1>9, <1>10, <1>11, <1>12 DEF Next, Api, Spawned, Drain

LEMMA AckInvInit == Init => AckInv
  BY DEF Init, AckInv

(* While no start has overtaken an unread ack, and no stop a spawn, a run   *)
(* that is running is never ended by the "stopped" line of an earlier one,  *)
(* by its backstop or by its watchdog: only a spawn that fails and shutdown *)
(* end it without a stop.                                                   *)
THEOREM NoAckEndsAnotherRun == Spec => NoForeignAckEndsARun
<1>1. TypeOK /\ AckInv /\ [Next]_vars
        => [raced = {} /\ state = "running" /\ state' = "idle" => client' = "none"]_vars
  <2> SUFFICES ASSUME TypeOK, AckInv, Next, raced = {}, state = "running", state' = "idle"
               PROVE  client' = "none"
    OBVIOUS
  <2>1. outbox = <<>>
    BY DEF AckInv, AckOutstanding
  <2>2. ~RecvStopped /\ ~AckTimeout /\ ~DurationElapses /\ ~Stop
    BY <2>1 DEF RecvStopped, AckTimeout, DurationElapses, Stop, StopRun
  <2>3. \A c \in Configs, limit \in Limits : ~Start(c, limit)
    BY DEF Start
  <2>4. ~StartRefused /\ ~StartWhileRunning /\ ~SpawnOk /\ ~Crash /\ ~ClosingExit /\ ~HandleLine /\ ~Drain
    BY DEF StartRefused, StartWhileRunning, SpawnOk, Crash, ClosingExit, HandleLine, Drain,
           StopCompletes, StopWedges, driverVars
  <2>5. ~ \E c \in Configs : SetConfig(c)
    BY DEF SetConfig, driverVars
  <2> QED
    BY <2>2, <2>3, <2>4, <2>5 DEF Next, Api, Spawned, SpawnFail, Shutdown
<1> DEFINE Inv == TypeOK /\ Pipes /\ AckInv
<1>2. Init => Inv
  BY InitTypeOK, PipesInit, AckInvInit
<1>3. Inv /\ [Next]_vars => Inv'
  BY NextTypeOK, PipesStep, AckInvStep
<1> QED
  BY <1>1, <1>2, <1>3, PTL DEF Spec, NoForeignAckEndsARun
-----------------------------------------------------------------------------
(* Where the Driver says the worker should be heading, and where the pipes  *)
(* and the worker take it, while no start has overtaken an ack and no stop  *)
(* a spawn: one start awaits the spawn at most, a start in the pipe finds   *)
(* the worker idle when it is read, and only stops can follow it.           *)
Target     == IF state = "running" /\ child # "none" THEN runId ELSE NoRun
WorkersRun == IF wstate = "running" THEN wrun ELSE NoRun
StartsFirst ==
  \A i \in RunOps : inbox[i].op = "start" =>
    wstate = "idle" /\ \A j \in RunOps \ {i} : j > i /\ inbox[j].op = "stop"
FollowInv ==
  phase = "up" /\ raced = {} =>
    /\ pending # <<>> => Len(pending) = 1 /\ pending[1] = Target
    /\ \A i \in RunOps : LastAt(RunOps, i) => inbox[i].run = Target
    /\ pending = <<>> /\ RunOps = {} => Target = WorkersRun
    /\ StartsFirst

(* A start that overtakes nothing finds the worker idle and nothing on its  *)
(* way to it.                                                               *)
LEMMA NothingUnderWay ==
  ASSUME TypeOK, Pipes, FollowInv, phase = "up", raced = {}, state # "running", ~AckOutstanding
  PROVE  pending = <<>> /\ RunOps = {} /\ wstate = "idle"
<1>1. Target = NoRun /\ inbox \in Seq(Messages) /\ pending \in Seq(Runs)
  BY DEF Target, TypeOK
<1>2. pending = <<>>
  <2> SUFFICES ASSUME pending # <<>> PROVE FALSE
    OBVIOUS
  <2>1. Len(pending) = 1 /\ pending[1] = NoRun
    BY <1>1 DEF FollowInv
  <2>2. pending[1] \in Runs
    BY <1>1, <2>1
  <2> QED
    BY <2>1, <2>2 DEF Runs, NoRun
<1>3. \A i \in RunOps : inbox[i].op = "start"
  BY DEF RunOps, AckOutstanding
<1>4. RunOps = {}
  <2> SUFFICES ASSUME NEW i \in RunOps PROVE FALSE
    OBVIOUS
  <2>1. inbox[i].run \in Runs /\ i \in Int
    BY <1>1, <1>3 DEF Pipes, RunOps
  <2>2. \A j \in RunOps \ {i} : inbox[j].op = "stop"
    BY <1>3 DEF FollowInv, StartsFirst
  <2>3. LastAt(RunOps, i)
    BY <1>3, <2>1, <2>2 DEF LastAt
  <2>4. inbox[i].run = NoRun
    BY <1>1, <2>3 DEF FollowInv
  <2> QED
    BY <2>1, <2>4 DEF Runs, NoRun
<1>5. wstate = "idle"
  BY <1>1, <1>2, <1>4 DEF AckOutstanding, FollowInv, WorkersRun, Pipes, TypeOK, Runs, NoRun
<1> QED
  BY <1>2, <1>4, <1>5

LEMMA FollowInvStep == TypeOK /\ Pipes /\ AckInv /\ FollowInv /\ [Next]_vars => FollowInv'
<1>a. ASSUME [Next]_vars PROVE raced \subseteq raced'
  BY <1>a DEF Next, Api, Start, StartRefused, StartWhileRunning, Stop, StopRun, SetConfig, Shutdown,
              DurationElapses, AckTimeout, RecvStopped, Spawned, SpawnOk, SpawnFail, Crash,
              ClosingExit, HandleLine, Drain, StopCompletes, StopWedges, vars
<1>b. ASSUME [Next]_vars, phase' = "up" PROVE phase = "up"
  BY <1>b DEF Next, Api, Start, StartRefused, StartWhileRunning, Stop, SetConfig, Shutdown,
              DurationElapses, AckTimeout, RecvStopped, Spawned, SpawnOk, SpawnFail, Crash,
              ClosingExit, HandleLine, Drain, StopCompletes, StopWedges, vars
<1> SUFFICES ASSUME TypeOK, Pipes, AckInv, FollowInv, [Next]_vars,
                    phase = "up", phase' = "up", raced = {}, raced' = {}
             PROVE  FollowInv'
  BY <1>a, <1>b DEF FollowInv
<1>0. /\ inbox \in Seq(Messages) /\ pending \in Seq(Runs) /\ lastRun \in RunOrNone
      /\ wstate \in {"idle", "running", "stopping", "wedged"}
  BY DEF TypeOK
<1> USE DEF FollowInv
<1>1. ASSUME UNCHANGED <<inbox, pending, wstate, wrun>>, Target' = Target PROVE FollowInv'
  BY <1>1 DEF RunOps, LastAt, WorkersRun, StartsFirst
<1>2. ASSUME NEW c \in Configs, NEW limit \in Limits, Start(c, limit) PROVE FollowInv'
  <2> DEFINE r == lastRun + 1
  <2>1. /\ state # "running" /\ ~AckOutstanding /\ state' = "running" /\ runId' = r
        /\ UNCHANGED <<wstate, wrun>>
    BY <1>2 DEF Start, workerVars
  <2>2. pending = <<>> /\ RunOps = {} /\ wstate = "idle"
    BY <2>1, NothingUnderWay
  <2>3. CASE child = "up"
    <3>1. inbox' = Append(inbox, StartMsg(r, c)) /\ UNCHANGED <<child, pending>>
      BY <1>2, <2>3 DEF Start
    <3>2. StartMsg(r, c) \in Messages
      BY <1>0, <1>2, MessageTypes DEF Start, Runs, RunOrNone
    <3>3. RunOps' = {Len(inbox) + 1} /\ inbox'[Len(inbox) + 1] = StartMsg(r, c)
      BY <1>0, <2>2, <3>1, <3>2, LineAppended DEF StartMsg
    <3>4. Target' = r
      BY <2>1, <2>3, <3>1 DEF Target
    <3> QED
      BY <2>1, <2>2, <3>1, <3>3, <3>4 DEF StartMsg, StartsFirst
  <2>4. CASE child # "up"
    <3>1. /\ child' = "spawning" /\ pending' = Append(<<>>, r) /\ UNCHANGED inbox
      BY <1>2, <2>2, <2>4 DEF Start
    <3>2. Target' = r /\ RunOps' = {} /\ Len(pending') = 1 /\ pending'[1] = r /\ pending' # <<>>
      BY <2>1, <2>2, <3>1 DEF Target, RunOps
    <3> QED
      BY <3>2 DEF StartsFirst
  <2> QED
    BY <2>3, <2>4
<1>3. ASSUME StopRun, UNCHANGED <<pending, child, wstate, wrun>> PROVE FollowInv'
  <2>1. pending = <<>> /\ state' = "stopping" /\ inbox' = Sent(StopMsg)
    BY <1>3 DEF StopRun
  <2>2. Target' = NoRun
    BY <2>1 DEF Target
  <2>3. CASE child = "up"
    <3> DEFINE n == Len(inbox)
    <3>1. inbox' = Append(inbox, StopMsg) /\ StopMsg \in Messages /\ StopMsg.op = "stop" /\ StopMsg.run = NoRun
      BY <2>1, <2>3, MessageTypes DEF Sent, StopMsg
    <3>2. /\ n \in Nat /\ RunOps \subseteq 1..n /\ RunOps' = RunOps \cup {n + 1}
          /\ inbox'[n + 1] = StopMsg /\ \A i \in 1..n : inbox'[i] = inbox[i]
      BY <1>0, <3>1, LineAppended
    <3>3. \A i \in RunOps' : LastAt(RunOps, i)' => i = n + 1
      BY <3>2 DEF LastAt
    <3>4. StartsFirst'
      BY <1>3, <3>1, <3>2 DEF StartsFirst
    <3> QED
      BY <1>3, <2>1, <2>2, <3>1, <3>2, <3>3, <3>4
  <2>4. CASE child # "up"
    <3>1. inbox' = inbox /\ RunOps = {} /\ RunOps' = {} /\ WorkersRun' = NoRun
      BY <1>3, <2>1, <2>4 DEF Sent, Pipes, RunOps, WorkersRun
    <3> QED
      BY <1>3, <2>1, <2>2, <3>1 DEF StartsFirst
  <2> QED
    BY <2>3, <2>4
<1>4. CASE Stop
  BY <1>3, <1>4 DEF Stop, workerVars
<1>5. CASE DurationElapses
  <2>1. CASE state = "running"
    BY <1>3, <1>5, <2>1 DEF DurationElapses, workerVars
  <2>2. CASE state # "running"
    BY <1>1, <1>5, <2>2 DEF DurationElapses, workerVars, Target
  <2> QED
    BY <2>1, <2>2
<1>6. ASSUME NEW c \in Configs, SetConfig(c) PROVE FollowInv'
  <2>1. UNCHANGED <<pending, child, wstate, wrun, state, runId>> /\ Target' = Target
    BY <1>6 DEF SetConfig, driverVars, workerVars, Target
  <2>2. CASE inbox' = inbox
    BY <1>1, <2>1, <2>2
  <2>3. CASE inbox' # inbox
    <3>1. inbox' = Append(inbox, ConfigMsg(c)) /\ ConfigMsg(c) \in Messages
          /\ ConfigMsg(c).op = "configure"
      BY <1>6, <2>3, MessageTypes DEF SetConfig, Sent, ConfigMsg
    <3>2. RunOps' = RunOps /\ \A i \in RunOps : inbox'[i] = inbox[i]
      BY <1>0, <3>1, LineAppended
    <3> QED
      BY <2>1, <3>2 DEF LastAt, WorkersRun, StartsFirst
  <2> QED
    BY <2>2, <2>3
<1>7. CASE StartRefused \/ StartWhileRunning \/ UNCHANGED vars
  BY <1>1, <1>7 DEF StartRefused, StartWhileRunning, vars, driverVars, pipeVars, workerVars, Target
<1>8. CASE AckTimeout
  BY <1>1, <1>8 DEF AckTimeout, GoIdle, pipeVars, workerVars, Target
<1>9. CASE RecvStopped
  <2>1. state # "running" /\ state' # "running"
    BY <1>9 DEF RecvStopped, GoIdle, AckInv, AckOutstanding
  <2> QED
    BY <1>1, <1>9, <2>1 DEF RecvStopped, workerVars, Target
<1>10. CASE SpawnOk
  <2>1. /\ child = "spawning" /\ inbox = <<>> /\ RunOps = {} /\ wstate = "idle"
        /\ UNCHANGED <<wstate, wrun>> /\ pending' = <<>> /\ Target' = Target
    BY <1>10 DEF SpawnOk, Pipes, RunOps, workerVars, driverVars, Target
  <2>2. CASE pending = <<>>
    <3>1. RunOps' = {}
      BY <1>10, <2>2 DEF SpawnOk, RunOps
    <3> QED
      BY <2>1, <2>2, <3>1 DEF WorkersRun, StartsFirst
  <2>3. CASE pending # <<>>
    <3>1. Len(pending) = 1 /\ pending[1] = Target
      BY <2>3
    <3>2. DOMAIN inbox' = {1} /\ inbox'[1] = StartMsg(Target, cfg)
      BY <1>0, <1>10, <3>1 DEF SpawnOk
    <3>3. RunOps' = {1}
      BY <3>2 DEF RunOps, StartMsg
    <3> QED
      BY <2>1, <3>2, <3>3 DEF StartMsg, StartsFirst
  <2> QED
    BY <2>2, <2>3
<1>11. ASSUME child' = "none", inbox' = <<>>, pending' = <<>>, wstate' = "idle" PROVE FollowInv'
  BY <1>11 DEF Target, RunOps, WorkersRun, StartsFirst
<1>12. CASE SpawnFail
  BY <1>11, <1>12 DEF SpawnFail, Pipes, workerVars
<1>13. CASE Crash
  BY <1>11, <1>13 DEF Crash, ChildGone, Pipes
<1>14. CASE HandleLine
  <2>1. /\ inbox # <<>> /\ inbox' = Tail(inbox) /\ child = "up" /\ wstate \in {"idle", "running"}
        /\ UNCHANGED <<child, pending, state, runId>> /\ pending = <<>> /\ Target' = Target
    BY <1>14 DEF HandleLine, driverVars, Pipes, Target
  <2>2. /\ Len(inbox) \in Nat \ {0} /\ RunOps \subseteq 1..Len(inbox) /\ 1 \in DOMAIN inbox
        /\ RunOps' = {i \in 1..(Len(inbox) - 1) : i + 1 \in RunOps}
        /\ \A i \in RunOps' : inbox'[i] = inbox[i + 1] /\ i \in Nat
        /\ Head(inbox) = inbox[1]
    BY <1>0, <2>1, LineTaken DEF RunOps
  <2>3. \A i : LastAt(RunOps', i) => LastAt(RunOps, i + 1)
    BY <2>2, OneTaken
  <2>4. RunOps' = {} => RunOps \subseteq {1}
    BY <2>2, OneTaken
  <2>5. \A i \in RunOps' : LastAt(RunOps, i)' => inbox'[i].run = Target'
    BY <2>1, <2>2, <2>3 DEF LastAt
  <2>6. CASE inbox[1].op \notin {"start", "stop"}
    <3>1. UNCHANGED <<wstate, wrun>> /\ 1 \notin RunOps
      BY <1>14, <2>2, <2>6 DEF HandleLine, RunOps
    <3>2. StartsFirst'
      <4> SUFFICES ASSUME NEW i \in RunOps', inbox'[i].op = "start"
                   PROVE  wstate' = "idle" /\ \A j \in RunOps' \ {i} : j > i /\ inbox'[j].op = "stop"
        BY DEF StartsFirst
      <4>1. i + 1 \in RunOps /\ inbox[i + 1].op = "start"
        BY <2>2
      <4>2. \A j \in RunOps' \ {i} : j + 1 \in RunOps \ {i + 1} /\ i \in Nat /\ j \in Nat
        BY <2>2
      <4> QED
        BY <2>2, <3>1, <4>1, <4>2 DEF StartsFirst
    <3> QED
      BY <2>1, <2>4, <2>5, <3>1, <3>2 DEF WorkersRun
  <2>7. CASE inbox[1].op = "start"
    <3>1. 1 \in RunOps /\ wstate = "idle" /\ \A j \in RunOps \ {1} : inbox[j].op = "stop"
      BY <2>2, <2>7 DEF RunOps, StartsFirst
    <3>2. wstate' = "running" /\ wrun' = inbox[1].run
      BY <1>14, <2>2, <2>7, <3>1 DEF HandleLine
    <3>3. StartsFirst'
      BY <2>2, <3>1 DEF StartsFirst
    <3>4. RunOps' = {} => inbox[1].run = Target
      BY <2>4, <3>1 DEF LastAt
    <3> QED
      BY <2>1, <2>5, <3>2, <3>3, <3>4 DEF WorkersRun
  <2>8. CASE inbox[1].op = "stop"
    <3>1. 1 \in RunOps /\ inbox[1].run = NoRun
      BY <2>2, <2>8 DEF RunOps, Pipes
    <3>2. \A i \in RunOps : inbox[i].op # "start"
      <4> SUFFICES ASSUME NEW i \in RunOps, inbox[i].op = "start" PROVE FALSE
        OBVIOUS
      <4>1. i \in 1..Len(inbox) /\ 1 \in RunOps \ {i}
        BY <2>2, <2>8, <3>1
      <4>2. 1 > i
        BY <4>1 DEF StartsFirst
      <4> QED
        BY <2>2, <4>1, <4>2
    <3>3. StartsFirst'
      BY <2>2, <3>2 DEF StartsFirst
    <3>4. wstate' # "running"
      BY <1>14, <2>1, <2>2, <2>8 DEF HandleLine
    <3>5. RunOps' = {} => Target = NoRun
      BY <2>4, <3>1 DEF LastAt
    <3> QED
      BY <2>1, <2>5, <3>3, <3>4, <3>5 DEF WorkersRun
  <2> QED
    BY <2>6, <2>7, <2>8
<1>15. CASE StopCompletes \/ StopWedges
  <2>1. /\ UNCHANGED <<inbox, pending, child, state, runId>> /\ wstate = "stopping"
        /\ wstate' \in {"idle", "wedged"}
    BY <1>15 DEF StopCompletes, StopWedges, driverVars, pipeVars
  <2>2. RunOps' = RunOps /\ Target' = Target /\ WorkersRun' = WorkersRun /\ StartsFirst'
    BY <2>1 DEF RunOps, Target, WorkersRun, StartsFirst
  <2> QED
    BY <2>1, <2>2 DEF LastAt
<1>16. CASE ClosingExit \/ Shutdown
  BY <1>16 DEF ClosingExit, Shutdown
<1> QED
  BY <1>2, <1>4, <1>5, <1>6, <1>7, <1>8, <1>9, <1>10, <1>12, <1>13, <1>14, <1>15, <1>16
  DEF Next, Api, Spawned, Drain

(* Unless a start overtook an unread ack or a stop overtook the spawn, the  *)
(* worker is headed where the Driver says it is, through any number of      *)
(* crashes, respawns, timers that fire and lines that wait in the pipes.    *)
THEOREM WorkerIsFollowing == Spec => []WorkerFollowsDriver
<1> DEFINE Inv == TypeOK /\ Pipes /\ AckInv /\ FollowInv
<1>1. Inv => WorkerFollowsDriver
  <2> SUFFICES ASSUME Inv, phase = "up", raced = {} PROVE Heading = Target
    BY DEF WorkerFollowsDriver, Target
  <2>1. CASE pending # <<>>
    BY <2>1 DEF Heading, FollowInv
  <2>2. CASE pending = <<>> /\ RunOps = {}
    BY <2>2 DEF Heading, FollowInv, WorkersRun
  <2>3. CASE pending = <<>> /\ RunOps # {}
    <3>1. Len(inbox) \in Nat /\ RunOps \subseteq 1..Len(inbox)
      BY DEF TypeOK, RunOps
    <3>2. \E i \in RunOps : \A j \in RunOps : j <= i
      BY <2>3, <3>1, LastIndex
    <3> DEFINE last == CHOOSE i \in RunOps : \A j \in RunOps : j <= i
    <3>3. last \in RunOps /\ \A j \in RunOps : j <= last
      BY <3>2
    <3>4. inbox[last].run = Target
      <4> HIDE DEF last
      <4> QED
        BY <3>3 DEF FollowInv, LastAt
    <3> QED
      BY <2>3, <3>4 DEF Heading
  <2> QED
    BY <2>1, <2>2, <2>3
<1>2. Init => Inv
  <2>1. Init => FollowInv
    BY DEF Init, FollowInv, Target, RunOps, WorkersRun, StartsFirst
  <2> QED
    BY <2>1, InitTypeOK, PipesInit, AckInvInit
<1>3. Inv /\ [Next]_vars => Inv'
  BY NextTypeOK, PipesStep, AckInvStep, FollowInvStep
<1> QED
  BY <1>1, <1>2, <1>3, PTL DEF Spec
=============================================================================
