------------------------------ MODULE RigProofs ------------------------------
(***************************************************************************)
(* Proofs about Rig, for any number of clients and petstore processes, any *)
(* bodies and any saved targets: one petstore at a time, none left behind, *)
(* the newest configuration in force.                                      *)
(*                                                                         *)
(* The second half is about what Rig starts on its interval, Probing: the  *)
(* verdicts of the probes are earned, and a pass that nobody disturbs has  *)
(* them all, for any number of gateways of any posture, any lists of       *)
(* required policies, and any reconfigurations and faults at any moment.   *)
(* (policyPass is how far a pass has come as its schedule sees it, pass is *)
(* what is in it.)                                                         *)
(***************************************************************************)
EXTENDS Rig, Probing, FiniteSetTheorems, TLAPS

LEMMA ProcsAreNumbers == 1 \in Procs /\ None \notin Procs /\ Procs \subseteq Nat
  BY BoundAssumption DEF Procs, None

\* Spec without its fairness.
LEMMA SpecIsSafe == Spec => Init /\ [][Next]_vars
  BY PTL DEF Spec

----------------------------------------------------------------------------
(* The supervisor.                                                         *)

States == {"unborn", "starting", "serving", "gone", "stillborn"}
Dead == {"gone", "stillborn"}

(* Whom nobody has told to go is the child; once stop() has been called    *)
(* there is no child and no restart brings one; once it has returned, all  *)
(* it told have gone.                                                      *)
Supervised ==
    /\ proc \in [Procs -> States] /\ told \subseteq Procs /\ child \in Procs \union {None}
    /\ Kept \subseteq {child}
    /\ down \in {"stopping", "closing", "exited"} => stopping /\ child = None
    /\ down \in {"closing", "exited"} => \A p \in told : proc[p] \in Dead

\* A process that is dead stays so, and one that runs was running before.
NoneNew == \A p \in Procs : proc'[p] \in {"starting", "serving"} => proc[p] \in {"starting", "serving"}
DeadStay == \A p \in Procs : proc[p] \in Dead => proc'[p] \in Dead

LEMMA Fewer ==
    ASSUME NoneNew, told' = told
    PROVE  Kept' \subseteq Kept
  BY DEF NoneNew, Kept

(* A step that starts no process, tells none and leaves the shutdown alone *)
(* keeps Supervised if what was the child and is not runs no more.         *)
LEMMA Unshaken ==
    ASSUME Supervised, proc' \in [Procs -> States], NoneNew, DeadStay,
           told' = told, stopping' = stopping, down' = down,
           child' = child \/ (child' = None /\ child \notin Kept')
    PROVE  Supervised'
  <1>1. Kept' \subseteq {child} BY Fewer DEF Supervised
  <1>2. Kept' \subseteq {child'} BY <1>1
  <1>3. down' \in {"stopping", "closing", "exited"} => stopping' /\ child' = None BY DEF Supervised
  <1>4. down' \in {"closing", "exited"} => \A p \in told' : proc'[p] \in Dead BY DEF Supervised, DeadStay
  <1>5. told' \subseteq Procs /\ child' \in Procs \union {None} BY DEF Supervised
  <1> QED BY <1>2, <1>3, <1>4, <1>5 DEF Supervised

\* A process that takes a step to t.
LEMMA Moves ==
    ASSUME proc \in [Procs -> States], NEW p \in Procs, NEW t \in States,
           proc' = [proc EXCEPT ![p] = t],
           proc[p] \in {"starting", "serving"}, t # "unborn"
    PROVE  proc' \in [Procs -> States] /\ NoneNew /\ DeadStay
  BY DEF NoneNew, DeadStay, States, Dead

LEMMA Stays ==
    ASSUME proc \in [Procs -> States], proc' = proc
    PROVE  proc' \in [Procs -> States] /\ NoneNew /\ DeadStay
  BY DEF NoneNew, DeadStay

LEMMA SupervisedInit == Init => Supervised
  <1> SUFFICES ASSUME Init PROVE Supervised OBVIOUS
  <1>1. /\ proc = [p \in Procs |-> IF p = 1 THEN "starting" ELSE "unborn"]
        /\ child = 1 /\ told = {} /\ down = "no"
    BY DEF Init
  <1>2. Kept = {1} BY <1>1, ProcsAreNumbers DEF Kept
  <1> QED BY <1>1, <1>2, ProcsAreNumbers DEF Supervised, States

\* The steps that change a process, the child or the shutdown.
Touches ==
    \/ \E p \in Procs : ReadyLine(p) \/ SpawnError(p) \/ Exit(p)
    \/ RestartFires \/ Signal \/ Drains \/ StopSut \/ SutStopped \/ Close \/ ForceExit

LEMMA OthersLeaveItAlone ==
    ASSUME [Next]_vars, ~Touches
    PROVE  UNCHANGED <<proc, child, told, stopping, down>>
  <1> USE DEF sutVars
  <1>1. CASE \E p \in Procs : ReadyTimeout(p) BY <1>1 DEF ReadyTimeout
  <1>2. CASE BootGoesOn BY <1>2 DEF BootGoesOn
  <1>3. CASE PassGoesOn BY <1>3 DEF PassGoesOn
  <1>4. CASE ProbesDone BY <1>4 DEF ProbesDone
  <1>5. CASE \E t \in live : Tick(t) BY <1>5 DEF Tick
  <1>6. ASSUME NEW c \in Clients, PutPolicy(c) \/ PutGateway(c) \/ RunNow(c)
        PROVE  UNCHANGED <<proc, child, told, stopping, down>>
    BY <1>6 DEF PutPolicy, PutGateway, RunNow, Starts
  <1>7. CASE \E c \in Clients : RequestGoesOn(c) \/ RequestFails(c) BY <1>7 DEF RequestGoesOn, RequestFails
  <1>9. CASE BootFails \/ PassFails BY <1>9 DEF BootFails, PassFails
  <1>8. CASE Ended \/ UNCHANGED vars BY <1>8 DEF Ended, vars
  <1> QED BY <1>1, <1>2, <1>3, <1>4, <1>5, <1>6, <1>7, <1>8, <1>9 DEF Next, Touches

LEMMA SupervisedNext == Supervised /\ [Next]_vars => Supervised'
  <1> SUFFICES ASSUME Supervised, [Next]_vars PROVE Supervised' OBVIOUS
  <1>t. proc \in [Procs -> States] /\ told \subseteq Procs /\ child \in Procs \union {None}
    BY DEF Supervised
  <1>1. ASSUME NEW p \in Procs, ReadyLine(p) PROVE Supervised'
    <2>1. /\ proc[p] = "starting" /\ proc' = [proc EXCEPT ![p] = "serving"]
          /\ UNCHANGED <<child, told, stopping, down>>
      BY <1>1 DEF ReadyLine
    <2>2. proc' \in [Procs -> States] /\ NoneNew /\ DeadStay BY <1>t, <2>1, Moves DEF States
    <2> QED BY <2>1, <2>2, Unshaken
  <1>2. ASSUME NEW p \in Procs, SpawnError(p) PROVE Supervised'
    <2>1. /\ proc[p] = "starting" /\ proc' = [proc EXCEPT ![p] = "stillborn"]
          /\ UNCHANGED <<child, told, stopping, down>>
      BY <1>2 DEF SpawnError
    <2>2. proc' \in [Procs -> States] /\ NoneNew /\ DeadStay BY <1>t, <2>1, Moves DEF States
    <2> QED BY <2>1, <2>2, Unshaken
  <1>3. ASSUME NEW p \in Procs, Exit(p) PROVE Supervised'
    <2>1. /\ proc[p] \in {"starting", "serving"} /\ proc' = [proc EXCEPT ![p] = "gone"]
          /\ child' = IF child = p THEN None ELSE child
          /\ UNCHANGED <<told, stopping, down>>
      BY <1>3 DEF Exit
    <2>2. proc' \in [Procs -> States] /\ NoneNew /\ DeadStay BY <1>t, <2>1, Moves DEF States
    <2>3. p \notin Kept' BY <1>t, <2>1 DEF Kept
    <2> QED BY <2>1, <2>2, <2>3, Unshaken
  <1>4. CASE RestartFires
    <2>1. CASE ~MayRestart
      <3>1. UNCHANGED <<proc, child, told, stopping, down>> BY <1>4, <2>1 DEF RestartFires
      <3> QED BY <3>1, <1>t, Stays, Unshaken
    <2>2. CASE MayRestart
      <3>1. /\ NextProc \in Procs /\ proc' = [proc EXCEPT ![NextProc] = "starting"] /\ child' = NextProc
            /\ UNCHANGED <<told, stopping, down>>
        BY <1>4, <2>2 DEF RestartFires, SpawnOnce
      <3>2. ~stopping /\ child = None BY <2>2 DEF MayRestart
      <3>3. Kept = {} BY <3>2, ProcsAreNumbers DEF Supervised, Kept
      <3>4. Kept' \subseteq {child'} BY <3>1, <3>3, <1>t DEF Kept
      <3>5. proc' \in [Procs -> States] BY <3>1, <1>t DEF States
      <3>6. down' \notin {"stopping", "closing", "exited"} BY <3>1, <3>2 DEF Supervised
      <3> QED BY <3>1, <3>4, <3>5, <3>6, <1>t DEF Supervised
    <2> QED BY <2>1, <2>2
  <1>5. CASE Signal \/ Drains \/ ForceExit
    <2>1. UNCHANGED <<proc, child, told, stopping>> /\ down' \in {"waiting", "draining", "forced"}
      BY <1>5 DEF Signal, Drains, ForceExit, sutVars
    <2>2. Kept' = Kept BY <2>1 DEF Kept
    <2> QED BY <2>1, <2>2 DEF Supervised
  <1>6. CASE StopSut
    <2>1. /\ stopping' = TRUE /\ child' = None /\ told' = told \union ({child} \ {None})
          /\ proc' = proc /\ down' = "stopping"
      BY <1>6 DEF StopSut
    <2>2. Kept' = {} BY <2>1, ProcsAreNumbers DEF Kept, Supervised
    <2> QED BY <2>1, <2>2, <1>t DEF Supervised
  <1>7. CASE SutStopped \/ Close
    <2>1. UNCHANGED <<proc, child, told, stopping>> /\ down \in {"stopping", "closing"}
          /\ down' \in {"closing", "exited"}
      BY <1>7 DEF SutStopped, Close, sutVars
    <2>2. \A p \in told : proc[p] \in Dead BY <1>7, <2>1 DEF SutStopped, Close, Supervised, Dead
    <2>3. Kept' = Kept BY <2>1 DEF Kept
    <2> QED BY <2>1, <2>2, <2>3 DEF Supervised
  <1>8. CASE ~Touches
    <2>1. UNCHANGED <<proc, child, told, stopping, down>> BY <1>8, OthersLeaveItAlone
    <2> QED BY <2>1, <1>t, Stays, Unshaken
  <1> QED BY <1>1, <1>2, <1>3, <1>4, <1>5, <1>6, <1>7, <1>8 DEF Touches

(* Whoever the supervisor has not told to go is its child, in every state   *)
(* (goSut.ts).                                                              *)
THEOREM AlwaysSupervised == Spec => []Supervised
  BY SpecIsSafe, SupervisedInit, SupervisedNext, PTL

(* OnePetstore (sut/goSut.ts, start, scheduleRestart, stop): the supervisor *)
(* never runs a second petstore beside one it has not told to go, for any   *)
(* number of restarts.                                                      *)
THEOREM OneAtATime == Spec => []OnePetstore
  <1>1. Supervised => OnePetstore
    <2> SUFFICES ASSUME Supervised PROVE Cardinality(Kept) <= 1 BY DEF OnePetstore
    <2>1. Kept = {} \/ Kept = {child} BY DEF Supervised
    <2>2. Cardinality({}) = 0 BY FS_EmptySet
    <2>3. Cardinality({child}) = 1 BY FS_Singleton
    <2> QED BY <2>1, <2>2, <2>3
  <1> QED BY <1>1, AlwaysSupervised, PTL

(* NoOrphans (index.ts, shutdown; goSut.ts, stop): an orderly exit leaves   *)
(* no petstore behind, whatever was under way when the signal came.         *)
THEOREM NoneLeftBehind == Spec => []NoOrphans
  <1>1. Supervised => NoOrphans
    <2> SUFFICES ASSUME Supervised, down = "exited", NEW p \in Procs,
                        proc[p] \in {"starting", "serving"}
                 PROVE  FALSE
      BY DEF NoOrphans
    <2>1. p \in told BY ProcsAreNumbers DEF Supervised, Kept
    <2> QED BY <2>1 DEF Supervised, Dead
  <1> QED BY <1>1, AlwaysSupervised, PTL

----------------------------------------------------------------------------
(* The configuration.                                                      *)

Boots == {"sut", "schedule", "restore", "saving", "up", "failed"}
Early == Boots \ {"up", "failed"}

(* Nobody is served before the start-up has come to its end; until it sets *)
(* the first interval none ticks; and unless two PUTs have crossed, one at *)
(* a time is between clearing and setting, and none ticks while it is.     *)
Tidy ==
    /\ client = [c \in Clients |-> client[c]]
    /\ boot \in Boots /\ (boot \in Early => \A c \in Clients : client[c] = Idle)
    /\ boot \in {"sut", "schedule"} => live = {}
    /\ ~crossed =>
        /\ live \subseteq {policyTimer} /\ (Scheduling => live = {})
        /\ \A c, d \in Clients : client[c].op = "schedule" /\ client[d].op = "schedule" => c = d

LEMMA TidyInit == Init => Tidy
  BY DEF Init, Tidy, Boots, Early, Idle, Scheduling

\* A step that leaves requests and intervals alone, or takes an interval away.
LEMMA KeepsTidy ==
    ASSUME Tidy, UNCHANGED <<client, policyTimer, crossed>>, live' \subseteq live,
           boot' = boot \/ boot' \in {"up", "failed"} \/ (boot = "sut" /\ boot' = "schedule")
                        \/ (boot = "restore" /\ boot' = "saving")
    PROVE  Tidy'
  <1>1. Scheduling' = Scheduling BY DEF Scheduling
  <1>2. boot' \in Boots /\ (boot' \in Early => boot \in Early)
    BY DEF Tidy, Boots, Early
  <1>3. boot' \in {"sut", "schedule"} => live = {}
    BY DEF Tidy
  <1> QED BY <1>1, <1>2, <1>3 DEF Tidy

\* A client's step that is not to set an interval leaves the intervals alone.
LEMMA ClientKeepsTidy ==
    ASSUME Tidy, NEW c \in Clients, NEW b, client' = [client EXCEPT ![c] = b], b.op # "schedule",
           boot \notin Early, UNCHANGED <<boot, timerVars, crossed>>
    PROVE  Tidy'
  <1>1. \A d \in Clients : client'[d] = IF d = c THEN b ELSE client[d] BY DEF Tidy
  <1>2. client' = [d \in Clients |-> client'[d]] BY DEF Tidy
  <1>3. \A d \in Clients : client'[d].op = "schedule" => client[d].op = "schedule" BY <1>1
  <1>4. Scheduling' => Scheduling BY <1>3 DEF Scheduling
  <1> QED BY <1>2, <1>3, <1>4 DEF Tidy, timerVars

\* A request that goes on is being served.
LEMMA ServedLate ==
    ASSUME Tidy, NEW c \in Clients, client[c].op # "idle" PROVE boot \notin Early
  BY DEF Tidy, Idle

LEMMA RequestKeepsTidy ==
    ASSUME Tidy, NEW c \in Clients, RequestGoesOn(c)
    PROVE  Tidy'
  <1>0. UNCHANGED boot BY DEF RequestGoesOn
  <1>1. CASE PolicyRead(c) \/ GatewayRead(c) \/ GatewayWritten(c) \/ RunBegins(c) \/ Wanted(c)
    <2>1. client[c].op # "idle" /\ UNCHANGED <<timerVars, crossed>>
      BY <1>1 DEF PolicyRead, GatewayRead, GatewayWritten, RunBegins, Wanted
    <2>2. \E b : b.op # "schedule" /\ client' = [client EXCEPT ![c] = b]
      <3>1. CASE client' = [client EXCEPT ![c] = [op |-> "over"]] BY <3>1
      <3>2. CASE client' = [client EXCEPT ![c] = [op |-> "recordStart"]] BY <3>2
      <3>3. CASE \E body, op : /\ op \in {"writePolicy", "writeGateway"}
                               /\ client' = [client EXCEPT ![c] = [op |-> op, body |-> body]]
        <4>1. PICK body, op : /\ op \in {"writePolicy", "writeGateway"}
                              /\ client' = [client EXCEPT ![c] = [op |-> op, body |-> body]]
          BY <3>3
        <4>2. [op |-> op, body |-> body].op # "schedule" BY <4>1
        <4> QED BY <4>1, <4>2
      <3> QED BY <1>1, <3>1, <3>2, <3>3
           DEF PolicyRead, GatewayRead, GatewayWritten, RunBegins, Wanted, Awaits, Over
    <2> QED BY <1>0, <2>1, <2>2, ServedLate, ClientKeepsTidy
  <1>2. CASE PolicyWritten(c)
    <2>1. /\ client[c].op # "idle" /\ client' = [client EXCEPT ![c] = [op |-> "schedule"]]
          /\ live' = live \ {policyTimer} /\ policyTimer' = policyTimer /\ crossed' = (crossed \/ Scheduling)
      BY <1>2 DEF PolicyWritten, Awaits
    <2>2. boot \notin Early BY <2>1, ServedLate
    <2>3. \A d \in Clients : client'[d] = IF d = c THEN [op |-> "schedule"] ELSE client[d] BY <2>1 DEF Tidy
    <2>4. client' = [d \in Clients |-> client'[d]] BY <2>1 DEF Tidy
    <2>5. ASSUME ~crossed' PROVE /\ live' = {}
                                 /\ \A d, e \in Clients : client'[d].op = "schedule" /\ client'[e].op = "schedule" => d = e
      <3>1. ~crossed /\ ~Scheduling BY <2>1, <2>5
      <3>2. \A d \in Clients : client'[d].op = "schedule" => d = c BY <2>3, <3>1 DEF Scheduling
      <3> QED BY <2>1, <3>1, <3>2 DEF Tidy
    <2> QED BY <1>0, <2>1, <2>2, <2>4, <2>5 DEF Tidy, Early
  <1>3. CASE PolicyScheduled(c)
    <2>1. /\ client[c].op = "schedule" /\ client' = [client EXCEPT ![c] = [op |-> "over"]]
          /\ Scheduled /\ crossed' = crossed
      BY <1>3 DEF PolicyScheduled, Over
    <2>2. boot \notin Early BY <2>1, ServedLate
    <2>3. \A d \in Clients : client'[d] = IF d = c THEN [op |-> "over"] ELSE client[d] BY <2>1 DEF Tidy
    <2>4. client' = [d \in Clients |-> client'[d]] BY <2>1 DEF Tidy
    <2>5. ASSUME ~crossed' PROVE live' \subseteq {policyTimer'} /\ ~Scheduling'
      <3>1. live = {} /\ \A d \in Clients : client[d].op = "schedule" => d = c
        BY <2>1, <2>5 DEF Tidy, Scheduling
      <3>2. ~Scheduling' BY <2>3, <3>1 DEF Scheduling
      <3>3. live' \subseteq {policyTimer'} BY <2>1, <3>1 DEF Scheduled
      <3> QED BY <3>2, <3>3
    <2> QED BY <1>0, <2>1, <2>2, <2>4, <2>5 DEF Tidy, Early, Scheduling
  <1> QED BY <1>1, <1>2, <1>3 DEF RequestGoesOn

LEMMA TidyNext == Tidy /\ [Next]_vars => Tidy'
  <1> SUFFICES ASSUME Tidy, [Next]_vars PROVE Tidy' OBVIOUS
  <1>1. ASSUME NEW p \in Procs, ReadyLine(p) \/ ReadyTimeout(p) \/ SpawnError(p) \/ Exit(p) PROVE Tidy'
    <2>1. /\ UNCHANGED <<client, timerVars, crossed>>
          /\ boot' = boot \/ boot' = "failed" \/ (boot = "sut" /\ boot' = "schedule")
      BY <1>1 DEF ReadyLine, ReadyTimeout, SpawnError, Exit, Rejected, books
    <2> QED BY <2>1, KeepsTidy DEF timerVars
  <1>2. CASE RestartFires \/ PassGoesOn \/ PassFails \/ ProbesDone \/ Ended \/ UNCHANGED vars \/ \E t \in live : Tick(t)
    <2>1. UNCHANGED <<client, timerVars, boot, crossed>>
      BY <1>2 DEF RestartFires, PassGoesOn, PassFails, ProbesDone, Ended, Tick, vars, books
    <2> QED BY <2>1, KeepsTidy DEF timerVars
  <1>3. CASE Signal \/ StopSut \/ SutStopped \/ Close \/ ForceExit
    <2>1. UNCHANGED <<client, timerVars, boot, crossed>>
      BY <1>3 DEF Signal, StopSut, SutStopped, Close, ForceExit, books
    <2> QED BY <2>1, KeepsTidy DEF timerVars
  <1>4. CASE Drains
    <2>1. UNCHANGED <<client, boot, policyTimer, crossed>> /\ live' \subseteq live BY <1>4 DEF Drains, books
    <2> QED BY <2>1, KeepsTidy
  <1>5. CASE BootGoesOn
    <2>0. UNCHANGED <<client, crossed>> BY <1>5 DEF BootGoesOn, books
    <2>1. CASE boot = "schedule"
      <3>1. boot' = "restore" /\ Scheduled BY <1>5, <2>1 DEF BootGoesOn
      <3>2. live = {} /\ (\A c \in Clients : client[c] = Idle) BY <2>1 DEF Tidy, Early, Boots
      <3>3. ~Scheduling' BY <2>0, <3>2 DEF Scheduling, Idle
      <3>4. live' \subseteq {policyTimer'} BY <3>1, <3>2 DEF Scheduled
      <3> QED BY <2>0, <3>1, <3>2, <3>3, <3>4 DEF Tidy, Boots
    <2>2. CASE boot # "schedule"
      <3>1. UNCHANGED timerVars /\ (boot' = "up" \/ (boot = "restore" /\ boot' = "saving")) BY <1>5, <2>2 DEF BootGoesOn
      <3> QED BY <2>0, <3>1, KeepsTidy DEF timerVars
    <2> QED BY <2>1, <2>2
  <1>6. CASE BootFails
    <2>1. UNCHANGED <<client, timerVars, crossed>> /\ boot' = "failed" BY <1>6 DEF BootFails
    <2> QED BY <2>1, KeepsTidy DEF timerVars
  <1>7. ASSUME NEW c \in Clients, PutPolicy(c) \/ PutGateway(c) \/ RunNow(c) PROVE Tidy'
    <2>1. ASSUME NEW b, Starts(c, b), b.op # "schedule" PROVE Tidy'
      <3>1. client' = [client EXCEPT ![c] = b] /\ boot = "up" /\ UNCHANGED <<boot, timerVars, crossed>>
        BY <2>1 DEF Starts, books
      <3> QED BY <2>1, <3>1, ClientKeepsTidy DEF Early
    <2>2. CASE PutPolicy(c)
      <3>1. PICK b \in PolicyBodies : Starts(c, [op |-> "readPolicy", body |-> b]) BY <2>2 DEF PutPolicy
      <3> QED BY <3>1, <2>1
    <2>3. CASE PutGateway(c)
      <3>1. PICK g \in GatewayBodies : Starts(c, [op |-> "readGateway", body |-> g]) BY <2>3 DEF PutGateway
      <3> QED BY <3>1, <2>1
    <2>4. CASE RunNow(c)
      <3>1. PICK op \in {"readEnabled", "readSaved"} : Starts(c, [op |-> op]) BY <2>4 DEF RunNow
      <3> QED BY <3>1, <2>1
    <2> QED BY <1>7, <2>2, <2>3, <2>4
  <1>8. CASE \E c \in Clients : RequestGoesOn(c) BY <1>8, RequestKeepsTidy
  <1>9. ASSUME NEW c \in Clients, RequestFails(c) PROVE Tidy'
    <2>1. client' = [client EXCEPT ![c] = [op |-> "over"]] /\ UNCHANGED <<boot, timerVars, crossed>>
      BY <1>9 DEF RequestFails, Over
    <2>2. boot \notin Early BY <1>9, ServedLate DEF RequestFails
    <2>3. [op |-> "over"].op # "schedule" OBVIOUS
    <2> QED BY <2>1, <2>2, <2>3, ClientKeepsTidy
  <1> QED BY <1>1, <1>2, <1>3, <1>4, <1>5, <1>6, <1>7, <1>8, <1>9 DEF Next

\* What schedulePolicies leaves, for the config that is stored.
Ticks ==
    IF policyConfig.enabled
    THEN policyTimer \in live /\ policyTimer.sec = policyConfig.intervalSec
    ELSE policyTimer = NoTimer

\* No side aims at the control plane's own port unless a request asked for it.
Aimed ==
    \A s \in Sides : driverGw[s] = "controlPlane" => \E g \in GatewayBodies : g[s] = "controlPlane"

(* The start-up has set the interval before it restores the targets, and   *)
(* the targets before it saves them; from then on a request that writes    *)
(* either is itself bound to bring it into force, or owes it.              *)
InForce ==
    /\ client = [c \in Clients |-> client[c]]
    /\ \A c \in Clients : client[c].op \in {"readGateway", "writeGateway"} => client[c].body \in GatewayBodies
    /\ boot \in {"restore", "saving", "up"} /\ down = "no" /\ ~owed => Ticks
    /\ boot \in {"saving", "up"} => Aimed
    /\ boot = "up" => driverGw = storedGw
    /\ failures \in Nat /\ (owed => Scheduling \/ failures > 0)

LEMMA InForceInit == Init => InForce
  BY DEF Init, InForce, Idle

\* A step that leaves configuration and interval alone, and the shutdown or the
\* start-up where they are or elsewhere.
LEMMA KeepsInForce ==
    ASSUME InForce, UNCHANGED <<client, cfgVars, timerVars, owed>>,
           failures' = failures \/ failures' = failures + 1,
           down' = down \/ down' # "no", boot' = boot \/ boot' \in {"schedule", "failed"}
    PROVE  InForce'
  <1>1. Scheduling' = Scheduling /\ Ticks' = Ticks /\ Aimed' = Aimed
    BY DEF Scheduling, Ticks, Aimed, cfgVars, timerVars
  <1>2. failures' \in Nat /\ (failures > 0 => failures' > 0) BY DEF InForce
  <1> QED BY <1>1, <1>2 DEF InForce, cfgVars

LEMMA ScheduledTicks == ASSUME Scheduled, UNCHANGED policyConfig PROVE Ticks'
  <1>1. CASE policyConfig.enabled
    <2> DEFINE t == NewTimer(policyConfig.intervalSec)
    <2>1. live' = live \union {t} /\ policyTimer' = t BY <1>1 DEF Scheduled
    <2>2. t.sec = policyConfig.intervalSec BY DEF NewTimer
    <2> QED BY <1>1, <2>1, <2>2 DEF Ticks
  <1>2. CASE ~policyConfig.enabled BY <1>2 DEF Scheduled, Ticks
  <1> QED BY <1>1, <1>2

LEMMA RestoredAimsElsewhere ==
    ASSUME NEW s \in Sides PROVE Restored[s] # "controlPlane"
  BY DEF Restored, Repointed, DefaultGateway

\* A client's own step from a to b.
LEMMA ClientMoves ==
    ASSUME InForce, NEW c \in Clients, NEW b, client' = [client EXCEPT ![c] = b],
           b.op \in {"readGateway", "writeGateway"} => b.body \in GatewayBodies
    PROVE  /\ client' = [d \in Clients |-> client'[d]]
           /\ \A d \in Clients : client'[d].op \in {"readGateway", "writeGateway"} => client'[d].body \in GatewayBodies
           /\ b.op = "schedule" => Scheduling'
           /\ client[c].op # "schedule" /\ Scheduling => Scheduling'
  BY DEF InForce, Scheduling

\* A client's step that leaves configuration and interval alone.
LEMMA ClientKeepsInForce ==
    ASSUME InForce, NEW c \in Clients, NEW b, client' = [client EXCEPT ![c] = b],
           b.op \in {"readGateway", "writeGateway"} => b.body \in GatewayBodies,
           (client[c].op # "schedule" /\ failures' = failures) \/ failures' = failures + 1,
           UNCHANGED <<boot, down, cfgVars, timerVars, owed>>
    PROVE  InForce'
  <1>1. Ticks' = Ticks /\ Aimed' = Aimed BY DEF Ticks, Aimed, cfgVars, timerVars
  <1>2. failures' \in Nat /\ (owed' => Scheduling' \/ failures' > 0)
    <2>1. failures \in Nat /\ (owed => Scheduling \/ failures > 0) BY DEF InForce
    <2>2. CASE failures' = failures + 1 BY <2>1, <2>2
    <2>3. CASE client[c].op # "schedule" /\ failures' = failures BY <2>1, <2>3, ClientMoves
    <2> QED BY <2>2, <2>3
  <1> QED BY <1>1, <1>2, ClientMoves DEF InForce, cfgVars

LEMMA RequestKeepsInForce ==
    ASSUME InForce, Tidy, NEW c \in Clients, RequestGoesOn(c)
    PROVE  InForce'
  <1>0. UNCHANGED <<boot, down, failures>> BY DEF RequestGoesOn
  <1>a. boot = "up" => driverGw = storedGw BY DEF InForce
  <1>1. CASE PolicyRead(c)
    <2>1. /\ client[c].op = "readPolicy" /\ UNCHANGED <<cfgVars, timerVars, owed>>
          /\ client' = [client EXCEPT ![c] =
                          [op |-> "writePolicy", body |-> SanitizedPolicy(client[c].body, policyConfig)]]
      BY <1>1 DEF PolicyRead, Awaits, cfgVars
    <2> QED BY <1>0, <2>1, ClientKeepsInForce
  <1>2. CASE PolicyWritten(c)
    <2>1. client' = [client EXCEPT ![c] = [op |-> "schedule"]] /\ UNCHANGED <<storedGw, driverGw>> /\ owed'
      BY <1>2 DEF PolicyWritten, Awaits
    <2>2. Scheduling' BY <2>1, ClientMoves
    <2>3. Aimed' = Aimed BY <2>1 DEF Aimed
    <2> QED BY <1>0, <2>1, <2>2, <2>3, ClientMoves DEF InForce
  <1>3. CASE PolicyScheduled(c)
    <2>1. client' = [client EXCEPT ![c] = [op |-> "over"]] /\ Scheduled /\ UNCHANGED cfgVars /\ ~owed'
      BY <1>3 DEF PolicyScheduled, Over
    <2>2. Ticks' BY <2>1, ScheduledTicks DEF cfgVars
    <2>3. Aimed' = Aimed BY <2>1 DEF Aimed, cfgVars
    <2> QED BY <1>0, <2>1, <2>2, <2>3, ClientMoves DEF InForce, cfgVars
  <1>4. CASE GatewayRead(c)
    <2>1. /\ client[c].op = "readGateway" /\ UNCHANGED <<cfgVars, timerVars, owed>>
          /\ client' = [client EXCEPT ![c] = [op |-> "writeGateway", body |-> client[c].body]]
      BY <1>4 DEF GatewayRead, Awaits
    <2>2. client[c].body \in GatewayBodies BY <2>1 DEF InForce
    <2> QED BY <1>0, <2>1, <2>2, ClientKeepsInForce
  <1>5. CASE GatewayWritten(c)
    <2>1. /\ client[c].op = "writeGateway" /\ client' = [client EXCEPT ![c] = [op |-> "over"]]
          /\ storedGw' = client[c].body /\ driverGw' = client[c].body
          /\ UNCHANGED <<policyConfig, timerVars, owed>>
      BY <1>5 DEF GatewayWritten, Over
    <2>2. Aimed' BY <2>1 DEF InForce, Aimed
    <2>3. Ticks' = Ticks BY <2>1 DEF Ticks, timerVars
    <2>4. owed' => Scheduling' \/ failures' > 0 BY <1>0, <2>1, ClientMoves DEF InForce
    <2> QED BY <1>0, <2>1, <2>2, <2>3, <2>4, ClientMoves DEF InForce
  <1>6. CASE Wanted(c)
    <2>1. /\ client[c].op \in {"readEnabled", "recordStart"} /\ UNCHANGED <<cfgVars, timerVars, owed>>
          /\ client' = [client EXCEPT ![c] = [op |-> "over"]]
      BY <1>6 DEF Wanted, Over
    <2> QED BY <1>0, <2>1, ClientKeepsInForce
  <1>7. CASE RunBegins(c)
    <2>1. /\ client[c].op = "readSaved" /\ driverGw' = storedGw
          /\ UNCHANGED <<policyConfig, storedGw, timerVars, owed>>
      BY <1>7 DEF RunBegins
    <2>2. PICK op \in {"recordStart", "over"} : client' = [client EXCEPT ![c] = [op |-> op]]
      BY <1>7 DEF RunBegins, Awaits, Over
    <2>3. CASE boot = "up"
      <3>1. UNCHANGED <<cfgVars>> BY <1>a, <2>1, <2>3 DEF cfgVars
      <3> QED BY <1>0, <2>1, <2>2, <3>1, ClientKeepsInForce
    <2>4. CASE boot = "failed"
      <3>1. Ticks' = Ticks BY <2>1 DEF Ticks, timerVars
      <3>2. owed' => Scheduling' \/ failures' > 0 BY <1>0, <2>1, <2>2, ClientMoves DEF InForce
      <3> QED BY <1>0, <2>1, <2>2, <2>4, <3>1, <3>2, ClientMoves DEF InForce
    <2>5. CASE boot \in Early BY <2>1, <2>5 DEF Tidy, Idle
    <2> QED BY <2>3, <2>4, <2>5 DEF Tidy, Boots, Early
  <1> QED BY <1>1, <1>2, <1>3, <1>4, <1>5, <1>6, <1>7 DEF RequestGoesOn

LEMMA InForceNext == InForce /\ Tidy /\ [Next]_vars => InForce'
  <1> SUFFICES ASSUME InForce, Tidy, [Next]_vars PROVE InForce' OBVIOUS
  <1>1. ASSUME NEW p \in Procs, ReadyLine(p) \/ ReadyTimeout(p) \/ SpawnError(p) \/ Exit(p)
        PROVE  InForce'
    <2>1. UNCHANGED <<client, cfgVars, timerVars, down, books>> /\ (boot' = boot \/ boot' \in {"schedule", "failed"})
      BY <1>1 DEF ReadyLine, ReadyTimeout, SpawnError, Exit, Rejected
    <2> QED BY <2>1, KeepsInForce DEF books
  <1>2. CASE RestartFires \/ PassGoesOn \/ ProbesDone \/ Ended \/ UNCHANGED vars \/ \E t \in live : Tick(t)
    <2>1. UNCHANGED <<client, cfgVars, timerVars, boot, down, books>>
      BY <1>2 DEF RestartFires, PassGoesOn, ProbesDone, Ended, Tick, vars
    <2> QED BY <2>1, KeepsInForce DEF books
  <1>3. CASE Signal \/ StopSut \/ SutStopped \/ Close \/ ForceExit
    <2>1. UNCHANGED <<client, cfgVars, timerVars, boot, books>> /\ down' # "no"
      BY <1>3 DEF Signal, StopSut, SutStopped, Close, ForceExit
    <2> QED BY <2>1, KeepsInForce DEF books
  <1>4. CASE Drains
    <2>1. UNCHANGED <<client, cfgVars, boot, books>> /\ down' # "no" BY <1>4 DEF Drains
    <2>2. Aimed' = Aimed /\ Scheduling' = Scheduling BY <2>1 DEF Aimed, Scheduling, cfgVars
    <2> QED BY <2>1, <2>2 DEF InForce, cfgVars, books
  <1>5. CASE BootGoesOn
    <2>0. UNCHANGED <<client, policyConfig, down, owed, failures>> BY <1>5 DEF BootGoesOn, books
    <2>s. Scheduling' = Scheduling BY <2>0 DEF Scheduling
    <2>1. CASE boot' = "restore"
      <3>1. Ticks' BY <1>5, <2>0, <2>1, ScheduledTicks DEF BootGoesOn
      <3> QED BY <2>0, <2>s, <2>1, <3>1 DEF InForce
    <2>2. CASE boot' = "saving"
      <3>1. boot = "restore" /\ driverGw' = Restored /\ UNCHANGED timerVars
        BY <1>5, <2>2 DEF BootGoesOn
      <3>2. Aimed' BY <3>1, RestoredAimsElsewhere DEF Aimed
      <3>3. Ticks' = Ticks BY <2>0, <3>1 DEF Ticks, timerVars
      <3> QED BY <2>0, <2>s, <2>2, <3>1, <3>2, <3>3 DEF InForce
    <2>3. CASE boot' = "up"
      <3>1. boot = "saving" /\ UNCHANGED <<driverGw, timerVars>> /\ storedGw' = driverGw
        BY <1>5, <2>3 DEF BootGoesOn
      <3>2. Ticks' = Ticks /\ Aimed' = Aimed BY <2>0, <3>1 DEF Ticks, Aimed, timerVars
      <3> QED BY <2>0, <2>s, <2>3, <3>1, <3>2 DEF InForce
    <2> QED BY <1>5, <2>1, <2>2, <2>3 DEF BootGoesOn
  <1>6. ASSUME NEW c \in Clients, PutPolicy(c) \/ PutGateway(c) \/ RunNow(c) PROVE InForce'
    <2>1. ASSUME NEW b, Starts(c, b), b.op \in {"readGateway", "writeGateway"} => b.body \in GatewayBodies
          PROVE  InForce'
      <3>1. /\ client[c] = Idle /\ client' = [client EXCEPT ![c] = b]
            /\ UNCHANGED <<boot, down, cfgVars, timerVars, owed, failures>>
        BY <2>1 DEF Starts, books
      <3>2. client[c].op # "schedule" BY <3>1 DEF Idle
      <3> QED BY <2>1, <3>1, <3>2, ClientKeepsInForce
    <2>2. CASE PutPolicy(c)
      <3>1. PICK b \in PolicyBodies : Starts(c, [op |-> "readPolicy", body |-> b]) BY <2>2 DEF PutPolicy
      <3> QED BY <3>1, <2>1
    <2>3. CASE PutGateway(c)
      <3>1. PICK g \in GatewayBodies : Starts(c, [op |-> "readGateway", body |-> g]) BY <2>3 DEF PutGateway
      <3> QED BY <3>1, <2>1
    <2>4. CASE RunNow(c)
      <3>1. PICK op \in {"readEnabled", "readSaved"} : Starts(c, [op |-> op]) BY <2>4 DEF RunNow
      <3> QED BY <3>1, <2>1
    <2> QED BY <1>6, <2>2, <2>3, <2>4
  <1>7. CASE \E c \in Clients : RequestGoesOn(c) BY <1>7, RequestKeepsInForce
  <1>8. CASE BootFails \/ PassFails
    <2>1. /\ UNCHANGED <<client, cfgVars, timerVars, owed, down>> /\ failures' = failures + 1
          /\ boot' = boot \/ boot' = "failed"
      BY <1>8 DEF BootFails, PassFails, CallFails
    <2> QED BY <2>1, KeepsInForce
  <1>9. ASSUME NEW c \in Clients, RequestFails(c) PROVE InForce'
    <2>1. /\ client' = [client EXCEPT ![c] = [op |-> "over"]] /\ failures' = failures + 1
          /\ UNCHANGED <<boot, down, cfgVars, timerVars, owed>>
      BY <1>9 DEF RequestFails, CallFails, Over
    <2> QED BY <2>1, ClientKeepsInForce
  <1> QED BY <1>1, <1>2, <1>3, <1>4, <1>5, <1>6, <1>7, <1>8, <1>9 DEF Next

(* ConfigInForce (app.ts, schedulePolicies, the PUT handlers, ready, run    *)
(* start): the interval that is remembered ticks at the stored period once  *)
(* one was set after the newest write, no other ticks unless two PUTs       *)
(* crossed, and the driver aims where the table says, for any number of     *)
(* concurrent requests and whichever of their calls fail.                   *)
THEOREM NewestInForce == Spec => []ConfigInForce
  <1>1. InForce /\ Tidy => ConfigInForce
    <2> SUFFICES ASSUME InForce, Tidy PROVE IntervalFollowsConfig /\ NoStrayInterval /\ TargetsInForce
      BY DEF ConfigInForce
    <2>1. IntervalFollowsConfig BY DEF InForce, IntervalFollowsConfig, Ticks
    <2>2. TargetsInForce BY DEF InForce, TargetsInForce, Aimed
    <2>3. NoStrayInterval BY DEF Tidy, NoStrayInterval
    <2> QED BY <2>1, <2>2, <2>3
  <1> QED BY <1>1, SpecIsSafe, InForceInit, InForceNext, TidyInit, TidyNext, PTL

----------------------------------------------------------------------------
(* What the probes make of what a gateway answers.                         *)

PostureNames == {"on", "off", "wrong"}

\* A verdict that is true of a gateway with this posture.
Right(posture, state) ==
    \/ state = "error"
    \/ state = "pass" /\ posture = "on"
    \/ state = "fail" /\ posture = "wrong"
    \/ state = "not-enforced" /\ posture # "on"

\* An answer that a gateway gives of its own accord is a measurement.
Measured(posture, state) == Right(posture, state) /\ state # "error"

\* An answer that shows no policy and is taken for one.
Mistaken(posture, id, answers) ==
    posture # "on" /\ answers \in Mistakable(id) /\ State(id, answers) = "pass"

\* The responses, field by field.
Says(r, status, reached, allow, named) ==
    r.status = status /\ r.reached = reached /\ r.allow = allow /\ r.named = named

LEMMA Responses ==
    /\ Says(NoAnswer, 0, FALSE, FALSE, FALSE)
    /\ \A s : Says(FromGateway(s), s, FALSE, FALSE, FALSE)
    /\ \A s : Says(FromBackend(s), s, TRUE, FALSE, FALSE)
    /\ \A s : Says(Allowing(FromGateway(s)), s, FALSE, TRUE, FALSE)
    /\ \A s : Says(Named(FromBackend(s)), s, TRUE, FALSE, TRUE)
  BY DEF Says, NoAnswer, FromGateway, FromBackend, Allowing, Named

LEMMA AuthBadKeyIsRight ==
    ASSUME NEW posture \in PostureNames, NEW answers \in Answers(posture, "auth-bad-key")
    PROVE  Measured(posture, State("auth-bad-key", answers))
  <1>1. State("auth-bad-key", answers) = AuthBadKey(Head(answers)) BY DEF State
  <1>2. \/ posture = "on" /\ Head(answers) \in {FromGateway(401), FromGateway(403)}
        \/ posture = "off" /\ Head(answers) = FromBackend(200)
        \/ posture = "wrong" /\ Head(answers) \in {FromBackend(401), FromGateway(500)}
    BY DEF PostureNames, Answers, Enforcing, Letting, Failing
  <1> QED
    BY <1>1, <1>2, Responses
    DEF AuthBadKey, Unmeasured, TransportFailed, QuotaBlocked, ProxiedOrWrong, Says, Right, Measured
LEMMA AuthNoKeyIsRight ==
    ASSUME NEW posture \in PostureNames, NEW answers \in Answers(posture, "auth-no-key")
    PROVE  Measured(posture, State("auth-no-key", answers)) \/ Mistaken(posture, "auth-no-key", answers)
  <1>1. State("auth-no-key", answers) = AuthNoKey(Head(answers)) BY DEF State
  <1>2. \/ posture = "on" /\ Head(answers) \in {FromGateway(401), FromGateway(403)}
        \/ posture = "off" /\ Head(answers) = FromBackend(200)
        \/ posture = "wrong" /\ Head(answers) = FromGateway(502)
        \/ posture = "wrong" /\ answers = <<FromBackend(401)>>
    BY DEF PostureNames, Answers, Enforcing, Letting, Failing
  <1>3. AuthNoKey(FromBackend(401)) = "pass"
    BY Responses DEF AuthNoKey, Unmeasured, TransportFailed, QuotaBlocked, Says
  <1>4. CASE answers = <<FromBackend(401)>> /\ posture = "wrong"
    BY <1>1, <1>3, <1>4 DEF Mistaken, Mistakable
  <1>5. CASE ~(answers = <<FromBackend(401)>> /\ posture = "wrong")
    BY <1>1, <1>2, <1>5, Responses
    DEF AuthNoKey, Unmeasured, ProxiedOrWrong, TransportFailed, QuotaBlocked, Says, Right, Measured
  <1> QED BY <1>4, <1>5

LEMMA PayloadLimitIsRight ==
    ASSUME NEW posture \in PostureNames, NEW answers \in Answers(posture, "payload-limit")
    PROVE  Measured(posture, State("payload-limit", answers))
  <1>1. State("payload-limit", answers) = PayloadLimit(Head(answers)) BY DEF State
  <1>2. \/ posture = "on" /\ Head(answers) \in {FromGateway(413), FromGateway(400), NoAnswer}
        \/ posture = "off" /\ Head(answers) = FromBackend(200)
        \/ posture = "wrong" /\ Head(answers) = FromGateway(502)
    BY DEF PostureNames, Answers, Enforcing, Letting, Failing
  <1> QED
    BY <1>1, <1>2, Responses
    DEF PayloadLimit, ProxiedOrWrong, TransportFailed, QuotaBlocked, Says, Right, Measured

LEMMA UpstreamTimeoutIsRight ==
    ASSUME NEW posture \in PostureNames, NEW answers \in Answers(posture, "upstream-timeout")
    PROVE  Measured(posture, State("upstream-timeout", answers))
  <1>1. State("upstream-timeout", answers) = UpstreamTimeout(Head(answers)) BY DEF State
  <1>2. \/ posture = "on" /\ Head(answers) = FromGateway(504)
        \/ posture = "off" /\ Head(answers) = FromBackend(200)
        \/ posture = "wrong" /\ Head(answers) \in {NoAnswer, FromGateway(502)}
    BY DEF PostureNames, Answers, Enforcing, Letting, Failing
  <1> QED
    BY <1>1, <1>2, Responses
    DEF UpstreamTimeout, Succeeded, TransportFailed, QuotaBlocked, Says, Right, Measured

LEMMA UnknownRouteIsRight ==
    ASSUME NEW posture \in PostureNames, NEW answers \in Answers(posture, "unknown-route")
    PROVE  Measured(posture, State("unknown-route", answers)) \/ Mistaken(posture, "unknown-route", answers)
  <1>1. State("unknown-route", answers) = UnknownRoute(Head(answers)) BY DEF State
  <1>2. \/ posture = "on" /\ Head(answers) = FromGateway(404)
        \/ posture = "off" /\ Head(answers) = FromBackend(404)
        \/ posture = "wrong" /\ Head(answers) = FromGateway(502)
        \/ posture = "off" /\ answers = <<FromGateway(404)>>
    BY DEF PostureNames, Answers, Enforcing, Letting, Failing
  <1>3. UnknownRoute(FromGateway(404)) = "pass"
    BY Responses DEF UnknownRoute, Unmeasured, TransportFailed, QuotaBlocked, Says
  <1>4. CASE answers = <<FromGateway(404)>> /\ posture = "off"
    BY <1>1, <1>3, <1>4 DEF Mistaken, Mistakable
  <1>5. CASE ~(answers = <<FromGateway(404)>> /\ posture = "off")
    BY <1>1, <1>2, <1>5, Responses
    DEF UnknownRoute, Unmeasured, ProxiedOrWrong, TransportFailed, QuotaBlocked, Says, Right, Measured
  <1> QED BY <1>4, <1>5

LEMMA CorsPreflightIsRight ==
    ASSUME NEW posture \in PostureNames, NEW answers \in Answers(posture, "cors-preflight")
    PROVE  Measured(posture, State("cors-preflight", answers))
  <1>1. State("cors-preflight", answers) = CorsPreflight(Head(answers)) BY DEF State
  <1>2. \/ posture = "on" /\ Head(answers) = Allowing(FromGateway(204))
        \/ posture = "off" /\ Head(answers) = FromBackend(200)
        \/ posture = "wrong" /\ Head(answers) = Allowing(FromGateway(403))
    BY DEF PostureNames, Answers, Enforcing, Letting, Failing
  <1> QED
    BY <1>1, <1>2, Responses
    DEF CorsPreflight, Unmeasured, Succeeded, TransportFailed, QuotaBlocked, Says, Right, Measured

LEMMA CacheIsRight ==
    ASSUME NEW posture \in PostureNames, NEW answers \in Answers(posture, "cache")
    PROVE  Measured(posture, State("cache", answers)) \/ Mistaken(posture, "cache", answers)
  <1> DEFINE miss == <<FromBackend(200), Named(FromBackend(200))>>
  <1>1. State("cache", answers) = Cache(Head(answers), answers[2]) BY DEF State
  <1>2. \/ posture = "on" /\ answers \in {<<FromBackend(200), FromGateway(200)>>, miss}
        \/ posture \in {"off", "wrong"} /\ answers \in {<<FromBackend(200), FromBackend(200)>>, miss}
    BY DEF PostureNames, Answers, Enforcing, Letting, Failing
  <1>3. CASE answers = miss
    <2>1. Head(answers) = FromBackend(200) /\ answers[2] = Named(FromBackend(200)) BY <1>3
    <2>2. State("cache", answers) = "pass"
      BY <1>1, <2>1, Responses DEF Cache, Unmeasured, TransportFailed, QuotaBlocked, Says
    <2>3. answers \in Mistakable("cache") BY <1>3 DEF Mistakable
    <2> QED BY <1>2, <2>2, <2>3 DEF Right, Measured, Mistaken
  <1>4. CASE answers # miss
    BY <1>1, <1>2, <1>4, Responses
    DEF Cache, Unmeasured, TransportFailed, QuotaBlocked, Says, Right, Measured
  <1> QED BY <1>3, <1>4

LEMMA RateLimitIsRight ==
    ASSUME NEW posture \in PostureNames, NEW answers \in Answers(posture, "rate-limit")
    PROVE  Measured(posture, State("rate-limit", answers))
  <1>1. State("rate-limit", answers) = RateLimit(answers) BY DEF State
  <1>2. \/ posture = "on" /\ answers \in {<<FromBackend(200), Throttled>>, <<Throttled, NoAnswer>>}
        \/ posture = "off" /\ answers \in {<<FromBackend(200), FromBackend(200)>>, <<NoAnswer, FromBackend(200)>>}
        \/ posture = "wrong" /\ answers \in {<<FromBackend(200), FromBackend(200)>>, <<NoAnswer, FromBackend(200)>>}
    BY DEF PostureNames, Answers, Enforcing, Letting, Failing
  <1> QED
    BY <1>1, <1>2, Responses
    DEF RateLimit, Throttled, TransportFailed, QuotaBlocked, Says, Right, Measured

----------------------------------------------------------------------------
(* One probe of a pass.                                                    *)

LEMMA PolicyNames ==
    /\ PolicyIds = {"auth-bad-key", "auth-no-key", "payload-limit", "upstream-timeout", "cache",
                    "unknown-route", "cors-preflight", "rate-limit"}
    /\ DOMAIN Probes = 1..8 /\ Probes \in [1..8 -> PolicyIds]
  <1>1. DOMAIN Probes = 1..8 BY DEF Probes
  <1>2. 1..8 = {1, 2, 3, 4, 5, 6, 7, 8} OBVIOUS
  <1>3. /\ Probes[1] = "auth-bad-key" /\ Probes[2] = "auth-no-key" /\ Probes[3] = "payload-limit"
        /\ Probes[4] = "upstream-timeout" /\ Probes[5] = "cache" /\ Probes[6] = "unknown-route"
        /\ Probes[7] = "cors-preflight" /\ Probes[8] = "rate-limit"
    BY DEF Probes
  <1>4. PolicyIds = {Probes[1], Probes[2], Probes[3], Probes[4], Probes[5], Probes[6], Probes[7], Probes[8]}
    BY <1>1, <1>2 DEF PolicyIds
  <1>5. Probes \in [1..8 -> PolicyIds] BY <1>1 DEF PolicyIds, Probes
  <1> QED BY <1>1, <1>3, <1>4, <1>5

LEMMA FirstNumbers ==
    ASSUME NEW n \in Nat PROVE IsFiniteSet(1..n) /\ Cardinality(1..n) = n
  <1>1. 1 \in Int /\ n \in Int OBVIOUS
  <1>2. IsFiniteSet(1..n) /\ Cardinality(1..n) = IF 1 > n THEN 0 ELSE n - 1 + 1 BY <1>1, FS_Interval
  <1> QED BY <1>2

\* While some policy has no result yet there is a probe to go on with.
LEMMA ThereIsANext ==
    ASSUME NEW D \in SUBSET PolicyIds, D # PolicyIds
    PROVE  Probes[Cardinality(D) + 1] \in PolicyIds
  <1>1. IsFiniteSet(1..8) /\ Cardinality(1..8) = 8
    <2>1. 8 \in Nat OBVIOUS
    <2> QED BY <2>1, FirstNumbers
  <1>2. Probes \in Surjection(1..8, PolicyIds)
    <2>1. \A t \in PolicyIds : \E i \in 1..8 : Probes[i] = t BY PolicyNames DEF PolicyIds
    <2> QED BY <2>1, PolicyNames DEF Surjection
  <1>3. IsFiniteSet(PolicyIds) /\ Cardinality(PolicyIds) <= 8 BY <1>1, <1>2, FS_Surjection
  <1>4. Cardinality(PolicyIds) \in Nat BY <1>3, FS_CardinalityType
  <1>5. IsFiniteSet(D) /\ Cardinality(D) <= Cardinality(PolicyIds) /\ Cardinality(D) # Cardinality(PolicyIds)
    BY <1>3, FS_Subset
  <1>6. Cardinality(D) \in Nat BY <1>5, FS_CardinalityType
  <1>7. Cardinality(D) + 1 \in 1..8 BY <1>3, <1>4, <1>5, <1>6
  <1> QED BY <1>7, PolicyNames

LEMMA AnsweredIsRight ==
    ASSUME NEW id \in PolicyIds, NEW posture \in PostureNames, NEW answers \in Answers(posture, id)
    PROVE  Measured(posture, State(id, answers)) \/ Mistaken(posture, id, answers)
  BY PolicyNames, AuthBadKeyIsRight, AuthNoKeyIsRight, PayloadLimitIsRight, UpstreamTimeoutIsRight,
     CacheIsRight, UnknownRouteIsRight, CorsPreflightIsRight, RateLimitIsRight

\* A quota that is used up says nothing of the other policies.
LEMMA ThrottledIsRight ==
    ASSUME NEW id \in PolicyIds, NEW posture \in PostureNames, id = "rate-limit" => posture = "on"
    PROVE  Right(posture, State(id, AllThrottled))
  <1>1. Head(AllThrottled) = FromGateway(429) /\ AllThrottled[2] = FromGateway(429) /\ DOMAIN AllThrottled = {1, 2}
        /\ AllThrottled[1] = FromGateway(429)
    BY DEF AllThrottled, Throttled
  <1>2. Says(FromGateway(429), 429, FALSE, FALSE, FALSE) BY Responses
  <1>q. QuotaBlocked(FromGateway(429)) /\ Unmeasured(FromGateway(429))
    BY <1>2 DEF QuotaBlocked, Unmeasured, Says
  <1>3. id # "rate-limit" => State(id, AllThrottled) = "error"
    <2>1. /\ AuthBadKey(FromGateway(429)) = "error" /\ AuthNoKey(FromGateway(429)) = "error"
          /\ PayloadLimit(FromGateway(429)) = "error" /\ UpstreamTimeout(FromGateway(429)) = "error"
          /\ Cache(FromGateway(429), FromGateway(429)) = "error" /\ UnknownRoute(FromGateway(429)) = "error"
          /\ CorsPreflight(FromGateway(429)) = "error"
      BY <1>2, <1>q
      DEF AuthBadKey, AuthNoKey, PayloadLimit, UpstreamTimeout, Cache, UnknownRoute, CorsPreflight,
          TransportFailed, Succeeded, Says
    <2> QED BY <1>1, <2>1, PolicyNames DEF State
  <1>4. id = "rate-limit" => State(id, AllThrottled) = "pass"
    BY <1>1, <1>2 DEF State, RateLimit, TransportFailed, QuotaBlocked, Says
  <1> QED BY <1>3, <1>4 DEF Right

\* Nobody there: but the upload and the slow request take that for a verdict.
LEMMA LostIsError ==
    ASSUME NEW id \in PolicyIds
    PROVE  State(id, AllLost) = "error" \/ id \in {"payload-limit", "upstream-timeout"}
  <1>1. Head(AllLost) = NoAnswer /\ AllLost[1] = NoAnswer /\ AllLost[2] = NoAnswer /\ DOMAIN AllLost = {1, 2}
    BY DEF AllLost
  <1>2. Says(NoAnswer, 0, FALSE, FALSE, FALSE) BY Responses
  <1>3. TransportFailed(NoAnswer) /\ Unmeasured(NoAnswer) BY <1>2 DEF TransportFailed, Unmeasured, Says
  <1>4. /\ AuthBadKey(NoAnswer) = "error" /\ AuthNoKey(NoAnswer) = "error" /\ Cache(NoAnswer, NoAnswer) = "error"
        /\ UnknownRoute(NoAnswer) = "error" /\ CorsPreflight(NoAnswer) = "error"
    BY <1>2, <1>3 DEF AuthBadKey, AuthNoKey, Cache, UnknownRoute, CorsPreflight, Says
  <1>5. RateLimit(AllLost) = "error" BY <1>1, <1>3 DEF RateLimit
  <1> QED BY <1>1, <1>4, <1>5, PolicyNames DEF State

LEMMA LostCame ==
    ASSUME NEW g, NEW id PROVE Came(g, id, AllLost, TRUE) = "lost"
  BY DEF Came

LEMMA WarmCame ==
    ASSUME NEW g \in warm, NEW answers PROVE Came(g, "cache", answers, FALSE) = "warm"
  BY DEF Came

\* Two reads that a warm cache serves are taken for no cache at all, or for one.
LEMMA WarmState ==
    ASSUME NEW answers \in FromWarmCache PROVE State("cache", answers) \in {"pass", "not-enforced"}
  <1>1. Head(answers) = FromGateway(200) /\ answers[2] \in {FromGateway(200), Named(FromGateway(200))}
    BY DEF FromWarmCache
  <1>2. Says(FromGateway(200), 200, FALSE, FALSE, FALSE) /\ Says(Named(FromGateway(200)), 200, FALSE, FALSE, TRUE)
    BY Responses DEF Says, Named, FromGateway, NoAnswer
  <1>3. ~Unmeasured(Head(answers)) /\ ~Unmeasured(answers[2])
    BY <1>1, <1>2 DEF Unmeasured, TransportFailed, QuotaBlocked, Says
  <1>4. State("cache", answers) = Cache(Head(answers), answers[2]) BY DEF State
  <1> QED BY <1>3, <1>4 DEF Cache

LEMMA OffersAreNames == ASSUME NEW g \in Measurable, NEW id \in PolicyIds PROVE Gateways[g][id] \in PostureNames
  BY GatewaysAssumption DEF Measurable, Postures, PostureNames

\* What is noted of a probe, given what its answers are and how they came about.
NewRow(id, answers, disturbed) ==
    Row(Outcome(id, answers), pass.target, pass.required, Came(pass.target, id, answers, disturbed))

LEMMA EarnedIf ==
    ASSUME NEW id, NEW row, row.target # Self,
           Right(Gateways[row.target][id], row.state) \/ (row.state = "fail" /\ id \in row.required)
    PROVE  Earned(id, row)
  BY DEF Earned, Right

LEMMA RightIsEarned ==
    ASSUME pass.target \in Measurable, NEW id \in PolicyIds, NEW answers, NEW disturbed,
           Right(Gateways[pass.target][id], State(id, answers))
    PROVE  Earned(id, NewRow(id, answers, disturbed))
  <1> DEFINE row == NewRow(id, answers, disturbed)
  <1>1. row.state = Outcome(id, answers) /\ row.target = pass.target /\ row.required = pass.required
    BY DEF NewRow, Row
  <1>2. row.target # Self BY <1>1 DEF Measurable
  <1>3. \/ Outcome(id, answers) = State(id, answers)
        \/ Outcome(id, answers) = "fail" /\ id \in pass.required
    BY DEF Outcome, Promoted
  <1> HIDE DEF row
  <1>4. Earned(id, row) BY <1>1, <1>2, <1>3, EarnedIf
  <1> QED BY <1>4 DEF row

LEMMA AnsweredIsEarned ==
    ASSUME pass.target \in Measurable, NEW id \in PolicyIds, NEW answers \in Undisturbed(pass.target, id)
    PROVE  Earned(id, NewRow(id, answers, FALSE))
  <1> DEFINE row == NewRow(id, answers, FALSE)
  <1>0. pass.target # Self BY DEF Measurable
  <1>r. /\ row.state = Outcome(id, answers) /\ row.required = pass.required
        /\ row.answer = Came(pass.target, id, answers, FALSE)
    BY DEF NewRow, Row
  <1>1. CASE id = "cache" /\ pass.target \in warm
    <2>1. answers \in FromWarmCache BY <1>0, <1>1 DEF Undisturbed
    <2>2. row.answer = "warm" BY <1>1, <1>r, <2>1, WarmCame
    <2>3. row.state \in {"pass", "not-enforced"} \/ id \in row.required
      BY <1>1, <1>r, <2>1, WarmState DEF Outcome, Promoted
    <2> HIDE DEF row
    <2>4. Earned(id, row) BY <2>2, <2>3 DEF Earned
    <2> QED BY <2>4 DEF row
  <1>2. CASE ~(id = "cache" /\ pass.target \in warm)
    <2>1. answers \in Answers(Gateways[pass.target][id], id) BY <1>0, <1>2 DEF Undisturbed
    <2>2. CASE Right(Gateways[pass.target][id], State(id, answers)) BY <2>2, RightIsEarned
    <2>3. CASE Mistaken(Gateways[pass.target][id], id, answers)
      <3>1. row.answer = "mistakable" BY <1>2, <1>r, <2>3 DEF Came, Mistaken, Has
      <3>2. row.state = "pass" BY <1>r, <2>3 DEF Outcome, Promoted, Mistaken
      <3> HIDE DEF row
      <3>3. Earned(id, row) BY <3>1, <3>2 DEF Earned
      <3> QED BY <3>3 DEF row
    <2> QED BY <2>1, <2>2, <2>3, OffersAreNames, AnsweredIsRight DEF Measured
  <1> QED BY <1>1, <1>2

LEMMA ThrottledIsEarned ==
    ASSUME pass.target \in Measurable, NEW id \in PolicyIds, Has(pass.target, "rate-limit"),
           NEW disturbed
    PROVE  Earned(id, NewRow(id, AllThrottled, disturbed))
  <1>1. id = "rate-limit" => Gateways[pass.target][id] = "on" BY DEF Has
  <1>2. Right(Gateways[pass.target][id], State(id, AllThrottled)) BY <1>1, OffersAreNames, ThrottledIsRight
  <1> QED BY <1>2, RightIsEarned

LEMMA LostIsEarned ==
    ASSUME pass.target \in Measurable, NEW id \in PolicyIds
    PROVE  Earned(id, NewRow(id, AllLost, TRUE))
  <1>1. CASE State(id, AllLost) = "error" BY <1>1, RightIsEarned DEF Right
  <1>2. CASE id \in {"payload-limit", "upstream-timeout"}
    <2>1. NewRow(id, AllLost, TRUE).answer = "lost" BY LostCame DEF NewRow, Row
    <2> QED BY <1>2, <2>1 DEF Earned
  <1> QED BY <1>1, <1>2, LostIsError

----------------------------------------------------------------------------
(* The pass.                                                               *)

\* The rows are of one pass, on g and with these required policies.
RowsOf(out, g, req) ==
    \A id \in DOMAIN out : out[id].target = g /\ out[id].required = req /\ Earned(id, out[id])

(* A pass carries its target and its list along and notes every result by  *)
(* them; only gateways that limit rates have their quota used up.          *)
ProbingInv ==
    /\ target \in DOMAIN Gateways
    /\ \A g \in spent : Has(g, "rate-limit")
    /\ pass.pc \in {"idle", "config", "probing", "writing"}
    /\ pass.pc \in {"probing", "writing"} =>
          /\ DOMAIN pass = {"pc", "target", "required", "undisturbed", "out"}
          /\ RowsOf(pass.out, pass.target, pass.required)
    /\ pass.pc = "probing" =>
          pass.target \in Measurable /\ DOMAIN pass.out \subseteq PolicyIds /\ DOMAIN pass.out # PolicyIds
    /\ VerdictsAreEarned

LEMMA ProbingInvInit == PassInit => ProbingInv
  BY DEF PassInit, ProbingInv, NoPass, VerdictsAreEarned, OnePassTogether

LEMMA ProbeKeepsInv ==
    ASSUME ProbingInv, pass.pc = "probing", NEW answers, NEW disturbed, Probe(answers, disturbed),
           Earned(ProbeNext, NewRow(ProbeNext, answers, disturbed))
    PROVE  ProbingInv'
  <1> DEFINE out == [i \in DOMAIN pass.out \union {ProbeNext} |->
                       IF i = ProbeNext THEN NewRow(ProbeNext, answers, disturbed) ELSE pass.out[i]]
  <1>1. ProbeNext \in PolicyIds BY ThereIsANext DEF ProbingInv, ProbeNext
  <1>2. /\ pass' = [pass EXCEPT !.out = out, !.pc = IF DOMAIN out = PolicyIds THEN "writing" ELSE "probing",
                                 !.undisturbed = @ /\ ~disturbed]
        /\ spent' = IF ProbeNext = "rate-limit" /\ Has(pass.target, ProbeNext)
                    THEN spent \union {pass.target} ELSE spent
        /\ UNCHANGED <<target, results>>
    BY DEF Probe, NewRow, settingVars
  <1>3. RowsOf(out, pass.target, pass.required)
    <2>1. NewRow(ProbeNext, answers, disturbed).target = pass.target /\ NewRow(ProbeNext, answers, disturbed).required = pass.required
      BY DEF NewRow, Row
    <2>2. RowsOf(pass.out, pass.target, pass.required) BY DEF ProbingInv
    <2> QED BY <2>1, <2>2 DEF RowsOf
  <1>4. DOMAIN out \subseteq PolicyIds BY <1>1 DEF ProbingInv
  <1> HIDE DEF out
  <1>5. DOMAIN pass = {"pc", "target", "required", "undisturbed", "out"} BY DEF ProbingInv
  <1>6. /\ DOMAIN pass' = DOMAIN pass /\ pass'.out = out /\ pass'.target = pass.target
        /\ pass'.required = pass.required
        /\ pass'.pc = IF DOMAIN out = PolicyIds THEN "writing" ELSE "probing"
    BY <1>2, <1>5
  <1>7. \A g \in spent' : Has(g, "rate-limit") BY <1>2 DEF ProbingInv
  <1>8. VerdictsAreEarned' BY <1>2 DEF ProbingInv, VerdictsAreEarned, OnePassTogether
  <1>9. target' \in DOMAIN Gateways BY <1>2 DEF ProbingInv
  <1> QED BY <1>3, <1>4, <1>5, <1>6, <1>7, <1>8, <1>9 DEF ProbingInv

LEMMA ProbingInvNext == ProbingInv /\ [PassNext]_passVars => ProbingInv'
  <1> SUFFICES ASSUME ProbingInv, [PassNext]_passVars PROVE ProbingInv' OBVIOUS
  <1>1. ASSUME UNCHANGED <<pass, results>>, target' \in DOMAIN Gateways, spent' \subseteq spent
        PROVE ProbingInv'
    <2>1. VerdictsAreEarned' BY <1>1 DEF ProbingInv, VerdictsAreEarned, OnePassTogether
    <2> QED BY <1>1, <2>1 DEF ProbingInv
  <1>2. CASE \E g \in DOMAIN Gateways : PutTarget(g) \/ Refill(g) \/ CacheExpires(g)
    <2>1. UNCHANGED <<pass, results>> /\ target' \in DOMAIN Gateways /\ spent' \subseteq spent
      BY <1>2 DEF PutTarget, Refill, CacheExpires, settingVars, gwVars, ProbingInv
    <2> QED BY <1>1, <2>1
  <1>3. CASE \E e \in BOOLEAN, req \in RequiredSets : PutPolicies(e, req)
    <2>1. UNCHANGED <<pass, results, target, spent>> BY <1>3 DEF PutPolicies, gwVars
    <2> QED BY <1>1, <2>1 DEF ProbingInv
  <1>4. CASE UNCHANGED passVars
    <2>1. UNCHANGED <<pass, results, target, spent>> BY <1>4 DEF passVars
    <2> QED BY <1>1, <2>1 DEF ProbingInv
  <1>5. CASE Reset
    <2>1. results' = <<>> /\ UNCHANGED <<pass, target, spent>> BY <1>5 DEF Reset, gwVars
    <2>2. VerdictsAreEarned' BY <2>1 DEF VerdictsAreEarned, OnePassTogether
    <2> QED BY <2>1, <2>2 DEF ProbingInv
  <1>6. CASE Begin \/ WriteFails
    <2>1. pass' \in {NoPass, [pc |-> "config"]} /\ UNCHANGED <<results, target, spent>>
      BY <1>6 DEF Begin, WriteFails, settingVars, gwVars
    <2>2. pass'.pc \in {"idle", "config"} BY <2>1 DEF NoPass
    <2>3. VerdictsAreEarned' BY <2>1 DEF ProbingInv, VerdictsAreEarned, OnePassTogether
    <2> QED BY <2>1, <2>2, <2>3 DEF ProbingInv
  <1>7. CASE ReadConfig
    <2>1. UNCHANGED <<results, target, spent>> BY <1>7 DEF ReadConfig, settingVars, gwVars
    <2>2. VerdictsAreEarned' BY <2>1 DEF ProbingInv, VerdictsAreEarned, OnePassTogether
    <2>3. CASE ~enabled
      <3>1. pass'.pc = "idle" BY <1>7, <2>3 DEF ReadConfig, NoPass
      <3> QED BY <2>1, <2>2, <3>1 DEF ProbingInv
    <2>4. CASE enabled /\ NotMeasured(target)
      <3> DEFINE out == [id \in PolicyIds |-> Row("error", target, required, "none")]
      <3>1. /\ pass'.pc = "writing" /\ pass'.target = target /\ pass'.required = required /\ pass'.out = out
            /\ DOMAIN pass' = {"pc", "target", "required", "undisturbed", "out"}
        BY <1>7, <2>4 DEF ReadConfig
      <3>2. RowsOf(out, target, required) BY DEF RowsOf, Row, Earned
      <3> QED BY <2>1, <2>2, <3>1, <3>2 DEF ProbingInv
    <2>5. CASE enabled /\ ~NotMeasured(target)
      <3>1. /\ pass'.pc = "probing" /\ pass'.target = target /\ pass'.required = required /\ pass'.out = <<>>
            /\ DOMAIN pass' = {"pc", "target", "required", "undisturbed", "out"}
        BY <1>7, <2>5 DEF ReadConfig
      <3>2. target \in Measurable BY <2>5 DEF NotMeasured, Measurable, ProbingInv
      <3>3. DOMAIN <<>> = {} /\ PolicyIds # {} BY PolicyNames
      <3> QED BY <2>1, <2>2, <3>1, <3>2, <3>3 DEF ProbingInv, RowsOf
    <2> QED BY <2>3, <2>4, <2>5
  <1>8. CASE GatewayAnswers \/ Disturbed
    <2>1. pass.pc = "probing" BY <1>8 DEF GatewayAnswers, Disturbed
    <2>2. pass.target \in Measurable /\ ProbeNext \in PolicyIds
      BY <2>1, ThereIsANext DEF ProbingInv, ProbeNext
    <2>3. CASE \E answers \in Undisturbed(pass.target, ProbeNext) : Probe(answers, FALSE)
      <3>1. PICK answers \in Undisturbed(pass.target, ProbeNext) : Probe(answers, FALSE) BY <2>3
      <3> QED BY <2>1, <2>2, <3>1, AnsweredIsEarned, ProbeKeepsInv
    <2>4. CASE Has(pass.target, "rate-limit") /\ (Probe(AllThrottled, TRUE) \/ Probe(AllThrottled, FALSE))
      BY <2>1, <2>2, <2>4, ThrottledIsEarned, ProbeKeepsInv
    <2>5. CASE Probe(AllLost, TRUE) BY <2>1, <2>2, <2>5, LostIsEarned, ProbeKeepsInv
    <2> QED BY <1>8, <2>3, <2>4, <2>5 DEF GatewayAnswers, Disturbed, ProbingInv
  <1>9. CASE Write
    <2>1. /\ pass.pc = "writing" /\ results' = pass.out /\ pass'.pc = "idle" /\ UNCHANGED <<target, spent>>
      BY <1>9 DEF Write, NoPass, settingVars, gwVars
    <2>2. RowsOf(results', pass.target, pass.required) BY <2>1 DEF ProbingInv
    <2>3. VerdictsAreEarned' BY <2>2 DEF RowsOf, VerdictsAreEarned, OnePassTogether
    <2> QED BY <2>1, <2>3 DEF ProbingInv
  <1> QED BY <1>2, <1>3, <1>4, <1>5, <1>6, <1>7, <1>8, <1>9 DEF PassNext

(* VerdictsAreEarned (app.ts, runPolicies; policy.ts): what is stored of    *)
(* the probes is of one pass and true of the gateway it was made on,        *)
(* whatever is reconfigured, lost or throttled meanwhile.                   *)
THEOREM ResultsAreEarned == PassSpec => []VerdictsAreEarned
  <1>1. PassSpec => PassInit /\ [][PassNext]_passVars BY PTL DEF PassSpec
  <1>2. ProbingInv => VerdictsAreEarned BY DEF ProbingInv
  <1> QED BY <1>1, <1>2, ProbingInvInit, ProbingInvNext, PTL

----------------------------------------------------------------------------
(* A pass that nobody disturbs.                                            *)

FirstProbes(k) == {Probes[i] : i \in 1..k}

LEMMA ProbesDiffer == \A i, j \in 1..8 : Probes[i] = Probes[j] => i = j
  <1>1. /\ Probes[1] = "auth-bad-key" /\ Probes[2] = "auth-no-key" /\ Probes[3] = "payload-limit"
        /\ Probes[4] = "upstream-timeout" /\ Probes[5] = "cache" /\ Probes[6] = "unknown-route"
        /\ Probes[7] = "cors-preflight" /\ Probes[8] = "rate-limit"
    BY DEF Probes
  <1>2. \A i \in 1..8 : i = 1 \/ i = 2 \/ i = 3 \/ i = 4 \/ i = 5 \/ i = 6 \/ i = 7 \/ i = 8
    OBVIOUS
  <1> QED BY <1>1, <1>2

LEMMA FirstProbesCount ==
    ASSUME NEW k \in 0..8 PROVE Cardinality(FirstProbes(k)) = k
  <1> DEFINE f == [i \in 1..k |-> Probes[i]]
  <1>1. f \in Bijection(1..k, FirstProbes(k))
    BY ProbesDiffer DEF Bijection, Injection, Surjection, FirstProbes, IsInjective
  <1>2. IsFiniteSet(1..k) /\ Cardinality(1..k) = k BY FirstNumbers
  <1>3. ExistsBijection(1..k, FirstProbes(k)) BY <1>1 DEF ExistsBijection
  <1> QED BY <1>2, <1>3, FS_Bijection

LEMMA FirstProbesGrow ==
    ASSUME NEW k \in 0..7
    PROVE  /\ FirstProbes(k + 1) = FirstProbes(k) \union {Probes[k + 1]}
           /\ FirstProbes(k + 1) = PolicyIds <=> k = 7
           /\ Probes[k + 1] = "rate-limit" => k = 7
  <1>1. FirstProbes(k + 1) = FirstProbes(k) \union {Probes[k + 1]}
    <2>1. 1..k + 1 = 1..k \union {k + 1} OBVIOUS
    <2> QED BY <2>1 DEF FirstProbes
  <1>2. FirstProbes(8) = PolicyIds BY PolicyNames DEF FirstProbes, PolicyIds
  <1>3. FirstProbes(k + 1) = PolicyIds => k = 7
    <2>1. k + 1 \in 0..8 /\ 8 \in 0..8 OBVIOUS
    <2>2. Cardinality(FirstProbes(k + 1)) = k + 1 /\ Cardinality(FirstProbes(8)) = 8
      BY <2>1, FirstProbesCount
    <2> QED BY <1>2, <2>2
  <1>4. k = 7 => FirstProbes(k + 1) = PolicyIds BY <1>2
  <1>5. Probes[k + 1] = "rate-limit" => k = 7
    <2>1. Probes[8] = "rate-limit" BY DEF Probes
    <2>2. k + 1 \in 1..8 /\ 8 \in 1..8 OBVIOUS
    <2>3. Probes[k + 1] = Probes[8] => k + 1 = 8 BY <2>2, ProbesDiffer
    <2> QED BY <2>1, <2>3
  <1> QED BY <1>1, <1>3, <1>4, <1>5

(* The probes of a pass go by Probes, so that the one that uses up the      *)
(* quota is the last; until then the quota of an undisturbed pass is whole. *)
MeasuringInv ==
    /\ pass.pc = "probing" =>
          /\ \E k \in 0..7 : DOMAIN pass.out = FirstProbes(k)
          /\ pass.undisturbed => pass.target \notin spent
    /\ pass.pc = "writing" => DOMAIN pass.out = PolicyIds
    /\ pass.pc \in {"probing", "writing"} /\ pass.undisturbed /\ pass.target # Self =>
          \A id \in DOMAIN pass.out : pass.out[id].state # "error"

\* What a gateway answers when it has quota left is a measurement.
LEMMA AnsweredMeasures ==
    ASSUME pass.target \in Measurable, NEW id \in PolicyIds, NEW answers \in Undisturbed(pass.target, id)
    PROVE  NewRow(id, answers, FALSE).state # "error"
  <1>0. pass.target # Self BY DEF Measurable
  <1>1. State(id, answers) # "error"
    <2>1. CASE id = "cache" /\ pass.target \in warm
      <3>1. answers \in FromWarmCache BY <1>0, <2>1 DEF Undisturbed
      <3> QED BY <2>1, <3>1, WarmState
    <2>2. CASE ~(id = "cache" /\ pass.target \in warm)
      <3>1. answers \in Answers(Gateways[pass.target][id], id) BY <1>0, <2>2 DEF Undisturbed
      <3> QED BY <3>1, OffersAreNames, AnsweredIsRight DEF Measured, Mistaken
    <2> QED BY <2>1, <2>2
  <1> QED BY <1>1 DEF NewRow, Row, Outcome, Promoted

LEMMA ProbeKeepsMeasuring ==
    ASSUME ProbingInv, MeasuringInv, pass.pc = "probing", NEW answers, NEW disturbed \in BOOLEAN,
           Probe(answers, disturbed),
           pass.undisturbed /\ ~disturbed => NewRow(ProbeNext, answers, disturbed).state # "error"
    PROVE  MeasuringInv'
  <1> DEFINE out == [i \in DOMAIN pass.out \union {ProbeNext} |->
                       IF i = ProbeNext THEN NewRow(ProbeNext, answers, disturbed) ELSE pass.out[i]]
  <1>1. PICK k \in 0..7 : DOMAIN pass.out = FirstProbes(k) BY DEF MeasuringInv
  <1>2. k \in 0..8 /\ k + 1 \in 0..8 /\ k + 1 # 8 <=> k + 1 \in 0..7 OBVIOUS
  <1>3. ProbeNext = Probes[k + 1] BY <1>1, <1>2, FirstProbesCount DEF ProbeNext
  <1>4. DOMAIN out = FirstProbes(k + 1) BY <1>1, <1>3, FirstProbesGrow
  <1>5. /\ pass' = [pass EXCEPT !.out = out, !.pc = IF DOMAIN out = PolicyIds THEN "writing" ELSE "probing",
                                 !.undisturbed = @ /\ ~disturbed]
        /\ spent' = IF ProbeNext = "rate-limit" /\ Has(pass.target, ProbeNext)
                    THEN spent \union {pass.target} ELSE spent
    BY DEF Probe, NewRow
  <1>6. \A i \in DOMAIN out : out[i] = IF i = ProbeNext THEN NewRow(ProbeNext, answers, disturbed) ELSE pass.out[i]
    OBVIOUS
  <1>7. \A i \in DOMAIN out : i # ProbeNext => i \in DOMAIN pass.out OBVIOUS
  <1> HIDE DEF out
  <1>8. DOMAIN pass = {"pc", "target", "required", "undisturbed", "out"} BY DEF ProbingInv
  <1>9. /\ pass'.out = out /\ pass'.target = pass.target
        /\ pass'.pc = IF DOMAIN out = PolicyIds THEN "writing" ELSE "probing"
        /\ pass'.undisturbed = (pass.undisturbed /\ ~disturbed)
    BY <1>5, <1>8
  <1>10. pass'.pc = "probing" => \E n \in 0..7 : DOMAIN pass'.out = FirstProbes(n)
    BY <1>2, <1>4, <1>9, FirstProbesGrow
  <1>11. pass'.pc = "probing" /\ pass'.undisturbed => pass'.target \notin spent'
    <2>1. pass'.pc = "probing" => ProbeNext # "rate-limit" BY <1>3, <1>4, <1>9, FirstProbesGrow
    <2>2. pass.undisturbed => pass.target \notin spent BY DEF MeasuringInv
    <2>3. pass'.undisturbed => pass.undisturbed BY <1>9
    <2>4. pass'.pc = "probing" => spent' = spent BY <1>5, <2>1
    <2>5. pass'.target = pass.target BY <1>9
    <2> QED BY <2>2, <2>3, <2>4, <2>5
  <1>12. pass'.pc = "writing" => DOMAIN pass'.out = PolicyIds BY <1>9
  <1>13. pass'.undisturbed /\ pass'.target # Self => \A id \in DOMAIN pass'.out : pass'.out[id].state # "error"
    <2>1. pass.undisturbed /\ pass.target # Self => \A id \in DOMAIN pass.out : pass.out[id].state # "error"
      BY DEF MeasuringInv
    <2> QED BY <1>6, <1>7, <1>9, <2>1
  <1> QED BY <1>10, <1>11, <1>12, <1>13 DEF MeasuringInv

LEMMA MeasuringInvNext == ProbingInv /\ MeasuringInv /\ [PassNext]_passVars => MeasuringInv'
  <1> SUFFICES ASSUME ProbingInv, MeasuringInv, [PassNext]_passVars PROVE MeasuringInv' OBVIOUS
  <1>1. ASSUME pass' = pass, spent' \subseteq spent PROVE MeasuringInv' BY <1>1 DEF MeasuringInv
  <1>2. CASE \E g \in DOMAIN Gateways : PutTarget(g) \/ Refill(g) \/ CacheExpires(g)
    BY <1>1, <1>2 DEF PutTarget, Refill, CacheExpires, settingVars, gwVars
  <1>3. CASE \E e \in BOOLEAN, req \in RequiredSets : PutPolicies(e, req) BY <1>1, <1>3 DEF PutPolicies, gwVars
  <1>4. CASE UNCHANGED passVars \/ Reset BY <1>1, <1>4 DEF passVars, Reset, gwVars
  <1>5. CASE Begin \/ Write \/ WriteFails
    <2>1. pass'.pc \in {"idle", "config"} BY <1>5 DEF Begin, Write, WriteFails, NoPass
    <2> QED BY <2>1 DEF MeasuringInv
  <1>6. CASE ReadConfig
    <2>1. CASE ~enabled
      <3>1. pass'.pc = "idle" BY <1>6, <2>1 DEF ReadConfig, NoPass
      <3> QED BY <3>1 DEF MeasuringInv
    <2>2. CASE enabled /\ NotMeasured(target)
      <3>1. pass'.pc = "writing" /\ pass'.target = Self /\ DOMAIN pass'.out = PolicyIds
        BY <1>6, <2>2 DEF ReadConfig, NotMeasured
      <3> QED BY <3>1 DEF MeasuringInv
    <2>3. CASE enabled /\ ~NotMeasured(target)
      <3>1. /\ pass'.pc = "probing" /\ pass'.target = target /\ pass'.undisturbed = (target \notin spent)
            /\ pass'.out = <<>> /\ spent' = spent
        BY <1>6, <2>3 DEF ReadConfig, gwVars
      <3>2. DOMAIN <<>> = {} /\ FirstProbes(0) = {} /\ 0 \in 0..7 BY DEF FirstProbes
      <3> QED BY <3>1, <3>2 DEF MeasuringInv
    <2> QED BY <2>1, <2>2, <2>3
  <1>7. CASE GatewayAnswers \/ Disturbed
    <2>1. pass.pc = "probing" BY <1>7 DEF GatewayAnswers, Disturbed
    <2>2. pass.target \in Measurable /\ ProbeNext \in PolicyIds
      BY <2>1, ThereIsANext DEF ProbingInv, ProbeNext
    <2>3. CASE pass.target \notin spent /\ \E answers \in Undisturbed(pass.target, ProbeNext) : Probe(answers, FALSE)
      <3>1. PICK answers \in Undisturbed(pass.target, ProbeNext) : Probe(answers, FALSE) BY <2>3
      <3> QED BY <2>1, <2>2, <3>1, AnsweredMeasures, ProbeKeepsMeasuring
    <2>4. CASE pass.target \in spent /\ Probe(AllThrottled, FALSE)
      <3>1. ~pass.undisturbed BY <2>1, <2>4 DEF MeasuringInv
      <3> QED BY <2>1, <2>4, <3>1, ProbeKeepsMeasuring
    <2>5. CASE Probe(AllThrottled, TRUE) \/ Probe(AllLost, TRUE)
      BY <2>1, <2>5, ProbeKeepsMeasuring
    <2> QED BY <1>7, <2>3, <2>4, <2>5 DEF GatewayAnswers, Disturbed
  <1> QED BY <1>2, <1>3, <1>4, <1>5, <1>6, <1>7 DEF PassNext

(* UndisturbedPassMeasures (policy.ts, runPolicyProbes): the probes do not  *)
(* get into each other's way: a pass that found the quota whole and met no  *)
(* fault has a measurement of every policy, whatever the gateway's posture. *)
THEOREM UndisturbedMeasures == PassSpec => []UndisturbedPassMeasures
  <1>1. PassSpec => PassInit /\ [][PassNext]_passVars BY PTL DEF PassSpec
  <1>2. MeasuringInv => UndisturbedPassMeasures BY DEF MeasuringInv, UndisturbedPassMeasures
  <1>3. PassInit => MeasuringInv BY DEF PassInit, MeasuringInv, NoPass
  <1> QED BY <1>1, <1>2, <1>3, ProbingInvInit, ProbingInvNext, MeasuringInvNext, PTL
=============================================================================
