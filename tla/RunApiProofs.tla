---------------------------- MODULE RunApiProofs ----------------------------
(***************************************************************************)
(* Proofs about the routes (RunApi and Settings, which share no name).     *)
(*                                                                         *)
(* RunApi, for any number of runs and profiles, a queue of any length and  *)
(* any number of kills: the run in progress has its row, every open row is *)
(* accounted for, and the saved profile is in force.  All three come down  *)
(* to the order of calls and replies in the metrics client's queue.        *)
(* Asking says who waits for what, SavedInv where the newest profile is    *)
(* while it is on its way, RunInv and RowInv what the calls that are still *)
(* queued will do to the table.                                            *)
(*                                                                         *)
(* Settings, for any numbers the drawer and the API send: what a PUT has   *)
(* answered is in force, and what the drawer shows of it.                  *)
(***************************************************************************)
EXTENDS RunApi, Settings, TLAPS

(* Each handler waits for one thing at a time: a call or its reply.         *)
OneCall == \A i, j \in 1..Len(calls) : calls[i].by = calls[j].by /\ calls[i].by # "nobody" => i = j

OneReply ==
  \A i, j \in 1..Len(replies) : replies[i].by = replies[j].by /\ replies[i].by # "nobody" => i = j

CallOrReply ==
  \A i \in 1..Len(calls), j \in 1..Len(replies) :
    calls[i].by = replies[j].by => calls[i].by = "nobody"

OneEach == OneCall /\ OneReply /\ CallOrReply

(* One start is under way at a time, and it waits for what its place in the *)
(* handler says.  A row it has asked for is the newest run's.               *)
OneStart == \A s, t \in Starts : startPc[s] # "none" /\ startPc[t] # "none" => s = t

AskedByStart ==
  \A i \in 1..Len(calls) : calls[i].by \in Starts =>
    LET pc == startPc[calls[i].by] IN
    \/ pc = "profile" /\ calls[i].op = "readProfile"
    \/ pc = "gateway" /\ calls[i].op = "readGateway"
    \/ pc = "record" /\ calls[i].op = "start" /\ calls[i].arg = lastRun /\ lastRun \in Runs

AnsweredToStart == \A i \in 1..Len(replies) : replies[i].by \in Starts => startPc[replies[i].by] # "none"

StartAsks == OneStart /\ AskedByStart /\ AnsweredToStart

(* So does the PUT; what nobody waits for stops, resets or prunes.          *)
OthersAsk ==
  /\ \A i \in 1..Len(calls) : calls[i].by = "put" =>
       \/ putPc = "read" /\ calls[i].op = "readProfile"
       \/ putPc = "write" /\ calls[i].op = "writeProfile" /\ calls[i].arg = putCfg
  /\ \A i \in 1..Len(replies) : replies[i].by = "put" => putPc # "none"
  /\ \A i \in 1..Len(calls) : calls[i].by = "nobody" => calls[i].op \in {"stop", "reset", "prune"}

Asking == OneEach /\ StartAsks /\ OthersAsk

(* The PUT's profile is stored and the Driver does not have it yet.         *)
Written == putPc = "write" /\ \E j \in 1..Len(replies) : replies[j].by = "put" /\ replies[j].ok

WrittenIsSaved == Written => saved = putCfg

(* The Driver has the stored profile, and so has the start that is about to *)
(* give it one, unless the PUT is about to, or was applied when the start   *)
(* had read.                                                                *)
DriverIsSaved == profile = saved \/ overlapped \/ Written

StartHasSaved ==
  \A s \in Starts : startPc[s] = "gateway" => startCfg[s] = saved \/ s \in outdated \/ Written

(* A profile on its way to a start is the stored one, or the reply to the   *)
(* PUT that replaced it comes after it.                                     *)
PutAfter(i) == putPc = "write" /\ \E j \in 1..Len(replies) : i < j /\ replies[j].by = "put" /\ replies[j].ok

AnswerIsSaved ==
  \A i \in 1..Len(replies) : replies[i].by \in Starts /\ startPc[replies[i].by] = "profile" =>
    replies[i].val = saved \/ PutAfter(i)

SavedInv == WrittenIsSaved /\ DriverIsSaved /\ StartHasSaved /\ AnswerIsSaved

RunIsNewest == state # "idle" => runId = lastRun /\ runId \in Runs

NoneRunsAtStart == \A s \in Starts : startPc[s] \in {"profile", "gateway"} => state # "running"

(* The stops in the queue are of runs that began, and not of the one in     *)
(* progress.                                                                *)
StopsAreOfOthers ==
  \A i \in 1..Len(calls) : calls[i].op = "stop" =>
    calls[i].arg \in 1..lastRun /\ (state = "running" => calls[i].arg # runId)

(* A reset that is still queued was posted before the first call of the     *)
(* start that is under way, so it is over before that start begins a run.   *)
ResetsComeFirst ==
  \A i \in 1..Len(calls) : calls[i].op = "reset" =>
    /\ state # "running"
    /\ \A s \in Starts : startPc[s] # "none" =>
         startPc[s] = "profile" /\ \E j \in 1..Len(calls) : i < j /\ calls[j].by = s

RowIsOpenOrComes ==
  state = "running" /\ runId \notin unwritten =>
    \/ rows[runId] = "open"
    \/ \E i \in 1..Len(calls) : calls[i].op = "start" /\ calls[i].arg = runId

RunInv == RunIsNewest /\ NoneRunsAtStart /\ StopsAreOfOthers /\ ResetsComeFirst /\ RowIsOpenOrComes

OpenRowsAreRuns == \A r \in Runs : rows[r] = "open" => r <= lastRun

(* A stop of this run comes after place i of the queue.                     *)
StopAfter(r, i) == \E j \in 1..Len(calls) : i < j /\ calls[j].op = "stop" /\ calls[j].arg = r

(* A row that is open, or will be when its start is executed, is the run in *)
(* progress, or its stop comes later, or it was given up.                   *)
StartsAccountedFor ==
  \A i \in 1..Len(calls) : calls[i].op = "start" =>
    \/ state = "running" /\ runId = calls[i].arg
    \/ StopAfter(calls[i].arg, i)
    \/ calls[i].arg \in unclosed

RowsAccountedFor ==
  \A r \in Runs : rows[r] = "open" =>
    \/ state = "running" /\ runId = r
    \/ StopAfter(r, 0)
    \/ r \in unclosed

RowInv == OpenRowsAreRuns /\ StartsAccountedFor /\ RowsAccountedFor

ApiInv == TypeOK /\ Asking /\ SavedInv /\ RunInv /\ RowInv

-----------------------------------------------------------------------------
(* One element more at the end of a sequence, and one less at its head.     *)
Longer(s, t, e) == /\ Len(s) \in Nat /\ Len(t) = Len(s) + 1 /\ t[Len(s) + 1] = e
                   /\ \A i \in 1..Len(s) : t[i] = s[i]

Shorter(s, t) == /\ Len(s) \in Nat \ {0} /\ Len(t) = Len(s) - 1 /\ Head(s) = s[1]
                 /\ \A i \in 1..Len(t) : t[i] = s[i + 1]

(* What Append and Tail return, element by element.                         *)
LEMMA AppendIsLonger ==
  ASSUME NEW S, NEW s \in Seq(S), NEW e \in S
  PROVE  Longer(s, Append(s, e), e) /\ Append(s, e) \in Seq(S)
BY DEF Longer

LEMMA TailIsShorter ==
  ASSUME NEW S, NEW s \in Seq(S), s # <<>>
  PROVE  Shorter(s, Tail(s)) /\ Tail(s) \in Seq(S) /\ Head(s) \in S
BY DEF Shorter

ReplyType == [by : Handlers, val : Profiles, ok : BOOLEAN]

(* The calls the handlers make are calls.                                   *)
LEMMA CallTypes ==
  /\ \A s \in Handlers : Call("readProfile", 0, s) \in CallType /\ Call("readGateway", 0, s) \in CallType
  /\ \A r \in 0..MaxRuns : \A s \in Handlers : Call("start", r, s) \in CallType /\ Call("stop", r, s) \in CallType
  /\ \A c \in Profiles : Call("writeProfile", c, "put") \in CallType
  /\ Call("reset", 0, "nobody") \in CallType /\ Call("prune", 0, "nobody") \in CallType
BY RunApiAssumption DEF Call, CallType, Ops, Profiles, Handlers, Starts

LEMMA HandlersOf ==
  /\ \A s \in Starts : s \in Handlers /\ s # "put" /\ s # "nobody"
  /\ "put" \in Handlers /\ "nobody" \in Handlers
BY DEF Handlers, Starts

(* The store executes a call, or its statement throws; either way the call  *)
(* is taken and its reply added.                                            *)
Serves(ok) == IF ok THEN StoreStep ELSE StoreThrows

LEMMA StoreStepIs ==
  ASSUME TypeOK, NEW ok \in BOOLEAN, Serves(ok)
  PROVE  /\ Shorter(calls, calls') /\ calls' \in Seq(CallType) /\ calls[1] \in CallType /\ Head(calls) = calls[1]
         /\ Longer(replies, replies', [by |-> calls[1].by, val |-> saved, ok |-> ok])
         /\ replies' \in Seq(ReplyType)
<1>1. calls \in Seq(CallType) /\ calls # <<>> /\ calls' = Tail(calls)
  BY DEF TypeOK, Serves, StoreStep, StoreThrows
<1>2. Shorter(calls, calls') /\ calls' \in Seq(CallType) /\ Head(calls) \in CallType
  BY <1>1, TailIsShorter
<1>3. Head(calls) = calls[1]
  BY <1>2 DEF Shorter
<1>4. [by |-> calls[1].by, val |-> saved, ok |-> ok] \in ReplyType
  BY <1>2, <1>3 DEF TypeOK, ReplyType, CallType
<1>5. replies \in Seq(ReplyType) /\ replies' = Append(replies, [by |-> calls[1].by, val |-> saved, ok |-> ok])
  BY <1>3 DEF TypeOK, ReplyType, Serves, StoreStep, StoreThrows, Replies
<1>6. Longer(replies, replies', [by |-> calls[1].by, val |-> saved, ok |-> ok]) /\ replies' \in Seq(ReplyType)
  BY <1>4, <1>5, AppendIsLonger
<1> QED
  BY <1>2, <1>3, <1>6
-----------------------------------------------------------------------------
(* A call is posted, a reply taken, and a handler that goes on posts its    *)
(* next call if the queue has room.                                         *)
Posts(c) == Longer(calls, calls', c) /\ calls' \in Seq(CallType)
Takes(by) == Shorter(replies, replies') /\ replies[1].by = by /\ replies' \in Seq(ReplyType)
             /\ Head(replies) = replies[1] /\ replies[1] \in ReplyType
Asks(c) == IF AcceptsAfterReply THEN Posts(c) ELSE UNCHANGED calls

(* What each action does to the two queues.                                 *)
LEMMA QueueSteps ==
  ASSUME TypeOK
  PROVE  /\ \A s \in Starts :
              /\ StartArrives(s) => Posts(Call("readProfile", 0, s)) /\ UNCHANGED replies
              /\ StartHasProfile(s) => Takes(s) /\ Asks(Call("readGateway", 0, s))
              /\ StartBegins(s) => Takes(s) /\ Asks(Call("start", lastRun + 1, s))
              /\ StartRefused(s) \/ StartAnswers(s) \/ StartFails(s) => Takes(s) /\ UNCHANGED calls
         /\ AskStop => /\ IF Accepts THEN Posts(Call("stop", runId, "nobody")) ELSE UNCHANGED calls
                       /\ UNCHANGED replies
         /\ \A c \in Profiles : PutArrives(c) => Posts(Call("readProfile", 0, "put")) /\ UNCHANGED replies
         /\ PutWrites => Takes("put") /\ Asks(Call("writeProfile", putCfg, "put"))
         /\ PutApplies \/ PutGivesUp => Takes("put") /\ UNCHANGED calls
         /\ Reset => Posts(Call("reset", 0, "nobody")) /\ UNCHANGED replies
         /\ Prune => Posts(Call("prune", 0, "nobody")) /\ UNCHANGED replies
         /\ ReplyDropped => Takes("nobody") /\ UNCHANGED calls
<1> USE RunApiAssumption
<1>1. ASSUME NEW c \in CallType, calls' = Append(calls, c) PROVE Posts(c)
  BY <1>1, AppendIsLonger DEF Posts, TypeOK
<1>2. ASSUME NEW by, ReplyTo(by), replies' = Tail(replies) PROVE Takes(by)
  <2>1. replies \in Seq(ReplyType) /\ replies # <<>> /\ Head(replies).by = by
    BY <1>2 DEF TypeOK, ReplyType, ReplyTo
  <2>2. Shorter(replies, replies') /\ replies' \in Seq(ReplyType) /\ Head(replies) \in ReplyType
    BY <1>2, <2>1, TailIsShorter
  <2> QED
    BY <2>1, <2>2 DEF Takes, Shorter
<1>3. ASSUME NEW s \in Starts PROVE
        /\ StartArrives(s) => Posts(Call("readProfile", 0, s)) /\ UNCHANGED replies
        /\ StartHasProfile(s) => Takes(s) /\ Asks(Call("readGateway", 0, s))
        /\ StartRefused(s) \/ StartAnswers(s) \/ StartFails(s) => Takes(s) /\ UNCHANGED calls
  <2>1. Call("readProfile", 0, s) \in CallType /\ Call("readGateway", 0, s) \in CallType
    BY CallTypes, HandlersOf
  <2> QED
    BY <1>1, <1>2, <2>1 DEF StartArrives, StartHasProfile, StartRefused, StartAnswers, StartFails, Asks, AnswerFor, ErrorFor
<1>4. ASSUME NEW s \in Starts, StartBegins(s) PROVE Takes(s) /\ Asks(Call("start", lastRun + 1, s))
  <2>1. lastRun' = lastRun + 1 /\ lastRun + 1 \in 0..MaxRuns
    BY <1>4 DEF StartBegins, TypeOK, driver!Begin
  <2>2. Call("start", lastRun + 1, s) \in CallType
    BY <2>1, CallTypes, HandlersOf
  <2> QED
    BY <1>1, <1>2, <1>4, <2>1, <2>2 DEF StartBegins, Asks, AnswerFor
<1>5. ASSUME AskStop PROVE /\ IF Accepts THEN Posts(Call("stop", runId, "nobody")) ELSE UNCHANGED calls
                           /\ UNCHANGED replies
  <2>1. Call("stop", runId, "nobody") \in CallType
    BY CallTypes, HandlersOf DEF TypeOK
  <2> QED
    BY <1>1, <1>5, <2>1 DEF AskStop
<1>6. /\ \A c \in Profiles : PutArrives(c) => Posts(Call("readProfile", 0, "put")) /\ UNCHANGED replies
      /\ PutWrites => Takes("put") /\ Asks(Call("writeProfile", putCfg, "put"))
      /\ PutApplies \/ PutGivesUp => Takes("put") /\ UNCHANGED calls
  <2>1. Call("readProfile", 0, "put") \in CallType /\ Call("writeProfile", putCfg, "put") \in CallType
    BY CallTypes, HandlersOf DEF TypeOK
  <2> QED
    BY <1>1, <1>2, <2>1 DEF PutArrives, PutWrites, PutApplies, PutGivesUp, Asks, AnswerFor, ErrorFor
<1>7. /\ Reset => Posts(Call("reset", 0, "nobody")) /\ UNCHANGED replies
      /\ Prune => Posts(Call("prune", 0, "nobody")) /\ UNCHANGED replies
      /\ ReplyDropped => Takes("nobody") /\ UNCHANGED calls
  BY <1>1, <1>2, CallTypes DEF Reset, Prune, ReplyDropped
<1> QED
  BY <1>3, <1>4, <1>5, <1>6, <1>7

(* The calls by what they ask: only a start handler sends a start, and what *)
(* nobody waits for stops, resets or prunes.                                *)
LEMMA CallsAre ==
  ASSUME ApiInv, NEW i \in 1..Len(calls)
  PROVE  /\ calls[i] \in CallType
         /\ calls[i].op \in {"start", "readGateway"} => calls[i].by \in Starts
         /\ calls[i].op = "start" => calls[i].arg = lastRun /\ calls[i].arg \in Runs /\ startPc[calls[i].by] = "record"
         /\ calls[i].op \in {"stop", "reset", "prune"} => calls[i].by = "nobody"
<1>1. calls[i] \in CallType
  BY DEF ApiInv, TypeOK
<1>2. calls[i].by \in Starts \/ calls[i].by = "put" \/ calls[i].by = "nobody"
  BY <1>1 DEF CallType, Handlers
<1> QED
  BY <1>1, <1>2 DEF ApiInv, Asking, StartAsks, AskedByStart, OthersAsk

(* Membership is a truth value, in the form the provers need it.            *)
LEMMA BooleanIs == \A e, S : (e \in S) \in BOOLEAN
OBVIOUS

(* Every step keeps the type invariant; for the bound of the queue: a       *)
(* handler that takes a reply makes room for the call it posts.             *)
LEMMA TypeStep ==
  ASSUME ApiInv, [Next]_vars
  PROVE  TypeOK'
<1> USE RunApiAssumption
<1>0. /\ TypeOK /\ calls \in Seq(CallType) /\ replies \in Seq(ReplyType)
      /\ Len(calls) \in Nat /\ Len(replies) \in Nat /\ Len(calls) + Len(replies) <= MaxPending
      /\ state # "idle" => runId \in Runs
  BY DEF ApiInv, TypeOK, Pending, RunInv, RunIsNewest, ReplyType
<1> DEFINE Rest == /\ state' \in {"idle", "running", "stopping"} /\ runId' \in 0..MaxRuns /\ lastRun' \in 0..MaxRuns
                   /\ profile' \in Profiles /\ saved' \in Profiles /\ startCfg' \in [Starts -> Profiles] /\ putCfg' \in Profiles
                   /\ rows' \in [Runs -> {"none", "open", "stopped"}]
                   /\ startPc' \in [Starts -> {"none", "profile", "gateway", "record"}] /\ putPc' \in {"none", "read", "write"}
                   /\ unwritten' \subseteq Runs /\ unclosed' \subseteq Runs
                   /\ outdated' \subseteq Starts /\ overlapped' \in BOOLEAN
                   /\ throws' \in 0..MaxThrows /\ restarts' \in 0..MaxRestarts
           Queues == /\ calls' \in Seq(CallType) /\ replies' \in Seq(ReplyType)
                     /\ Len(calls') + Len(replies') <= MaxPending
<1> SUFFICES Rest /\ Queues
  BY DEF TypeOK, Pending, ReplyType
<1>1. ASSUME NEW c, Posts(c), UNCHANGED replies, Accepts PROVE Queues
  BY <1>0, <1>1 DEF Posts, Longer, Accepts, Pending
<1>2. ASSUME NEW by, Takes(by), UNCHANGED calls PROVE Queues
  BY <1>0, <1>2 DEF Takes, Shorter
<1>3. ASSUME NEW by, NEW c, Takes(by), Asks(c) PROVE Queues
  BY <1>0, <1>3 DEF Takes, Shorter, Asks, AcceptsAfterReply, Posts, Longer, Pending
<1>4. ASSUME NEW s \in Starts, StartArrives(s) PROVE Rest /\ Queues
  <2>1. Queues
    BY <1>1, <1>4, <1>0, QueueSteps DEF StartArrives
  <2>2. Rest
    BY <1>4, <1>0 DEF TypeOK, StartArrives, driverVars, storeVars, missing, overlaps
  <2> QED
    BY <2>1, <2>2
<1>5. ASSUME NEW s \in Starts, StartHasProfile(s) PROVE Rest /\ Queues
  <2>1. Takes(s) /\ Queues
    BY <1>3, <1>5, <1>0, QueueSteps
  <2>2. Rest
    BY <1>5, <1>0, <2>1 DEF TypeOK, StartHasProfile, driverVars, storeVars, ReplyType, Takes, missing, overlaps
  <2> QED
    BY <2>1, <2>2
<1>6. ASSUME NEW s \in Starts, StartBegins(s) PROVE Rest /\ Queues
  <2>1. Queues
    BY <1>3, <1>6, <1>0, QueueSteps
  <2>2. lastRun' = lastRun + 1 /\ lastRun' \in Runs /\ lastRun' \in 0..MaxRuns
    BY <1>6, <1>0 DEF StartBegins, TypeOK, Runs, driver!Begin
  <2>3. Rest
    <3>1. overlapped' \in BOOLEAN
      BY <1>6, BooleanIs DEF StartBegins, TakesProfile
    <3>2. profile' \in Profiles
      BY <1>6, <1>0 DEF TypeOK, StartBegins, TakesProfile
    <3> QED
      BY <1>6, <1>0, <2>2, <3>1, <3>2 DEF TypeOK, StartBegins, TakesProfile, storeVars, driver!Begin
  <2> QED
    BY <2>1, <2>3
<1>7. ASSUME NEW s \in Starts, StartRefused(s) \/ StartAnswers(s) \/ StartFails(s) PROVE Rest /\ Queues
  <2>1. Queues
    BY <1>2, <1>7, <1>0, QueueSteps
  <2>2. Rest
    <3>1. CASE StartRefused(s)
      <4>1. overlapped' \in BOOLEAN
        BY <3>1, BooleanIs DEF StartRefused, TakesProfile
      <4>2. profile' \in Profiles
        BY <1>0, <3>1 DEF TypeOK, StartRefused, TakesProfile
      <4> QED
        BY <1>0, <3>1, <4>1, <4>2 DEF TypeOK, StartRefused, TakesProfile, driverVars, storeVars, missing
    <3>2. CASE StartAnswers(s) \/ StartFails(s)
      BY <1>0, <3>2 DEF TypeOK, StartAnswers, StartFails, driverVars, storeVars, missing, overlaps
    <3> QED
      BY <1>7, <3>1, <3>2
  <2> QED
    BY <2>1, <2>2
<1>8. ASSUME AskStop PROVE Rest /\ Queues
  <2>1. Queues
    BY <1>1, <1>8, <1>0, QueueSteps
  <2>2. Rest
    BY <1>8, <1>0 DEF TypeOK, AskStop, driver!AskStop, storeVars, handlers, overlaps
  <2> QED
    BY <2>1, <2>2
<1>9. ASSUME StopEnds \/ RunCutShort PROVE Rest /\ Queues
  BY <1>9, <1>0 DEF TypeOK, StopEnds, RunCutShort, driver!End, storeVars, handlers, missing, overlaps
<1>10. ASSUME NEW c \in Profiles, PutArrives(c) PROVE Rest /\ Queues
  <2>1. Queues
    BY <1>1, <1>10, <1>0, QueueSteps DEF PutArrives
  <2>2. Rest
    BY <1>10, <1>0 DEF TypeOK, PutArrives, driverVars, storeVars, missing, overlaps
  <2> QED
    BY <2>1, <2>2
<1>11. ASSUME PutWrites PROVE Rest /\ Queues
  <2>1. Queues
    BY <1>3, <1>11, <1>0, QueueSteps
  <2>2. Rest
    BY <1>11, <1>0 DEF TypeOK, PutWrites, driverVars, storeVars, missing, overlaps
  <2> QED
    BY <2>1, <2>2
<1>12. ASSUME PutApplies \/ PutGivesUp PROVE Rest /\ Queues
  <2>1. Queues
    BY <1>2, <1>12, <1>0, QueueSteps
  <2>2. Rest
    BY <1>12, <1>0 DEF TypeOK, PutApplies, PutGivesUp, driverVars, storeVars, missing, overlaps
  <2> QED
    BY <2>1, <2>2
<1>13. ASSUME Reset \/ Prune PROVE Rest /\ Queues
  <2>1. Queues
    BY <1>1, <1>13, <1>0, QueueSteps DEF Reset, Prune
  <2>2. Rest
    BY <1>13, <1>0 DEF TypeOK, Reset, Prune, driverVars, storeVars, handlers, missing, overlaps
  <2> QED
    BY <2>1, <2>2
<1>14. ASSUME NEW ok \in BOOLEAN, Serves(ok) PROVE Rest /\ Queues
  <2>1. /\ Shorter(calls, calls') /\ calls' \in Seq(CallType) /\ calls[1] \in CallType /\ Head(calls) = calls[1]
        /\ Longer(replies, replies', [by |-> calls[1].by, val |-> saved, ok |-> ok])
        /\ replies' \in Seq(ReplyType)
    BY <1>14, <1>0, StoreStepIs
  <2>2. rows' \in [Runs -> {"none", "open", "stopped"}]
    BY <1>14, <1>0 DEF Serves, StoreStep, StoreThrows, TypeOK, Pruned
  <2>3. saved' \in Profiles
    <3>1. 1 \in 1..Len(calls) /\ calls[1].by \in Handlers
      BY <2>1 DEF Shorter, CallType
    <3>2. calls[1].op = "writeProfile" => calls[1].arg = putCfg
      BY <3>1 DEF ApiInv, Asking, OthersAsk, StartAsks, OneStart, AskedByStart, AnsweredToStart, Handlers
    <3> QED
      BY <3>2, <2>1, <1>14, <1>0 DEF Serves, StoreStep, StoreThrows, TypeOK
  <2>4. unwritten' \subseteq Runs /\ unclosed' \subseteq Runs /\ throws' \in 0..MaxThrows
    <3>1. 1 \in 1..Len(calls)
      BY <2>1 DEF Shorter
    <3>2. /\ calls[1].op = "start" => calls[1].arg \in Runs
          /\ calls[1].op = "stop" => calls[1].arg \in 1..lastRun
      BY <3>1, CallsAre DEF ApiInv, RunInv, StopsAreOfOthers
    <3>3. 1..lastRun \subseteq Runs
      BY <1>0 DEF TypeOK, Runs
    <3>4. CASE StoreStep
      BY <1>0, <3>4 DEF StoreStep, TypeOK, missing
    <3>5. CASE StoreThrows
      BY <1>0, <2>1, <3>2, <3>3, <3>5 DEF StoreThrows, TypeOK
    <3> QED
      BY <1>14, <3>4, <3>5 DEF Serves
  <2>5. Rest
    BY <2>2, <2>3, <2>4, <1>14, <1>0 DEF TypeOK, Serves, StoreStep, StoreThrows, driverVars, handlers, overlaps
  <2> QED
    BY <2>1, <2>5, <1>0 DEF Shorter, Longer
<1>15. ASSUME ReplyDropped PROVE Rest /\ Queues
  <2>1. Queues
    BY <1>2, <1>15, <1>0, QueueSteps
  <2>2. Rest
    BY <1>15, <1>0 DEF TypeOK, ReplyDropped, driverVars, storeVars, handlers, missing, overlaps
  <2> QED
    BY <2>1, <2>2
<1>16. ASSUME Restart PROVE Rest /\ Queues
  <2>1. Rest
    <3>1. unclosed' \subseteq Runs
      BY <1>16, <1>0 DEF TypeOK, Restart
    <3>2. outdated' \subseteq Starts /\ overlapped' \in BOOLEAN
      BY <1>16 DEF Restart
    <3>3. startPc' \in [Starts -> {"none", "profile", "gateway", "record"}] /\ putPc' \in {"none", "read", "write"}
      BY <1>16 DEF Restart
    <3> QED
      BY <1>16, <1>0, <3>1, <3>2, <3>3 DEF TypeOK, Restart, storeVars
  <2>2. calls' = <<>> /\ replies' = <<>>
    BY <1>16 DEF Restart
  <2> QED
    BY <2>1, <2>2
<1>17. ASSUME UNCHANGED vars PROVE Rest /\ Queues
  BY <1>17, <1>0 DEF TypeOK, vars, driverVars, storeVars, handlers, missing, overlaps
<1> QED
  BY <1>4, <1>5, <1>6, <1>7, <1>8, <1>9, <1>10, <1>11, <1>12, <1>13, <1>14, <1>15, <1>16, <1>17
     DEF Next, StopArrives, AutoStop, Serves
-----------------------------------------------------------------------------
(* Neither queue holds anything of this handler.                            *)
Idle(h) == /\ \A i \in 1..Len(calls) : calls[i].by # h
           /\ \A i \in 1..Len(replies) : replies[i].by # h

(* Every step keeps each handler to one call or reply.                      *)
LEMMA OneEachStep ==
  ASSUME ApiInv, [Next]_vars
  PROVE  OneEach'
<1>0. TypeOK /\ OneEach /\ Len(calls) \in Nat /\ Len(replies) \in Nat
  BY DEF ApiInv, TypeOK, Asking
<1>1. ASSUME NEW c, Posts(c), UNCHANGED replies, c.by = "nobody" \/ Idle(c.by) PROVE OneEach'
  <2>1. \A i \in 1..Len(calls') : (i \in 1..Len(calls) /\ calls'[i] = calls[i]) \/ (i = Len(calls) + 1 /\ calls'[i] = c)
    BY <1>0, <1>1 DEF Posts, Longer
  <2>2. ASSUME NEW i \in 1..Len(calls'), NEW j \in 1..Len(calls'),
               calls'[i].by = calls'[j].by, calls'[i].by # "nobody" PROVE i = j
    <3>1. CASE i \in 1..Len(calls) /\ calls'[i] = calls[i]
      BY <1>0, <1>1, <2>1, <2>2, <3>1 DEF OneEach, OneCall, OneReply, CallOrReply, Idle
    <3>2. CASE i = Len(calls) + 1 /\ calls'[i] = c
      BY <1>0, <1>1, <2>1, <2>2, <3>2 DEF Idle
    <3> QED
      BY <2>1, <3>1, <3>2
  <2>3. ASSUME NEW i \in 1..Len(calls'), NEW j \in 1..Len(replies), calls'[i].by = replies[j].by
        PROVE  calls'[i].by = "nobody"
    BY <1>0, <1>1, <2>1, <2>3 DEF OneEach, OneCall, OneReply, CallOrReply, Idle
  <2> QED
    BY <1>0, <1>1, <2>2, <2>3 DEF OneEach, OneCall, OneReply, CallOrReply
<1>2. ASSUME NEW by, Takes(by), UNCHANGED calls PROVE OneEach'
  <2>1. \A i \in 1..Len(replies') : replies'[i] = replies[i + 1] /\ i + 1 \in 1..Len(replies)
    BY <1>0, <1>2 DEF Takes, Shorter
  <2>2. ASSUME NEW i \in 1..Len(replies'), NEW j \in 1..Len(replies'),
               replies'[i].by = replies'[j].by, replies'[i].by # "nobody" PROVE i = j
    <3>0. i + 1 \in 1..Len(replies) /\ j + 1 \in 1..Len(replies)
          /\ replies[i + 1].by = replies[j + 1].by /\ replies[i + 1].by # "nobody"
      BY <2>1, <2>2
    <3>1. i + 1 = j + 1
      BY <1>0, <3>0 DEF OneEach, OneReply
    <3> QED
      BY <3>1
  <2>3. ASSUME NEW i \in 1..Len(calls), NEW j \in 1..Len(replies'), calls[i].by = replies'[j].by
        PROVE  calls[i].by = "nobody"
    BY <1>0, <2>1, <2>3 DEF OneEach, OneCall, OneReply, CallOrReply
  <2> QED
    BY <2>2, <2>3, <1>0, <1>2 DEF OneEach, OneCall, OneReply, CallOrReply
<1>3. ASSUME NEW by, NEW c, Takes(by), Asks(c), c.by = by, by # "nobody" PROVE OneEach'
  <2>1. CASE UNCHANGED calls
    BY <1>2, <1>3, <2>1
  <2>2. CASE Posts(c)
    <3>1. \A i \in 1..Len(calls) : calls[i].by # by
      BY <1>0, <1>3 DEF OneEach, OneCall, OneReply, CallOrReply, Takes, Shorter
    <3>2. \A i \in 1..Len(replies') : replies'[i] = replies[i + 1] /\ i + 1 \in 1..Len(replies) /\ replies[i + 1].by # by
      BY <1>0, <1>3 DEF OneEach, OneCall, OneReply, CallOrReply, Takes, Shorter
    <3>3. ASSUME NEW i \in 1..Len(replies'), NEW j \in 1..Len(replies'),
                 replies'[i].by = replies'[j].by, replies'[i].by # "nobody" PROVE i = j
      <4>0. i + 1 \in 1..Len(replies) /\ j + 1 \in 1..Len(replies)
            /\ replies[i + 1].by = replies[j + 1].by /\ replies[i + 1].by # "nobody"
        BY <3>2, <3>3
      <4>1. i + 1 = j + 1
        BY <1>0, <4>0 DEF OneEach, OneReply
      <4> QED
        BY <4>1
    <3>4. \A i \in 1..Len(calls') : (i \in 1..Len(calls) /\ calls'[i] = calls[i]) \/ (i = Len(calls) + 1 /\ calls'[i].by = by)
      BY <1>3, <1>0, <2>2 DEF Posts, Longer
    <3>5. \A i, j \in 1..Len(calls') : calls'[i].by = calls'[j].by /\ calls'[i].by # "nobody" => i = j
      BY <1>0, <3>1, <3>4 DEF OneEach, OneCall, OneReply, CallOrReply
    <3>6. ASSUME NEW i \in 1..Len(calls'), NEW j \in 1..Len(replies'), calls'[i].by = replies'[j].by
          PROVE  calls'[i].by = "nobody"
      <4>1. CASE i \in 1..Len(calls) /\ calls'[i] = calls[i]
        BY <1>0, <3>2, <3>6, <4>1 DEF OneEach, OneCall, OneReply, CallOrReply
      <4> QED
        BY <3>2, <3>4, <3>6, <4>1
    <3> QED
      BY <3>3, <3>5, <3>6 DEF OneEach, OneCall, OneReply, CallOrReply
  <2> QED
    BY <2>1, <2>2, <1>3 DEF Asks
<1>4. \A h \in Handlers : h # "nobody" /\ (h \in Starts => startPc[h] = "none") /\ (h = "put" => putPc = "none") => Idle(h)
  BY
     DEF ApiInv, Asking, StartAsks, OneStart, AskedByStart, AnsweredToStart, OthersAsk, Idle, Handlers, Starts
<1>5. ASSUME NEW s \in Starts, StartArrives(s) PROVE OneEach'
  <2>1. Idle(s)
    BY <1>4, <1>5, HandlersOf DEF StartArrives, StartingRun
  <2> QED
    BY <1>0, <1>1, <1>5, <2>1, QueueSteps DEF Call
<1>6. ASSUME NEW s \in Starts, StartHasProfile(s) \/ StartBegins(s) PROVE OneEach'
  BY <1>0, <1>3, <1>6, QueueSteps, HandlersOf DEF Call
<1>7. ASSUME NEW s \in Starts, StartRefused(s) \/ StartAnswers(s) \/ StartFails(s) PROVE OneEach'
  BY <1>0, <1>2, <1>7, QueueSteps
<1>8. ASSUME AskStop \/ Reset \/ Prune PROVE OneEach'
  BY <1>0, <1>1, <1>8, QueueSteps DEF Call, OneEach, OneCall, OneReply, CallOrReply
<1>9. ASSUME StopEnds \/ RunCutShort \/ UNCHANGED vars PROVE OneEach'
  BY <1>0, <1>9 DEF OneEach, OneCall, OneReply, CallOrReply, StopEnds, RunCutShort, vars
<1>10. ASSUME NEW c \in Profiles, PutArrives(c) PROVE OneEach'
  <2>1. Idle("put")
    BY <1>4, <1>10, HandlersOf DEF PutArrives, Starts
  <2> QED
    BY <1>0, <1>1, <1>10, <2>1, QueueSteps DEF Call
<1>11. ASSUME PutWrites \/ PutApplies \/ PutGivesUp \/ ReplyDropped PROVE OneEach'
  BY <1>0, <1>2, <1>3, <1>11, QueueSteps DEF Call
<1>12. ASSUME NEW ok \in BOOLEAN, Serves(ok) PROVE OneEach'
  <2>1. Shorter(calls, calls') /\ Longer(replies, replies', [by |-> calls[1].by, val |-> saved, ok |-> ok])
    BY <1>12, <1>0, StoreStepIs
  <2>2. \A i \in 1..Len(calls') : i + 1 \in 1..Len(calls) /\ calls'[i] = calls[i + 1] /\ i + 1 # 1
    BY <2>1, <1>0 DEF Shorter
  <2>3. 1 \in 1..Len(calls)
    BY <2>1, <1>0 DEF Shorter
  <2>4. \A i \in 1..Len(replies') : \/ i \in 1..Len(replies) /\ replies'[i] = replies[i]
                                    \/ i = Len(replies) + 1 /\ replies'[i].by = calls[1].by
    BY <2>1, <1>0 DEF Longer
  <2>5. \A i, j \in 1..Len(calls') : calls'[i].by = calls'[j].by /\ calls'[i].by # "nobody" => i = j
    BY <1>0, <2>2 DEF OneEach, OneCall, OneReply, CallOrReply
  <2>6. ASSUME NEW i \in 1..Len(replies'), NEW j \in 1..Len(replies'),
               replies'[i].by = replies'[j].by, replies'[i].by # "nobody" PROVE i = j
    <3>1. ASSUME NEW k \in 1..Len(replies), replies[k].by = calls[1].by PROVE calls[1].by = "nobody"
      BY <1>0, <2>3, <3>1 DEF OneEach, CallOrReply
    <3> QED
      BY <1>0, <2>4, <2>6, <3>1 DEF OneEach, OneReply
  <2>7. ASSUME NEW i \in 1..Len(calls'), NEW j \in 1..Len(replies'), calls'[i].by = replies'[j].by
        PROVE  calls'[i].by = "nobody"
    <3>1. CASE j \in 1..Len(replies) /\ replies'[j] = replies[j]
      BY <1>0, <2>2, <2>7, <3>1 DEF OneEach, OneCall, OneReply, CallOrReply
    <3>2. CASE replies'[j].by = calls[1].by
      BY <1>0, <2>2, <2>3, <2>7, <3>2 DEF OneEach, OneCall, OneReply, CallOrReply
    <3> QED
      BY <2>4, <3>1, <3>2
  <2> QED
    BY <2>5, <2>6, <2>7 DEF OneEach, OneCall, OneReply, CallOrReply
<1>13. ASSUME Restart PROVE OneEach'
  BY <1>13 DEF Restart, OneEach, OneCall, OneReply, CallOrReply
<1> QED
  BY <1>5, <1>6, <1>7, <1>8, <1>9, <1>10, <1>11, <1>12, <1>13 DEF Next, StopArrives, AutoStop, Serves
-----------------------------------------------------------------------------
(* The queues, place by place.                                              *)
LEMMA Posted ==
  ASSUME NEW c, Posts(c)
  PROVE  /\ Len(calls) \in Nat /\ Len(calls') = Len(calls) + 1
         /\ Len(calls) + 1 \in 1..Len(calls') /\ calls'[Len(calls) + 1] = c
         /\ \A i \in 1..Len(calls) : i \in 1..Len(calls') /\ calls'[i] = calls[i]
         /\ \A i \in 1..Len(calls') : \/ i \in 1..Len(calls) /\ calls'[i] = calls[i]
                                      \/ i = Len(calls) + 1 /\ calls'[i] = c
BY DEF Posts, Longer

LEMMA Taken ==
  ASSUME NEW by, Takes(by)
  PROVE  /\ Len(replies) \in Nat \ {0} /\ Len(replies') = Len(replies) - 1
         /\ 1 \in 1..Len(replies) /\ replies[1].by = by /\ Head(replies) = replies[1]
         /\ \A i \in 1..Len(replies') : i + 1 \in 1..Len(replies) /\ replies'[i] = replies[i + 1]
         /\ \A i \in 1..Len(replies) : i # 1 => i - 1 \in 1..Len(replies') /\ replies'[i - 1] = replies[i]
BY DEF Takes, Shorter

LEMMA Served ==
  ASSUME TypeOK, NEW ok \in BOOLEAN, Serves(ok)
  PROVE  /\ Len(calls) \in Nat \ {0} /\ Len(calls') = Len(calls) - 1
         /\ 1 \in 1..Len(calls) /\ calls[1] \in CallType /\ Head(calls) = calls[1]
         /\ \A i \in 1..Len(calls') : i + 1 \in 1..Len(calls) /\ calls'[i] = calls[i + 1]
         /\ \A i \in 1..Len(calls) : i # 1 => i - 1 \in 1..Len(calls') /\ calls'[i - 1] = calls[i]
         /\ Len(replies) \in Nat /\ Len(replies') = Len(replies) + 1
         /\ Len(replies) + 1 \in 1..Len(replies')
         /\ replies'[Len(replies) + 1].by = calls[1].by
         /\ replies'[Len(replies) + 1].val = saved /\ replies'[Len(replies) + 1].ok = ok
         /\ \A i \in 1..Len(replies) : i \in 1..Len(replies') /\ replies'[i] = replies[i]
         /\ \A i \in 1..Len(replies') :
              \/ i \in 1..Len(replies) /\ replies'[i] = replies[i]
              \/ i = Len(replies) + 1 /\ replies'[i].by = calls[1].by
<1>1. Shorter(calls, calls') /\ calls[1] \in CallType
      /\ Longer(replies, replies', [by |-> calls[1].by, val |-> saved, ok |-> ok])
  BY StoreStepIs
<1>2. /\ Len(calls) \in Nat \ {0} /\ Len(calls') = Len(calls) - 1
      /\ 1 \in 1..Len(calls) /\ Head(calls) = calls[1]
      /\ \A i \in 1..Len(calls') : i + 1 \in 1..Len(calls) /\ calls'[i] = calls[i + 1]
      /\ \A i \in 1..Len(calls) : i # 1 => i - 1 \in 1..Len(calls') /\ calls'[i - 1] = calls[i]
  BY <1>1 DEF Shorter
<1> DEFINE e == [by |-> calls[1].by, val |-> saved, ok |-> ok]
<1> HIDE DEF e
<1>3. /\ Len(replies) \in Nat /\ Len(replies') = Len(replies) + 1
      /\ Len(replies) + 1 \in 1..Len(replies') /\ replies'[Len(replies) + 1] = e
      /\ \A i \in 1..Len(replies) : i \in 1..Len(replies') /\ replies'[i] = replies[i]
      /\ \A i \in 1..Len(replies') : \/ i \in 1..Len(replies) /\ replies'[i] = replies[i]
                                     \/ i = Len(replies) + 1 /\ replies'[i] = e
  <2>1. Longer(replies, replies', e)
    BY <1>1 DEF e
  <2> QED
    BY <2>1 DEF Longer
<1>4. e.by = calls[1].by /\ e.val = saved /\ e.ok = ok
  BY DEF e
<1> QED
  BY <1>1, <1>2, <1>3, <1>4

(* Every step keeps one start, waiting for what its place says.             *)
LEMMA StartAsksStep ==
  ASSUME ApiInv, [Next]_vars
  PROVE  StartAsks'
<1>0. /\ TypeOK /\ OneEach /\ StartAsks /\ Len(calls) \in Nat /\ Len(replies) \in Nat
      /\ startPc \in [Starts -> {"none", "profile", "gateway", "record"}]
  BY DEF ApiInv, TypeOK, Asking
<1>1. ASSUME UNCHANGED <<calls, replies, startPc, lastRun>> PROVE StartAsks'
  BY <1>0, <1>1 DEF StartAsks, OneStart, AskedByStart, AnsweredToStart
<1>2. ASSUME NEW c, Posts(c), c.by \notin Starts, UNCHANGED <<replies, startPc, lastRun>> PROVE StartAsks'
  BY <1>0, <1>2, Posted DEF StartAsks, OneStart, AskedByStart, AnsweredToStart
<1>3. ASSUME NEW by, Takes(by), UNCHANGED <<calls, startPc, lastRun>> PROVE StartAsks'
  BY <1>0, <1>3, Taken DEF StartAsks, OneStart, AskedByStart, AnsweredToStart
<1>4. ASSUME NEW by, NEW c, by \notin Starts, Takes(by), Asks(c), c.by = by,
             UNCHANGED <<startPc, lastRun>> PROVE StartAsks'
  <2>1. CASE UNCHANGED calls
    BY <1>3, <1>4, <2>1
  <2>2. CASE Posts(c)
    <3>1. \A i \in 1..Len(calls') : (i \in 1..Len(calls) /\ calls'[i] = calls[i]) \/ calls'[i].by \notin Starts
      BY <1>4, <2>2, Posted
    <3>2. \A i \in 1..Len(replies') : \E k \in 1..Len(replies) : replies'[i] = replies[k]
      BY <1>4, Taken
    <3>3. AskedByStart'
      BY <1>0, <1>4, <3>1 DEF StartAsks, AskedByStart
    <3>4. AnsweredToStart'
      BY <1>0, <1>4, <3>2 DEF StartAsks, AnsweredToStart
    <3> QED
      BY <1>0, <1>4, <3>3, <3>4 DEF StartAsks, OneStart
  <2> QED
    BY <1>4, <2>1, <2>2 DEF Asks
<1>5. ASSUME NEW s \in Starts, StartArrives(s) PROVE StartAsks'
  <2>1. Posts(Call("readProfile", 0, s)) /\ UNCHANGED replies
    BY <1>0, <1>5, QueueSteps
  <2>2. /\ \A t \in Starts : startPc[t] = "none" /\ startPc'[t] = IF t = s THEN "profile" ELSE "none"
        /\ lastRun' = lastRun
    BY <1>0, <1>5 DEF StartArrives, StartingRun, driverVars
  <2> QED
    BY <1>0, <2>1, <2>2, Posted DEF StartAsks, OneStart, AskedByStart, AnsweredToStart, Call
<1>6. ASSUME NEW s \in Starts, Takes(s), NEW pc, startPc' = [startPc EXCEPT ![s] = pc]
      PROVE  /\ startPc[s] # "none" /\ startPc'[s] = pc
             /\ \A t \in Starts \ {s} : startPc[t] = "none" /\ startPc'[t] = "none"
             /\ \A i \in 1..Len(calls) : calls[i].by \notin Starts
             /\ \A i \in 1..Len(replies') : replies'[i].by \notin Starts
  <2>1. startPc[s] # "none" /\ \A t \in Starts \ {s} : startPc[t] = "none"
    BY <1>0, <1>6, Taken DEF StartAsks, OneStart, AskedByStart, AnsweredToStart
  <2>2. \A i \in 1..Len(calls) : calls[i].by # s
    BY <1>0, <1>6, Taken, HandlersOf DEF OneEach, OneCall, OneReply, CallOrReply
  <2>3. ASSUME NEW i \in 1..Len(replies'), replies'[i].by = s PROVE FALSE
    <3>1. i + 1 \in 1..Len(replies) /\ replies'[i] = replies[i + 1] /\ 1 \in 1..Len(replies) /\ replies[1].by = s
      BY <1>6, Taken
    <3>2. i + 1 = 1
      BY <1>0, <2>3, <3>1, HandlersOf DEF OneEach, OneReply
    <3> QED
      BY <3>2
  <2>4. \A i \in 1..Len(calls) : calls[i].by \notin Starts
    BY <1>0, <2>1, <2>2 DEF StartAsks, OneStart, AskedByStart, AnsweredToStart
  <2>5. ASSUME NEW i \in 1..Len(replies'), replies'[i].by \in Starts PROVE FALSE
    <3>1. PICK k \in 1..Len(replies) : replies'[i] = replies[k]
      BY <1>6, Taken
    <3>2. startPc[replies[k].by] # "none"
      BY <1>0, <2>5, <3>1 DEF StartAsks, OneStart, AskedByStart, AnsweredToStart
    <3> QED
      BY <2>1, <2>3, <2>5, <3>1, <3>2
  <2> QED
    BY <1>0, <1>6, <2>1, <2>4, <2>5
<1>7. ASSUME NEW s \in Starts, StartHasProfile(s) PROVE StartAsks'
  <2>1. Takes(s) /\ Asks(Call("readGateway", 0, s))
    BY <1>0, <1>7, QueueSteps
  <2>2. PICK pc : /\ startPc' = [startPc EXCEPT ![s] = pc]
                  /\ (pc = "gateway" /\ Posts(Call("readGateway", 0, s))) \/ UNCHANGED calls
    BY <1>7, <2>1 DEF StartHasProfile, Asks
  <2>3. /\ startPc[s] # "none" /\ startPc'[s] = pc
        /\ \A t \in Starts \ {s} : startPc[t] = "none" /\ startPc'[t] = "none"
        /\ \A i \in 1..Len(calls) : calls[i].by \notin Starts
        /\ \A i \in 1..Len(replies') : replies'[i].by \notin Starts
    BY <1>6, <2>1, <2>2
  <2>4. \A i \in 1..Len(calls') : calls'[i].by \in Starts =>
          calls'[i] = Call("readGateway", 0, s) /\ pc = "gateway"
    BY <2>2, <2>3, Posted
  <2> QED
    BY <2>3, <2>4 DEF StartAsks, OneStart, AskedByStart, AnsweredToStart, Call
<1>8. ASSUME NEW s \in Starts, StartBegins(s) PROVE StartAsks'
  <2>0. lastRun' = lastRun + 1 /\ lastRun + 1 \in Runs
    BY RunApiAssumption, <1>0, <1>8 DEF StartBegins, driver!Begin, Runs, TypeOK
  <2>1. Takes(s) /\ Asks(Call("start", lastRun + 1, s))
    BY <1>0, <1>8, QueueSteps
  <2>2. PICK pc : /\ startPc' = [startPc EXCEPT ![s] = pc]
                  /\ (pc = "record" /\ Posts(Call("start", lastRun + 1, s))) \/ UNCHANGED calls
    BY <1>8, <2>1 DEF StartBegins, Asks
  <2>3. /\ startPc[s] # "none" /\ startPc'[s] = pc
        /\ \A t \in Starts \ {s} : startPc[t] = "none" /\ startPc'[t] = "none"
        /\ \A i \in 1..Len(calls) : calls[i].by \notin Starts
        /\ \A i \in 1..Len(replies') : replies'[i].by \notin Starts
    BY <1>6, <2>1, <2>2
  <2>4. \A i \in 1..Len(calls') : calls'[i].by \in Starts =>
          calls'[i] = Call("start", lastRun + 1, s) /\ pc = "record"
    BY <2>2, <2>3, Posted
  <2> QED
    BY <2>0, <2>3, <2>4 DEF StartAsks, OneStart, AskedByStart, AnsweredToStart, Call, Runs
<1>9. ASSUME NEW s \in Starts, StartRefused(s) \/ StartAnswers(s) \/ StartFails(s) PROVE StartAsks'
  <2>1. Takes(s) /\ UNCHANGED calls /\ startPc' = [startPc EXCEPT ![s] = "none"]
    BY <1>0, <1>9, QueueSteps DEF StartRefused, StartAnswers, StartFails
  <2>2. /\ startPc[s] # "none" /\ startPc'[s] = "none"
        /\ \A t \in Starts \ {s} : startPc[t] = "none" /\ startPc'[t] = "none"
        /\ \A i \in 1..Len(calls) : calls[i].by \notin Starts
        /\ \A i \in 1..Len(replies') : replies'[i].by \notin Starts
    BY <1>6, <2>1
  <2> QED
    BY <2>1, <2>2 DEF StartAsks, OneStart, AskedByStart, AnsweredToStart
<1>10. ASSUME AskStop \/ Reset \/ Prune PROVE StartAsks'
  <2>1. UNCHANGED <<replies, startPc, lastRun>>
    BY <1>10 DEF AskStop, Reset, Prune, driver!AskStop, driverVars, handlers
  <2>2. UNCHANGED calls \/ \E c : Posts(c) /\ c.by = "nobody"
    BY <1>0, <1>10, QueueSteps DEF Call
  <2> QED
    BY <1>1, <1>2, <2>1, <2>2, HandlersOf
<1>11. ASSUME StopEnds \/ RunCutShort \/ UNCHANGED vars PROVE StartAsks'
  BY <1>1, <1>11 DEF StopEnds, RunCutShort, driver!End, handlers, vars, driverVars
<1>12. ASSUME NEW c \in Profiles, PutArrives(c) PROVE StartAsks'
  BY <1>0, <1>2, <1>12, QueueSteps, HandlersOf DEF Call, PutArrives, driverVars
<1>13. ASSUME PutWrites PROVE StartAsks'
  BY <1>0, <1>4, <1>13, QueueSteps, HandlersOf DEF Call, PutWrites, driverVars
<1>14. ASSUME PutApplies \/ PutGivesUp \/ ReplyDropped PROVE StartAsks'
  <2>1. UNCHANGED <<calls, startPc, lastRun>>
    BY <1>14 DEF PutApplies, PutGivesUp, ReplyDropped, driverVars, handlers
  <2> QED
    BY <1>0, <1>3, <1>14, <2>1, QueueSteps
<1>15. ASSUME NEW ok \in BOOLEAN, Serves(ok) PROVE StartAsks'
  <2>1. UNCHANGED <<startPc, lastRun>>
    BY <1>15 DEF Serves, StoreStep, StoreThrows, handlers, driverVars
  <2>2. \A i \in 1..Len(calls') : \E k \in 1..Len(calls) : calls'[i] = calls[k]
    BY <1>0, <1>15, Served
  <2>3. /\ 1 \in 1..Len(calls)
        /\ \A i \in 1..Len(replies') : \/ i \in 1..Len(replies) /\ replies'[i] = replies[i]
                                       \/ replies'[i].by = calls[1].by
    BY <1>0, <1>15, Served
  <2>4. AskedByStart'
    <3> SUFFICES ASSUME NEW i \in 1..Len(calls'), calls'[i].by \in Starts
                 PROVE  \/ startPc[calls'[i].by] = "profile" /\ calls'[i].op = "readProfile"
                        \/ startPc[calls'[i].by] = "gateway" /\ calls'[i].op = "readGateway"
                        \/ /\ startPc[calls'[i].by] = "record" /\ calls'[i].op = "start"
                           /\ calls'[i].arg = lastRun /\ lastRun \in Runs
      BY <2>1 DEF AskedByStart, Runs
    <3>1. PICK k \in 1..Len(calls) : calls'[i] = calls[k]
      BY <2>2
    <3> QED
      BY <1>0, <3>1 DEF StartAsks, AskedByStart
  <2>5. ASSUME NEW i \in 1..Len(replies'), replies'[i].by \in Starts PROVE startPc[replies'[i].by] # "none"
    <3>1. CASE i \in 1..Len(replies) /\ replies'[i] = replies[i]
      BY <1>0, <2>5, <3>1 DEF StartAsks, AnsweredToStart
    <3>2. CASE replies'[i].by = calls[1].by
      BY <1>0, <2>3, <2>5, <3>2 DEF StartAsks, AskedByStart
    <3> QED
      BY <2>3, <3>1, <3>2
  <2> QED
    BY <1>0, <2>1, <2>4, <2>5 DEF StartAsks, OneStart, AnsweredToStart
<1>16. ASSUME Restart PROVE StartAsks'
  BY <1>16 DEF Restart, StartAsks, OneStart, AskedByStart, AnsweredToStart
<1> QED
  BY <1>5, <1>7, <1>8, <1>9, <1>10, <1>11, <1>12, <1>13, <1>14, <1>15, <1>16 DEF Next, StopArrives, AutoStop, Serves

(* Every step keeps the PUT waiting for what its place says.                *)
LEMMA OthersAskStep ==
  ASSUME ApiInv, [Next]_vars
  PROVE  OthersAsk'
<1>0. /\ TypeOK /\ OneEach /\ OthersAsk /\ Len(calls) \in Nat /\ Len(replies) \in Nat
  BY DEF ApiInv, TypeOK, Asking
<1>1. ASSUME UNCHANGED <<calls, replies, putPc, putCfg>> PROVE OthersAsk'
  BY <1>0, <1>1 DEF OthersAsk
<1>2. ASSUME NEW c, Posts(c), c.by # "put", c.by = "nobody" => c.op \in {"stop", "reset", "prune"},
             UNCHANGED <<replies, putPc, putCfg>> PROVE OthersAsk'
  BY <1>0, <1>2, Posted DEF OthersAsk
<1>3. ASSUME NEW by, Takes(by), UNCHANGED <<calls, putPc, putCfg>> PROVE OthersAsk'
  <2>1. \A i \in 1..Len(replies') : \E k \in 1..Len(replies) : replies'[i] = replies[k]
    BY <1>3, Taken
  <2> QED
    BY <1>0, <1>3, <2>1 DEF OthersAsk
<1>4. ASSUME NEW s \in Starts, NEW c, Takes(s), Asks(c), c.by = s, UNCHANGED <<putPc, putCfg>>
      PROVE OthersAsk'
  <2>1. CASE UNCHANGED calls
    BY <1>3, <1>4, <2>1
  <2>2. CASE Posts(c)
    <3>0. c.by # "put" /\ c.by # "nobody"
      BY <1>4, HandlersOf
    <3>1. \A i \in 1..Len(calls') : (i \in 1..Len(calls) /\ calls'[i] = calls[i]) \/ calls'[i] = c
      BY <2>2, Posted
    <3>2. \A i \in 1..Len(replies') : \E k \in 1..Len(replies) : replies'[i] = replies[k]
      BY <1>4, Taken
    <3> QED
      BY <1>0, <1>4, <3>0, <3>1, <3>2 DEF OthersAsk
  <2> QED
    BY <1>4, <2>1, <2>2 DEF Asks
<1>5. ASSUME NEW s \in Starts, StartArrives(s) PROVE OthersAsk'
  BY <1>0, <1>2, <1>5, QueueSteps, HandlersOf DEF StartArrives, Call
<1>6. ASSUME NEW s \in Starts, StartHasProfile(s) \/ StartBegins(s) PROVE OthersAsk'
  <2>1. UNCHANGED <<putPc, putCfg>>
    BY <1>6 DEF StartHasProfile, StartBegins
  <2> QED
    BY <1>0, <1>4, <1>6, <2>1, QueueSteps DEF Call
<1>7. ASSUME NEW s \in Starts, StartRefused(s) \/ StartAnswers(s) \/ StartFails(s) PROVE OthersAsk'
  <2>1. UNCHANGED <<putPc, putCfg>>
    BY <1>7 DEF StartRefused, StartAnswers, StartFails
  <2> QED
    BY <1>0, <1>3, <1>7, <2>1, QueueSteps
<1>8. ASSUME AskStop \/ Reset \/ Prune PROVE OthersAsk'
  <2>1. UNCHANGED <<replies, putPc, putCfg>>
    BY <1>8 DEF AskStop, Reset, Prune, handlers
  <2>2. UNCHANGED calls \/ \E c : Posts(c) /\ c.by = "nobody" /\ c.op \in {"stop", "reset", "prune"}
    BY <1>0, <1>8, QueueSteps DEF Call
  <2> QED
    BY <1>1, <1>2, <2>1, <2>2
<1>9. ASSUME StopEnds \/ RunCutShort \/ UNCHANGED vars PROVE OthersAsk'
  BY <1>1, <1>9 DEF StopEnds, RunCutShort, handlers, vars
<1>10. ASSUME Takes("put") PROVE /\ \A i \in 1..Len(calls) : calls[i].by # "put"
                                 /\ \A i \in 1..Len(replies') : replies'[i].by # "put"
  <2>1. 1 \in 1..Len(replies) /\ replies[1].by = "put"
    BY <1>10, Taken
  <2>2. \A i \in 1..Len(calls) : calls[i].by # "put"
    BY <1>0, <2>1 DEF OneEach, OneCall, OneReply, CallOrReply
  <2>3. \A i \in 1..Len(replies') : \E k \in 1..Len(replies) : replies'[i] = replies[k] /\ k # 1
    BY <1>10, Taken
  <2>4. \A k \in 1..Len(replies) : k # 1 => replies[k].by # "put"
    BY <1>0, <2>1 DEF OneEach, OneCall, OneReply, CallOrReply
  <2> QED
    BY <2>2, <2>3, <2>4
<1>11. ASSUME NEW c \in Profiles, PutArrives(c) PROVE OthersAsk'
  <2>1. putPc = "none" /\ putPc' = "read"
    BY <1>11 DEF PutArrives
  <2>2. Posts(Call("readProfile", 0, "put")) /\ UNCHANGED replies
    BY <1>0, <1>11, QueueSteps
  <2> QED
    BY <1>0, <2>1, <2>2, Posted DEF OthersAsk, Call
<1>12. ASSUME PutWrites PROVE OthersAsk'
  <2>1. Takes("put") /\ putCfg' = putCfg
    BY <1>0, <1>12, QueueSteps DEF PutWrites
  <2>2. (putPc' = "write" /\ Posts(Call("writeProfile", putCfg, "put"))) \/ UNCHANGED calls
    BY <1>0, <1>12, QueueSteps DEF PutWrites, Asks
  <2>3. /\ \A i \in 1..Len(calls) : calls[i].by # "put"
        /\ \A i \in 1..Len(replies') : replies'[i].by # "put"
    BY <1>10, <2>1
  <2>4. CASE UNCHANGED calls
    BY <1>0, <2>3, <2>4 DEF OthersAsk
  <2>5. CASE putPc' = "write" /\ Posts(Call("writeProfile", putCfg, "put"))
    <3>1. \A i \in 1..Len(calls') : (i \in 1..Len(calls) /\ calls'[i] = calls[i]) \/ calls'[i] = Call("writeProfile", putCfg, "put")
      BY <2>5, Posted
    <3>2. /\ Call("writeProfile", putCfg, "put").by = "put"
          /\ Call("writeProfile", putCfg, "put").op = "writeProfile"
          /\ Call("writeProfile", putCfg, "put").arg = putCfg'
      BY <2>1 DEF Call
    <3>3. \A i \in 1..Len(calls') :
            /\ calls'[i].by = "put" => calls'[i].op = "writeProfile" /\ calls'[i].arg = putCfg'
            /\ calls'[i].by = "nobody" => calls'[i].op \in {"stop", "reset", "prune"}
      <4> SUFFICES ASSUME NEW i \in 1..Len(calls')
                   PROVE  /\ calls'[i].by = "put" => calls'[i].op = "writeProfile" /\ calls'[i].arg = putCfg'
                          /\ calls'[i].by = "nobody" => calls'[i].op \in {"stop", "reset", "prune"}
        OBVIOUS
      <4>1. CASE i \in 1..Len(calls) /\ calls'[i] = calls[i]
        BY <1>0, <2>3, <4>1 DEF OthersAsk
      <4>2. CASE calls'[i] = Call("writeProfile", putCfg, "put")
        BY <3>2, <4>2
      <4> QED
        BY <3>1, <4>1, <4>2
    <3> QED
      BY <2>3, <2>5, <3>3 DEF OthersAsk
  <2> QED
    BY <2>2, <2>4, <2>5
<1>13. ASSUME PutApplies \/ PutGivesUp PROVE OthersAsk'
  <2>1. Takes("put") /\ UNCHANGED calls
    BY <1>0, <1>13, QueueSteps
  <2> QED
    BY <1>0, <1>10, <2>1, Taken DEF OthersAsk
<1>14. ASSUME ReplyDropped PROVE OthersAsk'
  BY <1>0, <1>3, <1>14, QueueSteps DEF ReplyDropped, handlers
<1>15. ASSUME NEW ok \in BOOLEAN, Serves(ok) PROVE OthersAsk'
  <2>1. UNCHANGED <<putPc, putCfg>>
    BY <1>15 DEF Serves, StoreStep, StoreThrows, handlers
  <2>2. \A i \in 1..Len(calls') : \E k \in 1..Len(calls) : calls'[i] = calls[k]
    BY <1>0, <1>15, Served
  <2>3. /\ 1 \in 1..Len(calls)
        /\ \A i \in 1..Len(replies') : \/ i \in 1..Len(replies) /\ replies'[i] = replies[i]
                                       \/ replies'[i].by = calls[1].by
    BY <1>0, <1>15, Served
  <2>4. ASSUME NEW i \in 1..Len(replies'), replies'[i].by = "put" PROVE putPc # "none"
    <3>1. CASE i \in 1..Len(replies) /\ replies'[i] = replies[i]
      BY <1>0, <2>4, <3>1 DEF OthersAsk
    <3>2. CASE replies'[i].by = calls[1].by
      BY <1>0, <2>3, <2>4, <3>2 DEF OthersAsk
    <3> QED
      BY <2>3, <3>1, <3>2
  <2>5. \A i \in 1..Len(calls') :
          /\ calls'[i].by = "put" => \/ putPc = "read" /\ calls'[i].op = "readProfile"
                                     \/ putPc = "write" /\ calls'[i].op = "writeProfile" /\ calls'[i].arg = putCfg
          /\ calls'[i].by = "nobody" => calls'[i].op \in {"stop", "reset", "prune"}
    BY <1>0, <2>2 DEF OthersAsk
  <2> QED
    BY <2>1, <2>4, <2>5 DEF OthersAsk
<1>16. ASSUME Restart PROVE OthersAsk'
  BY <1>16 DEF Restart, OthersAsk
<1> QED
  BY <1>5, <1>6, <1>7, <1>8, <1>9, <1>11, <1>12, <1>13, <1>14, <1>15, <1>16 DEF Next, StopArrives, AutoStop, Serves
-----------------------------------------------------------------------------
(* Every step keeps the newest profile where the Driver has it or will get  *)
(* it.                                                                      *)
LEMMA SavedStep ==
  ASSUME ApiInv, [Next]_vars
  PROVE  SavedInv'
<1>0. /\ TypeOK /\ OneEach /\ StartAsks /\ OthersAsk /\ SavedInv
      /\ Len(calls) \in Nat /\ Len(replies) \in Nat
      /\ startPc \in [Starts -> {"none", "profile", "gateway", "record"}]
      /\ startCfg \in [Starts -> Profiles]
  BY DEF ApiInv, TypeOK, Asking
<1> USE DEF SavedInv
<1>1. ASSUME UNCHANGED <<profile, saved, replies, startPc, startCfg, putPc, putCfg, overlaps>>
      PROVE  SavedInv'
  BY <1>0, <1>1 DEF Written, WrittenIsSaved, DriverIsSaved, StartHasSaved, AnswerIsSaved, PutAfter, overlaps
(* A reply to somebody else does not change what was written.               *)
<1>2. ASSUME UNCHANGED <<replies, putPc>> PROVE Written' = Written
  BY <1>2 DEF Written
<1>3. ASSUME NEW by, Takes(by), by # "put", putPc' = putPc PROVE Written' = Written
  <2>1. 1 \in 1..Len(replies) /\ replies[1].by # "put"
    BY <1>3, Taken
  <2>2. Written => Written'
    <3> SUFFICES ASSUME Written PROVE Written'
      OBVIOUS
    <3>1. PICK j \in 1..Len(replies) : replies[j].by = "put" /\ replies[j].ok
      BY DEF Written
    <3>2. j - 1 \in 1..Len(replies') /\ replies'[j - 1] = replies[j]
      BY <1>3, <2>1, <3>1, Taken
    <3> QED
      BY <1>3, <3>1, <3>2 DEF Written
  <2>3. Written' => Written
    BY <1>3, Taken DEF Written
  <2> QED
    BY <2>2, <2>3 DEF Written
<1>4. ASSUME Written' = Written, UNCHANGED <<saved, putCfg>> PROVE WrittenIsSaved'
  BY <1>0, <1>4 DEF WrittenIsSaved
<1>5. ASSUME NEW s \in Starts, Takes(s), UNCHANGED <<saved, putPc, putCfg>>,
             NEW pc, startPc' = [startPc EXCEPT ![s] = pc], pc # "profile"
      PROVE  AnswerIsSaved'
  <2>1. \A t \in Starts : startPc'[t] # "profile"
    BY <1>0, <1>5, Taken DEF StartAsks, OneStart, AnsweredToStart
  <2> QED
    BY <2>1 DEF AnswerIsSaved
<1>6. ASSUME NEW s \in Starts, StartArrives(s) PROVE SavedInv'
  <2>1. Posts(Call("readProfile", 0, s)) /\ UNCHANGED replies
    BY <1>0, <1>6, QueueSteps
  <2>2. UNCHANGED <<profile, saved, startCfg, putPc, putCfg, outdated, overlapped>>
    BY <1>6 DEF StartArrives, storeVars, overlaps
  <2>3. Written' = Written
    BY <1>2, <2>1, <2>2
  <2>4. \A t \in Starts : startPc[t] = "none" /\ startPc'[t] = IF t = s THEN "profile" ELSE "none"
    BY <1>0, <1>6 DEF StartArrives, StartingRun
  <2>5. \A i \in 1..Len(replies) : replies[i].by \notin Starts
    BY <1>0, <2>4 DEF StartAsks, AnsweredToStart
  <2>6. AnswerIsSaved'
    BY <2>1, <2>5 DEF AnswerIsSaved
  <2>7. DriverIsSaved' /\ StartHasSaved'
    BY <1>0, <2>2, <2>3, <2>4 DEF DriverIsSaved, StartHasSaved
  <2> QED
    BY <1>4, <2>2, <2>3, <2>6, <2>7
<1>7. ASSUME NEW s \in Starts, StartHasProfile(s) PROVE SavedInv'
  <2>1. Takes(s) /\ Asks(Call("readGateway", 0, s))
    BY <1>0, <1>7, QueueSteps
  <2>2. UNCHANGED <<profile, saved, putPc, putCfg, outdated, overlapped>> /\ startPc[s] = "profile"
        /\ startCfg' = [startCfg EXCEPT ![s] = replies[1].val]
    BY <1>7, <2>1, Taken DEF StartHasProfile, storeVars, overlaps
  <2>3. Written' = Written
    BY <1>3, <2>1, <2>2, HandlersOf
  <2>4. PICK pc \in {"gateway", "none"} : startPc' = [startPc EXCEPT ![s] = pc]
    BY <1>7 DEF StartHasProfile
  <2>5. AnswerIsSaved'
    BY <1>5, <2>1, <2>2, <2>4
  <2>6. \A t \in Starts \ {s} : startPc[t] = "none" /\ startPc'[t] = "none"
    BY <1>0, <2>2, <2>4 DEF StartAsks, OneStart
  <2>7. replies[1].val = saved \/ Written
    <3>1. 1 \in 1..Len(replies) /\ replies[1].by = s
      BY <2>1, Taken
    <3>2. CASE replies[1].val = saved
      BY <3>2
    <3>3. CASE PutAfter(1)
      BY <3>3 DEF Written, PutAfter
    <3> QED
      BY <1>0, <2>2, <3>1, <3>2, <3>3 DEF AnswerIsSaved
  <2>8. DriverIsSaved'
    BY <1>0, <2>2, <2>3 DEF DriverIsSaved
  <2>9. StartHasSaved'
    BY <1>0, <2>2, <2>3, <2>4, <2>6, <2>7 DEF StartHasSaved
  <2> QED
    BY <1>4, <2>2, <2>3, <2>5, <2>8, <2>9
<1>8. ASSUME NEW s \in Starts, StartBegins(s) \/ StartRefused(s) PROVE SavedInv'
  <2>1. Takes(s)
    BY <1>0, <1>8, QueueSteps
  <2>2. UNCHANGED <<saved, startCfg, putPc, putCfg>> /\ startPc[s] = "gateway"
        /\ profile' = startCfg[s] /\ overlapped' = (s \in outdated) /\ outdated' = outdated \ {s}
    BY <1>8 DEF StartBegins, StartRefused, TakesProfile, storeVars
  <2>3. Written' = Written
    BY <1>3, <2>1, <2>2, HandlersOf
  <2>4. PICK pc \in {"record", "none"} : startPc' = [startPc EXCEPT ![s] = pc]
    BY <1>8 DEF StartBegins, StartRefused
  <2>5. AnswerIsSaved'
    BY <1>5, <2>1, <2>2, <2>4
  <2>6. \A t \in Starts : startPc'[t] # "gateway"
    BY <1>0, <2>2, <2>4 DEF StartAsks, OneStart
  <2>7. DriverIsSaved' /\ StartHasSaved'
    BY <1>0, <2>2, <2>3, <2>6 DEF DriverIsSaved, StartHasSaved
  <2> QED
    BY <1>4, <2>2, <2>3, <2>5, <2>7
<1>9. ASSUME NEW s \in Starts, StartAnswers(s) \/ StartFails(s) PROVE SavedInv'
  <2>1. Takes(s) /\ UNCHANGED calls
    BY <1>0, <1>9, QueueSteps
  <2>2. UNCHANGED <<profile, saved, startCfg, putPc, putCfg, overlapped>>
        /\ startPc' = [startPc EXCEPT ![s] = "none"]
        /\ \A t \in outdated : t # s => t \in outdated'
    BY <1>9 DEF StartAnswers, StartFails, storeVars, overlaps
  <2>3. Written' = Written
    BY <1>3, <2>1, <2>2, HandlersOf
  <2>4. AnswerIsSaved'
    BY <1>5, <2>1, <2>2
  <2>5. DriverIsSaved' /\ StartHasSaved'
    BY <1>0, <2>2, <2>3 DEF DriverIsSaved, StartHasSaved
  <2> QED
    BY <1>4, <2>2, <2>3, <2>4, <2>5
<1>10. ASSUME AskStop \/ Reset \/ Prune PROVE SavedInv'
  BY <1>1, <1>10 DEF AskStop, Reset, Prune, handlers, storeVars
<1>11. ASSUME StopEnds \/ RunCutShort \/ UNCHANGED vars PROVE SavedInv'
  BY <1>1, <1>11 DEF StopEnds, RunCutShort, handlers, storeVars, vars
<1>12. ASSUME NEW c \in Profiles, PutArrives(c) PROVE SavedInv'
  <2>1. UNCHANGED <<profile, saved, replies, startPc, startCfg, outdated, overlapped>> /\ putPc = "none" /\ putPc' = "read"
    BY <1>12 DEF PutArrives, storeVars, overlaps
  <2>2. ~Written /\ ~Written'
    BY <2>1 DEF Written
  <2> QED
    BY <1>0, <2>1, <2>2 DEF WrittenIsSaved, DriverIsSaved, StartHasSaved, AnswerIsSaved, PutAfter
(* No other reply is the PUT's, once its own has been taken.                *)
<1>13. ASSUME Takes("put"), UNCHANGED <<saved, startPc>>
       PROVE AnswerIsSaved' /\ ~Written' /\ (replies[1].ok = FALSE => ~Written)
  <2>1. 1 \in 1..Len(replies) /\ replies[1].by = "put"
    BY <1>13, Taken
  <2>2. ASSUME NEW i \in 1..Len(replies'), replies'[i].by \in Starts, startPc[replies'[i].by] = "profile"
        PROVE  replies'[i].val = saved
    <3>1. i + 1 \in 1..Len(replies) /\ replies'[i] = replies[i + 1]
      BY <1>13, Taken
    <3>2. \A j \in 1..Len(replies) : i + 1 < j => replies[j].by # "put"
      BY <1>0, <2>1 DEF OneEach, OneCall, OneReply, CallOrReply
    <3> QED
      BY <1>0, <2>2, <3>1, <3>2 DEF AnswerIsSaved, PutAfter
  <2>3. \A j \in 1..Len(replies') : j + 1 \in 1..Len(replies) /\ replies'[j] = replies[j + 1] /\ j + 1 # 1
    BY <1>13, Taken
  <2>4. \A j \in 1..Len(replies) : j # 1 => replies[j].by # "put"
    BY <1>0, <2>1 DEF OneEach, OneReply
  <2> QED
    BY <1>13, <2>2, <2>3, <2>4 DEF AnswerIsSaved, Written
<1>14. ASSUME PutWrites PROVE SavedInv'
  <2>1. Takes("put")
    BY <1>0, <1>14, QueueSteps
  <2>2. UNCHANGED <<profile, saved, startPc, startCfg, putCfg, outdated, overlapped>> /\ putPc = "read"
    BY <1>14 DEF PutWrites, storeVars, overlaps
  <2>3. AnswerIsSaved' /\ ~Written'
    BY <1>13, <2>1, <2>2
  <2>4. ~Written
    BY <2>2 DEF Written
  <2> QED
    BY <1>0, <2>2, <2>3, <2>4 DEF WrittenIsSaved, DriverIsSaved, StartHasSaved
<1>15. ASSUME PutApplies PROVE SavedInv'
  <2>1. Takes("put")
    BY <1>0, <1>15, QueueSteps
  <2>2. UNCHANGED <<saved, startPc, startCfg, putCfg>> /\ putPc = "write" /\ Head(replies).ok
        /\ profile' = putCfg /\ outdated' = {s \in Starts : startPc[s] = "gateway"}
    BY <1>15 DEF PutApplies, storeVars, AnswerFor
  <2>3. Written /\ saved = putCfg
    BY <1>0, <2>1, <2>2, Taken DEF Written, WrittenIsSaved
  <2>4. AnswerIsSaved' /\ ~Written'
    BY <1>13, <2>1, <2>2
  <2> QED
    BY <2>2, <2>3, <2>4 DEF WrittenIsSaved, DriverIsSaved, StartHasSaved
<1>19. ASSUME PutGivesUp PROVE SavedInv'
  <2>1. Takes("put")
    BY <1>0, <1>19, QueueSteps
  <2>2. UNCHANGED <<profile, saved, startPc, startCfg, putCfg, outdated, overlapped>>
    BY <1>19 DEF PutGivesUp, storeVars, overlaps
  <2>3. replies[1].ok = FALSE
    BY <1>19, <2>1, Taken DEF PutGivesUp, ErrorFor, Takes, ReplyType
  <2>4. AnswerIsSaved' /\ ~Written' /\ ~Written
    BY <1>13, <2>1, <2>2, <2>3
  <2> QED
    BY <1>0, <2>2, <2>4 DEF WrittenIsSaved, DriverIsSaved, StartHasSaved
<1>16. ASSUME ReplyDropped PROVE SavedInv'
  <2>1. Takes("nobody") /\ UNCHANGED calls
    BY <1>0, <1>16, QueueSteps
  <2>2. UNCHANGED <<profile, saved, startPc, startCfg, putPc, putCfg, outdated, overlapped>>
    BY <1>16 DEF ReplyDropped, handlers, storeVars, overlaps
  <2>3. Written' = Written
    BY <1>3, <2>1, <2>2
  <2>4. ASSUME NEW i \in 1..Len(replies'), replies'[i].by \in Starts, startPc[replies'[i].by] = "profile",
               replies'[i].val # saved
        PROVE  putPc = "write" /\ \E j \in 1..Len(replies') : i < j /\ replies'[j].by = "put" /\ replies'[j].ok
    <3>1. i + 1 \in 1..Len(replies) /\ replies'[i] = replies[i + 1]
      BY <2>1, Taken
    <3>2. PutAfter(i + 1)
      BY <1>0, <2>4, <3>1 DEF AnswerIsSaved
    <3>3. PICK j \in 1..Len(replies) : putPc = "write" /\ i + 1 < j /\ replies[j].by = "put" /\ replies[j].ok
      BY <3>2 DEF PutAfter
    <3>4. j - 1 \in 1..Len(replies') /\ replies'[j - 1] = replies[j] /\ i < j - 1
      BY <2>1, <3>3, Taken
    <3> QED
      BY <3>3, <3>4
  <2>5. AnswerIsSaved'
    BY <2>2, <2>4 DEF AnswerIsSaved, PutAfter
  <2> QED
    BY <1>0, <2>2, <2>3, <2>5 DEF WrittenIsSaved, DriverIsSaved, StartHasSaved
<1>17. ASSUME NEW ok \in BOOLEAN, Serves(ok) PROVE SavedInv'
  <2>1. UNCHANGED <<profile, startPc, startCfg, putPc, putCfg, outdated, overlapped>>
        /\ saved' = IF ok /\ calls[1].op = "writeProfile" THEN calls[1].arg ELSE saved
    BY <1>0, <1>17, Served DEF Serves, StoreStep, StoreThrows, handlers, overlaps
  <2>2. 1 \in 1..Len(calls) /\ calls[1].by \in Handlers /\ Len(replies) + 1 \in 1..Len(replies')
        /\ replies'[Len(replies) + 1].by = calls[1].by /\ replies'[Len(replies) + 1].ok = ok
        /\ replies'[Len(replies) + 1].val = saved
    BY <1>0, <1>17, Served DEF CallType
  <2>3. /\ \A i \in 1..Len(replies) : i \in 1..Len(replies') /\ replies'[i] = replies[i]
        /\ \A i \in 1..Len(replies') : (i \in 1..Len(replies) /\ replies'[i] = replies[i]) \/ i = Len(replies) + 1
    BY <1>0, <1>17, Served
  <2>4. CASE ok /\ calls[1].by = "put" /\ putPc = "write"
    <3>1. saved' = putCfg
      BY <1>0, <2>1, <2>2, <2>4 DEF OthersAsk
    <3>2. Written'
      BY <2>1, <2>2, <2>4 DEF Written
    <3>3. ASSUME NEW i \in 1..Len(replies'), replies'[i].by \in Starts
          PROVE  \E j \in 1..Len(replies') : i < j /\ replies'[j].by = "put" /\ replies'[j].ok
      <4>1. i \in 1..Len(replies)
        BY <2>2, <2>3, <2>4, <3>3, HandlersOf
      <4>2. i < Len(replies) + 1
        BY <1>0, <4>1
      <4> QED
        BY <2>2, <2>4, <4>2
    <3>4. AnswerIsSaved'
      BY <2>1, <2>4, <3>3 DEF AnswerIsSaved, PutAfter
    <3> QED
      BY <2>1, <3>1, <3>2, <3>4 DEF WrittenIsSaved, DriverIsSaved, StartHasSaved
  <2>5. CASE ~(ok /\ calls[1].by = "put" /\ putPc = "write")
    <3>1. saved' = saved
      <4>1. calls[1].op = "writeProfile" => calls[1].by = "put" /\ putPc = "write"
        BY <1>0, <2>2 DEF OthersAsk, StartAsks, AskedByStart, Handlers
      <4> QED
        BY <2>1, <2>5, <4>1
    <3>2. Written' = Written
      <4>1. Written => Written'
        BY <2>1, <2>3 DEF Written
      <4>2. Written' => Written
        BY <2>1, <2>2, <2>3, <2>5 DEF Written
      <4> QED
        BY <4>1, <4>2 DEF Written
    <3>3. ASSUME NEW i \in 1..Len(replies'), replies'[i].by \in Starts, startPc[replies'[i].by] = "profile",
                 replies'[i].val # saved
          PROVE  putPc = "write" /\ \E j \in 1..Len(replies') : i < j /\ replies'[j].by = "put" /\ replies'[j].ok
      <4>1. i \in 1..Len(replies) /\ replies'[i] = replies[i]
        BY <2>2, <2>3, <3>3
      <4>2. PutAfter(i)
        BY <1>0, <3>3, <4>1 DEF AnswerIsSaved
      <4> QED
        BY <2>3, <4>2 DEF PutAfter
    <3>4. AnswerIsSaved'
      BY <2>1, <3>1, <3>3 DEF AnswerIsSaved, PutAfter
    <3> QED
      BY <1>0, <2>1, <3>1, <3>2, <3>4 DEF WrittenIsSaved, DriverIsSaved, StartHasSaved
  <2> QED
    BY <2>4, <2>5
<1>18. ASSUME Restart PROVE SavedInv'
  BY <1>18 DEF Restart, storeVars, Written, WrittenIsSaved, DriverIsSaved, StartHasSaved, AnswerIsSaved
<1> QED
  BY <1>6, <1>7, <1>8, <1>9, <1>10, <1>11, <1>12, <1>14, <1>15, <1>16, <1>17, <1>18, <1>19
     DEF Next, StopArrives, AutoStop, Serves
-----------------------------------------------------------------------------
(* Every step keeps the row of the run in progress open or on its way.      *)
LEMMA RunStep ==
  ASSUME ApiInv, [Next]_vars
  PROVE  RunInv'
<1>0. /\ TypeOK /\ OneEach /\ StartAsks /\ OthersAsk /\ RunInv
      /\ Len(calls) \in Nat /\ Len(replies) \in Nat /\ lastRun \in Nat /\ MaxRuns \in Nat
      /\ startPc \in [Starts -> {"none", "profile", "gateway", "record"}]
      /\ rows \in [Runs -> {"none", "open", "stopped"}]
      /\ \A i \in 1..Len(calls) : calls[i] \in CallType
  BY RunApiAssumption DEF ApiInv, TypeOK, Asking
<1> USE DEF RunInv
<1>1. ASSUME UNCHANGED <<state, runId, lastRun, calls, startPc, rows, unwritten>> PROVE RunInv'
  BY <1>0, <1>1 DEF RunIsNewest, NoneRunsAtStart, StopsAreOfOthers, ResetsComeFirst, RowIsOpenOrComes
(* A call that neither stops nor resets, by a handler that is not starting. *)
<1>2. ASSUME NEW c, Posts(c), c.op \notin {"stop", "reset"},
             UNCHANGED <<state, runId, lastRun, startPc, rows, unwritten>> PROVE RunInv'
  <2>1. StopsAreOfOthers'
    BY <1>0, <1>2, Posted DEF StopsAreOfOthers
  <2>2. ResetsComeFirst'
    <3>1. \A i \in 1..Len(calls') : calls'[i].op = "reset" => i \in 1..Len(calls) /\ calls'[i] = calls[i]
      BY <1>2, Posted
    <3>2. \A j \in 1..Len(calls) : j \in 1..Len(calls') /\ calls'[j] = calls[j]
      BY <1>2, Posted
    <3>3. ASSUME NEW i \in 1..Len(calls'), calls'[i].op = "reset", NEW s \in Starts, startPc[s] # "none"
          PROVE  startPc[s] = "profile" /\ \E j \in 1..Len(calls') : i < j /\ calls'[j].by = s
      <4>1. startPc[s] = "profile" /\ \E j \in 1..Len(calls) : i < j /\ calls[j].by = s
        BY <1>0, <3>1, <3>3 DEF ResetsComeFirst
      <4> QED
        BY <3>2, <4>1
    <3>4. \A i \in 1..Len(calls') : calls'[i].op = "reset" => state # "running"
      BY <1>0, <3>1 DEF ResetsComeFirst
    <3> QED
      BY <1>2, <3>3, <3>4 DEF ResetsComeFirst
  <2>3. RowIsOpenOrComes'
    BY <1>0, <1>2, Posted DEF RowIsOpenOrComes
  <2> QED
    BY <1>0, <1>2, <2>1, <2>2, <2>3 DEF RunIsNewest, NoneRunsAtStart
<1>3. ASSUME NEW s \in Starts, StartArrives(s) PROVE RunInv'
  <2>1. Posts(Call("readProfile", 0, s))
    BY <1>0, <1>3, QueueSteps
  <2>2. UNCHANGED <<state, runId, lastRun, rows, unwritten>> /\ state # "running"
        /\ \A t \in Starts : startPc[t] = "none" /\ startPc'[t] = IF t = s THEN "profile" ELSE "none"
    BY <1>0, <1>3 DEF StartArrives, StartingRun, driverVars, storeVars, missing
  <2>3. ASSUME NEW i \in 1..Len(calls'), calls'[i].op = "reset"
        PROVE  i < Len(calls) + 1 /\ Len(calls) + 1 \in 1..Len(calls') /\ calls'[Len(calls) + 1].by = s
    BY <1>0, <2>1, <2>3, Posted DEF Call
  <2>4. ResetsComeFirst'
    BY <2>2, <2>3 DEF ResetsComeFirst
  <2>5. StopsAreOfOthers'
    BY <1>0, <2>1, <2>2, Posted DEF StopsAreOfOthers, Call
  <2> QED
    BY <1>0, <2>2, <2>4, <2>5 DEF RunIsNewest, NoneRunsAtStart, RowIsOpenOrComes
(* Once its answer has come, no reset is left before a start.               *)
<1>4. ASSUME NEW s \in Starts, Takes(s)
      PROVE \A i \in 1..Len(calls) : calls[i].op # "reset" /\ calls[i].by # s
  <2>0. 1 \in 1..Len(replies) /\ replies[1].by = s /\ s # "nobody"
    BY <1>4, Taken, HandlersOf
  <2>1. startPc[s] # "none" /\ \A i \in 1..Len(calls) : calls[i].by # s
    BY <1>0, <2>0 DEF OneEach, OneCall, OneReply, CallOrReply, StartAsks, AnsweredToStart
  <2> QED
    BY <1>0, <2>1 DEF ResetsComeFirst
<1>5. ASSUME NEW s \in Starts, StartHasProfile(s) PROVE RunInv'
  <2>1. Takes(s) /\ Asks(Call("readGateway", 0, s))
    BY <1>0, <1>5, QueueSteps
  <2>2. UNCHANGED <<state, runId, lastRun, rows, unwritten>> /\ startPc[s] = "profile"
    BY <1>5 DEF StartHasProfile, driverVars, storeVars, missing
  <2>3. PICK pc \in {"gateway", "none"} : startPc' = [startPc EXCEPT ![s] = pc]
    BY <1>5 DEF StartHasProfile
  <2>4. state # "running"
    BY <1>0, <2>2 DEF NoneRunsAtStart
  <2>5. \A i \in 1..Len(calls') : (i \in 1..Len(calls) /\ calls'[i] = calls[i]) \/ calls'[i].op = "readGateway"
    <3>1. Call("readGateway", 0, s).op = "readGateway"
      BY DEF Call
    <3>2. UNCHANGED calls \/ Posts(Call("readGateway", 0, s))
      BY <2>1 DEF Asks
    <3> QED
      BY <1>0, <3>1, <3>2, Posted
  <2>6. \A i \in 1..Len(calls') : calls'[i].op # "reset"
    BY <1>4, <2>1, <2>5
  <2>7. StopsAreOfOthers'
    BY <1>0, <2>2, <2>5 DEF StopsAreOfOthers
  <2> QED
    BY <1>0, <2>2, <2>4, <2>6, <2>7 DEF RunIsNewest, NoneRunsAtStart, ResetsComeFirst, RowIsOpenOrComes
<1>6. ASSUME NEW s \in Starts, StartBegins(s) PROVE RunInv'
  <2>1. Takes(s) /\ Asks(Call("start", lastRun + 1, s)) /\ startPc[s] = "gateway"
    BY <1>0, <1>6, QueueSteps DEF StartBegins
  <2>2. state # "running"
    BY <1>0, <2>1 DEF NoneRunsAtStart
  <2>3. state' = "running" /\ lastRun' = lastRun + 1 /\ runId' = lastRun + 1 /\ lastRun + 1 \in Runs /\ rows' = rows
    BY <1>0, <1>6, <2>2 DEF StartBegins, driver!Begin, Runs, storeVars
  <2>4. PICK pc \in {"record", "none"} :
          /\ startPc' = [startPc EXCEPT ![s] = pc]
          /\ \/ Posts(Call("start", lastRun + 1, s))
             \/ UNCHANGED calls /\ unwritten' = unwritten \cup {lastRun + 1}
    <3>1. CASE AcceptsAfterReply
      <4>1. Posts(Call("start", lastRun + 1, s))
        BY <2>1, <3>1 DEF Asks
      <4>2. startPc' = [startPc EXCEPT ![s] = "record"]
        BY <1>6, <3>1 DEF StartBegins
      <4> WITNESS "record" \in {"record", "none"}
      <4> QED
        BY <4>1, <4>2
    <3>2. CASE ~AcceptsAfterReply
      BY <1>6, <2>1, <2>3, <3>2 DEF StartBegins, Asks
    <3> QED
      BY <3>1, <3>2
  <2>5. \A i \in 1..Len(calls') : (i \in 1..Len(calls) /\ calls'[i] = calls[i]) \/ calls'[i].op = "start"
    <3>1. Call("start", lastRun + 1, s).op = "start"
      BY DEF Call
    <3> QED
      BY <1>0, <2>4, <3>1, Posted
  <2>6. \A i \in 1..Len(calls') : calls'[i].op # "reset"
    BY <1>4, <2>1, <2>5
  <2>7. StopsAreOfOthers'
    <3>1. ASSUME NEW i \in 1..Len(calls'), calls'[i].op = "stop"
          PROVE  calls'[i].arg \in 1..(lastRun + 1) /\ calls'[i].arg # lastRun + 1
      <4>1. calls'[i].arg \in 1..lastRun
        BY <1>0, <2>5, <3>1 DEF StopsAreOfOthers
      <4> QED
        BY <1>0, <4>1
    <3> QED
      BY <2>3, <3>1 DEF StopsAreOfOthers
  <2>8. \A t \in Starts : startPc'[t] \notin {"profile", "gateway"}
    BY <1>0, <2>1, <2>4 DEF StartAsks, OneStart
  <2>9. RowIsOpenOrComes'
    BY <1>0, <2>3, <2>4, Posted DEF RowIsOpenOrComes, Call
  <2> QED
    BY <2>3, <2>6, <2>7, <2>8, <2>9 DEF RunIsNewest, NoneRunsAtStart, ResetsComeFirst
<1>7. ASSUME NEW s \in Starts, StartRefused(s) \/ StartAnswers(s) \/ StartFails(s) PROVE RunInv'
  <2>1. Takes(s) /\ UNCHANGED <<state, runId, lastRun, calls, rows, unwritten>>
        /\ startPc' = [startPc EXCEPT ![s] = "none"]
    BY <1>0, <1>7, QueueSteps DEF StartRefused, StartAnswers, StartFails, driverVars, storeVars, missing
  <2>2. ResetsComeFirst'
    BY <1>4, <2>1 DEF ResetsComeFirst
  <2> QED
    BY <1>0, <2>1, <2>2 DEF RunIsNewest, NoneRunsAtStart, StopsAreOfOthers, RowIsOpenOrComes
<1>8. ASSUME AskStop PROVE RunInv'
  <2>1. state' = "stopping" /\ state # "idle" /\ UNCHANGED <<runId, lastRun, rows, startPc>>
    BY <1>8 DEF AskStop, driver!AskStop, storeVars, handlers
  <2>2. runId \in 1..lastRun
    BY <1>0, <2>1 DEF RunIsNewest, Runs
  <2>3. UNCHANGED calls \/ Posts(Call("stop", runId, "nobody"))
    BY <1>0, <1>8, QueueSteps
  <2>4. StopsAreOfOthers'
    BY <1>0, <2>1, <2>2, <2>3, Posted DEF StopsAreOfOthers, Call
  <2>5. ResetsComeFirst'
    <3>1. \A i \in 1..Len(calls') : calls'[i].op = "reset" => i \in 1..Len(calls) /\ calls'[i] = calls[i]
      BY <2>3, Posted DEF Call
    <3>2. \A j \in 1..Len(calls) : j \in 1..Len(calls') /\ calls'[j] = calls[j]
      BY <2>3, Posted
    <3> QED
      BY <1>0, <2>1, <3>1, <3>2 DEF ResetsComeFirst
  <2> QED
    BY <1>0, <2>1, <2>4, <2>5 DEF RunIsNewest, NoneRunsAtStart, RowIsOpenOrComes
<1>9. ASSUME StopEnds \/ RunCutShort PROVE RunInv'
  <2>1. state' = "idle" /\ UNCHANGED <<lastRun, calls, rows, startPc>>
    BY <1>9 DEF StopEnds, RunCutShort, driver!End, storeVars, handlers
  <2> QED
    BY <1>0, <2>1 DEF RunIsNewest, NoneRunsAtStart, StopsAreOfOthers, ResetsComeFirst, RowIsOpenOrComes
<1>10. ASSUME UNCHANGED vars PROVE RunInv'
  BY <1>1, <1>10 DEF vars, driverVars, storeVars, handlers, missing
<1>11. ASSUME NEW c \in Profiles, PutArrives(c) PROVE RunInv'
  <2>1. Posts(Call("readProfile", 0, "put")) /\ UNCHANGED <<state, runId, lastRun, startPc, rows, unwritten>>
    BY <1>0, <1>11, QueueSteps DEF PutArrives, driverVars, storeVars, missing
  <2>2. Call("readProfile", 0, "put").op \notin {"stop", "reset"}
    BY DEF Call
  <2> QED
    BY <1>2, <2>1, <2>2
<1>12. ASSUME PutWrites PROVE RunInv'
  <2>1. Asks(Call("writeProfile", putCfg, "put")) /\ UNCHANGED <<state, runId, lastRun, startPc, rows, unwritten>>
    BY <1>0, <1>12, QueueSteps DEF PutWrites, driverVars, storeVars, missing
  <2>2. Call("writeProfile", putCfg, "put").op \notin {"stop", "reset"}
    BY DEF Call
  <2> QED
    BY <1>1, <1>2, <2>1, <2>2 DEF Asks
<1>13. ASSUME PutApplies \/ PutGivesUp \/ ReplyDropped PROVE RunInv'
  BY <1>1, <1>13 DEF PutApplies, PutGivesUp, ReplyDropped, driverVars, storeVars, handlers, missing
<1>14. ASSUME Reset PROVE RunInv'
  <2>1. Posts(Call("reset", 0, "nobody")) /\ state = "idle" /\ UNCHANGED <<state, runId, lastRun, startPc, rows, unwritten>>
        /\ \A s \in Starts : startPc[s] = "none"
    BY <1>0, <1>14, QueueSteps DEF Reset, StartingRun, driverVars, storeVars, handlers, missing
  <2>2. StopsAreOfOthers'
    BY <1>0, <2>1, Posted DEF StopsAreOfOthers, Call
  <2> QED
    BY <1>0, <2>1, <2>2 DEF RunIsNewest, NoneRunsAtStart, ResetsComeFirst, RowIsOpenOrComes
<1>15. ASSUME Prune PROVE RunInv'
  <2>1. Posts(Call("prune", 0, "nobody")) /\ UNCHANGED <<state, runId, lastRun, startPc, rows, unwritten>>
    BY <1>0, <1>15, QueueSteps DEF Prune, driverVars, storeVars, missing, handlers
  <2>2. Call("prune", 0, "nobody").op \notin {"stop", "reset"}
    BY DEF Call
  <2> QED
    BY <1>2, <2>1, <2>2
<1>16. ASSUME NEW ok \in BOOLEAN, Serves(ok) PROVE RunInv'
  <2>1. UNCHANGED <<state, runId, lastRun, startPc>>
    BY <1>16 DEF Serves, StoreStep, StoreThrows, handlers, driverVars
  <2>7. /\ unwritten \subseteq unwritten'
        /\ ~ok /\ calls[1].op = "start" => calls[1].arg \in unwritten'
    <3>1. CASE StoreStep /\ ok
      BY <3>1 DEF StoreStep, missing
    <3>2. CASE StoreThrows
      BY <1>0, <1>16, <3>2, Served DEF StoreThrows
    <3> QED
      BY <1>16, <3>1, <3>2 DEF Serves
  <2>2. /\ \A i \in 1..Len(calls') : i + 1 \in 1..Len(calls) /\ calls'[i] = calls[i + 1]
        /\ \A i \in 1..Len(calls) : i # 1 => i - 1 \in 1..Len(calls') /\ calls'[i - 1] = calls[i]
        /\ 1 \in 1..Len(calls) /\ Head(calls) = calls[1]
    BY <1>0, <1>16, Served
  <2>3. StopsAreOfOthers'
    BY <1>0, <2>1, <2>2 DEF StopsAreOfOthers
  <2>4. ASSUME NEW i \in 1..Len(calls'), calls'[i].op = "reset", NEW s \in Starts, startPc[s] # "none"
        PROVE  startPc[s] = "profile" /\ \E j \in 1..Len(calls') : i < j /\ calls'[j].by = s
    <3>0. i + 1 \in 1..Len(calls) /\ calls[i + 1].op = "reset"
      BY <2>2, <2>4
    <3>1. PICK j \in 1..Len(calls) : i + 1 < j /\ calls[j].by = s
      BY <1>0, <2>4, <3>0 DEF ResetsComeFirst
    <3>2. j - 1 \in 1..Len(calls') /\ calls'[j - 1].by = s /\ i < j - 1
      BY <2>2, <3>1
    <3>3. startPc[s] = "profile"
      BY <1>0, <2>4, <3>0 DEF ResetsComeFirst
    <3> QED
      BY <3>2, <3>3
  <2>5. ResetsComeFirst'
    <3>1. ASSUME NEW i \in 1..Len(calls'), calls'[i].op = "reset"
          PROVE  state # "running"
      <4>1. i + 1 \in 1..Len(calls) /\ calls[i + 1].op = "reset"
        BY <2>2, <3>1
      <4> QED
        BY <1>0, <4>1 DEF ResetsComeFirst
    <3> QED
      BY <2>1, <2>4, <3>1 DEF ResetsComeFirst
  <2>6. RowIsOpenOrComes'
    <3> SUFFICES ASSUME state = "running", runId \notin unwritten'
                 PROVE  \/ rows'[runId] = "open"
                        \/ \E i \in 1..Len(calls') : calls'[i].op = "start" /\ calls'[i].arg = runId
      BY <2>1 DEF RowIsOpenOrComes
    <3>1. runId \in Runs
      BY <1>0 DEF RunIsNewest
    <3>2. CASE rows[runId] = "open"
      <4>1. calls[1].op # "reset" /\ (calls[1].op = "stop" => calls[1].arg # runId)
        BY <1>0, <2>2 DEF ResetsComeFirst, StopsAreOfOthers
      <4> QED
        <5>1. CASE StoreStep
          BY <1>0, <2>2, <3>1, <3>2, <4>1, <5>1 DEF StoreStep, Pruned
        <5>2. CASE StoreThrows
          BY <2>2, <3>2, <4>1, <5>2 DEF StoreThrows
        <5> QED
          BY <1>16, <5>1, <5>2 DEF Serves
    <3>3. CASE rows[runId] # "open"
      <4>1. PICK i \in 1..Len(calls) : calls[i].op = "start" /\ calls[i].arg = runId
        BY <1>0, <2>7, <3>3 DEF RowIsOpenOrComes
      <4>2. CASE i = 1
        BY <1>0, <1>16, <2>7, <2>2, <3>1, <4>1, <4>2 DEF Serves, StoreStep
      <4>3. CASE i # 1
        BY <2>2, <4>1, <4>3
      <4> QED
        BY <4>2, <4>3
    <3> QED
      BY <3>2, <3>3
  <2> QED
    BY <1>0, <2>1, <2>3, <2>5, <2>6 DEF RunIsNewest, NoneRunsAtStart
<1>17. ASSUME Restart PROVE RunInv'
  BY <1>17 DEF Restart, RunIsNewest, NoneRunsAtStart, StopsAreOfOthers, ResetsComeFirst, RowIsOpenOrComes
<1> QED
  BY <1>3, <1>5, <1>6, <1>7, <1>8, <1>9, <1>10, <1>11, <1>12, <1>13, <1>14, <1>15, <1>16, <1>17
     DEF Next, StopArrives, AutoStop, Serves

(* Every step keeps the open rows accounted for.                            *)
LEMMA RowStep ==
  ASSUME ApiInv, [Next]_vars
  PROVE  RowInv'
<1>0. /\ TypeOK /\ OneEach /\ StartAsks /\ OthersAsk /\ RunInv /\ RowInv
      /\ Len(calls) \in Nat /\ Len(replies) \in Nat /\ lastRun \in Nat /\ MaxRuns \in Nat
      /\ startPc \in [Starts -> {"none", "profile", "gateway", "record"}]
      /\ rows \in [Runs -> {"none", "open", "stopped"}]
      /\ \A i \in 1..Len(calls) : calls[i] \in CallType
  BY RunApiAssumption DEF ApiInv, TypeOK, Asking
<1> USE DEF RowInv
<1>1. ASSUME UNCHANGED <<state, runId, lastRun, calls, rows, unclosed>> PROVE RowInv'
  BY <1>0, <1>1 DEF OpenRowsAreRuns, StartsAccountedFor, RowsAccountedFor, StopAfter
(* A call more, which is no start; runs are given up, none is ended.        *)
<1>2. ASSUME NEW c, Posts(c), c.op # "start", UNCHANGED <<state, runId, lastRun, rows, unclosed>>
      PROVE RowInv'
  <2>1. \A r, i : StopAfter(r, i) => StopAfter(r, i)'
    BY <1>2, Posted DEF StopAfter
  <2> QED
    BY <1>0, <1>2, <2>1, Posted DEF OpenRowsAreRuns, StartsAccountedFor, RowsAccountedFor
<1>3. ASSUME NEW s \in Starts, StartArrives(s) PROVE RowInv'
  <2>1. Posts(Call("readProfile", 0, s)) /\ UNCHANGED <<state, runId, lastRun, rows, unclosed>>
    BY <1>0, <1>3, QueueSteps DEF StartArrives, driverVars, storeVars, missing
  <2>2. Call("readProfile", 0, s).op # "start"
    BY DEF Call
  <2> QED
    BY <1>2, <2>1, <2>2
<1>4. ASSUME NEW s \in Starts, StartHasProfile(s) PROVE RowInv'
  <2>1. Asks(Call("readGateway", 0, s)) /\ UNCHANGED <<state, runId, lastRun, rows, unclosed>>
    BY <1>0, <1>4, QueueSteps DEF StartHasProfile, driverVars, storeVars, missing
  <2>2. Call("readGateway", 0, s).op # "start"
    BY DEF Call
  <2> QED
    BY <1>1, <1>2, <2>1, <2>2 DEF Asks
<1>5. ASSUME NEW s \in Starts, StartBegins(s) PROVE RowInv'
  <2>1. Takes(s) /\ Asks(Call("start", lastRun + 1, s)) /\ startPc[s] = "gateway"
    BY <1>0, <1>5, QueueSteps DEF StartBegins
  <2>2. state # "running"
    BY <1>0, <2>1 DEF RunInv, NoneRunsAtStart
  <2>3. state' = "running" /\ lastRun' = lastRun + 1 /\ runId' = lastRun + 1 /\ lastRun + 1 \in Runs /\ rows' = rows
    BY <1>0, <1>5, <2>2 DEF StartBegins, driver!Begin, Runs, storeVars
  <2>4. unclosed \subseteq unclosed'
    BY <1>5 DEF StartBegins
  <2>5. Posts(Call("start", lastRun + 1, s)) \/ UNCHANGED calls
    BY <2>1 DEF Asks
  <2>6. \A r, i : StopAfter(r, i) => StopAfter(r, i)'
    BY <2>5, Posted DEF StopAfter
  <2>7. \A i \in 1..Len(calls') : (i \in 1..Len(calls) /\ calls'[i] = calls[i]) \/ calls'[i].arg = lastRun + 1
    <3>1. Call("start", lastRun + 1, s).arg = lastRun + 1
      BY DEF Call
    <3> QED
      BY <1>0, <2>5, <3>1, Posted
  <2>8. StartsAccountedFor'
    BY <1>0, <2>2, <2>3, <2>4, <2>6, <2>7 DEF StartsAccountedFor
  <2>9. RowsAccountedFor'
    BY <1>0, <2>2, <2>3, <2>4, <2>6 DEF RowsAccountedFor
  <2>10. OpenRowsAreRuns'
    BY <1>0, <2>3 DEF OpenRowsAreRuns, Runs
  <2> QED
    BY <2>8, <2>9, <2>10
<1>6. ASSUME NEW s \in Starts, StartRefused(s) \/ StartAnswers(s) \/ StartFails(s) PROVE RowInv'
  BY <1>1, <1>6 DEF StartRefused, StartAnswers, StartFails, driverVars, storeVars, missing
<1>7. ASSUME AskStop PROVE RowInv'
  <2>1. state' = "stopping" /\ state # "idle" /\ UNCHANGED <<runId, lastRun, rows>>
    BY <1>7 DEF AskStop, driver!AskStop, storeVars
  <2>2. \/ UNCHANGED calls /\ unclosed' = unclosed \cup {runId}
        \/ Posts(Call("stop", runId, "nobody")) /\ unclosed' = unclosed
    <3>1. CASE Accepts
      BY <1>0, <1>7, <3>1, QueueSteps DEF AskStop
    <3>2. CASE ~Accepts
      BY <1>0, <1>7, <3>2, QueueSteps DEF AskStop
    <3> QED
      BY <3>1, <3>2
  <2>3. \A r, i : StopAfter(r, i) => StopAfter(r, i)'
    BY <2>2, Posted DEF StopAfter
  <2>4. \A i \in 0..Len(calls) : StopAfter(runId, i)' \/ runId \in unclosed'
    <3>1. CASE UNCHANGED calls /\ unclosed' = unclosed \cup {runId}
      BY <3>1
    <3>2. CASE Posts(Call("stop", runId, "nobody"))
      <4>1. Len(calls) + 1 \in 1..Len(calls') /\ calls'[Len(calls) + 1].op = "stop" /\ calls'[Len(calls) + 1].arg = runId
        BY <3>2, Posted DEF Call
      <4> QED
        BY <1>0, <2>1, <4>1 DEF StopAfter
    <3> QED
      BY <2>2, <3>1, <3>2
  <2>5. \A i \in 1..Len(calls') : (i \in 1..Len(calls) /\ calls'[i] = calls[i]) \/ calls'[i].op = "stop"
    <3>1. Call("stop", runId, "nobody").op = "stop"
      BY DEF Call
    <3> QED
      BY <1>0, <2>2, <3>1, Posted
  <2>6. StartsAccountedFor'
    BY <1>0, <2>1, <2>2, <2>3, <2>4, <2>5 DEF StartsAccountedFor
  <2>7. RowsAccountedFor'
    BY <1>0, <2>1, <2>2, <2>3, <2>4 DEF RowsAccountedFor
  <2> QED
    BY <1>0, <2>1, <2>6, <2>7 DEF OpenRowsAreRuns
<1>8. ASSUME StopEnds \/ RunCutShort PROVE RowInv'
  <2>1. /\ state' = "idle" /\ UNCHANGED <<lastRun, calls, rows>>
        /\ unclosed \subseteq unclosed' /\ (state = "running" => runId \in unclosed')
    BY <1>8 DEF StopEnds, RunCutShort, driver!End, storeVars, missing
  <2> QED
    BY <1>0, <2>1 DEF OpenRowsAreRuns, StartsAccountedFor, RowsAccountedFor, StopAfter
<1>9. ASSUME UNCHANGED vars PROVE RowInv'
  BY <1>1, <1>9 DEF vars, driverVars, storeVars, missing
<1>10. ASSUME NEW c \in Profiles, PutArrives(c) PROVE RowInv'
  <2>1. Posts(Call("readProfile", 0, "put")) /\ UNCHANGED <<state, runId, lastRun, rows, unclosed>>
    BY <1>0, <1>10, QueueSteps DEF PutArrives, driverVars, storeVars, missing
  <2>2. Call("readProfile", 0, "put").op # "start"
    BY DEF Call
  <2> QED
    BY <1>2, <2>1, <2>2
<1>11. ASSUME PutWrites PROVE RowInv'
  <2>1. Asks(Call("writeProfile", putCfg, "put")) /\ UNCHANGED <<state, runId, lastRun, rows, unclosed>>
    BY <1>0, <1>11, QueueSteps DEF PutWrites, driverVars, storeVars, missing
  <2>2. Call("writeProfile", putCfg, "put").op # "start"
    BY DEF Call
  <2> QED
    BY <1>1, <1>2, <2>1, <2>2 DEF Asks
<1>12. ASSUME PutApplies \/ PutGivesUp \/ ReplyDropped PROVE RowInv'
  BY <1>1, <1>12 DEF PutApplies, PutGivesUp, ReplyDropped, driverVars, storeVars, missing
<1>13. ASSUME Reset \/ Prune PROVE RowInv'
  <2>1. UNCHANGED <<state, runId, lastRun, rows, unclosed>>
    BY <1>13 DEF Reset, Prune, driverVars, storeVars, missing
  <2>2. \E c : Posts(c) /\ c.op # "start"
    <3>1. Call("reset", 0, "nobody").op # "start" /\ Call("prune", 0, "nobody").op # "start"
      BY DEF Call
    <3> QED
      BY <1>0, <1>13, <3>1, QueueSteps
  <2> QED
    BY <1>2, <2>1, <2>2
<1>14. ASSUME NEW ok \in BOOLEAN, Serves(ok) PROVE RowInv'
  <2>1. UNCHANGED <<state, runId, lastRun>>
    BY <1>14 DEF Serves, StoreStep, StoreThrows, driverVars
  <2>8. /\ unclosed \subseteq unclosed'
        /\ ~ok /\ calls[1].op = "stop" => calls[1].arg \in unclosed'
    <3>1. CASE StoreStep /\ ok
      BY <3>1 DEF StoreStep, missing
    <3>2. CASE StoreThrows
      BY <1>0, <1>14, <3>2, Served DEF StoreThrows
    <3> QED
      BY <1>14, <3>1, <3>2 DEF Serves
  <2>2. /\ \A i \in 1..Len(calls') : i + 1 \in 1..Len(calls) /\ calls'[i] = calls[i + 1]
        /\ \A i \in 1..Len(calls) : i # 1 => i - 1 \in 1..Len(calls') /\ calls'[i - 1] = calls[i]
        /\ 1 \in 1..Len(calls) /\ Head(calls) = calls[1]
    BY <1>0, <1>14, Served
  <2>3. \A r : \A i \in Nat : StopAfter(r, i + 1) => StopAfter(r, i)'
    <3> SUFFICES ASSUME NEW r, NEW i \in Nat, NEW j \in 1..Len(calls),
                        i + 1 < j, calls[j].op = "stop", calls[j].arg = r
                 PROVE  StopAfter(r, i)'
      BY DEF StopAfter
    <3>1. j - 1 \in 1..Len(calls') /\ calls'[j - 1] = calls[j] /\ i < j - 1
      BY <2>2
    <3> QED
      BY <3>1 DEF StopAfter
  <2>4. StartsAccountedFor'
    <3> SUFFICES ASSUME NEW i \in 1..Len(calls'), calls'[i].op = "start"
                 PROVE  \/ state = "running" /\ runId = calls'[i].arg
                        \/ \E j \in 1..Len(calls') : i < j /\ calls'[j].op = "stop" /\ calls'[j].arg = calls'[i].arg
                        \/ calls'[i].arg \in unclosed'
      BY <2>1 DEF StartsAccountedFor, StopAfter
    <3>1. i + 1 \in 1..Len(calls) /\ calls'[i] = calls[i + 1] /\ i \in Nat
      BY <2>2
    <3>2. CASE StopAfter(calls[i + 1].arg, i + 1)
      <4>1. PICK r : r = calls[i + 1].arg
        OBVIOUS
      <4>2. StopAfter(r, i)'
        BY <2>3, <3>1, <3>2, <4>1
      <4> QED
        BY <3>1, <4>1, <4>2 DEF StopAfter
    <3> QED
      BY <1>0, <2>8, <3>1, <3>2 DEF StartsAccountedFor
  <2>5. ASSUME NEW r \in Runs, rows'[r] = "open"
        PROVE  \/ calls[1].op = "start" /\ calls[1].arg = r
               \/ rows[r] = "open" /\ ~(ok /\ calls[1].op = "stop" /\ calls[1].arg = r)
    <3>1. CASE StoreStep
      BY <1>0, <2>2, <2>5, <3>1 DEF StoreStep, Pruned
    <3>2. CASE StoreThrows /\ ok = FALSE
      BY <1>0, <2>2, <2>5, <3>2 DEF StoreThrows
    <3> QED
      BY <1>14, <3>1, <3>2 DEF Serves
  <2>6. RowsAccountedFor'
    <3> SUFFICES ASSUME NEW r \in Runs, rows'[r] = "open"
                 PROVE  \/ state = "running" /\ runId = r
                        \/ StopAfter(r, 0)'
                        \/ r \in unclosed'
      BY <2>1 DEF RowsAccountedFor
    <3>1. CASE calls[1].op = "start" /\ calls[1].arg = r
      BY <1>0, <2>8, <2>2, <2>3, <3>1 DEF StartsAccountedFor
    <3>2. CASE rows[r] = "open" /\ ~(ok /\ calls[1].op = "stop" /\ calls[1].arg = r)
      <4>1. StopAfter(r, 0) => StopAfter(r, 1) \/ r \in unclosed'
        BY <1>0, <2>8, <3>2 DEF StopAfter
      <4> QED
        BY <1>0, <2>8, <2>3, <3>2, <4>1 DEF RowsAccountedFor
    <3> QED
      BY <2>5, <3>1, <3>2
  <2>7. OpenRowsAreRuns'
    BY <1>0, <2>1, <2>2, <2>5, CallsAre DEF OpenRowsAreRuns
  <2> QED
    BY <2>4, <2>6, <2>7
<1>15. ASSUME Restart PROVE RowInv'
  <2>1. calls' = <<>> /\ UNCHANGED <<lastRun, rows>>
        /\ unclosed' = unclosed \cup {r \in Runs : r <= lastRun /\ rows[r] # "stopped"}
    BY <1>15 DEF Restart, storeVars
  <2> QED
    BY <1>0, <2>1 DEF OpenRowsAreRuns, StartsAccountedFor, RowsAccountedFor
<1> QED
  BY <1>3, <1>4, <1>5, <1>6, <1>7, <1>8, <1>9, <1>10, <1>11, <1>12, <1>13, <1>14, <1>15
     DEF Next, StopArrives, AutoStop, Serves

-----------------------------------------------------------------------------
LEMMA ApiInvInit ==
  ASSUME Init
  PROVE  ApiInv
<1>1. calls = <<>> /\ replies = <<>> /\ calls \in Seq(CallType) /\ replies \in Seq(ReplyType)
  BY DEF Init
<1>2. TypeOK
  <2>1. Pending = 0 /\ 1 \in Profiles /\ 0 \in 0..MaxRuns /\ 0 \in 0..MaxThrows /\ 0 \in 0..MaxRestarts /\ 0 <= MaxPending
    BY RunApiAssumption, <1>1 DEF Pending, Profiles
  <2> QED
    BY <1>1, <2>1 DEF Init, TypeOK, driver!Init, ReplyType
<1>3. Asking
  BY <1>1
     DEF Init, Asking, OneEach, OneCall, OneReply, CallOrReply, StartAsks, OneStart, AskedByStart, AnsweredToStart, OthersAsk
<1>4. SavedInv
  BY <1>1 DEF Init, SavedInv, Written, WrittenIsSaved, DriverIsSaved, StartHasSaved, AnswerIsSaved
<1>5. RunInv
  BY <1>1
     DEF Init, driver!Init, RunInv, RunIsNewest, NoneRunsAtStart, StopsAreOfOthers, ResetsComeFirst, RowIsOpenOrComes
<1>6. RowInv
  BY <1>1 DEF Init, RowInv, OpenRowsAreRuns, StartsAccountedFor, RowsAccountedFor
<1> QED
  BY <1>2, <1>3, <1>4, <1>5, <1>6 DEF ApiInv

(* The invariant holds throughout.                                          *)
LEMMA ApiInvariant == Spec => []ApiInv
<1>1. Init => ApiInv
  BY ApiInvInit
<1>2. ApiInv /\ [Next]_vars => ApiInv'
  BY TypeStep, OneEachStep, StartAsksStep, OthersAskStep, SavedStep, RunStep, RowStep DEF ApiInv, Asking
<1> QED
  BY <1>1, <1>2, PTL DEF Spec

(* TypeOK: the fields of the Driver, the calls, the replies and the tables  *)
(* keep their shapes, and no more than MaxPending calls are pending.        *)
THEOREM TypeCorrect == Spec => []TypeOK
<1>1. ApiInv => TypeOK
  BY DEF ApiInv
<1> QED
  BY <1>1, ApiInvariant, PTL

(* RunningRunHasOpenRow (app.ts run/start, run/stop, metrics/reset and      *)
(* runs/prune over the queue of metrics/client.ts): a run in progress whose *)
(* start has been answered has an open row, unless recording its start was  *)
(* refused by a full queue or threw.                                        *)
THEOREM OpenRowStands == Spec => []RunningRunHasOpenRow
<1>1. ApiInv => RunningRunHasOpenRow
  <2> SUFFICES ASSUME ApiInv, state = "running", ~StartingRun, runId \notin unwritten
               PROVE  rows[runId] = "open"
    BY DEF RunningRunHasOpenRow
  <2>1. \A i \in 1..Len(calls) : calls[i].op # "start"
    BY CallsAre DEF StartingRun
  <2> QED
    BY <2>1 DEF ApiInv, RunInv, RowIsOpenOrComes
<1> QED
  BY <1>1, ApiInvariant, PTL

(* OpenRowsAccountedFor (the same handlers, and the Driver's own ways back  *)
(* to idle): an open row is the run in progress, one whose stop is queued,  *)
(* or one that has no stop on record: its generator failed, an ack ended    *)
(* it, its stop was refused or threw, or the process was killed.            *)
THEOREM RowsAreOwned == Spec => []OpenRowsAccountedFor
<1>1. ApiInv => OpenRowsAccountedFor
  <2>1. ApiInv => DOMAIN calls = 1..Len(calls)
    BY DEF ApiInv, TypeOK
  <2> QED
    BY <2>1 DEF ApiInv, RowInv, RowsAccountedFor, StopAfter, OpenRowsAccountedFor
<1> QED
  BY <1>1, ApiInvariant, PTL

(* SavedProfileInForce (PUT /api/config/profile against run/start): with no *)
(* PUT under way the Driver has the stored profile, unless a start that had *)
(* read before the last PUT has given it the older one since.               *)
THEOREM SavedIsInForce == Spec => []SavedProfileInForce
<1>1. ApiInv => SavedProfileInForce
  BY DEF ApiInv, SavedInv, DriverIsSaved, SavedProfileInForce, Written
<1> QED
  BY <1>1, ApiInvariant, PTL

----------------------------------------------------------------------------
(* The settings (Settings).  A setting as it is stored, or as it is sent:  *)
(* sanitized, so that sanitizing it again over anything changes nothing.   *)
IsStored(k, v) ==
    /\ IsForm(k, v)
    /\ k = "gw" => \A s \in Sides : v[s] # NoUrl
    /\ k = "profile" => \E s \in {"list", "create"} : v.weights[s] # 0

LEMMA KeysAre ==
    /\ KeySet = {"gw", "profile", "slo", "policy"} /\ Len(Keys) = 4
    /\ Keys[1] = "gw" /\ Keys[2] = "profile" /\ Keys[3] = "slo" /\ Keys[4] = "policy"
    /\ \A i \in 1..4 : Keys[i] \in KeySet
  <1>1. Len(Keys) = 4 /\ Keys[1] = "gw" /\ Keys[2] = "profile" /\ Keys[3] = "slo" /\ Keys[4] = "policy"
    BY DEF Keys
  <1>2. DOMAIN Keys = {1, 2, 3, 4} /\ 1..4 = {1, 2, 3, 4}
    BY DEF Keys
  <1>3. KeySet = {Keys[1], Keys[2], Keys[3], Keys[4]}
    BY <1>2 DEF KeySet
  <1> HIDE DEF Keys
  <1> QED BY <1>1, <1>2, <1>3

LEMMA ClampedIs ==
    \A n \in Int, hi \in {9, MaxRps} :
        Clamped(n, 0, hi) \in 0..hi /\ (n \in 0..hi => Clamped(n, 0, hi) = n)
  <1> SUFFICES ASSUME NEW n \in Int, NEW hi \in Nat
               PROVE  Clamped(n, 0, hi) \in 0..hi /\ (n \in 0..hi => Clamped(n, 0, hi) = n)
    BY SettingsAssumption
  <1> DEFINE m == IF 0 < n THEN n ELSE 0
             v == IF m < hi THEN m ELSE hi
  <1>1. Max({0, n}) = m
    <2>1. m \in {0, n} /\ \A y \in {0, n} : y <= m
      OBVIOUS
    <2>2. \A x \in {0, n} : (\A y \in {0, n} : y <= x) => x = m
      OBVIOUS
    <2> HIDE DEF m
    <2> QED BY <2>1, <2>2 DEF Max
  <1>2. m \in Int
    OBVIOUS
  <1>3. Min({hi, m}) = v
    <2>1. v \in {hi, m} /\ \A y \in {hi, m} : v <= y
      BY <1>2
    <2>2. \A x \in {hi, m} : (\A y \in {hi, m} : x <= y) => x = v
      BY <1>2
    <2> HIDE DEF v, m
    <2> QED BY <2>1, <2>2 DEF Min
  <1>4. Clamped(n, 0, hi) = v
    BY <1>1, <1>3 DEF Clamped
  <1> QED BY <1>4

LEMMA ClampNumIs ==
    ASSUME NEW v \in Int, NEW b \in 0..9
    PROVE  /\ ClampNum(v, 0, 9, b) \in 0..9
           /\ v = Junk => ClampNum(v, 0, 9, b) = b
           /\ v # Junk => \A a : ClampNum(v, 0, 9, b) = ClampNum(v, 0, 9, a)
           /\ v \in 0..9 => ClampNum(v, 0, 9, b) = v
  <1>1. \A n \in Int : Clamped(n, 0, 9) \in 0..9 /\ (n \in 0..9 => Clamped(n, 0, 9) = n)
    BY ClampedIs
  <1>2. v = Junk => \A a : ClampNum(v, 0, 9, a) = a
    BY DEF ClampNum
  <1>3. v # Junk /\ v = Null => \A a : ClampNum(v, 0, 9, a) = Clamped(0, 0, 9)
    BY DEF ClampNum
  <1>4. v # Junk /\ v # Null => \A a : ClampNum(v, 0, 9, a) = Clamped(v, 0, 9)
    BY DEF ClampNum
  <1>5. v \in 0..9 => v # Junk /\ v # Null
    BY DEF Junk, Null
  <1> QED BY <1>1, <1>2, <1>3, <1>4, <1>5

(* What a sanitizer makes of a body, over a stored setting, is fit to be   *)
(* stored, and once more over that it is the same.                         *)
LEMMA ProfileSanitized ==
    ASSUME NEW raw, IsBody("profile", raw), NEW base, IsStored("profile", base)
    PROVE  /\ IsStored("profile", SanitizedProfile(raw, base))
           /\ SanitizedProfile(raw, SanitizedProfile(raw, base)) = SanitizedProfile(raw, base)
           /\ IsStored("profile", raw) => SanitizedProfile(raw, base) = raw
  <1> DEFINE W == {"list", "create"}
             of(s) == IF "weights" \in DOMAIN raw THEN Field(raw.weights, s) ELSE Junk
             w(b) == [s \in W |-> ClampNum(of(s), 0, 9, b[s])]
             weights(b) == IF \A s \in W : w(b)[s] = 0 THEN b ELSE w(b)
             rps(b) == OptClamp(Field(raw, "rps"), 0, MaxRps, b)
  <1>0. /\ base = [rps |-> base.rps, weights |-> base.weights] /\ base.rps \in 0..MaxRps
        /\ base.weights \in [W -> 0..9] /\ \E s \in W : base.weights[s] # 0
    BY DEF IsStored, IsForm
  <1>1. \A s \in W : of(s) \in Int
    BY DEF IsBody, Field, Junk
  <1>2. \A b : b.weights \in [W -> 0..9] =>
          SanitizedProfile(raw, b) = [rps |-> rps(b.rps), weights |-> weights(b.weights)]
    BY DEF SanitizedProfile
  <1>3. \A b \in [W -> 0..9] : \A s \in W :
          /\ w(b)[s] \in 0..9
          /\ of(s) # Junk => \A a \in [W -> 0..9] : w(b)[s] = w(a)[s]
          /\ of(s) = Junk => w(b)[s] = b[s]
          /\ of(s) \in 0..9 => w(b)[s] = of(s)
    BY <1>1, ClampNumIs DEF Junk
  <1> HIDE DEF w, of
  <1>4. \A b \in [W -> 0..9] : weights(b) \in [W -> 0..9] /\ weights(weights(b)) = weights(b)
    <2> SUFFICES ASSUME NEW b \in [W -> 0..9]
                 PROVE  weights(b) \in [W -> 0..9] /\ weights(weights(b)) = weights(b)
      OBVIOUS
    <2>1. w(b) \in [W -> 0..9]
      <3>1. w(b) = [s \in W |-> w(b)[s]]
        BY DEF w
      <3> QED BY <1>3, <3>1
    <2>2. w(w(b)) = w(b)
      <3>1. \A s \in W : w(w(b))[s] = w(b)[s]
        BY <1>3, <2>1
      <3> QED BY <3>1 DEF w
    <2> QED BY <2>1, <2>2
  <1>5. \A b \in [W -> 0..9] : (\E s \in W : b[s] # 0) => \E s \in W : weights(b)[s] # 0
    OBVIOUS
  <1>6. \A b \in 0..MaxRps : rps(b) \in 0..MaxRps /\ rps(rps(b)) = rps(b)
    BY ClampedIs, SettingsAssumption DEF OptClamp, IsBody
  <1>7. ASSUME IsStored("profile", raw)
        PROVE  rps(base.rps) = raw.rps /\ weights(base.weights) = raw.weights
    <2>1. /\ raw.rps \in 0..MaxRps /\ raw.weights \in [W -> 0..9] /\ \E s \in W : raw.weights[s] # 0
          /\ DOMAIN raw = {"rps", "weights"}
      BY <1>7 DEF IsStored, IsForm
    <2>2. \A s \in W : of(s) = raw.weights[s]
      BY <2>1 DEF of, Field
    <2>3. \A s \in W : w(base.weights)[s] = raw.weights[s]
      BY <1>0, <1>3, <2>1, <2>2
    <2>4. w(base.weights) = raw.weights
      BY <2>1, <2>3 DEF w
    <2>5. rps(base.rps) = raw.rps
      <3>1. Field(raw, "rps") = raw.rps /\ raw.rps \notin {Junk, Null}
        BY <2>1, SettingsAssumption DEF Field, Junk, Null
      <3> QED BY <2>1, <3>1, ClampedIs, SettingsAssumption DEF OptClamp
    <2> QED BY <2>1, <2>4, <2>5
  <1> DEFINE out == [rps |-> rps(base.rps), weights |-> weights(base.weights)]
  <1> HIDE DEF weights, rps
  <1>8. /\ SanitizedProfile(raw, base) = out
        /\ out.weights \in [W -> 0..9] /\ out.rps \in 0..MaxRps /\ \E s \in W : out.weights[s] # 0
    BY <1>0, <1>2, <1>4, <1>5, <1>6
  <1>9. SanitizedProfile(raw, out) = out
    BY <1>0, <1>2, <1>4, <1>6, <1>8
  <1>10. IsStored("profile", out)
    BY <1>8 DEF IsStored, IsForm
  <1>11. IsStored("profile", raw) => out = raw
    <2>1. IsStored("profile", raw) => raw = [rps |-> raw.rps, weights |-> raw.weights]
      BY DEF IsStored, IsForm
    <2> QED BY <1>7, <2>1
  <1> QED BY <1>8, <1>9, <1>10, <1>11

LEMMA GwSanitized ==
    ASSUME NEW raw, NEW base, IsStored("gw", base)
    PROVE  /\ IsStored("gw", SanitizedGw(raw, base))
           /\ SanitizedGw(raw, SanitizedGw(raw, base)) = SanitizedGw(raw, base)
           /\ IsStored("gw", raw) => SanitizedGw(raw, base) = raw
  <1> DEFINE flat == "baseUrl" \in DOMAIN raw /\ DOMAIN raw \cap Sides = {}
             of(s) == IF flat THEN raw.baseUrl ELSE Url(raw, s)
             out(b) == [s \in Sides |-> IF of(s) = NoUrl THEN b[s] ELSE of(s)]
  <1>1. \A b : SanitizedGw(raw, b) = out(b)
    BY DEF SanitizedGw, SanitizedUrl
  <1>2. \A s \in Sides : base[s] # NoUrl
    BY DEF IsStored
  <1>3. IsStored("gw", raw) => raw = [s \in Sides |-> raw[s]] /\ \A s \in Sides : raw[s] # NoUrl
    BY DEF IsStored, IsForm
  <1>4. IsStored("gw", raw) => \A s \in Sides : of(s) = raw[s]
    BY <1>3 DEF Url, Sides
  <1> HIDE DEF of
  <1>5. \A s \in Sides : out(base)[s] # NoUrl
    BY <1>2
  <1>6. out(out(base)) = out(base)
    OBVIOUS
  <1>7. IsStored("gw", raw) => out(base) = raw
    BY <1>3, <1>4
  <1>8. IsStored("gw", out(base))
    BY <1>5 DEF IsStored, IsForm
  <1> HIDE DEF out
  <1> QED BY <1>1, <1>6, <1>7, <1>8

LEMMA SloSanitized ==
    ASSUME NEW raw, IsBody("slo", raw), NEW base, IsStored("slo", base)
    PROVE  /\ IsStored("slo", SanitizedSlo(raw, base))
           /\ SanitizedSlo(raw, SanitizedSlo(raw, base)) = SanitizedSlo(raw, base)
           /\ IsStored("slo", raw) => SanitizedSlo(raw, base) = raw
  <1> DEFINE v == Field(raw, "leaked")
             of(b) == IF v = Null THEN Null ELSE OptClamp(v, 0, 9, b)
  <1>1. /\ \A b : SanitizedSlo(raw, b) = [leaked |-> of(b.leaked)]
        /\ v \in Int /\ base.leaked \in 0..9 \union {Null}
    BY DEF SanitizedSlo, IsBody, IsStored, IsForm
  <1>2. IsStored("slo", raw) => raw = [leaked |-> raw.leaked] /\ v = raw.leaked
                                 /\ raw.leaked \in 0..9 \union {Null}
    BY DEF IsStored, IsForm, Field
  <1> HIDE DEF v
  <1>3. \A b \in 0..9 \union {Null} :
          /\ of(b) \in 0..9 \union {Null} /\ of(of(b)) = of(b)
          /\ v \in 0..9 \union {Null} => of(b) = v
    BY <1>1, ClampedIs DEF OptClamp, Null, Junk
  <1> HIDE DEF of
  <1>4. IsStored("slo", [leaked |-> of(base.leaked)])
    BY <1>1, <1>3 DEF IsStored, IsForm
  <1> QED BY <1>1, <1>2, <1>3, <1>4

LEMMA PolicySanitized ==
    ASSUME NEW raw, NEW base, IsStored("policy", base)
    PROVE  /\ IsStored("policy", SanitizedPolicy(raw, base))
           /\ SanitizedPolicy(raw, SanitizedPolicy(raw, base)) = SanitizedPolicy(raw, base)
           /\ IsStored("policy", raw) => SanitizedPolicy(raw, base) = raw
  BY DEF SanitizedPolicy, IsStored, IsForm

LEMMA SanitizedIs ==
    ASSUME NEW k \in KeySet, NEW raw, IsBody(k, raw), NEW base, IsStored(k, base)
    PROVE  /\ IsStored(k, Sanitized(k, raw, base))
           /\ Sanitized(k, raw, Sanitized(k, raw, base)) = Sanitized(k, raw, base)
           /\ IsStored(k, raw) => Sanitized(k, raw, base) = raw
  <1>1. CASE k = "gw" BY <1>1, GwSanitized DEF Sanitized
  <1>2. CASE k = "profile" BY <1>2, ProfileSanitized DEF Sanitized
  <1>3. CASE k = "slo" BY <1>3, SloSanitized DEF Sanitized
  <1>4. CASE k = "policy" BY <1>4, PolicySanitized DEF Sanitized
  <1> QED BY <1>1, <1>2, <1>3, <1>4, KeysAre

\* What is shown in a form may be sent as it is.
LEMMA FormIsBody ==
    ASSUME NEW k \in KeySet, NEW v, IsForm(k, v)
    PROVE  IsBody(k, v)
  <1>1. CASE k = "profile"
    <2>1. /\ "rps" \in DOMAIN v /\ v.rps \in Int /\ DOMAIN v.weights = {"list", "create"}
          /\ \A s \in {"list", "create"} : v.weights[s] \in Int
      BY <1>1, SettingsAssumption DEF IsForm
    <2>2. Field(v, "rps") = v.rps
      BY <2>1 DEF Field
    <2> QED BY <1>1, <2>1, <2>2 DEF IsBody
  <1>2. CASE k = "slo"
    <2>1. "leaked" \in DOMAIN v /\ v.leaked \in Int
      BY <1>2 DEF IsForm, Null
    <2>2. Field(v, "leaked") = v.leaked
      BY <2>1 DEF Field
    <2> QED BY <1>2, <2>1, <2>2 DEF IsBody
  <1> QED BY <1>1, <1>2 DEF IsBody

LEMMA DefaultsAreStored == \A k \in KeySet : IsStored(k, Default[k])
  <1>1. /\ Default["gw"] = [s \in Sides |-> "self"]
        /\ Default["profile"] = [rps |-> 1, weights |-> [list |-> 2, create |-> 1]]
        /\ Default["slo"] = [leaked |-> 0] /\ Default["policy"] = [required |-> {}]
    BY DEF Default
  <1>2. IsStored("gw", Default["gw"])
    BY <1>1 DEF IsStored, IsForm, NoUrl
  <1>3. IsStored("profile", Default["profile"])
    BY <1>1, SettingsAssumption DEF IsStored, IsForm
  <1>4. IsStored("slo", Default["slo"]) /\ IsStored("policy", Default["policy"])
    BY <1>1 DEF IsStored, IsForm
  <1> QED BY <1>2, <1>3, <1>4, KeysAre

\* Everything that is shown or sent is a setting, and the keys are the four.
StoredInv ==
    /\ opens \in Nat /\ DOMAIN server = KeySet /\ \A k \in KeySet : IsStored(k, server[k])
    /\ DOMAIN cache = KeySet /\ \A k \in KeySet : cache[k] = NotLoaded \/ IsStored(k, cache[k])
    /\ late # NoAnswer => late.key \in KeySet /\ IsStored(late.key, late.value)

\* What was typed since the form was filled is what it shows.
DrawerInv ==
    Open =>
      /\ drawer = [pc |-> "open", id |-> drawer.id, adopted |-> drawer.adopted, form |-> drawer.form]
      /\ drawer.id \in 1..opens /\ DOMAIN drawer.form = KeySet
      /\ \A k \in KeySet : IsForm(k, drawer.form[k])
      /\ DOMAIN typed \subseteq KeySet /\ \A k \in DOMAIN typed : typed[k] = drawer.form[k]

\* What an Apply sends is fit to be stored, and is what was typed, sanitized.
SavesInv ==
    /\ DOMAIN saves \subseteq 1..opens
    /\ \A id \in DOMAIN saves :
         /\ saves[id] = [sent |-> saves[id].sent, next |-> saves[id].next, typed |-> saves[id].typed]
         /\ saves[id].next \in 1..4
         /\ \A k \in KeySet : IsStored(k, saves[id].sent[k])
         /\ \A k \in KeySet : k \in DOMAIN saves[id].typed =>
               Sanitized(k, saves[id].typed[k], saves[id].sent[k]) = saves[id].sent[k]

\* What the Apply of the open drawer has put through is in force, or
\* somebody else has written it since.
PutInv ==
    \A id \in DOMAIN saves : Open /\ drawer.id = id =>
      \A j \in 1..4 : j < saves[id].next /\ Keys[j] \notin written =>
        server[Keys[j]] = saves[id].sent[Keys[j]]

SettingsInv == StoredInv /\ DrawerInv /\ SavesInv /\ PutInv

LEMMA StoredIsForm == \A k, v : IsStored(k, v) => IsForm(k, v)
  BY DEF IsStored

LEMMA SettingsInvInit == SettingsInit => SettingsInv
  <1> SUFFICES ASSUME SettingsInit PROVE SettingsInv
    OBVIOUS
  <1>1. DOMAIN Default = KeySet
    BY KeysAre DEF Default
  <1>2. StoredInv
    BY <1>1, DefaultsAreStored DEF SettingsInit, StoredInv
  <1>3. ~Open /\ DOMAIN saves = {}
    BY DEF SettingsInit, Open, Closed
  <1> QED BY <1>2, <1>3 DEF SettingsInv, DrawerInv, SavesInv, PutInv

\* A PUT leaves a setting fit to be stored.
LEMMA PutStores ==
    ASSUME StoredInv, NEW k \in KeySet, NEW raw, IsBody(k, raw), Stored(k, raw)
    PROVE  /\ DOMAIN server' = KeySet /\ \A l \in KeySet : IsStored(l, server'[l])
           /\ IsStored(k, raw) => server'[k] = raw
           /\ \A l \in KeySet \ {k} : server'[l] = server[l]
  <1>1. server' = [server EXCEPT ![k] = Sanitized(k, raw, server[k])]
    BY DEF Stored
  <1>2. IsStored(k, Sanitized(k, raw, server[k]))
        /\ (IsStored(k, raw) => Sanitized(k, raw, server[k]) = raw)
    BY SanitizedIs DEF StoredInv
  <1> QED BY <1>1, <1>2 DEF StoredInv

\* The form is filled with settings, and what was typed there is forgotten.
LEMMA AdoptedForm ==
    ASSUME NEW d, NEW c, DOMAIN c = KeySet, \A k \in KeySet : c[k] = NotLoaded \/ IsStored(k, c[k]),
           d = [pc |-> "open", id |-> d.id, adopted |-> d.adopted, form |-> d.form],
           DOMAIN d.form = KeySet, \A k \in KeySet : IsForm(k, d.form[k])
    PROVE  LET e == Adopted(d, c) IN
           /\ e = [pc |-> "open", id |-> d.id, adopted |-> e.adopted, form |-> e.form]
           /\ DOMAIN e.form = KeySet /\ \A k \in KeySet : IsForm(k, e.form[k])
           /\ \A k \in KeySet \ {"slo", "policy"} : e.form[k] = d.form[k]
           /\ d.adopted => e = d
  <1> DEFINE f == [d.form EXCEPT !["slo"] = c["slo"], !["policy"] = c["policy"]]
  <1>1. CASE ~d.adopted /\ c["slo"] # NotLoaded /\ c["policy"] # NotLoaded
    <2> DEFINE e == Adopted(d, c)
    <2>1. e = [pc |-> "open", id |-> d.id, adopted |-> e.adopted, form |-> f]
      <3>1. e = [d EXCEPT !.adopted = TRUE, !.form["slo"] = c["slo"], !.form["policy"] = c["policy"]]
        BY <1>1 DEF Adopted
      <3>2. DOMAIN d = {"pc", "id", "adopted", "form"} /\ d.pc = "open"
        OBVIOUS
      <3>3. e.pc = "open" /\ e.id = d.id
        BY <3>1, <3>2
      <3>4. e.form = f
        BY <3>1, <3>2
      <3>5. e = [x \in {"pc", "id", "adopted", "form"} |-> e[x]]
        BY <3>1, <3>2
      <3>6. e = [pc |-> e.pc, id |-> e.id, adopted |-> e.adopted, form |-> e.form]
        <4> HIDE DEF e
        <4> QED BY <3>5
      <3> HIDE DEF e, f
      <3> QED BY <3>3, <3>4, <3>6
    <2>2. /\ DOMAIN f = KeySet /\ f["slo"] = c["slo"] /\ f["policy"] = c["policy"]
          /\ \A k \in KeySet \ {"slo", "policy"} : f[k] = d.form[k]
      BY KeysAre
    <2>3. \A k \in KeySet : IsForm(k, f[k])
      BY <1>1, <2>2, StoredIsForm, KeysAre
    <2>4. Adopted(d, c) = e
      OBVIOUS
    <2> HIDE DEF e, f
    <2>5. e.form = f
      BY <2>1
    <2> QED BY <1>1, <2>1, <2>2, <2>3, <2>4, <2>5
  <1>2. CASE ~(~d.adopted /\ c["slo"] # NotLoaded /\ c["policy"] # NotLoaded)
    <2>1. Adopted(d, c) = d
      BY <1>2 DEF Adopted
    <2> QED BY <2>1
  <1> QED BY <1>1, <1>2

LEMMA LandsInv ==
    ASSUME SettingsInv, NEW k \in KeySet, NEW v, IsStored(k, v), Lands(k, v)
    PROVE  DrawerInv' /\ SavesInv' /\ PutInv' /\ DOMAIN cache' = KeySet
           /\ \A l \in KeySet : cache'[l] = NotLoaded \/ IsStored(l, cache'[l])
  <1> DEFINE c == [cache EXCEPT ![k] = v]
  <1>1. /\ cache' = c /\ drawer' = Refilled(c)
        /\ typed' = IF Open /\ ~drawer.adopted THEN KeptTyped(Refilled(c)) ELSE typed
        /\ UNCHANGED <<server, saves, written, opens>>
    BY DEF Lands, bound
  <1>2. DOMAIN c = KeySet /\ \A l \in KeySet : c[l] = NotLoaded \/ IsStored(l, c[l])
    BY DEF SettingsInv, StoredInv
  <1> HIDE DEF c
  <1>3. CASE ~Open
    <2>1. drawer' = drawer
      BY <1>1, <1>3 DEF Refilled
    <2> QED BY <1>1, <1>2, <1>3, <2>1 DEF SettingsInv, DrawerInv, SavesInv, PutInv, Open
  <1>4. CASE Open
    <2> DEFINE e == Adopted(drawer, c)
    <2>1. drawer' = e
      BY <1>1, <1>4 DEF Refilled
    <2>2. /\ e = [pc |-> "open", id |-> drawer.id, adopted |-> e.adopted, form |-> e.form]
          /\ DOMAIN e.form = KeySet /\ \A l \in KeySet : IsForm(l, e.form[l])
          /\ \A l \in KeySet \ {"slo", "policy"} : e.form[l] = drawer.form[l]
          /\ drawer.adopted => e = drawer
      BY <1>2, <1>4, AdoptedForm DEF SettingsInv, DrawerInv
    <2> HIDE DEF e
    <2>3. Open' /\ drawer'.id = drawer.id /\ drawer'.id \in 1..opens
      BY <1>4, <2>1, <2>2 DEF Open, SettingsInv, DrawerInv
    <2>4. DOMAIN typed' \subseteq KeySet /\ \A l \in DOMAIN typed' : typed'[l] = drawer'.form[l]
      <3>1. DOMAIN typed \subseteq KeySet /\ \A l \in DOMAIN typed : typed[l] = drawer.form[l]
        BY <1>4 DEF SettingsInv, DrawerInv
      <3>2. CASE e = drawer
        <4>1. typed' = typed
          BY <1>1, <1>4, <2>1, <3>2 DEF KeptTyped
        <4> QED BY <2>1, <3>1, <3>2, <4>1
      <3>3. CASE e # drawer
        <4>1. typed' = [l \in DOMAIN typed \ {"slo", "policy"} |-> typed[l]]
          BY <1>1, <1>4, <2>1, <2>2, <3>3 DEF KeptTyped
        <4> QED BY <2>1, <2>2, <3>1, <4>1
      <3> QED BY <3>2, <3>3
    <2>5. DrawerInv'
      BY <1>1, <2>1, <2>2, <2>3, <2>4 DEF DrawerInv
    <2>6. SavesInv' /\ PutInv'
      BY <1>1, <1>4, <2>3 DEF SettingsInv, SavesInv, PutInv
    <2> QED BY <1>1, <1>2, <2>5, <2>6
  <1> QED BY <1>3, <1>4
(* Every step of the specification keeps the invariant.                    *)
LEMMA SettingsInvNext == SettingsInv /\ [SettingsNext]_settingsVars => SettingsInv'
  <1> SUFFICES ASSUME SettingsInv, [SettingsNext]_settingsVars PROVE SettingsInv'
    OBVIOUS
  <1> USE DEF SettingsInv
  <1>1. ASSUME NEW k \in KeySet, Refresh(k) PROVE SettingsInv'
    <2>1. IsStored(k, server[k]) /\ Lands(k, server[k]) /\ UNCHANGED late
      BY <1>1 DEF Refresh, StoredInv
    <2>2. UNCHANGED <<server, opens>>
      BY <2>1 DEF Lands, bound
    <2> QED BY <2>1, <2>2, LandsInv DEF StoredInv
  <1>2. ASSUME LateLands PROVE SettingsInv'
    <2>1. late.key \in KeySet /\ IsStored(late.key, late.value) /\ Lands(late.key, late.value)
          /\ late' = NoAnswer
      BY <1>2 DEF LateLands, StoredInv
    <2>2. UNCHANGED <<server, opens>>
      BY <2>1 DEF Lands, bound
    <2> QED BY <2>1, <2>2, LandsInv DEF StoredInv
  <1>3. ASSUME NEW k \in KeySet, Delayed(k) PROVE SettingsInv'
    <2>1. late' = [key |-> k, value |-> server[k]]
          /\ UNCHANGED <<server, cache, drawer, saves, typed, written, opens>>
      BY <1>3 DEF Delayed, history, bound
    <2>2. late'.key = k /\ late'.value = server[k]
      BY <2>1
    <2> QED BY <2>1, <2>2 DEF StoredInv, DrawerInv, SavesInv, PutInv, Open
  <1>4. ASSUME NEW k \in KeySet, NEW v \in Edits[k], Edit(k, v) PROVE SettingsInv'
    <2>1. /\ Open /\ drawer' = [drawer EXCEPT !.form[k] = v] /\ typed' = With(typed, k, v)
          /\ UNCHANGED <<server, cache, late, saves, written, opens>>
      BY <1>4 DEF Edit, Event, getting
    <2>2. IsForm(k, v)
      BY SettingsAssumption
    <2>3. /\ drawer'.form = [drawer.form EXCEPT ![k] = v] /\ drawer'.pc = "open" /\ drawer'.id = drawer.id
          /\ drawer' = [pc |-> "open", id |-> drawer'.id, adopted |-> drawer'.adopted, form |-> drawer'.form]
      BY <2>1 DEF DrawerInv
    <2>4. DOMAIN typed' = DOMAIN typed \union {k}
          /\ \A l \in DOMAIN typed' : typed'[l] = IF l = k THEN v ELSE typed[l]
      BY <2>1 DEF With
    <2>5. DrawerInv'
      BY <2>1, <2>2, <2>3, <2>4 DEF DrawerInv
    <2> QED BY <2>1, <2>3, <2>5 DEF StoredInv, SavesInv, PutInv, Open
  <1>5. ASSUME NEW k \in KeySet, NEW raw \in Puts[k], PutByOthers(k, raw) PROVE SettingsInv'
    <2>1. /\ Stored(k, raw) /\ written' = written \union {k} /\ IsBody(k, raw)
          /\ UNCHANGED <<cache, late, drawer, saves, typed, opens>>
      BY <1>5, SettingsAssumption DEF PutByOthers, Event, getting
    <2>2. DOMAIN server' = KeySet /\ (\A l \in KeySet : IsStored(l, server'[l]))
          /\ \A l \in KeySet \ {k} : server'[l] = server[l]
      BY <2>1, PutStores
    <2>3. StoredInv' /\ DrawerInv' /\ SavesInv'
      BY <2>1, <2>2 DEF StoredInv, DrawerInv, SavesInv, Open
    <2>4. PutInv'
      BY <2>1, <2>2, KeysAre DEF PutInv, Open
    <2> QED BY <2>3, <2>4
  <1>6. CASE OpenDrawer
    <2> DEFINE d == [pc |-> "open", id |-> opens + 1, adopted |-> FALSE,
                     form |-> [Default EXCEPT !["gw"] = Shown("gw"), !["profile"] = Shown("profile")]]
               e == Adopted(d, cache)
    <2>1. /\ opens' = opens + 1 /\ drawer' = e /\ typed' = <<>> /\ written' = {}
          /\ UNCHANGED <<server, cache, late, saves>>
      BY <1>6 DEF OpenDrawer, getting
    <2>2. \A k \in KeySet : IsForm(k, Shown(k)) /\ IsForm(k, Default[k])
      BY DefaultsAreStored, StoredIsForm DEF Shown, StoredInv
    <2>3. DOMAIN d.form = KeySet /\ \A k \in KeySet : IsForm(k, d.form[k])
      <3>1. DOMAIN Default = KeySet
        BY KeysAre DEF Default
      <3>2. \A k \in KeySet : d.form[k] = Default[k] \/ d.form[k] = Shown(k)
        BY <3>1
      <3> HIDE DEF d
      <3>3. \A k \in KeySet : IsForm(k, d.form[k])
        BY <2>2, <3>2
      <3> USE DEF d
      <3>4. DOMAIN d.form = KeySet
        BY <3>1
      <3> HIDE DEF d
      <3> QED BY <3>3, <3>4
    <2>4. d = [pc |-> "open", id |-> d.id, adopted |-> d.adopted, form |-> d.form] /\ d.id = opens + 1
      OBVIOUS
    <2> HIDE DEF d
    <2>5. /\ e = [pc |-> "open", id |-> d.id, adopted |-> e.adopted, form |-> e.form]
          /\ DOMAIN e.form = KeySet /\ \A k \in KeySet : IsForm(k, e.form[k])
      BY <2>3, <2>4, AdoptedForm DEF StoredInv
    <2> HIDE DEF e
    <2>6. StoredInv'
      BY <2>1 DEF StoredInv
    <2>7. DrawerInv'
      BY <2>1, <2>4, <2>5 DEF DrawerInv, StoredInv
    <2>8. SavesInv' /\ PutInv'
      <3>1. drawer'.id \notin DOMAIN saves
        BY <2>1, <2>4, <2>5 DEF SavesInv, StoredInv
      <3> QED BY <2>1, <3>1 DEF SavesInv, PutInv, StoredInv
    <2> QED BY <2>6, <2>7, <2>8
  <1>7. CASE Cancel
    <2>1. ~Open' /\ late' \in {late, NoAnswer} /\ UNCHANGED <<server, cache, saves, typed, written, opens>>
      BY <1>7 DEF Cancel, Closes, Invalidated, Closed, Open, history, bound
    <2> QED BY <2>1 DEF StoredInv, DrawerInv, SavesInv, PutInv
  <1>8. CASE Apply
    <2>1. /\ Open /\ ~Saving(drawer.id) /\ saves' = With(saves, drawer.id, [sent |-> Sent, next |-> 1, typed |-> typed])
          /\ UNCHANGED <<server, cache, late, drawer, typed, written, opens>>
      BY <1>8 DEF Apply, history, bound, getting
    <2>2. \A k \in KeySet : IsStored(k, Sent[k])
                           /\ (k \in DOMAIN typed => Sanitized(k, typed[k], Sent[k]) = Sent[k])
      <3>1. \A k \in KeySet : IsForm(k, drawer.form[k]) /\ IsBody(k, drawer.form[k])
        BY <2>1, FormIsBody DEF DrawerInv
      <3>2. \A k \in DOMAIN typed : typed[k] = drawer.form[k]
        BY <2>1 DEF DrawerInv
      <3>3. \A k \in KeySet : IsStored(k, Shown(k))
        BY DefaultsAreStored DEF Shown, StoredInv
      <3>4. /\ Sent["gw"] = Sanitized("gw", drawer.form["gw"], Shown("gw"))
            /\ Sent["profile"] = Sanitized("profile", drawer.form["profile"], Shown("profile"))
            /\ Sent["slo"] = Sanitized("slo", drawer.form["slo"], drawer.form["slo"])
            /\ Sent["policy"] = Sanitized("policy", drawer.form["policy"], drawer.form["policy"])
        BY DEF Sent, Sanitized
      <3>5. IsStored("slo", drawer.form["slo"]) /\ IsStored("policy", drawer.form["policy"])
        BY <3>1, KeysAre DEF IsStored
      <3>6. \A k \in KeySet : \E base : IsStored(k, base) /\ Sent[k] = Sanitized(k, drawer.form[k], base)
        BY <3>3, <3>4, <3>5, KeysAre
      <3> QED BY <3>1, <3>2, <3>6, SanitizedIs
    <2>3. DOMAIN saves' = DOMAIN saves \union {drawer.id}
          /\ \A id \in DOMAIN saves' : saves'[id] = IF id = drawer.id THEN [sent |-> Sent, next |-> 1, typed |-> typed]
                                                                      ELSE saves[id]
      BY <2>1 DEF With
    <2>4. SavesInv'
      BY <2>1, <2>2, <2>3 DEF SavesInv, DrawerInv
    <2>5. PutInv'
      BY <2>1, <2>3 DEF PutInv, Open
    <2> QED BY <2>1, <2>4, <2>5 DEF StoredInv, DrawerInv, Open
  <1>9. ASSUME NEW id \in 1..MaxOpens, PutNext(id) PROVE SettingsInv'
    <2>1. PICK n \in 1..4 : n = saves[id].next
      BY <1>9 DEF PutNext, Saving, SavesInv
    <2> DEFINE k == Keys[n]
               sent == saves[id].sent[k]
    <2>2. k \in KeySet /\ id \in DOMAIN saves /\ IsStored(k, sent) /\ IsBody(k, sent) /\ Stored(k, sent)
      BY <1>9, <2>1, KeysAre, StoredIsForm, FormIsBody DEF PutNext, Saving, SavesInv
    <2>3. DOMAIN server' = KeySet /\ (\A l \in KeySet : IsStored(l, server'[l])) /\ server'[k] = sent
          /\ \A l \in KeySet \ {k} : server'[l] = server[l]
      BY <2>2, PutStores
    <2>4. written' = IF Open /\ drawer.id = id THEN written ELSE written \union {k}
      BY <1>9, <2>1 DEF PutNext, Notes
    <2>5. UNCHANGED <<cache, typed, opens>>
      BY <1>9 DEF PutNext, bound
    <2>6. CASE n < 4
      <3>1. saves' = [saves EXCEPT ![id].next = n + 1] /\ UNCHANGED <<drawer, late>>
        BY <1>9, <2>1, <2>6, KeysAre DEF PutNext, getting
      <3>2. /\ DOMAIN saves' = DOMAIN saves
            /\ saves'[id] = [sent |-> saves[id].sent, next |-> n + 1, typed |-> saves[id].typed]
            /\ \A i \in DOMAIN saves \ {id} : saves'[i] = saves[i]
        BY <2>2, <3>1 DEF SavesInv
      <3>3. SavesInv'
        BY <2>5, <2>6, <3>2 DEF SavesInv
      <3>4. PutInv'
        <4> SUFFICES ASSUME NEW i \in DOMAIN saves, Open, drawer.id = i, NEW j \in 1..4,
                            j < saves'[i].next, Keys[j] \notin written'
                     PROVE  server'[Keys[j]] = saves'[i].sent[Keys[j]]
          BY <3>1, <3>2 DEF PutInv, Open
        <4>1. CASE i = id
          <5>1. CASE j = n
            BY <2>3, <3>2, <4>1, <5>1
          <5>2. CASE j # n
            <6>1. j < n /\ Keys[j] # k /\ Keys[j] \in KeySet /\ Keys[j] \notin written
              BY <2>4, <3>2, <4>1, <5>2, KeysAre
            <6>2. server[Keys[j]] = saves[i].sent[Keys[j]]
              BY <2>1, <4>1, <6>1 DEF PutInv
            <6> QED BY <2>3, <3>2, <4>1, <6>1, <6>2
          <5> QED BY <5>1, <5>2
        <4>2. CASE i # id
          <5>1. Keys[j] # k /\ Keys[j] \notin written /\ Keys[j] \in KeySet /\ saves'[i] = saves[i]
            BY <2>4, <3>2, <4>2, KeysAre
          <5> QED BY <2>3, <5>1 DEF PutInv
        <4> QED BY <4>1, <4>2
      <3>5. StoredInv' /\ DrawerInv'
        BY <2>3, <2>5, <3>1 DEF StoredInv, DrawerInv, Open
      <3> QED BY <3>3, <3>4, <3>5
    <2>7. CASE n = 4
      <3>1. saves' = [i \in DOMAIN saves \ {id} |-> saves[i]] /\ ~Open' /\ late' \in {late, NoAnswer}
        BY <1>9, <2>1, <2>7, KeysAre DEF PutNext, Finished, Closes, Invalidated, Closed, Open
      <3> QED BY <2>3, <2>5, <3>1 DEF StoredInv, DrawerInv, SavesInv, PutInv
    <2> QED BY <2>6, <2>7
  <1>10. ASSUME NEW id \in 1..MaxOpens, PutFails(id) PROVE SettingsInv'
    <2>1. PICK n \in 1..4 : n = saves[id].next
      BY <1>10 DEF PutFails, Saving, SavesInv
    <2> DEFINE k == Keys[n]
               sent == saves[id].sent[k]
    <2>2. /\ k \in KeySet /\ id \in DOMAIN saves /\ IsStored(k, sent) /\ IsBody(k, sent)
          /\ Stored(k, sent) \/ UNCHANGED server
      BY <1>10, <2>1, KeysAre, StoredIsForm, FormIsBody DEF PutFails, Saving, SavesInv
    <2>3. DOMAIN server' = KeySet /\ (\A l \in KeySet : IsStored(l, server'[l]))
          /\ \A l \in KeySet \ {k} : server'[l] = server[l]
      BY <2>2, PutStores DEF StoredInv
    <2>4. /\ written' = IF Open /\ drawer.id = id THEN written ELSE written \union {k}
          /\ saves' = [i \in DOMAIN saves \ {id} |-> saves[i]]
          /\ UNCHANGED <<cache, late, drawer, typed, opens>>
      BY <1>10, <2>1 DEF PutFails, Notes, Finished, Event, getting
    <2>5. StoredInv' /\ DrawerInv' /\ SavesInv'
      BY <2>3, <2>4 DEF StoredInv, DrawerInv, SavesInv, Open
    <2>6. PutInv'
      BY <2>3, <2>4, KeysAre DEF PutInv, Open
    <2> QED BY <2>5, <2>6
  <1>11. CASE AskedInVain
    <2>1. late' \in {late, NoAnswer} /\ UNCHANGED <<server, cache, drawer, saves, typed, written, opens>>
      BY <1>11 DEF AskedInVain, Event, history
    <2> QED BY <2>1 DEF StoredInv, DrawerInv, SavesInv, PutInv, Open
  <1>12. CASE UNCHANGED settingsVars
    BY <1>12 DEF settingsVars, bound, getting, StoredInv, DrawerInv, SavesInv, PutInv, Open
  <1> QED BY <1>1, <1>2, <1>3, <1>4, <1>5, <1>6, <1>7, <1>8, <1>9, <1>10, <1>11, <1>12 DEF SettingsNext

(* Whatever the polls, the late answers, other tabs, a cancelled drawer    *)
(* and its save, and requests that fail do: the Apply that closes the open *)
(* drawer leaves in force what it sent, and what it sent is what was typed *)
(* (the loop of PUTs in handleSave, and sanitizers that change nothing     *)
(* when they are applied again).                                           *)
THEOREM AppliesGoThrough == SettingsSpec => AppliedIsInForce
  <1> DEFINE InForce(id) == \A k \in KeySet \ written :
                 /\ server'[k] = saves[id].sent[k]
                 /\ k \in DOMAIN saves[id].typed =>
                       Sanitized(k, saves[id].typed[k], server'[k]) = server'[k]
             Step == \A id \in 1..MaxOpens : Applied(id) => InForce(id)
  <1>1. SettingsInv /\ SettingsInv' /\ [SettingsNext]_settingsVars => [Step]_settingsVars
    <2> SUFFICES ASSUME SettingsInv, SettingsNext, NEW id \in 1..MaxOpens, Applied(id) PROVE InForce(id)
      OBVIOUS
    <2> HIDE DEF InForce
    <2>1. Open /\ drawer.id = id /\ id \in DOMAIN saves /\ id \notin DOMAIN saves' /\ ~Open'
      BY DEF Applied, Saving
    <2>2. ASSUME NEW i \in 1..MaxOpens, PutNext(i) PROVE InForce(id)
      <3>1. PICK n \in 1..4 : n = saves[i].next
        BY <2>2 DEF PutNext, Saving, SavesInv, SettingsInv
      <3>2. n = 4
        <4> SUFFICES ASSUME n < 4 PROVE FALSE
          BY <3>1
        <4>1. UNCHANGED drawer
          BY <2>2, <3>1, KeysAre DEF PutNext
        <4> QED BY <2>1, <4>1 DEF Open
      <3>3. saves' = [j \in DOMAIN saves \ {i} |-> saves[j]] /\ i = id
        BY <2>1, <2>2, <3>1, <3>2, KeysAre DEF PutNext, Finished
      <3> DEFINE sent == saves[id].sent[Keys[4]]
      <3>4. /\ IsStored(Keys[4], sent) /\ IsBody(Keys[4], sent) /\ Stored(Keys[4], sent)
            /\ written' = written
        BY <2>1, <2>2, <3>1, <3>2, <3>3, KeysAre, StoredIsForm, FormIsBody
           DEF PutNext, Notes, SavesInv, SettingsInv
      <3>5. server'[Keys[4]] = sent /\ \A l \in KeySet \ {Keys[4]} : server'[l] = server[l]
        BY <3>4, PutStores, KeysAre DEF SettingsInv
      <3>6. \A j \in 1..3 : Keys[j] \notin written => server[Keys[j]] = saves[id].sent[Keys[j]]
        <4>1. saves[id].next = 4
          BY <3>1, <3>2, <3>3
        <4>2. \A j \in 1..4 : j < saves[id].next /\ Keys[j] \notin written =>
                server[Keys[j]] = saves[id].sent[Keys[j]]
          BY <2>1 DEF PutInv, SettingsInv
        <4> QED BY <4>1, <4>2
      <3>7. \A k \in KeySet \ written : server'[k] = saves[id].sent[k]
        BY <3>5, <3>6, KeysAre
      <3>8. \A k \in KeySet : k \in DOMAIN saves[id].typed =>
              Sanitized(k, saves[id].typed[k], saves[id].sent[k]) = saves[id].sent[k]
        BY <2>1 DEF SavesInv, SettingsInv
      <3> QED BY <3>7, <3>8 DEF InForce
    <2>3. ASSUME NEW i \in 1..MaxOpens, PutFails(i) PROVE FALSE
      BY <2>1, <2>3 DEF PutFails, Open
    <2>4. ASSUME NEW k \in KeySet, Refresh(k) \/ Delayed(k) \/ (\E v \in Edits[k] : Edit(k, v))
                                  \/ (\E raw \in Puts[k] : PutByOthers(k, raw))
          PROVE  FALSE
      <3>1. saves' = saves
        BY <2>4 DEF Refresh, Delayed, Edit, PutByOthers, Lands
      <3> QED BY <2>1, <3>1
    <2>5. CASE LateLands \/ AskedInVain \/ OpenDrawer \/ Cancel
      <3>1. saves' = saves
        BY <2>5 DEF LateLands, AskedInVain, OpenDrawer, Cancel, Lands
      <3> QED BY <2>1, <3>1
    <2>6. CASE Apply
      BY <2>1, <2>6 DEF Apply, Open
    <2> QED BY <2>2, <2>3, <2>4, <2>5, <2>6 DEF SettingsNext
  <1> QED
    <2>1. AppliedIsInForce <=> [][Step]_settingsVars
      BY DEF AppliedIsInForce
    <2> HIDE DEF Step
    <2> QED BY <1>1, <2>1, SettingsInvInit, SettingsInvNext, PTL DEF SettingsSpec
=============================================================================
