------------------------------- MODULE RunApi -------------------------------
(***************************************************************************)
(* The run and profile routes of app.ts over the Driver and over the       *)
(* metrics store, which they reach through metrics/client.ts: every store  *)
(* call is posted to the metrics thread, which executes calls one at a     *)
(* time and in order, and a handler resumes when its reply is delivered:   *)
(* the result, or the error of a statement that threw.  A metrics thread   *)
(* that dies is left out.                                                  *)
(* The Driver appears as RunLifecycle, which RunControl implements.        *)
(***************************************************************************)
EXTENDS Integers, Sequences

CONSTANTS
  MaxRuns,      \* runs started in a behaviour
  MaxCfg,       \* distinct load profiles
  MaxPending,   \* 128 in metrics/client.ts
  MaxThrows,    \* store calls whose statement throws
  MaxRestarts   \* times the process is killed and started again

ASSUME RunApiAssumption ==
  /\ MaxRuns \in Nat /\ MaxCfg \in Nat \ {0} /\ MaxPending \in Nat \ {0}
  /\ MaxThrows \in Nat /\ MaxRestarts \in Nat

VARIABLES
  state, runId, lastRun,   \* the Driver
  profile,                 \* Driver.profile
  calls, replies,          \* the metrics client: calls posted, replies not yet delivered
  rows, saved,             \* SQLite: the runs table, the stored profile
  startPc, startCfg,       \* POST /api/run/start, twice at once if it were let
  putPc, putCfg,           \* PUT /api/config/profile
  \* history: runs whose start was refused or threw; runs whose stop was, and
  \* those that ended without one; starts that hold a profile read before the
  \* last PUT was applied, and whether such a start put it in force
  unwritten, unclosed, outdated, overlapped,
  throws, restarts         \* bounds

driver  == INSTANCE RunLifecycle
driverVars == <<state, runId, lastRun>>
storeVars  == <<rows, saved>>
handlers   == <<startPc, startCfg, putPc, putCfg>>
missing    == <<unwritten, unclosed>>
overlaps   == <<outdated, overlapped>>
vars == <<driverVars, profile, calls, replies, storeVars, handlers,
          missing, overlaps, throws, restarts>>

Runs     == 1..MaxRuns
Profiles == 1..MaxCfg

Call(op, arg, by) == [op |-> op, arg |-> arg, by |-> by]
Ops == {"readProfile", "readGateway", "writeProfile", "start", "stop", "reset", "prune"}
Starts   == {"start1", "start2"}
Handlers == Starts \cup {"put", "nobody"}

\* app.ts startingRun
StartingRun == \E s \in Starts : startPc[s] # "none"
CallType == [op : Ops, arg : 0..(MaxRuns + MaxCfg), by : Handlers]

Pending == Len(calls) + Len(replies)

(* The client rejects a call when 128 are pending.                           *)
Accepts == Pending < MaxPending

\* what remains to deliver once the first reply has been
ReplyTo(by)   == replies # <<>> /\ Head(replies).by = by
AnswerFor(by) == ReplyTo(by) /\ Head(replies).ok
ErrorFor(by)  == ReplyTo(by) /\ ~Head(replies).ok
AcceptsAfterReply == Pending - 1 < MaxPending

-----------------------------------------------------------------------------
Init ==
  /\ driver!Init
  /\ profile = 1 /\ saved = 1 /\ rows = [r \in Runs |-> "none"]
  /\ calls = <<>> /\ replies = <<>>
  /\ startPc = [s \in Starts |-> "none"] /\ startCfg = [s \in Starts |-> 1] /\ putPc = "none" /\ putCfg = 1
  /\ unwritten = {} /\ unclosed = {} /\ outdated = {} /\ overlapped = FALSE /\ throws = 0 /\ restarts = 0

(* POST /api/run/start until its first await: refused with 409 while        *)
(* another is under way, and ended by an error when the queue is full.      *)
(* Mutant: a second start is let in.                                        *)
StartArrivesAnyTime(s) ==
  /\ state # "running" /\ startPc[s] = "none" /\ lastRun < MaxRuns
  /\ Accepts
  /\ calls' = Append(calls, Call("readProfile", 0, s))
  /\ startPc' = [startPc EXCEPT ![s] = "profile"]
  /\ UNCHANGED <<driverVars, profile, replies, storeVars, startCfg, putPc, putCfg,
                 missing, overlaps, throws, restarts>>

StartArrives(s) ==
  /\ state # "running" /\ ~StartingRun /\ lastRun < MaxRuns
  /\ Accepts
  /\ calls' = Append(calls, Call("readProfile", 0, s))
  /\ startPc' = [startPc EXCEPT ![s] = "profile"]
  /\ UNCHANGED <<driverVars, profile, replies, storeVars, startCfg, putPc, putCfg,
                 missing, overlaps, throws, restarts>>

StartHasProfile(s) ==
  /\ startPc[s] = "profile" /\ AnswerFor(s)
  /\ replies' = Tail(replies) /\ startCfg' = [startCfg EXCEPT ![s] = Head(replies).val]
  /\ IF AcceptsAfterReply
     THEN /\ startPc' = [startPc EXCEPT ![s] = "gateway"]
          /\ calls' = Append(calls, Call("readGateway", 0, s))
     ELSE startPc' = [startPc EXCEPT ![s] = "none"] /\ UNCHANGED calls
  /\ UNCHANGED <<driverVars, profile, storeVars, putPc, putCfg, missing, overlaps, throws, restarts>>

(* The Driver is given the profile that the start has read.                 *)
TakesProfile(s) ==
  /\ profile' = startCfg[s]
  /\ overlapped' = (s \in outdated) /\ outdated' = outdated \ {s}

(* From the second await to the third in one turn: the Driver takes the     *)
(* profile and begins the run, and the row is posted under the id the       *)
(* handler made, also when driver.start answered with a run it was in.      *)
StartBegins(s) ==
  /\ startPc[s] = "gateway" /\ AnswerFor(s) /\ lastRun < MaxRuns
  /\ replies' = Tail(replies)
  /\ TakesProfile(s)
  /\ IF state = "running"
     THEN lastRun' = lastRun + 1 /\ UNCHANGED <<state, runId>>
     ELSE driver!Begin
  /\ IF AcceptsAfterReply
     THEN /\ calls' = Append(calls, Call("start", lastRun', s))
          /\ startPc' = [startPc EXCEPT ![s] = "record"] /\ UNCHANGED unwritten
     ELSE /\ startPc' = [startPc EXCEPT ![s] = "none"]
          /\ unwritten' = unwritten \cup {lastRun'} /\ UNCHANGED calls
  /\ UNCHANGED <<storeVars, startCfg, putPc, putCfg, unclosed, throws, restarts>>

(* driver.start refuses (no worker binary): 503, and nothing is recorded.   *)
StartRefused(s) ==
  /\ startPc[s] = "gateway" /\ AnswerFor(s)
  /\ replies' = Tail(replies) /\ TakesProfile(s)
  /\ startPc' = [startPc EXCEPT ![s] = "none"]
  /\ UNCHANGED <<driverVars, calls, storeVars, startCfg, putPc, putCfg, missing, throws, restarts>>

StartAnswers(s) ==
  /\ startPc[s] = "record" /\ AnswerFor(s)
  /\ replies' = Tail(replies) /\ startPc' = [startPc EXCEPT ![s] = "none"]
  /\ UNCHANGED <<driverVars, profile, calls, storeVars, startCfg, putPc, putCfg,
                 missing, overlaps, throws, restarts>>

(* An error ends the request (500); a run that has begun goes on.           *)
StartFails(s) ==
  /\ startPc[s] # "none" /\ ErrorFor(s)
  /\ replies' = Tail(replies) /\ startPc' = [startPc EXCEPT ![s] = "none"]
  /\ outdated' = outdated \ {s}
  /\ UNCHANGED <<driverVars, profile, calls, storeVars, startCfg, putPc, putCfg,
                 missing, overlapped, throws, restarts>>

(* The Driver is asked to stop, and the stop of the run it is in is posted. *)
AskStop ==
  /\ driver!AskStop
  /\ IF Accepts
     THEN calls' = Append(calls, Call("stop", runId, "nobody")) /\ UNCHANGED unclosed
     ELSE unclosed' = unclosed \cup {runId} /\ UNCHANGED calls
  /\ UNCHANGED <<profile, replies, storeVars, handlers, unwritten, overlaps, throws, restarts>>

(* POST /api/run/stop: 409 while a start is under way.                      *)
StopArrives == ~StartingRun /\ AskStop

(* The watchdog's onAutoStop.                                               *)
AutoStop == state = "running" /\ AskStop

(* The Driver's own ways back to idle: the ack or the backstop of a stop,   *)
(* or (RunControl) the ack of an earlier one, or the generator's failure.   *)
StopEnds ==
  /\ state = "stopping" /\ driver!End
  /\ UNCHANGED <<profile, calls, replies, storeVars, handlers,
                 missing, overlaps, throws, restarts>>

RunCutShort ==
  /\ state = "running" /\ driver!End
  /\ unclosed' = unclosed \cup {runId}
  /\ UNCHANGED <<profile, calls, replies, storeVars, handlers, unwritten, overlaps, throws, restarts>>

-----------------------------------------------------------------------------
(* PUT /api/config/profile: read, write, and only then the Driver.          *)
PutArrives(c) ==
  /\ putPc = "none" /\ Accepts
  /\ calls' = Append(calls, Call("readProfile", 0, "put")) /\ putPc' = "read" /\ putCfg' = c
  /\ UNCHANGED <<driverVars, profile, replies, storeVars, startPc, startCfg,
                 missing, overlaps, throws, restarts>>

PutWrites ==
  /\ putPc = "read" /\ AnswerFor("put")
  /\ replies' = Tail(replies)
  /\ IF AcceptsAfterReply
     THEN putPc' = "write" /\ calls' = Append(calls, Call("writeProfile", putCfg, "put"))
     ELSE putPc' = "none" /\ UNCHANGED calls
  /\ UNCHANGED <<driverVars, profile, storeVars, startPc, startCfg, putCfg,
                 missing, overlaps, throws, restarts>>

(* Mutant: the Driver is left to read the profile at its next start.        *)
PutAnswersOnly ==
  /\ putPc = "write" /\ AnswerFor("put")
  /\ replies' = Tail(replies) /\ putPc' = "none"
  /\ UNCHANGED <<driverVars, profile, calls, storeVars, startPc, startCfg, putCfg,
                 missing, overlaps, throws, restarts>>

PutApplies ==
  /\ putPc = "write" /\ AnswerFor("put")
  /\ replies' = Tail(replies) /\ putPc' = "none"
  /\ profile' = putCfg
  /\ outdated' = {s \in Starts : startPc[s] = "gateway"} /\ overlapped' = FALSE
  /\ UNCHANGED <<driverVars, calls, storeVars, startPc, startCfg, putCfg,
                 missing, throws, restarts>>

PutGivesUp ==
  /\ putPc # "none" /\ ErrorFor("put")
  /\ replies' = Tail(replies) /\ putPc' = "none"
  /\ UNCHANGED <<driverVars, profile, calls, storeVars, startPc, startCfg, putCfg,
                 missing, overlaps, throws, restarts>>

(* POST /api/metrics/reset and /api/runs/prune.                             *)
(* Mutant: reset does not ask whether a run is in progress.                 *)
ResetAnyTime ==
  /\ Accepts /\ calls' = Append(calls, Call("reset", 0, "nobody"))
  /\ UNCHANGED <<driverVars, profile, replies, storeVars, handlers,
                 missing, overlaps, throws, restarts>>

Reset ==
  /\ ~StartingRun /\ state = "idle"
  /\ Accepts /\ calls' = Append(calls, Call("reset", 0, "nobody"))
  /\ UNCHANGED <<driverVars, profile, replies, storeVars, handlers,
                 missing, overlaps, throws, restarts>>

Prune ==
  /\ Accepts /\ calls' = Append(calls, Call("prune", 0, "nobody"))
  /\ UNCHANGED <<driverVars, profile, replies, storeVars, handlers,
                 missing, overlaps, throws, restarts>>

-----------------------------------------------------------------------------
(* pruneRuns takes stopped runs only.                                       *)
Pruned == [r \in Runs |-> IF rows[r] = "stopped" THEN "none" ELSE rows[r]]

(* The metrics thread executes the oldest call and posts its reply.         *)
Replies(ok) == replies' = Append(replies, [by |-> Head(calls).by, val |-> saved, ok |-> ok])

StoreStep ==
  /\ calls # <<>> /\ calls' = Tail(calls)
  /\ LET c == Head(calls) IN
     /\ rows' = CASE c.op = "start" -> [rows EXCEPT ![c.arg] = "open"]
                  [] c.op = "stop"  ->
                       [rows EXCEPT ![c.arg] = IF @ = "open" THEN "stopped" ELSE @]
                  [] c.op = "reset" -> [r \in Runs |-> "none"]
                  [] c.op = "prune" -> Pruned
                  [] OTHER -> rows
     /\ saved' = IF c.op = "writeProfile" THEN c.arg ELSE saved
  /\ Replies(TRUE)
  /\ UNCHANGED <<driverVars, profile, handlers, missing, overlaps, throws, restarts>>

(* Its statement throws, and nothing is written; a reset may throw when it  *)
(* has been committed.                                                      *)
StoreThrows ==
  /\ calls # <<>> /\ throws < MaxThrows /\ throws' = throws + 1
  /\ calls' = Tail(calls)
  /\ LET c == Head(calls) IN
     /\ rows' \in {rows} \cup (IF c.op = "reset" THEN {[r \in Runs |-> "none"]} ELSE {})
     /\ unwritten' = IF c.op = "start" THEN unwritten \cup {c.arg} ELSE unwritten
     /\ unclosed'  = IF c.op = "stop"  THEN unclosed \cup {c.arg} ELSE unclosed
  /\ Replies(FALSE)
  /\ UNCHANGED <<driverVars, profile, saved, handlers, overlaps, restarts>>

(* A reply nobody waits for.                                                *)
ReplyDropped ==
  /\ ReplyTo("nobody") /\ replies' = Tail(replies)
  /\ UNCHANGED <<driverVars, profile, calls, storeVars, handlers,
                 missing, overlaps, throws, restarts>>

(* The process is killed and comes back: SQLite is what is left, and the    *)
(* Driver is given the stored profile.                                      *)
Restart ==
  /\ restarts < MaxRestarts /\ restarts' = restarts + 1
  /\ state' = "idle" /\ runId' = 0
  /\ calls' = <<>> /\ replies' = <<>>
  /\ startPc' = [s \in Starts |-> "none"] /\ putPc' = "none"
  /\ profile' = saved
  /\ unclosed' = unclosed \cup {r \in Runs : r <= lastRun /\ rows[r] # "stopped"}
  /\ outdated' = {} /\ overlapped' = FALSE
  /\ UNCHANGED <<lastRun, storeVars, startCfg, putCfg, unwritten, throws>>

Next ==
  \/ \E s \in Starts : \/ StartArrives(s) \/ StartHasProfile(s) \/ StartBegins(s)
                       \/ StartRefused(s) \/ StartAnswers(s) \/ StartFails(s)
  \/ StopArrives \/ AutoStop \/ StopEnds \/ RunCutShort
  \/ (\E c \in Profiles : PutArrives(c)) \/ PutWrites \/ PutApplies \/ PutGivesUp
  \/ Reset \/ Prune
  \/ StoreStep \/ StoreThrows \/ ReplyDropped \/ Restart

Spec == Init /\ [][Next]_vars

-----------------------------------------------------------------------------
(* Type invariant.                                                         *)
TypeOK ==
  /\ state \in {"idle", "running", "stopping"} /\ runId \in 0..MaxRuns /\ lastRun \in 0..MaxRuns
  /\ profile \in Profiles /\ saved \in Profiles /\ startCfg \in [Starts -> Profiles] /\ putCfg \in Profiles
  /\ calls \in Seq(CallType) /\ replies \in Seq([by : Handlers, val : Profiles, ok : BOOLEAN])
  /\ Pending <= MaxPending
  /\ rows \in [Runs -> {"none", "open", "stopped"}]
  /\ startPc \in [Starts -> {"none", "profile", "gateway", "record"}] /\ putPc \in {"none", "read", "write"}
  /\ unwritten \subseteq Runs /\ unclosed \subseteq Runs
  /\ outdated \subseteq Starts /\ overlapped \in BOOLEAN
  /\ throws \in 0..MaxThrows /\ restarts \in 0..MaxRestarts

(* A run in progress has an open row, once its start has been answered: no  *)
(* reset, prune or stop of an earlier run takes it away, in whatever order  *)
(* the calls were posted (run/start, metrics/reset, runs/prune against the  *)
(* FIFO of the metrics client).  The run of a start that the full queue     *)
(* refused, or whose statement threw, has none: run/start answers 500 and   *)
(* leaves it running.                                                       *)
RunningRunHasOpenRow ==
  state = "running" /\ ~StartingRun /\ runId \notin unwritten => rows[runId] = "open"

(* An open row is the Driver's current run, or a run whose stop is on its   *)
(* way, or one that has no stop on record, each for a reason the code has   *)
(* no answer to: the generator failed or an earlier ack ended it, the       *)
(* process was killed, or its stop was refused or threw (the run has        *)
(* stopped, its row is never closed).  So a run that was stopped, by hand   *)
(* or by its durationMinutes, and whose stop was executed is closed in the  *)
(* table, and no row stands for a run that never was.                       *)
OpenRowsAccountedFor ==
  \A r \in Runs : rows[r] = "open" =>
    \/ r = runId /\ state = "running"
    \/ \E i \in DOMAIN calls : calls[i].op = "stop" /\ calls[i].arg = r
    \/ r \in unclosed

(* The Driver's profile is the stored one, when no profile is being saved,  *)
(* also while starts read and take theirs and some of them fail; except     *)
(* that a start which had read before the last PUT puts the older profile   *)
(* in force again (overlapped), until the next start or PUT.                *)
SavedProfileInForce ==
  putPc = "none" /\ ~overlapped => profile = saved
=============================================================================
