----------------------------- MODULE FiringProofs -----------------------------
(***************************************************************************)
(* What holds of the Reaper, of the job pool and of the two accounts of    *)
(* what became of a request, for any number of requests and jobs, whatever *)
(* the target answers and whenever.                                        *)
(***************************************************************************)
EXTENDS Firing, FiniteSetTheorems, TLAPS

-----------------------------------------------------------------------------
(* The lists of a request's steps, to split Next by.                        *)
Step ==
  \/ Time \/ Scan \/ Selects \/ WakesUp \/ Ends \/ Pop \/ Expire \/ Stop
  \/ \E q \in Reqs :
       \/ \E j \in Jobs, class \in Classes : Begin(q, j, class)
       \/ Woken(q) \/ Leave(q) \/ Settle(q) \/ BodyCut(q) \/ BodyEnds(q) \/ Fold(q)
       \/ \E cause \in Causes : Fails(q, cause)
       \/ \E status \in Statuses : Answered(q, status)

LEMMA NextIsStep == Next => Step
  BY DEF Next, Step, Reaper, Own

-----------------------------------------------------------------------------
(* No deadline outlives its request.                                        *)
Places == {"none", "wake", "sent", "body", "leaving", "settle", "gone"}
Registered == heap \subseteq Reqs /\ pc \in [Reqs -> Places] /\ NoDeadlineOutlives

LEMMA RegisteredKept == Registered /\ [Step]_vars => Registered'
  <1> SUFFICES ASSUME Registered, Step \/ UNCHANGED vars PROVE Registered'
    OBVIOUS
  <1> USE DEF Registered, NoDeadlineOutlives, Places
  <1>1. CASE UNCHANGED vars  BY <1>1 DEF vars
  <1>2. CASE Time \/ Scan \/ Selects \/ WakesUp \/ Ends \/ Expire
    BY <1>2 DEF Time, Scan, Selects, WakesUp, Ends, Expire
  <1>3. CASE Pop   BY <1>3 DEF Pop
  <1>4. CASE Stop  BY <1>4 DEF Stop
  <1>5. ASSUME NEW q \in Reqs, NEW j \in Jobs, NEW class \in Classes, Begin(q, j, class)
        PROVE Registered'
    <2>1. heap' = heap \cup {q} /\ pc' = [pc EXCEPT ![q] = "wake"]
      BY <1>5 DEF Begin
    <2>2. heap' \subseteq Reqs  BY <2>1
    <2>3. pc' \in [Reqs -> Places]  BY <2>1
    <2>4. ASSUME NEW r \in heap' PROVE pc'[r] \in {"wake", "sent", "body", "leaving"}
      BY <2>1, <2>4
    <2> QED BY <2>2, <2>3, <2>4
  <1>6. ASSUME NEW q \in Reqs, Leave(q) PROVE Registered'
    BY <1>6 DEF Leave, Done
  <1>7. ASSUME NEW q \in Reqs, Woken(q) PROVE Registered'
    BY <1>7 DEF Woken
  <1>8. ASSUME NEW q \in Reqs, NEW cause \in Causes, Fails(q, cause) PROVE Registered'
    BY <1>8 DEF Fails
  <1>9. ASSUME NEW q \in Reqs, NEW status \in Statuses, Answered(q, status) PROVE Registered'
    BY <1>9 DEF Answered
  <1>10. ASSUME NEW q \in Reqs, BodyCut(q) \/ BodyEnds(q) PROVE Registered'
    BY <1>10 DEF BodyCut, BodyEnds
  <1>11. ASSUME NEW q \in Reqs, Settle(q) PROVE Registered'
    BY <1>11 DEF Settle
  <1>12. ASSUME NEW q \in Reqs, Fold(q) PROVE Registered'
    BY <1>12 DEF Fold
  <1> HIDE DEF Registered
  <1> QED
    BY <1>1, <1>2, <1>3, <1>4, <1>5, <1>6, <1>7, <1>8, <1>9, <1>10, <1>11, <1>12 DEF Step

(* The Reaper holds nothing for a request that is over.                     *)
THEOREM NoneOutlives == Spec => []NoDeadlineOutlives
  <1>1. ASSUME Init PROVE Registered
    <2>1. heap = {} /\ pc = [q \in Reqs |-> "none"]
      BY <1>1 DEF Init
    <2> QED BY <2>1 DEF Registered, NoDeadlineOutlives, Places
  <1>2. Registered => NoDeadlineOutlives
    BY DEF Registered
  <1>3. Registered /\ [Next]_vars => Registered'
    BY NextIsStep, RegisteredKept
  <1> QED BY <1>1, <1>2, <1>3, PTL DEF Spec

-----------------------------------------------------------------------------
(* No wake-up is lost.                                                      *)
LEMMA Budgets == SmallBudget \in Nat /\ LargeBudget \in Nat
  BY FiringAssumption DEF FiringAssumption

Alarm ==
  /\ now \in Nat /\ heap \subseteq Reqs /\ due \in [Reqs -> Int] /\ until \in Int
  /\ pc \in [Reqs -> Places]
  /\ NoLostWakeup

(* A step after which the Reaper sees no more than before, and after which  *)
(* no request that was about to wake it has changed its mind.               *)
LEMMA AlarmKept ==
  ASSUME Alarm, now' \in Nat, heap' \subseteq heap, due' \in [Reqs -> Int], pc' \in [Reqs -> Places],
         \A q \in heap' : due'[q] = due[q],
         \A q \in Reqs : pc[q] = "wake" => pc'[q] = "wake",
         UNCHANGED <<wake, until>>,
         reaperPc' \in {"looked", "select"} => reaperPc \in {"looked", "select"}
  PROVE  Alarm'
  <1>1. ASSUME NEW q \in heap', Oversleeps(q)' PROVE Oversleeps(q)
    BY <1>1 DEF Oversleeps
  <1>2. NoLostWakeup'
    BY <1>1 DEF Alarm, NoLostWakeup
  <1> QED BY <1>2 DEF Alarm

LEMMA AlarmStep == Alarm /\ [Next]_vars => Alarm'
  <1> SUFFICES ASSUME Alarm, Step \/ UNCHANGED vars PROVE Alarm'
    BY NextIsStep
  <1>0. /\ now \in Nat /\ heap \subseteq Reqs /\ due \in [Reqs -> Int] /\ pc \in [Reqs -> Places]
        /\ until \in Int
    BY DEF Alarm
  <1>1. CASE UNCHANGED vars
    BY <1>0, <1>1, AlarmKept DEF vars, reaperVars
  <1>2. CASE Time
    BY <1>0, <1>2, AlarmKept DEF Time, reaperVars
  <1>3. CASE Scan
    <2>1. UNCHANGED <<now, heap, due, pc, wake>>
      BY <1>3 DEF Scan
    <2>2. \/ heap = {} /\ until' = until
          \/ reaperPc' = "expire" /\ until' = until
          \/ \E q \in heap : First(q) /\ due[q] > now /\ until' = due[q]
      BY <1>0, <1>3 DEF Scan
    <2>3. ASSUME NEW r \in heap', Oversleeps(r)' PROVE FALSE
      BY <1>0, <2>1, <2>2, <2>3 DEF First, Oversleeps
    <2>4. until' \in Int
      BY <1>0, <2>2
    <2> QED BY <1>0, <2>1, <2>3, <2>4 DEF Alarm, NoLostWakeup
  <1>4. CASE Selects
    BY <1>0, <1>4, AlarmKept DEF Selects
  <1>5. CASE WakesUp \/ Ends
    <2>1. /\ UNCHANGED <<now, heap, due, pc>> /\ until' = 0
          /\ reaperPc' \in {"scan", "over"}
      BY <1>0, <1>5 DEF WakesUp, Ends
    <2> QED BY <1>0, <2>1 DEF Alarm, NoLostWakeup, Oversleeps
  <1>6. CASE Pop \/ Expire
    <2>1. /\ UNCHANGED <<now, due, pc, wake, until>> /\ heap' \subseteq heap
          /\ reaperPc' \in {"cancel", "scan", "expire"}
      BY <1>6 DEF Pop, Expire
    <2> QED BY <1>0, <2>1, AlarmKept
  <1>7. CASE Stop
    BY <1>0, <1>7, AlarmKept DEF Stop, reaperVars
  <1>8. ASSUME NEW q \in Reqs, NEW j \in Jobs, NEW class \in Classes, Begin(q, j, class)
        PROVE  Alarm'
    <2>1. BudgetFor(class) \in Int
      BY Budgets DEF BudgetFor
    <2>2. /\ UNCHANGED <<now, wake, until>> /\ heap' = heap \cup {q}
          /\ due' = [due EXCEPT ![q] = now + BudgetFor(class)]
          /\ pc' = [pc EXCEPT ![q] = "wake"]
      BY <1>8 DEF Begin, reaperVars
    <2>3. pc' \in [Reqs -> Places] /\ pc'[q] = "wake"
      BY <1>0, <2>2 DEF Places
    <2>4. due' \in [Reqs -> Int]
      BY <1>0, <2>1, <2>2
    <2>5. NoLostWakeup'
      BY <2>3 DEF NoLostWakeup
    <2> QED BY <1>0, <2>2, <2>3, <2>4, <2>5 DEF Alarm
  <1>9. ASSUME NEW q \in Reqs, Woken(q) PROVE Alarm'
    <2>1. /\ UNCHANGED <<now, heap, due, until>> /\ wake' = TRUE
          /\ pc' = [pc EXCEPT ![q] = "sent"]
      BY <1>9 DEF Woken, Wakes, reaperVars
    <2>2. pc' \in [Reqs -> Places]
      BY <1>0, <2>1 DEF Places
    <2> QED BY <1>0, <2>1, <2>2 DEF Alarm, NoLostWakeup
  <1>10. ASSUME NEW q \in Reqs, Leave(q) PROVE Alarm'
    <2>1. /\ UNCHANGED <<now, wake, until, reaperPc>> /\ heap' = heap \ {q}
          /\ due' = [due EXCEPT ![q] = 0]
          /\ pc[q] = "leaving" /\ pc' = [pc EXCEPT ![q] = "settle"]
      BY <1>10 DEF Leave, Done, reaperVars
    <2>2. pc' \in [Reqs -> Places]
      BY <1>0, <2>1 DEF Places
    <2>3. due' \in [Reqs -> Int] /\ \A r \in heap' : due'[r] = due[r]
      BY <1>0, <2>1
    <2> QED BY <1>0, <2>1, <2>2, <2>3, AlarmKept
  <1>11. ASSUME NEW q \in Reqs, NEW p \in Places, p # "wake",
                pc[q] # "wake", pc' = [pc EXCEPT ![q] = p] \/ pc' = pc,
                UNCHANGED <<now, heap, due, wake, until, reaperPc>>
         PROVE  Alarm'
    <2>1. pc' \in [Reqs -> Places]
      BY <1>0, <1>11
    <2> QED BY <1>0, <1>11, <2>1, AlarmKept
  <1>12. ASSUME NEW q \in Reqs, NEW cause \in Causes, Fails(q, cause) PROVE Alarm'
    BY <1>11, <1>12 DEF Fails, reaperVars, Places
  <1>13. ASSUME NEW q \in Reqs, NEW status \in Statuses, Answered(q, status) PROVE Alarm'
    BY <1>11, <1>13 DEF Answered, reaperVars, Places
  <1>14. ASSUME NEW q \in Reqs, BodyCut(q) \/ BodyEnds(q) PROVE Alarm'
    BY <1>11, <1>14 DEF BodyCut, BodyEnds, reaperVars, Places
  <1>15. ASSUME NEW q \in Reqs, Settle(q) PROVE Alarm'
    BY <1>11, <1>15 DEF Settle, reaperVars, Places
  <1>16. ASSUME NEW q \in Reqs, Fold(q) PROVE Alarm'
    BY <1>0, <1>16, AlarmKept DEF Fold, reaperVars
  <1> QED
    BY <1>1, <1>2, <1>3, <1>4, <1>5, <1>6, <1>7, <1>8, <1>9, <1>10, <1>12, <1>13, <1>14,
       <1>15, <1>16 DEF Step

(* The one slot of the wake channel is enough: a Reaper that will sleep     *)
(* past a deadline has a wake-up waiting for it or about to be sent.        *)
THEOREM WakeupsArrive == Spec => []NoLostWakeup
  <1>1. ASSUME Init PROVE Alarm
    <2>1. /\ now = 0 /\ heap = {} /\ due = [q \in Reqs |-> 0] /\ until = 0
          /\ pc = [q \in Reqs |-> "none"]
      BY <1>1 DEF Init
    <2> QED BY <2>1 DEF Alarm, NoLostWakeup, Places
  <1>2. Alarm => NoLostWakeup
    BY DEF Alarm
  <1> QED BY <1>1, <1>2, AlarmStep, PTL DEF Spec

-----------------------------------------------------------------------------
(* No cancellation hits a request in flight before its time.  The Reaper    *)
(* takes out what is due by the moment it looked; a request it has taken    *)
(* out may end before it is cancelled, but none begins under its name.      *)
Due(q)   == due[q] <= now
Flown(q) == pc[q] \in {"wake", "sent", "body"}

Timely ==
  /\ Registered
  /\ now \in Int /\ cutoff \in Int /\ due \in [Reqs -> Int] /\ cancelled \subseteq Reqs
  /\ reaperPc \in {"expire", "cancel"} => cutoff <= now
  /\ reaperPc = "cancel" => popped \in Reqs /\ pc[popped] # "none" /\ (Flown(popped) => Due(popped))
  /\ \A q \in cancelled : pc[q] # "none" /\ (Flown(q) => Due(q) \/ stopped)

(* A step of a request that is past its beginning, which nothing is         *)
(* registered or cancelled by.                                              *)
LEMMA TimelyMoved ==
  ASSUME Timely, Registered', NEW q \in Reqs, NEW p \in Places,
         pc' = [pc EXCEPT ![q] = p] \/ pc' = pc,
         pc[q] # "none", p # "none", p \in {"wake", "sent", "body"} => Flown(q),
         UNCHANGED <<now, due, cancelled, stopped, reaperPc, cutoff, popped>>
  PROVE  Timely'
  <1>1. pc \in [Reqs -> Places]
    BY DEF Timely, Registered
  <1>2. ASSUME NEW r \in Reqs, pc[r] # "none"
        PROVE  pc'[r] # "none" /\ (Flown(r)' => Flown(r)) /\ (Due(r)' <=> Due(r))
    BY <1>1, <1>2 DEF Flown, Due
  <1> QED BY <1>2 DEF Timely

LEMMA TimelyStep == Timely /\ [Next]_vars => Timely'
  <1> SUFFICES ASSUME Timely, Step \/ UNCHANGED vars PROVE Timely'
    BY NextIsStep
  <1>a. Registered'
    <2>1. Registered /\ [Step]_vars
      BY DEF Timely
    <2> QED BY <2>1, RegisteredKept
  <1>b. /\ now \in Int /\ cutoff \in Int /\ due \in [Reqs -> Int] /\ cancelled \subseteq Reqs
        /\ heap \subseteq Reqs /\ pc \in [Reqs -> Places]
        /\ \A q \in heap : pc[q] \in {"wake", "sent", "body", "leaving"}
    BY DEF Timely, Registered, NoDeadlineOutlives
  <1>1. CASE UNCHANGED vars
    BY <1>a, <1>b, <1>1 DEF vars, reaperVars, Timely, Flown, Due
  <1>2. CASE Time
    <2>1. now' = now + 1
          /\ UNCHANGED <<pc, due, cancelled, stopped, reaperPc, cutoff, popped>>
      BY <1>2 DEF Time, reaperVars
    <2>2. now' \in Int /\ (cutoff <= now => cutoff' <= now')
          /\ \A q \in Reqs : Due(q) => Due(q)'
      BY <1>b, <2>1 DEF Due
    <2> QED BY <1>a, <1>b, <2>1, <2>2 DEF Timely, Flown
  <1>3. CASE Scan
    <2>1. /\ UNCHANGED <<now, pc, due, cancelled, stopped, popped>>
          /\ \/ reaperPc' = "looked" /\ cutoff' = cutoff
             \/ reaperPc' = "expire" /\ cutoff' = now
      BY <1>3 DEF Scan
    <2> QED BY <1>a, <1>b, <2>1 DEF Timely, Flown, Due
  <1>4. CASE Selects \/ WakesUp \/ Ends
    <2>1. /\ UNCHANGED <<now, pc, due, cancelled, stopped, cutoff, popped>>
          /\ reaperPc' \in {"select", "scan", "over"}
      BY <1>4 DEF Selects, WakesUp, Ends
    <2> QED BY <1>a, <1>b, <2>1 DEF Timely, Flown, Due
  <1>5. CASE Pop
    <2>1. UNCHANGED <<now, pc, due, cancelled, stopped>> /\ reaperPc = "expire"
      BY <1>5 DEF Pop
    <2>2. \/ reaperPc' = "scan" /\ cutoff' = 0
          \/ /\ reaperPc' = "cancel" /\ cutoff' = cutoff
             /\ popped' \in heap /\ due[popped'] <= cutoff
      BY <1>5 DEF Pop
    <2>3. cutoff <= now
      BY <2>1 DEF Timely
    <2>4. CASE reaperPc' = "scan" /\ cutoff' = 0
      BY <1>a, <1>b, <2>1, <2>4 DEF Timely, Flown, Due
    <2>5. CASE /\ reaperPc' = "cancel" /\ cutoff' = cutoff
               /\ popped' \in heap /\ due[popped'] <= cutoff
      <3>1. popped' \in Reqs /\ pc'[popped'] # "none" /\ due'[popped'] <= now'
        BY <1>b, <2>1, <2>3, <2>5
      <3> QED BY <1>a, <1>b, <2>1, <2>3, <2>5, <3>1 DEF Timely, Flown, Due
    <2> QED BY <2>2, <2>4, <2>5
  <1>6. CASE Expire
    <2>1. /\ UNCHANGED <<now, pc, due, stopped, cutoff>>
          /\ reaperPc = "cancel" /\ reaperPc' = "expire"
          /\ cancelled' = cancelled \cup {popped}
      BY <1>6 DEF Expire, Cancels
    <2> QED BY <1>a, <1>b, <2>1 DEF Timely, Flown, Due
  <1>7. CASE Stop
    <2>1. /\ UNCHANGED <<now, pc, due, reaperPc, cutoff, popped>>
          /\ stopped' = TRUE /\ cancelled' = cancelled \cup heap
      BY <1>7 DEF Stop, reaperVars
    <2>2. \A q \in cancelled' : pc'[q] # "none"
      BY <1>b, <2>1 DEF Timely
    <2> QED BY <1>a, <1>b, <2>1, <2>2 DEF Timely, Flown, Due
  <1>8. ASSUME NEW q \in Reqs, NEW j \in Jobs, NEW class \in Classes, Begin(q, j, class)
        PROVE  Timely'
    <2>1. BudgetFor(class) \in Int
      BY Budgets DEF BudgetFor
    <2>2. /\ UNCHANGED <<now, cancelled, stopped, reaperPc, cutoff, popped>> /\ pc[q] = "none"
          /\ due' = [due EXCEPT ![q] = now + BudgetFor(class)]
          /\ pc' = [pc EXCEPT ![q] = "wake"]
      BY <1>8 DEF Begin, reaperVars
    <2>3. due' \in [Reqs -> Int]
      BY <1>b, <2>1, <2>2
    <2>4. \A r \in Reqs : pc[r] # "none" => pc'[r] = pc[r] /\ due'[r] = due[r]
      BY <1>b, <2>2
    <2> QED BY <1>a, <1>b, <2>2, <2>3, <2>4 DEF Timely, Flown, Due
  <1>9. ASSUME NEW q \in Reqs, Leave(q) PROVE Timely'
    <2>1. /\ UNCHANGED <<now, stopped, reaperPc, cutoff, popped>>
          /\ due' = [due EXCEPT ![q] = 0] /\ cancelled' = cancelled \cup {q}
          /\ pc' = [pc EXCEPT ![q] = "settle"]
      BY <1>9 DEF Leave, reaperVars
    <2>2. due' \in [Reqs -> Int]
      BY <1>b, <2>1
    <2>3. /\ pc'[q] = "settle"
          /\ \A r \in Reqs \ {q} : pc'[r] = pc[r] /\ due'[r] = due[r]
      BY <1>b, <2>1
    <2> QED BY <1>a, <1>b, <2>1, <2>2, <2>3 DEF Timely, Flown, Due
  <1>10. ASSUME NEW q \in Reqs, Woken(q) PROVE Timely'
    BY <1>a, <1>10, TimelyMoved DEF Woken, reaperVars, Places, Flown
  <1>11. ASSUME NEW q \in Reqs, NEW cause \in Causes, Fails(q, cause) PROVE Timely'
    BY <1>a, <1>11, TimelyMoved DEF Fails, reaperVars, Places, Flown
  <1>12. ASSUME NEW q \in Reqs, NEW status \in Statuses, Answered(q, status) PROVE Timely'
    BY <1>a, <1>12, TimelyMoved DEF Answered, reaperVars, Places, Flown
  <1>13. ASSUME NEW q \in Reqs, BodyCut(q) \/ BodyEnds(q) PROVE Timely'
    BY <1>a, <1>13, TimelyMoved DEF BodyCut, BodyEnds, reaperVars, Places, Flown
  <1>14. ASSUME NEW q \in Reqs, Settle(q) PROVE Timely'
    BY <1>a, <1>14, TimelyMoved DEF Settle, reaperVars, Places, Flown
  <1>15. ASSUME NEW q \in Reqs, Fold(q) PROVE Timely'
    BY <1>a, <1>b, <1>15 DEF Fold, reaperVars, Timely, Flown, Due
  <1> HIDE DEF Timely
  <1> QED
    BY <1>1, <1>2, <1>3, <1>4, <1>5, <1>6, <1>7, <1>8, <1>9, <1>10, <1>11, <1>12, <1>13,
       <1>14, <1>15 DEF Step

(* A request in flight is cancelled when its own deadline has passed, or by *)
(* Stop, and by nothing else.                                               *)
THEOREM NoneCutEarly == Spec => []OnlyExpiredAreCut
  <1>1. ASSUME Init PROVE Timely
    <2>1. /\ now = 0 /\ heap = {} /\ due = [q \in Reqs |-> 0] /\ cutoff = 0
          /\ pc = [q \in Reqs |-> "none"] /\ cancelled = {} /\ reaperPc = "scan"
      BY <1>1 DEF Init
    <2> QED BY <2>1 DEF Timely, Registered, NoDeadlineOutlives, Places
  <1>2. Timely => OnlyExpiredAreCut
    BY DEF Timely, OnlyExpiredAreCut, InFlight, Flown, Due
  <1> QED BY <1>1, <1>2, TimelyStep, PTL DEF Spec

-----------------------------------------------------------------------------
(* The job of a request is its own from the pool until it goes back there,  *)
(* and a job in the pool remembers nothing.                                 *)
Fresh(q) == pc[q] \in {"wake", "sent"}
Owns(q)  == pc[q] \in {"wake", "sent", "body", "leaving", "settle"} \/ q \in queued

Lent ==
  /\ pc \in [Reqs -> Places] /\ jobOf \in [Reqs -> Jobs \cup {NoJob}]
  /\ pool \subseteq Jobs /\ res \in [Jobs -> Results] /\ outcome \in [Reqs -> Results]
  /\ queued \subseteq Reqs /\ \A q \in queued : pc[q] = "gone"

Ownership ==
  /\ Lent
  /\ \A j \in pool : res[j] = Zero
  /\ \A q \in Reqs : Owns(q) =>
       /\ jobOf[q] \in Jobs \ pool
       /\ \A r \in Reqs \ {q} : Owns(r) => jobOf[r] # jobOf[q]
       /\ res[jobOf[q]] = IF Fresh(q) THEN Zero ELSE outcome[q]

LEMMA ResultTypes ==
  /\ Zero \in Results
  /\ \A status \in Statuses : [Zero EXCEPT !.status = status] \in Results
  /\ \A cause \in Causes :
       /\ Message(cause) \in Messages \ {"none"}
       /\ NeverLeftTheGenerator(cause) \in BOOLEAN
       /\ [Zero EXCEPT !.error = Message(cause), !.genFault = NeverLeftTheGenerator(cause)]
            \in Results
  <1>1. Zero \in Results /\ \A status \in Statuses : [Zero EXCEPT !.status = status] \in Results
    BY DEF Zero, Results, Messages
  <1>2. ASSUME NEW cause \in Causes
        PROVE  Message(cause) \in Messages \ {"none"} /\ NeverLeftTheGenerator(cause) \in BOOLEAN
    <2>1. Message(cause) \in Messages \ {"none"}
      BY DEF Messages, Message
    <2>2. NeverLeftTheGenerator(cause) \in BOOLEAN
      BY SMT DEF NeverLeftTheGenerator
    <2> QED BY <2>1, <2>2
  <1>3. \A m \in Messages, b \in BOOLEAN : [Zero EXCEPT !.error = m, !.genFault = b] \in Results
    BY DEF Zero, Results
  <1> QED BY <1>1, <1>2, <1>3

(* What fills a job of its owner's, and its history, with the same.         *)
LEMMA Filled ==
  ASSUME Ownership, NEW q \in Reqs, pc[q] = "sent", NEW p \in {"body", "leaving"},
         NEW x \in Results,
         pc' = [pc EXCEPT ![q] = p], res' = [res EXCEPT ![jobOf[q]] = x],
         outcome' = [outcome EXCEPT ![q] = x], UNCHANGED <<jobOf, pool, queued>>
  PROVE  Ownership'
  <1>1. jobOf[q] \in Jobs \ pool /\ q \notin queued
    BY DEF Ownership, Lent, Owns
  <1>2. Lent'
    BY <1>1 DEF Ownership, Lent, Places
  <1>3. \A r \in Reqs : Owns(r)' <=> Owns(r)
    BY DEF Ownership, Lent, Owns
  <1>4. ASSUME NEW r \in Reqs, Owns(r)'
        PROVE  res'[jobOf'[r]] = IF Fresh(r)' THEN Zero ELSE outcome'[r]
    <2>1. CASE r = q
      BY <1>1, <2>1 DEF Ownership, Lent, Fresh
    <2>2. CASE r # q
      <3>1. jobOf[r] # jobOf[q] /\ jobOf[r] \in Jobs
        BY <1>3, <1>4, <2>2 DEF Ownership, Owns
      <3> QED BY <1>3, <1>4, <2>2, <3>1 DEF Ownership, Lent, Fresh
    <2> QED BY <2>1, <2>2
  <1> QED BY <1>1, <1>2, <1>3, <1>4 DEF Ownership

(* The owner gives the job back.                                            *)
LEMMA PutBack ==
  ASSUME Ownership, NEW q \in Reqs, Owns(q), pc' = [pc EXCEPT ![q] = "gone"], q \notin queued',
         queued' = queued \ {q}, PutJob(jobOf[q]), Forgotten(q), UNCHANGED jobOf
  PROVE  Ownership'
  <1>1. jobOf[q] \in Jobs \ pool
    BY DEF Ownership
  <1>2. /\ pool' = pool \cup {jobOf[q]} /\ res' = [res EXCEPT ![jobOf[q]] = Zero]
        /\ outcome' = [outcome EXCEPT ![q] = Zero]
    BY DEF PutJob, Cleared, Forgotten
  <1>3. Lent'
    BY <1>1, <1>2, ResultTypes DEF Ownership, Lent, Places
  <1>4. \A r \in Reqs : Owns(r)' => r # q /\ Owns(r)
    BY DEF Ownership, Lent, Owns
  <1>5. \A j \in pool' : res'[j] = Zero
    BY <1>1, <1>2 DEF Ownership, Lent
  <1>6. ASSUME NEW r \in Reqs, Owns(r)'
        PROVE  /\ jobOf'[r] \in Jobs \ pool'
               /\ res'[jobOf'[r]] = IF Fresh(r)' THEN Zero ELSE outcome'[r]
    <2>1. r # q /\ Owns(r) /\ jobOf[r] # jobOf[q] /\ jobOf[r] \in Jobs \ pool
      BY <1>4, <1>6 DEF Ownership
    <2> QED BY <1>2, <2>1 DEF Ownership, Lent, Fresh
  <1> QED BY <1>3, <1>4, <1>5, <1>6 DEF Ownership

LEMMA OwnershipStep == Ownership /\ [Next]_vars => Ownership'
  <1> SUFFICES ASSUME Ownership, Step \/ UNCHANGED vars PROVE Ownership'
    BY NextIsStep
  <1>1. ASSUME UNCHANGED <<pc, jobOf, pool, res, outcome, queued>> PROVE Ownership'
    BY <1>1 DEF Ownership, Lent, Owns, Fresh
  <1>2. CASE UNCHANGED vars \/ Time \/ Stop
    BY <1>1, <1>2 DEF vars, Time, Stop, jobVars, bookVars
  <1>3. CASE Scan \/ Selects \/ WakesUp \/ Ends \/ Pop \/ Expire
    BY <1>1, <1>3 DEF Scan, Selects, WakesUp, Ends, Pop, Expire, jobVars, bookVars
  <1>4. ASSUME NEW q \in Reqs, NEW p \in Places, pc' = [pc EXCEPT ![q] = p],
               \/ pc[q] = "wake" /\ p = "sent"
               \/ pc[q] = "body" /\ p = "leaving"
               \/ pc[q] = "leaving" /\ p = "settle",
               UNCHANGED <<jobOf, pool, res, outcome, queued>>
        PROVE  Ownership'
    <2>1. Lent'
      BY <1>4 DEF Ownership, Lent
    <2>2. \A r \in Reqs : (Owns(r)' <=> Owns(r)) /\ (Owns(r) => (Fresh(r)' <=> Fresh(r)))
      BY <1>4 DEF Ownership, Lent, Owns, Fresh
    <2> QED BY <1>4, <2>1, <2>2 DEF Ownership
  <1>5. ASSUME NEW q \in Reqs, Woken(q) \/ BodyCut(q) \/ BodyEnds(q) \/ Leave(q) PROVE Ownership'
    BY <1>4, <1>5 DEF Woken, BodyCut, BodyEnds, Leave, jobVars, bookVars, Places
  <1>6. ASSUME NEW q \in Reqs, NEW j \in Jobs, NEW class \in Classes, Begin(q, j, class)
        PROVE  Ownership'
    <2>1. /\ pc[q] = "none" /\ j \in pool /\ pool' = pool \ {j} /\ jobOf' = [jobOf EXCEPT ![q] = j]
          /\ pc' = [pc EXCEPT ![q] = "wake"] /\ UNCHANGED <<res, outcome, queued>>
      BY <1>6 DEF Begin, bookVars
    <2>2. Lent' /\ ~Owns(q)
      BY <2>1 DEF Ownership, Lent, Owns, Places
    <2>3. \A r \in Reqs \ {q} : (Owns(r)' <=> Owns(r)) /\ (Fresh(r)' <=> Fresh(r)) /\ jobOf'[r] = jobOf[r]
      BY <2>1 DEF Ownership, Lent, Owns, Fresh
    <2>4. \A r \in Reqs \ {q} : Owns(r) => jobOf[r] # j
      BY <2>1 DEF Ownership
    <2>5. jobOf'[q] = j /\ Fresh(q)' /\ j \in Jobs \ pool' /\ res'[j] = Zero
      BY <2>1 DEF Ownership, Lent, Fresh
    <2> QED BY <2>1, <2>2, <2>3, <2>4, <2>5 DEF Ownership
  <1>7. ASSUME NEW q \in Reqs, NEW status \in Statuses, Answered(q, status) PROVE Ownership'
    <2>1. res[jobOf[q]] = Zero /\ jobOf[q] \in Jobs
      BY <1>7 DEF Answered, Ownership, Owns, Fresh
    <2>2. res' = [res EXCEPT ![jobOf[q]] = [Zero EXCEPT !.status = status]]
      BY <1>7, <2>1 DEF Answered
    <2> QED BY <1>7, <2>2, Filled, ResultTypes DEF Answered, bookVars
  <1>8. ASSUME NEW q \in Reqs, NEW cause \in Causes, Fails(q, cause) PROVE Ownership'
    <2>1. res[jobOf[q]] = Zero /\ jobOf[q] \in Jobs /\ res \in [Jobs -> Results]
      BY <1>8 DEF Fails, Ownership, Owns, Fresh, Lent
    <2>2. res' = [res EXCEPT ![jobOf[q]] = [Zero EXCEPT !.error = Message(cause),
                                              !.genFault = NeverLeftTheGenerator(cause)]]
      BY <1>8, <2>1 DEF Fails
    <2> QED BY <1>8, <2>2, Filled, ResultTypes DEF Fails, bookVars
  <1>9. ASSUME NEW q \in Reqs, Settle(q) PROVE Ownership'
    <2>1. pc[q] = "settle" /\ Owns(q) /\ q \notin queued /\ UNCHANGED jobOf
          /\ pc' = [pc EXCEPT ![q] = "gone"]
      BY <1>9 DEF Settle, Owns, Ownership, Lent
    <2>2. CASE queued' = queued \cup {q} /\ UNCHANGED <<jobVars, lost, outcome>>
      <3>1. Lent'
        BY <2>1, <2>2 DEF Ownership, Lent, jobVars, Places
      <3>2. \A r \in Reqs : (Owns(r)' <=> Owns(r)) /\ (Owns(r) => (Fresh(r)' <=> Fresh(r)))
        BY <2>1, <2>2 DEF Ownership, Lent, Owns, Fresh
      <3> QED BY <2>1, <2>2, <3>1, <3>2 DEF Ownership, jobVars
    <2>3. CASE PutJob(jobOf[q]) /\ Forgotten(q) /\ UNCHANGED queued
      BY <2>1, <2>3, PutBack
    <2> QED BY <1>9, <2>2, <2>3 DEF Settle, HandedOver
  <1>10. ASSUME NEW q \in Reqs, Fold(q) PROVE Ownership'
    <2>1. Owns(q) /\ pc[q] = "gone" /\ pc \in [Reqs -> Places]
      BY <1>10 DEF Fold, Owns, Ownership, Lent
    <2>2. pc' = [pc EXCEPT ![q] = "gone"]
      BY <1>10, <2>1 DEF Fold
    <2> QED BY <1>10, <2>1, <2>2, PutBack DEF Fold
  <1> QED
    BY <1>2, <1>3, <1>5, <1>6, <1>7, <1>8, <1>9, <1>10 DEF Step

LEMMA OwnershipInit == Init => Ownership
  BY ResultTypes DEF Init, Ownership, Lent, Owns, Places

(* No job tells of another request: from the end of Fire until the flusher  *)
(* has read it, a job holds what befell the request it was taken for.       *)
THEOREM NoResultIsBorrowed == Spec => []ResultsAreTheirOwn
  <1>1. Ownership => ResultsAreTheirOwn
    BY DEF Ownership, Lent, ResultsAreTheirOwn, Reading, Owns, Fresh
  <1> QED BY <1>1, OwnershipInit, OwnershipStep, PTL DEF Spec

-----------------------------------------------------------------------------
(* The type invariant, in the parts that change together, with the job a    *)
(* request has to give back and the one the Reaper has to cancel.           *)
CounterTypes == [sent : Nat, ok : Nat, r4xx : Nat, errors : Nat, gwFaults : Nat, timeouts : Nat]
CellTypes == [count : Nat, ok : Nat, rejected : Nat, errors : Nat, gateway : Nat, genFaults : Nat]

RequestTypes ==
  /\ now \in 0..MaxTime /\ due \in [Reqs -> 0..MaxTime]
  /\ cancelled \subseteq Reqs /\ heap \subseteq Reqs /\ late \subseteq Reqs
  /\ wake \in BOOLEAN /\ stopped \in BOOLEAN
ReaperTypes ==
  /\ reaperPc \in {"scan", "looked", "select", "expire", "cancel", "over"}
  /\ until \in 0..MaxTime /\ cutoff \in 0..MaxTime /\ popped \in Reqs \cup {NoReq}
  /\ reaperPc = "cancel" => popped \in Reqs
BookTypes ==
  /\ ctx \in [Jobs -> Reqs \cup {NoReq}] /\ lost \subseteq Reqs
  /\ Cardinality(queued) <= ResultChanCap
  /\ counters \in CounterTypes /\ cells \in CellTypes
TypeInv == Ownership /\ RequestTypes /\ ReaperTypes /\ BookTypes

LEMMA Bounds == MaxTime \in Nat /\ ResultChanCap \in Nat /\ ResultChanCap > 0
  <1>1. MaxTime \in Nat
    BY FiringAssumption DEF FiringAssumption
  <1>2. ResultChanCap \in Nat \ {0}
    BY FiringAssumption, Zenon DEF FiringAssumption
  <1> QED BY <1>1, <1>2

LEMMA QueuedIsFinite == ASSUME NEW S \in SUBSET Reqs PROVE IsFiniteSet(S) /\ Cardinality(S) \in Nat
  <1>1. IsFiniteSet(Reqs)
    BY FiringAssumption DEF FiringAssumption
  <1>2. IsFiniteSet(S)
    BY <1>1, FS_Subset
  <1> QED BY <1>2, FS_CardinalityType

LEMMA OneIsNat == ASSUME NEW b PROVE One(b) \in Nat
  BY DEF One

LEMMA CounterAndCellTypes ==
  ASSUME NEW r PROVE  /\ \A c \in CounterTypes : Tallied(c, r) \in CounterTypes
                      /\ \A c \in CellTypes : Added(c, r) \in CellTypes
  <1>1. ASSUME NEW c \in CounterTypes PROVE Tallied(c, r) \in CounterTypes
    BY OneIsNat DEF CounterTypes, Tallied
  <1>2. ASSUME NEW c \in CellTypes PROVE Added(c, r) \in CellTypes
    BY OneIsNat DEF CellTypes, Added
  <1> QED BY <1>1, <1>2

LEMMA TypeInvInit == Init => TypeInv
  <1> SUFFICES ASSUME Init PROVE TypeInv
    OBVIOUS
  <1> USE Bounds
  <1>1. wake \in BOOLEAN /\ stopped \in BOOLEAN
    BY Zenon DEF Init
  <1>2. RequestTypes
    BY <1>1 DEF Init, RequestTypes
  <1>3. ReaperTypes
    BY DEF Init, ReaperTypes
  <1>4. BookTypes
    BY FS_EmptySet DEF Init, BookTypes, CounterTypes, CellTypes
  <1> QED BY <1>2, <1>3, <1>4, OwnershipInit DEF TypeInv

LEMMA RequestTypesStep == RequestTypes /\ ReaperTypes /\ Step => RequestTypes'
  <1> SUFFICES ASSUME RequestTypes, ReaperTypes, Step PROVE RequestTypes'
    OBVIOUS
  <1> USE Bounds DEF RequestTypes
  <1>1. ASSUME UNCHANGED <<now, due, cancelled, heap, late, wake, stopped>> PROVE RequestTypes'
    BY <1>1
  <1>2. CASE Time
    BY <1>2 DEF Time
  <1>3. CASE Scan \/ Selects \/ Ends
    BY <1>1, <1>3 DEF Scan, Selects, Ends
  <1>4. CASE WakesUp
    <2>1. wake' \in BOOLEAN
      BY <1>4, Zenon DEF WakesUp
    <2> QED BY <1>4, <2>1 DEF WakesUp
  <1>5. CASE Pop
    BY <1>5 DEF Pop
  <1>6. CASE Expire
    BY <1>6 DEF Expire, Cancels, ReaperTypes
  <1>7. CASE Stop
    <2>1. stopped' \in BOOLEAN
      BY <1>7, Zenon DEF Stop
    <2> QED BY <1>7, <2>1 DEF Stop
  <1>8. ASSUME NEW q \in Reqs, NEW j \in Jobs, NEW class \in Classes, Begin(q, j, class)
        PROVE  RequestTypes'
    <2>1. now + BudgetFor(class) \in 0..MaxTime
      BY <1>8, Budgets DEF Begin, BudgetFor
    <2>2. late' \subseteq Reqs
      BY <1>8 DEF Begin
    <2> QED BY <1>8, <2>1, <2>2 DEF Begin
  <1>9. ASSUME NEW q \in Reqs, Woken(q) PROVE RequestTypes'
    <2>1. wake' \in BOOLEAN
      BY <1>9, Zenon DEF Woken, Wakes
    <2> QED BY <1>9, <2>1 DEF Woken
  <1>10. ASSUME NEW q \in Reqs, NEW status \in Statuses, Answered(q, status) PROVE RequestTypes'
    BY <1>1, <1>10 DEF Answered
  <1>11. ASSUME NEW q \in Reqs, NEW cause \in Causes, Fails(q, cause) PROVE RequestTypes'
    BY <1>1, <1>11 DEF Fails
  <1>12. ASSUME NEW q \in Reqs, BodyCut(q) \/ BodyEnds(q) \/ Settle(q) \/ Fold(q) PROVE RequestTypes'
    BY <1>1, <1>12 DEF BodyCut, BodyEnds, Settle, Fold
  <1>13. ASSUME NEW q \in Reqs, Leave(q) PROVE RequestTypes'
    BY <1>13 DEF Leave, Done
  <1> QED
    BY <1>2, <1>3, <1>4, <1>5, <1>6, <1>7, <1>8, <1>9, <1>10, <1>11, <1>12, <1>13 DEF Step

LEMMA ReaperTypesStep == RequestTypes /\ ReaperTypes /\ Step => ReaperTypes'
  <1> SUFFICES ASSUME RequestTypes, ReaperTypes, Step PROVE ReaperTypes'
    OBVIOUS
  <1> USE DEF ReaperTypes
  <1>1. ASSUME UNCHANGED reaperVars PROVE ReaperTypes'
    BY <1>1 DEF reaperVars
  <1>2. CASE Scan
    BY <1>2 DEF Scan, RequestTypes
  <1>3. CASE Selects \/ WakesUp \/ Ends
    BY <1>3, Bounds DEF Selects, WakesUp, Ends
  <1>4. CASE Pop \/ Expire
    BY <1>4, Bounds DEF Pop, Expire, RequestTypes
  <1>5. CASE Time \/ Stop
    BY <1>1, <1>5 DEF Time, Stop
  <1>6. ASSUME NEW q \in Reqs,
               \/ \E j \in Jobs, class \in Classes : Begin(q, j, class)
               \/ \E cause \in Causes : Fails(q, cause)
               \/ \E status \in Statuses : Answered(q, status)
        PROVE  ReaperTypes'
    BY <1>1, <1>6 DEF Begin, Fails, Answered
  <1>7. ASSUME NEW q \in Reqs,
               Woken(q) \/ Leave(q) \/ Settle(q) \/ BodyCut(q) \/ BodyEnds(q) \/ Fold(q)
        PROVE  ReaperTypes'
    BY <1>1, <1>7 DEF Woken, Leave, Settle, BodyCut, BodyEnds, Fold
  <1> QED BY <1>2, <1>3, <1>4, <1>5, <1>6, <1>7 DEF Step

(* A job that is put back refers to no request any more.                    *)
LEMMA ClearedType ==
  ASSUME NEW j, ctx \in [Jobs -> Reqs \cup {NoReq}], PutJob(j)
  PROVE  ctx' \in [Jobs -> Reqs \cup {NoReq}]
  BY DEF PutJob, Cleared

LEMMA BookTypesStep == Ownership /\ BookTypes /\ Step => BookTypes'
  <1> SUFFICES ASSUME Ownership, BookTypes, Step PROVE BookTypes'
    OBVIOUS
  <1> USE DEF BookTypes
  <1>1. ASSUME UNCHANGED <<ctx, lost, queued, counters, cells>> PROVE BookTypes'
    BY <1>1
  <1>2. CASE Time \/ Stop \/ Scan \/ Selects \/ WakesUp \/ Ends \/ Pop \/ Expire
    BY <1>1, <1>2 DEF Time, Stop, Scan, Selects, WakesUp, Ends, Pop, Expire, jobVars, bookVars
  <1>3. ASSUME NEW q \in Reqs, NEW j \in Jobs, NEW class \in Classes, Begin(q, j, class)
        PROVE  BookTypes'
    BY <1>3 DEF Begin, bookVars
  <1>4. ASSUME NEW q \in Reqs,
               \/ Woken(q) \/ Leave(q) \/ BodyCut(q) \/ BodyEnds(q)
               \/ \E cause \in Causes : Fails(q, cause)
               \/ \E status \in Statuses : Answered(q, status)
        PROVE  BookTypes'
    BY <1>1, <1>4 DEF Woken, Leave, BodyCut, BodyEnds, Fails, Answered, jobVars, bookVars
  <1>5. queued \subseteq Reqs
    BY DEF Ownership, Lent
  <1>6. ASSUME NEW q \in Reqs, Settle(q) PROVE BookTypes'
    <2>1. counters' = Tallied(counters, res[jobOf[q]]) /\ cells' = cells /\ q \notin queued
      BY <1>6 DEF Settle, Ownership, Lent
    <2>2. counters' \in CounterTypes
      BY <2>1, CounterAndCellTypes
    <2>3. CASE Cardinality(queued) < ResultChanCap
      <3>1. queued' = queued \cup {q} /\ UNCHANGED <<ctx, lost>>
        BY <1>6, <2>3 DEF Settle, HandedOver, jobVars
      <3>2. Cardinality(queued') = Cardinality(queued) + 1
        BY <1>5, <2>1, <3>1, QueuedIsFinite, FS_AddElement
      <3>3. Cardinality(queued') <= ResultChanCap
        BY <1>5, <2>3, <3>2, QueuedIsFinite, Bounds
      <3> QED BY <2>1, <2>2, <3>1, <3>3
    <2>4. CASE ~(Cardinality(queued) < ResultChanCap)
      <3>1. PutJob(jobOf[q]) /\ lost' = lost \cup {q} /\ queued' = queued
        BY <1>6, <2>4 DEF Settle, HandedOver
      <3> QED BY <2>1, <2>2, <3>1, ClearedType
    <2> QED BY <2>3, <2>4
  <1>7. ASSUME NEW q \in Reqs, Fold(q) PROVE BookTypes'
    <2>1. /\ q \in queued /\ queued' = queued \ {q} /\ UNCHANGED <<counters, lost>>
          /\ cells' = Added(cells, res[jobOf[q]]) /\ PutJob(jobOf[q])
      BY <1>7 DEF Fold
    <2>2. cells' \in CellTypes
      BY <2>1, CounterAndCellTypes
    <2>3. Cardinality(queued') = Cardinality(queued) - 1
      BY <1>5, <2>1, QueuedIsFinite, FS_RemoveElement
    <2>4. Cardinality(queued') <= ResultChanCap
      BY <1>5, <2>3, QueuedIsFinite, Bounds
    <2> QED BY <2>1, <2>2, <2>4, ClearedType
  <1> QED BY <1>2, <1>3, <1>4, <1>6, <1>7 DEF Step

LEMMA TypeInvStep == TypeInv /\ [Next]_vars => TypeInv'
  <1>1. TypeInv /\ Step => RequestTypes' /\ ReaperTypes' /\ BookTypes'
    BY RequestTypesStep, ReaperTypesStep, BookTypesStep DEF TypeInv
  <1>2. TypeInv /\ UNCHANGED vars => RequestTypes' /\ ReaperTypes' /\ BookTypes'
    BY DEF TypeInv, RequestTypes, ReaperTypes, BookTypes, vars, reaperVars, jobVars, bookVars
  <1> QED BY <1>1, <1>2, NextIsStep, OwnershipStep DEF TypeInv

(* Every variable stays in its type, and the results channel within its     *)
(* capacity (execute sends only what there is room for).                    *)
THEOREM TypeCorrect == Spec => []TypeOK
  <1>1. TypeInv => TypeOK
    BY DEF TypeInv, Ownership, Lent, Places, RequestTypes, ReaperTypes, BookTypes, CounterTypes,
           CellTypes, TypeOK
  <1> QED BY <1>1, TypeInvInit, TypeInvStep, PTL DEF Spec

-----------------------------------------------------------------------------
(* The books of the status line and of the store.  A result is an answer,   *)
(* with its status, or an error, without one: on those the two              *)
(* classifications agree, and what is queued makes up their difference.     *)
Sound(r) ==
  \/ r.status \in Statuses /\ r.error = "none" /\ ~r.genFault
  \/ r.status = 0 /\ r.error # "none"

Rejected(r)     == r.error = "none" /\ r.status \in 400..499
Failed(r)       == r.error # "none" \/ r.status >= 500
GatewayFault(r) == r.error # "none" \/ r.status \in {0, 502, 503, 504}

QueuedRejected == {q \in queued : Rejected(outcome[q])}
QueuedFailed   == {q \in queued : Failed(outcome[q])}
QueuedGateway  == {q \in queued : GatewayFault(outcome[q])}

BooksDiffer ==
  lost = {} =>
    /\ counters.sent = cells.count + Cardinality(queued)
    /\ counters.r4xx = cells.rejected + Cardinality(QueuedRejected)
    /\ counters.errors = cells.errors + cells.genFaults + Cardinality(QueuedFailed)
    /\ counters.gwFaults = cells.gateway + Cardinality(QueuedGateway)

Books ==
  /\ \A q \in Reqs : pc[q] \in {"body", "leaving", "settle"} \/ q \in queued => Sound(outcome[q])
  /\ BooksDiffer

(* The store's classes are the status line's on every sound result.         *)
LEMMA ClassesAgree ==
  ASSUME NEW r \in Results, Sound(r), NEW c \in CounterTypes, NEW d \in CellTypes
  PROVE  /\ Tallied(c, r).sent = c.sent + 1 /\ Added(d, r).count = d.count + 1
         /\ Tallied(c, r).r4xx = c.r4xx + One(Rejected(r))
         /\ Added(d, r).rejected = d.rejected + One(Rejected(r))
         /\ Tallied(c, r).errors = c.errors + One(Failed(r))
         /\ Added(d, r).errors + Added(d, r).genFaults = d.errors + d.genFaults + One(Failed(r))
         /\ Tallied(c, r).gwFaults = c.gwFaults + One(GatewayFault(r))
         /\ Added(d, r).gateway = d.gateway + One(GatewayFault(r))
  <1>1. /\ d.errors \in Nat /\ d.genFaults \in Nat
    BY DEF CellTypes
  <1>2. r.error = "none" => r.status \in 100..599
    <2>1. Statuses \subseteq 100..599
      BY FiringAssumption DEF FiringAssumption
    <2> QED BY <2>1 DEF Sound
  <1>3. One(r.status \in 400..499) = One(Rejected(r))
    BY DEF One, Rejected, Sound
  <1>4. One(~r.genFault /\ (r.status = 0 \/ r.status >= 500)) + One(r.genFault) = One(Failed(r))
    BY <1>2 DEF One, Failed, Sound
  <1>5. One(r.status \in {0, 502, 503, 504}) = One(GatewayFault(r))
    BY DEF One, GatewayFault, Sound
  <1>6. /\ Tallied(c, r).sent = c.sent + 1 /\ Tallied(c, r).r4xx = c.r4xx + One(Rejected(r))
        /\ Tallied(c, r).errors = c.errors + One(Failed(r))
        /\ Tallied(c, r).gwFaults = c.gwFaults + One(GatewayFault(r))
    BY DEF Tallied, Rejected, Failed, GatewayFault
  <1>7. /\ Added(d, r).count = d.count + 1
        /\ Added(d, r).rejected = d.rejected + One(r.status \in 400..499)
        /\ Added(d, r).errors = d.errors + One(~r.genFault /\ (r.status = 0 \/ r.status >= 500))
        /\ Added(d, r).gateway = d.gateway + One(r.status \in {0, 502, 503, 504})
        /\ Added(d, r).genFaults = d.genFaults + One(r.genFault)
    BY DEF Added
  <1>8. One(~r.genFault /\ (r.status = 0 \/ r.status >= 500)) \in Nat /\ One(r.genFault) \in Nat
    BY OneIsNat
  <1> QED BY <1>1, <1>3, <1>4, <1>5, <1>6, <1>7, <1>8

(* A set of results, by one more or by one less.                            *)
LEMMA OneMoreOneLess ==
  ASSUME NEW S \in SUBSET Reqs, NEW q, NEW b
  PROVE  /\ q \notin S => Cardinality(IF b THEN S \cup {q} ELSE S) = Cardinality(S) + One(b)
         /\ (q \in S <=> b) => Cardinality(S \ {q}) = Cardinality(S) - One(b)
  <1>1. IsFiniteSet(S) /\ Cardinality(S) \in Nat
    BY QueuedIsFinite
  <1>2. /\ Cardinality(S \cup {q}) = IF q \in S THEN Cardinality(S) ELSE Cardinality(S) + 1
        /\ Cardinality(S \ {q}) = IF q \in S THEN Cardinality(S) - 1 ELSE Cardinality(S)
    BY <1>1, FS_AddElement, FS_RemoveElement
  <1> QED BY <1>1, <1>2 DEF One

(* A step that neither tallies nor folds leaves the books as they are.      *)
LEMMA BooksKept ==
  ASSUME Books, Ownership, UNCHANGED <<queued, counters, cells, lost>>,
         \A q \in queued : outcome'[q] = outcome[q],
         \A q \in Reqs : pc'[q] \in {"body", "leaving", "settle"} => Sound(outcome'[q])
  PROVE  Books'
  <1>1. /\ QueuedRejected' = QueuedRejected /\ QueuedFailed' = QueuedFailed
        /\ QueuedGateway' = QueuedGateway
    BY DEF QueuedRejected, QueuedFailed, QueuedGateway
  <1>2. BooksDiffer'
    BY <1>1 DEF Books, BooksDiffer
  <1> QED BY <1>2 DEF Books, Ownership, Lent

LEMMA BooksStep == TypeInv /\ Books /\ [Next]_vars => Books'
  <1> SUFFICES ASSUME TypeInv, Books, Step \/ UNCHANGED vars PROVE Books'
    BY NextIsStep
  <1>0. /\ Ownership /\ pc \in [Reqs -> Places] /\ queued \subseteq Reqs
        /\ outcome \in [Reqs -> Results] /\ \A q \in queued : pc[q] = "gone"
        /\ counters \in CounterTypes /\ cells \in CellTypes
    BY DEF TypeInv, Ownership, Lent, BookTypes
  <1>1. ASSUME UNCHANGED <<pc, outcome, queued, counters, cells, lost>> PROVE Books'
    BY <1>0, <1>1, BooksKept DEF Books
  <1>2. CASE UNCHANGED vars \/ Time \/ Stop
    BY <1>1, <1>2 DEF vars, Time, Stop, bookVars
  <1>3. CASE Scan \/ Selects \/ WakesUp \/ Ends \/ Pop \/ Expire
    BY <1>1, <1>3 DEF Scan, Selects, WakesUp, Ends, Pop, Expire, bookVars
  <1>4. ASSUME NEW q \in Reqs, NEW j \in Jobs, NEW class \in Classes, Begin(q, j, class) PROVE Books'
    <2>1. pc' = [pc EXCEPT ![q] = "wake"] /\ UNCHANGED <<outcome, queued, counters, cells, lost>>
      BY <1>4 DEF Begin, bookVars
    <2> QED BY <1>0, <2>1, BooksKept DEF Books
  <1>5. ASSUME NEW q \in Reqs, Woken(q) PROVE Books'
    <2>1. pc' = [pc EXCEPT ![q] = "sent"] /\ UNCHANGED <<outcome, queued, counters, cells, lost>>
      BY <1>5 DEF Woken, bookVars
    <2> QED BY <1>0, <2>1, BooksKept DEF Books
  <1>6. ASSUME NEW q \in Reqs, BodyCut(q) \/ BodyEnds(q) \/ Leave(q) PROVE Books'
    <2>1. /\ pc[q] \in {"body", "leaving"} /\ \A r \in Reqs \ {q} : pc'[r] = pc[r]
          /\ UNCHANGED <<outcome, queued, counters, cells, lost>>
      BY <1>0, <1>6 DEF BodyCut, BodyEnds, Leave, bookVars
    <2> QED BY <1>0, <2>1, BooksKept DEF Books
  <1>7. ASSUME NEW q \in Reqs, NEW p \in Places, NEW x \in Results, Sound(x), pc[q] = "sent",
               pc' = [pc EXCEPT ![q] = p], outcome' = [outcome EXCEPT ![q] = x],
               UNCHANGED <<queued, counters, cells, lost>>
        PROVE  Books'
    BY <1>0, <1>7, BooksKept DEF Books
  <1>8. ASSUME NEW q \in Reqs, NEW status \in Statuses, Answered(q, status) PROVE Books'
    <2>1. Sound([Zero EXCEPT !.status = status])
      BY DEF Zero, Sound
    <2> QED BY <1>7, <1>8, <2>1, ResultTypes DEF Answered, bookVars, Places
  <1>9. ASSUME NEW q \in Reqs, NEW cause \in Causes, Fails(q, cause) PROVE Books'
    <2>1. Sound([Zero EXCEPT !.error = Message(cause), !.genFault = NeverLeftTheGenerator(cause)])
      BY DEF Zero, Sound, Message
    <2> QED BY <1>7, <1>9, <2>1, ResultTypes DEF Fails, bookVars, Places
  \* what the two books say of the same result, over numbers
  <1>12. ASSUME NEW r \in Results, Sound(r)
         PROVE  LET t == Tallied(counters, r)  a == Added(cells, r) IN
                /\ t.sent = counters.sent + 1 /\ a.count = cells.count + 1
                /\ t.r4xx = counters.r4xx + One(Rejected(r))
                /\ a.rejected = cells.rejected + One(Rejected(r))
                /\ t.errors = counters.errors + One(Failed(r))
                /\ a.errors + a.genFaults = cells.errors + cells.genFaults + One(Failed(r))
                /\ t.gwFaults = counters.gwFaults + One(GatewayFault(r))
                /\ a.gateway = cells.gateway + One(GatewayFault(r))
    BY <1>0, <1>12, ClassesAgree
  <1>13. /\ queued \in SUBSET Reqs /\ QueuedRejected \in SUBSET Reqs
         /\ QueuedFailed \in SUBSET Reqs /\ QueuedGateway \in SUBSET Reqs
    BY <1>0 DEF QueuedRejected, QueuedFailed, QueuedGateway
  <1>14. /\ Cardinality(queued) \in Nat /\ Cardinality(QueuedRejected) \in Nat
         /\ Cardinality(QueuedFailed) \in Nat /\ Cardinality(QueuedGateway) \in Nat
         /\ \A b : One(b) \in Nat
         /\ counters.sent \in Nat /\ counters.r4xx \in Nat /\ counters.errors \in Nat
         /\ counters.gwFaults \in Nat
         /\ cells.count \in Nat /\ cells.rejected \in Nat /\ cells.errors \in Nat
         /\ cells.genFaults \in Nat /\ cells.gateway \in Nat
    BY <1>0, <1>13, QueuedIsFinite, OneIsNat DEF CounterTypes, CellTypes
  <1>10. ASSUME NEW q \in Reqs, Settle(q) PROVE Books'
    <2>1. /\ pc[q] = "settle" /\ pc' = [pc EXCEPT ![q] = "gone"] /\ cells' = cells /\ q \notin queued
          /\ counters' = Tallied(counters, res[jobOf[q]]) /\ HandedOver(q)
      BY <1>0, <1>10 DEF Settle
    <2>2. res[jobOf[q]] = outcome[q] /\ Sound(outcome[q]) /\ outcome[q] \in Results
      BY <1>0, <2>1 DEF Ownership, Owns, Fresh, Books
    <2>3. CASE queued' = queued \cup {q} /\ UNCHANGED <<lost, outcome>>
      <3>1. /\ QueuedRejected' = IF Rejected(outcome[q]) THEN QueuedRejected \cup {q} ELSE QueuedRejected
            /\ QueuedFailed' = IF Failed(outcome[q]) THEN QueuedFailed \cup {q} ELSE QueuedFailed
            /\ QueuedGateway' = IF GatewayFault(outcome[q]) THEN QueuedGateway \cup {q} ELSE QueuedGateway
        BY <2>3 DEF QueuedRejected, QueuedFailed, QueuedGateway
      <3>2. /\ Cardinality(queued') = Cardinality(queued) + 1
            /\ Cardinality(QueuedRejected') = Cardinality(QueuedRejected) + One(Rejected(outcome[q]))
            /\ Cardinality(QueuedFailed') = Cardinality(QueuedFailed) + One(Failed(outcome[q]))
            /\ Cardinality(QueuedGateway') = Cardinality(QueuedGateway) + One(GatewayFault(outcome[q]))
        <4>1. q \notin QueuedRejected /\ q \notin QueuedFailed /\ q \notin QueuedGateway
          BY <2>1 DEF QueuedRejected, QueuedFailed, QueuedGateway
        <4>2. queued' = IF TRUE THEN queued \cup {q} ELSE queued
          BY <2>3
        <4>3. Cardinality(queued') = Cardinality(queued) + One(TRUE)
          BY <1>13, <2>1, <4>2, OneMoreOneLess
        <4> QED BY <1>13, <3>1, <4>1, <4>3, OneMoreOneLess DEF One
      <3>3. BooksDiffer'
        BY <1>12, <1>14, <2>1, <2>2, <2>3, <3>2 DEF Books, BooksDiffer
      <3> QED BY <1>0, <2>1, <2>2, <2>3, <3>3 DEF Books
    <2>4. CASE lost' = lost \cup {q} /\ Forgotten(q) /\ UNCHANGED queued
      BY <1>0, <2>1, <2>4 DEF Forgotten, Books, BooksDiffer
    <2> QED BY <2>1, <2>3, <2>4 DEF HandedOver
  <1>11. ASSUME NEW q \in Reqs, Fold(q) PROVE Books'
    <2>1. /\ q \in queued /\ queued' = queued \ {q} /\ UNCHANGED <<pc, counters, lost>>
          /\ cells' = Added(cells, res[jobOf[q]]) /\ outcome' = [outcome EXCEPT ![q] = Zero]
      BY <1>11 DEF Fold, Forgotten
    <2>2. res[jobOf[q]] = outcome[q] /\ Sound(outcome[q]) /\ outcome[q] \in Results
      BY <1>0, <2>1 DEF Ownership, Owns, Fresh, Books
    <2>3. \A r \in queued' : r # q /\ outcome'[r] = outcome[r]
      BY <1>0, <2>1
    <2>4. /\ QueuedRejected' = QueuedRejected \ {q} /\ QueuedFailed' = QueuedFailed \ {q}
          /\ QueuedGateway' = QueuedGateway \ {q}
      BY <2>1, <2>3 DEF QueuedRejected, QueuedFailed, QueuedGateway
    <2>5. /\ Cardinality(queued') = Cardinality(queued) - 1
          /\ Cardinality(QueuedRejected') = Cardinality(QueuedRejected) - One(Rejected(outcome[q]))
          /\ Cardinality(QueuedFailed') = Cardinality(QueuedFailed) - One(Failed(outcome[q]))
          /\ Cardinality(QueuedGateway') = Cardinality(QueuedGateway) - One(GatewayFault(outcome[q]))
      <3>1. Cardinality(queued') = Cardinality(queued) - 1
        BY <1>13, <2>1, OneMoreOneLess DEF One
      <3>2. /\ q \in QueuedRejected <=> Rejected(outcome[q])
            /\ q \in QueuedFailed <=> Failed(outcome[q])
            /\ q \in QueuedGateway <=> GatewayFault(outcome[q])
        BY <2>1 DEF QueuedRejected, QueuedFailed, QueuedGateway
      <3> QED BY <1>13, <2>4, <3>1, <3>2, OneMoreOneLess
    <2>6. BooksDiffer'
      <3>1. cells' \in CellTypes
        BY <1>0, <2>1, CounterAndCellTypes
      <3>2. cells'.errors \in Nat /\ cells'.genFaults \in Nat
        BY <3>1 DEF CellTypes
      <3>3. /\ cells'.count = cells.count + 1
            /\ cells'.rejected = cells.rejected + One(Rejected(outcome[q]))
            /\ cells'.errors + cells'.genFaults
                 = cells.errors + cells.genFaults + One(Failed(outcome[q]))
            /\ cells'.gateway = cells.gateway + One(GatewayFault(outcome[q]))
        BY <1>12, <2>1, <2>2
      <3>4. SUFFICES ASSUME lost = {} PROVE BooksDiffer'
        BY <2>1 DEF BooksDiffer
      <3>5. counters' = counters /\ BooksDiffer
        BY <2>1 DEF Books
      <3>6. counters'.sent = cells'.count + Cardinality(queued')
        <4>1. counters.sent = cells.count + Cardinality(queued)
          BY <3>4, <3>5 DEF BooksDiffer
        <4>2. Cardinality(queued') = Cardinality(queued) - 1
          BY <2>5
        <4> QED BY <1>14, <3>3, <3>5, <4>1, <4>2
      <3>7. counters'.r4xx = cells'.rejected + Cardinality(QueuedRejected')
        BY <1>14, <2>5, <3>3, <3>4, <3>5 DEF BooksDiffer
      <3>8. counters'.errors = cells'.errors + cells'.genFaults + Cardinality(QueuedFailed')
        BY <1>14, <2>5, <3>2, <3>3, <3>4, <3>5 DEF BooksDiffer
      <3>9. counters'.gwFaults = cells'.gateway + Cardinality(QueuedGateway')
        BY <1>14, <2>5, <3>3, <3>4, <3>5 DEF BooksDiffer
      <3> QED BY <3>6, <3>7, <3>8, <3>9 DEF BooksDiffer
    <2> QED BY <1>0, <2>1, <2>3, <2>6 DEF Books
  <1> QED BY <1>2, <1>3, <1>4, <1>5, <1>6, <1>8, <1>9, <1>10, <1>11 DEF Step

(* The status line and the store agree once the flusher has caught up, if   *)
(* it has missed nothing: each result is counted once by both, the classes  *)
(* of execute and of Aggregator.Add are the same on every result there can  *)
(* be, and they differ by the generator's own faults at most.               *)
THEOREM TheBooksAgree == Spec => []TwoBooksAgree
  <1> DEFINE Inv == TypeInv /\ Books
  <1>1. Inv => TwoBooksAgree
    <2>1. ASSUME Inv, queued = {}, lost = {} PROVE TwoBooksAgree
      <3>1. QueuedRejected = {} /\ QueuedFailed = {} /\ QueuedGateway = {}
        BY <2>1 DEF QueuedRejected, QueuedFailed, QueuedGateway
      <3>2. counters \in CounterTypes /\ cells \in CellTypes
        BY <2>1 DEF TypeInv, BookTypes
      <3>3. /\ counters.sent = cells.count /\ counters.r4xx = cells.rejected
            /\ counters.errors = cells.errors + cells.genFaults /\ counters.gwFaults = cells.gateway
        BY <2>1, <3>1, <3>2, FS_EmptySet DEF Books, BooksDiffer, CounterTypes, CellTypes
      <3>4. /\ cells.errors \in Nat /\ cells.genFaults \in Nat /\ cells.gateway \in Nat
        BY <3>2 DEF CellTypes
      <3>5. \A m, n \in Nat : (m + n) - m \in 0..n /\ m - m \in (-n)..n
        OBVIOUS
      <3> QED BY <3>3, <3>4, <3>5 DEF TwoBooksAgree
    <2> QED BY <2>1 DEF TwoBooksAgree
  <1>2. Init => Inv
    <2>1. ASSUME Init PROVE Books
      <3>1. /\ queued = {} /\ QueuedRejected = {} /\ QueuedFailed = {} /\ QueuedGateway = {}
            /\ \A q \in Reqs : pc[q] = "none"
        BY <2>1 DEF Init, QueuedRejected, QueuedFailed, QueuedGateway
      <3>2. BooksDiffer
        BY <2>1, <3>1, FS_EmptySet DEF Init, BooksDiffer
      <3> QED BY <3>1, <3>2 DEF Books
    <2> QED BY <2>1, TypeInvInit
  <1>3. Inv /\ [Next]_vars => Inv'
    BY TypeInvStep, BooksStep
  <1> QED BY <1>1, <1>2, <1>3, PTL DEF Spec
=============================================================================
