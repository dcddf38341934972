------------------------------- MODULE Probing --------------------------------
(***************************************************************************)
(* A pass of the policy probes and what is kept of it (app.ts,             *)
(* loadgen/policy.ts, metrics/server.ts), against gateways that enforce    *)
(* policies, have quotas and caches, and are reconfigured, replaced and    *)
(* unreachable while the pass goes on.  When a pass is due is Rig's        *)
(* subject.                                                                *)
(***************************************************************************)
EXTENDS PolicyProbes

CONSTANTS
    Gateways,      \* by name, the posture of each gateway in PolicyIds
    Self,          \* the name of the bundled petstore, with no gateway before it
    RequiredSets,  \* lists of required policies a PUT may bring
    MaxPuts, MaxFaults   \* bounds: PUTs, and things that go wrong

ASSUME GatewaysAssumption ==
    \A g \in DOMAIN Gateways \ {Self} : Gateways[g] \in Postures
ASSUME RequiredAssumption == RequiredSets \subseteq SUBSET PolicyIds

VARIABLES
    target,       \* the driver's target
    enabled, required,  \* the stored configuration
    pass,         \* runPolicies
    results,      \* the table policy_results, with what each row is about
    spent,        \* gateways whose quota is used up
    warm,         \* gateways whose cache holds the answer the cache probe asks for
    puts, faults
passVars == <<target, enabled, required, pass, results, spent, warm, puts, faults>>
settingVars == <<target, enabled, required, puts>>
gwVars == <<spent, warm>>

NoPass == [pc |-> "idle"]
Measurable == DOMAIN Gateways \ {Self}
Has(g, id) == g \in Measurable /\ Gateways[g][id] = "on"

PassInit ==
    /\ target \in DOMAIN Gateways /\ enabled = TRUE /\ required = {}
    /\ pass = NoPass /\ results = <<>> /\ spent = {} /\ warm = {} /\ puts = 0 /\ faults = 0

----------------------------------------------------------------------------
(* The operator and the gateway.                                           *)

Put == puts < MaxPuts /\ puts' = puts + 1

PutTarget(g) ==
    /\ Put /\ g # target /\ target' = g
    /\ UNCHANGED <<enabled, required, pass, results, gwVars, faults>>

PutPolicies(e, req) ==
    /\ Put /\ <<e, req>> # <<enabled, required>>
    /\ enabled' = e /\ required' = req
    /\ UNCHANGED <<target, pass, results, gwVars, faults>>

\* POST /api/metrics/reset: the results go, whatever is under way.
Reset ==
    /\ results # <<>> /\ Put /\ results' = <<>>
    /\ UNCHANGED <<target, enabled, required, pass, gwVars, faults>>

\* The quota window passes and the cache forgets. Only the cache probe asks the
\* cache, so when in a pass it forgets makes no difference; that a window ends
\* within a pass is left out (bound).
Refill(g) ==
    /\ g \in spent /\ pass.pc # "probing" /\ spent' = spent \ {g}
    /\ UNCHANGED <<settingVars, pass, results, warm, faults>>
CacheExpires(g) ==
    /\ g \in warm /\ pass.pc # "probing" /\ warm' = warm \ {g}
    /\ UNCHANGED <<settingVars, pass, results, spent, faults>>

----------------------------------------------------------------------------
(* A pass.                                                                 *)

\* The interval, a run that starts, or POST /api/policy/run; a pass that runs
\* already swallows it.
Begin ==
    /\ pass = NoPass /\ pass' = [pc |-> "config"]
    /\ UNCHANGED <<settingVars, results, gwVars, faults>>

\* Nothing can be measured of the petstore itself.
NotMeasured(g) == g = Self
Row(state, g, req, answer) == [state |-> state, target |-> g, required |-> req, answer |-> answer]

\* Mutant: nothing is measured that has been measured.
ReadConfigOnce ==
    /\ pass.pc = "config"
    /\ pass' = IF ~enabled \/ results # <<>> THEN NoPass
               ELSE [pc |-> "writing", target |-> target, required |-> required, undisturbed |-> FALSE,
                     out |-> [id \in PolicyIds |-> Row("error", target, required, "none")]]
    /\ UNCHANGED <<settingVars, results, gwVars, faults>>
\* runPolicies after its await: the context and the configuration of this pass
\* are what they are now.
ReadConfig ==
    /\ pass.pc = "config"
    /\ pass' = IF ~enabled THEN NoPass
               ELSE [pc |-> IF NotMeasured(target) THEN "writing" ELSE "probing",
                     target |-> target, required |-> required, undisturbed |-> target \notin spent,
                     out |-> IF NotMeasured(target)
                             THEN [id \in PolicyIds |-> Row("error", target, required, "none")] ELSE <<>>]
    /\ UNCHANGED <<settingVars, results, gwVars, faults>>

\* What may come back, and how it came about.
Undisturbed(g, id) ==
    IF g = Self THEN Letting(id)
    ELSE IF id = "cache" /\ g \in warm THEN FromWarmCache
    ELSE Answers(Gateways[g][id], id)
Came(g, id, answers, disturbed) ==
    IF disturbed THEN IF answers = AllLost THEN "lost" ELSE "given"
    ELSE IF id = "cache" /\ g \in warm THEN "warm"
    ELSE IF ~Has(g, id) /\ answers \in Mistakable(id) THEN "mistakable" ELSE "given"

ProbeNext == Probes[Cardinality(DOMAIN pass.out) + 1]
Outcome(id, answers) == Promoted(State(id, answers), id, pass.required)

Probe(answers, disturbed) ==
    LET id == ProbeNext
        g == pass.target
        out == [i \in DOMAIN pass.out \union {id} |->
                  IF i = id THEN Row(Outcome(id, answers), g, pass.required, Came(g, id, answers, disturbed))
                  ELSE pass.out[i]]
    IN  /\ pass' = [pass EXCEPT !.out = out, !.pc = IF DOMAIN out = PolicyIds THEN "writing" ELSE "probing",
                                !.undisturbed = @ /\ ~disturbed]
        /\ spent' = IF id = "rate-limit" /\ Has(g, id) THEN spent \union {g} ELSE spent
        /\ warm' = IF id = "cache" /\ Has(g, id) /\ Head(answers).status = 200 THEN warm \union {g} ELSE warm
        /\ UNCHANGED <<settingVars, results>>

GatewayAnswers ==
    /\ pass.pc = "probing" /\ UNCHANGED faults
    /\ IF pass.target \in spent THEN Probe(AllThrottled, FALSE)
       ELSE \E answers \in Undisturbed(pass.target, ProbeNext) : Probe(answers, FALSE)
\* The target is gone for this request, or the load has used the quota up.
Fault == faults < MaxFaults /\ faults' = faults + 1
Disturbed ==
    /\ pass.pc = "probing" /\ Fault
    /\ \/ Probe(AllLost, TRUE)
       \/ Has(pass.target, "rate-limit") /\ Probe(AllThrottled, TRUE)

\* The rows of a pass are written in one transaction.
Write ==
    /\ pass.pc = "writing"
    /\ results' = pass.out /\ pass' = NoPass
    /\ UNCHANGED <<settingVars, gwVars, faults>>

WriteFails ==
    /\ pass.pc = "writing" /\ Fault
    /\ pass' = NoPass /\ UNCHANGED <<settingVars, results, gwVars>>

PassNext ==
    \/ \E g \in DOMAIN Gateways : PutTarget(g) \/ Refill(g) \/ CacheExpires(g)
    \/ \E e \in BOOLEAN, req \in RequiredSets : PutPolicies(e, req)
    \/ Reset \/ Begin \/ ReadConfig \/ GatewayAnswers \/ Disturbed \/ Write \/ WriteFails

\* The interval ticks, and every step of a pass ends: a probe by its own
\* timeout, a call of the store by its answer.
PassFairness ==
    /\ WF_passVars(Begin) /\ WF_passVars(ReadConfig)
    /\ WF_passVars(GatewayAnswers \/ Disturbed) /\ WF_passVars(Write \/ WriteFails)
PassSpec == PassInit /\ [][PassNext]_passVars /\ PassFairness

----------------------------------------------------------------------------
(* Type invariant.                                                         *)
PassTypeOK ==
    /\ target \in DOMAIN Gateways /\ enabled \in BOOLEAN /\ required \in RequiredSets
    /\ pass.pc \in {"idle", "config", "probing", "writing"}
    /\ DOMAIN results \in {{}, PolicyIds}
    /\ spent \subseteq DOMAIN Gateways /\ warm \subseteq DOMAIN Gateways
    /\ puts \in 0..MaxPuts /\ faults \in 0..MaxFaults

(* The results in the table are of one pass, on one target and by one list *)
(* of required policies, whatever was reconfigured during it and whichever *)
(* of its steps failed: the report's single line about the policies is     *)
(* about one gateway.                                                      *)
OnePassTogether ==
    \A i, j \in DOMAIN results :
        results[i].target = results[j].target /\ results[i].required = results[j].required

(* What a stored result says is true of the gateway that was probed: a     *)
(* policy that passes is in force there, one that fails is enforced        *)
(* wrongly or is missing and was required when the pass began, one that is *)
(* not enforced is not.  A quota used up, by the load or by the burst, and *)
(* a target that is no gateway say nothing.  Left open, because the code   *)
(* gets them wrong by its own words:                                       *)
(*   - an upload or a slow request without an answer is a verdict          *)
(*     (policy.ts:196-200, 220-221), also when the target is gone: "a      *)
(*     transport failure is a broken probe, not a policy verdict" (125);   *)
(*   - a 401 that the backend gave to no credential is a pass (178-180),   *)
(*     though the request "must not reach the backend" (172);              *)
(*   - a cache that names itself on a miss is a pass (245-251), though it  *)
(*     is the gateway that should have answered (234);                     *)
(*   - the petstore's 404 through a gateway that knows no routes is a pass *)
(*     (265-267): no gateway must consult the backend for that (259);      *)
(*   - a cache that held the answer already is not recognised (246).       *)
Earned(id, row) ==
    LET posture == IF row.target = Self THEN "none" ELSE Gateways[row.target][id] IN
    \/ row.state = "error"
    \/ row.answer = "lost" /\ id \in {"payload-limit", "upstream-timeout"}
    \/ row.answer = "mistakable" /\ row.state = "pass"
    \/ row.answer = "warm" /\ (row.state \in {"pass", "not-enforced"} \/ id \in row.required)
    \/ row.state = "pass" /\ posture = "on"
    \/ row.state = "fail" /\ (posture = "wrong" \/ id \in row.required)
    \/ row.state = "not-enforced" /\ posture # "on"
VerdictsAreEarned == (\A id \in DOMAIN results : Earned(id, results[id])) /\ OnePassTogether

(* Probes do not get into each other's way: a pass whose quota was not     *)
(* used up when it began, nor by others during it, and whose requests were *)
(* answered, measures every policy - although one of its probes uses the   *)
(* quota up.                                                               *)
UndisturbedPassMeasures ==
    pass.pc = "writing" /\ pass.undisturbed /\ pass.target # Self =>
        \A id \in PolicyIds : pass.out[id].state # "error"

(* A change of target is followed by results about the new one, if it and  *)
(* the probing last: a failed pass is followed by another.                 *)
About(g) == results # <<>> /\ \A id \in DOMAIN results : results[id].target = g
NewTargetIsProbed ==
    \A g \in DOMAIN Gateways : target = g /\ enabled ~> About(g) \/ target # g \/ ~enabled
=============================================================================
