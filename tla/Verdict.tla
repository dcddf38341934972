------------------------------ MODULE Verdict -------------------------------
(***************************************************************************)
(* From a run's numbers to pass, fail or inconclusive (report.ts), with    *)
(* the thresholds it is judged by and how a PUT changes them (shared).     *)
(* Operators only.  A threshold is in tenths of a percent, of a            *)
(* millisecond for the percentile, or a count; NotAsserted is null.        *)
(***************************************************************************)
EXTENDS Integers, FiniteSets, FiniteSetsExt

CONSTANT ForeignLimit   \* VALIDITY_LIMITS.foreignPct, in percent

NotAsserted == -1

DefaultSlo ==
    [nonBackendP95 |-> NotAsserted, unexpectedFailure |-> 10, leaked |-> 0,
     gatewayError |-> 5, requirePolicies |-> TRUE]
Thresholds == {"nonBackendP95", "unexpectedFailure", "leaked", "gatewayError"}
UpperLimit == [nonBackendP95 |-> 6000000, unexpectedFailure |-> 1000, leaked |-> 1000000000,
               gatewayError |-> 1000]

\* sanitizeSlo: a field the body lacks is the base's, null stays null, a number is clamped.
SanitizedSlo(body, base) ==
    [f \in DOMAIN base |->
        IF f \notin DOMAIN body THEN base[f]
        ELSE IF f \notin Thresholds \/ body[f] = NotAsserted THEN body[f]
        ELSE Min({UpperLimit[f], Max({0, body[f]})})]

\* check: no check without a threshold or without a number.
Check(id, measured, holds, threshold) ==
    IF threshold = NotAsserted \/ ~measured THEN {}
    ELSE {[id |-> id, ok |-> holds]}

AtMostPermille(part, whole, limit) == 1000 * part <= limit * whole

\* What the stored results say of the required policies.
RequiredResults(results, required) == {p \in DOMAIN results : p \in required}
Measured(results, required) ==
    {p \in RequiredResults(results, required) : results[p] # "error"}
Asserting(results, required, slo) ==
    slo.requirePolicies /\ RequiredResults(results, required) # {}

PolicyCheck(results, required, slo) ==
    LET measured == Measured(results, required) IN
    IF Asserting(results, required, slo) /\ measured # {}
    THEN {[id |-> "required-policies", ok |-> \A p \in measured : results[p] = "pass"]}
    ELSE {}

Checks(summary, results, required, slo) ==
    LET p95 == summary.nonBackendP95 IN
    Check("unexpected-failures", TRUE,
          AtMostPermille(summary.unexpectedFailures, summary.total, slo.unexpectedFailure), slo.unexpectedFailure)
    \union
    Check("gateway-errors", summary.total # 0,
          AtMostPermille(summary.gatewayErrors, summary.total, slo.gatewayError), slo.gatewayError)
    \union
    Check("non-backend-p95", p95.measured, 10 * p95.num <= slo.nonBackendP95 * p95.den, slo.nonBackendP95)
    \union
    Check("contract-leak", summary.invalidSent # 0, summary.leakedToBackend <= slo.leaked, slo.leaked)
    \union PolicyCheck(results, required, slo)

\* buildRunReport. Each line is a reason not to judge at all; what is left is judged.
Inconclusive(summary, scope, results, required, slo, checks) ==
    \/ summary.total = 0
    \/ ~summary.valid
    \/ slo.nonBackendP95 # NotAsserted /\ ~summary.nonBackendP95.measured
    \/ 100 * scope.foreign > ForeignLimit * scope.total
    \/ Asserting(results, required, slo) /\ Measured(results, required) = {}
    \/ checks = {}

Judgement(summary, scope, results, required, slo, checks) ==
    IF Inconclusive(summary, scope, results, required, slo, checks) THEN "inconclusive"
    ELSE IF \A c \in checks : c.ok THEN "pass" ELSE "fail"

VerdictOf(summary, scope, results, required, slo) ==
    Judgement(summary, scope, results, required, slo, Checks(summary, results, required, slo))
=============================================================================
