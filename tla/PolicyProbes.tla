----------------------------- MODULE PolicyProbes -----------------------------
(***************************************************************************)
(* The eight policy probes (loadgen/policy.ts): what each makes of the     *)
(* answers to its requests, and what a gateway may answer to them.         *)
(* Operators only.                                                         *)
(***************************************************************************)
EXTENDS Integers, Sequences, FiniteSets

\* Mutant: in the order of POLICY_IDS.
AsListed == <<"auth-bad-key", "auth-no-key", "rate-limit", "payload-limit", "upstream-timeout", "cache",
              "unknown-route", "cors-preflight">>

\* POLICY_IDS in the order of PROBES: the one that uses up the quota is last.
Probes == <<"auth-bad-key", "auth-no-key", "payload-limit", "upstream-timeout", "cache",
            "unknown-route", "cors-preflight", "rate-limit">>
PolicyIds == {Probes[i] : i \in DOMAIN Probes}

----------------------------------------------------------------------------
(* Responses: the status, 0 for none; whether X-Server-Ms says that the    *)
(* backend answered; whether CORS is allowed; whether a cache is named.    *)

NoAnswer == [status |-> 0, reached |-> FALSE, allow |-> FALSE, named |-> FALSE]
FromGateway(status) == [NoAnswer EXCEPT !.status = status]
FromBackend(status) == [FromGateway(status) EXCEPT !.reached = TRUE]
Allowing(r) == [r EXCEPT !.allow = TRUE]
Named(r) == [r EXCEPT !.named = TRUE]
Throttled == FromGateway(429)

TransportFailed(r) == r.status = 0
\* Mutant: a 429 is an answer like any other.
NeverBlocked(r) == FALSE
QuotaBlocked(r) == r.status = 429
Succeeded(r) == r.status \in 200..299

----------------------------------------------------------------------------
(* What a probe makes of its answers.                                      *)

Unmeasured(r) == TransportFailed(r) \/ QuotaBlocked(r)
ProxiedOrWrong(r) == IF r.reached THEN "not-enforced" ELSE "fail"

AuthBadKey(r) ==
    CASE Unmeasured(r) -> "error"
      [] r.status \in {401, 403} -> IF r.reached THEN "fail" ELSE "pass"
      [] OTHER -> ProxiedOrWrong(r)

AuthNoKey(r) ==
    CASE Unmeasured(r) -> "error"
      [] r.status \in {401, 403} -> "pass"
      [] OTHER -> ProxiedOrWrong(r)

PayloadLimit(r) ==
    CASE QuotaBlocked(r) -> "error"
      [] TransportFailed(r) \/ r.status = 413 \/ (r.status = 400 /\ ~r.reached) -> "pass"
      [] OTHER -> ProxiedOrWrong(r)

UpstreamTimeout(r) ==
    CASE QuotaBlocked(r) -> "error"
      [] r.status = 504 -> "pass"
      [] Succeeded(r) -> "not-enforced"
      [] OTHER -> "fail"

Cache(first, second) ==
    IF Unmeasured(first) \/ Unmeasured(second) THEN "error"
    ELSE IF (first.reached /\ ~second.reached) \/ second.named THEN "pass"
    ELSE "not-enforced"

UnknownRoute(r) ==
    CASE Unmeasured(r) -> "error"
      [] r.status \in {404, 405} /\ ~r.reached -> "pass"
      [] OTHER -> ProxiedOrWrong(r)

CorsPreflight(r) ==
    IF Unmeasured(r) THEN "error"
    ELSE IF ~r.allow THEN "not-enforced"
    ELSE IF Succeeded(r) THEN "pass" ELSE "fail"

RateLimit(burst) ==
    IF \A i \in DOMAIN burst : TransportFailed(burst[i]) THEN "error"
    ELSE IF \E i \in DOMAIN burst : QuotaBlocked(burst[i]) THEN "pass"
    ELSE "not-enforced"

State(id, answers) ==
    LET r == Head(answers) IN
    CASE id = "auth-bad-key" -> AuthBadKey(r)
      [] id = "auth-no-key" -> AuthNoKey(r)
      [] id = "payload-limit" -> PayloadLimit(r)
      [] id = "upstream-timeout" -> UpstreamTimeout(r)
      [] id = "cache" -> Cache(r, answers[2])
      [] id = "unknown-route" -> UnknownRoute(r)
      [] id = "cors-preflight" -> CorsPreflight(r)
      [] id = "rate-limit" -> RateLimit(answers)

\* runPolicyProbes: what the operator says must hold turns "not configured" into a defect.
Promoted(state, id, required) == IF state = "not-enforced" /\ id \in required THEN "fail" ELSE state

----------------------------------------------------------------------------
(* A gateway, which is not this program's: it enforces a policy ("on"),    *)
(* has none ("off"), or gets it wrong.  Behind it is the petstore, which   *)
(* wants a credential of its own, and answers an undeclared route 404      *)
(* without the stamp (sut/server.go:197-204, 244).                         *)

Postures == [PolicyIds -> {"on", "off", "wrong"}]

Enforcing(id) ==
    CASE id \in {"auth-bad-key", "auth-no-key"} -> {<<FromGateway(401)>>, <<FromGateway(403)>>}
      [] id = "payload-limit" -> {<<FromGateway(413)>>, <<FromGateway(400)>>, <<NoAnswer>>}
      [] id = "upstream-timeout" -> {<<FromGateway(504)>>}
      [] id = "unknown-route" -> {<<FromGateway(404)>>}
      [] id = "cors-preflight" -> {<<Allowing(FromGateway(204))>>}
      [] id = "cache" -> {<<FromBackend(200), FromGateway(200)>>, <<FromBackend(200), Named(FromBackend(200))>>}
      [] id = "rate-limit" -> {<<FromBackend(200), Throttled>>, <<Throttled, NoAnswer>>}
Letting(id) ==
    CASE id = "cache" -> {<<FromBackend(200), FromBackend(200)>>, <<FromBackend(200), Named(FromBackend(200))>>}
      [] id = "rate-limit" -> {<<FromBackend(200), FromBackend(200)>>, <<NoAnswer, FromBackend(200)>>}
      [] id = "unknown-route" -> {<<FromBackend(404)>>, <<FromGateway(404)>>}
      [] OTHER -> {<<FromBackend(200)>>}
Failing(id) ==
    CASE id = "auth-bad-key" -> {<<FromBackend(401)>>, <<FromGateway(500)>>}
      [] id = "auth-no-key" -> {<<FromBackend(401)>>, <<FromGateway(502)>>}
      [] id = "upstream-timeout" -> {<<NoAnswer>>, <<FromGateway(502)>>}
      [] id = "cors-preflight" -> {<<Allowing(FromGateway(403))>>}
      [] id \in {"cache", "rate-limit"} -> Letting(id)
      [] OTHER -> {<<FromGateway(502)>>}
Answers(posture, id) ==
    CASE posture = "on" -> Enforcing(id) [] posture = "off" -> Letting(id) [] posture = "wrong" -> Failing(id)

(* Answers that show no policy at work, and are taken for one: the         *)
(* backend refused the request that should not have reached it, its 404    *)
(* bears no stamp, a cache names itself on a miss (x-cache: MISS).         *)
Mistakable(id) ==
    CASE id = "auth-no-key" -> {<<FromBackend(401)>>}
      [] id = "unknown-route" -> {<<FromGateway(404)>>}
      [] id = "cache" -> {<<FromBackend(200), Named(FromBackend(200))>>}
      [] OTHER -> {}

\* A cache that holds the answer already serves both reads, and may not say so.
FromWarmCache == {<<FromGateway(200), FromGateway(200)>>, <<FromGateway(200), Named(FromGateway(200))>>}
\* No quota left, nobody there, or one of the two reads of the cache probe lost.
AllThrottled == <<Throttled, Throttled>>
AllLost == <<NoAnswer, NoAnswer>>
=============================================================================
