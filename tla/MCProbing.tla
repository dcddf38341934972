----------------------------- MODULE MCProbing ------------------------------
EXTENDS Probing, TLC

Mixed == [id \in PolicyIds |->
    IF id = "cors-preflight" THEN "wrong" ELSE "on"]
\* What Mixed enforces this one lacks or gets wrong.
Lax == [id \in PolicyIds |->
    CASE id = "cors-preflight" -> "on"
      [] id \in {"auth-no-key", "payload-limit", "upstream-timeout"} -> "wrong"
      [] OTHER -> "off"]
MCGateways == "mixed" :> Mixed @@ "lax" :> Lax @@ "petstore" :> <<>>
MCRequired == {{}, {"cache", "unknown-route", "rate-limit"}}
=============================================================================
