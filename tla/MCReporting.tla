---------------------------- MODULE MCReporting -----------------------------
EXTENDS Reporting

Request(cls, status, latency, server, reached) ==
    [cls |-> cls, protocol |-> IF cls = "soap" THEN "soap" ELSE "rest", endpoint |-> "pets", status |-> status,
     latency |-> latency, ttfb |-> latency, server |-> server, connect |-> 0, reused |-> TRUE, reached |-> reached]

MCLatencyEdges == <<1, 3, 6>>
MCResidualEdges == <<-1, 0, 2>>
MCItems ==
    {Request("small-rest", 200, 3, 4, TRUE), Request("soap", 502, 9, Null, FALSE),
     Request("invalid", 400, 2, Null, FALSE), Request("invalid", 201, 2, 1, TRUE), [signal |-> "lost"]}
MCSlos == {[DefaultSlo EXCEPT !.nonBackendP95 = 25]}
MCResults == {<<>>}
=============================================================================
