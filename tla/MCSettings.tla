----------------------------- MODULE MCSettings ------------------------------
EXTENDS Settings

MCEdits ==
    [gw |-> {}, profile |-> {[rps |-> 4, weights |-> [list |-> 0, create |-> 0]]},
     slo |-> {[leaked |-> Null]}, policy |-> {}]
MCPuts == [gw |-> {}, profile |-> {[rps |-> MaxRps + 1]}, slo |-> {}, policy |-> {}]
MCEditsSlo == [gw |-> {}, profile |-> {}, slo |-> {[leaked |-> Null]}, policy |-> {}]
MCNoPuts == [k \in KeySet |-> {}]
=============================================================================
