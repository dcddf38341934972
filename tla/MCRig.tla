------------------------------- MODULE MCRig -------------------------------
\* Two requests, three restarts at most, and the config tables that matter.
EXTENDS Rig

MCPolicyBodies == {[enabled |-> FALSE], [enabled |-> TRUE, intervalSec |-> 1]}
MCGatewayBodies == {[s \in Sides |-> "elsewhere"]}
MCSavedGateways ==
    {<<>>, [s \in Sides |-> IF s = "rest" THEN "controlPlane" ELSE "petstore"]}
============================================================================
