SPECIFICATION Spec
CONSTANTS
  Clients = {"c1", "c2"}
  PolicyBodies <- MCPolicyBodies
  GatewayBodies <- MCGatewayBodies
  SavedGateways <- MCSavedGateways
  MaxSpawns = 3
  MaxFailures = 1
INVARIANTS
  OnePetstore
  NoOrphans
  ConfigInForce
PROPERTIES
  PetstoreComesBack
  KeepsProbing
