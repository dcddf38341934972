CONSTANTS
  Gateways <- MCGateways
  Self = "petstore"
  RequiredSets <- MCRequired
  MaxPuts = 2
  MaxFaults = 1
SPECIFICATION PassSpec
INVARIANT VerdictsAreEarned
INVARIANT UndisturbedPassMeasures
PROPERTY NewTargetIsProbed
