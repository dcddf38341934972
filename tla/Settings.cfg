CONSTANTS
  MaxRps = 4
  Edits <- MCEdits
  Puts <- MCPuts
  MaxOpens = 2
  MaxEvents = 2
  LateKeys = {"policy", "slo"}
SPECIFICATION SettingsSpec
CHECK_DEADLOCK FALSE
PROPERTY AppliedIsInForce
