CONSTANTS
  MaxRps = 4
  Edits <- MCEditsSlo
  Puts <- MCNoPuts
  MaxOpens = 2
  MaxEvents = 1
  LateKeys = {"policy", "slo"}
SPECIFICATION SettingsSpec
CHECK_DEADLOCK FALSE
PROPERTY UntouchedSettingsKept
