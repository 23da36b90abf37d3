CONSTANTS
  NumEngines = 3
  Hardware <- MCHardware
  Paths = {"direct", "config"}
SPECIFICATION VdmaSpec
INVARIANTS RunsAsConfigured ClearedAtRest
PROPERTY DisplayStarts
CHECK_DEADLOCK FALSE
