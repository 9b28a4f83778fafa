\* All scripts that share nothing, any two runs, one of which may fail.
SPECIFICATION Spec
CONSTANTS
  Scripts <- Apart
  Reporting <- Telling
  Words = {"on", "off", "debug", "info", "warning", "error"}
  MaxRuns = 2
  MaxFaults = 1
CHECK_DEADLOCK FALSE
INVARIANTS TypeOK StrictInForce CleanInForce StateTells
