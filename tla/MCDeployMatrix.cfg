CONSTANTS
  Scenarios <- TwoScenarios
  Modes = {"create", "upsert"}
  MaxCommands = 4
  MaxLost = 1
  MaxWorkflows = 3
  Absent = Absent
  Torn = Torn
SPECIFICATION Spec
INVARIANTS TypeOK GreenIsTrue UpsertsOnce
PROPERTY DeploymentsEnd
\* The operator is done.
CHECK_DEADLOCK FALSE
