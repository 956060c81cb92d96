CONSTANTS
  Deployers = {d1}
  IRs = {1}
  Tampered = {}
  NameOf <- MCNameOf
  Needs <- MCNeeds
  Modes = {"upsert"}
  Maps <- NoMaps
  Late = TRUE
  PageSize = 1
  MaxCalls = 2
  MaxCredentials = 0
  MaxRemovals = 0
  Nothing = Nothing
  Failed = Failed
SPECIFICATION Spec
INVARIANTS NoDuplicates
\* The deployer is done.
CHECK_DEADLOCK FALSE
