CONSTANTS
  Deployers = {d1, d2}
  IRs = {1, 2, 3}
  Tampered = {3}
  NameOf <- MCNameOf
  Needs <- MCNeeds
  Modes = {"create", "upsert", "replace"}
  Maps <- MCMaps
  Late = TRUE
  PageSize = 1
  MaxCalls = 2
  MaxCredentials = 3
  MaxRemovals = 1
  Nothing = Nothing
  Failed = Failed
SPECIFICATION Spec
INVARIANTS TypeOK BindingsHold
PROPERTIES ImplementsStore CallsEnd
\* The deployers are done.
CHECK_DEADLOCK FALSE
