CONSTANTS
  Nodes = {1, 2, 3}
  Ports = {0}
  Indices = {0}
SPECIFICATION MCSpec
INVARIANTS EntryNodesAreReferable
\* The function returns.
CHECK_DEADLOCK FALSE
