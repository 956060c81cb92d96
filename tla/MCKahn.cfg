CONSTANTS
  Nodes = {1, 2, 3, 4}
  Ports = {0, 1}
  Indices = {0}
SPECIFICATION MCSpec
INVARIANTS TypeOK SourcesFirst RaisesExactlyOnCycles
PROPERTIES ImplementsTopoSort
\* The program returns or raises.
CHECK_DEADLOCK FALSE
