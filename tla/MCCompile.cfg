CONSTANTS
  Nodes = {1, 2, 3, 4}
  Ports = {0}
  Indices = {0}
  Exit = 4
  Global = 0
SPECIFICATION MCSpec
INVARIANTS OnlyValuesRaiseLate SourcesPrecedeConsumers DependenciesAreScheduled RefusedOnlyForAi
\* Compiling ends.
CHECK_DEADLOCK FALSE
