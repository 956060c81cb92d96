CONSTANTS
  Nodes = {1, 2, 3, 4}
  Ports = {0}
  Indices = {0}
  MaxDepth = 3
SPECIFICATION MCSpec
INVARIANTS CleanMeansAcyclic IssuesAreOnCycles EveryKnotReported OverflowMeansDeepPath
\* The program returns or raises.
CHECK_DEADLOCK FALSE
