CONSTANTS
  Nodes = {1, 2, 3, 4}
  Ports <- MCPorts
  Indices = {0}
  Exit = 4
  Json = Json
  Global = Global
  None = None
  RegistryPorts = 2
SPECIFICATION MCSpec
INVARIANTS OnlySinksStayOpen
\* parse_workflow returns or raises.
CHECK_DEADLOCK FALSE
