SPECIFICATION ParserSpec
CONSTANTS
  \* Parse
  Nodes = {1, 2, 3, 4}
  Ports <- MCPorts
  Indices = {0}
  Exit = 4
  Json = Json
  Global = Global
  None = None
  RegistryPorts = 2
  \* Expression
  X = X
  f = f
  g = g
  gs = gs
  zero = zero
  JsonName = JsonName
  Words <- MCWords
  Pieces <- MCPieces
  Upstream = Upstream
  Nowhere = Nowhere
  Garbled = Garbled
  Values <- MCValues
  \* CodeFlow
  Up = Up
  Down = Down
  Other = Other
  NoField = NoField
  json = json
  main_port = main_port
  a = a
  b = b
  Ghost = Ghost
  Programs <- MCPrograms
  \* CodeBatch
  x = x
  y = y
  z = z
  s = s
  t = t
  bad = bad
  Blank = Blank
  Sources = {s, t, bad}
  Broken = {bad}
  Workflows <- MCWorkflows
INVARIANTS TypesOK YieldsAst EndsAreClosed JsonIsTheOnlySource SourcesAreReads ReportsAreSound ContractIsOwn OneProcess BindingsAreReads
