SPECIFICATION DocumentSpec
CONSTANTS
  \* LoadIr
  a = a
  sub = sub
  gone = gone
  ExitKey = ExitKey
  Root = Root
  OtherScope = OtherScope
  DocumentKeys = {a, sub, gone, ExitKey}
  Documents <- MCDocuments
  \* NodeIr
  Declarations <- MCNodes
  Predecessors <- MCPredecessors
  MaxEdits = 2
  \* Manifest
  NoName = NoName
  NodeLists <- MCNodeLists
  \* Decompile
  Workflows <- MCWorkflows
  Multi = {1}
  Sinks = {}
  Exit = 9
  None = None
  Trips = 3
  \* Cli
  Inputs <- MCInputs
INVARIANTS TypesOK AcceptedIsSound ReadKeepsMeaning DependenciesAreSources TypesListedOnce EdgesConserved SettlesAfterTwo CommandsAgree RejectedLeavesFile
