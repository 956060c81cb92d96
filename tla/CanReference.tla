---------------------------- MODULE CanReference ----------------------------
(***************************************************************************)
(* SymbolTable.can_reference (scope/symbol_table.py): may a parameter of   *)
(* node `target` refer to the output of node `source`?  A search from      *)
(* target against the direction of the main connections.                   *)
(*                                                                         *)
(* All validators run before their issues are raised, so the search meets  *)
(* cyclic graphs and connections of nodes that are not in ast.nodes (the   *)
(* parser drops sticky notes after it has read the connections).  The      *)
(* program's stack is a set here: it is popped in any order, and a second  *)
(* copy of a node on it is discarded when it is popped.                    *)
(***************************************************************************)
EXTENDS Ast

VARIABLES
  nodes,            \* keys of ast.nodes
  connections,      \* ast.connections
  source, target,   \* the arguments
  stack,            \* nodes still to look at
  visited,          \* nodes whose predecessors are on the stack or visited
  outcome           \* "called", "searching", "reachable" or "unreachable"

vars == <<nodes, connections, source, target, stack, visited, outcome>>
arguments == <<nodes, connections, source, target>>

(* WorkflowAST.upstream_of skips a connection to an unknown node.          *)
UpstreamEdges == {c \in connections : c.to_node \in nodes}

upstream(n) == predecessors(UpstreamEdges, n)

Start ==
  /\ stack = {}
  /\ visited = {}
  /\ outcome = "called"

Init ==
  /\ nodes \in SUBSET Nodes
  /\ IsConnections(connections)
  /\ source \in nodes
  /\ target \in nodes
  /\ Start

(* A node never refers to itself, nor a node without predecessors to any.  *)
Refuse ==
  /\ outcome = "called"
  /\ source = target \/ upstream(target) = {}
  /\ outcome' = "unreachable"
  /\ UNCHANGED <<arguments, stack, visited>>

Begin ==
  /\ outcome = "called"
  /\ source # target
  /\ upstream(target) # {}
  /\ stack' = upstream(target)
  /\ outcome' = "searching"
  /\ UNCHANGED <<arguments, visited>>

Found ==
  /\ outcome = "searching"
  /\ source \in stack
  /\ stack' = stack \ {source}
  /\ outcome' = "reachable"
  /\ UNCHANGED <<arguments, visited>>

(* `if node in visited: continue`                                          *)
Discard ==
  /\ outcome = "searching"
  /\ \E node \in stack \cap visited :
       /\ node # source
       /\ stack' = stack \ {node}
  /\ UNCHANGED <<arguments, visited, outcome>>

(* The predecessors are not pushed.                                        *)
ExpandNothing ==
  /\ outcome = "searching"
  /\ \E node \in stack \ visited :
       /\ node # source
       /\ visited' = visited \cup {node}
       /\ stack' = stack \ {node}
  /\ UNCHANGED <<arguments, outcome>>

(* `visited.add(node)` forgotten.                                          *)
ExpandUnrecorded ==
  /\ outcome = "searching"
  /\ \E node \in stack \ visited :
       /\ node # source
       /\ stack' = (stack \ {node}) \cup upstream(node)
  /\ UNCHANGED <<arguments, visited, outcome>>

Expand ==
  /\ outcome = "searching"
  /\ \E node \in stack \ visited :
       /\ node # source
       /\ visited' = visited \cup {node}
       /\ stack' = (stack \ {node}) \cup upstream(node)
  /\ UNCHANGED <<arguments, outcome>>

Exhausted ==
  /\ outcome = "searching"
  /\ stack = {}
  /\ outcome' = "unreachable"
  /\ UNCHANGED <<arguments, stack, visited>>

Next == Refuse \/ Begin \/ Found \/ Discard \/ Expand \/ Exhausted

(* One thread runs the search.                                             *)
Spec == Init /\ [][Next]_vars /\ WF_vars(Next)

-----------------------------------------------------------------------------
(* The nodes that can supply anything.                                     *)
Suppliers == {c.from_node : c \in UpstreamEdges}

TypeOK ==
  /\ nodes \in SUBSET Nodes
  /\ IsConnections(connections)
  /\ source \in nodes
  /\ target \in nodes
  /\ stack \subseteq Suppliers
  /\ visited \subseteq Suppliers
  /\ outcome \in {"called", "searching", "reachable", "unreachable"}

Answered == outcome \in {"reachable", "unreachable"}

(* The answer is membership in the upstream closure of target, whatever    *)
(* the order of the search and even on a cyclic graph; a node on a cycle   *)
(* is in its own closure and still may not refer to itself.                *)
AnswerIsAncestry ==
  Answered =>
    (outcome = "reachable" <=>
       source # target /\ source \in Ancestors(UpstreamEdges, target))

(* The search ends, on cyclic graphs because of the visited set.           *)
Terminates == <>Answered

(* What the docstrings say: an entry node, one without predecessors, may   *)
(* be referred to by every other node.                                     *)
EntryNodesAreReferable ==
  outcome = "unreachable" => source = target \/ upstream(source) # {}

-----------------------------------------------------------------------------
(* The inductive invariant: what the search has met is upstream of target, *)
(* and it loses none of it.                                                *)
Met == stack \cup visited

IInv ==
  /\ TypeOK
  /\ AnswerIsAncestry
  /\ outcome = "called" => visited = {}
  /\ outcome = "searching" =>
       /\ source # target
       /\ source \notin visited
       /\ Met \subseteq Ancestors(UpstreamEdges, target)
       /\ upstream(target) \subseteq Met
       /\ \A n \in visited : upstream(n) \subseteq Met
=============================================================================
