-------------------------------- MODULE Ast --------------------------------
(***************************************************************************)
(* The part of a WorkflowAST (ast_nodes/nodes.py) that the compiler's      *)
(* graph algorithms read: the node keys, the main connections and the      *)
(* non-main ("ai_*") connections.                                          *)
(*                                                                         *)
(* A node key is a string in the program.  Only equality and the order of  *)
(* Python's sort are used of it, so a key is a natural number here.        *)
(***************************************************************************)
EXTENDS Naturals, FiniteSets

CONSTANTS
  Nodes,    \* keys of ast.nodes, the synthetic exit included
  Ports,    \* names of output ports ("main", "main_1", ...)
  Indices   \* indices of input ports (two for a Merge node)

ASSUME AstAssumption == /\ Nodes \subseteq Nat
                        /\ IsFiniteSet(Nodes)

(* A Connection.  Its record is its `identity`: to_port is always "main"   *)
(* and the two lists of the AST tell main and non-main connections apart.  *)
Connection ==
  [from_node : Nodes, from_port : Ports, to_node : Nodes, to_index : Indices]

(* A list of connections of the AST, as a set: no consumer depends on the  *)
(* order, and a list with a repeated identity never passes validate_syntax.*)
IsConnections(conns) == conns \subseteq Connection /\ IsFiniteSet(conns)

predecessors(conns, n) == {c.from_node : c \in {d \in conns : d.to_node = n}}

successors(conns, n) == {c.to_node : c \in {d \in conns : d.from_node = n}}

Endpoints(conns) == {c.from_node : c \in conns} \cup {c.to_node : c \in conns}

(* compiler/workflow.py: sources of a non-main connection with no main     *)
(* connection at either end.                                               *)
ai_only_subnodes(conns, ais) == {c.from_node : c \in ais} \ Endpoints(conns)

(***************************************************************************)
(* Reference definitions, which no code computes.                          *)
(***************************************************************************)

(* Every non-empty set of nodes has one with no predecessor in the set:    *)
(* over a finite set this says that no path closes on itself.              *)
Acyclic(conns, N) ==
  \A S \in SUBSET N : S # {} =>
    \E n \in S : predecessors(conns, n) \cap S = {}

(* S holds the predecessors of n and of every node it holds.               *)
IsUpstreamClosed(conns, n, S) ==
  /\ predecessors(conns, n) \subseteq S
  /\ \A m \in S : predecessors(conns, m) \subseteq S

(* The nodes from which a path of one or more connections leads to n.      *)
Ancestors(conns, n) ==
  {a \in Nodes : \A S \in SUBSET Nodes : IsUpstreamClosed(conns, n, S) => a \in S}
============================================================================
