------------------------------ MODULE TopoSort ------------------------------
(***************************************************************************)
(* What the compiler promises of execution_order: it grows by the least    *)
(* node all of whose predecessors are already placed, until every node of  *)
(* the main topology is placed or none can be.  No queue, no counters.     *)
(***************************************************************************)
EXTENDS Ast, Sequences, Functions

VARIABLES
  connections, ai_connections,   \* the AST, never changed
  order,                         \* the execution order built so far
  outcome                        \* "running", "ordered" or "cycle"

ts_vars == <<connections, ai_connections, order, outcome>>

members == Nodes \ ai_only_subnodes(connections, ai_connections)

(* Predecessors of n in the main topology.                                 *)
Before(n) == predecessors(connections, n) \cap members

Placeable == {n \in members \ Range(order) : Before(n) \subseteq Range(order)}

TSInit ==
  /\ IsConnections(connections)
  /\ IsConnections(ai_connections)
  /\ order = <<>>
  /\ outcome = "running"

Place ==
  /\ outcome = "running"
  /\ \E n \in Placeable :
       /\ \A m \in Placeable : n <= m
       /\ order' = Append(order, n)
  /\ UNCHANGED <<connections, ai_connections, outcome>>

Stop ==
  /\ outcome = "running"
  /\ Placeable = {}
  /\ outcome' = IF Range(order) = members THEN "ordered" ELSE "cycle"
  /\ UNCHANGED <<connections, ai_connections, order>>

TSNext == Place \/ Stop

TSSafety == TSInit /\ [][TSNext]_ts_vars

TSSpec == TSSafety /\ WF_ts_vars(TSNext)
=============================================================================
