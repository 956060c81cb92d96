-------------------------------- MODULE Kahn --------------------------------
(***************************************************************************)
(* _execution_orders (compiler/workflow.py): Kahn's algorithm over the     *)
(* main connections.  The counter of a node counts connections, not        *)
(* predecessors: two ports of one node may lead to the same target.        *)
(*                                                                         *)
(* `ready` is a sorted list in the program, of which the head is taken;    *)
(* it is a set here, of which the least element is taken.  `pending` holds *)
(* what is left of the inner loop over outgoing[current].                  *)
(***************************************************************************)
EXTENDS Ast, Sequences, Functions

VARIABLES
  connections, ai_connections,   \* ast.connections, ast.ai_connections
  incoming,                      \* connections not yet accounted for, by target
  ready,                         \* nodes whose counter has reached zero
  pending,                       \* connections left in the inner loop
  order,                         \* the order built so far
  outcome                        \* "running", "ordered" (returned) or "cycle" (raised)

ast_vars == <<connections, ai_connections>>
vars == <<connections, ai_connections, incoming, ready, pending, order, outcome>>

members == Nodes \ ai_only_subnodes(connections, ai_connections)

(* The connections the loop over ast.connections keeps.                    *)
MainEdges == {c \in connections : c.from_node \in members /\ c.to_node \in members}

EdgesInto(n) == {c \in MainEdges : c.to_node = n}
EdgesOutOf(n) == {c \in MainEdges : c.from_node = n}

(* Faulty variants of an operation, named for their fault, stand before it *)
(* in every module: each must break a property.  Here: predecessors are    *)
(* counted instead of connections.                                         *)
StartByPredecessor ==
  /\ incoming = [n \in members |-> Cardinality(predecessors(MainEdges, n))]
  /\ ready = {n \in members : incoming[n] = 0}
  /\ pending = {}
  /\ order = <<>>
  /\ outcome = "running"

(* The counters and the first ready set.                                   *)
Start ==
  /\ incoming = [n \in members |-> Cardinality(EdgesInto(n))]
  /\ ready = {n \in members : incoming[n] = 0}
  /\ pending = {}
  /\ order = <<>>
  /\ outcome = "running"

Init ==
  /\ IsConnections(connections)
  /\ IsConnections(ai_connections)
  /\ Start

(* Without ready.sort().                                                   *)
PopUnsorted ==
  /\ outcome = "running"
  /\ pending = {}
  /\ \E current \in ready :
       /\ ready' = ready \ {current}
       /\ order' = Append(order, current)
       /\ pending' = EdgesOutOf(current)
  /\ UNCHANGED <<connections, ai_connections, incoming, outcome>>

(* current = ready.pop(0); order.append(current)                           *)
Pop ==
  /\ outcome = "running"
  /\ pending = {}
  /\ \E current \in ready :
       /\ \A m \in ready : current <= m
       /\ ready' = ready \ {current}
       /\ order' = Append(order, current)
       /\ pending' = EdgesOutOf(current)
  /\ UNCHANGED <<connections, ai_connections, incoming, outcome>>

(* One turn of `for successor in sorted(outgoing[current])`.               *)
Relax ==
  /\ \E c \in pending :
       /\ \A d \in pending : c.to_node <= d.to_node
       /\ incoming' = [incoming EXCEPT ![c.to_node] = @ - 1]
       /\ ready' = IF incoming[c.to_node] = 1 THEN ready \cup {c.to_node} ELSE ready
       /\ pending' = pending \ {c}
  /\ UNCHANGED <<connections, ai_connections, order, outcome>>

(* Sub-nodes counted as missing from the order.                            *)
FinishAllNodes ==
  /\ outcome = "running"
  /\ pending = {}
  /\ ready = {}
  /\ outcome' = IF Len(order) # Cardinality(Nodes) THEN "cycle" ELSE "ordered"
  /\ UNCHANGED <<connections, ai_connections, incoming, ready, pending, order>>

(* The loop ends: the order is returned, or the ValueError raised.         *)
Finish ==
  /\ outcome = "running"
  /\ pending = {}
  /\ ready = {}
  /\ outcome' = IF Len(order) # Cardinality(members) THEN "cycle" ELSE "ordered"
  /\ UNCHANGED <<connections, ai_connections, incoming, ready, pending, order>>

Next == Pop \/ Relax \/ Finish

(* A single thread runs the loop: it does not stop between two turns.      *)
Spec == Init /\ [][Next]_vars /\ WF_vars(Next)

-----------------------------------------------------------------------------
TypeOK ==
  /\ IsConnections(connections)
  /\ IsConnections(ai_connections)
  /\ incoming \in [members -> Nat]
  /\ ready \subseteq members
  /\ pending \subseteq MainEdges
  /\ order \in Seq(members)
  /\ outcome \in {"running", "ordered", "cycle"}

(* A node enters the order at most once, although several connections may  *)
(* bring its counter down (the `== 0` test of the inner loop).             *)
NoNodeTwice ==
  \A i, j \in 1..Len(order) : order[i] = order[j] => i = j

(* A node enters the order only after the source of each of its main       *)
(* connections: at run time its input data exists.                         *)
SourcesFirst ==
  \A c \in MainEdges : \A j \in 1..Len(order) :
    order[j] = c.to_node => \E i \in 1..(j - 1) : order[i] = c.from_node

(* The ValueError "workflow contains a cycle" is raised exactly for a main *)
(* topology with a cycle, and an order that is returned is complete.       *)
RaisesExactlyOnCycles ==
  /\ outcome = "ordered" => Acyclic(MainEdges, members) /\ Range(order) = members
  /\ outcome = "cycle" => ~ Acyclic(MainEdges, members)

(* The loop computes the abstract order: same order, same outcome.  That   *)
(* TopoSort goes on until it is through says that the while loop ends.     *)
Abstract == INSTANCE TopoSort WITH order <- order, outcome <- outcome
ImplementsTopoSort == Abstract!TSSpec

-----------------------------------------------------------------------------
(***************************************************************************)
(* The inductive invariant.                                                *)
(***************************************************************************)

(* The connections into n that its counter still counts.                   *)
Waiting(n) ==
  {c \in EdgesInto(n) : c.from_node \notin Range(order) \/ c \in pending}

(* Each counter counts exactly the connections that still hold its node    *)
(* back, and a node is in `ready` exactly when nothing holds it back and   *)
(* it is not placed yet: the loop neither loses a node nor takes it early. *)
CountersExact ==
  \A n \in members : /\ incoming[n] = Cardinality(Waiting(n))
                     /\ n \in ready <=> (incoming[n] = 0 /\ n \notin Range(order))

IInv ==
  /\ TypeOK
  /\ CountersExact
  /\ \A n \in Range(order) : incoming[n] = 0
  /\ \A c \in pending : c.from_node \in Range(order)
  /\ NoNodeTwice
  /\ Len(order) = Cardinality(Range(order))
  /\ SourcesFirst
  /\ Acyclic(MainEdges, Range(order))
  /\ outcome # "running" => ready = {} /\ pending = {}
  /\ RaisesExactlyOnCycles
=============================================================================
