------------------------------ MODULE Decompile ------------------------------
(***************************************************************************)
(* The round trip of runtime/decompile.py: a workflow is parsed, compiled  *)
(* to typed IR, decompiled to a workflow again, and that is compiled once  *)
(* more, and so on.  JSON objects keep the order of their keys and lists   *)
(* the order of their members, so connections are sequences here: the      *)
(* order inside a port is the order in which n8n runs the branches.        *)
(*                                                                         *)
(* A workflow has `names`, the order of its nodes; `entries`, one for each *)
(* source and type of connection: [from, type, ports], a port being a      *)
(* sequence of [node, index]; the error policy of its nodes and its        *)
(* settings.  Only workflows that compile are decompiled.                  *)
(***************************************************************************)
EXTENDS Integers, Sequences, FiniteSets, SequencesExt

CONSTANTS
  Workflows,   \* the workflows that start a round trip
  Multi,       \* nodes of a type with two declared outputs
  Sinks,       \* nodes of the kind `respond`
  Exit,        \* EXIT_NODE_KEY
  None,        \* a field that is not there
  Trips        \* bound: compilations in a row

ConnTypes == UNION {{e.type : e \in Range(w.entries)} : w \in Workflows}

(* What leads to one of the names, and the entries of a workflow of them.  *)
Edges(names) == [node : names, index : Nat]
EntryRecords(names) == [from : names, type : ConnTypes, ports : Seq(Seq(Edges(names)))]

(* The keys of an object are distinct: one entry for a source and a type.  *)
Distinct(entries) ==
  \A i, j \in DOMAIN entries :
    entries[i].from = entries[j].from /\ entries[i].type = entries[j].type => i = j

(* Names are numbered in their order.                                      *)
ASSUME DecompileAssumption ==
  /\ Trips \in Nat \ {0}
  /\ None \notin {"continue", "stop"}
  /\ \A w \in Workflows :
       /\ w.names \in Seq(Int) /\ Exit \notin Range(w.names)
       /\ w.entries \in Seq(EntryRecords(Range(w.names)))
       /\ Distinct(w.entries)

VARIABLES
  source,         \* the workflow that was given
  wf,             \* the workflow that is compiled next
  cursor,         \* the entry and the port parse_workflow reads next
  connections,    \* main connections it has read, later those to the exit
  ai_connections, \* the others
  terminals,      \* ends of the main flow to be connected to the exit
  ir,             \* the documents compiled so far
  pending,        \* connections decompile_to_workflow has still to restore
  restored,       \* entries of the workflow it builds
  trip_pc         \* "parse", "close" or "restore"

parse_vars == <<cursor, connections, ai_connections, terminals>>
trip_vars == <<source, wf, parse_vars, ir, pending, restored, trip_pc>>

Start == [entry |-> 1, port |-> 1]

TripInit ==
  /\ source \in Workflows
  /\ wf = source
  /\ cursor = Start
  /\ connections = <<>> /\ ai_connections = <<>> /\ terminals = <<>>
  /\ ir = <<>>
  /\ pending = <<>> /\ restored = <<>>
  /\ trip_pc = "parse"

-----------------------------------------------------------------------------
(* parse_workflow                                                          *)

(* Port names: <<"main">> and <<"main", i>>, as in module Parse.           *)
port_name(from, type, i) ==
  IF i # 0 \/ (type = "main" /\ from \in Multi) THEN <<"main", i>> ELSE <<"main">>

(* The connections of one port of an entry.                                *)
PortConnections(e, p) ==
  [k \in DOMAIN e.ports[p] |->
    [from_node |-> e.from, from_port |-> port_name(e.from, e.type, p - 1),
     to_node |-> e.ports[p][k].node, to_index |-> e.ports[p][k].index, conn_type |-> e.type]]

Reading == trip_pc = "parse" /\ Len(ir) < Trips

(* One turn of `for port_index, edges`.                                    *)
ReadPort ==
  /\ Reading
  /\ cursor.entry \in DOMAIN wf.entries
  /\ LET e == wf.entries[cursor.entry]
         read == PortConnections(e, cursor.port)
     IN  /\ cursor.port \in DOMAIN e.ports
         /\ connections' = IF e.type = "main" THEN connections \o read ELSE connections
         /\ ai_connections' = IF e.type = "main" THEN ai_connections ELSE ai_connections \o read
  /\ cursor' = [cursor EXCEPT !.port = @ + 1]
  /\ UNCHANGED <<source, wf, terminals, ir, pending, restored, trip_pc>>

NextEntry ==
  /\ Reading
  /\ cursor.entry \in DOMAIN wf.entries
  /\ cursor.port \notin DOMAIN wf.entries[cursor.entry].ports
  /\ cursor' = [entry |-> cursor.entry + 1, port |-> 1]
  /\ UNCHANGED <<source, wf, connections, ai_connections, terminals, ir, pending, restored, trip_pc>>

(* Names or positions, every one once, in their order.                     *)
sorted(names) ==
  CHOOSE s \in [1..Cardinality(names) -> names] :
    Range(s) = names /\ \A i, j \in DOMAIN s : i < j => s[i] < s[j]

terminal(n, main, ai) ==
  /\ \E c \in Range(main) : c.to_node = n
  /\ \A c \in Range(main) : c.from_node # n
  /\ n \notin Sinks
  /\ \A c \in Range(ai) : n \notin {c.from_node, c.to_node}

(* The ends of the main flow, in the order of the nodes.                   *)
Ends(names, main, ai) ==
  LET at == sorted({i \in DOMAIN names : terminal(names[i], main, ai)})
  IN  [k \in DOMAIN at |-> names[at[k]]]

FindTerminals ==
  /\ Reading
  /\ cursor.entry \notin DOMAIN wf.entries
  /\ terminals' = Ends(wf.names, connections, ai_connections)
  /\ trip_pc' = "close"
  /\ UNCHANGED <<source, wf, cursor, connections, ai_connections, ir, pending, restored>>

ExitConnections(n) ==
  [i \in 1..(IF n \in Multi THEN 2 ELSE 1) |->
    [from_node |-> n, from_port |-> port_name(n, "main", i - 1),
     to_node |-> Exit, to_index |-> 0, conn_type |-> "main"]]

(* One turn of `for key in terminals`.                                     *)
CloseOne ==
  /\ trip_pc = "close"
  /\ terminals # <<>>
  /\ connections' = connections \o ExitConnections(Head(terminals))
  /\ terminals' = Tail(terminals)
  /\ UNCHANGED <<source, wf, cursor, ai_connections, ir, pending, restored, trip_pc>>

-----------------------------------------------------------------------------
(* compile_ast                                                             *)

(* N8NErrorPolicy.from_node and to_dict.                                   *)
error_policy(raw) ==
  [on_error |-> IF raw.onError \in {"continue", "stop"} THEN raw.onError ELSE "stop",
   retry    |-> raw.retry,
   tries    |-> IF raw.retry THEN raw.tries ELSE None]

(* The document: the main connections, those to the exit, the others; the  *)
(* nodes by name.                                                          *)
document ==
  [nodes       |-> sorted(Range(wf.names)),
   connections |-> connections \o ai_connections,
   policy      |-> error_policy(wf.policy),
   settings    |-> IF wf.settings = None THEN "{}" ELSE wf.settings]

Compile ==
  /\ trip_pc = "close"
  /\ terminals = <<>>
  /\ ir' = Append(ir, document)
  /\ pending' = document.connections
  /\ restored' = <<>>
  /\ trip_pc' = "restore"
  /\ UNCHANGED <<source, wf, parse_vars>>

-----------------------------------------------------------------------------
(* decompile_to_workflow                                                   *)

port_index(port) == IF Len(port) = 2 THEN port[2] ELSE 0

(* Where the entry of a connection is, or is to be put: connections is an  *)
(* object of objects, a new type joins those of its source.                *)
Place(c) ==
  LET same == {i \in DOMAIN restored : restored[i].from = c.from_node}
      hit  == {i \in same : restored[i].type = c.conn_type}
  IN  IF hit # {} THEN [at |-> CHOOSE i \in hit : TRUE, new |-> FALSE]
      ELSE [at |-> IF same = {} THEN Len(restored) + 1
                   ELSE 1 + CHOOSE i \in same : \A j \in same : j <= i,
            new |-> TRUE]

(* The list of ports is not filled up to the index.                        *)
AddEdgeUnpadded(ports, c) ==
  LET edge == [node |-> c.to_node, index |-> c.to_index]
  IN  IF port_index(c.from_port) < Len(ports)
      THEN [ports EXCEPT ![port_index(c.from_port) + 1] = Append(@, edge)]
      ELSE Append(ports, <<edge>>)

(* type_ports, filled up to the index of the port.                         *)
AddEdge(ports, c) ==
  LET p == port_index(c.from_port) + 1
      padded == [i \in 1..(IF p > Len(ports) THEN p ELSE Len(ports)) |->
                   IF i <= Len(ports) THEN ports[i] ELSE <<>>]
  IN  [padded EXCEPT ![p] = Append(@, [node |-> c.to_node, index |-> c.to_index])]

(* A source that is new comes first.                                       *)
RestoreOneFirst ==
  /\ trip_pc = "restore"
  /\ pending # <<>>
  /\ LET c == Head(pending)
         at == Place(c)
     IN  restored' =
           IF c.to_node = Exit THEN restored
           ELSE IF at.new
           THEN <<[from |-> c.from_node, type |-> c.conn_type, ports |-> AddEdge(<<>>, c)]>> \o restored
           ELSE [restored EXCEPT ![at.at].ports = AddEdge(@, c)]
  /\ pending' = Tail(pending)
  /\ UNCHANGED <<source, wf, parse_vars, ir, trip_pc>>

(* One turn of `for conn in ir["connections"]`.                            *)
RestoreOne ==
  /\ trip_pc = "restore"
  /\ pending # <<>>
  /\ LET c == Head(pending)
         at == Place(c)
     IN  restored' =
           IF c.to_node = Exit THEN restored
           ELSE IF at.new
           THEN InsertAt(restored, at.at,
                  [from |-> c.from_node, type |-> c.conn_type, ports |-> AddEdge(<<>>, c)])
           ELSE [restored EXCEPT ![at.at].ports = AddEdge(@, c)]
  /\ pending' = Tail(pending)
  /\ UNCHANGED <<source, wf, parse_vars, ir, trip_pc>>

(* Only what differs from n8n's defaults is written back.                  *)
restore_policy(p) ==
  [onError |-> IF p.on_error = "stop" THEN None ELSE p.on_error,
   retry   |-> p.retry,
   tries   |-> IF p.retry THEN p.tries ELSE None]

(* The workflow is complete: no synthetic nodes, and settings in any case. *)
Restored ==
  /\ trip_pc = "restore"
  /\ pending = <<>>
  /\ LET d == Last(ir)
     IN  wf' = [names    |-> d.nodes,
                entries  |-> restored,
                policy   |-> restore_policy(d.policy),
                settings |-> IF d.settings = "{}" THEN "v1" ELSE d.settings]
  /\ cursor' = Start
  /\ connections' = <<>> /\ ai_connections' = <<>>
  /\ trip_pc' = "parse"
  /\ UNCHANGED <<source, terminals, ir, pending, restored>>

TripNext ==
  \/ ReadPort \/ NextEntry \/ FindTerminals \/ CloseOne
  \/ Compile \/ RestoreOne \/ Restored

TripSpec == TripInit /\ [][TripNext]_trip_vars

-----------------------------------------------------------------------------
(* The targets of an output of a workflow, in the order they run.          *)
TargetsIn(entries, from, type, p) ==
  LET hit == {i \in DOMAIN entries : entries[i].from = from /\ entries[i].type = type}
  IN  IF hit = {} THEN <<>>
      ELSE LET ports == entries[CHOOSE i \in hit : TRUE].ports
           IN  IF p \in DOMAIN ports THEN ports[p] ELSE <<>>

Targets(w, from, type, p) == TargetsIn(w.entries, from, type, p)

Outputs(w) == UNION {{<<e.from, e.type, p>> : p \in DOMAIN e.ports} : e \in Range(w.entries)}

TripTypeOK ==
  /\ Range(wf.names) = Range(source.names)
  /\ Len(ir) <= Trips
  /\ trip_pc \in {"parse", "close", "restore"}
  /\ \A e, f \in Range(restored) : e.from = f.from /\ e.type = f.type => e = f
  /\ \A e \in Range(wf.entries) : e.from \in Range(source.names)

(* What n8n makes of an error policy.                                      *)
Effective(raw) ==
  <<error_policy(raw).on_error, IF raw.retry THEN raw.tries ELSE 0>>

(* The round trip loses nothing ("verifies that compiling is lossless",    *)
(* runtime/decompile.py:9, translated): after any number of trips every    *)
(* output, of the main flow and of AI connections, feeds the same inputs   *)
(* in the same order, parallel connections counted, and nothing leads to   *)
(* the synthetic exit; only empty lists are lost.  A node of the           *)
(* decompiled workflow fails and retries as the given one, and settings    *)
(* that were given are kept.                                               *)
EdgesConserved ==
  /\ \A o \in Outputs(source) \cup Outputs(wf) :
       Targets(wf, o[1], o[2], o[3]) = Targets(source, o[1], o[2], o[3])
  /\ Effective(wf.policy) = Effective(source.policy)
  /\ source.settings \notin {None, "{}"} => wf.settings = source.settings

(* A second document may list connections in another order than the first, *)
(* for sources are regrouped and nodes sorted; after that nothing moves    *)
(* any more: the same document, and so the same digest, again and again.   *)
SettlesAfterTwo ==
  \A i, j \in 2..Len(ir) : ir[i] = ir[j]
=============================================================================
