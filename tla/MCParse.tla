------------------------------- MODULE MCParse -------------------------------
(* An instance of Parse: nodes 1 to 3 of any kind, or a node with the      *)
(* reserved name, which a connection may leave; main connections from two  *)
(* outputs of node 1 and one of node 2, a non-main one of node 3, one      *)
(* parameter that reads something.                                         *)
EXTENDS Parse

MCPorts == {<<"main">>} \cup {<<"main", i>> : i \in 0..2}

Edge(f, i, t) == [from_node |-> f, index |-> i, to_node |-> t, to_index |-> 0]

MCInit ==
  /\ kind \in UNION {[S -> Kinds] : S \in {{1, 2, 3}, {1, 2, Exit}}}
  /\ rules \in IF \E n \in DOMAIN kind : kind[n] = "switch" THEN {None, -1, 0, 3} ELSE {None}
  /\ main \in SUBSET {Edge(1, 0, 2), Edge(1, 1, 2), Edge(1, 1, 3), Edge(2, 0, 3), Edge(2, 0, 2)}
              \cup {{Edge(1, 0, 2), Edge(Exit, 0, 2)}, {Edge(2, 0, Exit), Edge(Exit, 0, 1)}}
  /\ fault \in IF main = {} THEN Faults ELSE {"none"}
  /\ again \in {{}, main \cap {Edge(1, 0, 2)}}
  /\ ai \in {{}, {Edge(3, 0, 2)}, {Edge(3, 1, 1)}}
  /\ uses \in {{}} \cup {{<<n, x>>} : n \in {2, 3, Exit} \cap DOMAIN kind, x \in {1, 2, Json, Global}}
  /\ Start

MCSpec == MCInit /\ [][Next]_vars
=============================================================================
