------------------------------- MODULE MCKahn -------------------------------
(* An instance of Kahn: every graph over four nodes without self loops,    *)
(* which _execution_orders never meets (compile_ast runs validate_workflow *)
(* first).  Longer cycles are kept, for the raise.  Node 2 may reach node  *)
(* 3 over a second port, and nodes 1 and 2 may be sub-nodes of node 4.     *)
EXTENDS Kahn

MCInit ==
  /\ connections \in SUBSET {c \in Connection :
                               /\ c.from_node # c.to_node
                               /\ c.from_port = 1 => <<c.from_node, c.to_node>> = <<2, 3>>}
  /\ ai_connections \in SUBSET {c \in Connection :
                               c.from_node \in {1, 2} /\ c.to_node = 4 /\ c.from_port = 0}
  /\ Start

MCSpec == MCInit /\ [][Next]_vars /\ WF_vars(Next)
=============================================================================
