--------------------------- MODULE MCCanReference ---------------------------
(* An instance of CanReference: every graph over the nodes, self loops and *)
(* cycles included; node 3 may be a dropped sticky note.                   *)
EXTENDS CanReference

MCInit ==
  /\ nodes \in {Nodes, Nodes \ {3}}
  /\ connections \in SUBSET Connection
  /\ source \in nodes
  /\ target \in nodes
  /\ Start

MCSpec == MCInit /\ [][Next]_vars /\ WF_vars(Next)
=============================================================================
