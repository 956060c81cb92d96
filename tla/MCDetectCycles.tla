--------------------------- MODULE MCDetectCycles ---------------------------
(* Instances of DetectCycles: every graph over three nodes, self loops     *)
(* included, and every one without self loops over four, which is more     *)
(* than MaxDepth.  Parallel connections change nothing for the search, so  *)
(* one port is enough.                                                     *)
EXTENDS DetectCycles

MCInit ==
  /\ \/ connections \in SUBSET {c \in Connection : {c.from_node, c.to_node} \subseteq {1, 2, 3}}
     \/ connections \in SUBSET {c \in Connection : c.from_node # c.to_node}
  /\ Start

MCSpec == MCInit /\ [][Next]_vars
=============================================================================
