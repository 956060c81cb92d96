------------------------------ MODULE MCCompile ------------------------------
(* An instance of Compile: every graph over nodes 1, 2 and 3 with at most  *)
(* one self loop, an exit connection, at most one non-main connection and  *)
(* at most one reference, and small graphs with a connection that leaves   *)
(* the exit node.  Node 3 may have been dropped, node 1 may be a trigger.  *)
(* References that do not fit, or are global, are node 2's.  Workflows     *)
(* without references have every combination of odd values.                *)
EXTENDS Compile

Inner == Nodes \ {Exit}

Edges(froms, tos) ==
  {c \in Connection : c.from_node \in froms /\ c.to_node \in tos}

MCRef ==
  {r \in Ref : r.target # Exit /\ (~ r.fits \/ r.source = Global => r.target = 2)}

MCInit ==
  /\ nodes \in {Nodes, Nodes \ {3}}
  /\ triggers \in {{}, {1}}
  /\ connections \in SUBSET ({c \in Edges(Inner, Inner) :
                                c.from_node = c.to_node => c.to_node = 1}
                             \cup Edges({2}, {Exit}))
                     \cup {cs \cup Edges({Exit}, {1}) : cs \in SUBSET Edges({1, 2}, {2, Exit})}
  /\ twice \in IF triggers = {} THEN {{}, connections \cap Edges({1}, {2})} ELSE {{}}
  /\ ai_connections \in {{}} \cup {{c} : c \in Edges({1, 3}, {2})}
  /\ foreign \in {{}, ai_connections}
  /\ faulty \in {{}, IF connections = {} THEN {2} ELSE {}}
  /\ refs \in {{}} \cup {{r} : r \in {x \in MCRef : x.target \in nodes}}
  /\ odd \in IF refs = {} THEN SUBSET Oddities ELSE {{}}
  /\ Start

MCSpec == MCInit /\ [][Next]_vars /\ WF_vars(Next)
=============================================================================
