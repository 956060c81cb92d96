------------------------------ MODULE MCLoadIr ------------------------------
(***************************************************************************)
(* A sound document of a node, a sub-node and the exit, and every document *)
(* that differs from it in one or two places.                              *)
(***************************************************************************)
EXTENDS LoadIr

CONSTANTS a, sub, gone, OtherScope

DocumentNode(k, e, w) == [key |-> k, exit |-> e, wellformed |-> w]
DocumentEdge(x, y, ty, i) ==
  [from |-> x, to |-> y, type |-> ty, port |-> TRUE, to_port |-> "main", index |-> i]

Sound ==
  [version |-> 2, digest |-> "match", exit_key |-> ExitKey, entries |-> {a},
   settings |-> "object", manifest |-> "ok",
   nodes |-> <<DocumentNode(ExitKey, TRUE, TRUE), DocumentNode(a, FALSE, TRUE), DocumentNode(sub, FALSE, TRUE)>>,
   connections |-> <<DocumentEdge(a, ExitKey, "main", "int"), DocumentEdge(sub, a, "ai", "int")>>,
   order |-> [s \in {Root} |-> <<a, ExitKey>>]]

Variants == [
  version |-> {1, 3},
  digest |-> {"mismatch", "absent"},
  exit_key |-> {a},
  entries |-> {{}, {gone}, {sub}},
  settings |-> {"absent", "other"},
  manifest |-> {"bad"},
  nodes |-> {<<>>, Tail(Sound.nodes), Append(Sound.nodes, DocumentNode(a, FALSE, TRUE)),
             Append(Sound.nodes, DocumentNode(gone, TRUE, TRUE)),
             <<DocumentNode(ExitKey, FALSE, TRUE), DocumentNode(a, FALSE, TRUE), DocumentNode(sub, FALSE, TRUE)>>,
             <<DocumentNode(ExitKey, TRUE, TRUE), DocumentNode(a, FALSE, FALSE), DocumentNode(sub, FALSE, TRUE)>>},
  connections |->
    {<<>>,
     <<DocumentEdge(a, ExitKey, "main", "absent")>>,
     <<DocumentEdge(a, gone, "main", "int")>>,
     <<DocumentEdge(a, ExitKey, "main", "int"), DocumentEdge(sub, gone, "ai", "int")>>,
     <<DocumentEdge(a, ExitKey, "main", "other"), DocumentEdge(sub, a, "ai", "int")>>,
     <<DocumentEdge(a, ExitKey, "main", "int"), DocumentEdge(sub, a, "foreign", "int")>>,
     <<DocumentEdge(a, ExitKey, "main", "int"), DocumentEdge(sub, a, "ai", "int"), DocumentEdge(sub, ExitKey, "main", "int")>>,
     <<[DocumentEdge(a, ExitKey, "main", "int") EXCEPT !.to_port = "type"], DocumentEdge(sub, a, "ai", "int")>>,
     <<DocumentEdge(a, ExitKey, "main", "int"), [DocumentEdge(sub, a, "ai", "int") EXCEPT !.to_port = "type"]>>,
     <<[DocumentEdge(a, ExitKey, "main", "int") EXCEPT !.port = FALSE], DocumentEdge(sub, a, "ai", "int")>>},
  order |->
    {[s \in {} |-> <<>>],
     [s \in {Root, OtherScope} |-> <<a, ExitKey>>],
     [s \in {Root} |-> <<ExitKey, a>>],
     [s \in {Root} |-> <<a>>],
     [s \in {Root} |-> <<a, ExitKey, a>>],
     [s \in {Root} |-> <<sub, a, ExitKey>>]}]

MCDocuments ==
  UNION {{[[Sound EXCEPT ![f] = v] EXCEPT ![h] = w] : v \in Variants[f], w \in Variants[h]} :
           f, h \in DOMAIN Sound}
  \cup {Sound}
=============================================================================
