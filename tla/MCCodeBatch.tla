---------------------------- MODULE MCCodeBatch ----------------------------
(***************************************************************************)
(* Up to three nodes of two names: Code nodes with a script, a broken one, *)
(* none, or Python; LangChain Code nodes with one, both or neither script, *)
(* on every kind of edge; Code Tools; other nodes in between.              *)
(***************************************************************************)
EXTENDS CodeBatch

CONSTANTS x, y, z, s, t, bad

Node(ty, js, e, d, l) ==
  [type |-> ty, js |-> js, execute |-> e, supplyData |-> d, language |-> l]

Bodies == {
  Node("plain", Blank, Blank, Blank, "javaScript"),
  Node("code", s, Blank, Blank, "javaScript"),
  Node("code", bad, Blank, Blank, "javaScript"),
  Node("code", Blank, Blank, Blank, "javaScript"),
  Node("code", Blank, Blank, Blank, "python"),
  Node("code", t, Blank, Blank, "python"),
  Node("langchain", Blank, s, t, "javaScript"),
  Node("langchain", Blank, bad, Blank, "javaScript"),
  Node("langchain", Blank, Blank, t, "javaScript"),
  Node("langchain", t, Blank, Blank, "javaScript"),
  Node("tool", s, Blank, Blank, "javaScript"),
  Node("tool", s, Blank, Blank, "python")}

Named(n, body) ==
  [f \in DOMAIN body \cup {"name"} |-> IF f = "name" THEN n ELSE body[f]]

Three == {<<Named(x, p), Named(y, q), Named(z, r)>> : p, q, r \in Bodies}
Twins == {<<Named(x, p), Named(x, q)>> : p, q \in Bodies}

MCWorkflows ==
  {[nodes |-> w, flow |-> [n \in {x, y, z} |-> IF n = x THEN f ELSE g]] :
     w \in Three \cup Twins,
     f \in {{}, {"main"}, {"ai"}, {"main", "ai"}}, g \in {{"main"}}}
=============================================================================
