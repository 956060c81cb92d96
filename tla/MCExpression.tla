---------------------------- MODULE MCExpression ----------------------------
(* Every root and accessor with up to two steps, alone, twice, and in      *)
(* text; f is a word, g a name with a dot or a space in it, zero an index. *)
EXTENDS Expression

CONSTANTS X, f, g, gs, zero

MCWords == {JsonName, f}
MCPieces == [n \in MCWords \cup {g, zero} |-> IF n = g THEN gs ELSE n]

Step(n, by) == [name |-> n, by |-> by]
Steps == {Step(f, "dot"), Step(f, "bracket"), Step(g, "bracket"), Step(zero, "index")}
Paths == {<<>>} \cup {<<s>> : s \in Steps} \cup {<<s, u>> : s, u \in Steps}

Accessors == [node |-> {"none", "json", "foreign"}, json |-> {"none"},
              input |-> {"none", "item", "json", "foreign"},
              global |-> {"none"}, other |-> {"none"}]

MCExprs ==
  UNION {{[root |-> r, node |-> X, accessor |-> a, path |-> p, more |-> m] :
            a \in Accessors[r], p \in Paths, m \in BOOLEAN} : r \in DOMAIN Accessors}

Second == {e \in MCExprs : e.path = <<Step(f, "dot")>> /\ ~e.more /\ e.accessor \in {"none", "json"}}

MCValues ==
  {[text |-> t, tail |-> u, parts |-> p] :
     t, u \in BOOLEAN,
     p \in {<<>>} \cup {<<e>> : e \in MCExprs} \cup {<<e, d>> : e \in MCExprs, d \in Second}}
=============================================================================
