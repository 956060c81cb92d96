----------------------------- MODULE MCManifest -----------------------------
(***************************************************************************)
(* Workflows of up to three nodes: resources with and without a name, and  *)
(* two types of credentials with an id, another id or none.                *)
(***************************************************************************)
EXTENDS Manifest, Functions

Shape(kind, model, name, cs) ==
  [kind |-> kind, model |-> model, name |-> name, credentials |-> cs]
Credentials == [type : {"api", "oauth"}, id : {"1", "2", NoName}]

Shapes ==
  {Shape("other", NoName, NoName, <<c>>) : c \in Credentials}
  \cup {Shape("other", NoName, NoName, <<[type |-> "api", id |-> "2"], [type |-> "oauth", id |-> "1"]>>)}
  \cup {Shape(k, NoName, m, <<>>) : k \in {"vectorStore", "tool", "webhook"}, m \in {"r", NoName}}
  \cup {Shape("other", m, NoName, <<>>) : m \in {"gpt", NoName}}

InOrder == <<"k1", "k2", "k3">>
MCNodeLists ==
  UNION {{[k \in 1 .. len |-> [key |-> InOrder[k], kind |-> s[k].kind, model |-> s[k].model,
                               name |-> s[k].name, credentials |-> s[k].credentials]] :
            s \in [1 .. len -> Shapes]} : len \in 0 .. 3}
=============================================================================
