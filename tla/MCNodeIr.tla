------------------------------ MODULE MCNodeIr ------------------------------
(***************************************************************************)
(* A generic node and a Code node with every small combination of types,   *)
(* references, policy and contract, and the Code nodes of AI flows with    *)
(* the default policy.  The references are to a predecessor, to a node     *)
(* further up, and to the environment.                                     *)
(***************************************************************************)
EXTENDS NodeIr, TLC

Type(t) == <<>> :> [type |-> t, required |-> FALSE, desc |-> ""]
Below(step, t) ==
  [p \in {<<step>> \o q : q \in DOMAIN t} |-> t[Tail(p)]]
AnyType == Type("any")
Object(name, t) == Type("object") @@ Below(<<"properties", name>>, t)
List(t) == Type("list") @@ Below(<<"elem_type_info">>, t)
Types ==
  {AnyType, <<>> :> [type |-> "any", required |-> TRUE, desc |-> "d"], Type("object"),
   Object("a", List(Object("b", AnyType))), List(AnyType)}

Sources ==
  {[path |-> <<"p">>, node |-> "up", from_path |-> <<"a">>, variable_type |-> Null],
   [path |-> <<"q">>, node |-> "up", from_path |-> <<"b">>, variable_type |-> Null],
   [path |-> <<"p">>, node |-> "far", from_path |-> <<>>, variable_type |-> Null],
   [path |-> <<"p">>, node |-> "", from_path |-> <<"K">>, variable_type |-> "env"]}

Policy(on, retry, max) ==
  [on_error |-> on, retry_on_fail |-> retry, max_tries |-> max, wait_between_tries |-> Null]
Policies == {Policy("stopWorkflow", FALSE, Null), Policy("continueErrorOutput", TRUE, "3"),
             Policy("continue", FALSE, "3")}

Contract(deps, out, effect) ==
  [deps |-> deps, output |-> [kind |-> out, props |-> <<>>, elem |-> Null],
   effect |-> effect, runtime |-> "external", language |-> "js", source |-> "s",
   errors |-> <<>>, warnings |-> <<>>]
Contracts == {Contract(<<>>, "void", "unknown"),
              Contract(<<[base |-> "$json", path |-> <<"a">>]>>, "object", "pure")}

Declaration(type, out, sources, policy, credentials, contract, js_ast) ==
  [n8n_type |-> type, parameters |-> "p" :> "v", credentials |-> credentials,
   input_types |-> "main" :> AnyType, output_types |-> "main" :> out,
   input_sources |-> sources, error_policy |-> policy,
   js_contract |-> contract, js_ast |-> js_ast]

SourceLists == {s \in SeqOf(Sources, 3) : Len(s) < 3 \/ \E x \in Sources : s = <<x, x, x>>}
MCNodes ==
  {Declaration("n8n-nodes-base.set", t, <<x>>, p, "api" :> "id", <<>>, <<>>) :
     t \in Types, x \in Sources, p \in Policies}
  \cup {Declaration("n8n-nodes-base.set", AnyType, s, p, <<>>, <<>>, <<>>) :
     s \in SourceLists, p \in Policies}
  \cup {Declaration("n8n-nodes-base.code", Object("a", AnyType), s, p, <<>>, <<k>>,
                    "type" :> "Program") :
     s \in {<<>>} \cup {<<x>> : x \in Sources}, p \in Policies, k \in Contracts}
  \cup {Declaration(type, Object("a", AnyType), s, Policy("stopWorkflow", FALSE, Null),
                    <<>>, <<k>>, "type" :> "Program") :
     type \in {"@n8n/n8n-nodes-langchain.code", "@n8n/n8n-nodes-langchain.toolCode"},
     s \in {<<>>} \cup {<<x>> : x \in Sources}, k \in Contracts}

MCPredecessors == {"up"}
=============================================================================
